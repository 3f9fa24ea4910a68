------------------------ MODULE WebhookDelivery_proofs ------------------------
(***************************************************************************)
(* Theorems about WebhookDelivery, for every list of delays and deadline.  *)
(***************************************************************************)
EXTENDS WebhookDelivery, TLAPS

USE WebhookAssumption

WebhookType ==
  /\ phase \in { "scheduled", "posting", "backoff" } \cup Ended
  /\ now \in 0 .. Deadline
  /\ posts \in Seq(Nat)
  /\ wake \in Nat
  /\ acked \in BOOLEAN

\* What is posted lies in the past, and the phase says how many POSTs there
\* have been; in a back-off the next one is far enough away.
Progress ==
  /\ \A i \in DOMAIN posts : posts[i] <= now
  /\ phase = "scheduled" => posts = << >>
  /\ phase = "posting" => Len(posts) \in 1 .. Len(Delays)
  /\ phase = "backoff" =>
       /\ Len(posts) \in 1 .. Len(Delays) - 1
       /\ wake >= posts[Len(posts)] + Delays[Len(posts)]
  /\ acked => phase = "returned"

WebhookInv == WebhookType /\ Progress /\ PostsSpaced

LEMMA DelaysFacts ==
  Len(Delays) \in Nat \ {0} /\ \A i \in 1 .. Len(Delays) : Delays[i] \in Nat
OBVIOUS

\* A POST keeps the distance if it is the first, or is made when the back-off
\* after the one before has ended.
LEMMA PostKeeps ==
  ASSUME WebhookInv, Post, now < Deadline,
         phase = "scheduled" \/ (phase = "backoff" /\ now = wake)
  PROVE  WebhookInv'
<1>1. /\ posts' = Append(posts, now) /\ phase' = "posting" /\ now' = now
      /\ wake' = wake /\ acked' = acked
  BY DEF Post
<1>2. now \in Nat /\ posts \in Seq(Nat)
  BY DEF WebhookInv, WebhookType
<1>3. /\ Len(posts) \in 0 .. Len(Delays) - 1
      /\ phase = "scheduled" => Len(posts) = 0
      /\ phase = "backoff" => Len(posts) \in 1 .. Len(Delays) - 1
  BY DelaysFacts DEF WebhookInv, WebhookType, Progress
<1>4. /\ posts' \in Seq(Nat)
      /\ Len(posts') = Len(posts) + 1
      /\ posts'[Len(posts) + 1] = now
      /\ \A i \in 1 .. Len(posts) : posts'[i] = posts[i]
      /\ DOMAIN posts' = 1 .. Len(posts) + 1
      /\ DOMAIN posts = 1 .. Len(posts)
  BY <1>1, <1>2, <1>3
<1>5. WebhookType'
  BY <1>1, <1>4 DEF WebhookInv, WebhookType
<1>6. ~ acked
  BY DEF WebhookInv, Progress
<1>7. \A i \in DOMAIN posts' : posts'[i] <= now
  <2>1. \A i \in 1 .. Len(posts) : posts[i] <= now
    BY <1>4, Zenon DEF WebhookInv, Progress
  <2>2. \A i \in 1 .. Len(posts) + 1 : i \in 1 .. Len(posts) \/ i = Len(posts) + 1
    BY <1>3
  <2>3. now <= now
    BY <1>2
  <2> QED BY <1>4, <2>1, <2>2, <2>3, Zenon
<1>8. Progress'
  <2>1. ~ acked' /\ phase' = "posting"
    BY <1>1, <1>6
  <2>2. Len(posts') \in 1 .. Len(Delays)
    BY <1>3, <1>4, DelaysFacts
  <2>3. \A i \in DOMAIN posts' : posts'[i] <= now'
    BY <1>1, <1>7
  <2> QED BY <2>1, <2>2, <2>3 DEF Progress
<1>9. \A i \in DOMAIN posts' : posts'[i] < Deadline
  <2>1. \A i \in 1 .. Len(posts) : posts[i] < Deadline
    BY <1>4 DEF WebhookInv, PostsSpaced
  <2>2. \A i \in 1 .. Len(posts) + 1 : i \in 1 .. Len(posts) \/ i = Len(posts) + 1
    BY <1>3
  <2> QED BY <1>4, <2>1, <2>2
<1>10. ASSUME NEW i \in DOMAIN posts', i > 1
       PROVE  posts'[i] >= posts'[i - 1] + Delays[i - 1]
  <2>1. i \in Nat /\ i - 1 \in 1 .. Len(posts) /\ posts'[i - 1] = posts[i - 1]
    BY <1>3, <1>4, <1>10
  <2>2. CASE i \in 1 .. Len(posts)
    BY <1>4, <1>10, <2>1, <2>2 DEF WebhookInv, PostsSpaced
  <2>3. CASE i = Len(posts) + 1
    <3>1. phase = "backoff" /\ now = wake
      BY <1>3, <1>10, <2>3
    <3>2. now >= posts[Len(posts)] + Delays[Len(posts)]
      BY <3>1 DEF WebhookInv, Progress
    <3>3. i - 1 = Len(posts)
      BY <1>3, <2>3
    <3> QED BY <1>4, <2>1, <2>3, <3>2, <3>3
  <2> QED BY <1>3, <1>4, <2>2, <2>3
<1>11. PostsSpaced'
  <2>1. Len(posts') <= Len(Delays)
    BY <1>3, <1>4, DelaysFacts
  <2> QED BY <1>9, <1>10, <2>1 DEF PostsSpaced
<1> QED BY <1>5, <1>8, <1>11 DEF WebhookInv

\* Whatever else the activity does leaves the POSTs alone.
LEMMA QuietKeeps ==
  ASSUME WebhookInv, posts' = posts, now' \in now .. Deadline,
         acked' \in BOOLEAN, acked' => phase' = "returned",
         \/ phase' \in Ended /\ wake' = wake
         \/ phase' = phase /\ wake' = wake
         \/ /\ phase = "posting" /\ phase' = "backoff"
            /\ Len(posts) < Len(Delays)
            /\ wake' = now + Delays[Len(posts)]
  PROVE  WebhookInv'
<1>1. /\ now \in 0 .. Deadline /\ posts \in Seq(Nat) /\ wake \in Nat
      /\ Len(posts) \in Nat /\ DOMAIN posts = 1 .. Len(posts)
      /\ phase = "posting" => Len(posts) \in 1 .. Len(Delays)
  BY DEF WebhookInv, WebhookType, Progress
<1>2. WebhookType'
  <2>1. wake' \in Nat
    BY <1>1, DelaysFacts DEF Ended
  <2>2. phase' \in { "scheduled", "posting", "backoff" } \cup Ended
    BY DEF WebhookInv, WebhookType
  <2> QED BY <1>1, <2>1, <2>2 DEF WebhookType
<1>3. \A i \in DOMAIN posts : posts[i] \in Nat /\ posts[i] <= now
  BY <1>1 DEF WebhookInv, Progress
<1>4. \A i \in DOMAIN posts : posts[i] <= now'
  BY <1>1, <1>3
<1>5. CASE phase = "posting" /\ phase' = "backoff"
  <2>1. /\ Len(posts) \in 1 .. Len(Delays) - 1
        /\ wake' = now + Delays[Len(posts)]
    BY <1>1, <1>5, DelaysFacts DEF Ended
  <2>2. wake' >= posts[Len(posts)] + Delays[Len(posts)]
    <3>1. Len(posts) \in 1 .. Len(posts) /\ Len(posts) \in 1 .. Len(Delays)
      BY <1>1, <2>1, DelaysFacts
    <3>2. posts[Len(posts)] \in Nat /\ posts[Len(posts)] <= now
      BY <1>1, <1>3, <3>1, Zenon
    <3>3. Delays[Len(posts)] \in Nat
      BY <3>1, DelaysFacts, Zenon
    <3> HIDE WebhookAssumption
    <3> QED BY <1>1, <2>1, <3>2, <3>3
  <2>3. Progress'
    BY <1>4, <1>5, <2>1, <2>2 DEF Progress
  <2> QED BY <1>2, <2>3 DEF WebhookInv, PostsSpaced
<1>6. CASE ~ (phase = "posting" /\ phase' = "backoff")
  <2>1. Progress'
    BY <1>4, <1>6 DEF WebhookInv, Progress, Ended
  <2> QED BY <1>2, <2>1 DEF WebhookInv, PostsSpaced
<1> QED BY <1>5, <1>6

LEMMA WebhookInit == WInit => WebhookInv
<1> SUFFICES ASSUME WInit PROVE WebhookInv
  OBVIOUS
<1>1. posts = << >> /\ now = 0 /\ wake = 0 /\ acked = FALSE /\ phase = "scheduled"
  BY DEF WInit
<1>2. Len(posts) = 0 /\ DOMAIN posts = {} /\ posts \in Seq(Nat)
  BY <1>1
<1>3. WebhookType
  <2>1. phase \in { "scheduled", "posting", "backoff" } /\ acked \in BOOLEAN
    BY <1>1, Zenon
  <2>2. now \in 0 .. Deadline /\ wake \in Nat
    BY <1>1
  <2> QED BY <1>2, <2>1, <2>2 DEF WebhookType
<1>4. Progress
  BY <1>1, <1>2 DEF Progress
<1>5. PostsSpaced
  BY <1>2 DEF PostsSpaced
<1> QED BY <1>3, <1>4, <1>5 DEF WebhookInv

LEMMA WebhookStep == WebhookInv /\ [WNext]_webhook => WebhookInv'
<1> SUFFICES ASSUME WebhookInv, [WNext]_webhook
             PROVE  WebhookInv'
  OBVIOUS
<1>0. /\ now \in 0 .. Deadline /\ acked \in BOOLEAN
      /\ acked => phase = "returned"
      /\ phase = "posting" => Len(posts) \in 1 .. Len(Delays)
  BY DEF WebhookInv, WebhookType, Progress
<1>1. CASE Dispatch
  <2>1. CASE Enabled
    <3>1. Post /\ phase = "scheduled" /\ now < Deadline
      BY <1>1, <2>1, Zenon DEF Dispatch
    <3> QED BY <3>1, PostKeeps
  <2>2. CASE ~ Enabled
    BY <1>0, <1>1, <2>2, QuietKeeps DEF Dispatch, Return, Ended
  <2> QED BY <2>1, <2>2
<1>2. CASE Drop
  BY <1>0, <1>2, QuietKeeps DEF Drop, Ended
<1>3. CASE Acknowledged
  BY <1>0, <1>3, QuietKeeps DEF Acknowledged, Return, Ended
<1>4. CASE PostFailed
  <2>1. CASE Len(posts) < Len(Delays) /\ now < Deadline
    BY <1>0, <1>4, <2>1, QuietKeeps DEF PostFailed
  <2>2. CASE ~ (Len(posts) < Len(Delays) /\ now < Deadline)
    BY <1>0, <1>4, <2>2, QuietKeeps DEF PostFailed, Return, Ended
  <2> QED BY <2>1, <2>2
<1>5. CASE NextPost
  BY <1>5, PostKeeps DEF NextPost
<1>6. CASE Cancelled
  BY <1>0, <1>6, QuietKeeps DEF Cancelled, Return, Ended
<1>7. CASE Crash
  BY <1>0, <1>7, QuietKeeps DEF Crash, Ended
<1>8. CASE Tick
  BY <1>0, <1>8, QuietKeeps DEF Tick
<1>9. CASE UNCHANGED webhook
  BY <1>0, <1>9, QuietKeeps DEF webhook
<1> QED BY <1>1, <1>2, <1>3, <1>4, <1>5, <1>6, <1>7, <1>8, <1>9 DEF WNext

\* notify_webhook.go 52-69: whatever the delays and the deadline are, there are
\* at most as many POSTs as delays, spaced by them and all before the deadline.
THEOREM PostsAreSpaced == WSpec => []PostsSpaced
<1>1. WInit /\ [][WNext]_webhook => []WebhookInv
  BY WebhookInit, WebhookStep, PTL
<1>2. WebhookInv => PostsSpaced
  BY DEF WebhookInv
<1> QED BY <1>1, <1>2, PTL DEF WSpec

\* A POST follows no 2xx: the activity returns with it.
LEMMA AckStep ==
  WebhookInv /\ [WNext]_webhook => [posts' # posts => ~ acked]_webhook
BY DEF WebhookInv, Progress, WNext, Dispatch, Drop, Acknowledged, PostFailed,
       NextPost, Cancelled, Crash, Tick, Return, Post, webhook

\* notify_webhook.go 57-59: nothing is posted after a 2xx.
THEOREM NothingPostedAfterAck == WSpec => NothingAfterAck
<1>1. WInit /\ [][WNext]_webhook => NothingAfterAck
  BY WebhookInit, WebhookStep, AckStep, PTL DEF NothingAfterAck
<1> QED BY <1>1, PTL DEF WSpec
=============================================================================
