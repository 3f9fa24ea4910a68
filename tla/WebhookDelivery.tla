---------------------------- MODULE WebhookDelivery ----------------------------
(***************************************************************************)
(* One webhook: fireWebhook schedules NotifyWebhook with 30 seconds from   *)
(* schedule to close and a single attempt, in the task that also completes *)
(* the workflow; NotifyWebhook posts up to three times with a back-off and *)
(* swallows every failure.  The unit of time is a second; what takes less  *)
(* happens between two ticks.                                              *)
(***************************************************************************)
EXTENDS Naturals, Sequences

CONSTANTS
  Delays,     \* notify_webhook.go 52: 1, 2 and 4 seconds; one POST for each
  Deadline,   \* payment_workflow.go 273: 30 seconds
  Enabled     \* whether WEBHOOK_URL is set

ASSUME WebhookAssumption ==
  /\ Delays \in Seq(Nat)
  /\ Delays # << >>
  /\ Deadline \in Nat \ {0}

VARIABLES
  phase,     \* what the activity is doing
  now,       \* seconds since it was scheduled
  posts,     \* when the POSTs were sent
  wake,      \* when the running back-off ends
  acked      \* whether the activity saw a 2xx

webhook == << phase, now, posts, wake, acked >>

Ended == { "dropped", "returned", "crashed" }

WInit ==
  /\ phase = "scheduled"
  /\ now = 0
  /\ posts = << >>
  /\ wake = 0
  /\ acked = FALSE

\* doPost: http.DefaultClient sends nothing once the context is done.
Post ==
  /\ posts' = Append(posts, now)
  /\ phase' = "posting"
  /\ UNCHANGED << now, wake, acked >>

Return ==
  /\ phase' = "returned"
  /\ UNCHANGED << now, posts, wake >>

\* A worker gets the activity task in time.
Dispatch ==
  /\ phase = "scheduled"
  /\ now < Deadline
  /\ IF Enabled THEN Post ELSE Return /\ UNCHANGED acked

\* The workflow closed in the task that scheduled the activity, so the server
\* need not dispatch it; after the deadline it may not.
Drop ==
  /\ phase = "scheduled"
  /\ phase' = "dropped"
  /\ UNCHANGED << now, posts, wake, acked >>

\* Mutant: the loop goes on after a 2xx.
MutPostAgain ==
  /\ phase = "posting"
  /\ acked' = TRUE
  /\ IF Len(posts) < Len(Delays)
       THEN /\ phase' = "backoff"
            /\ wake' = now + Delays[Len(posts)]
            /\ UNCHANGED << now, posts >>
       ELSE Return

Acknowledged ==
  /\ phase = "posting"
  /\ acked' = TRUE
  /\ Return

\* Mutant: the back-off is left out.
MutNoBackoff ==
  /\ phase = "posting"
  /\ IF Len(posts) < Len(Delays)
       THEN /\ phase' = "backoff"
            /\ wake' = now
            /\ UNCHANGED << now, posts, acked >>
       ELSE Return /\ UNCHANGED acked

\* Mutant: the request is made without the context.
MutPostWithoutContext ==
  /\ phase = "posting"
  /\ now < Deadline
  /\ IF Len(posts) < Len(Delays)
       THEN /\ phase' = "backoff"
            /\ wake' = now + Delays[Len(posts)]
            /\ UNCHANGED << now, posts, acked >>
       ELSE Return /\ UNCHANGED acked

\* Refused, not 2xx, or an answer that was lost; with the context done the
\* select after the failure returns.  The last delay is never waited for.
PostFailed ==
  /\ phase = "posting"
  /\ IF Len(posts) < Len(Delays) /\ now < Deadline
       THEN /\ phase' = "backoff"
            /\ wake' = now + Delays[Len(posts)]
            /\ UNCHANGED << now, posts, acked >>
       ELSE Return /\ UNCHANGED acked

NextPost ==
  /\ phase = "backoff"
  /\ now = wake
  /\ now < Deadline
  /\ Post

\* ctx.Done in the back-off.
Cancelled ==
  /\ phase = "backoff"
  /\ now >= Deadline
  /\ Return
  /\ UNCHANGED acked

\* The worker stops; with MaximumAttempts = 1 nobody takes over.
Crash ==
  /\ phase \in {"posting", "backoff"}
  /\ phase' = "crashed"
  /\ UNCHANGED << now, posts, wake, acked >>

\* A second passes: a receiver may keep a POST open until the deadline.
Tick ==
  /\ phase \in {"scheduled", "posting", "backoff"}
  /\ phase = "backoff" => now < wake
  /\ now < Deadline
  /\ now' = now + 1
  /\ UNCHANGED << phase, posts, wake, acked >>

WNext ==
  \/ Dispatch
  \/ Drop
  \/ Acknowledged
  \/ PostFailed
  \/ NextPost
  \/ Cancelled
  \/ Crash
  \/ Tick

\* Time passes and the code runs; at the deadline the server drops what is
\* still scheduled and the context ends what is open.  No receiver need ever
\* answer.
WSpec ==
  /\ WInit /\ [][WNext]_webhook
  /\ WF_webhook(Tick)
  /\ WF_webhook(NextPost)
  /\ WF_webhook(Cancelled)
  /\ WF_webhook(now >= Deadline /\ (PostFailed \/ Drop))

-----------------------------------------------------------------------------

\* notify_webhook.go 52-69: at most as many POSTs as there are delays, each at
\* least its delay after the one before, all before the deadline, however
\* long each takes to fail.
PostsSpaced ==
  /\ Len(posts) <= Len(Delays)
  /\ \A i \in DOMAIN posts :
       /\ posts[i] < Deadline
       /\ i > 1 => posts[i] >= posts[i - 1] + Delays[i - 1]

\* notify_webhook.go 57-59: a receiver whose 2xx was seen gets no more POSTs.
NothingAfterAck == [][posts' # posts => ~ acked]_webhook

\* notify_webhook.go 29, 64: the activity does not block: with a receiver
\* that never answers it is over at the deadline.
WebhookEnds == <>[](phase \in Ended)
=============================================================================
