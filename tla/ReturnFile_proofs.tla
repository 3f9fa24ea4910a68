---------------------------- MODULE ReturnFile_proofs ----------------------------
(***************************************************************************)
(* Theorems about ReturnFile and the parser of NachaFile in it, for files  *)
(* of any length and any number of runs: what the loop of ParseFile finds  *)
(* is what the lines say, and a run that succeeds signalled all of it.     *)
(***************************************************************************)
EXTENDS ReturnFile, PaymentDebit_proofs, WellFoundedInduction

USE LimitAssumption, FilesAssumption,
    ConstantsAssumption, PrefixAssumption, RCodesAssumption

(***************************************************************************)
(* The invariant of the loop.  The entries found and the one that waits    *)
(* say together what the lines read so far say; one waits exactly while no *)
(* record has closed the last entry; and no line read was bad.             *)
(***************************************************************************)

Entries == [trace : Traces, amount : Nat, code : Codes \cup {NoRCode}]

ParserType ==
  /\ file \in Seq(Lines)
  /\ entries \in Seq(Entries)
  /\ pending \in Seq(Entries) /\ Len(pending) <= 1
  /\ result \in { "parsing", "ok", "error" }

At == { i \in DOMAIN file : IsEntry(file[i]) }

Rank(i) == Cardinality({ k \in At : k <= i })

All == entries \o pending

Found ==
  /\ Len(All) = Cardinality(At)
  /\ \A i \in At : All[Rank(i)] = Said(i)

Readable == \A i \in DOMAIN file : ~ Bad(i)

ParserInv ==
  /\ ParserType
  /\ result # "error" => Found /\ Readable
  /\ result = "parsing" => (pending = NoEntry <=> \A i \in At : ClosedBy(i) # 0)
  /\ result = "parsing" /\ pending # NoEntry => pending[1].code = NoRCode
  /\ result = "ok" => pending = NoEntry
  /\ result = "error" => entries = << >> /\ ~ Readable

(***************************************************************************)
(* Reading one more line.                                                  *)
(***************************************************************************)

LEMMA LeastOf ==
  ASSUME NEW S, S \subseteq Nat, S # {}
  PROVE  \E j \in S : \A k \in S : j <= k
<1>1. IsWellFoundedOn(OpToRel(<, Nat), Nat) BY NatLessThanWellFounded
<1>2. PICK x \in S : \A y \in S : ~ (<< y, x >> \in OpToRel(<, Nat))
  BY <1>1, WFMin, Zenon
<1>3. \A y \in S : ~ (y < x)
  <2> SUFFICES ASSUME NEW y \in S, y < x PROVE FALSE
    OBVIOUS
  <2>1. << y, x >> \in Nat \X Nat BY SMT
  <2>2. << y, x >> \in OpToRel(<, Nat) BY <2>1, Zenon DEF OpToRel
  <2> QED BY <1>2, <2>2, Zenon
<1> QED BY <1>3

LEMMA LineFacts ==
  ASSUME NEW line \in Lines
  PROVE  /\ line.type \in { "1", "5", "6", "7", "8", "9", "short", "unknown" }
         /\ line.type = "1" => (line.priority = "01" <=> line # Header(Malformed))
         /\ line.type # "1" => line # Header(Malformed)
         /\ line.type = "6" =>
              /\ line.trace \in Traces /\ line.amount \in Nat
              /\ line.number \in BOOLEAN
         /\ line.type = "7" => line.code \in Codes \cup {Malformed}
<1>1. CASE line \in { Header("01"), Header(Malformed) }
  BY <1>1 DEF Header, Malformed
<1>2. ASSUME NEW t \in Traces, NEW a \in Cents, NEW n \in BOOLEAN,
             line = [Entry(t, AmountField(a)) EXCEPT !.number = n]
      PROVE  /\ line.type = "6" /\ line.trace = t /\ line.number = n
             /\ line.amount \in Nat /\ line # Header(Malformed)
  <2>1. a % AmountLimit \in Nat OBVIOUS
  <2> QED BY <1>2, <2>1 DEF Entry, Header, AmountField
<1>3. ASSUME NEW c \in Codes \cup {Malformed}, line = Addenda(c)
      PROVE  line.type = "7" /\ line.code = c /\ line # Header(Malformed)
  BY <1>3 DEF Addenda, Header
<1>4. ASSUME NEW type \in { "5", "8", "9", "short", "unknown" },
             line = Plain(type)
      PROVE  line.type = type /\ line # Header(Malformed)
  BY <1>4 DEF Plain, Header
<1>5. \/ line \in { Header("01"), Header(Malformed) }
      \/ \E t \in Traces, a \in Cents, n \in BOOLEAN :
           line = [Entry(t, AmountField(a)) EXCEPT !.number = n]
      \/ \E c \in Codes \cup {Malformed} : line = Addenda(c)
      \/ \E type \in { "5", "8", "9", "short", "unknown" } : line = Plain(type)
  BY DEF Lines
<1> QED BY <1>1, <1>2, <1>3, <1>4, <1>5

LEMMA Appended ==
  ASSUME file \in Seq(Lines), NEW line \in Lines, file' = Append(file, line)
  PROVE  /\ Len(file) \in Nat /\ DOMAIN file = 1 .. Len(file)
         /\ file' \in Seq(Lines) /\ Len(file') = Len(file) + 1
         /\ DOMAIN file' = 1 .. Len(file) + 1
         /\ \A i \in 1 .. Len(file) : file'[i] = file[i]
         /\ file'[Len(file) + 1] = line
OBVIOUS

\* The entries are finitely many and ranked by their positions.
LEMMA Ranks ==
  ASSUME file \in Seq(Lines)
  PROVE  /\ IsFiniteSet(At) /\ Cardinality(At) \in Nat
         /\ At \subseteq 1 .. Len(file)
         /\ \A i \in At : Rank(i) \in 1 .. Cardinality(At)
         /\ \A i, j \in At : i < j => Rank(i) < Cardinality(At)
         /\ \A i \in At : (\A j \in At : j <= i) => Rank(i) = Cardinality(At)
<1>1. At \subseteq 1 .. Len(file) BY DEF At
<1>2. Len(file) \in Nat OBVIOUS
<1>3. IsFiniteSet(1 .. Len(file))
  <2>1. PICK n \in Nat : n = Len(file) BY <1>2
  <2>2. IsFiniteSet(1 .. n)
    <3>1. n \in Int /\ 1 \in Int OBVIOUS
    <3> QED BY <3>1, FS_Interval
  <2> QED BY <2>1, <2>2
<1>4. IsFiniteSet(At) /\ Cardinality(At) \in Nat
  BY <1>1, <1>3, FS_Subset, FS_CardinalityType
<1>5. ASSUME NEW i \in At PROVE Rank(i) \in 1 .. Cardinality(At)
  <2> DEFINE S == { k \in At : k <= i }
  <2>1. i \in S BY <1>1
  <2>2. IsFiniteSet(S) /\ Cardinality(S) <= Cardinality(At)
    BY <1>4, FS_Subset
  <2>3. Cardinality(S) \in Nat /\ Cardinality(S) # 0
    BY <2>1, <2>2, FS_CardinalityType, FS_EmptySet
  <2> QED BY <1>4, <2>2, <2>3 DEF Rank
<1>6. ASSUME NEW i \in At, NEW j \in At, i < j
      PROVE  Rank(i) < Cardinality(At)
  <2> DEFINE S == { k \in At : k <= i }
  <2>1. j \notin S BY <1>1, <1>6
  <2>2. S # At BY <2>1
  <2>3. /\ IsFiniteSet(S) /\ Cardinality(S) <= Cardinality(At)
        /\ Cardinality(At) # Cardinality(S)
    BY <1>4, <2>2, FS_Subset
  <2>4. Cardinality(S) \in Nat BY <2>3, FS_CardinalityType
  <2> QED BY <1>4, <2>3, <2>4 DEF Rank
<1>7. ASSUME NEW i \in At, \A j \in At : j <= i
      PROVE  Rank(i) = Cardinality(At)
  <2>1. { k \in At : k <= i } = At BY <1>7
  <2> QED BY <2>1 DEF Rank
<1> QED BY <1>1, <1>4, <1>5, <1>6, <1>7

\* A new line leaves the ranks of the entries before it; an entry is last.
LEMMA RanksAppended ==
  ASSUME file \in Seq(Lines), NEW line \in Lines, file' = Append(file, line),
         NEW n \in Nat, n = Len(file)
  PROVE  /\ At' = IF IsEntry(line) THEN At \cup {n + 1} ELSE At
         /\ \A i \in At : Rank(i)' = Rank(i)
         /\ Cardinality(At)' = IF IsEntry(line) THEN Cardinality(At) + 1
                                                ELSE Cardinality(At)
         /\ IsEntry(line) => Rank(n + 1)' = Cardinality(At) + 1
<1>1. n + 1 \in Nat OBVIOUS
<1>2. At' = IF IsEntry(line) THEN At \cup {n + 1} ELSE At
  BY Appended DEF At, IsEntry
<1>3. At \subseteq 1 .. n /\ IsFiniteSet(At) /\ Cardinality(At) \in Nat
  BY Ranks
<1>4. n + 1 \notin At BY <1>1, <1>3
<1>5. ASSUME NEW i \in At PROVE Rank(i)' = Rank(i)
  <2>1. i \in Nat /\ i < n + 1 BY <1>1, <1>3
  <2>2. { k \in At' : k <= i } = { k \in At : k <= i } BY <1>1, <1>2, <2>1
  <2> QED BY <2>2 DEF Rank
<1>6. Cardinality(At \cup {n + 1}) = Cardinality(At) + 1
  BY <1>3, <1>4, FS_AddElement
<1>7. Cardinality(At)' = IF IsEntry(line) THEN Cardinality(At) + 1
                                          ELSE Cardinality(At)
  BY <1>2, <1>6
<1>8. ASSUME IsEntry(line) PROVE Rank(n + 1)' = Cardinality(At) + 1
  <2>1. At' = At \cup {n + 1} BY <1>2, <1>8
  <2>2. \A k \in At \cup {n + 1} : k <= n + 1
    <3>1. \A k \in 1 .. n : k <= n + 1 OBVIOUS
    <3>2. n + 1 <= n + 1 BY <1>1
    <3> QED BY <1>3, <3>1, <3>2
  <2>3. { k \in At' : k <= n + 1 } = At \cup {n + 1} BY <2>1, <2>2
  <2> QED BY <1>6, <2>3 DEF Rank
<1> QED BY <1>2, <1>5, <1>7, <1>8

\* The least position after i of a closing line of f, or 0.
FirstClosing(f, i) ==
  LET after == { j \in i + 1 .. Len(f) : Closes(f[j]) }
  IN  IF after = {} THEN 0 ELSE CHOOSE j \in after : \A k \in after : j <= k

LEMMA Closing ==
  ASSUME NEW f, f \in Seq(Lines), NEW i \in 1 .. Len(f)
  PROVE  LET c == FirstClosing(f, i)
         IN  /\ c \in {0} \cup (i + 1 .. Len(f))
             /\ c = 0 <=> \A j \in i + 1 .. Len(f) : ~ Closes(f[j])
             /\ c # 0 =>
                  /\ Closes(f[c])
                  /\ \A j \in i + 1 .. Len(f) : Closes(f[j]) => c <= j
<1> DEFINE after == { j \in i + 1 .. Len(f) : Closes(f[j]) }
           c == FirstClosing(f, i)
<1>1. Len(f) \in Nat /\ i \in Nat OBVIOUS
<1>2. after \subseteq Nat BY <1>1
<1>3. CASE after = {}
  <2>1. c = 0 BY <1>3 DEF FirstClosing
  <2> QED BY <1>3, <2>1
<1>4. CASE after # {}
  <2>1. \E j \in after : \A k \in after : j <= k
    <3> HIDE DEF after
    <3> QED BY <1>2, <1>4, LeastOf
  <2>2. c = CHOOSE j \in after : \A k \in after : j <= k
    BY <1>4, Zenon DEF FirstClosing
  <2>3. c \in after /\ \A k \in after : c <= k
    <3> HIDE DEF after, c
    <3> QED BY <2>1, <2>2, Zenon
  <2>4. c # 0
    <3> HIDE DEF c
    <3> QED BY <1>1, <2>3
  <2> HIDE DEF c
  <2>5. /\ c \in i + 1 .. Len(f) /\ Closes(f[c])
        /\ \A j \in i + 1 .. Len(f) : Closes(f[j]) => c <= j
    BY <2>3
  <2>6. ~ \A j \in i + 1 .. Len(f) : ~ Closes(f[j]) BY <2>5
  <2> QED BY <2>4, <2>5, <2>6 DEF c
<1> QED BY <1>3, <1>4

\* ClosedBy is about the lines read so far.
LEMMA ClosedByFirst ==
  ASSUME NEW i
  PROVE  /\ ClosedBy(i) = FirstClosing(file, i)
         /\ ClosedBy(i)' = FirstClosing(file', i)
BY Zenon DEF ClosedBy, FirstClosing, Closes

\* A new line closes what is not closed yet, if it is a record that can.
LEMMA ClosingAppended ==
  ASSUME file \in Seq(Lines), NEW line \in Lines, file' = Append(file, line),
         NEW n \in Nat, n = Len(file)
  PROVE  /\ \A i \in 1 .. n :
              ClosedBy(i)' = IF ClosedBy(i) # 0 THEN ClosedBy(i)
                             ELSE IF Closes(line) THEN n + 1 ELSE 0
         /\ ClosedBy(n + 1)' = 0
<1>1. /\ file' \in Seq(Lines) /\ Len(file') = n + 1
      /\ \A j \in 1 .. n : file'[j] = file[j]
      /\ file'[n + 1] = line
  BY Appended
<1>2. ASSUME NEW i \in 1 .. n + 1
      PROVE  /\ ClosedBy(i)' \in {0} \cup (i + 1 .. n + 1)
             /\ ClosedBy(i)' = 0 <=> \A j \in i + 1 .. n + 1 : ~ Closes(file'[j])
             /\ ClosedBy(i)' # 0 =>
                  /\ Closes(file'[ClosedBy(i)'])
                  /\ \A j \in i + 1 .. n + 1 :
                       Closes(file'[j]) => ClosedBy(i)' <= j
  <2>1. file' \in Seq(Lines) /\ i \in 1 .. Len(file') BY <1>1
  <2> DEFINE c == FirstClosing(file', i)
  <2>2. /\ c \in {0} \cup (i + 1 .. Len(file'))
        /\ c = 0 <=> \A j \in i + 1 .. Len(file') : ~ Closes(file'[j])
        /\ c # 0 =>
             /\ Closes(file'[c])
             /\ \A j \in i + 1 .. Len(file') : Closes(file'[j]) => c <= j
    BY <2>1, Closing
  <2>3. ClosedBy(i)' = c BY ClosedByFirst
  <2> HIDE DEF c
  <2> QED BY <1>1, <2>2, <2>3
<1>3. ASSUME NEW i \in 1 .. n, ClosedBy(i) # 0
      PROVE  ClosedBy(i)' = ClosedBy(i)
  <2>1. /\ ClosedBy(i) \in i + 1 .. n /\ Closes(file[ClosedBy(i)])
        /\ \A j \in i + 1 .. n : Closes(file[j]) => ClosedBy(i) <= j
    BY <1>3, Closing, ClosedByFirst
  <2>2. ClosedBy(i) \in 1 .. n /\ ClosedBy(i) \in i + 1 .. n + 1 BY <2>1
  <2>3. ClosedBy(i)' # 0 /\ ClosedBy(i)' <= ClosedBy(i)
    BY <1>1, <1>2, <2>1, <2>2
  <2>4. ClosedBy(i)' \in i + 1 .. n BY <1>2, <2>1, <2>3
  <2>5. Closes(file[ClosedBy(i)']) BY <1>1, <1>2, <2>3, <2>4
  <2>6. ClosedBy(i) <= ClosedBy(i)' BY <2>1, <2>4, <2>5
  <2> QED BY <2>1, <2>3, <2>4, <2>6
<1>4. ASSUME NEW i \in 1 .. n, ClosedBy(i) = 0
      PROVE  ClosedBy(i)' = IF Closes(line) THEN n + 1 ELSE 0
  <2>1. \A j \in i + 1 .. n : ~ Closes(file[j]) BY <1>4, Closing, ClosedByFirst
  <2>2. \A j \in i + 1 .. n : ~ Closes(file'[j]) BY <1>1, <2>1
  <2>3. \A j \in i + 1 .. n + 1 : j \in i + 1 .. n \/ j = n + 1 OBVIOUS
  <2>4. i \in 1 .. n + 1 /\ n + 1 \in i + 1 .. n + 1 OBVIOUS
  <2> QED BY <1>1, <1>2, <2>2, <2>3, <2>4
<1>5. ClosedBy(n + 1)' = 0
  <2>1. n + 1 \in 1 .. n + 1 /\ (n + 1) + 1 .. n + 1 = {} OBVIOUS
  <2> QED BY <1>2, <2>1
<1> QED BY <1>3, <1>4, <1>5

\* What the entries say after one more line: an addenda gives its code to the
\* entry that is not closed, and nothing else changes.
LEMMA SaidAppended ==
  ASSUME file \in Seq(Lines), NEW line \in Lines, file' = Append(file, line),
         NEW n \in Nat, n = Len(file)
  PROVE  /\ \A i \in 1 .. n :
              /\ ClosedBy(i) # 0 \/ line.type # "7" => Said(i)' = Said(i)
              /\ ClosedBy(i) = 0 /\ line.type = "7" =>
                   Said(i)' = [Said(i) EXCEPT !.code = line.code]
         /\ IsEntry(line) =>
              Said(n + 1)' = [trace |-> line.trace, amount |-> line.amount,
                              code |-> NoRCode]
<1>1. /\ \A j \in 1 .. n : file'[j] = file[j]
      /\ file'[n + 1] = line
      /\ n + 1 \in Nat
  BY Appended
<1>2. ASSUME NEW i \in 1 .. n
      PROVE  /\ ClosedBy(i) # 0 \/ line.type # "7" => Said(i)' = Said(i)
             /\ ClosedBy(i) = 0 /\ line.type = "7" =>
                  Said(i)' = [Said(i) EXCEPT !.code = line.code]
  <2>1. file'[i] = file[i] BY <1>1
  <2>2. CASE ClosedBy(i) # 0
    <3>1. ClosedBy(i)' = ClosedBy(i) BY <2>2, ClosingAppended
    <3>2. ClosedBy(i) \in 1 .. n BY <2>2, Closing, ClosedByFirst
    <3>3. file'[ClosedBy(i)] = file[ClosedBy(i)] BY <1>1, <3>2
    <3>4. Said(i)' = Said(i) BY <2>1, <3>1, <3>3 DEF Said
    <3> QED BY <2>2, <3>4
  <2>3. CASE ClosedBy(i) = 0
    <3>1. ClosedBy(i)' = IF Closes(line) THEN n + 1 ELSE 0
      BY <2>3, ClosingAppended
    <3>2. Said(i) = [trace |-> file[i].trace, amount |-> file[i].amount,
                     code |-> NoRCode]
      BY <2>3 DEF Said
    <3>3. CASE line.type = "7"
      <4>1. ClosedBy(i)' = n + 1 BY <3>1, <3>3 DEF Closes
      <4>2. n + 1 # 0 OBVIOUS
      <4>3. Said(i)' = [trace |-> file[i].trace, amount |-> file[i].amount,
                        code |-> line.code]
        BY <1>1, <2>1, <3>3, <4>1, <4>2 DEF Said
      <4> QED BY <2>3, <3>2, <3>3, <4>3
    <3>4. CASE line.type # "7"
      <4>1. ClosedBy(i)' # 0 => file'[ClosedBy(i)'].type # "7"
        BY <1>1, <3>1, <3>4
      <4>2. Said(i)' = [trace |-> file[i].trace, amount |-> file[i].amount,
                        code |-> NoRCode]
        BY <2>1, <4>1 DEF Said
      <4> QED BY <3>2, <3>4, <4>2
    <3> QED BY <3>3, <3>4
  <2> QED BY <2>2, <2>3
<1>3. Said(n + 1)' = [trace |-> line.trace, amount |-> line.amount,
                      code |-> NoRCode]
  <2>1. ClosedBy(n + 1)' = 0 BY ClosingAppended
  <2> QED BY <1>1, <2>1 DEF Said
<1> QED BY <1>2, <1>3

\* Whether a line is bad depends on the lines before it alone.
LEMMA BadAppended ==
  ASSUME file \in Seq(Lines), NEW line \in Lines, file' = Append(file, line),
         NEW n \in Nat, n = Len(file)
  PROVE  /\ \A i \in 1 .. n : Bad(i)' <=> Bad(i)
         /\ Bad(n + 1)' <=>
              \/ line.type = "unknown"
              \/ line = Header(Malformed)
              \/ line.type = "6" /\ ~ line.number
              \/ /\ line.type = "7"
                 /\ line.code = Malformed \/ \A k \in At : ClosedBy(k) # 0
<1>1. /\ \A j \in 1 .. n : file'[j] = file[j]
      /\ file'[n + 1] = line
      /\ DOMAIN file = 1 .. n
  BY Appended
<1>2. ASSUME NEW i \in 1 .. n PROVE Bad(i)' <=> Bad(i)
  <2>1. file'[i] = file[i] BY <1>1
  <2>2. ASSUME NEW k \in 1 .. i - 1
        PROVE  (IsEntry(file[k]) /\ ClosedBy(k) = i)
                 <=> (IsEntry(file'[k]) /\ ClosedBy(k)' = i)
    <3>1. k \in 1 .. n /\ i # 0 /\ i # n + 1 OBVIOUS
    <3>2. file'[k] = file[k] BY <1>1, <3>1
    <3>3. ClosedBy(k)' = IF ClosedBy(k) # 0 THEN ClosedBy(k)
                         ELSE IF Closes(line) THEN n + 1 ELSE 0
      BY <3>1, ClosingAppended
    <3>4. ClosedBy(k)' = i <=> ClosedBy(k) = i BY <3>1, <3>3
    <3> QED BY <3>2, <3>4
  <2>3. (\E k \in 1 .. i - 1 : IsEntry(file[k]) /\ ClosedBy(k) = i)
          <=> (\E k \in 1 .. i - 1 : IsEntry(file'[k]) /\ ClosedBy(k)' = i)
    BY <2>2
  <2> QED BY <2>1, <2>3 DEF Bad, IsEntry
<1>3. ASSUME line.type = "7"
      PROVE  (\E k \in 1 .. n : IsEntry(file'[k]) /\ ClosedBy(k)' = n + 1)
               <=> ~ \A k \in At : ClosedBy(k) # 0
  <2>1. ASSUME NEW k \in 1 .. n
        PROVE  IsEntry(file'[k]) /\ ClosedBy(k)' = n + 1
                 <=> k \in At /\ ClosedBy(k) = 0
    <3>1. k \in At <=> IsEntry(file'[k]) BY <1>1 DEF At
    <3>2. ClosedBy(k)' = IF ClosedBy(k) # 0 THEN ClosedBy(k) ELSE n + 1
      BY <1>3, ClosingAppended DEF Closes
    <3>3. ClosedBy(k) # n + 1
      <4>1. ClosedBy(k) \in {0} \cup (k + 1 .. n)
        BY Closing, ClosedByFirst
      <4> QED BY <4>1
    <3>4. n + 1 # 0 OBVIOUS
    <3> QED BY <3>1, <3>2, <3>3
  <2>2. At \subseteq 1 .. n BY <1>1 DEF At
  <2> QED BY <2>1, <2>2
<1>4. (n + 1) - 1 = n OBVIOUS
<1>5. Bad(n + 1)' <=>
        \/ line.type = "unknown"
        \/ line = Header(Malformed)
        \/ line.type = "6" /\ ~ line.number
        \/ /\ line.type = "7"
           /\ \/ line.code = Malformed
              \/ ~ \E k \in 1 .. n : IsEntry(file'[k]) /\ ClosedBy(k)' = n + 1
  BY <1>1, <1>4 DEF Bad, IsEntry, Header, Malformed
<1> QED BY <1>2, <1>3, <1>5

(***************************************************************************)
(* Each kind of line.                                                      *)
(***************************************************************************)

LEMMA Joined ==
  ASSUME NEW S, NEW s \in Seq(S), NEW t \in Seq(S)
  PROVE  /\ s \o t \in Seq(S) /\ Len(s \o t) = Len(s) + Len(t)
         /\ \A k \in 1 .. Len(s) : (s \o t)[k] = s[k]
         /\ \A k \in 1 .. Len(t) : (s \o t)[Len(s) + k] = t[k]
OBVIOUS

\* What holds while the loop reads a line, for all kinds of lines.
LEMMA Reading ==
  ASSUME ParserInv, NEW line \in Lines, Read(line)
  PROVE  /\ result = "parsing" /\ Found /\ Readable
         /\ file \in Seq(Lines) /\ Len(file) \in Nat
         /\ file' = Append(file, line) /\ file' \in Seq(Lines)
         /\ All \in Seq(Entries) /\ entries \in Seq(Entries)
         /\ pending \in Seq(Entries) /\ Len(pending) \in {0, 1}
<1>1. result = "parsing" /\ file' = Append(file, line) BY DEF Read
<1>2. Found /\ Readable BY <1>1 DEF ParserInv
<1>3. /\ file \in Seq(Lines) /\ entries \in Seq(Entries)
      /\ pending \in Seq(Entries) /\ Len(pending) <= 1
  BY DEF ParserInv, ParserType
<1>4. file' \in Seq(Lines) /\ Len(file) \in Nat BY <1>1, <1>3
<1>5. Len(pending) \in {0, 1}
  <2>1. Len(pending) \in Nat /\ Len(pending) <= 1 BY <1>3
  <2>2. \A m \in Nat : m <= 1 => m = 0 \/ m = 1 OBVIOUS
  <2> QED BY <2>1, <2>2, Zenon
<1>6. All \in Seq(Entries) BY <1>3, Joined DEF All
<1> QED BY <1>1, <1>2, <1>3, <1>4, <1>5, <1>6

LEMMA LineRefused ==
  ASSUME ParserInv, NEW line \in Lines, Read(line), Refuse,
         \A n \in Nat : n = Len(file) => Bad(n + 1)'
  PROVE  ParserInv'
<1>1. PICK n \in Nat : n = Len(file) BY Reading
<1>2. DOMAIN file' = 1 .. n + 1 BY <1>1, Reading, Appended
<1>3. ~ Readable'
  <2>1. n + 1 \in 1 .. n + 1 /\ Bad(n + 1)' BY <1>1
  <2> QED BY <1>2, <2>1 DEF Readable
<1>4. ParserType'
  BY Reading DEF ParserInv, ParserType, Refuse
<1> QED BY <1>3, <1>4 DEF ParserInv, Refuse

LEMMA StillReadable ==
  ASSUME ParserInv, NEW line \in Lines, Read(line),
         \A n \in Nat : n = Len(file) => ~ Bad(n + 1)'
  PROVE  Readable'
<1>1. PICK n \in Nat : n = Len(file) BY Reading
<1>2. DOMAIN file = 1 .. n /\ DOMAIN file' = 1 .. n + 1
  BY <1>1, Reading, Appended
<1>3. ASSUME NEW i \in 1 .. n + 1 PROVE ~ Bad(i)'
  <2>1. CASE i = n + 1 BY <1>1, <2>1
  <2>2. CASE i # n + 1
    <3>1. i \in 1 .. n BY <2>2
    <3>2. Bad(i)' <=> Bad(i) BY <1>1, <3>1, Reading, BadAppended
    <3> QED BY <1>2, <3>1, <3>2, Reading DEF Readable
  <2> QED BY <2>1, <2>2
<1> QED BY <1>2, <1>3 DEF Readable

\* A line that is no record of an entry: nothing is found and nothing closed.
LEMMA LinePassed ==
  ASSUME ParserInv, NEW line \in Lines, Read(line),
         ~ Closes(line), line.type # "unknown", line # Header(Malformed),
         UNCHANGED << entries, pending, result >>
  PROVE  ParserInv'
<1>1. PICK n \in Nat : n = Len(file) BY Reading
<1>2. line.type # "6" /\ line.type # "7" BY DEF Closes
<1>3. ~ Bad(n + 1)' BY <1>1, <1>2, Reading, BadAppended
<1>4. Readable' BY <1>1, <1>3, StillReadable
<1>5. /\ At' = At /\ Cardinality(At)' = Cardinality(At)
      /\ \A i \in At : Rank(i)' = Rank(i)
  BY <1>1, <1>2, Reading, RanksAppended DEF IsEntry
<1>6. At \subseteq 1 .. n BY <1>1, Reading, Ranks
<1>7. \A i \in At : Said(i)' = Said(i) /\ ClosedBy(i)' = ClosedBy(i)
  BY <1>1, <1>2, <1>6, Reading, SaidAppended, ClosingAppended
<1>8. All' = All BY DEF All
<1>9. Found' BY <1>5, <1>7, <1>8, Reading DEF Found
<1>10. ParserType' BY Reading DEF ParserInv, ParserType
<1> QED BY <1>4, <1>5, <1>7, <1>9, <1>10, Reading DEF ParserInv

\* A type-6 record: one more entry, which waits.
LEMMA EntryRead ==
  ASSUME ParserInv, NEW line \in Lines, Read(line), line.type = "6", line.number,
         entries' = entries \o pending, UNCHANGED result,
         pending' = << [trace |-> line.trace, amount |-> line.amount,
                        code |-> NoRCode] >>
  PROVE  ParserInv'
<1> DEFINE entry == [trace |-> line.trace, amount |-> line.amount,
                     code |-> NoRCode]
<1>1. PICK n \in Nat : n = Len(file) BY Reading
<1>2. line # Header(Malformed) /\ entry \in Entries
  BY LineFacts DEF Entries
<1>3. ~ Bad(n + 1)' BY <1>1, <1>2, Reading, BadAppended
<1>4. Readable' BY <1>1, <1>3, StillReadable
<1>5. /\ At' = At \cup {n + 1}
      /\ Cardinality(At)' = Cardinality(At) + 1
      /\ \A i \in At : Rank(i)' = Rank(i)
      /\ Rank(n + 1)' = Cardinality(At) + 1
  BY <1>1, Reading, RanksAppended DEF IsEntry
<1>6. /\ At \subseteq 1 .. n /\ Cardinality(At) \in Nat
      /\ \A i \in At : Rank(i) \in 1 .. Cardinality(At)
  BY <1>1, Reading, Ranks
<1>7. /\ \A i \in At : Said(i)' = Said(i)
      /\ Said(n + 1)' = entry
  BY <1>1, <1>6, Reading, SaidAppended DEF IsEntry
<1>8. /\ entries' = All /\ pending' = << entry >>
      /\ entries' \in Seq(Entries) /\ pending' \in Seq(Entries)
      /\ Len(pending') = 1
  BY <1>2, Reading DEF All
<1>9. Len(All) = Cardinality(At) /\ \A i \in At : All[Rank(i)] = Said(i)
  BY Reading DEF Found
<1>10. /\ Len(All') = Cardinality(At) + 1
       /\ \A k \in 1 .. Cardinality(At) : All'[k] = All[k]
       /\ All'[Cardinality(At) + 1] = entry
  <2>1. All' = All \o << entry >> BY <1>8 DEF All
  <2>2. << entry >> \in Seq(Entries) /\ Len(<< entry >>) = 1 /\ << entry >>[1] = entry
    BY <1>2
  <2> HIDE DEF entry
  <2>3. /\ Len(All \o << entry >>) = Len(All) + 1
        /\ \A k \in 1 .. Len(All) : (All \o << entry >>)[k] = All[k]
        /\ (All \o << entry >>)[Len(All) + 1] = << entry >>[1]
    BY <2>2, Reading, Joined
  <2> QED BY <1>9, <2>1, <2>2, <2>3
<1>11. Found'
  <2>1. ASSUME NEW i \in At PROVE All'[Rank(i)'] = Said(i)'
    BY <1>5, <1>6, <1>7, <1>9, <1>10
  <2>2. All'[Rank(n + 1)'] = Said(n + 1)' BY <1>5, <1>7, <1>10
  <2> QED BY <1>5, <1>10, <2>1, <2>2 DEF Found
<1>12. ClosedBy(n + 1)' = 0 BY <1>1, Reading, ClosingAppended
<1>13. ParserType' BY <1>8, Reading DEF ParserInv, ParserType
<1>14. pending' # NoEntry /\ pending'[1].code = NoRCode
  BY <1>8 DEF NoEntry
<1> QED
  BY <1>4, <1>5, <1>11, <1>12, <1>13, <1>14, Reading DEF ParserInv

\* A record that ends an entry without a code of its own: what waits is kept.
LEMMA PendingKept ==
  ASSUME ParserInv, NEW line \in Lines, Read(line),
         line.type \in { "5", "8", "9" },
         entries' = entries \o pending, pending' = NoEntry, UNCHANGED result
  PROVE  ParserInv'
<1>1. PICK n \in Nat : n = Len(file) BY Reading
<1>2. line # Header(Malformed) /\ Closes(line) BY LineFacts DEF Closes
<1>3. ~ Bad(n + 1)' BY <1>1, <1>2, Reading, BadAppended
<1>4. Readable' BY <1>1, <1>3, StillReadable
<1>5. /\ At' = At /\ Cardinality(At)' = Cardinality(At)
      /\ \A i \in At : Rank(i)' = Rank(i)
  BY <1>1, Reading, RanksAppended DEF IsEntry
<1>6. /\ At \subseteq 1 .. n
      /\ \A i \in At : Rank(i) \in 1 .. Cardinality(At)
  BY <1>1, Reading, Ranks
<1>7. \A i \in At : Said(i)' = Said(i)
  BY <1>1, <1>6, Reading, SaidAppended
<1>8. \A i \in At : ClosedBy(i)' # 0
  <2> SUFFICES ASSUME NEW i \in At PROVE ClosedBy(i)' # 0
    OBVIOUS
  <2>1. n + 1 # 0 OBVIOUS
  <2> QED BY <1>1, <1>2, <1>6, <2>1, Reading, ClosingAppended
<1>9. /\ << >> \in Seq(Entries) /\ Len(<< >>) = 0 OBVIOUS
<1>10. Len(All') = Len(All) /\ \A k \in 1 .. Len(All) : All'[k] = All[k]
  <2>1. All' = All \o << >> BY DEF All, NoEntry
  <2>2. Len(All \o << >>) = Len(All) + 0
        /\ \A k \in 1 .. Len(All) : (All \o << >>)[k] = All[k]
    BY <1>9, Reading, Joined
  <2>3. Len(All) \in Nat BY Reading
  <2> QED BY <2>1, <2>2, <2>3
<1>11. Found'
  <2>1. Len(All) = Cardinality(At) /\ \A i \in At : All[Rank(i)] = Said(i)
    BY Reading DEF Found
  <2>2. ASSUME NEW i \in At PROVE All'[Rank(i)'] = Said(i)'
    BY <1>5, <1>6, <1>7, <1>10, <2>1
  <2> QED BY <1>5, <1>10, <2>1, <2>2 DEF Found
<1>12. entries' \in Seq(Entries) BY Reading DEF All
<1>13. ParserType'
  BY <1>9, <1>12, Reading DEF ParserInv, ParserType, NoEntry
<1> QED BY <1>4, <1>5, <1>8, <1>11, <1>13, Reading DEF ParserInv

\* The entry that waits is the last one, and the only one not closed.
LEMMA LastWaits ==
  ASSUME ParserInv, result = "parsing", pending # NoEntry
  PROVE  \E last \in At :
           /\ ClosedBy(last) = 0
           /\ Rank(last) = Cardinality(At)
           /\ \A i \in At \ {last} :
                ClosedBy(i) # 0 /\ Rank(i) < Cardinality(At)
<1>1. file \in Seq(Lines) BY DEF ParserInv, ParserType
<1>2. PICK last \in At : ClosedBy(last) = 0 BY DEF ParserInv
<1>3. At \subseteq 1 .. Len(file) /\ Len(file) \in Nat BY <1>1, Ranks
<1>4. ASSUME NEW i \in At, i # last, ~ (i < last) PROVE FALSE
  <2>1. i \in last + 1 .. Len(file) BY <1>3, <1>4
  <2>2. \A j \in last + 1 .. Len(file) : ~ Closes(file[j])
    BY <1>1, <1>2, <1>3, Closing, ClosedByFirst
  <2>3. Closes(file[i]) BY DEF At, IsEntry, Closes
  <2> QED BY <2>1, <2>2, <2>3
<1>5. \A i \in At : i <= last BY <1>3, <1>4
<1>6. ASSUME NEW i \in At \ {last} PROVE ClosedBy(i) # 0
  <2>1. i < last BY <1>4
  <2>2. last \in i + 1 .. Len(file) BY <1>3, <2>1
  <2>3. Closes(file[last]) BY DEF At, IsEntry, Closes
  <2> QED BY <1>1, <1>3, <2>2, <2>3, Closing, ClosedByFirst
<1>7. \A i \in At \ {last} : Rank(i) < Cardinality(At)
  BY <1>1, <1>4, Ranks
<1> QED BY <1>1, <1>2, <1>5, <1>6, <1>7, Ranks

\* A type-7 record after an entry that waits: the entry is kept with its code.
LEMMA AddendaRead ==
  ASSUME ParserInv, NEW line \in Lines, Read(line), line.type = "7",
         pending # NoEntry, line.code # Malformed,
         entries' = Append(entries, [pending[1] EXCEPT !.code = line.code]),
         pending' = NoEntry, UNCHANGED result
  PROVE  ParserInv'
<1> DEFINE entry == [pending[1] EXCEPT !.code = line.code]
<1>1. PICK n \in Nat : n = Len(file) BY Reading
<1>2. PICK last \in At :
        /\ ClosedBy(last) = 0
        /\ Rank(last) = Cardinality(At)
        /\ \A i \in At \ {last} : ClosedBy(i) # 0 /\ Rank(i) < Cardinality(At)
  BY Reading, LastWaits
<1>3. line # Header(Malformed) /\ Closes(line) /\ line.code \in Codes
  BY LineFacts DEF Closes
<1>4. ~ Bad(n + 1)' BY <1>1, <1>2, <1>3, Reading, BadAppended
<1>5. Readable' BY <1>1, <1>4, StillReadable
<1>6. /\ At' = At /\ Cardinality(At)' = Cardinality(At)
      /\ \A i \in At : Rank(i)' = Rank(i)
  BY <1>1, Reading, RanksAppended DEF IsEntry
<1>7. /\ At \subseteq 1 .. n /\ Cardinality(At) \in Nat
      /\ \A i \in At : Rank(i) \in 1 .. Cardinality(At)
  BY <1>1, Reading, Ranks
<1>8. /\ \A i \in At \ {last} : Said(i)' = Said(i)
      /\ Said(last)' = [Said(last) EXCEPT !.code = line.code]
  BY <1>1, <1>2, <1>7, Reading, SaidAppended
<1>9. /\ Len(pending) = 1 /\ pending[1] \in Entries /\ entry \in Entries
  <2>1. pending \in Seq(Entries) /\ Len(pending) \in {0, 1} BY Reading
  <2>2. Len(pending) = 1
    <3>1. Len(pending) = 0 => pending = << >> BY <2>1
    <3> QED BY <2>1, <3>1 DEF NoEntry
  <2>3. pending[1] \in Entries BY <2>1, <2>2
  <2> QED BY <1>3, <2>2, <2>3 DEF Entries
<1>10. /\ Len(All) = Len(entries) + 1 /\ Len(entries) \in Nat
       /\ \A k \in 1 .. Len(entries) : All[k] = entries[k]
       /\ All[Len(entries) + 1] = pending[1]
  <2>1. pending \in Seq(Entries) /\ entries \in Seq(Entries) BY Reading
  <2>2. /\ Len(All) = Len(entries) + Len(pending)
        /\ \A k \in 1 .. Len(entries) : All[k] = entries[k]
        /\ \A k \in 1 .. Len(pending) : All[Len(entries) + k] = pending[k]
    BY <2>1, Joined DEF All
  <2>3. Len(entries) \in Nat BY <2>1
  <2> HIDE DEF entry
  <2> QED BY <1>9, <2>2, <2>3
<1>11. /\ entries' \in Seq(Entries) /\ Len(entries') = Len(entries) + 1
       /\ \A k \in 1 .. Len(entries) : entries'[k] = entries[k]
       /\ entries'[Len(entries) + 1] = entry
  <2> HIDE DEF entry
  <2> QED BY <1>9, Reading DEF entry
<1>12. << >> \in Seq(Entries) /\ Len(<< >>) = 0 OBVIOUS
<1>13. Len(All') = Len(entries') /\ \A k \in 1 .. Len(entries') : All'[k] = entries'[k]
  <2>1. All' = entries' \o << >> BY DEF All, NoEntry
  <2>2. /\ Len(entries' \o << >>) = Len(entries') + 0
        /\ \A k \in 1 .. Len(entries') : (entries' \o << >>)[k] = entries'[k]
    BY <1>11, <1>12, Joined
  <2>3. Len(entries') \in Nat BY <1>10, <1>11
  <2> QED BY <2>1, <2>2, <2>3
<1>14. Len(All) = Cardinality(At) /\ \A i \in At : All[Rank(i)] = Said(i)
  BY Reading DEF Found
<1>15. Found'
  <2>1. Len(All') = Cardinality(At)' BY <1>6, <1>10, <1>11, <1>13, <1>14
  <2>2. ASSUME NEW i \in At \ {last} PROVE All'[Rank(i)'] = Said(i)'
    <3>1. Rank(i) \in 1 .. Len(entries)
      BY <1>2, <1>7, <1>10, <1>14
    <3>2. All'[Rank(i)] = All[Rank(i)]
      BY <1>10, <1>11, <1>13, <3>1
    <3> QED BY <1>6, <1>8, <1>14, <3>2
  <2>3. All'[Rank(last)'] = Said(last)'
    <3>1. Rank(last) = Len(entries) + 1 BY <1>2, <1>10, <1>14
    <3>2. pending[1] = Said(last) BY <1>10, <1>14, <3>1
    <3>3. All'[Rank(last)] = entry
      BY <1>10, <1>11, <1>13, <3>1
    <3> QED BY <1>6, <1>8, <3>2, <3>3
  <2> QED BY <1>6, <2>1, <2>2, <2>3 DEF Found
<1>16. \A i \in At : ClosedBy(i)' # 0
  <2> SUFFICES ASSUME NEW i \in At PROVE ClosedBy(i)' # 0
    OBVIOUS
  <2>1. n + 1 # 0 OBVIOUS
  <2> QED BY <1>1, <1>3, <1>7, <2>1, Reading, ClosingAppended
<1>17. ParserType'
  BY <1>11, <1>12, Reading DEF ParserInv, ParserType, NoEntry
<1> QED BY <1>5, <1>6, <1>15, <1>16, <1>17, Reading DEF ParserInv

\* What the file says does not change while no line is read.
LEMMA SameLine ==
  ASSUME file' = file, NEW i
  PROVE  /\ At' = At
         /\ Rank(i)' = Rank(i)
         /\ ClosedBy(i)' = ClosedBy(i)
         /\ Said(i)' = Said(i)
<1>1. At' = At BY DEF At
<1>2. Rank(i)' = Rank(i) BY <1>1 DEF Rank
<1>3. ClosedBy(i)' = ClosedBy(i)
  <2>1. FirstClosing(file', i) = FirstClosing(file, i) OBVIOUS
  <2> QED BY <2>1, ClosedByFirst
<1>4. Said(i)' = Said(i) BY <1>3, Zenon DEF Said
<1> QED BY <1>1, <1>2, <1>3, <1>4

LEMMA SameReadable ==
  ASSUME file' = file
  PROVE  Readable' <=> Readable
<1>1. ASSUME NEW i \in DOMAIN file PROVE Bad(i)' <=> Bad(i)
  <2>1. \A k \in 1 .. i - 1 : ClosedBy(k)' = ClosedBy(k) BY SameLine
  <2>2. (\E k \in 1 .. i - 1 : IsEntry(file'[k]) /\ ClosedBy(k)' = i)
          <=> \E k \in 1 .. i - 1 : IsEntry(file[k]) /\ ClosedBy(k) = i
    BY <2>1
  <2> QED BY <2>2, Zenon DEF Bad, IsEntry
<1> QED BY <1>1, Zenon DEF Readable

\* The end of the file: what waits is kept without a code.
LEMMA FileRead ==
  ASSUME ParserInv, EndOfFile
  PROVE  ParserInv'
<1>1. /\ result = "parsing" /\ result' = "ok" /\ UNCHANGED << given, file >>
      /\ entries' = All /\ pending' = NoEntry
  BY DEF EndOfFile, All
<1>2. /\ file \in Seq(Lines) /\ entries \in Seq(Entries)
      /\ pending \in Seq(Entries) /\ Found /\ Readable
  BY <1>1 DEF ParserInv, ParserType
<1>3. All \in Seq(Entries) BY <1>2, Joined DEF All
<1>4. << >> \in Seq(Entries) /\ Len(<< >>) = 0 OBVIOUS
<1>5. Len(All') = Len(All) /\ \A k \in 1 .. Len(All) : All'[k] = All[k]
  <2>1. All' = All \o << >> BY <1>1 DEF All, NoEntry
  <2>2. Len(All \o << >>) = Len(All) + 0
        /\ \A k \in 1 .. Len(All) : (All \o << >>)[k] = All[k]
    BY <1>3, <1>4, Joined
  <2>3. Len(All) \in Nat BY <1>3
  <2> QED BY <2>1, <2>2, <2>3
<1>6. At' = At BY <1>1 DEF At
<1>7. ASSUME NEW i \in At
      PROVE  Rank(i)' = Rank(i) /\ Said(i)' = Said(i)
  <2>1. file' = file BY <1>1
  <2> QED BY <2>1, SameLine
<1>8. Readable' BY <1>1, <1>2, SameReadable
<1>9. Found'
  <2>1. Len(All) = Cardinality(At) /\ \A i \in At : All[Rank(i)] = Said(i)
    BY <1>2 DEF Found
  <2>2. \A i \in At : Rank(i) \in 1 .. Cardinality(At) BY <1>2, Ranks
  <2>3. ASSUME NEW i \in At PROVE All'[Rank(i)'] = Said(i)'
    BY <1>5, <1>7, <2>1, <2>2
  <2> QED BY <1>5, <1>6, <2>1, <2>3 DEF Found
<1>10. ParserType' BY <1>1, <1>2, <1>3, <1>4 DEF ParserType, NoEntry
<1> QED BY <1>1, <1>8, <1>9, <1>10 DEF ParserInv

\* ParseFile starts with nothing read and nothing found.
LEMMA NothingRead ==
  ASSUME file = << >>, entries = << >>, pending = NoEntry, result = "parsing"
  PROVE  ParserInv
<1>1. ParserType BY DEF ParserType, NoEntry
<1>2. At = {} BY DEF At
<1>3. All = << >> BY DEF All, NoEntry
<1>4. Found BY <1>2, <1>3, FS_EmptySet DEF Found
<1>5. Readable BY DEF Readable
<1> QED BY <1>1, <1>2, <1>4, <1>5 DEF ParserInv

LEMMA ParserStep == ParserInv /\ NNext => ParserInv'
<1> SUFFICES ASSUME ParserInv, NNext PROVE ParserInv'
  OBVIOUS
<1>1. ASSUME NEW line \in Lines, Skip(line) PROVE ParserInv'
  <2>1. /\ Read(line) /\ line.type = "short"
        /\ UNCHANGED << entries, pending, result >>
    BY <1>1 DEF Skip
  <2>2. line # Header(Malformed) BY <2>1, LineFacts
  <2> QED BY <2>1, <2>2, LinePassed DEF Closes
<1>2. ASSUME NEW line \in Lines, FileHeader(line) PROVE ParserInv'
  <2>1. Read(line) /\ line.type = "1" BY <1>2 DEF FileHeader
  <2>2. CASE line.priority = "01"
    <3>1. UNCHANGED << entries, pending, result >> /\ line # Header(Malformed)
      BY <1>2, <2>1, <2>2, LineFacts DEF FileHeader
    <3> QED BY <2>1, <3>1, LinePassed DEF Closes
  <2>3. CASE line.priority # "01"
    <3>1. Refuse /\ line = Header(Malformed)
      BY <1>2, <2>1, <2>3, LineFacts DEF FileHeader
    <3>2. \A n \in Nat : n = Len(file) => Bad(n + 1)'
      BY <2>1, <3>1, Reading, BadAppended
    <3> QED BY <2>1, <3>1, <3>2, LineRefused
  <2> QED BY <2>2, <2>3
<1>3. ASSUME NEW line \in Lines, EntryDetail(line) PROVE ParserInv'
  <2>1. Read(line) /\ line.type = "6" BY <1>3 DEF EntryDetail
  <2>2. CASE line.number
    BY <1>3, <2>1, <2>2, EntryRead DEF EntryDetail
  <2>3. CASE ~ line.number
    <3>1. Refuse BY <1>3, <2>3 DEF EntryDetail
    <3>2. \A n \in Nat : n = Len(file) => Bad(n + 1)'
      BY <2>1, <2>3, Reading, BadAppended
    <3> QED BY <2>1, <3>1, <3>2, LineRefused
  <2> QED BY <2>2, <2>3
<1>4. ASSUME NEW line \in Lines, AddendaRecord(line) PROVE ParserInv'
  <2>1. Read(line) /\ line.type = "7" BY <1>4 DEF AddendaRecord
  <2>2. CASE pending = NoEntry \/ line.code = Malformed
    <3>1. Refuse BY <1>4, <2>2 DEF AddendaRecord
    <3>2. pending = NoEntry => \A i \in At : ClosedBy(i) # 0
      BY <2>1, Reading DEF ParserInv
    <3>3. \A n \in Nat : n = Len(file) => Bad(n + 1)'
      BY <2>1, <2>2, <3>2, Reading, BadAppended
    <3> QED BY <2>1, <3>1, <3>3, LineRefused
  <2>3. CASE pending # NoEntry /\ line.code # Malformed
    BY <1>4, <2>1, <2>3, AddendaRead DEF AddendaRecord
  <2> QED BY <2>2, <2>3
<1>5. ASSUME NEW line \in Lines, Flush(line) PROVE ParserInv'
  BY <1>5, PendingKept DEF Flush
<1>6. ASSUME NEW line \in Lines, UnknownType(line) PROVE ParserInv'
  <2>1. Read(line) /\ line.type = "unknown" /\ Refuse BY <1>6 DEF UnknownType
  <2>2. \A n \in Nat : n = Len(file) => Bad(n + 1)'
    BY <2>1, Reading, BadAppended
  <2> QED BY <2>1, <2>2, LineRefused
<1> QED
  BY <1>1, <1>2, <1>3, <1>4, <1>5, <1>6, FileRead DEF NNext

\* What a step of ReturnFile does to the parser.
LEMMA FileSteps ==
  ASSUME [FNext]_<< vars, parser, loop >>
  PROVE  NNext \/ UNCHANGED parser \/ \E f \in Files : ParseFile(f)
BY DEF FNext, RunFile, Parse, Parsed, SkipUnknown, SignalEntry, SignalRefused,
       SignalFails, EndLoop, PaymentStep

LEMMA ParserInvariant == FSpec => []ParserInv
<1>1. FInit => ParserInv BY NothingRead DEF FInit, NInit
<1>2. ParserInv /\ [FNext]_<< vars, parser, loop >> => ParserInv'
  <2> SUFFICES ASSUME ParserInv, [FNext]_<< vars, parser, loop >>
               PROVE  ParserInv'
    OBVIOUS
  <2>1. CASE UNCHANGED parser
    <3>1. UNCHANGED << file, entries, pending, result >> BY <2>1 DEF parser
    <3>2. ParserType' BY <3>1 DEF ParserInv, ParserType
    <3>3. All' = All BY <3>1 DEF All
    <3>4. file' = file BY <3>1
    <3>5. ASSUME Found PROVE Found'
      <4>1. At' = At BY <3>4 DEF At
      <4>2. \A i \in At : Rank(i)' = Rank(i) /\ Said(i)' = Said(i)
        BY <3>4, SameLine
      <4> QED BY <3>3, <3>5, <4>1, <4>2, Zenon DEF Found
    <3>6. Readable' <=> Readable BY <3>4, SameReadable
    <3>7. (\A i \in At : ClosedBy(i) # 0)' <=> \A i \in At : ClosedBy(i) # 0
      <4>1. At' = At BY <3>4 DEF At
      <4>2. \A i \in At : ClosedBy(i)' = ClosedBy(i) BY <3>4, SameLine
      <4> QED BY <4>1, <4>2
    <3> HIDE DEF NoEntry, Found, Readable, At, ClosedBy, ParserType
    <3> QED BY <3>1, <3>2, <3>5, <3>6, <3>7 DEF ParserInv
  <2>2. ASSUME NEW f \in Files, ParseFile(f) PROVE ParserInv'
    <3>1. /\ file' = << >> /\ entries' = << >>
          /\ pending' = NoEntry /\ result' = "parsing"
      BY <2>2 DEF ParseFile
    <3>2. ParserType' BY <3>1 DEF ParserType, NoEntry
    <3>3. At' = {} BY <3>1 DEF At
    <3>4. All' = << >> BY <3>1 DEF All, NoEntry
    <3>5. Found' BY <3>3, <3>4, FS_EmptySet DEF Found
    <3>6. Readable' BY <3>1 DEF Readable
    <3> QED BY <3>1, <3>2, <3>3, <3>5, <3>6 DEF ParserInv
  <2> QED BY <2>1, <2>2, FileSteps, ParserStep
<1> QED BY <1>1, <1>2, PTL DEF FSpec

\* What has been found when nothing waits.
LEMMA AllFound ==
  ASSUME ParserInv, result = "ok"
  PROVE  /\ entries \in Seq(Entries) /\ Len(entries) = Cardinality(At)
         /\ \A i \in At : entries[Rank(i)] = Said(i)
<1>1. /\ entries \in Seq(Entries) /\ pending = << >> /\ Found
      /\ file \in Seq(Lines)
  BY DEF ParserInv, ParserType, NoEntry
<1>2. << >> \in Seq(Entries) /\ Len(<< >>) = 0 OBVIOUS
<1>3. Len(All) = Len(entries) /\ \A k \in 1 .. Len(entries) : All[k] = entries[k]
  <2>1. /\ Len(entries \o << >>) = Len(entries) + 0
        /\ \A k \in 1 .. Len(entries) : (entries \o << >>)[k] = entries[k]
    BY <1>1, <1>2, Joined
  <2>2. Len(entries) \in Nat BY <1>1
  <2> QED BY <1>1, <2>1, <2>2 DEF All
<1>4. \A i \in At : Rank(i) \in 1 .. Cardinality(At) BY <1>1, Ranks
<1> QED BY <1>1, <1>3, <1>4 DEF Found

\* parser.go 36-125: the loop finds what the lines say, entry by entry, with
\* the code of its own addenda or none, and gives nothing for a file with a
\* bad line anywhere, however long the file is.
THEOREM ParserFindsWhatIsSaid == FSpec => []ParsedAsSaid
<1>1. ParserInv => ParsedAsSaid
  <2> SUFFICES ASSUME ParserInv PROVE ParsedAsSaid
    OBVIOUS
  <2>1. result = "ok" =>
          /\ Len(entries) = Cardinality(At)
          /\ \A i \in At : entries[Cardinality({ k \in At : k <= i })] = Said(i)
    BY AllFound DEF Rank
  <2>2. (\E i \in DOMAIN file : Bad(i)) <=> result = "error"
    BY DEF ParserInv, Readable
  <2>3. result = "error" => entries = << >> BY DEF ParserInv
  <2> QED BY <2>1, <2>2, <2>3 DEF ParsedAsSaid, At
<1> QED BY <1>1, ParserInvariant, PTL

(***************************************************************************)
(* The file of GenerateReturnFile, read line by line: its third line is    *)
(* the entry that waits, its fourth the addenda that closes it.            *)
(***************************************************************************)

\* The entry that a call of GenerateReturnFile puts in its file.
Written(call, code) ==
  << [trace |-> call.trace, amount |-> AmountField(call.amount),
      code |-> code] >>

GeneratedInv(call) ==
  given = Generated(call) =>
    /\ Len(file) \in 0 .. 6
    /\ result # "error"
    /\ result = "ok" => Len(file) = 6
    /\ entries = IF Len(file) < 4 THEN << >> ELSE Written(call, call.code)
    /\ pending = IF Len(file) = 3 THEN Written(call, NoRCode) ELSE NoEntry

LEMMA FieldKept ==
  ASSUME NEW r, r = [x \in DOMAIN r |-> r[x]], NEW b, r.number = b
  PROVE  [r EXCEPT !.number = b] = r
OBVIOUS

LEMMA GeneratedLines ==
  ASSUME NEW call \in Calls
  PROVE  LET g == Generated(call)
         IN  /\ Len(g) = 6 /\ g # AnyFile
             /\ g[1] = Header("01") /\ g[2] = BatchHeader
             /\ g[3] = Entry(call.trace, AmountField(call.amount))
             /\ g[4] = Addenda(call.code)
             /\ g[5] = BatchControl /\ g[6] = FileControl
             /\ \A i \in 1 .. 6 : g[i] \in Lines
<1> DEFINE entry == Entry(call.trace, AmountField(call.amount))
<1>1. /\ call.trace \in Traces /\ call.amount \in Cents /\ call.code \in Codes
  BY DEF Calls
<1>2. entry \in Lines
  <2>1. entry = [x \in DOMAIN entry |-> entry[x]] BY DEF Entry
  <2>2. entry.number = TRUE BY DEF Entry
  <2> HIDE DEF entry
  <2>3. [entry EXCEPT !.number = TRUE] = entry
    BY <2>1, <2>2, FieldKept, Zenon
  <2>4. [entry EXCEPT !.number = TRUE] \in Lines
    <3>1. \A n \in BOOLEAN :
            [Entry(call.trace, AmountField(call.amount)) EXCEPT !.number = n]
              \in Lines
      BY <1>1 DEF Lines
    <3>2. TRUE \in BOOLEAN OBVIOUS
    <3> QED BY <3>1, <3>2, Zenon DEF entry
  <2> QED BY <2>3, <2>4, Zenon
<1>3. /\ Header("01") \in Lines /\ BatchHeader \in Lines
      /\ BatchControl \in Lines /\ FileControl \in Lines
  BY DEF Lines, BatchHeader, BatchControl, FileControl
<1>4. Addenda(call.code) \in Lines BY <1>1 DEF Lines
<1>5. Generated(call) = << Header("01"), BatchHeader, entry,
                           Addenda(call.code), BatchControl, FileControl >>
  BY DEF Generated, GenerateReturnFile
<1> HIDE DEF entry
<1>6. Len(Generated(call)) = 6 /\ Generated(call) # << >> BY <1>5
<1>7. \A i \in 1 .. 6 : i = 1 \/ i = 2 \/ i = 3 \/ i = 4 \/ i = 5 \/ i = 6
  OBVIOUS
<1> QED BY <1>2, <1>3, <1>4, <1>5, <1>6, <1>7 DEF entry, AnyFile

\* The line of a generated file that follows n others.
NextLine(n, call, line) ==
  /\ n \in 0 .. 5
  /\ n = 0 => line.type = "1" /\ line.priority = "01"
  /\ n = 1 => line.type = "5"
  /\ n = 2 => /\ line.type = "6" /\ line.number
             /\ line.trace = call.trace
             /\ line.amount = AmountField(call.amount)
  /\ n = 3 => /\ line.type = "7"
             /\ line.code = call.code /\ line.code # Malformed
  /\ n = 4 => line.type = "8"
  /\ n = 5 => line.type = "9"

LEMMA GeneratedRead ==
  ASSUME NEW n \in Nat, n = Len(file), file \in Seq(Lines),
         NEW call \in Calls, given = Generated(call),
         NEW line \in Lines, Read(line)
  PROVE  /\ NextLine(n, call, line) /\ Len(file') = n + 1
         /\ result = "parsing" /\ given' = given
<1>1. /\ result = "parsing" /\ given' = given /\ InFile(line)
      /\ file' = Append(file, line)
  BY DEF Read
<1>2. Len(file') = n + 1 BY <1>1, Appended
<1>3. Len(given) = 6 /\ given # AnyFile BY GeneratedLines
<1>4. n \in 0 .. 5 /\ line = Generated(call)[n + 1]
  <2>1. n < 6 /\ line = given[n + 1] BY <1>1, <1>3 DEF InFile
  <2>2. n \in 0 .. 5 BY <2>1
  <2> QED BY <2>1, <2>2
<1>5. call.code \in Codes /\ call.code # Malformed BY DEF Calls
<1>6. n = 0 => line.type = "1" /\ line.priority = "01"
  <2>1. n = 0 => line = Header("01") BY <1>4, GeneratedLines
  <2> QED BY <2>1 DEF Header
<1>7. n = 1 => line.type = "5"
  <2>1. n = 1 => line = BatchHeader BY <1>4, GeneratedLines
  <2> QED BY <2>1 DEF BatchHeader, Plain
<1>8. n = 2 => /\ line.type = "6" /\ line.number
               /\ line.trace = call.trace
               /\ line.amount = AmountField(call.amount)
  <2>1. n = 2 => line = Entry(call.trace, AmountField(call.amount))
    BY <1>4, GeneratedLines
  <2> QED BY <2>1 DEF Entry
<1>9. n = 3 => line.type = "7" /\ line.code = call.code
  <2>1. n = 3 => line = Addenda(call.code) BY <1>4, GeneratedLines
  <2> QED BY <2>1 DEF Addenda
<1>10. n = 4 => line.type = "8"
  <2>1. n = 4 => line = BatchControl BY <1>4, GeneratedLines
  <2> QED BY <2>1 DEF BatchControl, Plain
<1>11. n = 5 => line.type = "9"
  <2>1. n = 5 => line = FileControl BY <1>4, GeneratedLines
  <2> QED BY <2>1 DEF FileControl, Plain
<1>12. NextLine(n, call, line)
  BY <1>4, <1>5, <1>6, <1>7, <1>8, <1>9, <1>10, <1>11 DEF NextLine
<1> QED BY <1>1, <1>2, <1>12

LEMMA GeneratedStep ==
  ASSUME ParserInv, NEW call \in Calls, GeneratedInv(call),
         given = Generated(call), NNext
  PROVE  GeneratedInv(call)'
<1>1. /\ file \in Seq(Lines) /\ entries \in Seq(Entries)
      /\ entries \o NoEntry = entries
  BY DEF ParserInv, ParserType, NoEntry
<1>2. PICK n \in Nat : n = Len(file) BY <1>1
<1>3. /\ n \in 0 .. 6
      /\ n < 4 => entries = << >>
      /\ ~ (n < 4) => entries = Written(call, call.code)
      /\ n = 3 => pending = Written(call, NoRCode)
      /\ n # 3 => pending = NoEntry
  BY <1>2 DEF GeneratedInv
<1>4. ASSUME NEW m \in 0 .. 6, m = Len(file'), result' # "error",
             result' = "ok" => m = 6,
             entries' = IF m < 4 THEN << >> ELSE Written(call, call.code),
             pending' = IF m = 3 THEN Written(call, NoRCode) ELSE NoEntry
      PROVE  GeneratedInv(call)'
  BY <1>4 DEF GeneratedInv, Written
<1>5. ASSUME NEW line \in Lines, Read(line)
      PROVE  /\ NextLine(n, call, line) /\ Len(file') = n + 1
             /\ result = "parsing"
  BY <1>1, <1>2, <1>5, GeneratedRead
<1>6. ASSUME NEW line \in Lines, Skip(line) \/ UnknownType(line) PROVE FALSE
  BY <1>5, <1>6 DEF Skip, UnknownType, NextLine
<1>7. ASSUME NEW line \in Lines, FileHeader(line) PROVE GeneratedInv(call)'
  <2>1. Read(line) /\ line.type = "1" BY <1>7 DEF FileHeader
  <2>2. /\ n = 0 /\ n + 1 = Len(file') /\ line.priority = "01"
        /\ result = "parsing"
    BY <1>5, <2>1 DEF NextLine
  <2>3. UNCHANGED << entries, pending, result >>
    BY <1>7, <2>2 DEF FileHeader
  <2> QED BY <1>3, <1>4, <2>2, <2>3
<1>8. ASSUME NEW line \in Lines, EntryDetail(line) PROVE GeneratedInv(call)'
  <2>1. Read(line) /\ line.type = "6" BY <1>8 DEF EntryDetail
  <2>2. /\ n = 2 /\ n + 1 = Len(file') /\ result = "parsing"
        /\ line.trace = call.trace /\ line.number
        /\ line.amount = AmountField(call.amount)
    BY <1>5, <2>1 DEF NextLine
  <2>3. /\ entries' = entries \o pending /\ result' = result
        /\ pending' = << [trace |-> line.trace, amount |-> line.amount,
                          code |-> NoRCode] >>
    BY <1>8, <2>2 DEF EntryDetail
  <2>4. pending' = Written(call, NoRCode) BY <2>2, <2>3 DEF Written
  <2>5. pending = NoEntry /\ entries = << >> BY <1>3, <2>2
  <2>6. entries' = << >> BY <1>1, <2>3, <2>5
  <2> QED BY <1>4, <2>2, <2>3, <2>4, <2>6
<1>9. ASSUME NEW line \in Lines, AddendaRecord(line) PROVE GeneratedInv(call)'
  <2>1. Read(line) /\ line.type = "7" BY <1>9 DEF AddendaRecord
  <2>2. /\ n = 3 /\ n + 1 = Len(file') /\ result = "parsing"
        /\ line.code = call.code /\ line.code # Malformed
    BY <1>5, <2>1 DEF NextLine
  <2>3. pending = Written(call, NoRCode) /\ entries = << >> BY <1>3, <2>2
  <2>4. pending # NoEntry BY <2>3 DEF Written, NoEntry
  <2>5. /\ entries' = Append(entries, [pending[1] EXCEPT !.code = line.code])
        /\ pending' = NoEntry /\ result' = result
    BY <1>9, <2>2, <2>4 DEF AddendaRecord
  <2>6. entries' = << [pending[1] EXCEPT !.code = line.code] >>
    BY <2>3, <2>5
  <2>7. entries' = Written(call, call.code)
    BY <2>2, <2>3, <2>6 DEF Written
  <2> QED BY <1>4, <2>2, <2>5, <2>7
<1>10. ASSUME NEW line \in Lines, Flush(line) PROVE GeneratedInv(call)'
  <2>1. Read(line) /\ line.type \in {"5", "8", "9"} BY <1>10 DEF Flush
  <2>2. n \in {1, 4, 5} /\ n + 1 = Len(file') /\ result = "parsing"
    BY <1>5, <2>1 DEF NextLine
  <2>3. entries' = entries \o pending /\ pending' = NoEntry /\ result' = result
    BY <1>10 DEF Flush
  <2>4. pending = NoEntry BY <1>3, <2>2
  <2>5. entries' = entries BY <1>1, <2>3, <2>4
  <2> QED BY <1>3, <1>4, <2>2, <2>3, <2>5
<1>11. CASE EndOfFile
  <2>1. /\ entries' = entries \o pending /\ pending' = NoEntry
        /\ result' = "ok" /\ UNCHANGED << given, file >>
        /\ given # AnyFile => \A line \in Lines : ~ InFile(line)
    BY <1>11 DEF EndOfFile
  <2>2. n = 6
    <3> SUFFICES ASSUME n \in 0 .. 5 PROVE FALSE
      BY <1>3
    <3>1. /\ Len(given) = 6 /\ given # AnyFile
          /\ \A i \in 1 .. 6 : given[i] \in Lines
      BY GeneratedLines
    <3>2. InFile(given[n + 1]) BY <1>2, <3>1 DEF InFile
    <3> QED BY <2>1, <3>1, <3>2
  <2>3. pending = NoEntry BY <1>3, <2>2
  <2>4. entries' = entries BY <1>1, <2>1, <2>3
  <2>5. n = Len(file') BY <1>2, <2>1
  <2> QED BY <1>3, <1>4, <2>1, <2>2, <2>4, <2>5
<1> QED BY <1>6, <1>7, <1>8, <1>9, <1>10, <1>11 DEF NNext

\* generator.go 13-118, return_simulator.go 56-70: the parser reads every file
\* that GenerateReturnFile makes, and finds in it the one entry of the call,
\* whose amount is the call's exactly when it fits its field.
THEOREM GeneratedFilesRoundTrip == FSpec => []RoundTrip
<1> DEFINE Inv == ParserInv /\ \A call \in Calls : GeneratedInv(call)
<1>1. FInit => Inv
  <2> SUFFICES ASSUME FInit PROVE Inv
    OBVIOUS
  <2>1. /\ file = << >> /\ entries = << >> /\ pending = NoEntry
        /\ result = "parsing"
    BY DEF FInit, NInit
  <2>2. ASSUME NEW call \in Calls PROVE GeneratedInv(call)
    BY <2>1 DEF GeneratedInv
  <2> QED BY <2>1, <2>2, NothingRead
<1>2. ParserInv' /\ Inv /\ [FNext]_<< vars, parser, loop >> => Inv'
  <2> SUFFICES ASSUME ParserInv', Inv, [FNext]_<< vars, parser, loop >>,
                      NEW call \in Calls
               PROVE  GeneratedInv(call)'
    OBVIOUS
  <2>1. CASE UNCHANGED parser
    <3>1. UNCHANGED << given, file, entries, pending, result >>
      BY <2>1 DEF parser
    <3> QED BY <3>1 DEF GeneratedInv
  <2>2. ASSUME NEW f \in Files, ParseFile(f) PROVE GeneratedInv(call)'
    <3>1. /\ file' = << >> /\ entries' = << >>
          /\ pending' = NoEntry /\ result' = "parsing"
      BY <2>2 DEF ParseFile
    <3> QED BY <3>1 DEF GeneratedInv
  <2>3. CASE NNext /\ given = Generated(call)
    BY <2>3, GeneratedStep
  <2>4. CASE NNext /\ given # Generated(call)
    <3>1. given' = given
      BY <2>4 DEF NNext, Skip, FileHeader, EntryDetail, AddendaRecord, Flush,
                  UnknownType, EndOfFile, Read
    <3> QED BY <2>4, <3>1 DEF GeneratedInv
  <2> QED BY <2>1, <2>2, <2>3, <2>4, FileSteps
<1>3. Inv => RoundTrip
  <2> SUFFICES ASSUME Inv, NEW call \in Calls, given = Generated(call),
                      result # "parsing"
               PROVE  /\ result = "ok"
                      /\ Len(entries) = 1
                      /\ entries[1].trace = call.trace
                      /\ entries[1].code = call.code
                      /\ entries[1].amount = call.amount
                           <=> call.amount < AmountLimit
    BY DEF RoundTrip
  <2>1. result = "ok" /\ entries = Written(call, call.code)
    <3>1. result \in { "parsing", "ok", "error" } /\ file \in Seq(Lines)
      BY DEF ParserInv, ParserType
    <3>2. result = "ok" /\ Len(file) = 6 BY <3>1 DEF GeneratedInv
    <3> QED BY <3>2 DEF GeneratedInv
  <2>2. /\ Len(entries) = 1 /\ entries[1].trace = call.trace
        /\ entries[1].code = call.code
        /\ entries[1].amount = AmountField(call.amount)
    BY <2>1 DEF Written
  <2>3. call.amount \in Nat BY DEF Calls
  <2>4. call.amount % AmountLimit = call.amount <=> call.amount < AmountLimit
    BY <2>3
  <2> QED BY <2>1, <2>2, <2>4 DEF AmountField
<1> QED BY <1>1, <1>2, <1>3, ParserInvariant, PTL DEF FSpec

(***************************************************************************)
(* The loop over the entries: up to its position, the known ones have been *)
(* signalled, and the parser is done before it starts.                     *)
(***************************************************************************)

LoopInv ==
  /\ outcome \in { "none", "parsing", "running", "ok", "closed", "error" }
  /\ position \in Nat \ {0}
  /\ outcome = "parsing" => position = 1 /\ signalled = {}
  /\ result = "parsing" =>
       outcome \in { "none", "parsing" } /\ position = 1 /\ signalled = {}
  /\ signalled \ {position} = { i \in 1 .. position - 1 : Known(i) }
  /\ outcome \in { "running", "ok", "closed" } => position \notin signalled
  /\ outcome \in { "running", "ok" } =>
       /\ result = "ok"
       /\ position \in 1 .. Len(entries) + 1
  /\ outcome = "ok" => position = Len(entries) + 1

\* While the loop is in the entries, the next one is one of them.
LEMMA AtEntry ==
  ASSUME ParserInv, LoopInv, InLoop
  PROVE  /\ outcome = "running" /\ result = "ok"
         /\ position \in Nat \ {0} /\ position \in 1 .. Len(entries)
         /\ entries[position] \in Entries
         /\ position + 1 \in 1 .. Len(entries) + 1
         /\ signalled = { i \in 1 .. position - 1 : Known(i) }
<1>1. /\ outcome = "running" /\ result = "ok"
      /\ position <= Len(entries) /\ position \in Nat \ {0}
      /\ position \in 1 .. Len(entries) + 1
      /\ position \notin signalled
      /\ signalled \ {position} = { i \in 1 .. position - 1 : Known(i) }
  BY DEF InLoop, LoopInv
<1>2. entries \in Seq(Entries) BY DEF ParserInv, ParserType
<1>3. PICK n \in Nat : n = Len(entries) BY <1>2
<1>4. position \in 1 .. n /\ position + 1 \in 1 .. n + 1 BY <1>1, <1>3
<1>5. signalled = { i \in 1 .. position - 1 : Known(i) }
  BY <1>1
<1> QED BY <1>1, <1>2, <1>3, <1>4, <1>5

LEMMA LoopStep ==
  ParserInv /\ LoopInv /\ [FNext]_<< vars, parser, loop >> => LoopInv'
<1> SUFFICES ASSUME ParserInv, LoopInv, [FNext]_<< vars, parser, loop >>
             PROVE  LoopInv'
  OBVIOUS
<1>0. { i \in 1 .. 1 - 1 : Known(i)' } = {} OBVIOUS
<1>1. ASSUME UNCHANGED << parser, loop >> PROVE LoopInv'
  <2>1. UNCHANGED << position, outcome, signalled, result, entries >>
    BY <1>1 DEF parser, loop
  <2> QED BY <2>1 DEF LoopInv, Known
<1>2. ASSUME NEW f \in Files, RunFile(f) PROVE LoopInv'
  <2>1. outcome' = "parsing" /\ position' = 1 /\ signalled' = {}
    BY <1>2 DEF RunFile
  <2> QED BY <1>0, <2>1 DEF LoopInv
<1>3. CASE Parse
  <2>1. result = "parsing"
    BY <1>3 DEF Parse, NNext, Skip, FileHeader, EntryDetail, AddendaRecord,
                Flush, UnknownType, EndOfFile, Read
  <2>2. outcome \in { "none", "parsing" } /\ position = 1 /\ signalled = {}
    BY <2>1 DEF LoopInv
  <2>3. UNCHANGED << position, outcome, signalled >> BY <1>3 DEF Parse, loop
  <2> QED BY <1>0, <2>2, <2>3 DEF LoopInv
<1>4. CASE Parsed
  <2>1. /\ outcome = "parsing" /\ position = 1 /\ signalled = {}
        /\ UNCHANGED << entries, result, position, signalled >>
        /\ result # "parsing"
        /\ outcome' = IF result = "ok" THEN "running" ELSE "error"
    BY <1>4 DEF Parsed, LoopInv, parser
  <2>2. 1 \in 1 .. Len(entries) + 1
    <3>1. entries \in Seq(Entries) BY DEF ParserInv, ParserType
    <3> QED BY <3>1
  <2> QED BY <1>0, <2>1, <2>2 DEF LoopInv
<1>5. ASSUME InLoop, UNCHANGED << entries, result, outcome >>,
             position' = position + 1,
             signalled' = { i \in 1 .. position : Known(i) }
      PROVE  LoopInv'
  <2>1. /\ outcome = "running" /\ result = "ok" /\ position \in Nat \ {0}
        /\ position + 1 \in 1 .. Len(entries) + 1
    BY <1>5, AtEntry
  <2>2. position' - 1 = position /\ position' \in Nat \ {0} BY <1>5, <2>1
  <2>3. { i \in 1 .. position' - 1 : Known(i)' } = signalled'
    BY <1>5, <2>2 DEF Known
  <2>4. position' \notin signalled' BY <1>5, <2>1
  <2> QED BY <1>5, <2>1, <2>2, <2>3, <2>4 DEF LoopInv
<1>6. ASSUME InLoop, outcome' \in { "closed", "error" },
             UNCHANGED << position, entries, result >>,
             \/ UNCHANGED signalled
             \/ outcome' = "error" /\ signalled' = signalled \cup {position}
      PROVE  LoopInv'
  <2>1. /\ result = "ok" /\ position \in Nat \ {0} /\ outcome = "running"
    BY <1>6, AtEntry
  <2>2. position \notin signalled
    BY <2>1 DEF LoopInv
  <2>3. /\ signalled \ {position} = { i \in 1 .. position - 1 : Known(i) }
        /\ signalled' \ {position} = signalled \ {position}
    BY <1>6 DEF LoopInv
  <2>4. { i \in 1 .. position' - 1 : Known(i)' }
          = { i \in 1 .. position - 1 : Known(i) }
    BY <1>6 DEF Known
  <2> QED BY <1>6, <2>1, <2>2, <2>3, <2>4 DEF LoopInv
<1>7. CASE SkipUnknown
  <2>1. /\ InLoop /\ ~ Known(position)
        /\ position' = position + 1
        /\ UNCHANGED << entries, result, outcome, signalled >>
    BY <1>7 DEF SkipUnknown, parser
  <2>2. /\ position \in Nat /\ position \in 1 .. Len(entries)
        /\ signalled = { i \in 1 .. position - 1 : Known(i) }
    BY <2>1, AtEntry
  <2>3. \A i \in 1 .. position : i \in 1 .. position - 1 \/ i = position
    BY <2>2
  <2>4. \A i \in 1 .. position - 1 : i \in 1 .. position BY <2>2
  <2>5. signalled = { i \in 1 .. position : Known(i) }
    BY <2>1, <2>2, <2>3, <2>4
  <2> QED BY <1>5, <2>1, <2>5
<1>8. CASE SignalEntry
  <2>1. /\ InLoop /\ Known(position)
        /\ signalled' = signalled \cup {position}
        /\ UNCHANGED << entries, result >>
        /\ \/ position' = position + 1 /\ UNCHANGED outcome
           \/ outcome' = "error" /\ UNCHANGED position
    BY <1>8 DEF SignalEntry, parser
  <2>2. /\ position \in Nat /\ position >= 1
        /\ signalled = { i \in 1 .. position - 1 : Known(i) }
    BY <2>1, AtEntry
  <2>3. /\ \A i \in 1 .. position : i \in 1 .. position - 1 \/ i = position
        /\ \A i \in 1 .. position - 1 : i \in 1 .. position
        /\ position \in 1 .. position
    BY <2>2
  <2>4. signalled' = { i \in 1 .. position : Known(i) }
    BY <2>1, <2>2, <2>3
  <2>5. CASE position' = position + 1 /\ UNCHANGED outcome
    BY <1>5, <2>1, <2>4, <2>5
  <2>6. CASE outcome' = "error" /\ UNCHANGED position
    BY <1>6, <2>1, <2>6
  <2> QED BY <2>1, <2>5, <2>6
<1>9. CASE SignalRefused BY <1>6, <1>9 DEF SignalRefused, parser
<1>10. CASE SignalFails BY <1>6, <1>10 DEF SignalFails, parser
<1>11. CASE EndLoop
  <2>1. /\ outcome = "running" /\ outcome' = "ok"
        /\ position > Len(entries)
        /\ UNCHANGED << position, signalled, entries, result >>
    BY <1>11 DEF EndLoop, parser
  <2>2. /\ result = "ok" /\ position \in Nat \ {0}
        /\ position \in 1 .. Len(entries) + 1
        /\ position \notin signalled
        /\ signalled \ {position} = { i \in 1 .. position - 1 : Known(i) }
    BY <2>1 DEF LoopInv
  <2>3. position = Len(entries) + 1
    <3>1. entries \in Seq(Entries) BY DEF ParserInv, ParserType
    <3>2. PICK n \in Nat : n = Len(entries) BY <3>1
    <3> QED BY <2>1, <2>2, <3>2
  <2>4. signalled' \ {position'} = { i \in 1 .. position' - 1 : Known(i)' }
    BY <2>1, <2>2 DEF Known
  <2> QED BY <2>1, <2>2, <2>3, <2>4 DEF LoopInv
<1>12. CASE PaymentStep BY <1>1, <1>12 DEF PaymentStep
<1>13. CASE UNCHANGED << vars, parser, loop >> BY <1>1, <1>13
<1> QED
  BY <1>2, <1>3, <1>4, <1>7, <1>8, <1>9, <1>10, <1>11, <1>12, <1>13 DEF FNext

LEMMA LoopInvariant == FSpec => []LoopInv
<1>1. FInit => LoopInv
  <2> SUFFICES ASSUME FInit PROVE LoopInv
    OBVIOUS
  <2>1. /\ position = 1 /\ outcome = "none" /\ signalled = {}
    BY DEF FInit
  <2>2. { i \in 1 .. 1 - 1 : Known(i) } = {} OBVIOUS
  <2> QED BY <2>1, <2>2 DEF LoopInv
<1> QED BY <1>1, LoopStep, ParserInvariant, PTL DEF FSpec

\* return_simulator.go 87-119: wherever the run of a file is, or has stopped,
\* the entries signalled are those of known payments before its position, none
\* left out, and a run that returns nil has gone past every entry, for any
\* file and any interleaving with the workflows.
THEOREM FilesAreDelivered == FSpec => []FileDelivered
<1>1. ParserInv /\ LoopInv => FileDelivered
  <2> SUFFICES ASSUME ParserInv, LoopInv PROVE FileDelivered
    OBVIOUS
  <2>1. ASSUME outcome = "ok"
        PROVE  Len(entries) =
                 Cardinality({ k \in DOMAIN file : IsEntry(file[k]) })
    <3>1. result = "ok" BY <2>1 DEF LoopInv
    <3> QED BY <3>1, AllFound DEF At
  <2> QED BY <2>1 DEF LoopInv, FileDelivered
<1> QED BY <1>1, ParserInvariant, LoopInvariant, PTL

(***************************************************************************)
(* To the payments a file is a sequence of returns posted one by one.      *)
(***************************************************************************)

\* return_simulator.go 108-113: the code of an entry, or none, is given to a
\* workflow that is there to get it, so that a run of files makes the payments
\* do nothing that PaymentWorkflow does not.
THEOREM FilesActAsReturns == FSpec => Spec
<1>1. ASSUME ParserInv, LoopInv, SignalEntry PROVE Next
  <2>1. /\ InLoop /\ Known(position)
        /\ PostReturn(Payment, entries[position].code)
    BY <1>1 DEF SignalEntry
  <2>2. entries[position].code \in RCodes
    <3>1. entries[position] \in Entries BY <1>1, <2>1, AtEntry
    <3> QED BY <3>1 DEF Entries
  <2>3. Payment \in Payments BY <2>1 DEF Known, Payment
  <2> QED BY <2>1, <2>2, <2>3 DEF Next
<1>2. ParserInv /\ LoopInv /\ [FNext]_<< vars, parser, loop >> => [Next]_vars
  <2> SUFFICES ASSUME ParserInv, LoopInv, [FNext]_<< vars, parser, loop >>
               PROVE  Next \/ UNCHANGED vars
    OBVIOUS
  <2>1. CASE PaymentStep BY <2>1 DEF PaymentStep, Next
  <2>2. CASE UNCHANGED << vars, parser, loop >> BY <2>2
  <2> QED
    BY <1>1, <2>1, <2>2 DEF FNext, RunFile, Parse, Parsed, SkipUnknown,
       SignalRefused, SignalFails, EndLoop
<1>3. FInit => Init BY DEF FInit
<1> QED BY <1>2, <1>3, ParserInvariant, LoopInvariant, PTL DEF FSpec, Spec

\* payment_workflow.go 209-330: the returns of files justify the outcomes of
\* the payments as those of the API do.
THEOREM FilesJustifyOutcomes ==
  LateEffects = FALSE => (FSpec => []OutcomeJustified)
BY FilesActAsReturns, OutcomesAreJustified, PTL
=============================================================================
