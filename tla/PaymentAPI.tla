------------------------------- MODULE PaymentAPI -------------------------------
(***************************************************************************)
(* The workflows behind their HTTP handlers.  A request is handled in      *)
(* steps, one per call the handler makes, while the workflows, other       *)
(* requests, the workers and attempts that were given up go on.  A call    *)
(* may fail without its effect (the 30 s timeout of the router cancels its *)
(* context), or have it and lose the answer; a request whose server stops  *)
(* takes no further step, and what it did so far stays.                    *)
(***************************************************************************)
EXTENDS PaymentWorkflow

NoPayment == "no payment"

CONSTANTS
  Requests,      \* requests that may be made
  ReturnCents,   \* values of amount_cents in returns
  FieldLimit     \* 10 ^ 10: what the amount field of a return file can hold

\* handlers.go 286: amount_cents is positive; the field holds some digits.
ASSUME RequestsAssumption ==
  /\ ReturnCents \subseteq Nat
  /\ FieldLimit \in Nat \ {0}

VARIABLES
  handler,   \* the next call of the request, or "idle", "answered"
  kind,      \* the endpoint
  about,     \* the payment
  argument,  \* the code and the cents of a return
  answer,    \* the status code sent
  seen,      \* the state GetPaymentByID returned
  logged     \* the entries of the audit log that were returned

requests == << handler, kind, about, argument, answer, seen, logged >>
apivars  == << vars, requests >>

NoArgument == [code |-> NoCode, cents |-> 0]

AInit ==
  /\ Init
  /\ handler = [r \in Requests |-> "idle"]
  /\ kind = [r \in Requests |-> "none"]
  /\ about = [r \in Requests |-> NoPayment]
  /\ argument = [r \in Requests |-> NoArgument]
  /\ answer = [r \in Requests |-> 0]
  /\ seen = [r \in Requests |-> NoState]
  /\ logged = [r \in Requests |-> {}]

\* A request arrives and passes the validation of its handler; the others
\* are answered 400 before any call and change nothing.
Accept(r, k, p, arg, call) ==
  /\ handler[r] = "idle"
  /\ handler' = [handler EXCEPT ![r] = call]
  /\ kind' = [kind EXCEPT ![r] = k]
  /\ about' = [about EXCEPT ![r] = p]
  /\ argument' = [argument EXCEPT ![r] = arg]
  /\ UNCHANGED << vars, answer, seen, logged >>

Answer(r, code) ==
  /\ handler' = [handler EXCEPT ![r] = "answered"]
  /\ answer' = [answer EXCEPT ![r] = code]

\* A call failed without an effect, with a 500.
CallFails(r) ==
  /\ handler[r] \notin {"idle", "answered"}
  /\ Answer(r, 500)
  /\ UNCHANGED << vars, kind, about, argument, seen, logged >>

(***************************************************************************)
(* POST /payments                                                          *)
(***************************************************************************)

\* paymentID is a fresh UUID.
ReceiveCreate(r, p) ==
  /\ \A s \in Requests : ~ (kind[s] = "create" /\ about[s] = p)
  /\ Accept(r, "create", p, NoArgument, "insert")

\* The insert; the answer of the database may be lost.
InsertPayment(r) ==
  /\ handler[r] = "insert"
  /\ CreatePayment(about[r])
  /\ \/ handler' = [handler EXCEPT ![r] = "start"] /\ UNCHANGED answer
     \/ Answer(r, 500)
  /\ UNCHANGED << kind, about, argument, seen, logged >>

\* Mutant: the 201 is written before the workflow is started.
MutAnswerFirst(r) ==
  /\ handler[r] = "start"
  /\ \/ ExecuteWorkflow(about[r]) /\ Answer(r, 500)
     \/ Answer(r, 201) /\ UNCHANGED vars
  /\ UNCHANGED << kind, about, argument, seen, logged >>

StartWorkflow(r) ==
  /\ handler[r] = "start"
  /\ ExecuteWorkflow(about[r])
  /\ Answer(r, 201) \/ Answer(r, 500)
  /\ UNCHANGED << kind, about, argument, seen, logged >>

(***************************************************************************)
(* POST /payments/{id}/return and SimulateReturn                           *)
(***************************************************************************)

ReceiveReturnRequest(r, p, code, cents) ==
  Accept(r, "return", p, [code |-> code, cents |-> cents], "roundtrip")

\* The file is generated, parsed and compared: the amount field keeps the
\* last ten digits, so a larger amount does not come back.
RoundTrip(r) ==
  /\ handler[r] = "roundtrip"
  /\ IF argument[r].cents % FieldLimit = argument[r].cents
       THEN handler' = [handler EXCEPT ![r] = "signal"] /\ UNCHANGED answer
       ELSE Answer(r, 500)
  /\ UNCHANGED << vars, kind, about, argument, seen, logged >>

\* Mutant: the error of SignalWorkflow is dropped.
MutIgnoreSignalError(r) ==
  /\ handler[r] = "signal"
  /\ \/ PostReturn(about[r], argument[r].code)
     \/ pc[about[r]] \notin Running /\ UNCHANGED vars
  /\ Answer(r, 200)
  /\ UNCHANGED << kind, about, argument, seen, logged >>

\* SignalWorkflow: accepted while the workflow runs, else NotFound.
SignalWorkflow(r) ==
  /\ handler[r] = "signal"
  /\ \/ /\ PostReturn(about[r], argument[r].code)
        /\ Answer(r, 200) \/ Answer(r, 500)
     \/ /\ pc[about[r]] \notin Running
        /\ Answer(r, 500)
        /\ UNCHANGED vars
  /\ UNCHANGED << kind, about, argument, seen, logged >>

(***************************************************************************)
(* GET /payments/{id} and GET /payments/{id}/audit                         *)
(***************************************************************************)

ReceiveGet(r, p, k) == Accept(r, k, p, NoArgument, "row")

\* GetPaymentByID: one SELECT; the audit handler uses it as an existence
\* check and reads the log in a second statement.
ReadRow(r) ==
  LET p == about[r]
  IN  /\ handler[r] = "row"
      /\ seen' = [seen EXCEPT ![r] = row[p].state]
      /\ \/ row[p] = NoRow /\ Answer(r, 404)
         \/ row[p] # NoRow /\ kind[r] = "status" /\ Answer(r, 200)
         \/ /\ row[p] # NoRow /\ kind[r] # "status"
            /\ handler' = [handler EXCEPT ![r] = "log"] /\ UNCHANGED answer
      /\ UNCHANGED << vars, kind, about, argument, logged >>

\* The entries are sorted by created_at, which every attempt took from the
\* clock of its worker before its transaction: nothing ties that order to the
\* order of the transitions, and it is left out.
Entries(p) == { audit[p][i] : i \in DOMAIN audit[p] }

ReadLog(r) ==
  LET p == about[r]
  IN  /\ handler[r] = "log"
      /\ logged' = [logged EXCEPT ![r] = Entries(p)]
      /\ Answer(r, 200)
      /\ UNCHANGED << vars, kind, about, argument, seen >>

-----------------------------------------------------------------------------

Handle(r) ==
  \/ CallFails(r)
  \/ InsertPayment(r)
  \/ StartWorkflow(r)
  \/ RoundTrip(r)
  \/ SignalWorkflow(r)
  \/ ReadRow(r)
  \/ ReadLog(r)

ANext ==
  \/ \E r \in Requests, p \in Payments :
       \/ ReceiveCreate(r, p)
       \/ \E code \in RCodes, cents \in ReturnCents :
            ReceiveReturnRequest(r, p, code, cents)
       \/ \E k \in {"status", "audit"} : ReceiveGet(r, p, k)
  \/ \E r \in Requests : Handle(r)
  \/ \E p \in Payments : (WorkflowStep(p) \/ LateStep(p)) /\ UNCHANGED requests

ASpec == AInit /\ [][ANext]_apivars

-----------------------------------------------------------------------------

Answered(k, code, p) ==
  { r \in Requests : kind[r] = k /\ answer[r] = code /\ about[r] = p }

\* handlers.go 201-227: a client that was told 201 has a payment whose
\* workflow was started, whatever was cut or failed around it.
CreatedMeansStarted ==
  \A p \in Payments :
    Answered("create", 201, p) # {} => pc[p] \notin {"absent", "created"}

\* handlers.go 291-307: every return answered 200 is a signal of its own in
\* the history of the workflow (a lost answer may only make them more), and
\* its amount came back from the file.
AnsweredReturnsAccepted ==
  \A p \in Payments :
    LET told == Answered("return", 200, p)
    IN  /\ Cardinality(told) <= accepted[p]
        /\ \A r \in told : argument[r].cents < FieldLimit

\* handlers.go 318-333: the log explains the state the same handler has just
\* read, between whose two statements the workflow goes on, and every entry
\* of it but the first transition begins in a state another entry ends in; a
\* state that was returned by itself is explained by the log of later.
Explained(state, log) == state \in {"INITIATED"} \cup { entry.to : entry \in log }

ReadsAgree ==
  \A r \in Requests :
    answer[r] = 200 /\ kind[r] \in {"status", "audit"} =>
      LET log == IF kind[r] = "audit" THEN logged[r] ELSE Entries(about[r])
      IN  /\ Explained(seen[r], log)
          /\ \A entry \in log : Explained(entry.from, log)
=============================================================================
