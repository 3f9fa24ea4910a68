------------------------------- MODULE ReturnFile -------------------------------
(***************************************************************************)
(* SimulateReturnFromFile over PaymentWorkflow and NachaFile: a return     *)
(* file is parsed, and its entries are turned into signals one after       *)
(* another, while the workflows they are for go on, wait, or close.  A     *)
(* file may be run again, which is what its caller can do after an error.  *)
(* The first call of ParseFile is another caller's, with any file.         *)
(***************************************************************************)
EXTENDS PaymentWorkflow, NachaFile

CONSTANTS
  Files,              \* the files that may be run
  paymentIDByTrace,   \* the payment of each trace number that has one
  MaxRuns             \* bound: files run

ASSUME FilesAssumption ==
  /\ DOMAIN paymentIDByTrace \subseteq Traces
  /\ \A t \in DOMAIN paymentIDByTrace : paymentIDByTrace[t] \in Payments
  /\ AnyFile \notin Files
  /\ Codes \cup {NoRCode} \subseteq RCodes
  /\ MaxRuns \in Nat

VARIABLES
  position,   \* the entry the loop is at
  outcome,    \* "none", "parsing", "running", "ok", "closed" or "error"
  signalled,  \* the positions whose signal was accepted in this run
  runs        \* files run

loop == << position, outcome, signalled, runs >>

FInit ==
  /\ Init
  /\ NInit
  /\ position = 1
  /\ outcome = "none"
  /\ signalled = {}
  /\ runs = 0

RunFile(f) ==
  /\ outcome \notin {"parsing", "running"}
  /\ file = << >> \/ runs > 0
  /\ runs < MaxRuns
  /\ runs' = runs + 1
  /\ ParseFile(f)
  /\ position' = 1
  /\ outcome' = "parsing"
  /\ signalled' = {}
  /\ UNCHANGED vars

Parse == NNext /\ UNCHANGED << vars, loop >>

\* ParseFile has returned: nothing is signalled for a file with an error.
Parsed ==
  /\ outcome = "parsing"
  /\ result # "parsing"
  /\ outcome' = IF result = "ok" THEN "running" ELSE "error"
  /\ UNCHANGED << vars, parser, position, signalled, runs >>

InLoop == outcome = "running" /\ position <= Len(entries)

Known(i) == entries[i].trace \in DOMAIN paymentIDByTrace

Payment == paymentIDByTrace[entries[position].trace]

SkipUnknown ==
  /\ InLoop
  /\ ~ Known(position)
  /\ position' = position + 1
  /\ UNCHANGED << vars, parser, outcome, signalled, runs >>

\* The signal is accepted, or accepted with its answer lost: then the loop
\* returns the error.
SignalEntry ==
  /\ InLoop
  /\ Known(position)
  /\ PostReturn(Payment, entries[position].code)
  /\ signalled' = signalled \cup {position}
  /\ \/ position' = position + 1 /\ UNCHANGED outcome
     \/ outcome' = "error" /\ UNCHANGED position
  /\ UNCHANGED << parser, runs >>

\* Mutant: an error is logged and the loop goes on to return nil.
MutGoOn ==
  /\ InLoop
  /\ Known(position)
  /\ pc[Payment] \notin Running
  /\ position' = position + 1
  /\ UNCHANGED << vars, parser, outcome, signalled, runs >>

\* SignalWorkflow answers NotFound: the workflow is closed, or never started.
SignalRefused ==
  /\ InLoop
  /\ Known(position)
  /\ pc[Payment] \notin Running
  /\ outcome' = "closed"
  /\ UNCHANGED << vars, parser, position, signalled, runs >>

\* The call fails, or the caller stops, before the signal.
SignalFails ==
  /\ InLoop
  /\ Known(position)
  /\ outcome' = "error"
  /\ UNCHANGED << vars, parser, position, signalled, runs >>

EndLoop ==
  /\ outcome = "running"
  /\ position > Len(entries)
  /\ outcome' = "ok"
  /\ UNCHANGED << vars, parser, position, signalled, runs >>

\* The payments, from the first run on: earlier steps of theirs commute with
\* those of the parser.
PaymentStep ==
  /\ runs > 0
  /\ \E p \in Payments :
       CreatePayment(p) \/ ExecuteWorkflow(p) \/ WorkflowStep(p)
  /\ UNCHANGED << parser, loop >>

FNext ==
  \/ \E f \in Files : RunFile(f)
  \/ Parse
  \/ Parsed
  \/ SkipUnknown
  \/ SignalEntry
  \/ SignalRefused
  \/ SignalFails
  \/ EndLoop
  \/ PaymentStep

FSpec == FInit /\ [][FNext]_<< vars, parser, loop >>

-----------------------------------------------------------------------------

\* return_simulator.go 87-119: however the workflows moved while the file was
\* run, and wherever an error stopped the run, the returns signalled are those
\* of known payments before the position it has reached, none left out; an
\* error whose signal was accepted may add the one at that position.  A run
\* that returns nil has reached the end, past every entry of the file.
FileDelivered ==
  /\ signalled \ {position} = { i \in 1 .. position - 1 : Known(i) }
  /\ outcome \in { "running", "ok", "closed" } => position \notin signalled
  /\ outcome = "ok" =>
       /\ position = Len(entries) + 1
       /\ Len(entries) = Cardinality({ k \in DOMAIN file : IsEntry(file[k]) })
===============================================================================
