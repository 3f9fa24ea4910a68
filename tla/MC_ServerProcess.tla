--------------------------- MODULE MC_ServerProcess ---------------------------
(***************************************************************************)
(* An instance of ServerProcess for TLC; the unit of time is five seconds. *)
(***************************************************************************)
EXTENDS ServerProcess, TLC

CONSTANTS r1, r2, r3

\* The connections are interchangeable.
AnyRequest == Permutations(Requests)
=============================================================================
