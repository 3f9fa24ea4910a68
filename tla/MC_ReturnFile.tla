----------------------------- MODULE MC_ReturnFile -----------------------------
(***************************************************************************)
(* An instance of ReturnFile for TLC: two payments, two files that can be  *)
(* run and one that is refused.                                            *)
(***************************************************************************)
EXTENDS ReturnFile

CONSTANTS p1, p2

ThreeTraces == { "t1", "t2", "t3" }

TwoOfThem == [t \in {"t1", "t2"} |-> IF t = "t1" THEN p1 ELSE p2]

TwoReturns == { "R01", "R16" }

\* With a field of two digits: an amount that fits and one that does not.
TwoSizes == { 42, 142 }

\* A return of an unknown payment between two others; the same payment twice,
\* once without an addenda; a bad line after a good entry.
ThreeFiles ==
  { << Header("01"), Entry("t1", 42), Addenda("R01"), Entry("t3", 42),
       Addenda("R16"), Entry("t2", 42), Addenda("R16") >>,
    << Header("01"), Entry("t2", 42), Entry("t2", 42), Addenda("R01"),
       FileControl >>,
    << Entry("t1", 42), Addenda("R01"), Plain("unknown") >> }

FileCodes == { "R01", "R16", NoRCode }

\* Two payments whose UUIDs begin with the same eight characters.
SamePrefix == [p \in Payments |-> "prefix"]

OneSecond == { 1 }
=============================================================================
