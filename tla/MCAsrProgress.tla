---------------------------- MODULE MCAsrProgress ----------------------------
(* The stage with the page a reader opens, and the choice a review makes.   *)
EXTENDS MCAsrStage, AsrProgress, ReviewVerdict

Samples == {Empty} \cup
  {t \in [chars : {4, 8, 24}, junk : {0, 3}, words : {0, 1, 2, 8}, dominant : {0, 1, 2}] : CountsFit(t)}

ASSUME VerdictHolds == ScoresAgree(Samples) /\ VerdictEarned(Samples)
=============================================================================
