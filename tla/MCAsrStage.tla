----------------------------- MODULE MCAsrStage -----------------------------
(* Instances of AsrStage for TLC. *)
EXTENDS AsrStage, SegmentLoop, TLC
CONSTANTS o1, o2, h1, h2

\* A restarted container keeps its hostname and pid, a replaced one does not.
NewOwner       == <<o1, o2>>
RestartReplace == <<o1, o1, o2>>
TwoHosts       == (o1 :> h1) @@ (o2 :> h2)

\* The last incarnation may run with another window size, 9 being one above
\* the cap that is clamped to it.
Retuned        == <<2, 2, 9>>
Steady         == <<2, 2>>

\* The loop as written plans what the closed form says.
ASSUME ClosedFormHolds ==
  \A total \in 1 .. 14, chunk \in 1 .. 6, minimum \in 1 .. 6 :
    ClosedForm(total, chunk, minimum)
=============================================================================
