----------------------------- MODULE SegmentLoop -----------------------------
(***************************************************************************)
(* The loop of plan_segments as archive/asr_backfill.py runs it, and what  *)
(* it is to be the closed form of SegmentPlan: evaluated for small inputs  *)
(* by MCAsrStage, proved for all of them in AsrStageProofs.                *)
(***************************************************************************)
EXTENDS SegmentPlan, Sequences

\* while start < total: append a window, advance by the chunk.
LaidFrom(total, chunk) ==
  LET laid[start \in 0 .. total + chunk] ==
        IF start >= total THEN <<>>
        ELSE <<[start |-> start, duration |-> Lesser(chunk, total - start)]>>
             \o laid[start + chunk]
  IN  laid[0]

\* The tail borrows from its neighbour, or is merged into it.
Repaired(plan, minimum) ==
  LET n     == Len(plan)
      take  == Lesser(minimum - plan[n].duration, Greater(0, plan[n - 1].duration - minimum))
      given == [plan EXCEPT ![n - 1].duration = @ - take,
                            ![n] = [start |-> @.start - take, duration |-> @.duration + take]]
  IN  IF n < 2 \/ plan[n].duration >= minimum THEN plan
      ELSE IF given[n].duration >= minimum THEN given
      ELSE [SubSeq(given, 1, n - 1) EXCEPT ![n - 1].duration = @ + given[n].duration]

\* The loop lays and repairs the windows of the closed form.
ClosedForm(total, chunk, minimum) ==
  LET plan == Repaired(LaidFrom(total, chunk), minimum)
  IN  plan_segments(total, chunk, minimum) = [i \in 0 .. Len(plan) - 1 |-> plan[i + 1]]
=============================================================================
