---------------------------- MODULE SegmentPlan ----------------------------
(***************************************************************************)
(* How archive/asr_backfill.py cuts a long recording into windows: the     *)
(* while-loop of plan_segments and its repair of a tail too short for the  *)
(* ASR service, in closed form.                                            *)
(***************************************************************************)
EXTENDS Integers

Lesser(a, b)  == IF a <= b THEN a ELSE b
Greater(a, b) == IF a >= b THEN a ELSE b

\* The configured window size, clamped to what the server accepts.
WindowSize(requested, cap) == Greater(1, Lesser(requested, cap))

\* How many windows the loop lays end to end, and the length of the last.
Count(total, chunk)   == (total + chunk - 1) \div chunk
TailLen(total, chunk) == total - (Count(total, chunk) - 1) * chunk

TooShort(total, chunk, minimum) ==
  Count(total, chunk) > 1 /\ TailLen(total, chunk) < minimum

\* Seconds the tail takes from the window before it ...
Borrowed(total, chunk, minimum) ==
  IF TooShort(total, chunk, minimum)
  THEN Lesser(minimum - TailLen(total, chunk), Greater(0, chunk - minimum))
  ELSE 0

\* ... and whether that was not enough, so that both become one window.
Merged(total, chunk, minimum) ==
  /\ TooShort(total, chunk, minimum)
  /\ TailLen(total, chunk) + Borrowed(total, chunk, minimum) < minimum

Planned(total, chunk, minimum) ==
  IF Merged(total, chunk, minimum) THEN Count(total, chunk) - 1
                                   ELSE Count(total, chunk)

StartOf(total, chunk, minimum, i) ==
  IF i = Count(total, chunk) - 1 THEN i * chunk - Borrowed(total, chunk, minimum)
                                 ELSE i * chunk

EndOf(total, chunk, minimum, i) ==
  IF i = Planned(total, chunk, minimum) - 1 THEN total
  ELSE StartOf(total, chunk, minimum, i + 1)

plan_segments(total, chunk, minimum) ==
  [i \in 0 .. Planned(total, chunk, minimum) - 1 |->
     [start |-> StartOf(total, chunk, minimum, i),
      duration |-> EndOf(total, chunk, minimum, i) - StartOf(total, chunk, minimum, i)]]
=============================================================================
