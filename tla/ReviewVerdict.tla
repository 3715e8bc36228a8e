---------------------------- MODULE ReviewVerdict ----------------------------
(***************************************************************************)
(* How a review chooses between PLAUD's text and the two local hypotheses  *)
(* (archive/asr_backfill.py quality_score, review_verdict), as operators.  *)
(* AsrStage lets the choice fall either way; here it is computed.          *)
(*                                                                         *)
(* A text is what is counted in it: [chars, junk, words, dominant], the    *)
(* last one how often its commonest word occurs.  Scores are in 1/10000,   *)
(* the four decimals quality_score rounds to.                              *)
(***************************************************************************)
EXTENDS Naturals, FiniteSets

CONSTANTS
  SubstantialWords,  \* REVIEW_SUBSTANTIAL_WORDS
  LoopShare,         \* 1 / REVIEW_LOOP_SHARE
  Margin,            \* REVIEW_MARGIN, in 1/10000
  TruncationTenths   \* REVIEW_TRUNCATION_RATIO, in tenths

ASSUME ReviewAssumption ==
  /\ SubstantialWords \in Nat \ {0} /\ LoopShare \in Nat \ {0}
  /\ Margin \in 1 .. 10000 /\ TruncationTenths \in 0 .. 10

Below(a, b) == IF a < b THEN a ELSE b
Excess(a, b) == IF a > b THEN a - b ELSE 0

\* 0.40 legibility + 0.25 variety + 0.35 substance.
quality_score(t) ==
  IF t.words = 0 THEN 0
  ELSE LET whole == t.chars * t.words * SubstantialWords
           parts == 4000 * Excess(t.chars, t.junk) * t.words * SubstantialWords
                    + 2500 * Excess(t.words, LoopShare * t.dominant) * t.chars * SubstantialWords
                    + 3500 * Below(t.words, SubstantialWords) * t.chars * t.words
       IN  (2 * parts + whole) \div (2 * whole)

score_candidate(source, t) ==
  [source |-> source, chars |-> t.chars, score |-> quality_score(t)]

\* max(eligible, key=(score, chars)), the first of equals.
Better(a, b) == a.score > b.score \/ (a.score = b.score /\ a.chars >= b.chars)

\* The reason is the first of the conditions that holds.
review_verdict(plaud_text, local_text, alternative, unresolved) ==
  LET plaud      == score_candidate("plaud", plaud_text)
      local      == score_candidate("local", local_text)
      runner_up  == score_candidate("local-alternative", alternative)
      challenger == IF unresolved \/ Better(local, runner_up) THEN local ELSE runner_up
      reason == CASE challenger.chars = 0 -> "local-empty"
                  [] challenger.chars # 0 /\ plaud.chars = 0 -> "plaud-empty"
                  [] challenger.chars # 0 /\ plaud.chars # 0 ->
                       IF challenger.score >= plaud.score + Margin THEN "local-clearly-better"
                       ELSE IF /\ 10 * plaud.chars < TruncationTenths * challenger.chars
                               /\ challenger.score >= plaud.score
                            THEN "plaud-truncated" ELSE "plaud-adequate"
      takes == reason \in {"plaud-empty", "local-clearly-better", "plaud-truncated"}
  IN  [reason |-> reason,
       selected |-> IF takes THEN challenger.source ELSE "plaud",
       alternative |-> IF ~takes THEN "none"
                       ELSE IF challenger = local THEN runner_up.source ELSE local.source]

(***************************************************************************)
(* What a reader may rely on.                                              *)
(***************************************************************************)

Empty == [chars |-> 0, junk |-> 0, words |-> 0, dominant |-> 0]

\* Every word has a character, and the commonest of them is one of them.
CountsFit(t) ==
  t.words <= t.chars /\ t.dominant <= t.words /\ (t.words > 0 => t.dominant > 0)

\* A score is a share, and repeating one word or showing junk never raises it.
ScoresAgree(texts) ==
  \A t, u \in texts :
    /\ quality_score(t) \in 0 .. 10000
    /\ t.chars = u.chars /\ t.words = u.words /\ t.junk <= u.junk /\ t.dominant <= u.dominant
         => quality_score(t) >= quality_score(u)

\* The text being read is replaced only by one that is there and scores no
\* worse, and by one of the same length only when it scores better; what was
\* assembled across an unresolved window is never selected; a text with nothing
\* to compare it with stays.
VerdictEarned(texts) ==
  \A plaud, local, other \in texts, unresolved \in BOOLEAN :
    LET v == review_verdict(plaud, local, other, unresolved)
        taken == IF v.selected = "local" THEN local ELSE other
    IN  /\ unresolved => v.selected # "local-alternative"
        /\ local = Empty /\ other = Empty => v.selected = "plaud"
        /\ v.selected # "plaud" =>
             /\ taken.chars > 0 /\ quality_score(taken) >= quality_score(plaud)
             /\ taken.chars = plaud.chars => quality_score(taken) > quality_score(plaud)
=============================================================================
