---------------------------- MODULE SearchRanking ----------------------------
(***************************************************************************)
(* The order of an answer: what SemanticProvider.search makes of its heap  *)
(* and the merge (semantic_search/hybrid.py) with the viewer's lexical     *)
(* rows (viewer/app/search.py), as operators; TLC checks them on small     *)
(* inputs against what they stand for.                                     *)
(***************************************************************************)
EXTENDS SearchHeap
LOCAL INSTANCE SequencesExt
LOCAL INSTANCE FiniteSetsExt

search(candidates, requested, min_score) ==
  SetToSortSeq(top_hits(candidates, requested, min_score), rank_key)

\* The viewer's lexical rows, of two queries with one limit: whole words, then
\* prefixes that are not already there.
_search(exact_rows, prefix_rows, limit) ==
  LET exact_ids == {exact_rows[i] : i \in DOMAIN exact_rows}
      rows == exact_rows \o SelectSeq(prefix_rows, LAMBDA rec : rec \notin exact_ids)
  IN  [i \in 1 .. Min({Len(rows), limit}) |->
         [rec |-> rows[i], match |-> IF rows[i] \in exact_ids THEN "exact" ELSE "prefix"]]

\* HybridRanker.rank: exact rows, then the other lexical ones, then semantic
\* ones; a recording once, where it comes first.
rank(lexical, semantic, limit) ==
  LET in_order == SelectSeq(lexical, LAMBDA row : row.match = "exact")
                  \o SelectSeq(lexical, LAMBDA row : row.match # "exact") \o semantic
      Once(out, row) == IF \E i \in DOMAIN out : out[i].rec = row.rec THEN out ELSE Append(out, row)
      output == FoldLeft(Once, <<>>, in_order)
  IN  SubSeq(output, 1, Min({Len(output), Max({1, limit})}))

(***************************************************************************)
(* What they stand for.                                                    *)
(***************************************************************************)

\* The answer is the first of what the heap is to hold, best first.
SearchIsBest(candidates, requested, min_score) ==
  LET best == SetToSortSeq(Best({candidates[i] : i \in DOMAIN candidates}, min_score), rank_key)
  IN  search(candidates, requested, min_score) = SubSeq(best, 1, Min({requested, Len(best)}))

\* Scores of the chunks of three recordings of two, one and one.
Streams == {<<[rec |-> 1, ord |-> 0, score |-> s[1]], [rec |-> 1, ord |-> 1, score |-> s[2]],
              [rec |-> 2, ord |-> 0, score |-> s[3]], [rec |-> 3, ord |-> 0, score |-> s[4]]>>
              : s \in [1 .. 4 -> 0 .. 3]}

\* No recording twice, a word found exactly before any guess, and a recording
\* is left out only when the answer is full.
Lists == UNION {{list \in [1 .. n -> 1 .. 3] : IsInjective(list)} : n \in 0 .. 2}
RankInOrder(exact, prefix, semantic, limit) ==
  LET rows == [i \in DOMAIN semantic |-> [rec |-> semantic[i], match |-> "semantic"]]
      out  == rank(_search(exact, prefix, limit), rows, limit)
      Place(match) == CASE match = "exact" -> 1 [] match = "prefix" -> 2 [] match = "semantic" -> 3
      found == UNION {{exact[i] : i \in DOMAIN exact}, {prefix[i] : i \in DOMAIN prefix},
                      {semantic[i] : i \in DOMAIN semantic}}
  IN  /\ \A i, j \in DOMAIN out :
           i < j => out[i].rec # out[j].rec /\ Place(out[i].match) <= Place(out[j].match)
      /\ Len(out) < limit => {out[i].rec : i \in DOMAIN out} = found
=============================================================================
