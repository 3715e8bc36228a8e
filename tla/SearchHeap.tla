----------------------------- MODULE SearchHeap -----------------------------
(***************************************************************************)
(* The one pass of SemanticProvider.search over the chunks of the index    *)
(* (semantic_search/provider.py), with a heap of the best recordings so    *)
(* far.                                                                    *)
(*                                                                         *)
(* A candidate is a chunk with its score, [rec, ord, score]; recordings    *)
(* and scores are numbers, in the order of ids and of products.            *)
(***************************************************************************)
EXTENDS Naturals, Sequences, FiniteSets

\* The candidates of an index: by recording, and by place within one
\* (TenantIndex.iter_candidates, ORDER BY; a place is taken once).
ByRecording(candidates) ==
  \A i, j \in DOMAIN candidates : i < j =>
    \/ candidates[i].rec < candidates[j].rec
    \/ candidates[i].rec = candidates[j].rec /\ candidates[i].ord < candidates[j].ord

\* _ScoredChunk.rank_key, the order of an answer.
rank_key(a, b) ==
  \/ a.score > b.score
  \/ a.score = b.score /\ a.rec < b.rec
  \/ a.score = b.score /\ a.rec = b.rec /\ a.ord < b.ord

\* heappush and, once there are more than were asked for, heappop of the worst.
retain(hits, best, requested) ==
  LET pushed == hits \cup best
      Worst(h) == \A g \in pushed \ {h} : rank_key(g, h)
  IN  IF Cardinality(pushed) > requested THEN {h \in pushed : ~Worst(h)} ELSE pushed

\* One candidate: the recording before it is over, and it may be the best of
\* its own.
Scored(acc, chunk, requested, min_score) ==
  LET changed == acc.best # {} /\ \A h \in acc.best : h.rec # chunk.rec
      kept    == IF changed THEN {} ELSE acc.best
      better  == chunk.score >= min_score /\ \A h \in kept : rank_key(chunk, h)
  IN  [hits |-> IF changed THEN retain(acc.hits, acc.best, requested) ELSE acc.hits,
       best |-> IF better THEN {chunk} ELSE kept]

\* The heap when the pass is over, and the answer sorted from it.
top_hits(candidates, requested, min_score) ==
  LET after[i \in 0 .. Len(candidates)] ==
        IF i = 0 THEN [hits |-> {}, best |-> {}]
        ELSE Scored(after[i - 1], candidates[i], requested, min_score)
      last == after[Len(candidates)]
  IN  retain(last.hits, last.best, requested)

(***************************************************************************)
(* What it stands for.                                                     *)
(***************************************************************************)

\* The best chunk of every recording that is good enough, ...
Best(all, min_score) ==
  {c \in all : c.score >= min_score /\ \A d \in all : d.rec = c.rec => ~rank_key(d, c)}

\* ... those of them with fewer than so many ahead ...
Top(all, requested) == {c \in all : Cardinality({d \in all : rank_key(d, c)}) < requested}

\* ... are what the bounded heap holds: it never drops a hit a later one does
\* not make up for.
HeapKeepsBest(candidates, requested, min_score) ==
  top_hits(candidates, requested, min_score) =
    Top(Best({candidates[i] : i \in DOMAIN candidates}, min_score), requested)
=============================================================================
