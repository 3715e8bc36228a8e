-------------------------- MODULE MCSemanticIndex --------------------------
(* Instances of SemanticIndex for TLC, with the pieces the chunker really  *)
(* makes of two versions of a text.                                        *)
EXTENDS SemanticIndex, Chunker, SearchRanking

\* The first version of a text is cut into two chunks, the second into one.
OddInTwo == [v \in Versions |-> IF v % 2 = 1 THEN {0, 1} ELSE {0}]

\* The text of n letters of the given sizes with, before each letter but the
\* first, nothing, a space or the end of a sentence.
TextOf(sizes, breaks) ==
  LET Letter(i) == <<i, sizes[i]>>
      Put(text, i) ==
        LET s == Len(text)
            w == Len(text[s])
        IN  CASE breaks[i] = "none"     -> [text EXCEPT ![s][w] = Append(@, Letter(i))]
              [] breaks[i] = "space"    -> [text EXCEPT ![s] = Append(@, <<Letter(i)>>)]
              [] breaks[i] = "sentence" -> Append(text, <<<<Letter(i)>>>>)
  IN  Fold(Put, <<<<<<Letter(1)>>>>>>, [i \in 1 .. Len(sizes) - 1 |-> i + 1])

\* One limit and overlap for each way they can meet texts this small.
Settings == {<<2, 0>>, <<2, 1>>, <<3, 1>>, <<4, 2>>}

\* Two sentences of three words and of one, too long for one chunk of seven
\* bytes, and the later version with the second sentence gone.
TwoSentences == TextOf(<<1, 1, 2, 1, 1>>, <<"none", "none", "space", "space", "sentence">>)
TextAt(v) == IF v % 2 = 1 THEN TwoSentences ELSE SubSeq(TwoSentences, 1, 1)

ASSUME RankingHolds ==
  /\ \A candidates \in Streams, requested \in 1 .. 3, min_score \in 0 .. 2 :
       /\ ByRecording(candidates)
       /\ HeapKeepsBest(candidates, requested, min_score)
       /\ SearchIsBest(candidates, requested, min_score)
  /\ \A exact, prefix, semantic \in Lists, limit \in 1 .. 4 : RankInOrder(exact, prefix, semantic, limit)

ASSUME ChunksHold ==
  \A n \in 1 .. 5 :
    \A sizes \in [1 .. n -> 1 .. 2], breaks \in [2 .. n -> {"none", "space", "sentence"}] :
      LET text == TextOf(sizes, breaks)
      IN  \A set \in Settings :
            LET made == chunk(text, set[1], set[2])
            IN  WithinLimit(made, set[1]) /\ NothingLost(text, made) /\ InOrder(made)

ASSUME PiecesAssumption ==
  \A v \in Versions : OddInTwo[v] = {i - 1 : i \in DOMAIN chunk(TextAt(v), 7, 1)}
=============================================================================
