------------------------------- MODULE Chunker -------------------------------
(***************************************************************************)
(* How the semantic index cuts a text (semantic_search/chunking.py with    *)
(* the byte counter of semantic_reconcile.py), as operators, and what they *)
(* promise.                                                                *)
(*                                                                         *)
(* A text is a sequence of sentences, a sentence of words, a word of       *)
(* characters <<at, bytes>>: its place among the text's letters and its    *)
(* size in UTF-8.  Chunks are sequences of words joined by one space.      *)
(***************************************************************************)
EXTENDS Naturals, Sequences

\* A loop over seq that carries one value along.
Fold(Op(_, _), base, seq) ==
  LET after[i \in 0 .. Len(seq)] == IF i = 0 THEN base ELSE Op(after[i - 1], seq[i])
  IN  after[Len(seq)]

Extended(seqs) == Fold(LAMBDA out, more : out \o more, <<>>, seqs)

Bytes(word) == Fold(LAMBDA sum, char : sum + char[2], 0, word)

\* Utf8ByteCounter of " ".join(words).
Count(words) ==
  Fold(LAMBDA sum, word : sum + Bytes(word), 0, words) + (IF words = <<>> THEN 0 ELSE Len(words) - 1)

\* What is finished, and what is being gathered.
Gathered == [out |-> <<>>, cur |-> <<>>]
Closed(acc) == IF acc.cur = <<>> THEN acc.out ELSE Append(acc.out, acc.cur)

\* A word longer than a chunk is cut between characters.
TakeChar(acc, char, max) ==
  IF acc.cur # <<>> /\ Bytes(Append(acc.cur, char)) > max
  THEN [out |-> Append(acc.out, acc.cur), cur |-> <<char>>]
  ELSE [acc EXCEPT !.cur = Append(@, char)]

_split_oversized_token(word, max) ==
  Closed(Fold(LAMBDA acc, char : TakeChar(acc, char, max), Gathered, word))

\* A chunk that follows another begins with as many of its last `overlap`
\* words as fit beside the next word.
_start_with_overlap(previous, word, max, overlap) ==
  LET kept  == IF overlap < Len(previous) THEN overlap ELSE Len(previous)
      last  == SubSeq(previous, Len(previous) - kept + 1, Len(previous))
      From(i) == Append(SubSeq(last, i, Len(last)), word)
  IN  From(CHOOSE i \in 1 .. Len(last) + 1 :
             /\ Count(From(i)) <= max \/ i > Len(last)
             /\ \A j \in 1 .. i - 1 : Count(From(j)) > max)

Cut(acc, word, max, overlap) ==
  [out |-> Append(acc.out, acc.cur), cur |-> _start_with_overlap(acc.cur, word, max, overlap)]

TakeWord(acc, word, max, overlap) ==
  IF acc.cur # <<>> /\ Count(Append(acc.cur, word)) > max
  THEN Cut(acc, word, max, overlap)
  ELSE [acc EXCEPT !.cur = Append(@, word)]

TakeWords(acc, words, max, overlap) ==
  Fold(LAMBDA sofar, word : TakeWord(sofar, word, max, overlap), acc, words)

\* Sentences that fit, and the long ones in overlapping pieces.
Pieced(sentence, max, overlap) ==
  LET Parts(word) == IF Bytes(word) > max THEN _split_oversized_token(word, max) ELSE <<word>>
      words == Extended([i \in 1 .. Len(sentence) |-> Parts(sentence[i])])
  IN  IF Count(sentence) <= max THEN <<sentence>>
      ELSE Closed(TakeWords(Gathered, words, max, overlap))

_pieces(text, max, overlap) ==
  Extended([i \in 1 .. Len(text) |-> Pieced(text[i], max, overlap)])

TakePiece(acc, piece, max, overlap) ==
  IF acc.cur # <<>> /\ Count(acc.cur \o piece) > max
  THEN TakeWords(Cut(acc, Head(piece), max, overlap), Tail(piece), max, overlap)
  ELSE [acc EXCEPT !.cur = @ \o piece]

chunk(text, max, overlap) ==
  Closed(Fold(LAMBDA acc, piece : TakePiece(acc, piece, max, overlap),
              Gathered, _pieces(text, max, overlap)))

(***************************************************************************)
(* What a search depends on.                                               *)
(***************************************************************************)

\* The letters of a text, and of a sentence or chunk.
Places(words)  == UNION {{words[i][j][1] : j \in DOMAIN words[i]} : i \in DOMAIN words}
Letters(texts) == UNION {Places(texts[i]) : i \in DOMAIN texts}

\* No chunk is larger than the model takes: no ValueError is ever raised.
WithinLimit(chunks, max) == \A i \in DOMAIN chunks : Count(chunks[i]) <= max

\* Every letter can be found, ...
NothingLost(text, chunks) == Letters(chunks) = Letters(text)

\* ... and the chunks that first show them show them in the order of the text.
InOrder(chunks) ==
  \A i, j \in DOMAIN chunks :
    j <= i => \A place \in Places(chunks[j]) : 1 .. place \subseteq Letters(SubSeq(chunks, 1, i))

\* Not kept by the code: a chunk shows something no earlier chunk has shown.
\* The overlap is laid twice over a sentence that is longer than a chunk, by
\* _pieces and again by chunk, and a chunk may consist of nothing else.
EveryChunkNew(chunks) ==
  \A i \in DOMAIN chunks :
    \E place \in Places(chunks[i]) : \A j \in 1 .. i - 1 : place \notin Places(chunks[j])
=============================================================================
