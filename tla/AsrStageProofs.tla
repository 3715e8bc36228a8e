--------------------------- MODULE AsrStageProofs ---------------------------
(***************************************************************************)
(* Proofs about the ASR stage.  First the plan of a long recording, for    *)
(* every duration and window size, and that the loop of the code is that   *)
(* plan; then the stage: its types, that only    *)
(* failures spend attempts, and what is published, heard and kept; then    *)
(* the page a reader opens meanwhile, and last the choice of a review.     *)
(***************************************************************************)
EXTENDS AsrProgress, ReviewVerdict, SegmentLoop, WellFoundedInduction, TLAPS

\* What the loop leaves for the last window is never empty.
LEMMA TailOfLoop ==
  ASSUME NEW total \in Nat \ {0}, NEW chunk \in Nat \ {0}
  PROVE  /\ Count(total, chunk) \in Nat \ {0}
         /\ TailLen(total, chunk) \in 1 .. chunk
BY DEF Count, TailLen

\* Borrowing never takes the neighbour below the minimum, and only a tail that
\* had a neighbour is merged.
LEMMA RepairOfTail ==
  ASSUME NEW total \in Nat \ {0}, NEW chunk \in Nat \ {0}, NEW minimum \in Nat \ {0}
  PROVE  /\ Borrowed(total, chunk, minimum) \in 0 .. chunk - 1
         /\ Borrowed(total, chunk, minimum) > 0 => /\ Count(total, chunk) > 1
                                                  /\ chunk - Borrowed(total, chunk, minimum) >= minimum
         /\ Planned(total, chunk, minimum) \in Nat \ {0}
BY TailOfLoop DEF Borrowed, TooShort, Merged, Planned, Lesser, Greater

\* A set of numbers that is not empty has a least one: what an induction needs,
\* without an operator as parameter.
LEMMA Least ==
  ASSUME NEW T \in SUBSET Nat, T # {}
  PROVE  \E x \in T : \A y \in T : x <= y
<1> DEFINE R == {ss \in Nat \X Nat : ss[1] < ss[2]}
<1>1. IsWellFoundedOn(R, Nat)
  BY NatLessThanWellFounded DEF OpToRel
<1>2. PICK x \in T : \A y \in T : ~ (<<y, x>> \in R)
  <2> HIDE DEF R
  <2> QED BY <1>1, WFMin, Zenon
<1>3. \A y \in T : ~ (y < x)
  BY <1>2
<1> QED BY <1>3

\* The windows the loop lays from a second on, and their number.
Windows(total, chunk, start) == IF start >= total THEN 0 ELSE Count(total - start, chunk)
Window(total, chunk, start) == [start |-> start, duration |-> Lesser(chunk, total - start)]
Lay(total, chunk, start) ==
  [i \in 1 .. Windows(total, chunk, start) |-> Window(total, chunk, start + (i - 1) * chunk)]

\* One turn of the loop lays one window.
LEMMA OneMore ==
  ASSUME NEW total \in Nat \ {0}, NEW chunk \in Nat \ {0}, NEW start \in Nat, start < total
  PROVE  /\ Windows(total, chunk, start + chunk) \in Nat
         /\ Windows(total, chunk, start) = Windows(total, chunk, start + chunk) + 1
<1> DEFINE left == total - start
<1>1. left \in Nat \ {0}
  OBVIOUS
<1>2. CASE left <= chunk
  <2>1. Count(left, chunk) = 1
    <3> HIDE DEF left
    <3>1. (left + chunk - 1) \div chunk = 1
      BY <1>1, <1>2
    <3> QED BY <3>1 DEF Count
  <2> QED BY <1>2, <2>1 DEF Windows
<1>3. CASE left > chunk
  <2> DEFINE rest == left - chunk
  <2>1. rest \in Nat \ {0} /\ rest = total - (start + chunk)
    BY <1>1, <1>3
  <2>2. Count(left, chunk) = Count(rest, chunk) + 1
    <3>1. (left + chunk - 1) = (rest + chunk - 1) + chunk
      BY <2>1
    <3>2. rest + chunk - 1 \in Nat
      BY <2>1
    <3> HIDE DEF left, rest
    <3>3. ASSUME NEW x \in Nat PROVE (x + chunk) \div chunk = x \div chunk + 1
      OBVIOUS
    <3> QED BY <3>1, <3>2, <3>3 DEF Count
  <2>3. Count(rest, chunk) \in Nat
    BY <2>1, TailOfLoop
  <2> QED BY <1>1, <1>3, <2>1, <2>2, <2>3 DEF Windows
<1> QED BY <1>1, <1>2, <1>3

\* Lay satisfies the equation of the loop.
LEMMA LayStep ==
  ASSUME NEW total \in Nat \ {0}, NEW chunk \in Nat \ {0}, NEW start \in Nat
  PROVE  Lay(total, chunk, start) =
           IF start >= total THEN <<>>
           ELSE <<Window(total, chunk, start)>> \o Lay(total, chunk, start + chunk)
<1>1. CASE start >= total
  BY <1>1 DEF Lay, Windows
<1>2. CASE start < total
  <2> DEFINE rest == Lay(total, chunk, start + chunk)
             n == Windows(total, chunk, start + chunk)
             w(s) == Window(total, chunk, s)
  <2>1. n \in Nat /\ Windows(total, chunk, start) = n + 1
    BY <1>2, OneMore
  <2>2. rest = [i \in 1 .. n |-> w(start + chunk + (i - 1) * chunk)]
    BY DEF Lay
  <2>3. Lay(total, chunk, start) = [i \in 1 .. n + 1 |-> w(start + (i - 1) * chunk)]
    BY <2>1 DEF Lay
  <2>4. ASSUME NEW i \in 1 .. n PROVE start + chunk + (i - 1) * chunk = start + (i + 1 - 1) * chunk
    <3>1. i \in Nat /\ (i - 1) * chunk + chunk = i * chunk
      BY <2>1
    <3> QED BY <3>1
  <2>5. start + (1 - 1) * chunk = start
    OBVIOUS
  <2> HIDE DEF n, w, rest
  <2>6. rest \in Seq({rest[i] : i \in 1 .. n}) /\ Len(rest) = n
    <3> DEFINE S == {rest[i] : i \in 1 .. n}
    <3>1. DOMAIN rest = 1 .. n /\ rest = [i \in 1 .. n |-> rest[i]]
      BY <2>2
    <3>2. \A i \in 1 .. n : rest[i] \in S
      OBVIOUS
    <3> HIDE DEF S
    <3>3. rest \in [1 .. n -> S]
      BY <3>1, <3>2
    <3>4. rest \in Seq(S) /\ Len(rest) = n
      BY <2>1, <3>1, <3>3
    <3> QED BY <3>4 DEF S
  <2>7. <<w(start)>> \o rest = [i \in 1 .. n + 1 |-> IF i = 1 THEN w(start) ELSE rest[i - 1]]
    BY <2>1, <2>6
  <2>8. ASSUME NEW i \in 1 .. n + 1
        PROVE  w(start + (i - 1) * chunk) = IF i = 1 THEN w(start) ELSE rest[i - 1]
    <3>1. CASE i = 1
      BY <2>5, <3>1
    <3>2. CASE i # 1
      <4>1. i - 1 \in 1 .. n /\ (i - 1) + 1 = i
        BY <2>1, <3>2
      <4>2. start + chunk + (i - 1 - 1) * chunk = start + (i - 1) * chunk
        BY <4>1, <2>4
      <4>3. rest[i - 1] = w(start + chunk + (i - 1 - 1) * chunk)
        BY <4>1, <2>2
      <4> QED BY <3>2, <4>2, <4>3
    <3> QED BY <3>1, <3>2
  <2>9. Lay(total, chunk, start) = <<w(start)>> \o rest
    BY <2>3, <2>7, <2>8
  <2> QED BY <1>2, <2>9 DEF w, rest
<1> QED BY <1>1, <1>2

\* The loop appends exactly those: any function that satisfies its equation is Lay.
LEMMA LoopLays ==
  ASSUME NEW total \in Nat \ {0}, NEW chunk \in Nat \ {0}
  PROVE  LaidFrom(total, chunk) = Lay(total, chunk, 0)
<1> DEFINE D == 0 .. total + chunk
           Body(f, start) == IF start >= total THEN <<>>
                             ELSE <<Window(total, chunk, start)>> \o f[start + chunk]
           Fits(f) == f = [start \in D |-> Body(f, start)]
           lay == [start \in D |-> Lay(total, chunk, start)]
<1>1. Fits(lay)
  <2>1. ASSUME NEW start \in D PROVE Lay(total, chunk, start) = Body(lay, start)
    <3>1. start < total => start + chunk \in D
      OBVIOUS
    <3> QED BY <3>1, LayStep
  <2> QED BY <2>1
<1>2. ASSUME NEW f, Fits(f) PROVE f = lay
  <2>1. DOMAIN f = D /\ \A start \in D : f[start] = Body(f, start)
    BY <1>2
  <2> DEFINE Wrong == {k \in Nat : k <= total + chunk /\ f[total + chunk - k] # lay[total + chunk - k]}
  <2> HIDE DEF lay
  <2>2. ASSUME Wrong # {} PROVE FALSE
    <3>1. PICK k \in Wrong : \A j \in Wrong : k <= j
      BY <2>2, Least
    <3> DEFINE s == total + chunk - k
    <3>2. s \in D /\ f[s] # lay[s]
      BY <3>1
    <3>3. f[s] = Body(f, s) /\ lay[s] = Body(lay, s)
      BY <2>1, <3>2, <1>1 DEF lay
    <3>4. s < total
      BY <3>2, <3>3
    <3>5. s + chunk \in D /\ k - chunk \in Nat /\ s + chunk = total + chunk - (k - chunk)
      BY <3>1, <3>2, <3>4
    <3>6. f[s + chunk] = lay[s + chunk]
      <4>1. k - chunk \notin Wrong
        <5>1. k \in Nat /\ ~(k <= k - chunk)
          BY <3>1
        <5> HIDE DEF Wrong
        <5> QED BY <3>1, <5>1
      <4> QED BY <4>1, <3>5
    <3> QED BY <3>2, <3>3, <3>4, <3>6
  <2>3. \A start \in D : f[start] = lay[start]
    <3> SUFFICES ASSUME NEW start \in D PROVE f[start] = lay[start]
      OBVIOUS
    <3>1. total + chunk - start \in Nat /\ total + chunk - (total + chunk - start) = start
      OBVIOUS
    <3>2. total + chunk - start <= total + chunk
      OBVIOUS
    <3>3. total + chunk - start \notin Wrong
      BY <2>2
    <3> QED BY <3>1, <3>2, <3>3
  <2>4. DOMAIN lay = D
    BY DEF lay
  <2>5. f = [start \in D |-> f[start]] /\ lay = [start \in D |-> lay[start]]
    BY <1>2, <2>4 DEF lay
  <2> QED BY <2>3, <2>5
<1>3. (CHOOSE f : Fits(f)) = lay
  <2> HIDE DEF Fits, lay
  <2> QED BY <1>1, <1>2
<1>4. LaidFrom(total, chunk) = (CHOOSE f : Fits(f))[0]
  BY DEF LaidFrom, Window
<1>5. lay[0] = Lay(total, chunk, 0)
  OBVIOUS
<1> HIDE DEF Fits, lay
<1> QED BY <1>3, <1>4, <1>5

\* What the loop lays: full windows, and what is left.
LEMMA LaidIs ==
  ASSUME NEW total \in Nat \ {0}, NEW chunk \in Nat \ {0}
  PROVE  LET n == Count(total, chunk)
         IN  LaidFrom(total, chunk) =
               [i \in 1 .. n |-> [start |-> (i - 1) * chunk,
                                  duration |-> IF i = n THEN TailLen(total, chunk) ELSE chunk]]
<1> DEFINE n == Count(total, chunk)
           tail == TailLen(total, chunk)
<1>1. n \in Nat \ {0} /\ tail \in 1 .. chunk
  BY TailOfLoop
<1>2. total = (n - 1) * chunk + tail
  <2>1. (n - 1) * chunk \in Int
    BY <1>1
  <2> QED BY <1>1, <2>1 DEF TailLen
<1>3. Windows(total, chunk, 0) = n
  BY DEF Windows
<1> HIDE DEF n, tail
<1>4. ASSUME NEW i \in 1 .. n
      PROVE  Window(total, chunk, 0 + (i - 1) * chunk)
               = [start |-> (i - 1) * chunk, duration |-> IF i = n THEN tail ELSE chunk]
  <2>1. (i - 1) * chunk \in Nat /\ 0 + (i - 1) * chunk = (i - 1) * chunk
    BY <1>1
  <2>2. CASE i = n
    BY <1>1, <1>2, <2>1, <2>2 DEF Window, Lesser
  <2>3. CASE i # n
    <3>1. i * chunk <= (n - 1) * chunk /\ i * chunk = (i - 1) * chunk + chunk
      BY <1>1, <2>3
    <3>2. (n - 1) * chunk \in Nat
      BY <1>1
    <3>3. total - (i - 1) * chunk > chunk
      BY <1>1, <1>2, <2>1, <3>1, <3>2
    <3> QED BY <2>1, <2>3, <3>3 DEF Window, Lesser
  <2> QED BY <2>2, <2>3
<1>5. Lay(total, chunk, 0) = [i \in 1 .. n |-> Window(total, chunk, 0 + (i - 1) * chunk)]
  BY <1>3 DEF Lay
<1> QED BY <1>4, <1>5, LoopLays DEF n, tail

\* A window, as a record of two numbers.
Span == [start : Int, duration : Int]

\* The repair, window by window.
LEMMA RepairedIs ==
  ASSUME NEW plan \in Seq(Span), plan # <<>>, NEW minimum \in Nat \ {0}
  PROVE  LET n == Len(plan)
             tail == plan[n].duration
             full == plan[n - 1].duration
             take == Lesser(minimum - tail, Greater(0, full - minimum))
         IN  /\ n < 2 \/ tail >= minimum => Repaired(plan, minimum) = plan
             /\ n >= 2 /\ tail < minimum =>
                  Repaired(plan, minimum) =
                    IF tail + take >= minimum
                    THEN [i \in 1 .. n |->
                            IF i = n THEN [start |-> plan[n].start - take, duration |-> tail + take]
                            ELSE IF i = n - 1 THEN [start |-> plan[i].start, duration |-> full - take]
                            ELSE plan[i]]
                    ELSE [i \in 1 .. n - 1 |->
                            IF i = n - 1
                            THEN [start |-> plan[i].start, duration |-> full - take + (tail + take)]
                            ELSE plan[i]]
<1> DEFINE n == Len(plan)
           tail == plan[n].duration
           full == plan[n - 1].duration
           take == Lesser(minimum - tail, Greater(0, full - minimum))
           given == [plan EXCEPT ![n - 1].duration = @ - take,
                                 ![n] = [start |-> @.start - take, duration |-> @.duration + take]]
<1>1. n \in Nat \ {0} /\ plan \in [1 .. n -> Span] /\ plan[n] \in Span
  OBVIOUS
<1>2. n < 2 \/ tail >= minimum => Repaired(plan, minimum) = plan
  <2>1. tail \in Int
    BY <1>1 DEF Span
  <2> QED BY <1>1, <2>1 DEF Repaired
<1>3. ASSUME n >= 2, tail < minimum
      PROVE  Repaired(plan, minimum) =
                    IF tail + take >= minimum
                    THEN [i \in 1 .. n |->
                            IF i = n THEN [start |-> plan[n].start - take, duration |-> tail + take]
                            ELSE IF i = n - 1 THEN [start |-> plan[i].start, duration |-> full - take]
                            ELSE plan[i]]
                    ELSE [i \in 1 .. n - 1 |->
                            IF i = n - 1
                            THEN [start |-> plan[i].start, duration |-> full - take + (tail + take)]
                            ELSE plan[i]]
  <2>1. Repaired(plan, minimum) =
          IF given[n].duration >= minimum THEN given
          ELSE [SubSeq(given, 1, n - 1) EXCEPT ![n - 1].duration = @ + given[n].duration]
    <3>1. ~(n < 2 \/ tail >= minimum)
      <4>1. tail \in Int
        BY <1>1 DEF Span
      <4> QED BY <1>3, <4>1
    <3> HIDE <1>3
    <3> QED BY <3>1, Zenon DEF Repaired
  <2> HIDE DEF n
  <2>2. take \in Int /\ n - 1 \in 1 .. n /\ n \in 1 .. n /\ n - 1 # n
    BY <1>1, <1>3 DEF Lesser, Greater, Span
  <2>a. tail \in Int /\ full \in Int /\ plan[n].start \in Int /\ plan[n - 1].start \in Int
    BY <1>1, <2>2 DEF Span
  <2> HIDE DEF take, tail
  <2>3. given = [i \in 1 .. n |->
                   IF i = n THEN [start |-> plan[n].start - take, duration |-> tail + take]
                   ELSE IF i = n - 1 THEN [start |-> plan[i].start, duration |-> full - take]
                   ELSE plan[i]]
    <3>1. [plan[n - 1] EXCEPT !.duration = @ - take]
             = [start |-> plan[n - 1].start, duration |-> full - take]
      BY <1>1, <2>2 DEF Span
    <3>2. given = [i \in 1 .. n |->
                   IF i = n THEN [start |-> plan[n].start - take, duration |-> tail + take]
                   ELSE IF i = n - 1 THEN [plan[n - 1] EXCEPT !.duration = @ - take]
                   ELSE plan[i]]
      BY <1>1, <2>2 DEF tail
    <3> HIDE DEF given, full
    <3> QED BY <3>1, <3>2
  <2>4. given \in [1 .. n -> Span]
    <3> HIDE DEF given, full
    <3> QED BY <1>1, <2>2, <2>a, <2>3 DEF Span
  <2>5. given[n].duration = tail + take
    BY <2>2, <2>3
  <2>6. SubSeq(given, 1, n - 1) = [i \in 1 .. n - 1 |-> given[i]]
    <3> HIDE DEF given
    <3>1. given \in Seq(Span) /\ Len(given) = n
      BY <1>1, <2>4
    <3> QED BY <1>3, <3>1
  <2>7. [SubSeq(given, 1, n - 1) EXCEPT ![n - 1].duration = @ + given[n].duration]
          = [i \in 1 .. n - 1 |->
              IF i = n - 1 THEN [start |-> plan[i].start, duration |-> full - take + (tail + take)]
              ELSE plan[i]]
    <3> DEFINE rest == SubSeq(given, 1, n - 1)
               more == given[n].duration
    <3>1. given[n - 1] = [start |-> plan[n - 1].start, duration |-> full - take]
      BY <2>2, <2>3
    <3>2. rest = [i \in 1 .. n - 1 |-> given[i]] /\ more = tail + take
      BY <2>5, <2>6
    <3>3. \A i \in 1 .. n - 1 : i # n - 1 => given[i] = plan[i]
      BY <2>2, <2>3
    <3> HIDE DEF rest, given, more, full
    <3>4. [rest EXCEPT ![n - 1].duration = @ + more]
            = [i \in 1 .. n - 1 |-> IF i = n - 1 THEN [rest[n - 1] EXCEPT !.duration = @ + more]
                                    ELSE rest[i]]
      BY <2>2, <3>2
    <3>5. [rest[n - 1] EXCEPT !.duration = @ + more]
            = [start |-> plan[n - 1].start, duration |-> full - take + (tail + take)]
      <4>1. rest[n - 1] = given[n - 1]
        BY <2>2, <3>2, <1>3
      <4>2. ASSUME NEW a, NEW b \in Int
            PROVE  [[start |-> a, duration |-> b] EXCEPT !.duration = @ + more]
                     = [start |-> a, duration |-> b + more]
        OBVIOUS
      <4>3. rest[n - 1] = [start |-> plan[n - 1].start, duration |-> full - take]
        BY <3>1, <4>1
      <4>4. full - take \in Int
        BY <2>2, <2>a DEF full
      <4>5. [rest[n - 1] EXCEPT !.duration = @ + more]
              = [start |-> plan[n - 1].start, duration |-> full - take + more]
        BY <4>2, <4>3, <4>4, Zenon
      <4> QED BY <3>2, <4>5
    <3> QED BY <3>2, <3>3, <3>4, <3>5 DEF rest, more
  <2> HIDE DEF given, full
  <2> QED BY <2>1, <2>3, <2>5, <2>7 
<1> QED BY <1>2, <1>3

\* The while-loop of plan_segments and its repair, as written, plan the windows
\* of the closed form: what is proved of plan_segments is proved of the code's
\* loop, for every recording, window size and minimum.
THEOREM LoopIsPlan ==
  ASSUME NEW total \in Nat \ {0}, NEW chunk \in Nat \ {0}, NEW minimum \in Nat \ {0}
  PROVE  ClosedForm(total, chunk, minimum)
<1> DEFINE n == Count(total, chunk)
           tail == TailLen(total, chunk)
           take == Borrowed(total, chunk, minimum)
           laid == LaidFrom(total, chunk)
           plan == Repaired(laid, minimum)
           begin(i) == StartOf(total, chunk, minimum, i)
           planned == Planned(total, chunk, minimum)
           short == TooShort(total, chunk, minimum)
           merged == Merged(total, chunk, minimum)
<1>1. n \in Nat \ {0} /\ tail \in 1 .. chunk /\ take \in 0 .. chunk - 1 /\ planned \in Nat \ {0}
  BY TailOfLoop, RepairOfTail
<1>2. /\ short <=> n > 1 /\ tail < minimum
      /\ take = IF short THEN Lesser(minimum - tail, Greater(0, chunk - minimum)) ELSE 0
      /\ merged <=> short /\ tail + take < minimum
      /\ planned = IF merged THEN n - 1 ELSE n
      /\ \A i : begin(i) = IF i = n - 1 THEN i * chunk - take ELSE i * chunk
      /\ \A i : EndOf(total, chunk, minimum, i) = IF i = planned - 1 THEN total ELSE begin(i + 1)
  BY DEF TooShort, Borrowed, Merged, Planned, StartOf, EndOf
<1>3. total = (n - 1) * chunk + tail
  <2>1. (n - 1) * chunk \in Int
    BY <1>1
  <2> QED BY <1>1, <2>1 DEF TailLen
<1>4. laid = [i \in 1 .. n |-> [start |-> (i - 1) * chunk, duration |-> IF i = n THEN tail ELSE chunk]]
  BY LaidIs
<1>5. plan_segments(total, chunk, minimum) =
        [i \in 0 .. planned - 1 |->
          [start |-> begin(i), duration |-> EndOf(total, chunk, minimum, i) - begin(i)]]
  BY DEF plan_segments
<1> HIDE DEF n, tail, take, laid, begin, planned, short, merged
<1>6. laid \in Seq(Span) /\ Len(laid) = n /\ laid # <<>>
  <2>1. ASSUME NEW i \in 1 .. n
        PROVE  [start |-> (i - 1) * chunk, duration |-> IF i = n THEN tail ELSE chunk] \in Span
    <3>1. (i - 1) * chunk \in Int
      BY <1>1
    <3> QED BY <1>1, <3>1 DEF Span
  <2>2. laid \in [1 .. n -> Span]
    BY <1>4, <2>1
  <2> QED BY <1>1, <2>2
\* What a window of the plan lasts, case by case.
<1>7. ASSUME NEW i \in 0 .. planned - 1
      PROVE  /\ begin(i) \in Int /\ i \in Nat /\ i * chunk \in Nat
             /\ EndOf(total, chunk, minimum, i) - begin(i) =
                  IF i = n - 1 THEN tail + take
                  ELSE IF i = n - 2 THEN IF merged THEN chunk + tail ELSE chunk - take
                  ELSE chunk
  <2>1. i \in Nat /\ i * chunk \in Nat /\ (i + 1) * chunk = i * chunk + chunk
    BY <1>1
  <2>2. CASE i = n - 1
    BY <1>1, <1>2, <1>3, <2>1, <2>2
  <2>3. CASE i = n - 2
    <3>1. total = i * chunk + chunk + tail
      <4>1. n - 1 = i + 1
        BY <1>1, <2>1, <2>3
      <4> QED BY <1>1, <1>3, <2>1, <4>1
    <3> QED BY <1>1, <1>2, <2>1, <2>3, <3>1
  <2>4. CASE i # n - 1 /\ i # n - 2
    BY <1>1, <1>2, <2>1, <2>4
  <2> QED BY <2>2, <2>3, <2>4
<1>8. \A i \in 0 .. n - 1 :
        laid[i + 1] = [start |-> i * chunk, duration |-> IF i = n - 1 THEN tail ELSE chunk]
  <2> SUFFICES ASSUME NEW i \in 0 .. n - 1
      PROVE  laid[i + 1] = [start |-> i * chunk, duration |-> IF i = n - 1 THEN tail ELSE chunk]
    OBVIOUS
  <2>1. i + 1 \in 1 .. n /\ i + 1 - 1 = i /\ (i + 1 = n <=> i = n - 1)
    BY <1>1
  <2> QED BY <1>4, <2>1
<1>9. /\ laid[n] = [start |-> (n - 1) * chunk, duration |-> tail]
      /\ n > 1 => laid[n - 1] = [start |-> (n - 2) * chunk, duration |-> chunk]
  <2>1. laid[(n - 1) + 1] = [start |-> (n - 1) * chunk, duration |-> tail] /\ (n - 1) + 1 = n
    BY <1>1, <1>8
  <2>2. n > 1 => laid[(n - 2) + 1] = [start |-> (n - 2) * chunk, duration |-> chunk]
                 /\ (n - 2) + 1 = n - 1
    BY <1>1, <1>8
  <2> QED BY <2>1, <2>2
\* It is enough that the repaired plan has the windows of the closed form.
<1> SUFFICES /\ Len(plan) = planned
             /\ \A i \in 0 .. planned - 1 :
                  plan[i + 1] = [start |-> begin(i), duration |-> EndOf(total, chunk, minimum, i) - begin(i)]
  BY <1>5 DEF ClosedForm, plan, laid
<1>10. CASE ~short
  <2>1. n < 2 \/ laid[n].duration >= minimum
    BY <1>1, <1>2, <1>9, <1>10
  <2>2. plan = laid
    BY <1>6, <2>1, RepairedIs DEF plan
  <2>3. take = 0 /\ ~merged /\ planned = n
    BY <1>2, <1>10
  <2>4. ASSUME NEW i \in 0 .. planned - 1
        PROVE  plan[i + 1] = [start |-> begin(i), duration |-> EndOf(total, chunk, minimum, i) - begin(i)]
    <3>1. begin(i) = i * chunk
      BY <1>2, <1>7, <2>3
    <3>2. EndOf(total, chunk, minimum, i) - begin(i) = IF i = n - 1 THEN tail ELSE chunk
      BY <1>1, <1>7, <2>3
    <3> QED BY <1>8, <2>2, <2>3, <3>1, <3>2
  <2> QED BY <1>6, <2>2, <2>3, <2>4
<1>11. CASE short
  <2>1. n >= 2 /\ tail < minimum /\ n \in Nat
    BY <1>1, <1>2, <1>11
  <2>2. laid[n].duration = tail /\ laid[n].start = (n - 1) * chunk
    BY <1>9
  <2>3. laid[n - 1].duration = chunk /\ laid[n - 1].start = (n - 2) * chunk
    BY <1>9, <2>1
  <2>4. take = Lesser(minimum - laid[n].duration, Greater(0, laid[n - 1].duration - minimum))
    BY <1>2, <1>11, <2>2, <2>3
  <2>5. plan = IF laid[n].duration + take >= minimum
               THEN [i \in 1 .. n |->
                       IF i = n THEN [start |-> laid[n].start - take, duration |-> laid[n].duration + take]
                       ELSE IF i = n - 1
                       THEN [start |-> laid[i].start, duration |-> laid[n - 1].duration - take]
                       ELSE laid[i]]
               ELSE [i \in 1 .. n - 1 |->
                       IF i = n - 1
                       THEN [start |-> laid[i].start,
                             duration |-> laid[n - 1].duration - take + (laid[n].duration + take)]
                       ELSE laid[i]]
    <3>1. n >= 2 /\ laid[n].duration < minimum
      BY <2>1, <2>2
    <3> DEFINE after(m, t) ==
                 IF laid[m].duration + t >= minimum
                 THEN [i \in 1 .. m |->
                         IF i = m THEN [start |-> laid[m].start - t, duration |-> laid[m].duration + t]
                         ELSE IF i = m - 1
                         THEN [start |-> laid[i].start, duration |-> laid[m - 1].duration - t]
                         ELSE laid[i]]
                 ELSE [i \in 1 .. m - 1 |->
                         IF i = m - 1
                         THEN [start |-> laid[i].start,
                               duration |-> laid[m - 1].duration - t + (laid[m].duration + t)]
                         ELSE laid[i]]
    <3> HIDE DEF take
    <3>2. plan = after(Len(laid), Lesser(minimum - laid[Len(laid)].duration,
                                         Greater(0, laid[Len(laid) - 1].duration - minimum)))
      BY <1>6, <3>1, RepairedIs DEF plan
    <3>3. plan = after(n, take)
      <4> HIDE DEF after
      <4> QED BY <1>6, <2>4, <3>2
    <3> QED BY <3>3
  <2> HIDE DEF plan
  <2>6. CASE ~merged
    <3>1. tail + take >= minimum /\ planned = n
      BY <1>1, <1>2, <1>11, <2>6
    <3>2. plan = [i \in 1 .. n |->
                    IF i = n THEN [start |-> (n - 1) * chunk - take, duration |-> tail + take]
                    ELSE IF i = n - 1 THEN [start |-> laid[i].start, duration |-> chunk - take]
                    ELSE laid[i]]
      BY <2>2, <2>3, <2>5, <3>1
    <3>3. Len(plan) = n
      BY <1>1, <3>2
    <3>4. ASSUME NEW i \in 0 .. planned - 1
          PROVE  plan[i + 1] = [start |-> begin(i), duration |-> EndOf(total, chunk, minimum, i) - begin(i)]
      <4>1. i \in 0 .. n - 1 /\ i + 1 \in 1 .. n /\ i \in Nat
        BY <1>1, <3>1
      <4>2. CASE i = n - 1
        BY <1>1, <1>2, <1>7, <3>2, <4>1, <4>2
      <4>3. CASE i = n - 2
        <5>1. i # n - 1 /\ i + 1 = n - 1 /\ i + 1 # n
          BY <1>1, <4>1, <4>3
        <5>2. laid[i + 1] = [start |-> i * chunk, duration |-> chunk]
          BY <1>8, <4>1, <5>1
        <5>3. plan[i + 1] = [start |-> laid[i + 1].start, duration |-> chunk - take]
          BY <3>2, <4>1, <5>1
        <5>4. begin(i) = i * chunk
          BY <1>2, <5>1
        <5>5. EndOf(total, chunk, minimum, i) - begin(i) = chunk - take
          BY <1>7, <2>6, <4>3, <5>1
        <5> QED BY <5>2, <5>3, <5>4, <5>5
      <4>4. CASE i # n - 1 /\ i # n - 2
        <5>1. i + 1 # n /\ i + 1 # n - 1
          BY <1>1, <4>1, <4>4
        <5>2. laid[i + 1] = [start |-> i * chunk, duration |-> chunk]
          BY <1>8, <4>1, <4>4
        <5>3. plan[i + 1] = laid[i + 1]
          BY <3>2, <4>1, <5>1
        <5>4. begin(i) = i * chunk
          BY <1>2, <4>4
        <5>5. EndOf(total, chunk, minimum, i) - begin(i) = chunk
          BY <1>7, <4>4
        <5> QED BY <5>2, <5>3, <5>4, <5>5
      <4> QED BY <4>2, <4>3, <4>4
    <3> QED BY <3>1, <3>3, <3>4
  <2>7. CASE merged
    <3>1. tail + take < minimum /\ planned = n - 1
      BY <1>1, <1>2, <1>11, <2>7
    <3>2. plan = [i \in 1 .. n - 1 |->
                    IF i = n - 1 THEN [start |-> laid[i].start, duration |-> chunk - take + (tail + take)]
                    ELSE laid[i]]
      BY <1>1, <2>2, <2>3, <2>5, <3>1
    <3>3. Len(plan) = n - 1
      BY <2>1, <3>2
    <3>4. ASSUME NEW i \in 0 .. planned - 1
          PROVE  plan[i + 1] = [start |-> begin(i), duration |-> EndOf(total, chunk, minimum, i) - begin(i)]
      <4>1. i \in 0 .. n - 1 /\ i + 1 \in 1 .. n - 1 /\ i \in Nat
        BY <1>1, <3>1
      <4>2. CASE i = n - 2
        <5>1. i # n - 1 /\ i + 1 = n - 1
          BY <1>1, <4>1, <4>2
        <5>2. laid[i + 1] = [start |-> i * chunk, duration |-> chunk]
          BY <1>8, <4>1, <5>1
        <5>3. plan[i + 1] = [start |-> laid[i + 1].start, duration |-> chunk - take + (tail + take)]
          BY <3>2, <4>1, <5>1
        <5>4. begin(i) = i * chunk
          BY <1>2, <5>1
        <5>5. EndOf(total, chunk, minimum, i) - begin(i) = chunk + tail
          BY <1>7, <2>7, <4>2, <5>1
        <5>6. chunk - take + (tail + take) = chunk + tail
          BY <1>1
        <5> QED BY <5>2, <5>3, <5>4, <5>5, <5>6
      <4>3. CASE i # n - 2
        <5>1. i # n - 1 /\ i + 1 # n - 1
          BY <1>1, <4>1, <4>3
        <5>2. laid[i + 1] = [start |-> i * chunk, duration |-> chunk]
          BY <1>8, <4>1, <5>1
        <5>3. plan[i + 1] = laid[i + 1]
          BY <3>2, <4>1, <5>1
        <5>4. begin(i) = i * chunk
          BY <1>2, <5>1
        <5>5. EndOf(total, chunk, minimum, i) - begin(i) = chunk
          BY <1>7, <4>3, <5>1
        <5> QED BY <5>2, <5>3, <5>4, <5>5
      <4> QED BY <4>2, <4>3
    <3> QED BY <3>1, <3>3, <3>4
  <2> QED BY <2>6, <2>7
<1> QED BY <1>10, <1>11

\* The windows lie end to end from the first second to the last: no audio is
\* skipped, none is transcribed twice, whatever the window size.
THEOREM PlanTiles ==
  ASSUME NEW total \in Nat \ {0}, NEW chunk \in Nat \ {0}, NEW minimum \in Nat \ {0}
  PROVE  LET plan == plan_segments(total, chunk, minimum)
             last == Planned(total, chunk, minimum) - 1
         IN  /\ plan[0].start = 0
             /\ \A i \in 0 .. last - 1 :
                  plan[i + 1].start = plan[i].start + plan[i].duration
             /\ plan[last].start + plan[last].duration = total
<1> DEFINE plan == plan_segments(total, chunk, minimum)
           count == Count(total, chunk)
           last == Planned(total, chunk, minimum) - 1
           begin(i) == StartOf(total, chunk, minimum, i)
           end(i) == EndOf(total, chunk, minimum, i)
<1>1. last \in Nat /\ count \in Nat \ {0} /\ Borrowed(total, chunk, minimum) \in Nat
  BY TailOfLoop, RepairOfTail
<1>2. \A i \in Nat : begin(i) \in Int
  <2> SUFFICES ASSUME NEW i \in Nat PROVE begin(i) \in Int
    OBVIOUS
  <2>1. i * chunk \in Nat
    OBVIOUS
  <2> QED BY <1>1, <2>1 DEF StartOf
<1>3. \A i \in 0 .. last : end(i) \in Int /\ end(i) = IF i = last THEN total ELSE begin(i + 1)
  BY <1>1, <1>2 DEF EndOf
<1>4. \A i \in 0 .. last : /\ plan[i].start = begin(i)
                           /\ plan[i].start + plan[i].duration = end(i)
  <2> SUFFICES ASSUME NEW i \in 0 .. last
               PROVE  plan[i].start = begin(i) /\ plan[i].start + plan[i].duration = end(i)
    OBVIOUS
  <2>1. plan[i] = [start |-> begin(i), duration |-> end(i) - begin(i)]
    BY DEF plan_segments
  <2> HIDE DEF begin, end, plan
  <2> QED BY <1>1, <1>2, <1>3, <2>1
<1>5. begin(0) = 0
  <2>1. 0 * chunk = 0
    OBVIOUS
  <2>2. 0 = count - 1 => Borrowed(total, chunk, minimum) = 0
    BY <1>1 DEF Borrowed, TooShort
  <2> QED BY <1>1, <2>1, <2>2 DEF StartOf
<1> HIDE DEF plan, last, begin, end, count
<1>6. plan[0].start = 0
  BY <1>1, <1>4, <1>5
<1>7. ASSUME NEW i \in 0 .. last - 1
      PROVE  plan[i + 1].start = plan[i].start + plan[i].duration
  BY <1>1, <1>3, <1>4
<1>8. plan[last].start + plan[last].duration = total
  BY <1>1, <1>3, <1>4
<1> QED BY <1>6, <1>7, <1>8 DEF plan, last

\* No window is longer than the server's cap or, unless the whole recording is,
\* shorter than its minimum: either is refused identically on every retry.
THEOREM PlanWithinBounds ==
  ASSUME NEW total \in Nat \ {0}, NEW chunk \in Nat \ {0},
         NEW minimum \in Nat \ {0}, NEW cap \in Nat,
         minimum <= chunk, chunk <= cap, 2 * minimum <= cap, minimum <= total,
         NEW i \in 0 .. Planned(total, chunk, minimum) - 1
  PROVE  plan_segments(total, chunk, minimum)[i].duration \in minimum .. cap
<1> DEFINE count == Count(total, chunk)
           tail == TailLen(total, chunk)
           borrowed == Borrowed(total, chunk, minimum)
           planned == Planned(total, chunk, minimum)
           begin(j) == StartOf(total, chunk, minimum, j)
           length == plan_segments(total, chunk, minimum)[i].duration
<1>1. count \in Nat \ {0} /\ tail \in 1 .. chunk /\ planned \in Nat \ {0}
  BY TailOfLoop, RepairOfTail
<1>2. length = EndOf(total, chunk, minimum, i) - begin(i)
  <2>1. plan_segments(total, chunk, minimum)[i] =
          [start |-> begin(i), duration |-> EndOf(total, chunk, minimum, i) - begin(i)]
    BY DEF plan_segments
  <2> QED BY <2>1
<1>3. total = (count - 1) * chunk + tail
  <2>1. (count - 1) * chunk \in Int
    BY <1>1
  <2> QED BY <1>1, <2>1 DEF TailLen
<1>4. i * chunk \in Nat /\ (i + 1) * chunk = i * chunk + chunk
  OBVIOUS
<1>5. borrowed \in Nat /\ borrowed = IF count > 1 /\ tail < minimum
                                    THEN Lesser(minimum - tail, chunk - minimum) ELSE 0
  <2>1. Greater(0, chunk - minimum) = chunk - minimum
    BY DEF Greater
  <2>2. borrowed = IF count > 1 /\ tail < minimum
                   THEN Lesser(minimum - tail, Greater(0, chunk - minimum)) ELSE 0
    BY DEF Borrowed, TooShort
  <2> QED BY <2>1, <2>2, RepairOfTail
<1>6. planned = IF count > 1 /\ tail < minimum /\ tail + borrowed < minimum
                THEN count - 1 ELSE count
  BY DEF Planned, Merged, TooShort
<1> SUFFICES length \in minimum .. cap
  OBVIOUS
<1> HIDE DEF tail, planned, borrowed, length
<1>7. CASE i = count - 1
  <2>1. begin(i) = i * chunk - borrowed
    BY <1>7 DEF StartOf, borrowed
  <2>2. i = planned - 1
    BY <1>1, <1>6, <1>7 DEF planned
  <2>3. length = tail + borrowed
    <3>1. EndOf(total, chunk, minimum, i) = total
      BY <2>2 DEF EndOf, planned
    <3> HIDE DEF begin, count
    <3> QED BY <1>1, <1>2, <1>3, <1>4, <1>5, <1>7, <2>1, <3>1
  <2>4. planned = count
    BY <1>1, <1>7, <2>2
  <2> HIDE DEF begin
  <2>5. CASE count = 1
    <3>1. total = tail
      <4>1. (count - 1) * chunk = 0
        BY <2>5
      <4> QED BY <1>1, <1>3, <4>1
    <3> HIDE DEF count
    <3> QED BY <1>1, <1>5, <2>3, <2>5, <3>1
  <2>6. CASE count > 1
    <3> HIDE DEF count
    <3> QED BY <1>1, <1>5, <1>6, <2>3, <2>4, <2>6 DEF Lesser
  <2> QED BY <1>1, <2>5, <2>6
<1>8. CASE i # count - 1
  <2>1. begin(i) = i * chunk
    BY <1>8 DEF StartOf
  <2>2. CASE i = planned - 1
    <3>1. planned = count - 1 /\ i = count - 2
      BY <1>1, <1>6, <1>8, <2>2
    <3>2. EndOf(total, chunk, minimum, i) = total
      BY <2>2 DEF EndOf, planned
    <3>3. total = i * chunk + chunk + tail
      BY <1>1, <1>3, <1>4, <3>1
    <3>4. length = chunk + tail
      <4> HIDE DEF begin, count
      <4> QED BY <1>1, <1>2, <1>4, <2>1, <3>2, <3>3
    <3> HIDE DEF begin, count
    <3> QED BY <1>1, <1>5, <1>6, <3>1, <3>4 DEF Lesser
  <2>3. CASE i # planned - 1
    <3>1. EndOf(total, chunk, minimum, i) = begin(i + 1)
      BY <2>3 DEF EndOf, planned
    <3>2. begin(i + 1) = IF i + 1 = count - 1 THEN (i + 1) * chunk - borrowed
                                              ELSE (i + 1) * chunk
      BY DEF StartOf, borrowed
    <3>3. length = IF i + 1 = count - 1 THEN chunk - borrowed ELSE chunk
      <4> HIDE DEF begin, count
      <4> QED BY <1>1, <1>2, <1>4, <1>5, <2>1, <3>1, <3>2
    <3> HIDE DEF begin, count
    <3> QED BY <1>1, <1>5, <3>3 DEF Lesser
  <2> QED BY <2>2, <2>3
<1> QED BY <1>7, <1>8

\* The closed form counts one window a second at most, and gives each a start
\* and a length.
LEMMA PlanShape ==
  ASSUME NEW total \in Nat \ {0}, NEW chunk \in Nat \ {0}, NEW minimum \in Nat \ {0}
  PROVE  /\ Planned(total, 1, 1) = total
         /\ Planned(total, chunk, minimum) \in 1 .. total
         /\ plan_segments(total, chunk, minimum)
              \in [0 .. Planned(total, chunk, minimum) - 1 -> [start : Nat, duration : Nat]]
<1> DEFINE count == Count(total, chunk)
           tail == TailLen(total, chunk)
           borrowed == Borrowed(total, chunk, minimum)
           planned == Planned(total, chunk, minimum)
<1>1. /\ count \in Nat \ {0} /\ tail \in 1 .. chunk /\ planned \in Nat \ {0}
      /\ borrowed \in 0 .. chunk - 1 /\ (borrowed > 0 => count > 1)
  BY TailOfLoop, RepairOfTail
<1>2. total = (count - 1) * chunk + tail
  <2>1. (count - 1) * chunk \in Int
    BY <1>1
  <2> QED BY <1>1, <2>1 DEF TailLen
<1>3. planned \in {count, count - 1}
  BY DEF Planned
<1>4. Planned(total, 1, 1) = total
  BY DEF Planned, Merged, TooShort, TailLen, Count
<1> HIDE DEF count, tail, borrowed, planned
<1>5. planned <= total
  <2>1. (count - 1) * chunk >= count - 1
    BY <1>1
  <2> QED BY <1>1, <1>2, <1>3, <2>1
<1>6. ASSUME NEW i \in 0 .. planned - 1
      PROVE  /\ StartOf(total, chunk, minimum, i) \in Nat
             /\ EndOf(total, chunk, minimum, i) - StartOf(total, chunk, minimum, i) \in Nat
  <2>1. i * chunk \in Nat /\ (i + 1) * chunk = i * chunk + chunk /\ i \in Nat
    OBVIOUS
  <2>2. StartOf(total, chunk, minimum, i) = IF i = count - 1 THEN i * chunk - borrowed ELSE i * chunk
    BY DEF StartOf, count, borrowed
  <2>3. StartOf(total, chunk, minimum, i + 1)
          = IF i + 1 = count - 1 THEN (i + 1) * chunk - borrowed ELSE (i + 1) * chunk
    BY DEF StartOf, count, borrowed
  <2>4. EndOf(total, chunk, minimum, i)
          = IF i = planned - 1 THEN total ELSE StartOf(total, chunk, minimum, i + 1)
    BY DEF EndOf, planned
  <2>5. i > 0 => i * chunk >= chunk
    OBVIOUS
  <2>6. i = count - 1 => total = i * chunk + tail
    BY <1>2
  <2>7. i = count - 2 => total = i * chunk + chunk + tail
    <3>1. SUFFICES ASSUME i = count - 2 PROVE total = i * chunk + chunk + tail
      OBVIOUS
    <3>2. count - 1 = i + 1
      BY <1>1, <3>1
    <3> QED BY <1>2, <2>1, <3>2
  <2>8. i \in Nat /\ (i = count - 1 \/ i = count - 2 \/ (i # planned - 1 /\ i + 1 # count - 1))
    BY <1>1, <1>3
  <2> QED BY <1>1, <1>3, <2>1, <2>2, <2>3, <2>4, <2>5, <2>6, <2>7
<1>7. plan_segments(total, chunk, minimum) \in [0 .. planned - 1 -> [start : Nat, duration : Nat]]
  BY <1>6 DEF plan_segments, planned
<1> QED BY <1>1, <1>4, <1>5, <1>7 DEF planned

-----------------------------------------------------------------------------
(* The inductive invariant of the stage *)

Points == {"down", "starting", "idle", "handler", "plan", "windows", "call", "checkpoint",
           "publish", "renew", "complete", "defer", "retry", "strike"}
InTurn == pc \in Points \ {"down", "starting", "idle"}

Claims  == [owner : Owners \cup {NoOwner}, epoch : Nat]
Jobs    == [state : {"queued", "processing", "retry_wait", "done", "failed"},
            owner : Owners \cup {NoOwner}, epoch : Nat, force : BOOLEAN,
            attempts : 0 .. MaxAttempts, revivals : 0 .. MaxRevivals]
Reviews == [state : {"absent", "queued", "processing", "reviewed"},
            owner : Owners \cup {NoOwner}, epoch : Nat]

TypeInv ==
  /\ TypeOK
  /\ duration \in Durations /\ pc \in Points
  /\ pc # "down" => proc # 0

\* A turn holds the job, which has attempts left while it is open; each one
\* spent, and the one a failing turn is about to spend, was a failure.
AttemptInv ==
  /\ InTurn => job.state = "processing"
  /\ job.state \notin {"done", "failed"} => job.attempts < MaxAttempts
  /\ job.attempts <= faults
  /\ pc = "strike" => job.attempts < faults

\* What a turn holds as done was committed on its plan, and the window it hears
\* is its own or gone; since the reader's request, only what was heard since
\* then is committed or held.
WindowInv ==
  /\ pc = "publish" => ~needs_segmentation
  /\ needs_segmentation /\ pc \in {"windows", "call", "checkpoint"} =>
       \A i \in DOMAIN done :
         /\ i \in DOMAIN Plan(proc)
         /\ done[i].status = "complete" /\ done[i].span = Plan(proc)[i]
         /\ job.force => done[i].heard = requests
  /\ needs_segmentation /\ pc = "call" =>
       at \in DOMAIN Plan(proc) /\ windows[at].status \in {"processing", "absent"}
  /\ job.force => \A i \in Indexes : windows[i].status = "complete" => windows[i].heard = requests

StageInv == TypeInv /\ AttemptInv /\ WindowInv

-----------------------------------------------------------------------------
(* What a step writes *)

\* Whichever process runs has an owner string and a plan within the recording.
LEMMA Running ==
  ASSUME TypeInv, proc # 0
  PROVE  /\ Me \in Owners
         /\ DOMAIN Plan(proc) \subseteq Indexes /\ 0 \in DOMAIN Plan(proc)
         /\ \A i \in DOMAIN Plan(proc) : Plan(proc)[i] \in [start : Nat, duration : Nat]
<1>1. proc \in Processes /\ duration \in Nat \ {0} /\ MinSec \in Nat \ {0}
  BY AsrAssumption DEF TypeInv, TypeOK, Processes
<1>2. Chunk[proc] \in Nat \ {0} /\ Owner[proc] \in Owners /\ MaxSegment \in Nat \ {0}
  BY <1>1, AsrAssumption
<1>3. WindowSize(Chunk[proc], MaxSegment) \in Nat \ {0}
  BY <1>2 DEF WindowSize, Greater, Lesser
<1> DEFINE size == WindowSize(Chunk[proc], MaxSegment)
           n == Planned(duration, size, MinSec)
<1>4. /\ n \in 1 .. duration /\ Planned(duration, 1, 1) = duration
      /\ Plan(proc) \in [0 .. n - 1 -> [start : Nat, duration : Nat]]
  BY <1>1, <1>3, PlanShape DEF Plan
<1> HIDE DEF n
<1>5. DOMAIN Plan(proc) = 0 .. n - 1 /\ Indexes = 0 .. duration - 1
  BY <1>4 DEF Indexes
<1> QED BY <1>1, <1>2, <1>4, <1>5 DEF Me

LEMMA Writers ==
  ASSUME Next
  PROVE  /\ \/ job' = job \/ Start \/ Recover \/ Revive \/ Claim \/ Checkpoint \/ Renew
            \/ Complete \/ Defer \/ Fail \/ request_retranscribe
         /\ \/ review' = review \/ Release \/ claim_review \/ DeclineReview \/ CallFails
            \/ NothingHeard \/ Publish
         /\ \/ windows' = windows \/ Release \/ BeginCalls \/ TakeWindow \/ Heard \/ CallFails
            \/ request_retranscribe
         /\ text' = text \/ Publish
         /\ duration' = duration
         /\ \/ UNCHANGED local \/ BeginCalls \/ TakeWindow \/ Heard \/ Complete \/ Abort
            \/ Defer \/ Fail \/ Crash
         /\ requests' = requests \/ request_retranscribe
         /\ UNCHANGED taps \/ Tap \/ Crash \/ request_retranscribe
         /\ UNCHANGED emptied \/ BeginCalls \/ request_retranscribe
<1>1. CASE Start \/ Release \/ Recover \/ Revive \/ Claim \/ claim_review \/ DeclineReview \/ Transcribe
  BY <1>1 DEF Start, Release, Recover, Revive, Claim, claim_review, DeclineReview, Transcribe, rows,
              local, asked
<1>2. CASE BeginCalls \/ TakeWindow \/ Pause \/ Heard \/ Checkpoint \/ CallFails
  BY <1>2 DEF BeginCalls, TakeWindow, Pause, Heard, Checkpoint, CallFails, rows, local, asked
<1>3. CASE NothingHeard \/ Publish \/ Renew \/ Complete \/ Defer \/ Fail
  BY <1>3 DEF NothingHeard, Publish, Renew, Complete, Defer, Fail, EndTurn, rows, local, asked
<1>4. CASE Abort \/ Crash \/ Tap \/ request_retranscribe \/ Tick
  BY <1>4 DEF Abort, EndTurn, Crash, Tap, request_retranscribe, Tick, rows, local, asked
<1> QED BY <1>1, <1>2, <1>3, <1>4 DEF Next, Work

\* A claim let go, taken or renewed, and a turn's outcome, are job rows again.
LEMMA JobRows ==
  ASSUME NEW j \in Jobs
  PROVE  /\ Freed(j) \in Jobs
         /\ \A s \in {"queued", "processing", "retry_wait", "done", "failed"} :
              [j EXCEPT !.state = s] \in Jobs
         /\ \A e \in Nat : [j EXCEPT !.epoch = e] \in Jobs
         /\ \A f \in BOOLEAN : [j EXCEPT !.force = f] \in Jobs
         /\ \A n \in 0 .. MaxAttempts : [j EXCEPT !.attempts = n] \in Jobs
         /\ \A n \in 0 .. MaxRevivals : [j EXCEPT !.revivals = n] \in Jobs
<1>1. j.force \in BOOLEAN /\ j = [state |-> j.state, owner |-> j.owner, epoch |-> j.epoch,
                                  force |-> j.force, attempts |-> j.attempts,
                                  revivals |-> j.revivals]
  BY DEF Jobs
<1>2. Freed(j) \in Jobs
  BY <1>1 DEF Freed, Jobs
<1>3. ASSUME NEW s \in {"queued", "processing", "retry_wait", "done", "failed"}
      PROVE  [j EXCEPT !.state = s] \in Jobs
  BY <1>1 DEF Jobs
<1>4. ASSUME NEW e \in Nat PROVE [j EXCEPT !.epoch = e] \in Jobs
  BY <1>1 DEF Jobs
<1>5. ASSUME NEW f \in BOOLEAN PROVE [j EXCEPT !.force = f] \in Jobs
  BY <1>1 DEF Jobs
<1>6. ASSUME NEW n \in 0 .. MaxAttempts PROVE [j EXCEPT !.attempts = n] \in Jobs
  BY <1>1 DEF Jobs
<1>7. ASSUME NEW n \in 0 .. MaxRevivals PROVE [j EXCEPT !.revivals = n] \in Jobs
  BY <1>1 DEF Jobs
<1> QED BY <1>2, <1>3, <1>4, <1>5, <1>6, <1>7

LEMMA JobTyped == ASSUME StageInv, Next PROVE job' \in Jobs
<1>1. job \in Jobs /\ clock \in Nat /\ MaxAttempts \in Nat \ {0} /\ MaxRevivals \in Nat
      /\ (pc # "down" => Me \in Owners)
  BY AsrAssumption, Running DEF StageInv, TypeInv, TypeOK, Jobs
<1>2. Freed(job) \in Jobs
  BY <1>1, JobRows
<1>a. CASE Start
  <2>1. [Freed(job) EXCEPT !.state = "queued"] \in Jobs
    BY <1>2, JobRows
  <2> QED BY <1>1, <1>a, <2>1 DEF Start
<1>b. CASE Recover
  <2>1. [Freed(job) EXCEPT !.state = "queued"] \in Jobs
    BY <1>2, JobRows
  <2> QED BY <1>b, <2>1 DEF Recover
<1>c. CASE Claim
  BY <1>1, <1>c DEF Claim, Jobs
<1>d. CASE Checkpoint \/ Renew
  BY <1>1, <1>d, JobRows DEF Checkpoint, Renew
<1>3. ASSUME NEW s \in {"queued", "processing", "retry_wait", "done", "failed"}, NEW f \in BOOLEAN
      PROVE  Outcome(s, f) \in Jobs
  <2>1. [Freed(job) EXCEPT !.state = s, !.force = f]
          = [[Freed(job) EXCEPT !.state = s] EXCEPT !.force = f]
    BY <1>2 DEF Jobs
  <2>2. [Freed(job) EXCEPT !.state = s] \in Jobs
    BY <1>1, <1>2, JobRows
  <2>3. [[Freed(job) EXCEPT !.state = s] EXCEPT !.force = f] \in Jobs
    BY <1>1, <2>2, JobRows
  <2> QED BY <2>1, <2>3 DEF Outcome
<1>4. CASE Complete
  BY <1>3, <1>4 DEF Complete
<1>5. CASE Defer
  BY <1>1, <1>3, <1>5 DEF Defer, Deferred, Jobs
<1>6. CASE Fail
  <2>1. job.state = "processing" /\ job.attempts < MaxAttempts /\ job.force \in BOOLEAN
    BY <1>1, <1>6 DEF Fail, InTurn, Points, StageInv, AttemptInv, Jobs
  <2> DEFINE n == IF pc = "strike" THEN job.attempts + 1 ELSE job.attempts
             out == Outcome(IF n >= MaxAttempts THEN "failed" ELSE "retry_wait", job.force)
  <2>2. n \in 0 .. MaxAttempts
    BY <1>1, <2>1 DEF Jobs
  <2>3. job' = [out EXCEPT !.attempts = n]
    BY <1>6 DEF Fail
  <2>4. out \in Jobs
    BY <1>3, <2>1
  <2> HIDE DEF n, out
  <2> QED BY <1>1, <2>2, <2>3, <2>4, JobRows
<1>7. CASE request_retranscribe
  <2>1. NoJob \in Jobs
    BY <1>1 DEF NoJob, Jobs
  <2>2. job.revivals \in 0 .. MaxRevivals
    BY <1>1 DEF Jobs
  <2>3. [[NoJob EXCEPT !.force = TRUE] EXCEPT !.revivals = job.revivals] \in Jobs
    BY <2>1, <2>2, JobRows
  <2>4. [NoJob EXCEPT !.force = TRUE, !.revivals = job.revivals]
          = [[NoJob EXCEPT !.force = TRUE] EXCEPT !.revivals = job.revivals]
    BY DEF NoJob
  <2> QED BY <1>1, <1>7, <2>3, <2>4 DEF request_retranscribe
<1>8. CASE Revive
  <2>1. [Freed(job) EXCEPT !.state = "queued"] \in Jobs
    BY <1>2, JobRows
  <2>2. [[Freed(job) EXCEPT !.state = "queued"] EXCEPT !.attempts = 0] \in Jobs
    <3> DEFINE j == [Freed(job) EXCEPT !.state = "queued"]
    <3>1. j \in Jobs /\ 0 \in 0 .. MaxAttempts
      BY <1>1, <2>1
    <3> HIDE DEF j
    <3>2. [j EXCEPT !.attempts = 0] \in Jobs
      BY <3>1, JobRows
    <3> QED BY <3>2 DEF j
  <2>3. job.revivals + 1 \in 0 .. MaxRevivals /\ Freed(job).revivals = job.revivals
    BY <1>1, <1>8 DEF Revive, Freed, Jobs
  <2>4. [[[Freed(job) EXCEPT !.state = "queued"] EXCEPT !.attempts = 0]
           EXCEPT !.revivals = job.revivals + 1] \in Jobs
    BY <2>2, <2>3, JobRows
  <2>5. job' = [[[Freed(job) EXCEPT !.state = "queued"] EXCEPT !.attempts = 0]
                  EXCEPT !.revivals = job.revivals + 1]
    BY <1>2, <1>8, <2>3 DEF Revive, Jobs
  <2> QED BY <2>4, <2>5
<1> QED BY <1>1, <1>a, <1>b, <1>c, <1>d, <1>4, <1>5, <1>6, <1>7, <1>8, Writers

LEMMA ReviewTyped == ASSUME StageInv, Next PROVE review' \in Reviews
<1>1. review \in Reviews /\ clock \in Nat /\ (pc # "down" => Me \in Owners)
  BY AsrAssumption, Running DEF StageInv, TypeInv, TypeOK, Reviews
<1>2. /\ ReleasedReview \in Reviews
      /\ [Freed(review) EXCEPT !.state = "queued"] \in Reviews
      /\ [Freed(review) EXCEPT !.state = "reviewed"] \in Reviews
  BY <1>1 DEF ReleasedReview, Freed, Reviews
<1>3. CASE claim_review
  BY <1>1, <1>3 DEF claim_review, Reviews
<1>4. CASE Release
  BY <1>1, <1>2, <1>4 DEF Release
<1>5. CASE DeclineReview \/ CallFails \/ NothingHeard \/ Publish
  BY <1>1, <1>2, <1>5 DEF DeclineReview, CallFails, NothingHeard, Publish
<1> QED BY <1>1, <1>3, <1>4, <1>5, Writers

\* The row a heard window leaves.
LEMMA Recorded ==
  ASSUME TypeInv, Plan(proc)[at] \in [start : Nat, duration : Nat]
  PROVE  /\ record_segment \in SegmentRows
         /\ record_segment.status = "complete"
         /\ record_segment.span = Plan(proc)[at]
         /\ record_segment.heard = requests
<1>1. requests \in 0 .. MaxRequests /\ 0 \in 0 .. MaxRequests
  BY AsrAssumption DEF TypeInv, TypeOK
<1> QED BY <1>1 DEF record_segment, NoWindow, SegmentRows

LEMMA WindowsTyped == ASSUME StageInv, Next PROVE windows' \in [Indexes -> SegmentRows]
<1>1. /\ windows \in [Indexes -> SegmentRows] /\ clock \in Nat /\ requests \in 0 .. MaxRequests
      /\ MaxRequests \in Nat /\ at \in Indexes
  BY AsrAssumption DEF StageInv, TypeInv, TypeOK, SegmentRows
<1>2. pc # "down" => /\ Me \in Owners
                     /\ DOMAIN Plan(proc) \subseteq Indexes
                     /\ \A i \in DOMAIN Plan(proc) : Plan(proc)[i] \in [start : Nat, duration : Nat]
  BY Running DEF StageInv, TypeInv
<1>3. NoWindow \in SegmentRows /\ \A span \in [start : Nat, duration : Nat] : Pending(span) \in SegmentRows
  <2>1. NoWindow \in SegmentRows
    BY <1>1 DEF NoWindow, SegmentRows
  <2>2. ASSUME NEW span \in [start : Nat, duration : Nat] PROVE Pending(span) \in SegmentRows
    <3>1. [NoWindow EXCEPT !.status = "pending"] \in SegmentRows
      BY <2>1 DEF SegmentRows
    <3>2. Pending(span) = [[NoWindow EXCEPT !.status = "pending"] EXCEPT !.span = span]
      BY <2>1 DEF Pending, SegmentRows
    <3> QED BY <3>1, <3>2 DEF SegmentRows
  <2> QED BY <2>1, <2>2
<1>4. ASSUME NEW i \in Indexes
      PROVE  /\ Freed(windows[i]) \in SegmentRows
             /\ [Freed(windows[i]) EXCEPT !.status = "pending"] \in SegmentRows
             /\ \A span \in [start : Nat, duration : Nat] :
                  [Freed(windows[i]) EXCEPT !.status = "error", !.span = span] \in SegmentRows
  BY <1>1 DEF Freed, SegmentRows
<1>5. CASE Release
  BY <1>1, <1>4, <1>5 DEF Release, release_processing_segments
<1>6. CASE BeginCalls
  BY <1>1, <1>2, <1>3, <1>6 DEF BeginCalls, materialize_plan
<1>7. CASE TakeWindow
  <2>1. PICK i \in Owed :
          windows' = [windows EXCEPT ![i] = [@ EXCEPT !.status = "processing",
                        !.owner = Me, !.epoch = clock, !.span = Plan(proc)[i]]]
    BY <1>7 DEF TakeWindow
  <2>2. i \in Indexes /\ Plan(proc)[i] \in [start : Nat, duration : Nat] /\ Me \in Owners
    BY <1>2, <1>7 DEF TakeWindow, Owed
  <2>3. [windows[i] EXCEPT !.status = "processing", !.owner = Me, !.epoch = clock,
                           !.span = Plan(proc)[i]] \in SegmentRows
    BY <1>1, <2>2 DEF SegmentRows
  <2> QED BY <1>1, <2>1, <2>2, <2>3
<1>8. CASE Heard \/ CallFails
  <2>1. CASE ~needs_segmentation
    BY <1>1, <1>8, <2>1 DEF Heard, CallFails
  <2>2. CASE needs_segmentation
    <3>1. at \in DOMAIN Plan(proc) /\ Plan(proc)[at] \in [start : Nat, duration : Nat]
      BY <1>2, <1>8, <2>2 DEF Heard, CallFails, StageInv, WindowInv
    <3>2. record_segment \in SegmentRows
      BY <3>1, Recorded DEF StageInv
    <3>3. fail_segment \in SegmentRows
      BY <1>1, <1>4, <3>1 DEF fail_segment
    <3>4. windows' = [windows EXCEPT ![at] = record_segment]
          \/ windows' = [windows EXCEPT ![at] = fail_segment]
      BY <1>8, <2>2 DEF Heard, CallFails
    <3> HIDE DEF SegmentRows
    <3> QED BY <1>1, <3>2, <3>3, <3>4
  <2> QED BY <2>1, <2>2
<1>9. CASE request_retranscribe
  BY <1>3, <1>9 DEF request_retranscribe, Cleared
<1> QED BY <1>1, <1>5, <1>6, <1>7, <1>8, <1>9, Writers

\* What is read off the held rows at publication.
LEMMA HearingTyped == ASSUME StageInv, Publish PROVE Hearing \subseteq 0 .. MaxRequests
<1>1. requests \in 0 .. MaxRequests /\ \A i \in DOMAIN done : done[i].heard \in 0 .. MaxRequests
  BY AsrAssumption DEF StageInv, TypeInv, TypeOK, SegmentRows
<1>2. needs_segmentation => DOMAIN Plan(proc) \subseteq DOMAIN done
  BY DEF Publish, Assembled, Owed, StageInv, WindowInv
<1> QED BY <1>1, <1>2 DEF Hearing

LEMMA HeldTyped ==
  ASSUME StageInv, Next
  PROVE  DOMAIN done' \subseteq Indexes /\ \A i \in DOMAIN done' : done'[i] \in SegmentRows
<1>1. /\ DOMAIN done \subseteq Indexes /\ \A i \in DOMAIN done : done[i] \in SegmentRows
      /\ windows \in [Indexes -> SegmentRows] /\ at \in Indexes
  BY DEF StageInv, TypeInv, TypeOK
<1>2. CASE UNCHANGED local \/ TakeWindow
  BY <1>1, <1>2 DEF local, TakeWindow
<1>3. CASE BeginCalls
  <2>1. done' = done \/ done' = [i \in done_segments |-> windows[i]]
    BY <1>3 DEF BeginCalls
  <2>2. done_segments \subseteq Indexes
    BY DEF done_segments
  <2> QED BY <1>1, <2>1, <2>2
<1>4. CASE Heard
  <2>1. CASE ~needs_segmentation
    BY <1>1, <1>4, <2>1 DEF Heard
  <2>2. CASE needs_segmentation
    <3>1. at \in DOMAIN Plan(proc) /\ proc # 0
      BY <1>4, <2>2 DEF Heard, StageInv, WindowInv, TypeInv
    <3>2. record_segment \in SegmentRows
      BY <3>1, Running, Recorded DEF StageInv
    <3>3. done' = [i \in DOMAIN done \cup {at} |-> IF i = at THEN record_segment ELSE done[i]]
      BY <1>4, <2>2 DEF Heard
    <3> HIDE DEF SegmentRows, record_segment
    <3> QED BY <1>1, <3>2, <3>3
  <2> QED BY <2>1, <2>2
<1>5. CASE Complete \/ Abort \/ Defer \/ Fail \/ Crash
  <2>1. done' = NoneHeld
    BY <1>5 DEF Complete, Abort, Defer, Fail, EndTurn, Crash
  <2> QED BY <2>1 DEF NoneHeld
<1> QED BY <1>2, <1>3, <1>4, <1>5, Writers

LEMMA AskedTyped ==
  ASSUME StageInv, Next
  PROVE  /\ requests' \in Nat /\ taps' \in Nat /\ requests' + taps' <= MaxRequests
         /\ emptied' \in BOOLEAN
<1>1. /\ requests \in Nat /\ taps \in Nat /\ requests + taps <= MaxRequests /\ emptied \in BOOLEAN
      /\ MaxRequests \in Nat
  BY AsrAssumption DEF StageInv, TypeInv, TypeOK
<1>2. CASE Tap
  BY <1>1, <1>2 DEF Tap
<1>3. CASE request_retranscribe
  BY <1>1, <1>3 DEF request_retranscribe, Open
<1>4. CASE ~Tap /\ ~request_retranscribe
  <2>1. requests' = requests /\ (taps' = taps \/ taps' = 0) /\ emptied' \in BOOLEAN
    BY <1>1, <1>4, Writers DEF Crash, BeginCalls
  <2> QED BY <1>1, <2>1
<1> QED BY <1>2, <1>3, <1>4

LEMMA TurnTyped ==
  ASSUME StageInv, Next
  PROVE  /\ text' \subseteq 0 .. MaxRequests
         /\ proc' \in 0 .. Incarnations /\ (pc' # "down" => proc' # 0) /\ pc' \in Points
         /\ at' \in Indexes /\ spent' \in Nat
         /\ clock' \in 0 .. MaxTime /\ faults' \in 0 .. MaxFaults
<1>1. /\ proc \in 0 .. Incarnations /\ (pc # "down" => proc # 0) /\ pc \in Points
      /\ at \in Indexes /\ spent \in Nat /\ text \subseteq 0 .. MaxRequests
      /\ clock \in 0 .. MaxTime /\ faults \in 0 .. MaxFaults
      /\ Incarnations \in Nat /\ MaxTime \in Nat /\ MaxRequests \in Nat /\ MaxFaults \in Nat
  BY AsrAssumption DEF StageInv, TypeInv, TypeOK
<1>2. 0 \in Indexes
  <2>1. duration \in Nat \ {0}
    BY AsrAssumption DEF StageInv, TypeInv
  <2>2. Planned(duration, 1, 1) = duration
    BY <2>1, PlanShape
  <2> QED BY <2>1, <2>2 DEF Indexes
<1>3. pc # "down" => DOMAIN Plan(proc) \subseteq Indexes
  BY Running DEF StageInv, TypeInv
<1>4. CASE Start \/ Release \/ Recover \/ Revive \/ Claim \/ claim_review \/ DeclineReview \/ Transcribe
  BY <1>1, <1>4 DEF Start, Release, Recover, Revive, Claim, claim_review, DeclineReview, Transcribe,
                    rows, local, Points
<1>5. CASE BeginCalls
  BY <1>1, <1>2, <1>5 DEF BeginCalls, Points
<1>6. CASE TakeWindow
  BY <1>1, <1>3, <1>6 DEF TakeWindow, Points, Owed
<1>7. CASE Heard
  BY <1>1, <1>7 DEF Heard, Points
<1>8. CASE Pause \/ Checkpoint \/ Renew
  BY <1>1, <1>8 DEF Pause, Checkpoint, Renew, rows, local, Points
<1>9. CASE CallFails
  <2>1. UNCHANGED <<text, proc, at, spent, clock>> /\ pc' \in {"defer", "strike", "retry"} /\ pc # "down"
        /\ faults < MaxFaults /\ faults' = faults + 1
    BY <1>9 DEF CallFails, Fault, local
  <2> QED BY <1>1, <2>1 DEF Points
<1>10. CASE NothingHeard
  <2>1. UNCHANGED <<text, proc, at, spent, clock>> /\ pc' = "strike" /\ pc # "down"
        /\ faults < MaxFaults /\ faults' = faults + 1
    BY <1>10 DEF NothingHeard, Assembled, Fault, local
  <2> QED BY <1>1, <2>1 DEF Points
<1>11. CASE Publish
  <2>1. pc # "down" /\ (text' = text \/ text' = Hearing)
    BY <1>11 DEF Publish, Assembled
  <2>2. text' \subseteq 0 .. MaxRequests
    BY <1>1, <1>11, <2>1, HearingTyped
  <2> QED BY <1>1, <1>11, <2>1, <2>2 DEF Publish, local, Points
<1>12. CASE Complete \/ Defer \/ Fail \/ Abort
  <2>1. EndTurn /\ faults' \in {faults, faults + 1} /\ (faults' # faults => faults < MaxFaults)
        /\ pc # "down"
    BY <1>12 DEF Complete, Defer, Fail, Abort, Fault
  <2>2. faults' \in 0 .. MaxFaults
    BY <1>1, <2>1
  <2> QED BY <1>1, <1>2, <2>1, <2>2 DEF EndTurn, Points
<1>13. CASE Crash \/ Tap \/ request_retranscribe \/ Tick
  BY <1>1, <1>2, <1>13 DEF Crash, Tap, request_retranscribe, Tick, rows, local, Points
<1> QED BY <1>4, <1>5, <1>6, <1>7, <1>8, <1>9, <1>10, <1>11, <1>12, <1>13 DEF Next, Work

LEMMA StepTypes == ASSUME StageInv, Next PROVE TypeInv'
<1>1. duration' = duration /\ duration \in Durations
  BY Writers DEF StageInv, TypeInv
<1>2. Indexes' = Indexes
  BY <1>1 DEF Indexes
<1>3. TypeOK'
  BY <1>2, JobTyped, ReviewTyped, WindowsTyped, HeldTyped, AskedTyped, TurnTyped
  DEF TypeOK, Jobs, Reviews, SegmentRows
<1> QED BY <1>1, <1>3, TurnTyped DEF TypeInv

LEMMA InitStage == Init => StageInv
<1> SUFFICES ASSUME Init PROVE StageInv
  OBVIOUS
<1>1. /\ MaxAttempts \in Nat \ {0} /\ MaxRevivals \in Nat /\ MaxRequests \in Nat /\ Incarnations \in Nat /\ MaxTime \in Nat
      /\ MaxFaults \in Nat /\ duration \in Nat \ {0}
  BY AsrAssumption DEF Init
<1>2. 0 \in Indexes
  <2>1. Planned(duration, 1, 1) = duration
    BY <1>1, PlanShape
  <2> QED BY <1>1, <2>1 DEF Indexes
<1>3. NoJob \in Jobs /\ NoReview \in Reviews /\ NoWindow \in SegmentRows
  <2>1. NoJob \in Jobs
    BY <1>1 DEF NoJob, Jobs
  <2>2. NoReview \in Reviews /\ NoWindow \in SegmentRows
    BY <1>1 DEF NoReview, NoWindow, Reviews, SegmentRows
  <2> QED BY <2>1, <2>2
<1>4. TypeInv
  BY <1>1, <1>2, <1>3 DEF Init, TypeInv, TypeOK, NoneHeld, Jobs, Reviews, SegmentRows, Points
<1>5. AttemptInv
  BY <1>1 DEF Init, AttemptInv, InTurn, NoJob
<1>6. WindowInv
  BY DEF Init, WindowInv, NoJob
<1> QED BY <1>4, <1>5, <1>6 DEF StageInv

-----------------------------------------------------------------------------
(* Attempts *)

LEMMA StepAttempts == ASSUME StageInv, Next PROVE AttemptInv'
<1>1. /\ job \in Jobs /\ MaxAttempts \in Nat \ {0} /\ faults \in Nat /\ pc \in Points
      /\ job.attempts \in Nat
  BY AsrAssumption DEF StageInv, TypeInv, TypeOK, Jobs
<1>2. /\ pc \notin {"down", "starting", "idle"} => job.state = "processing"
      /\ job.state \notin {"done", "failed"} => job.attempts < MaxAttempts
      /\ job.attempts <= faults
      /\ pc = "strike" => job.attempts < faults
  BY <1>1 DEF StageInv, AttemptInv, InTurn
<1> SUFFICES /\ pc' \notin {"down", "starting", "idle"} => job'.state = "processing"
             /\ job'.state \notin {"done", "failed"} => job'.attempts < MaxAttempts
             /\ job'.attempts <= faults'
             /\ pc' = "strike" => job'.attempts < faults'
  BY DEF AttemptInv, InTurn
<1>3. CASE job' = job /\ faults' = faults /\ pc' # "strike" /\ (pc \in {"down", "starting", "idle"} =>
                                                                  pc' \in {"down", "starting", "idle"})
  BY <1>2, <1>3
<1>4. CASE job' = job /\ faults' = faults + 1 /\ pc \notin {"down", "starting", "idle"}
  BY <1>1, <1>2, <1>4
<1>5. CASE faults' = faults /\ pc' = "starting" /\ Start
  BY <1>1, <1>2, <1>5 DEF Start, Freed, Jobs
<1>16. CASE Revive
  BY <1>1, <1>2, <1>16 DEF Revive, Freed, Jobs
<1>6. CASE Recover \/ Claim
  BY <1>1, <1>2, <1>6 DEF Recover, Claim, Freed, Jobs
<1>7. CASE Checkpoint \/ Renew
  BY <1>1, <1>2, <1>7 DEF Checkpoint, Renew, Jobs
<1>8. CASE Complete \/ Defer
  BY <1>1, <1>2, <1>8 DEF Complete, Defer, EndTurn, Deferred, Outcome, Freed, Jobs
<1>9. CASE Fail
  <2> DEFINE n == IF pc = "strike" THEN job.attempts + 1 ELSE job.attempts
  <2>1. /\ job'.attempts = n /\ job'.state = IF n >= MaxAttempts THEN "failed" ELSE "retry_wait"
        /\ pc' = "idle" /\ faults' = faults /\ n <= faults /\ n \in Nat
    BY <1>1, <1>2, <1>9 DEF Fail, EndTurn, Outcome, Freed, Jobs
  <2> HIDE DEF n
  <2> QED BY <1>1, <2>1
<1>10. CASE request_retranscribe
  <2>1. /\ pc' = pc /\ faults' = faults
        /\ \/ job' = job
           \/ job'.state = "queued" /\ job'.attempts = 0 /\ ~Open
    BY <1>10 DEF request_retranscribe, NoJob
  <2>2. ~Open => pc \in {"down", "starting", "idle"}
    BY <1>2 DEF Open
  <2> QED BY <1>1, <1>2, <2>1, <2>2
<1>11. CASE Release \/ claim_review \/ DeclineReview \/ Transcribe \/ BeginCalls \/ TakeWindow
            \/ Pause \/ Heard
  BY <1>3, <1>11 DEF Release, claim_review, DeclineReview, Transcribe, BeginCalls, TakeWindow,
     Pause, Heard, rows
<1>12. CASE CallFails \/ NothingHeard \/ Abort
  <2>1. /\ job' = job /\ faults' = faults + 1
        /\ pc \in {"call", "windows", "publish", "complete"}
    BY <1>12 DEF CallFails, NothingHeard, Abort, Fault, Assembled
  <2> QED BY <1>4, <2>1
<1>13. CASE Publish \/ Crash
  BY <1>3, <1>13 DEF Publish, Assembled, Crash, rows
<1>14. CASE Tap \/ Tick
  BY <1>2, <1>14 DEF Tap, Tick, rows
<1>15. Start => faults' = faults /\ pc' = "starting"
  BY DEF Start
<1> QED BY <1>5, <1>6, <1>7, <1>8, <1>9, <1>10, <1>11, <1>12, <1>13, <1>14, <1>15, <1>16 DEF Next, Work

-----------------------------------------------------------------------------
(* Windows *)

\* What a step does to a window that is committed: nothing, if it is committed
\* on the running plan and no tap deletes it.
LEMMA CommittedKept ==
  ASSUME StageInv, Next, NEW i \in Indexes, windows[i].status = "complete"
  PROVE  windows'[i] = windows[i] \/ request_retranscribe \/ (BeginCalls /\ ~OnPlan(i))
<1>1. windows \in [Indexes -> SegmentRows] /\ at \in Indexes
  BY DEF StageInv, TypeInv, TypeOK
<1>2. CASE Release
  BY <1>2 DEF Release, release_processing_segments
<1>3. CASE BeginCalls
  BY <1>3 DEF BeginCalls, materialize_plan, Kept, done_segments, OnPlan
<1>4. CASE TakeWindow
  BY <1>1, <1>4 DEF TakeWindow, claim_segment
<1>5. CASE Heard \/ CallFails
  <2>1. needs_segmentation => windows[at].status # "complete"
    BY <1>5 DEF Heard, CallFails, StageInv, WindowInv
  <2> QED BY <1>1, <1>5, <2>1 DEF Heard, CallFails
<1> QED BY <1>2, <1>3, <1>4, <1>5, Writers

\* What a call leaves on its window.
LEMMA CallWrites ==
  ASSUME StageInv, Heard \/ CallFails
  PROVE  \/ windows' = windows
         \/ /\ needs_segmentation /\ at \in DOMAIN Plan(proc) /\ proc # 0
            /\ \A j \in Indexes : j # at => windows'[j] = windows[j]
            /\ windows'[at].span = Plan(proc)[at]
            /\ \/ Heard /\ windows'[at].status = "complete" /\ windows'[at].heard = requests
               \/ CallFails /\ windows'[at].status = "error"
<1>1. windows \in [Indexes -> SegmentRows] /\ at \in Indexes
  BY DEF StageInv, TypeInv, TypeOK
<1>2. CASE ~needs_segmentation
  BY <1>2 DEF Heard, CallFails
<1>3. CASE needs_segmentation
  <2>1. at \in DOMAIN Plan(proc) /\ proc # 0
    BY <1>3 DEF Heard, CallFails, StageInv, WindowInv, TypeInv
  <2>2. CASE Heard
    <3>1. windows' = [windows EXCEPT ![at] = record_segment]
      BY <1>3, <2>2 DEF Heard
    <3>2. windows'[at] = record_segment /\ \A j \in Indexes : j # at => windows'[j] = windows[j]
      BY <1>1, <3>1
    <3> QED BY <1>3, <2>1, <2>2, <3>2, Running, Recorded DEF StageInv
  <2>3. CASE CallFails
    <3>1. windows' = [windows EXCEPT ![at] = fail_segment]
      BY <1>3, <2>3 DEF CallFails
    <3>2. windows'[at] = fail_segment /\ \A j \in Indexes : j # at => windows'[j] = windows[j]
      BY <1>1, <3>1
    <3>3. fail_segment.status = "error" /\ fail_segment.span = Plan(proc)[at]
      BY <1>1 DEF fail_segment, Freed, SegmentRows
    <3> QED BY <1>3, <2>1, <2>3, <3>2, <3>3
  <2> QED BY <2>2, <2>3
<1> QED BY <1>2, <1>3

\* A window is committed by the turn that hears it.
LEMMA CommittedNow ==
  ASSUME StageInv, Next, NEW i \in Indexes, windows'[i].status = "complete"
  PROVE  windows'[i] = windows[i] \/ (Heard /\ i = at /\ windows'[i].heard = requests)
<1>1. windows \in [Indexes -> SegmentRows] /\ at \in Indexes
  BY DEF StageInv, TypeInv, TypeOK
<1>2. \A w \in SegmentRows : [Freed(w) EXCEPT !.status = "pending"].status = "pending"
  BY DEF Freed, SegmentRows
<1>3. CASE Release
  BY <1>1, <1>2, <1>3 DEF Release, release_processing_segments
<1>4. CASE BeginCalls
  <2>1. NoWindow.status = "absent" /\ \A span : Pending(span).status = "pending"
    BY DEF NoWindow, Pending
  <2> QED BY <1>4, <2>1 DEF BeginCalls, materialize_plan
<1>5. CASE TakeWindow
  BY <1>1, <1>5 DEF TakeWindow, SegmentRows
<1>6. CASE Heard \/ CallFails
  BY <1>6, CallWrites
<1>7. CASE request_retranscribe
  BY <1>7 DEF request_retranscribe, Cleared, NoWindow
<1> QED BY <1>3, <1>4, <1>5, <1>6, <1>7, Writers

\* The force flag is set by a granted request only, which finds no turn under
\* way, and no other step counts as one.
LEMMA ForceSet ==
  ASSUME StageInv, Next, job'.force
  PROVE  \/ job.force /\ requests' = requests
         \/ request_retranscribe /\ ~InTurn /\ pc' = pc
<1>0. job \in Jobs
  BY DEF StageInv, TypeInv, TypeOK, Jobs
<1>1. CASE request_retranscribe
  <2>1. ~Open => ~InTurn
    BY DEF Open, StageInv, AttemptInv
  <2> QED BY <1>1, <2>1 DEF request_retranscribe
<1>2. CASE ~request_retranscribe
  <2>1. requests' = requests
    BY <1>2, Writers
  <2>2. CASE Start \/ Recover \/ Revive \/ Claim \/ Checkpoint \/ Renew
    BY <1>0, <2>1, <2>2 DEF Start, Recover, Revive, Claim, Checkpoint, Renew, Freed, Jobs
  <2>3. CASE Complete \/ Defer
    BY <1>0, <2>1, <2>3 DEF Complete, Defer, Deferred, Outcome, Freed, Jobs
  <2>4. CASE Fail
    BY <1>0, <2>1, <2>4 DEF Fail, Outcome, Freed, Jobs
  <2> QED BY <1>2, <2>1, <2>2, <2>3, <2>4, Writers
<1> QED BY <1>1, <1>2

\* The plan is the incarnation's.
LEMMA SamePlan ==
  ASSUME duration' = duration, proc' = proc
  PROVE  Plan(proc)' = Plan(proc) /\ Indexes' = Indexes /\ needs_segmentation' = needs_segmentation
BY DEF Plan, Indexes, needs_segmentation

LEMMA StepForce ==
  ASSUME StageInv, Next
  PROVE  job'.force => \A i \in Indexes : windows'[i].status = "complete"
                                           => windows'[i].heard = requests'
<1>1. SUFFICES ASSUME job'.force, NEW i \in Indexes, windows'[i].status = "complete"
               PROVE  windows'[i].heard = requests'
  OBVIOUS
<1>2. CASE request_retranscribe
  BY <1>1, <1>2 DEF request_retranscribe, Cleared, NoWindow
<1>3. CASE job.force /\ requests' = requests
  <2>1. windows[i].status = "complete" => windows[i].heard = requests
    BY <1>3 DEF StageInv, WindowInv
  <2> QED BY <1>1, <1>3, <2>1, CommittedNow
<1> QED BY <1>1, <1>2, <1>3, ForceSet

\* What a turn holds stays what it was.
LEMMA StepDone ==
  ASSUME StageInv, Next, needs_segmentation, pc' \in {"windows", "call", "checkpoint"}
  PROVE  /\ \A i \in DOMAIN done' :
              /\ i \in DOMAIN Plan(proc)'
              /\ done'[i].status = "complete" /\ done'[i].span = Plan(proc)'[i]
              /\ job'.force => done'[i].heard = requests'
         /\ pc' = "call" => at' \in DOMAIN Plan(proc)'
                            /\ windows'[at'].status \in {"processing", "absent"}
<1>0. /\ windows \in [Indexes -> SegmentRows] /\ at \in Indexes /\ DOMAIN done \subseteq Indexes
      /\ pc \in Points
  BY DEF StageInv, TypeInv, TypeOK
<1>1. /\ pc \in {"windows", "call", "checkpoint"} =>
           \A i \in DOMAIN done : /\ i \in DOMAIN Plan(proc)
                                  /\ done[i].status = "complete" /\ done[i].span = Plan(proc)[i]
                                  /\ job.force => done[i].heard = requests
      /\ pc = "call" => at \in DOMAIN Plan(proc) /\ windows[at].status \in {"processing", "absent"}
  BY DEF StageInv, WindowInv
<1>2. CASE BeginCalls
  <2>1. /\ duration' = duration /\ proc' = proc /\ job' = job /\ requests' = requests
        /\ done' = [i \in done_segments |-> windows[i]] /\ pc' # "call"
    BY <1>2 DEF BeginCalls
  <2>2. Plan(proc)' = Plan(proc)
    BY <2>1, SamePlan
  <2>3. ASSUME NEW i \in done_segments
        PROVE  /\ i \in DOMAIN Plan(proc) /\ i \in Indexes
               /\ windows[i].status = "complete" /\ windows[i].span = Plan(proc)[i]
               /\ job.force => windows[i].heard = requests
    BY <2>3 DEF done_segments, OnPlan, StageInv, WindowInv
  <2> QED BY <2>1, <2>2, <2>3
<1>3. CASE TakeWindow
  <2>1. PICK i \in Owed :
          /\ windows' = [windows EXCEPT ![i] = [@ EXCEPT !.status = "processing",
                           !.owner = Me, !.epoch = clock, !.span = Plan(proc)[i]]]
          /\ at' = i
    BY <1>3 DEF TakeWindow
  <2>2. /\ duration' = duration /\ proc' = proc /\ done' = done /\ pc = "windows" /\ proc # 0
        /\ job' = job /\ requests' = requests
    BY <1>3 DEF TakeWindow, asked, StageInv, TypeInv
  <2>3. i \in DOMAIN Plan(proc) /\ i \in Indexes
    BY <2>2, Running DEF Owed, StageInv
  <2>4. windows'[i].status = "processing"
    BY <1>0, <2>1, <2>3 DEF SegmentRows
  <2>5. Plan(proc)' = Plan(proc)
    BY <2>2, SamePlan
  <2> QED BY <1>1, <2>1, <2>2, <2>3, <2>4, <2>5
<1>4. CASE Heard
  <2>1. /\ duration' = duration /\ proc' = proc /\ pc = "call" /\ proc # 0
        /\ done' = [i \in DOMAIN done \cup {at} |-> IF i = at THEN record_segment ELSE done[i]]
        /\ pc' = "checkpoint" /\ job' = job /\ requests' = requests
    BY <1>4 DEF Heard, asked, StageInv, TypeInv
  <2>2. at \in DOMAIN Plan(proc)
    BY <1>1, <2>1
  <2>3. record_segment.status = "complete" /\ record_segment.span = Plan(proc)[at]
        /\ record_segment.heard = requests
    BY <2>1, <2>2, Running, Recorded DEF StageInv
  <2>4. Plan(proc)' = Plan(proc)
    BY <2>1, SamePlan
  <2> HIDE DEF record_segment
  <2> QED BY <1>1, <2>1, <2>2, <2>3, <2>4
<1>5. CASE Checkpoint
  <2>1. /\ duration' = duration /\ proc' = proc /\ done' = done /\ pc = "checkpoint" /\ pc' = "windows"
        /\ job'.force = job.force /\ requests' = requests
    BY <1>5 DEF Checkpoint, local, asked, StageInv, TypeInv, TypeOK, Jobs
  <2>2. Plan(proc)' = Plan(proc)
    BY <2>1, SamePlan
  <2> QED BY <1>1, <2>1, <2>2
<1>6. CASE Tap \/ Tick
  <2>1. /\ duration' = duration /\ proc' = proc /\ done' = done /\ pc' = pc /\ at' = at
        /\ job' = job /\ windows' = windows /\ requests' = requests
    BY <1>6 DEF Tap, Tick, rows, local, asked
  <2>2. Plan(proc)' = Plan(proc)
    BY <2>1, SamePlan
  <2> QED BY <1>1, <2>1, <2>2
<1>7. CASE request_retranscribe
  <2>1. /\ duration' = duration /\ proc' = proc /\ done' = done /\ pc' = pc /\ at' = at
        /\ windows' = Cleared
    BY <1>7 DEF request_retranscribe, local
  <2>2. Open
    BY <2>1 DEF StageInv, AttemptInv, InTurn, Points, Open
  <2>3. job' = job /\ requests' = requests
    BY <1>7, <2>2 DEF request_retranscribe
  <2>4. windows'[at].status = "absent"
    BY <1>0, <2>1 DEF Cleared, NoWindow
  <2>5. Plan(proc)' = Plan(proc)
    BY <2>1, SamePlan
  <2> QED BY <1>1, <2>1, <2>3, <2>4, <2>5
<1>8. BeginCalls \/ TakeWindow \/ Heard \/ Checkpoint \/ Tap \/ Tick \/ request_retranscribe
  <2>1. ~(Start \/ Release \/ Recover \/ Revive \/ Claim \/ claim_review \/ DeclineReview \/ Transcribe)
    BY DEF Start, Release, Recover, Revive, Claim, claim_review, DeclineReview, Transcribe,
           StageInv, TypeInv, Points
  <2>2. ~(Pause \/ CallFails \/ NothingHeard \/ Publish \/ Renew)
    BY DEF Pause, CallFails, NothingHeard, Publish, Renew
  <2>3. ~(Complete \/ Defer \/ Fail \/ Abort \/ Crash)
    BY DEF Complete, Defer, Fail, Abort, EndTurn, Crash
  <2> QED BY <2>1, <2>2, <2>3 DEF Next, Work
<1> QED BY <1>2, <1>3, <1>4, <1>5, <1>6, <1>7, <1>8

LEMMA StepWindows == ASSUME StageInv, Next PROVE WindowInv'
<1>1. duration' = duration
  BY Writers
<1>2. needs_segmentation' = needs_segmentation /\ Indexes' = Indexes
  BY <1>1 DEF needs_segmentation, Indexes
<1>3. pc' = "publish" => ~needs_segmentation
  <2>1. pc = "publish" => ~needs_segmentation
    BY DEF StageInv, WindowInv
  <2>2. pc' = "publish" => pc = "publish" \/ Heard
    <3>1. CASE Start \/ Release \/ Recover \/ Revive \/ Claim \/ claim_review \/ DeclineReview \/ Transcribe
      BY <3>1 DEF Start, Release, Recover, Revive, Claim, claim_review, DeclineReview, Transcribe
    <3>2. CASE BeginCalls \/ TakeWindow \/ Pause \/ Heard \/ Checkpoint \/ CallFails
      BY <3>2 DEF BeginCalls, TakeWindow, Pause, Checkpoint, CallFails
    <3>3. CASE NothingHeard \/ Publish \/ Renew \/ Complete \/ Defer \/ Fail \/ Abort
      BY <3>3 DEF NothingHeard, Publish, Renew, Complete, Defer, Fail, Abort, EndTurn
    <3>4. CASE Crash \/ Tap \/ request_retranscribe \/ Tick
      BY <3>4 DEF Crash, Tap, request_retranscribe, Tick
    <3> QED BY <3>1, <3>2, <3>3, <3>4 DEF Next, Work
  <2> QED BY <2>1, <2>2 DEF Heard
<1> QED BY <1>2, <1>3, StepForce, StepDone DEF WindowInv

\* The stage's invariant is inductive.
LEMMA StageInvHolds == Spec => []StageInv
<1>1. StageInv /\ [Next]_vars => StageInv'
  <2> SUFFICES ASSUME StageInv, [Next]_vars PROVE StageInv'
    OBVIOUS
  <2>1. CASE Next
    BY <2>1, StepTypes, StepAttempts, StepWindows DEF StageInv
  <2>2. CASE UNCHANGED vars
    <3>1. UNCHANGED <<duration, plaud, job, review, windows, text, proc, pc, at, done, spent, clock,
                      requests, taps, emptied, faults>>
      BY <2>2 DEF vars, rows, local, asked
    <3>2. TypeInv' /\ AttemptInv'
      BY <3>1 DEF StageInv, TypeInv, TypeOK, AttemptInv, InTurn, Indexes
    <3>3. WindowInv'
      BY <3>1, SamePlan DEF StageInv, WindowInv
    <3> QED BY <3>2, <3>3 DEF StageInv
  <2> QED BY <2>1, <2>2
<1> QED BY <1>1, InitStage, PTL DEF Spec

-----------------------------------------------------------------------------
(* The properties *)

\* The stage's rows have their types and no pause, crash or restart spends an
\* attempt, for any durations, window sizes, owners and bounds:
\* AsrStage!OnlyFailuresSpend.
THEOREM OnlyFailuresSpendHolds == Spec => []OnlyFailuresSpend
<1>1. StageInv => OnlyFailuresSpend
  BY DEF StageInv, TypeInv, AttemptInv, OnlyFailuresSpend
<1> QED BY <1>1, StageInvHolds, PTL

\* A turn that publishes windows holds all of the plan's, on the plan.
LEMMA PublishesPlan ==
  ASSUME StageInv, Publish, needs_segmentation, NEW i \in DOMAIN Plan(proc)
  PROVE  /\ i \in DOMAIN done /\ done[i].status = "complete" /\ done[i].span = Plan(proc)[i]
         /\ job.force => done[i].heard = requests
BY DEF Publish, Assembled, Owed, StageInv, WindowInv

\* What is published was heard in full, on the boundaries of the plan of the
\* incarnation that publishes it: AsrStage!PublishedWhole.
THEOREM PublishedWholeHolds == Spec => PublishedWhole
<1>1. StageInv /\ [Next]_vars =>
        [text' # text /\ needs_segmentation =>
           \A i \in DOMAIN Plan(proc) :
             i \in DOMAIN done /\ done[i].status = "complete" /\ done[i].span = Plan(proc)[i]]_vars
  <2>1. ASSUME StageInv, Next, text' # text, needs_segmentation, NEW i \in DOMAIN Plan(proc)
        PROVE  i \in DOMAIN done /\ done[i].status = "complete" /\ done[i].span = Plan(proc)[i]
    BY <2>1, Writers, PublishesPlan
  <2> QED BY <2>1
<1> QED BY <1>1, StageInvHolds, PTL DEF Spec, PublishedWhole

\* A run the reader asked for publishes only what was heard since:
\* AsrStage!FreshAfterRequest.
THEOREM FreshAfterRequestHolds == Spec => FreshAfterRequest
<1>1. StageInv /\ [Next]_vars => [text' # text /\ job.force => text' = {requests}]_vars
  <2>1. ASSUME StageInv, Next, text' # text, job.force
        PROVE  text' = {requests}
    <3>1. Publish
      BY <2>1, Writers
    <3>2. text' = Hearing
      BY <2>1, <3>1 DEF Publish, Reviewing
    <3>3. CASE ~needs_segmentation
      BY <3>2, <3>3 DEF Hearing
    <3>4. CASE needs_segmentation
      <4>1. DOMAIN Plan(proc) \subseteq Indexes /\ 0 \in DOMAIN Plan(proc)
        BY <2>1, <3>1, Running DEF StageInv, TypeInv, Publish, Assembled
      <4>2. \A i \in DOMAIN Plan(proc) : done[i].heard = requests
        BY <2>1, <3>1, <3>4, PublishesPlan
      <4>3. Hearing = {done[i].heard : i \in DOMAIN Plan(proc)}
        BY <3>4 DEF Hearing
      <4> QED BY <3>2, <4>1, <4>2, <4>3
    <3> QED BY <3>3, <3>4
  <2> QED BY <2>1
<1> QED BY <1>1, StageInvHolds, PTL DEF Spec, FreshAfterRequest

\* A committed window is taken back only by a request, a change of the plan's
\* boundaries or a tap that was overtaken: AsrStage!CommittedWindowKept.
THEOREM CommittedWindowKeptHolds == Spec => CommittedWindowKept
<1>1. StageInv /\ [Next]_vars =>
        [\A i \in Indexes : windows[i].status = "complete" /\ windows'[i] # windows[i] =>
           requests' # requests \/ ~OnPlan(i) \/ (Overtaken /\ taps' < taps)]_vars
  <2>1. ASSUME StageInv, Next, NEW i \in Indexes, windows[i].status = "complete",
               windows'[i] # windows[i]
        PROVE  requests' # requests \/ ~OnPlan(i) \/ (Overtaken /\ taps' < taps)
    <3>1. request_retranscribe => requests' # requests \/ (Overtaken /\ taps' < taps)
      BY <2>1 DEF request_retranscribe, Overtaken, StageInv, TypeInv, TypeOK
    <3> QED BY <2>1, <3>1, CommittedKept
  <2> QED BY <2>1
<1> QED BY <1>1, StageInvHolds, PTL DEF Spec, CommittedWindowKept

-----------------------------------------------------------------------------
(* The page *)

\* The rows there are, are one incarnation's plan from end to end, and a turn
\* under way works on its own; until a tap that came too late takes them away.
OnTable(p) == Blocks = DOMAIN Plan(p) /\ \A i \in Blocks : windows[i].span = Plan(p)[i]
BlockInv ==
  /\ emptied \/ Blocks = {} \/ \E p \in Processes : OnTable(p)
  /\ pc \in {"windows", "checkpoint"} => needs_segmentation
  /\ pc \in {"windows", "call", "checkpoint"} /\ needs_segmentation => emptied \/ OnTable(proc)

\* A stage that is done, or about to be, left something to read.
ReadInv == pc \in {"renew", "complete"} \/ job.state = "done" => text # {} \/ plaud

LEMMA Publishing ==
  ASSUME StageInv, Publish, ~plaud
  PROVE  text' # {}
<1>1. proc # 0 /\ text' = Hearing
  BY DEF Publish, Assembled, Reviewing, StageInv, TypeInv
<1>2. 0 \in DOMAIN Plan(proc)
  BY <1>1, Running DEF StageInv
<1>3. CASE needs_segmentation
  <2>1. done[0].heard \in Hearing
    BY <1>2, <1>3 DEF Hearing
  <2> QED BY <1>1, <2>1
<1>4. CASE ~needs_segmentation
  BY <1>1, <1>4 DEF Hearing
<1> QED BY <1>3, <1>4

LEMMA StepRead == ASSUME StageInv, ReadInv, Next PROVE ReadInv'
<1>1. plaud' = plaud /\ (text' = text \/ Publish)
  <2>1. plaud' = plaud
    BY DEF Next, Work, Start, Release, Recover, Revive, Claim, claim_review, DeclineReview, Transcribe,
           BeginCalls, TakeWindow, Pause, Heard, Checkpoint, CallFails, NothingHeard, Publish, Renew,
           Complete, Defer, Fail, EndTurn, Abort, Crash, Tap, request_retranscribe, Tick
  <2> QED BY <2>1, Writers
<1>2. text # {} \/ plaud => text' # {} \/ plaud'
  BY <1>1, Publishing
<1>3. Publish => text' # {} \/ plaud'
  BY <1>1, Publishing
<1>4. pc' \in {"renew", "complete"} => pc \in {"renew", "complete"} \/ Publish
  <2>1. CASE Start \/ Release \/ Recover \/ Revive \/ Claim \/ claim_review \/ DeclineReview \/ Transcribe
    BY <2>1 DEF Start, Release, Recover, Revive, Claim, claim_review, DeclineReview, Transcribe
  <2>2. CASE BeginCalls \/ TakeWindow \/ Pause \/ Heard \/ Checkpoint \/ CallFails
    BY <2>2 DEF BeginCalls, TakeWindow, Pause, Heard, Checkpoint, CallFails
  <2>3. CASE NothingHeard \/ Publish \/ Renew \/ Complete \/ Defer \/ Fail \/ Abort
    BY <2>3 DEF NothingHeard, Renew, Complete, Defer, Fail, Abort, EndTurn
  <2>4. CASE Crash \/ Tap \/ request_retranscribe \/ Tick
    BY <2>4 DEF Crash, Tap, request_retranscribe, Tick
  <2> QED BY <2>1, <2>2, <2>3, <2>4 DEF Next, Work
<1>5. job'.state = "done" => job.state = "done" \/ pc = "complete"
  <2>0. job \in Jobs
    BY DEF StageInv, TypeInv, TypeOK, Jobs
  <2>1. CASE Start \/ Recover \/ Revive \/ Claim \/ Checkpoint \/ Renew
    BY <2>0, <2>1 DEF Start, Recover, Revive, Claim, Checkpoint, Renew, Freed, Jobs
  <2>2. CASE Complete \/ Defer
    BY <2>0, <2>2 DEF Complete, Defer, Deferred, Outcome, Freed, Jobs
  <2>3. CASE Fail
    BY <2>0, <2>3 DEF Fail, Outcome, Freed, Jobs
  <2>4. CASE request_retranscribe
    BY <2>4 DEF request_retranscribe, NoJob
  <2> QED BY <2>1, <2>2, <2>3, <2>4, Writers
<1> QED BY <1>2, <1>3, <1>4, <1>5 DEF ReadInv

\* A plan is written as a whole, and every later step keeps its boundaries.
LEMMA StepTable ==
  ASSUME StageInv, BlockInv, Next
  PROVE  \/ /\ ~(BeginCalls /\ needs_segmentation) /\ emptied' = emptied
            /\ emptied \/ (Blocks' = Blocks /\ \A i \in Blocks : windows'[i].span = windows[i].span)
         \/ /\ BeginCalls /\ needs_segmentation
            /\ Blocks' = DOMAIN Plan(proc) /\ \A i \in Blocks' : windows'[i].span = Plan(proc)[i]
         \/ request_retranscribe /\ Blocks' = {} /\ emptied' = Open
<1>0. /\ windows \in [Indexes -> SegmentRows] /\ at \in Indexes /\ duration' = duration
      /\ Indexes' = Indexes
  BY Writers DEF StageInv, TypeInv, TypeOK, Indexes
<1>1. ~BeginCalls /\ ~request_retranscribe => emptied' = emptied
  BY Writers
<1>2. ASSUME \A i \in Indexes : /\ windows'[i].status = "absent" <=> windows[i].status = "absent"
                                /\ windows[i].status # "absent" => windows'[i].span = windows[i].span
      PROVE  Blocks' = Blocks /\ \A i \in Blocks : windows'[i].span = windows[i].span
  BY <1>0, <1>2 DEF Blocks
<1>3. ASSUME NEW i \in Blocks, windows'[i].status # "absent", windows'[i].span = windows[i].span,
             \A j \in Indexes : j # i => windows'[j] = windows[j]
      PROVE  Blocks' = Blocks /\ \A j \in Blocks : windows'[j].span = windows[j].span
  BY <1>0, <1>3 DEF Blocks
<1>4. CASE Release
  <2>1. ASSUME NEW w \in SegmentRows
        PROVE  /\ [Freed(w) EXCEPT !.status = "pending"].status = "pending"
               /\ [Freed(w) EXCEPT !.status = "pending"].span = w.span
    BY DEF Freed, SegmentRows
  <2>2. ASSUME NEW i \in Indexes
        PROVE  windows'[i] = windows[i]
               \/ /\ windows[i].status = "processing"
                  /\ windows'[i] = [Freed(windows[i]) EXCEPT !.status = "pending"]
    <3>1. windows' = windows \/ windows' = release_processing_segments
      BY <1>4 DEF Release
    <3> QED BY <3>1 DEF release_processing_segments
  <2>3. ASSUME NEW i \in Indexes
        PROVE  /\ windows'[i].status = "absent" <=> windows[i].status = "absent"
               /\ windows'[i].span = windows[i].span
    <3>1. CASE windows'[i] = windows[i]
      BY <3>1
    <3>2. CASE windows[i].status = "processing"
               /\ windows'[i] = [Freed(windows[i]) EXCEPT !.status = "pending"]
      <4>1. windows[i] \in SegmentRows
        BY <1>0
      <4> QED BY <2>1, <3>2, <4>1
    <3> QED BY <2>2, <3>1, <3>2
  <2>4. ~BeginCalls /\ ~request_retranscribe
    BY <1>4 DEF Release, BeginCalls, request_retranscribe
  <2> QED BY <1>1, <1>2, <2>3, <2>4
<1>5. CASE BeginCalls
  <2>1. CASE ~needs_segmentation
    <3>1. windows' = windows /\ emptied' = emptied
      BY <1>5, <2>1 DEF BeginCalls
    <3> QED BY <1>2, <2>1, <3>1
  <2>2. CASE needs_segmentation
    <3>0. windows' = materialize_plan
      BY <1>5, <2>2 DEF BeginCalls
    <3>1. proc # 0 /\ proc \in Processes
      BY <1>5 DEF BeginCalls, StageInv, TypeInv, TypeOK, Processes
    <3>2. DOMAIN Plan(proc) \subseteq Indexes
      BY <3>1, Running DEF StageInv
    <3>3. NoWindow.status = "absent"
          /\ \A span : Pending(span).status = "pending" /\ Pending(span).span = span
      BY DEF NoWindow, Pending
    <3>4. ASSUME NEW i \in Indexes
          PROVE  /\ windows'[i].status = "absent" <=> i \notin DOMAIN Plan(proc)
                 /\ i \in DOMAIN Plan(proc) => windows'[i].span = Plan(proc)[i]
      <4>1. windows'[i] = IF i \notin DOMAIN Plan(proc) THEN NoWindow
                          ELSE IF Kept(i) THEN windows[i] ELSE Pending(Plan(proc)[i])
        BY <3>0 DEF materialize_plan
      <4>2. Kept(i) => windows[i].status # "absent" /\ windows[i].span = Plan(proc)[i]
        BY DEF Kept, done_segments, OnPlan
      <4> QED BY <3>3, <4>1, <4>2
    <3>5. Blocks' = DOMAIN Plan(proc)
      BY <1>0, <3>2, <3>4 DEF Blocks
    <3>6. \A i \in Blocks' : windows'[i].span = Plan(proc)[i]
      BY <3>2, <3>4, <3>5
    <3> QED BY <1>5, <2>2, <3>5, <3>6
  <2> QED BY <2>1, <2>2
<1>6. CASE TakeWindow
  <2>1. PICK i \in Owed :
          /\ claim_segment(i)
          /\ windows' = [windows EXCEPT ![i] = [@ EXCEPT !.status = "processing",
                           !.owner = Me, !.epoch = clock, !.span = Plan(proc)[i]]]
    BY <1>6 DEF TakeWindow
  <2>2. /\ pc = "windows" /\ needs_segmentation /\ proc # 0
        /\ ~BeginCalls /\ emptied' = emptied
    BY <1>6 DEF TakeWindow, asked, BeginCalls, BlockInv, StageInv, TypeInv
  <2>3. i \in Indexes
    BY <2>2, Running DEF Owed, StageInv
  <2>4. i \in Blocks /\ (emptied \/ windows[i].span = Plan(proc)[i])
    BY <2>1, <2>2, <2>3 DEF claim_segment, Blocks, BlockInv, OnTable
  <2>5. windows'[i].status = "processing" /\ windows'[i].span = Plan(proc)[i]
        /\ \A j \in Indexes : j # i => windows'[j] = windows[j]
    BY <1>0, <2>1, <2>3 DEF SegmentRows
  <2>6. emptied \/ (Blocks' = Blocks /\ \A j \in Blocks : windows'[j].span = windows[j].span)
    BY <1>3, <2>4, <2>5
  <2> QED BY <2>2, <2>6
<1>7. CASE Heard \/ CallFails
  <2>1. pc = "call" /\ ~BeginCalls /\ emptied' = emptied
    BY <1>7 DEF Heard, CallFails, asked, BeginCalls
  <2>2. CASE windows' = windows
    BY <1>2, <2>1, <2>2
  <2>3. CASE windows' # windows
    <3>1. /\ needs_segmentation /\ at \in DOMAIN Plan(proc)
          /\ \A j \in Indexes : j # at => windows'[j] = windows[j]
          /\ windows'[at].span = Plan(proc)[at]
          /\ windows'[at].status # "absent"
      BY <1>7, <2>3, CallWrites
    <3>2. emptied \/ (at \in Blocks /\ windows[at].span = Plan(proc)[at])
      BY <2>1, <3>1 DEF BlockInv, OnTable
    <3>3. emptied \/ (Blocks' = Blocks /\ \A j \in Blocks : windows'[j].span = windows[j].span)
      BY <1>3, <3>1, <3>2
    <3> QED BY <2>1, <3>3
  <2> QED BY <2>2, <2>3
<1>8. CASE request_retranscribe
  BY <1>0, <1>8 DEF request_retranscribe, Cleared, NoWindow, Blocks
<1>9. CASE windows' = windows /\ ~BeginCalls /\ ~request_retranscribe
  BY <1>1, <1>2, <1>9
<1> QED BY <1>4, <1>5, <1>6, <1>7, <1>8, <1>9, Writers

LEMMA StepBlocks == ASSUME StageInv, BlockInv, Next PROVE BlockInv'
<1>0. duration' = duration /\ pc \in Points
  BY Writers DEF StageInv, TypeInv
<1>1. \A p : Plan(p)' = Plan(p) /\ (DOMAIN Plan(p))' = DOMAIN Plan(p)
  BY <1>0 DEF Plan
<1>2. needs_segmentation' = needs_segmentation
  BY <1>0 DEF needs_segmentation
<1>3. ASSUME NEW p, OnTable(p), ~(BeginCalls /\ needs_segmentation), ~request_retranscribe
      PROVE  /\ emptied' = emptied
             /\ \/ emptied
                \/ Blocks' = DOMAIN Plan(p) /\ \A i \in Blocks' : windows'[i].span = Plan(p)[i]
  BY <1>3, StepTable DEF OnTable
<1>4. \/ emptied'
      \/ Blocks' = {}
      \/ \E p \in Processes : /\ Blocks' = DOMAIN Plan(p)
                               /\ \A i \in Blocks' : windows'[i].span = Plan(p)[i]
  <2>1. BeginCalls => proc \in Processes
    BY DEF BeginCalls, StageInv, TypeInv, TypeOK, Processes
  <2>2. CASE BeginCalls /\ needs_segmentation
    <3>1. CASE request_retranscribe
      BY <3>1, <2>2 DEF BeginCalls, request_retranscribe
    <3>2. CASE ~request_retranscribe
      BY <2>1, <2>2, <3>2, StepTable
    <3> QED BY <3>1, <3>2
  <2>3. CASE request_retranscribe
    <3>1. Indexes' = Indexes
      BY <1>0 DEF Indexes
    <3> QED BY <2>3, <3>1 DEF request_retranscribe, Cleared, NoWindow, Blocks
  <2>4. CASE ~(BeginCalls /\ needs_segmentation) /\ ~request_retranscribe
    <3>1. CASE emptied \/ Blocks = {}
      BY <2>4, <3>1, StepTable
    <3>2. CASE \E p \in Processes : OnTable(p)
      BY <1>3, <2>4, <3>2
    <3> QED BY <3>1, <3>2 DEF BlockInv
  <2> QED BY <2>2, <2>3, <2>4
<1>5. ASSUME pc' \in {"windows", "call", "checkpoint"}
      PROVE  /\ pc' \in {"windows", "checkpoint"} => needs_segmentation
             /\ needs_segmentation => /\ proc' = proc
                                      /\ \/ emptied'
                                         \/ /\ Blocks' = DOMAIN Plan(proc)
                                            /\ \A i \in Blocks' : windows'[i].span = Plan(proc)[i]
  <2>1. ~(Start \/ Release \/ Recover \/ Revive \/ Claim \/ claim_review \/ DeclineReview \/ Transcribe)
    BY <1>0, <1>5 DEF Start, Release, Recover, Revive, Claim, claim_review, DeclineReview, Transcribe,
       StageInv, TypeInv, Points
  <2>2. ~(Pause \/ CallFails \/ NothingHeard \/ Publish \/ Renew)
    BY <1>5 DEF Pause, CallFails, NothingHeard, Publish, Renew
  <2>3. ~(Complete \/ Defer \/ Fail \/ Abort \/ Crash)
    BY <1>5 DEF Complete, Defer, Fail, Abort, EndTurn, Crash
  <2>4. CASE request_retranscribe
    <3>1. pc' = pc /\ proc' = proc /\ emptied' = Open
      BY <2>4 DEF request_retranscribe
    <3>2. Open
      BY <1>5, <3>1 DEF StageInv, AttemptInv, InTurn, Points, Open
    <3> QED BY <1>5, <3>1, <3>2 DEF BlockInv
  <2>5. CASE BeginCalls
    <3>1. ~request_retranscribe
      BY <2>5 DEF BeginCalls, request_retranscribe
    <3>2. pc' \in {"windows", "checkpoint"} => needs_segmentation
      BY <2>5 DEF BeginCalls
    <3>3. proc' = proc
      BY <2>5 DEF BeginCalls
    <3> QED BY <2>5, <3>1, <3>2, <3>3, StepTable
  <2>6. CASE TakeWindow \/ Heard \/ Checkpoint \/ Tap \/ Tick
    <3>0. pc \in {"windows", "call", "checkpoint"} /\ proc' = proc /\ ~BeginCalls
      BY <1>5, <2>6 DEF TakeWindow, Heard, Checkpoint, Tap, Tick, BeginCalls
    <3>5. taps' \in {taps, taps + 1} /\ taps \in Nat
      BY <2>6 DEF TakeWindow, Heard, Checkpoint, Tap, Tick, asked, StageInv, TypeInv, TypeOK
    <3>6. ~request_retranscribe
      BY <3>5 DEF request_retranscribe
    <3>1. pc \in {"windows", "call", "checkpoint"} /\ proc' = proc /\ ~BeginCalls
          /\ ~request_retranscribe
      BY <3>0, <3>6
    <3>2. pc' \in {"windows", "checkpoint"} => needs_segmentation
      BY <1>5, <2>6 DEF TakeWindow, Heard, Checkpoint, Tap, Tick, BlockInv
    <3>3. needs_segmentation => emptied \/ OnTable(proc)
      BY <3>1 DEF BlockInv
    <3>4. emptied => emptied'
      BY <3>1, Writers
    <3> QED BY <1>3, <3>1, <3>2, <3>3, <3>4
  <2> QED BY <2>1, <2>2, <2>3, <2>4, <2>5, <2>6 DEF Next, Work
<1>6. \A p : OnTable(p)' <=> /\ Blocks' = DOMAIN Plan(p)
                             /\ \A i \in Blocks' : windows'[i].span = Plan(p)[i]
  BY <1>1 DEF OnTable
<1>7. pc' \in {"windows", "call", "checkpoint"} /\ needs_segmentation' => emptied' \/ OnTable(proc)'
  BY <1>0, <1>2, <1>5 DEF OnTable, Plan
<1> QED BY <1>2, <1>4, <1>5, <1>6, <1>7 DEF BlockInv

LEMMA TableTiles ==
  ASSUME StageInv, NEW p \in Processes, OnTable(p)
  PROVE  Tiled
<1>1. p \in Processes /\ duration \in Nat \ {0} /\ MinSec \in Nat \ {0}
      /\ Chunk[p] \in Nat \ {0} /\ MaxSegment \in Nat \ {0}
  BY AsrAssumption DEF StageInv, TypeInv
<1> DEFINE size == WindowSize(Chunk[p], MaxSegment)
           last == Planned(duration, size, MinSec) - 1
<1>2. size \in Nat \ {0}
  BY <1>1 DEF WindowSize, Greater, Lesser
<1>3. Plan(p) = plan_segments(duration, size, MinSec)
  BY DEF Plan
<1> HIDE DEF size
<1>4. last \in Nat /\ Plan(p) \in [0 .. last -> [start : Nat, duration : Nat]]
  <2>1. Planned(duration, size, MinSec) \in 1 .. duration
    BY <1>1, <1>2, PlanShape
  <2>2. plan_segments(duration, size, MinSec) \in [0 .. last -> [start : Nat, duration : Nat]]
    BY <1>1, <1>2, PlanShape
  <2> QED BY <1>1, <1>3, <2>1, <2>2
<1>5. /\ Plan(p)[0].start = 0
      /\ \A i \in 0 .. last - 1 : Plan(p)[i + 1].start = Plan(p)[i].start + Plan(p)[i].duration
      /\ Plan(p)[last].start + Plan(p)[last].duration = duration
  BY <1>1, <1>2, <1>3, PlanTiles
<1> HIDE DEF last
<1>6. Blocks = 0 .. last /\ \A i \in Blocks : windows[i].span = Plan(p)[i]
  BY <1>4 DEF OnTable
<1> SUFFICES ASSUME NEW i \in Blocks
             PROVE  /\ IF i = 0 THEN windows[i].span.start = 0
                       ELSE i - 1 \in Blocks /\ windows[i].span.start = End(i - 1)
                    /\ i + 1 \notin Blocks => End(i) = duration
  BY DEF Tiled
<1>7. i \in 0 .. last /\ End(i) = Plan(p)[i].start + Plan(p)[i].duration
  BY <1>6 DEF End
<1>8. CASE i = 0
  BY <1>4, <1>5, <1>6, <1>7, <1>8
<1>9. CASE i # 0
  <2>1. i - 1 \in 0 .. last - 1 /\ i - 1 \in Blocks /\ (i - 1) + 1 = i
    BY <1>4, <1>6, <1>7, <1>9
  <2>2. End(i - 1) = Plan(p)[i - 1].start + Plan(p)[i - 1].duration
    BY <1>6, <2>1 DEF End
  <2>3. windows[i].span.start = End(i - 1)
    BY <1>5, <1>6, <2>1, <2>2
  <2>4. i + 1 \notin Blocks => i = last
    BY <1>4, <1>6, <1>7
  <2> QED BY <1>5, <1>7, <1>9, <2>1, <2>3, <2>4
<1> QED BY <1>8, <1>9

LEMMA InitPage == Init => BlockInv /\ ReadInv
<1> SUFFICES ASSUME Init PROVE BlockInv /\ ReadInv
  OBVIOUS
<1>1. Blocks = {}
  BY DEF Init, Blocks, NoWindow
<1> QED BY <1>1 DEF Init, BlockInv, ReadInv, NoJob

\* "completed" is said of a job that is done.
LEMMA CompletedIsDone == _pipeline_status.state = "completed" => job.state = "done"
<1> DEFINE jobs == [s \in Stages |-> IF s = "asr" THEN job.state ELSE "absent"]
           open == {s \in Stages : jobs[s] \in {"queued", "processing", "retry_wait"}}
<1>1. _pipeline_status.state = IF project(jobs) = "done" THEN "completed" ELSE project(jobs)
  BY DEF _pipeline_status, _pipeline_jobs
<1>2. CASE job.state \in {"queued", "processing", "retry_wait"}
  <2>1. open = {"asr"}
    BY <1>2 DEF Stages
  <2>2. Earlier("asr") \cap open = {}
    BY DEF Earlier
  <2>3. (CHOOSE s \in open : Earlier(s) \cap open = {}) = "asr"
    BY <2>1, <2>2
  <2>4. ~\E s \in Stages : jobs[s] = "failed"
    BY <1>2 DEF Stages
  <2>5. project(jobs) = job.state
    BY <2>1, <2>3, <2>4 DEF project, Stages
  <2> QED BY <1>1, <1>2, <2>5
<1>3. CASE job.state \notin {"queued", "processing", "retry_wait"}
  <2>1. open = {} /\ jobs["asr"] = job.state
    BY <1>3 DEF Stages
  <2>2. project(jobs) = IF \E s \in Stages : jobs[s] = "failed" THEN "failed"
                        ELSE IF job.state = "done" THEN "done" ELSE "queued"
    BY <2>1 DEF project
  <2> QED BY <1>1, <2>2
<1> QED BY <1>2, <1>3

\* A page never says "completed" over nothing to read, and counts no badge
\* over windows that are not the whole recording, unless a tap that came too
\* late took them: AsrProgress!PageHonest.
THEOREM PageHonestHolds == Spec => []PageHonest
<1>1. StageInv /\ BlockInv /\ ReadInv /\ [Next]_vars => BlockInv' /\ ReadInv'
  <2> SUFFICES ASSUME StageInv, BlockInv, ReadInv, UNCHANGED vars PROVE BlockInv' /\ ReadInv'
    BY StepBlocks, StepRead
  <2>1. UNCHANGED <<duration, plaud, job, windows, text, proc, pc, emptied>>
    BY DEF vars, rows, asked
  <2>2. Indexes' = Indexes /\ needs_segmentation' = needs_segmentation /\ \A p : Plan(p)' = Plan(p)
    BY <2>1 DEF Indexes, needs_segmentation, Plan
  <2>3. Blocks' = Blocks /\ (\A p \in Processes : OnTable(p)' = OnTable(p))
        /\ OnTable(proc)' = OnTable(proc)
    BY <2>1, <2>2 DEF Blocks, OnTable
  <2> QED BY <2>1, <2>2, <2>3 DEF BlockInv, ReadInv
<1>2. StageInv /\ BlockInv /\ ReadInv => PageHonest
  <2> SUFFICES ASSUME StageInv, BlockInv, ReadInv PROVE PageHonest
    OBVIOUS
  <2>1. _pipeline_status.state = "completed" => _pipeline_status.source # "none"
    BY CompletedIsDone DEF ReadInv, _pipeline_status, displayed
  <2>2. progress_for # Nothing => Blocks # {}
    BY DEF progress_for, progress_map
  <2>3. Blocks # {} /\ ~emptied => Tiled
    BY TableTiles DEF BlockInv
  <2> QED BY <2>1, <2>2, <2>3 DEF PageHonest
<1> QED BY <1>1, <1>2, InitPage, StageInvHolds, PTL DEF Spec

-----------------------------------------------------------------------------
(* The choice of a review *)

CountedTexts == {t \in [chars : Nat, junk : Nat, words : Nat, dominant : Nat] : CountsFit(t)}

LEMMA TimesGrows ==
  ASSUME NEW a \in Nat, NEW b \in Nat, NEW k \in Nat, a <= b
  PROVE  a * k \in Nat /\ b * k \in Nat /\ a * k <= b * k
OBVIOUS

LEMMA Division ==
  ASSUME NEW x \in Nat, NEW y \in Nat \ {0}
  PROVE  /\ x \div y \in Nat
         /\ \A k \in Nat : x < y * (k + 1) => x \div y <= k
         /\ \A z \in Nat : x <= z => x \div y <= z \div y
OBVIOUS

LEMMA ThresholdsAre ==
  TruncationTenths \in Nat /\ TruncationTenths <= 10 /\ Margin \in Nat \ {0}
<1>1. TruncationTenths \in 0 .. 10 /\ Margin \in 1 .. 10000
  BY ReviewAssumption
<1> QED
  BY <1>1

\* The three signals in one denominator, the weights kept apart.
Legible(t) == Excess(t.chars, t.junk) * (t.words * SubstantialWords)
Varied(t)  == Excess(t.words, LoopShare * t.dominant) * (t.chars * SubstantialWords)
Substance(t) == Below(t.words, SubstantialWords) * (t.chars * t.words)
Parts(t) == 4000 * Legible(t) + 2500 * Varied(t) + 3500 * Substance(t)
Whole(t) == t.chars * (t.words * SubstantialWords)

LEMMA PartsAre ==
  ASSUME NEW t \in CountedTexts, t.words # 0
  PROVE  /\ Legible(t) \in Nat /\ Legible(t) <= Whole(t)
         /\ Varied(t) \in Nat /\ Varied(t) <= Whole(t)
         /\ Substance(t) \in Nat /\ Substance(t) <= Whole(t)
         /\ Whole(t) \in Nat \ {0}
<1> DEFINE c == t.chars
           w == t.words
           S == SubstantialWords
<1>1. /\ c \in Nat \ {0} /\ w \in Nat \ {0} /\ S \in Nat \ {0}
      /\ t.junk \in Nat /\ t.dominant \in Nat /\ LoopShare \in Nat
  BY ReviewAssumption DEF CountedTexts, CountsFit
<1>2. /\ Excess(c, t.junk) \in Nat /\ Excess(c, t.junk) <= c
      /\ Below(w, S) \in Nat /\ Below(w, S) <= S
  BY <1>1 DEF Excess, Below
<1>3. LoopShare * t.dominant \in Nat
  BY <1>1
<1>4. Excess(w, LoopShare * t.dominant) \in Nat /\ Excess(w, LoopShare * t.dominant) <= w
  BY <1>1, <1>3 DEF Excess
<1> DEFINE e == Excess(c, t.junk)
           v == Excess(w, LoopShare * t.dominant)
           b == Below(w, S)
<1>5. w * S \in Nat \ {0} /\ c * S \in Nat /\ c * w \in Nat /\ c * (w * S) \in Nat \ {0}
  BY <1>1
<1>6. /\ w * (c * S) = c * (w * S) /\ S * (c * w) = c * (w * S)
  BY <1>1
<1>7. Legible(t) = e * (w * S) /\ Varied(t) = v * (c * S) /\ Substance(t) = b * (c * w)
      /\ Whole(t) = c * (w * S)
  BY DEF Legible, Varied, Substance, Whole
<1> HIDE DEF e, v, b, c, w, S
<1>8. e \in Nat /\ e <= c /\ v \in Nat /\ v <= w /\ b \in Nat /\ b <= S
  BY <1>2, <1>4 DEF e, v, b, c, w, S
<1>9. e * (w * S) \in Nat /\ e * (w * S) <= c * (w * S)
  BY <1>1, <1>5, <1>8, TimesGrows
<1>10. v * (c * S) \in Nat /\ v * (c * S) <= w * (c * S)
  BY <1>1, <1>5, <1>8, TimesGrows
<1>11. b * (c * w) \in Nat /\ b * (c * w) <= S * (c * w)
  BY <1>1, <1>5, <1>8, TimesGrows
<1> QED
  BY <1>5, <1>6, <1>7, <1>9, <1>10, <1>11

LEMMA ScoreIs ==
  ASSUME NEW t \in CountedTexts
  PROVE  quality_score(t) = IF t.words = 0 THEN 0
                            ELSE (2 * Parts(t) + Whole(t)) \div (2 * Whole(t))
<1> DEFINE c == t.chars
           w == t.words
           S == SubstantialWords
           e == Excess(c, t.junk)
           v == Excess(w, LoopShare * t.dominant)
           b == Below(w, S)
<1>1. /\ c \in Nat /\ w \in Nat /\ S \in Nat /\ t.junk \in Nat /\ t.dominant \in Nat
      /\ LoopShare \in Nat
  BY ReviewAssumption DEF CountedTexts
<1>2. LoopShare * t.dominant \in Nat
  BY <1>1
<1>3. e \in Nat /\ v \in Nat /\ b \in Nat
  BY <1>1, <1>2 DEF Excess, Below
<1>4. quality_score(t) = IF w = 0 THEN 0
        ELSE (2 * (4000 * e * w * S + 2500 * v * c * S + 3500 * b * c * w) + c * w * S)
               \div (2 * (c * w * S))
  BY DEF quality_score
<1>5. Parts(t) = 4000 * (e * (w * S)) + 2500 * (v * (c * S)) + 3500 * (b * (c * w))
      /\ Whole(t) = c * (w * S)
  BY DEF Parts, Legible, Varied, Substance, Whole
<1> HIDE DEF e, v, b, c, S
<1>6. /\ 4000 * e * w * S = 4000 * (e * (w * S)) /\ 2500 * v * c * S = 2500 * (v * (c * S))
      /\ 3500 * b * c * w = 3500 * (b * (c * w)) /\ c * w * S = c * (w * S)
  BY <1>1, <1>3
<1> QED
  BY <1>4, <1>5, <1>6

\* A score is a share of ten thousand.
LEMMA ScoreInRange ==
  ASSUME NEW t \in CountedTexts
  PROVE  quality_score(t) \in 0 .. 10000
<1> DEFINE InRange == quality_score(t) \in 0 .. 10000
<1> SUFFICES InRange
  OBVIOUS
<1>1. ASSUME t.words = 0 PROVE InRange
  BY <1>1, ScoreIs
<1>2. ASSUME t.words # 0 PROVE InRange
  <2>1. Parts(t) \in Nat /\ Whole(t) \in Nat \ {0} /\ Parts(t) <= 10000 * Whole(t)
    BY <1>2, PartsAre DEF Parts
  <2> DEFINE x == 2 * Parts(t) + Whole(t)
             y == 2 * Whole(t)
  <2>2. x \in Nat /\ y \in Nat \ {0} /\ x < y * (10000 + 1)
    BY <2>1
  <2> DEFINE r == x \div y
  <2>3. quality_score(t) = r
    BY <1>2, ScoreIs
  <2> HIDE DEF x, y
  <2>4. r \in Nat /\ r <= 10000
    BY <2>2, Division
  <2> HIDE DEF r
  <2> QED
    BY <2>3, <2>4
<1> HIDE DEF InRange
<1> QED
  BY <1>1, <1>2

LEMMA ScoreNatural ==
  ASSUME NEW t \in CountedTexts
  PROVE  quality_score(t) \in Nat
<1> DEFINE s == quality_score(t)
<1>1. s \in 0 .. 10000
  BY ScoreInRange
<1> HIDE DEF s
<1>2. s \in Nat
  BY <1>1
<1> QED
  BY <1>2 DEF s

\* Junk and repetition never raise it.
LEMMA ScoreFalls ==
  ASSUME NEW t \in CountedTexts, NEW u \in CountedTexts,
         t.chars = u.chars, t.words = u.words, t.junk <= u.junk, t.dominant <= u.dominant
  PROVE  quality_score(t) >= quality_score(u)
<1>1. CASE t.words = 0
  <2>1. quality_score(t) = 0 /\ quality_score(u) = 0
    BY <1>1, ScoreIs
  <2> QED
    BY <2>1
<1>2. CASE t.words # 0
  <2>0. /\ t.chars \in Nat /\ t.words \in Nat /\ SubstantialWords \in Nat /\ LoopShare \in Nat
        /\ t.junk \in Nat /\ u.junk \in Nat /\ t.dominant \in Nat /\ u.dominant \in Nat
    BY ReviewAssumption DEF CountedTexts
  <2> DEFINE p == LoopShare * t.dominant
             q == LoopShare * u.dominant
  <2>1. p \in Nat /\ q \in Nat /\ p <= q
    BY <2>0
  <2>2. /\ Excess(u.chars, u.junk) \in Nat /\ Excess(t.chars, t.junk) \in Nat
        /\ Excess(u.chars, u.junk) <= Excess(t.chars, t.junk)
    BY <2>0 DEF Excess
  <2> HIDE DEF p, q
  <2>3. /\ Excess(u.words, q) \in Nat /\ Excess(t.words, p) \in Nat
        /\ Excess(u.words, q) <= Excess(t.words, p)
    BY <2>0, <2>1 DEF Excess
  <2>4. t.words * SubstantialWords \in Nat /\ t.chars * SubstantialWords \in Nat
    BY <2>0
  <2>5. Legible(u) <= Legible(t)
    BY <2>2, <2>4, TimesGrows DEF Legible
  <2>6. Varied(u) <= Varied(t)
    BY <2>3, <2>4, TimesGrows DEF Varied, p, q
  <2>7. Substance(u) = Substance(t) /\ Whole(u) = Whole(t)
    BY DEF Substance, Whole
  <2>8. /\ Parts(u) \in Nat /\ Parts(t) \in Nat /\ Parts(u) <= Parts(t)
        /\ Whole(t) \in Nat \ {0}
    BY <1>2, <2>5, <2>6, <2>7, PartsAre DEF Parts
  <2> DEFINE x == 2 * Parts(u) + Whole(t)
             z == 2 * Parts(t) + Whole(t)
             y == 2 * Whole(t)
  <2>9. x \in Nat /\ z \in Nat /\ y \in Nat \ {0} /\ x <= z
    BY <2>8
  <2>10. quality_score(u) = x \div y /\ quality_score(t) = z \div y
    BY <1>2, <2>7, ScoreIs
  <2> HIDE DEF x, y, z
  <2>11. x \div y <= z \div y /\ x \div y \in Nat /\ z \div y \in Nat
    BY <2>9, Division
  <2> QED
    BY <2>10, <2>11
<1> QED
  BY <1>1, <1>2

\* quality_score of every text, the runs' samples only a few of them: a share of
\* the whole, which junk or a word said again never raises.
THEOREM ScoresAgreeHolds == ScoresAgree(CountedTexts)
<1>1. ASSUME NEW t \in CountedTexts
      PROVE  quality_score(t) \in 0 .. 10000
  BY <1>1, ScoreInRange
<1>2. ASSUME NEW t \in CountedTexts, NEW u \in CountedTexts,
             t.chars = u.chars, t.words = u.words, t.junk <= u.junk, t.dominant <= u.dominant
      PROVE  quality_score(t) >= quality_score(u)
  BY <1>2, ScoreFalls
<1> QED
  BY <1>1, <1>2 DEF ScoresAgree

\* review_verdict of every three texts: what a reader reads gives way only to a
\* text with words that scores no worse, never to one with a window in dispute.
THEOREM VerdictEarnedHolds == VerdictEarned(CountedTexts)
<1> SUFFICES ASSUME NEW theirs \in CountedTexts, NEW ours \in CountedTexts,
                    NEW other \in CountedTexts, NEW unresolved \in BOOLEAN
    PROVE  LET v == review_verdict(theirs, ours, other, unresolved)
               taken == IF v.selected = "local" THEN ours ELSE other
           IN  /\ unresolved => v.selected # "local-alternative"
               /\ ours = Empty /\ other = Empty => v.selected = "plaud"
               /\ v.selected # "plaud" =>
                    /\ taken.chars > 0 /\ quality_score(taken) >= quality_score(theirs)
                    /\ taken.chars = theirs.chars => quality_score(taken) > quality_score(theirs)
  BY DEF VerdictEarned
<1> DEFINE p == score_candidate("plaud", theirs)
           l == score_candidate("local", ours)
           o == score_candidate("local-alternative", other)
           ch == IF unresolved \/ Better(l, o) THEN l ELSE o
           v == review_verdict(theirs, ours, other, unresolved)
           taken == IF v.selected = "local" THEN ours ELSE other
<1>1. /\ theirs.chars \in Nat /\ ours.chars \in Nat /\ other.chars \in Nat
      /\ quality_score(theirs) \in Nat /\ quality_score(ours) \in Nat
      /\ quality_score(other) \in Nat
  BY ScoreNatural DEF CountedTexts
<1>2. /\ p.source = "plaud" /\ p.chars = theirs.chars /\ p.score = quality_score(theirs)
      /\ l.source = "local" /\ l.chars = ours.chars /\ l.score = quality_score(ours)
      /\ o.source = "local-alternative" /\ o.chars = other.chars
      /\ o.score = quality_score(other)
  BY DEF score_candidate
<1>3. /\ v.selected \in {"plaud", ch.source}
      /\ v.selected # "plaud" =>
           /\ ch.chars # 0
           /\ \/ p.chars = 0
              \/ ch.score >= p.score + Margin
              \/ 10 * p.chars < TruncationTenths * ch.chars /\ ch.score >= p.score
  BY DEF review_verdict
<1> HIDE DEF v, p, l, o
<1>4. /\ v.selected # "plaud" =>
           ch.chars = taken.chars /\ ch.score = quality_score(taken)
      /\ unresolved => v.selected # "local-alternative"
  BY <1>2, <1>3
<1>5. ours = Empty /\ other = Empty => v.selected = "plaud"
  BY <1>2, <1>3 DEF Empty
<1>6. ASSUME v.selected # "plaud"
      PROVE  /\ taken.chars > 0 /\ quality_score(taken) >= quality_score(theirs)
             /\ taken.chars = theirs.chars => quality_score(taken) > quality_score(theirs)
  <2>1. /\ taken.chars \in Nat \ {0} /\ quality_score(taken) \in Nat
        /\ \/ theirs.chars = 0
           \/ quality_score(taken) >= quality_score(theirs) + Margin
           \/ /\ 10 * theirs.chars < TruncationTenths * taken.chars
              /\ quality_score(taken) >= quality_score(theirs)
    BY <1>1, <1>2, <1>3, <1>4, <1>6
  <2>2. theirs.chars = 0 => quality_score(theirs) = 0
    BY ScoreIs DEF CountedTexts, CountsFit
  <2>3. TruncationTenths \in Nat /\ TruncationTenths <= 10 /\ Margin \in Nat \ {0}
    BY ThresholdsAre
  <2>4. TruncationTenths * taken.chars \in Nat /\ TruncationTenths * taken.chars <= 10 * taken.chars
    BY <2>1, <2>3, TimesGrows
  <2> QED
    BY <1>1, <2>1, <2>2, <2>3, <2>4
<1> QED
  BY <1>4, <1>5, <1>6 DEF v
=============================================================================
