------------------------ MODULE PipelineQueueProofs ------------------------
(***************************************************************************)
(* Theorems about PipelineQueue for every number of recordings, workers,   *)
(* hosts and every value of the budgets and the lease; and, at the end,    *)
(* about ConnectorLoop, the main loop that drains the queue.               *)
(***************************************************************************)
EXTENDS PipelineQueue, ConnectorLoop, FiniteSetTheorems, TLAPS

(* Rows *)

LEMMA RowsTyped ==
  /\ NoRow \in Row
  /\ \A n \in Nat, b \in BOOLEAN : NewRow(n, b) \in Row
  /\ \A row \in Row, b \in BOOLEAN : Requeued(row, b) \in Row
  /\ \A row \in Row, s \in States : Released(row, s) \in Row
  /\ \A row \in Row : Revived(row) \in Row
<1> USE DEF Row, States, OPEN_STATES, Absent
<1>1. NoRow \in Row
  BY DEF NoRow
<1>2. ASSUME NEW n \in Nat, NEW b \in BOOLEAN
      PROVE  NewRow(n, b) \in Row
  BY DEF NewRow, NoRow
<1>3. ASSUME NEW row \in Row, NEW b \in BOOLEAN
      PROVE  Requeued(row, b) \in Row
  BY DEF Requeued
<1>4. ASSUME NEW row \in Row, NEW s \in States
      PROVE  Released(row, s) \in Row
  BY DEF Released
<1>5. ASSUME NEW row \in Row
      PROVE  Revived(row) \in Row
  <2>1. ASSUME NEW q \in Row
        PROVE  [q EXCEPT !.tools = 0, !.revivals = @ + 1] \in Row
    <3>1. q.revivals + 1 \in Nat
      OBVIOUS
    <3>2. \A n \in Nat : [q EXCEPT !.tools = 0, !.revivals = n] \in Row
      OBVIOUS
    <3> QED BY <3>1, <3>2
  <2>2. Requeued(row, row.replace) \in Row
    BY <1>3
  <2> QED BY <2>1, <2>2, Zenon DEF Revived
<1> QED BY <1>1, <1>2, <1>3, <1>4, <1>5

LEMMA ClaimedTyped ==
  ASSUME NEW row \in Row, NEW w \in Workers, NEW at \in Nat
  PROVE  Claimed(row, w, at) \in Row
BY QueueAssumption DEF Claimed, Row, States, OPEN_STATES

LEMMA EpochTyped ==
  ASSUME NEW row \in Row, NEW n \in Nat
  PROVE  [row EXCEPT !.epoch = n] \in Row
BY DEF Row

LEMMA FailureTyped ==
  ASSUME NEW row \in Row, NEW kind \in {"transient", "strike", "tool"}
  PROVE  /\ Failure(row, kind).state \in {"failed", "retry_wait"}
         /\ Failure(row, kind).attempts \in Nat
         /\ Failure(row, kind).tools \in Nat
BY DEF Failure, Row

\* A recovery pass leaves rows, each either as it was or back in the queue.
LEMMA RecoveredTyped ==
  ASSUME jobs \in [Jobs -> Row], NEW ks
  PROVE  /\ Recovered(ks) \in [Jobs -> Row]
         /\ \A k \in Jobs : Recovered(ks)[k] = jobs[k] \/ Recovered(ks)[k].state = "queued"
<1>1. \A k \in Jobs : jobs[k] \in Row /\ Released(jobs[k], "queued") \in Row
  BY RowsTyped DEF States, OPEN_STATES
<1>2. \A k \in Jobs : Released(jobs[k], "queued").state = "queued"
  BY <1>1 DEF Released, Row
<1> QED
  BY <1>1, <1>2 DEF Recovered

LEMMA JobsFinite == IsFiniteSet(Jobs)
<1>1. IsFiniteSet(Stages)
  <2> DEFINE A == {"asr"} \cup {"diarization"}
             B == A \cup {"summary"}
             C == B \cup {"summary_en"}
             D == C \cup {"mindmap"}
             E == D \cup {"card"}
  <2>1. IsFiniteSet(A)
    BY FS_Singleton, FS_AddElement
  <2>2. IsFiniteSet(B)
    <3> HIDE DEF A
    <3> QED BY <2>1, FS_AddElement
  <2>3. IsFiniteSet(C)
    <3> HIDE DEF B
    <3> QED BY <2>2, FS_AddElement
  <2>4. IsFiniteSet(D)
    <3> HIDE DEF C
    <3> QED BY <2>3, FS_AddElement
  <2>5. IsFiniteSet(E)
    <3> HIDE DEF D
    <3> QED BY <2>4, FS_AddElement
  <2>6. E = Stages
    BY DEF Stages
  <2> QED BY <2>5, <2>6
<1> QED BY <1>1, FS_Product, QueueAssumption DEF Jobs

-----------------------------------------------------------------------------
(* Types *)

LEMMA InitTyped == Init => QueueTypeOK
<1> SUFFICES ASSUME Init PROVE QueueTypeOK
  OBVIOUS
<1>1. NoRow \in Row
  BY RowsTyped
<1> QED BY <1>1 DEF Init, QueueTypeOK, Nothing, NoJob

LEMMA EnqueueTyped ==
  ASSUME QueueTypeOK, NEW k \in Jobs, Enqueue(k)
  PROVE  jobs' \in [Jobs -> Row] /\ nextSeq' \in Nat \ {0}
<1> DEFINE row == NewRow(nextSeq, FALSE)
<1>1. row \in Row
  BY RowsTyped DEF QueueTypeOK
<1>2. CASE jobs[k].state = Absent
  <2>1. jobs' = [jobs EXCEPT ![k] = row] /\ nextSeq' = nextSeq + 1
    BY <1>2, Zenon DEF Enqueue
  <2> HIDE DEF row
  <2> QED BY <1>1, <2>1 DEF QueueTypeOK
<1>3. CASE jobs[k].state # Absent
  <2>1. jobs' = jobs /\ nextSeq' = nextSeq
    BY <1>3 DEF Enqueue, queue
  <2> QED BY <2>1 DEF QueueTypeOK
<1> QED BY <1>2, <1>3

LEMMA RequestTyped ==
  ASSUME QueueTypeOK, NEW k \in Jobs, NEW b \in BOOLEAN, Request(k, b)
  PROVE  QueueTypeOK'
<1>1. NewRow(nextSeq, b) \in Row /\ Requeued(jobs[k], b) \in Row
  BY RowsTyped DEF QueueTypeOK
<1>2. jobs' \in [Jobs -> Row] /\ nextSeq' \in Nat \ {0}
  BY <1>1 DEF QueueTypeOK, Request
<1> QED BY <1>2 DEF QueueTypeOK, Request, archive, worker

\* What a recovery pass does to the table, whoever's rows it was given.
LEMMA RecoverStaleIs ==
  ASSUME NEW copies, recover_stale(copies)
  PROVE  jobs' = Recovered(Swept(copies)) /\ stranded' = stranded \ Swept(copies)
BY Zenon DEF recover_stale

\* The rows a SELECT hands over have the type of a worker's candidates.
LEMMA CopiesTyped ==
  ASSUME QueueTypeOK, NEW ks \in SUBSET Jobs
  PROVE  Copies(ks) \in SUBSET [key : Jobs, row : Row, at : Nat]
BY DEF Copies, QueueTypeOK

LEMMA AdoptionIs ==
  ASSUME QueueTypeOK, NEW w \in Workers, Reconcile(w)
  PROVE  \E ks \in SUBSET Jobs :
           /\ Adoption(ks)
           /\ \E number : /\ jobs' = Adopted(ks, number)
                          /\ \A k \in ks : jobs[k].state = Absent => number[k] \in Nat
           /\ nextSeq' = nextSeq + Cardinality({k \in ks : jobs[k].state = Absent})
           /\ Cardinality({k \in ks : jobs[k].state = Absent}) \in Nat
<1>1. PICK ks \in SUBSET Jobs :
        /\ Adoption(ks)
        /\ \E number \in Numbering({k \in ks : jobs[k].state = Absent}) :
             jobs' = Adopted(ks, number)
        /\ nextSeq' = nextSeq + Cardinality({k \in ks : jobs[k].state = Absent})
  BY Zenon DEF Reconcile
<1> DEFINE new == {k \in ks : jobs[k].state = Absent}
<1>2. PICK number \in Numbering(new) : jobs' = Adopted(ks, number)
  BY <1>1
<1>3. Cardinality(new) \in Nat
  <2>1. IsFiniteSet(new)
    BY JobsFinite, FS_Subset
  <2> QED BY <2>1, FS_CardinalityType
<1>4. \A k \in ks : jobs[k].state = Absent => number[k] \in Nat
  BY <1>3 DEF Numbering, QueueTypeOK
<1> QED BY <1>1, <1>2, <1>3, <1>4

LEMMA ReconcileTyped ==
  ASSUME QueueTypeOK, NEW w \in Workers, Reconcile(w)
  PROVE  QueueTypeOK'
<1>0. PICK ks \in SUBSET Jobs :
        /\ \E number : /\ jobs' = Adopted(ks, number)
                       /\ \A k \in ks : jobs[k].state = Absent => number[k] \in Nat
        /\ nextSeq' = nextSeq + Cardinality({k \in ks : jobs[k].state = Absent})
        /\ Cardinality({k \in ks : jobs[k].state = Absent}) \in Nat
  BY AdoptionIs
<1>1. PICK number : /\ jobs' = Adopted(ks, number)
                    /\ \A k \in ks : jobs[k].state = Absent => number[k] \in Nat
  BY <1>0
<1>2. nextSeq' \in Nat \ {0}
  BY <1>0 DEF QueueTypeOK
<1>3. \A k \in Jobs : Adopted(ks, number)[k] \in Row
  BY <1>1, RowsTyped DEF Adopted, QueueTypeOK
<1>4. jobs' \in [Jobs -> Row]
  BY <1>1, <1>3 DEF Adopted
<1> QED BY <1>2, <1>4 DEF QueueTypeOK, Reconcile, archive, history

LEMMA ClaimTyped ==
  ASSUME QueueTypeOK, NEW w \in Workers,
         \/ Start(w) \/ Crash(w) \/ ReadClaims(w) \/ Repair(w) \/ BeginDrain(w)
         \/ Select(w) \/ Take(w) \/ EndDrain(w)
  PROVE  QueueTypeOK'
<1> USE DEF QueueTypeOK
<1>0. Nothing \in [key : Jobs \cup {NoJob}, row : Row, stored : BOOLEAN]
  BY RowsTyped DEF Nothing
<1>1. CASE Start(w)
  <2>1. jobs' \in [Jobs -> Row] /\ stranded' \subseteq Jobs
    BY <1>1, RecoveredTyped, RecoverStaleIs DEF Start
  <2> QED BY <1>1, <2>1 DEF Start, archive
<1>2. CASE Crash(w)
  BY <1>0, <1>2 DEF Crash, ForgetDrain, archive, queue
<1>3. CASE Repair(w) \/ BeginDrain(w)
  <2>1. jobs' \in [Jobs -> Row] /\ stranded' \subseteq Jobs
    BY <1>3, RecoveredTyped, RecoverStaleIs DEF Repair, BeginDrain
  <2> QED BY <1>3, <2>1 DEF Repair, BeginDrain, archive
<1>4. CASE Select(w)
  <2>1. Copies(Eligible(w)) \in SUBSET [key : Jobs, row : Row, at : Nat]
    BY CopiesTyped DEF Eligible
  <2> QED BY <1>4, <2>1 DEF Select, archive, queue, history
<1>7. CASE ReadClaims(w)
  <2>1. Copies({k \in Jobs : Processing(k)}) \in SUBSET [key : Jobs, row : Row, at : Nat]
    BY CopiesTyped
  <2> QED BY <1>7, <2>1 DEF ReadClaims, archive, queue, history
<1>5. CASE Take(w)
  <2>1. PICK c \in cands[w] :
          IF jobs[c.key].state = c.row.state
          THEN /\ jobs' = [jobs EXCEPT ![c.key] = Claimed(jobs[c.key], w, c.at)]
               /\ held' = [held EXCEPT ![w] =
                    [key |-> c.key, row |-> Claimed(c.row, w, c.at), stored |-> FALSE]]
               /\ turn' = [turn EXCEPT ![w] = @ \cup {c.key}]
               /\ cands' = [cands EXCEPT ![w] = {}]
               /\ pc' = [pc EXCEPT ![w] = "run"]
          ELSE /\ cands' = [cands EXCEPT ![w] = @ \ {c}]
               /\ UNCHANGED <<jobs, held, turn, pc>>
    BY <1>5 DEF Take, Oldest
  <2>2. c.key \in Jobs /\ c.row \in Row /\ c.at \in Nat
    OBVIOUS
  <2>3. Claimed(jobs[c.key], w, c.at) \in Row /\ Claimed(c.row, w, c.at) \in Row
    BY <2>2, ClaimedTyped
  <2>4. CASE jobs[c.key].state = c.row.state
    <3> DEFINE taken == [key |-> c.key, row |-> Claimed(c.row, w, c.at), stored |-> FALSE]
    <3>1. taken \in [key : Jobs \cup {NoJob}, row : Row, stored : BOOLEAN] /\ taken.key \in Jobs
      BY <2>2, <2>3
    <3>2. /\ jobs' = [jobs EXCEPT ![c.key] = Claimed(jobs[c.key], w, c.at)]
          /\ held' = [held EXCEPT ![w] = taken]
          /\ turn' = [turn EXCEPT ![w] = @ \cup {c.key}]
          /\ cands' = [cands EXCEPT ![w] = {}]
          /\ pc' = [pc EXCEPT ![w] = "run"]
      BY <2>1, <2>4, Zenon
    <3>3. taken.key \in Jobs /\ jobs' \in [Jobs -> Row] /\ turn' \in [Workers -> SUBSET Jobs]
      <4> HIDE DEF taken
      <4> QED BY <2>2, <2>3, <3>1, <3>2
    <3> HIDE DEF taken
    <3> QED BY <1>5, <3>1, <3>2, <3>3 DEF Take, archive, history
  <2>5. CASE jobs[c.key].state # c.row.state
    BY <1>5, <2>1, <2>5 DEF Take, archive, history
  <2> QED BY <2>4, <2>5
<1>6. CASE EndDrain(w)
  BY <1>6 DEF EndDrain, ForgetDrain, archive, queue, history
<1> QED BY <1>1, <1>2, <1>3, <1>4, <1>5, <1>6, <1>7

LEMMA RunTyped ==
  ASSUME QueueTypeOK, NEW w \in Workers,
         Publish(w) \/ Lost(w) \/ Abort(w) \/ heartbeat(w)
  PROVE  QueueTypeOK'
<1> USE DEF QueueTypeOK
<1>0. Nothing \in [key : Jobs \cup {NoJob}, row : Row, stored : BOOLEAN]
  BY RowsTyped DEF Nothing
<1>1. CASE Publish(w)
  BY <1>1 DEF Publish, queue
<1>2. CASE Lost(w)
  BY <1>0, <1>2 DEF Lost, Return, queue, archive
<1>3. CASE Abort(w)
  BY <1>0, <1>3 DEF Abort, ForgetDrain, queue, archive, Fault
<1>4. CASE heartbeat(w)
  <2>1. held[w].key \in Jobs
    BY <1>4 DEF heartbeat
  <2>2. jobs' \in [Jobs -> Row]
    <3> DEFINE row == [jobs[held[w].key] EXCEPT !.epoch = clock]
    <3>1. row \in Row
      BY <2>1, EpochTyped
    <3>2. jobs' = [jobs EXCEPT ![held[w].key] = row]
      BY <1>4 DEF heartbeat
    <3> HIDE DEF row
    <3> QED BY <3>1, <3>2
  <2>3. held' \in [Workers -> [key : Jobs \cup {NoJob}, row : Row, stored : BOOLEAN]]
    <3> DEFINE row == [held[w].row EXCEPT !.epoch = clock]
    <3>1. row \in Row
      BY EpochTyped
    <3>2. held' = [held EXCEPT ![w] = [held[w] EXCEPT !.row = row]]
      BY <1>4 DEF heartbeat
    <3> HIDE DEF row
    <3> QED BY <3>1, <3>2
  <2>4. \A v \in Workers : pc'[v] = "run" => held'[v].key \in Jobs
    BY <1>4 DEF heartbeat
  <2> QED BY <1>4, <2>2, <2>3, <2>4 DEF heartbeat, archive, history
<1> QED BY <1>1, <1>2, <1>3, <1>4

LEMMA CompleteTyped ==
  ASSUME QueueTypeOK, NEW w \in Workers, Complete(w)
  PROVE  QueueTypeOK'
<1> USE DEF QueueTypeOK
<1>0. Nothing \in [key : Jobs \cup {NoJob}, row : Row, stored : BOOLEAN]
  BY RowsTyped DEF Nothing
<1>1. PICK next \in Stages \cup {STOP} : complete(w, next)
  <2>1. Stage(w) \in Stages
    BY QueueAssumption DEF Complete
  <2>2. NEXT_STAGE[Stage(w)] \in Stages \cup {STOP}
    BY <2>1 DEF NEXT_STAGE, Stages
  <2> QED BY <2>2 DEF Complete
<1> DEFINE k == held[w].key
           forced == held[w].row.replace
           succ == <<k[1], next>>
           final == [Released(jobs[k], "done") EXCEPT !.replace = FALSE]
           done == [jobs EXCEPT ![k] = final]
           after == Successor(done[succ], forced)
<1>2. k \in Jobs /\ pc[w] = "run"
  BY DEF Complete
<1>3. final \in Row
  <2>1. Released(jobs[k], "done") \in Row
    BY <1>2, RowsTyped DEF States
  <2>2. \A row \in Row : [row EXCEPT !.replace = FALSE] \in Row
    BY DEF Row
  <2> QED BY <2>1, <2>2
<1>4. done \in [Jobs -> Row]
  <2> HIDE DEF final
  <2> QED BY <1>2, <1>3
<1>5. succ \in Jobs => after \in Row
  <2>1. forced \in BOOLEAN
    BY DEF Row
  <2>2. ASSUME NEW row \in Row PROVE Successor(row, forced) \in Row
    <3> DEFINE fresh == NewRow(nextSeq, forced)
               again == Requeued(row, TRUE)
    <3>1. fresh \in Row /\ again \in Row
      BY <2>1, RowsTyped
    <3> HIDE DEF fresh, again
    <3>2. Successor(row, forced) \in {fresh, again, row}
      BY DEF Successor, fresh, again
    <3> QED BY <3>1, <3>2
  <2> HIDE DEF done
  <2>3. succ \in Jobs => done[succ] \in Row
    BY <1>4
  <2> QED BY <2>2, <2>3
<1>6. /\ jobs' \in {jobs, done, [done EXCEPT ![succ] = after]}
      /\ nextSeq' \in {nextSeq, nextSeq + 1}
      /\ stranded' \in {stranded, stranded \ {succ}}
  BY <1>1, Zenon DEF complete, queue
<1>7. jobs' \in [Jobs -> Row]
  <2>1. CASE succ \in Jobs
    <3> HIDE DEF done, after
    <3> QED BY <1>4, <1>5, <1>6, <2>1
  <2>2. CASE succ \notin Jobs
    <3> HIDE DEF done, after
    <3> QED BY <1>4, <1>6, <2>2
  <2> QED BY <2>1, <2>2
<1>8. /\ finished' = [finished EXCEPT ![w] = @ + 1] /\ faults' = faults
      /\ Return(w)
  BY <1>1, Zenon DEF complete
<1>9. nextSeq' \in Nat \ {0} /\ stranded' \subseteq Jobs
  BY <1>6
<1>10. UNCHANGED unreadable
  BY <1>8 DEF Return, archive
<1> HIDE DEF done, after
<1> QED BY <1>0, <1>7, <1>8, <1>9, <1>10 DEF Return, archive

LEMMA OutcomeTyped ==
  ASSUME QueueTypeOK, NEW w \in Workers, Fail(w) \/ Defer(w)
  PROVE  QueueTypeOK'
<1> USE DEF QueueTypeOK
<1> DEFINE k == held[w].key
<1>0. Nothing \in [key : Jobs \cup {NoJob}, row : Row, stored : BOOLEAN]
  BY RowsTyped DEF Nothing
<1>1. k \in Jobs /\ Return(w)
  BY DEF Fail, Defer, fail, Return
<1>2. ASSUME NEW row \in Row,
             jobs' \in {jobs, [jobs EXCEPT ![k] = row]},
             UNCHANGED <<nextSeq, finished, stranded>>, faults' \in {faults, faults + 1}
      PROVE  QueueTypeOK'
  <2>1. jobs' \in [Jobs -> Row]
    BY <1>1, <1>2
  <2> QED BY <1>0, <1>1, <1>2, <2>1 DEF Return, archive
<1>3. CASE Fail(w)
  <2>1. PICK kind \in {"transient", "strike", "tool"} : fail(w, kind)
    BY <1>3 DEF Fail
  <2> DEFINE verdict == Failure(held[w].row, kind)
             row == [Released(jobs[k], verdict.state) EXCEPT
                       !.attempts = verdict.attempts, !.tools = verdict.tools]
  <2>2. row \in Row
    <3>1. /\ verdict.state \in States
          /\ verdict.attempts \in Nat /\ verdict.tools \in Nat
      BY FailureTyped DEF States, OPEN_STATES
    <3>2. Released(jobs[k], verdict.state) \in Row
      BY <1>1, <3>1, RowsTyped
    <3>3. \A q \in Row, m, n \in Nat : [q EXCEPT !.attempts = m, !.tools = n] \in Row
      BY DEF Row
    <3> HIDE DEF verdict
    <3> QED BY <3>1, <3>2, <3>3
  <2>3. jobs' \in {jobs, [jobs EXCEPT ![k] = row]} /\ UNCHANGED <<nextSeq, finished, stranded>>
    BY <2>1, Zenon DEF fail
  <2>4. faults' \in {faults, faults + 1}
    BY <1>3 DEF Fail, Fault
  <2> HIDE DEF row
  <2> QED BY <1>2, <2>2, <2>3, <2>4
<1>4. CASE Defer(w)
  <2> DEFINE row == Released(jobs[k], "queued")
  <2>1. row \in Row
    BY <1>1, RowsTyped DEF States, OPEN_STATES
  <2>2. jobs' \in {jobs, [jobs EXCEPT ![k] = row]} /\ UNCHANGED <<nextSeq, finished, stranded>>
    BY <1>4, Zenon DEF Defer
  <2>3. faults' \in {faults, faults + 1}
    BY <1>4 DEF Defer, Fault
  <2> HIDE DEF row
  <2> QED BY <1>2, <2>1, <2>2, <2>3
<1> QED BY <1>3, <1>4

LEMMA AskedTyped == ASSUME QueueTypeOK, Asked PROVE QueueTypeOK'
<1>1. PICK r \in Recordings :
        \/ enqueue_asr(r) \/ request_retranscribe(r) \/ request_regenerate(r)
        \/ request_diarize(r) \/ request_summary_language(r)
  BY DEF Asked
<1>2. \A s \in Stages : <<r, s>> \in Jobs
  BY DEF Jobs
<1>3. CASE enqueue_asr(r)
  <2>1. jobs' \in [Jobs -> Row] /\ nextSeq' \in Nat \ {0}
    BY <1>2, <1>3, EnqueueTyped DEF enqueue_asr, Stages
  <2> QED BY <1>3, <2>1 DEF enqueue_asr, QueueTypeOK, archive, worker, history
<1>4. CASE \E s \in Stages, b \in BOOLEAN : Request(<<r, s>>, b)
  BY <1>2, <1>4, RequestTyped
<1> QED BY <1>1, <1>3, <1>4 DEF request_retranscribe, request_regenerate,
          request_diarize, request_summary_language, Stages

LEMMA StepTyped == QueueTypeOK /\ [Next]_vars => QueueTypeOK'
<1> SUFFICES ASSUME QueueTypeOK, [Next]_vars PROVE QueueTypeOK'
  OBVIOUS
<1>1. CASE Asked
  BY <1>1, AskedTyped
<1>2. CASE Tick
  BY <1>2 DEF Tick, QueueTypeOK, queue, archive, worker, history
<1>3. CASE \E w \in Workers :
             Start(w) \/ Crash(w) \/ Work(w) \/ heartbeat(w) \/ Abort(w)
  BY <1>3, ReconcileTyped, ClaimTyped, RunTyped, CompleteTyped, OutcomeTyped DEF Work
<1>4. CASE UNCHANGED vars
  BY <1>4 DEF vars, QueueTypeOK, queue, archive, worker, history
<1> QED BY <1>1, <1>2, <1>3, <1>4 DEF Next

\* What nearly every proof needs of the types: all but the times of availability.
LEMMA QueueTyped == Spec => []QueueTypeOK
BY InitTyped, StepTyped, PTL DEF Spec

\* The backoff doubles with every strike: a power of two counts the subsets of
\* a set of strikes, so it is a number, and the cap applies.
LEMMA BackoffTyped ==
  ASSUME NEW strikes \in Nat
  PROVE  backoff_sec(strikes) \in 0 .. RetryBackoffMax
<1>1. IsFiniteSet(1 .. strikes) /\ Cardinality(1 .. strikes) = strikes
  BY FS_Interval
<1>2. 2^strikes \in Nat
  BY <1>1, FS_SUBSET, FS_CardinalityType
<1>3. RetryBackoff * 2^strikes \in Nat
  <2> DEFINE power == 2^strikes
  <2> HIDE DEF power
  <2>1. ASSUME power \in Nat PROVE RetryBackoff * power \in Nat
    BY <2>1, QueueAssumption
  <2> QED BY <1>2, <2>1 DEF power
<1> DEFINE delay == RetryBackoff * 2^strikes
<1>4. backoff_sec(strikes) = IF delay < RetryBackoffMax THEN delay ELSE RetryBackoffMax
  BY DEF backoff_sec
<1>5. delay \in Nat
  BY <1>3
<1> HIDE DEF delay
<1> QED BY <1>4, <1>5, QueueAssumption

\* A step makes a row available now, after the backoff of a failure, or when it
\* was to be.
LEMMA StepAvailable ==
  ASSUME QueueTypeOK, avail \in [Jobs -> Nat], [Next]_vars
  PROVE  avail' \in [Jobs -> Nat]
<1>1. ASSUME NEW k, NEW time \in Nat, avail' \in {avail, [avail EXCEPT ![k] = time]}
      PROVE  avail' \in [Jobs -> Nat]
  BY <1>1
<1>2. ASSUME NEW ks, avail' = [k \in Jobs |-> IF k \in ks THEN clock ELSE avail[k]]
      PROVE  avail' \in [Jobs -> Nat]
  BY <1>2 DEF QueueTypeOK
<1>10. ASSUME NEW copies \in SUBSET [key : Jobs, row : Row, at : Nat], recover_stale(copies)
       PROVE  avail' \in [Jobs -> Nat]
  <2> DEFINE read(k) == CHOOSE c \in copies : c.key = k
  <2>1. \A k \in Swept(copies) : read(k) \in copies
    BY DEF Swept
  <2>2. \A k \in Swept(copies) : read(k).at \in Nat
    BY <2>1
  <2>3. avail' = [k \in Jobs |-> IF k \in Swept(copies) THEN read(k).at ELSE avail[k]]
    BY <1>10, Zenon DEF recover_stale
  <2> HIDE DEF read
  <2> QED BY <2>2, <2>3
<1>3. clock \in Nat
  BY DEF QueueTypeOK
<1>4. CASE Asked
  <2>1. \E k \in Jobs : avail' \in {avail, [avail EXCEPT ![k] = clock]}
    <3>1. PICK r \in Recordings :
            \/ enqueue_asr(r) \/ request_retranscribe(r) \/ request_regenerate(r)
            \/ request_diarize(r) \/ request_summary_language(r)
      BY <1>4 DEF Asked
    <3>2. \A s \in Stages : <<r, s>> \in Jobs
      BY DEF Jobs
    <3>3. CASE enqueue_asr(r)
      BY <3>2, <3>3, Zenon DEF enqueue_asr, Enqueue, queue, Stages
    <3>4. CASE \E s \in Stages, b \in BOOLEAN : Request(<<r, s>>, b)
      BY <3>2, <3>4 DEF Request
    <3> QED BY <3>1, <3>3, <3>4 DEF request_retranscribe, request_regenerate,
              request_diarize, request_summary_language, Stages
  <2> QED BY <1>1, <1>3, <2>1
<1>5. CASE Tick \/ UNCHANGED vars
  BY <1>5 DEF Tick, vars, queue
<1>6. CASE \E w \in Workers : Fail(w)
  <2>1. PICK w \in Workers, kind \in {"transient", "strike", "tool"} : fail(w, kind)
    BY <1>6 DEF Fail
  <2> DEFINE verdict == Failure(held[w].row, kind)
             n == IF kind = "tool" THEN verdict.tools ELSE verdict.attempts
  <2>2. verdict.delay = backoff_sec(n)
    BY DEF Failure
  <2>3. n \in Nat
    <3>1. held[w].row \in Row
      BY DEF QueueTypeOK
    <3> QED BY <3>1 DEF Failure, Row
  <2>4. verdict.delay \in Nat
    <3> HIDE DEF n, verdict
    <3> QED BY <2>2, <2>3, BackoffTyped, QueueAssumption
  <2>5. avail' \in {avail, [avail EXCEPT ![held[w].key] = clock + verdict.delay]}
    BY <2>1, Zenon DEF fail
  <2> HIDE DEF verdict
  <2> QED BY <1>1, <1>3, <2>4, <2>5
<1>7. CASE \E w \in Workers : Start(w) \/ Repair(w) \/ BeginDrain(w)
  <2>1. PICK w \in Workers : Start(w) \/ Repair(w) \/ BeginDrain(w)
    BY <1>7
  <2>2. CASE Start(w)
    <3>1. Copies(Orphans(w)) \in SUBSET [key : Jobs, row : Row, at : Nat]
      BY CopiesTyped DEF Orphans
    <3> QED BY <1>10, <2>2, <3>1 DEF Start
  <2>3. CASE Repair(w) \/ BeginDrain(w)
    <3>1. Abandoned(w) \in SUBSET [key : Jobs, row : Row, at : Nat]
      BY DEF Abandoned, QueueTypeOK
    <3> QED BY <1>10, <2>3, <3>1 DEF Repair, BeginDrain
  <2> QED BY <2>1, <2>2, <2>3
<1>11. CASE \E w \in Workers : Reconcile(w)
  <2>1. \E ks : avail' = [k \in Jobs |-> IF k \in ks THEN clock ELSE avail[k]]
    BY <1>11, Zenon DEF Reconcile
  <2> QED BY <1>2, <2>1
<1>8. CASE \E w \in Workers : Complete(w) \/ Defer(w)
  <2>1. \E k : avail' \in {avail, [avail EXCEPT ![k] = clock]}
    BY <1>8, Zenon DEF Complete, complete, Defer, queue
  <2> QED BY <1>1, <1>3, <2>1
<1>9. CASE \E w \in Workers : \/ Crash(w) \/ heartbeat(w) \/ Abort(w) \/ Select(w) \/ Take(w)
                              \/ EndDrain(w) \/ Publish(w) \/ Lost(w) \/ ReadClaims(w)
  BY <1>9 DEF Crash, heartbeat, Abort, Select, Take, EndDrain, Publish, Lost, ReadClaims, queue
<1> QED BY <1>4, <1>5, <1>6, <1>7, <1>8, <1>9, <1>11, Zenon DEF Next, Work

\* Every row with the time it is available from, every job in hand and every
\* counter keeps its type, for any number of recordings and workers.
THEOREM TypeCorrect == Spec => []TypeOK
<1>1. Init => TypeOK
  BY InitTyped DEF TypeOK, Init
<1>2. TypeOK /\ [Next]_vars => TypeOK'
  BY StepTyped, StepAvailable DEF TypeOK
<1> QED BY <1>1, <1>2, PTL DEF Spec

-----------------------------------------------------------------------------
(* Claims *)

\* Live workers do not share an owner string.
LEMMA OwnersDistinct ==
  ASSUME ClaimInv, NEW v \in Workers, NEW w \in Workers,
         Alive(v), Alive(w), Owner[v] = Owner[w]
  PROVE  v = w
BY QueueAssumption DEF ClaimInv

\* The shape most steps share: rows change only by leaving `processing`, nobody
\* wakes up, and a claim that stays keeps the worker running it as it was.
LEMMA QuietStep ==
  ASSUME ClaimInv,
         \A k \in Jobs : jobs'[k] = jobs[k] \/ jobs'[k].state # "processing",
         \A k \in stranded : k \in stranded' \/ jobs'[k].state # "processing",
         \A v \in Workers : pc'[v] \notin {"off", "dead"} => Alive(v),
         \A v \in Workers : pc'[v] = "off" => pc[v] = "off",
         \A v \in Workers, k \in Jobs :
           Owned(k, v) /\ jobs'[k] = jobs[k] /\ pc[v] = "run" /\ held[v].key = k
             => \/ k \in stranded' \/ pc'[v] = "dead"
                \/ pc'[v] = "run" /\ held'[v].key = k /\ held'[v].row = held[v].row
  PROVE  ClaimInv'
<1>1. ASSUME NEW k \in Jobs, NEW w \in Workers, Owned(k, w)'
      PROVE  Owned(k, w) /\ jobs'[k] = jobs[k]
  BY <1>1 DEF Owned, Processing
<1>2. NoForgottenClaim'
  <2> SUFFICES ASSUME NEW k \in Jobs, NEW w \in Workers,
                      Alive(w)', Owned(k, w)', k \notin stranded'
               PROVE  (pc[w] = "run" /\ held[w].key = k /\ HoldsClaim(w))'
    BY DEF NoForgottenClaim
  <2>1. Owned(k, w) /\ jobs'[k] = jobs[k] /\ Alive(w) /\ k \notin stranded
    BY <1>1 DEF Alive, Owned, Processing
  <2>2. pc[w] = "run" /\ held[w].key = k /\ HoldsClaim(w)
    BY <2>1 DEF ClaimInv, NoForgottenClaim
  <2>3. pc'[w] = "run" /\ held'[w].key = k /\ held'[w].row = held[w].row
    BY <2>1, <2>2 DEF Alive
  <2> QED BY <2>1, <2>2, <2>3 DEF HoldsClaim
<1>3. FlockOwnsClaims'
  <2> SUFFICES ASSUME NEW k \in Jobs, NEW w \in Workers,
                      SingleFlight, Alive(w)', Processing(k)'
               PROVE  Owned(k, w)'
    BY DEF FlockOwnsClaims
  <2>1. jobs'[k] = jobs[k] /\ Processing(k) /\ Alive(w)
    BY DEF Processing, Alive
  <2>2. Owned(k, w)
    BY <2>1 DEF ClaimInv, FlockOwnsClaims
  <2> QED BY <2>1, <2>2 DEF Owned, Processing
<1>4. SingleFlight => \A v, w \in Workers : Alive(v)' /\ Alive(w)' => v = w
  BY DEF ClaimInv, Alive
<1>5. ~SingleFlight => \A w \in Workers, k \in Jobs : pc'[w] = "off" => ~Owned(k, w)'
  BY <1>1 DEF ClaimInv
<1> QED BY <1>2, <1>3, <1>4, <1>5 DEF ClaimInv

LEMMA StatesAfter ==
  /\ \A n \in Nat, b \in BOOLEAN : NewRow(n, b).state = "queued"
  /\ \A row \in Row, b \in BOOLEAN : Requeued(row, b).state = "queued"
  /\ \A row \in Row, st \in States : Released(row, st).state = st
  /\ \A row \in Row : Revived(row).state = "queued"
<1>1. ASSUME NEW n \in Nat, NEW b \in BOOLEAN PROVE NewRow(n, b).state = "queued"
  BY DEF NewRow, NoRow
<1>2. ASSUME NEW row \in Row, NEW b \in BOOLEAN PROVE Requeued(row, b).state = "queued"
  BY DEF Requeued, Row
<1>3. ASSUME NEW row \in Row, NEW st \in States PROVE Released(row, st).state = st
  BY DEF Released, Row
<1>4. ASSUME NEW row \in Row PROVE Revived(row).state = "queued"
  <2>1. \A q \in Row : [q EXCEPT !.tools = 0, !.revivals = @ + 1].state = q.state
    BY DEF Row
  <2>2. Requeued(row, row.replace) \in Row /\ Requeued(row, row.replace).state = "queued"
    BY <1>2, RowsTyped DEF Row
  <2> QED BY <2>1, <2>2, Zenon DEF Revived
<1> QED BY <1>1, <1>2, <1>3, <1>4

LEMMA AskedClaims == ASSUME QueueTypeOK, ClaimInv, Asked PROVE ClaimInv'
<1>1. PICK r \in Recordings :
        \/ enqueue_asr(r) \/ request_retranscribe(r) \/ request_regenerate(r)
        \/ request_diarize(r) \/ request_summary_language(r)
  BY DEF Asked
<1>2. \A s \in Stages : <<r, s>> \in Jobs
  BY DEF Jobs
<1>3. ASSUME NEW k \in Jobs, NEW b \in BOOLEAN, Request(k, b)
      PROVE  ClaimInv'
  <2>1. NewRow(nextSeq, b).state = "queued" /\ Requeued(jobs[k], b).state = "queued"
    BY StatesAfter DEF QueueTypeOK
  <2>2. \A j \in Jobs : jobs'[j] = jobs[j] \/ jobs'[j].state # "processing"
    BY <1>3, <2>1 DEF Request, QueueTypeOK
  <2> QED BY <1>3, <2>2, QuietStep DEF Request, worker, Alive
<1>4. CASE enqueue_asr(r)
  <2> DEFINE k == <<r, "asr">>
             row == NewRow(nextSeq, FALSE)
  <2>1. row.state = "queued" /\ k \in Jobs
    BY <1>2, StatesAfter DEF QueueTypeOK, Stages
  <2>2. jobs' = [jobs EXCEPT ![k] = row] \/ jobs' = jobs
    BY <1>4, Zenon DEF enqueue_asr, Enqueue, queue
  <2>3. \A j \in Jobs : jobs'[j] = jobs[j] \/ jobs'[j].state # "processing"
    <3> HIDE DEF row, k
    <3> QED BY <2>1, <2>2 DEF QueueTypeOK
  <2> QED BY <1>4, <2>3, QuietStep DEF enqueue_asr, worker, history, Alive
<1> QED BY <1>1, <1>2, <1>3, <1>4 DEF request_retranscribe, request_regenerate,
          request_diarize, request_summary_language, Stages

LEMMA RepairClaims ==
  ASSUME QueueTypeOK, ClaimInv, NEW w \in Workers,
         Repair(w) \/ Reconcile(w) \/ BeginDrain(w)
  PROVE  ClaimInv'
<1>1. /\ pc[w] \in {"repair", "adopt", "sweep"} /\ held' = held
      /\ \E state \in {"adopt", "reconciled", "drain"} : pc' = [pc EXCEPT ![w] = state]
  BY DEF Repair, Reconcile, BeginDrain
<1>2. /\ \A k \in Jobs : jobs'[k] = jobs[k] \/ jobs'[k].state # "processing"
      /\ \A k \in stranded : k \in stranded' \/ jobs'[k].state # "processing"
  <2>1. CASE Repair(w) \/ BeginDrain(w)
    <3> DEFINE ks == Swept(Abandoned(w))
    <3>1. jobs' = Recovered(ks) /\ stranded' = stranded \ ks
      BY <2>1, RecoverStaleIs DEF Repair, BeginDrain
    <3>2. \A k \in Jobs : Recovered(ks)[k] = jobs[k] \/ Recovered(ks)[k].state = "queued"
      BY RecoveredTyped DEF QueueTypeOK
    <3>3. \A k \in ks : Recovered(ks)[k].state = "queued" /\ k \in Jobs
      BY StatesAfter DEF Swept, Recovered, QueueTypeOK, States, OPEN_STATES
    <3> HIDE DEF ks
    <3> QED BY <3>1, <3>2, <3>3
  <2>2. CASE Reconcile(w)
    <3>0. PICK ks \in SUBSET Jobs :
            \E number : /\ jobs' = Adopted(ks, number)
                        /\ \A k \in ks : jobs[k].state = Absent => number[k] \in Nat
      BY <2>2, AdoptionIs
    <3>1. PICK number : /\ jobs' = Adopted(ks, number)
                        /\ \A k \in ks : jobs[k].state = Absent => number[k] \in Nat
      BY <3>0
    <3>2. \A k \in Jobs : jobs'[k] = jobs[k] \/ jobs'[k].state = "queued"
      BY <3>1, StatesAfter DEF Adopted, QueueTypeOK
    <3>3. stranded' = stranded
      BY <2>2 DEF Reconcile, history
    <3> QED BY <3>2, <3>3
  <2> QED BY <2>1, <2>2
<1> QED BY <1>1, <1>2, QuietStep DEF Alive, QueueTypeOK

LEMMA IdleClaims ==
  ASSUME QueueTypeOK, ClaimInv, NEW w \in Workers,
         Crash(w) \/ ReadClaims(w) \/ Select(w) \/ EndDrain(w) \/ Publish(w)
  PROVE  ClaimInv'
<1>1. CASE Crash(w)
  BY <1>1, QuietStep DEF Crash, queue, Alive, QueueTypeOK
<1>2. CASE Select(w)
  BY <1>2, QuietStep DEF Select, queue, history, Alive, QueueTypeOK
<1>3. CASE EndDrain(w)
  BY <1>3, QuietStep DEF EndDrain, queue, history, Alive, QueueTypeOK
<1>4. CASE Publish(w)
  BY <1>4, QuietStep DEF Publish, queue, Alive, QueueTypeOK
<1>5. CASE ReadClaims(w)
  BY <1>5, QuietStep DEF ReadClaims, queue, history, Alive, QueueTypeOK
<1> QED BY <1>1, <1>2, <1>3, <1>4, <1>5

\* A worker that returns to the loop has let its row go, or never held it.
LEMMA ReturnClaims ==
  ASSUME QueueTypeOK, ClaimInv, NEW w \in Workers, Return(w),
         \A k \in Jobs : jobs'[k] = jobs[k] \/ jobs'[k].state # "processing",
         \A k \in stranded : k \in stranded' \/ jobs'[k].state # "processing",
         HoldsClaim(w) => jobs'[held[w].key].state # "processing"
  PROVE  ClaimInv'
<1>1. ASSUME NEW k \in Jobs, Owned(k, w), jobs'[k] = jobs[k], held[w].key = k
      PROVE  k \in stranded'
  <2>1. Alive(w)
    BY DEF Return, Alive
  <2>2. ~HoldsClaim(w)
    BY <1>1 DEF Owned, Processing
  <2>3. k \in stranded
    BY <1>1, <2>1, <2>2 DEF ClaimInv, NoForgottenClaim
  <2> QED BY <1>1, <2>3 DEF Owned, Processing
<1>2. ASSUME NEW v \in Workers, NEW k \in Jobs,
             Owned(k, v), jobs'[k] = jobs[k], pc[v] = "run", held[v].key = k
      PROVE  \/ k \in stranded' \/ pc'[v] = "dead"
             \/ pc'[v] = "run" /\ held'[v].key = k /\ held'[v].row = held[v].row
  BY <1>1, <1>2 DEF Return, QueueTypeOK
<1> QED BY <1>2, QuietStep DEF Return, Alive, QueueTypeOK

LEMMA OutcomeClaims ==
  ASSUME QueueTypeOK, ClaimInv, NEW w \in Workers,
         Complete(w) \/ Fail(w) \/ Defer(w) \/ Lost(w) \/ Abort(w)
  PROVE  ClaimInv'
<1> DEFINE k == held[w].key
<1>1. k \in Jobs /\ jobs[k] \in Row /\ pc[w] = "run"
  BY DEF Complete, Fail, fail, Defer, Lost, Abort, Return, QueueTypeOK
<1>2. ASSUME NEW row \in Row, row.state # "processing", Return(w),
             jobs' = IF HoldsClaim(w) THEN [jobs EXCEPT ![k] = row] ELSE jobs,
             stranded' = stranded
      PROVE  ClaimInv'
  BY <1>1, <1>2, ReturnClaims DEF QueueTypeOK
<1>3. CASE Fail(w)
  <2>1. PICK kind \in {"transient", "strike", "tool"} : fail(w, kind)
    BY <1>3 DEF Fail
  <2> DEFINE verdict == Failure(held[w].row, kind)
             row == [Released(jobs[k], verdict.state) EXCEPT
                       !.attempts = verdict.attempts, !.tools = verdict.tools]
  <2>2. row \in Row /\ row.state # "processing"
    <3>1. /\ verdict.state \in States /\ verdict.state # "processing"
          /\ verdict.attempts \in Nat /\ verdict.tools \in Nat
      BY FailureTyped DEF States, OPEN_STATES, QueueTypeOK
    <3>2. /\ Released(jobs[k], verdict.state) \in Row
          /\ Released(jobs[k], verdict.state).state = verdict.state
      BY <1>1, <3>1, RowsTyped, StatesAfter
    <3>3. \A q \in Row, m, n \in Nat :
            /\ [q EXCEPT !.attempts = m, !.tools = n] \in Row
            /\ [q EXCEPT !.attempts = m, !.tools = n].state = q.state
      BY DEF Row
    <3> HIDE DEF verdict
    <3> QED BY <3>1, <3>2, <3>3
  <2>3. /\ jobs' = IF HoldsClaim(w) THEN [jobs EXCEPT ![k] = row] ELSE jobs
        /\ stranded' = stranded /\ Return(w)
    BY <2>1, Zenon DEF fail
  <2> HIDE DEF row
  <2> QED BY <1>2, <2>2, <2>3
<1>4. CASE Defer(w)
  <2> DEFINE row == Released(jobs[k], "queued")
  <2>1. row \in Row /\ row.state # "processing"
    BY <1>1, RowsTyped, StatesAfter DEF States, OPEN_STATES
  <2>2. /\ jobs' = IF HoldsClaim(w) THEN [jobs EXCEPT ![k] = row] ELSE jobs
        /\ stranded' = stranded /\ Return(w)
    BY <1>4, Zenon DEF Defer
  <2> HIDE DEF row
  <2> QED BY <1>2, <2>1, <2>2
<1>5. CASE Lost(w)
  BY <1>5, ReturnClaims DEF Lost, queue
<1>6. CASE Abort(w)
  BY <1>6, QuietStep DEF Abort, queue, Alive, QueueTypeOK
<1>7. CASE Complete(w)
  <2>1. PICK next \in Stages \cup {STOP} : complete(w, next)
    <3>1. Stage(w) \in Stages
      BY <1>7, QueueAssumption DEF Complete
    <3>2. NEXT_STAGE[Stage(w)] \in Stages \cup {STOP}
      BY <3>1 DEF NEXT_STAGE, Stages
    <3> QED BY <1>7, <3>2 DEF Complete
  <2> DEFINE forced == held[w].row.replace
             succ == <<k[1], next>>
             final == [Released(jobs[k], "done") EXCEPT !.replace = FALSE]
             done == [jobs EXCEPT ![k] = final]
             after == Successor(done[succ], forced)
  <2>2. Return(w)
    BY <2>1, Zenon DEF complete
  <2>3. final \in Row /\ final.state = "done"
    <3>1. /\ Released(jobs[k], "done") \in Row
          /\ Released(jobs[k], "done").state = "done"
      BY <1>1, RowsTyped, StatesAfter DEF States
    <3>2. \A q \in Row : /\ [q EXCEPT !.replace = FALSE] \in Row
                         /\ [q EXCEPT !.replace = FALSE].state = q.state
      BY DEF Row
    <3> QED BY <3>1, <3>2
  <2>4. done \in [Jobs -> Row] /\ done[k].state = "done"
        /\ \A j \in Jobs : done[j] = jobs[j] \/ done[j].state # "processing"
    <3> HIDE DEF final
    <3> QED BY <1>1, <2>3 DEF QueueTypeOK
  <2>5. ASSUME succ \in Jobs
        PROVE  /\ after = done[succ] \/ after.state = "queued"
               /\ forced => after.state = "queued"
    <3>1. forced \in BOOLEAN
      BY DEF QueueTypeOK, Row
    <3>2. ASSUME NEW row \in Row
          PROVE  /\ Successor(row, forced) = row \/ Successor(row, forced).state = "queued"
                 /\ forced => Successor(row, forced).state = "queued"
      <4> DEFINE fresh == NewRow(nextSeq, forced)
                 again == Requeued(row, TRUE)
      <4>1. fresh.state = "queued" /\ again.state = "queued"
        BY <3>1, StatesAfter DEF QueueTypeOK
      <4>2. /\ Successor(row, forced) \in {fresh, again, row}
            /\ forced => Successor(row, forced) \in {fresh, again}
        <5> HIDE DEF fresh, again
        <5> QED BY DEF Successor, fresh, again
      <4> HIDE DEF fresh, again
      <4> QED BY <4>1, <4>2
    <3> HIDE DEF done
    <3> QED BY <2>4, <2>5, <3>2
  <2>6. CASE HoldsClaim(w)
    <3>1. /\ jobs' = done \/ jobs' = [done EXCEPT ![succ] = after]
          /\ stranded' = IF forced THEN stranded \ {succ} ELSE stranded
          /\ forced => next = STOP \/ jobs' = [done EXCEPT ![succ] = after]
      BY <2>1, <2>6, Zenon DEF complete
    <3>2. /\ \A j \in Jobs : jobs'[j] = jobs[j] \/ jobs'[j].state # "processing"
          /\ jobs'[k].state # "processing"
      <4> HIDE DEF done, after
      <4> QED BY <1>1, <2>4, <2>5, <3>1
    <3>3. \A j \in stranded : j \in stranded' \/ jobs'[j].state # "processing"
      <4>1. next = STOP => succ \notin Jobs
        BY DEF Jobs, Stages, STOP
      <4>2. stranded \subseteq Jobs
        BY DEF QueueTypeOK
      <4> HIDE DEF done, after
      <4> QED BY <2>4, <2>5, <3>1, <4>1, <4>2
    <3> QED BY <2>2, <3>2, <3>3, ReturnClaims
  <2>7. CASE ~HoldsClaim(w)
    <3>1. jobs' = jobs /\ stranded' = stranded
      BY <2>1, <2>7, Zenon DEF complete, queue
    <3> QED BY <2>2, <2>7, <3>1, ReturnClaims
  <2> QED BY <2>6, <2>7
<1> QED BY <1>3, <1>4, <1>5, <1>6, <1>7

LEMMA StartClaims ==
  ASSUME QueueTypeOK, ClaimInv, NEW w \in Workers, Start(w)
  PROVE  ClaimInv'
<1>1. pc[w] = "off" /\ pc' = [pc EXCEPT ![w] = "idle"] /\ held' = held
  BY DEF Start
<1>2. CASE SingleFlight
  <2>1. \A k \in Jobs : jobs'[k].state # "processing"
    <3>0. Swept(Copies(Orphans(w))) = Orphans(w)
      <4>1. ASSUME NEW k \in Orphans(w) PROVE \E c \in Copies(Orphans(w)) : c.key = k
        <5>1. [key |-> k, row |-> jobs[k], at |-> clock] \in Copies(Orphans(w))
          BY DEF Copies
        <5> QED BY <5>1
      <4>2. \A c \in Copies(Orphans(w)) : c.key \in Orphans(w)
        BY DEF Copies
      <4> QED BY <4>1, <4>2 DEF Swept, Orphans
    <3>1. jobs' = Recovered(Orphans(w))
      BY <1>2, <3>0, RecoverStaleIs DEF Start
    <3>2. SUFFICES ASSUME NEW k \in Jobs
                   PROVE  jobs'[k].state # "processing"
      OBVIOUS
    <3>3. jobs'[k] = IF k \in Orphans(w) THEN Released(jobs[k], "queued") ELSE jobs[k]
      BY <3>1, Zenon DEF Recovered
    <3>4. Released(jobs[k], "queued").state = "queued"
      BY StatesAfter DEF QueueTypeOK, States, OPEN_STATES
    <3>5. CASE k \in Orphans(w)
      BY <3>3, <3>4, <3>5
    <3>6. CASE k \notin Orphans(w)
      BY <3>3, <3>6 DEF Orphans, Processing
    <3> QED BY <3>5, <3>6
  <2>2. \A v \in Workers : ~Alive(v)
    BY <1>2 DEF Start
  <2>3. \A v \in Workers : Alive(v)' => v = w
    BY <1>1, <2>2 DEF Alive, QueueTypeOK
  <2> QED BY <1>2, <2>1, <2>3
          DEF ClaimInv, NoForgottenClaim, FlockOwnsClaims, Owned, Processing
<1>3. CASE ~SingleFlight
  <2>1. jobs' = jobs /\ stranded' = stranded
    BY <1>3 DEF Start
  <2>2. \A k \in Jobs : ~Owned(k, w)
    BY <1>1, <1>3 DEF ClaimInv
  <2>3. NoForgottenClaim'
    <3> SUFFICES ASSUME NEW k \in Jobs, NEW v \in Workers,
                        Alive(v)', Owned(k, v)', k \notin stranded'
                 PROVE  (pc[v] = "run" /\ held[v].key = k /\ HoldsClaim(v))'
      BY DEF NoForgottenClaim
    <3>1. Owned(k, v) /\ v # w
      BY <2>1, <2>2 DEF Owned, Processing
    <3>2. Alive(v) /\ pc'[v] = pc[v]
      BY <1>1, <3>1 DEF Alive, QueueTypeOK
    <3>3. pc[v] = "run" /\ held[v].key = k /\ HoldsClaim(v)
      BY <2>1, <3>1, <3>2 DEF ClaimInv, NoForgottenClaim
    <3> QED BY <1>1, <2>1, <3>2, <3>3 DEF HoldsClaim
  <2>4. \A v \in Workers, k \in Jobs : pc'[v] = "off" => ~Owned(k, v)'
    BY <1>1, <1>3, <2>1 DEF ClaimInv, Owned, Processing, QueueTypeOK
  <2> QED BY <1>3, <2>3, <2>4 DEF ClaimInv, FlockOwnsClaims
<1> QED BY <1>2, <1>3

\* Taking a job and renewing its lease: the row carries w's own string and the
\* epoch w will present, and no other live worker answers to that string.
LEMMA HoldClaims ==
  ASSUME QueueTypeOK, ClaimInv, NEW w \in Workers, NEW k \in Jobs, NEW row \in Row,
         Alive(w), \A j \in Jobs : Owned(j, w) => j \in stranded \/ j = k,
         jobs' = [jobs EXCEPT ![k] = row],
         row.state = "processing", row.owner = Owner[w],
         pc' = [pc EXCEPT ![w] = "run"], stranded' = stranded,
         \A v \in Workers : v # w => held'[v] = held[v],
         held'[w].key = k, held'[w].row.owner = row.owner, held'[w].row.epoch = row.epoch
  PROVE  ClaimInv'
<1>1. \A v \in Workers : Alive(v)' => Alive(v)
  BY DEF Alive, QueueTypeOK
<1>2. ASSUME NEW v \in Workers, NEW j \in Jobs, Owned(j, v)', Alive(v)', v # w
      PROVE  Owned(j, v) /\ jobs'[j] = jobs[j] /\ pc'[v] = pc[v] /\ held'[v] = held[v]
  <2>1. Owner[v] # Owner[w]
    BY <1>1, <1>2, OwnersDistinct
  <2>2. j # k
    BY <1>2, <2>1 DEF Owned, QueueTypeOK
  <2> QED BY <1>2, <2>2 DEF Owned, Processing, QueueTypeOK
<1>3. NoForgottenClaim'
  <2> SUFFICES ASSUME NEW j \in Jobs, NEW v \in Workers,
                      Alive(v)', Owned(j, v)', j \notin stranded'
               PROVE  (pc[v] = "run" /\ held[v].key = j /\ HoldsClaim(v))'
    BY DEF NoForgottenClaim
  <2>1. CASE v = w
    <3>1. j = k
      BY <2>1 DEF Owned, Processing, QueueTypeOK
    <3> QED BY <2>1, <3>1 DEF HoldsClaim, QueueTypeOK
  <2>2. CASE v # w
    <3>1. Owned(j, v) /\ jobs'[j] = jobs[j] /\ pc'[v] = pc[v] /\ held'[v] = held[v] /\ Alive(v)
      BY <1>1, <1>2, <2>2
    <3>2. pc[v] = "run" /\ held[v].key = j /\ HoldsClaim(v)
      BY <3>1 DEF ClaimInv, NoForgottenClaim
    <3> QED BY <3>1, <3>2 DEF HoldsClaim
  <2> QED BY <2>1, <2>2
<1>4. SingleFlight => \A u, v \in Workers : Alive(u)' /\ Alive(v)' => u = v
  BY <1>1 DEF ClaimInv
<1>5. FlockOwnsClaims'
  <2> SUFFICES ASSUME NEW j \in Jobs, NEW v \in Workers,
                      SingleFlight, Alive(v)', Processing(j)'
               PROVE  Owned(j, v)'
    BY DEF FlockOwnsClaims
  <2>1. v = w
    BY <1>1 DEF ClaimInv
  <2>2. CASE j = k
    BY <2>1, <2>2 DEF Owned, Processing, QueueTypeOK
  <2>3. CASE j # k
    <3>1. jobs'[j] = jobs[j]
      BY <2>3 DEF QueueTypeOK
    <3>2. Owned(j, v)
      BY <1>1, <3>1 DEF ClaimInv, FlockOwnsClaims, Processing
    <3> QED BY <3>1, <3>2 DEF Owned, Processing
  <2> QED BY <2>2, <2>3
<1>6. ASSUME ~SingleFlight, NEW v \in Workers, NEW j \in Jobs, pc'[v] = "off"
      PROVE  ~Owned(j, v)'
  <2>1. v # w /\ pc[v] = "off"
    BY <1>6 DEF QueueTypeOK
  <2>2. Owner[v] # Owner[w]
    BY <1>6, <2>1, QueueAssumption
  <2>3. ~Owned(j, v)
    BY <1>6, <2>1 DEF ClaimInv
  <2> QED BY <2>2, <2>3 DEF Owned, Processing, QueueTypeOK
<1> QED BY <1>3, <1>4, <1>5, <1>6 DEF ClaimInv

LEMMA TakeClaims ==
  ASSUME QueueTypeOK, ClaimInv, NEW w \in Workers, Take(w)
  PROVE  ClaimInv'
<1>0. pc[w] = "scan" /\ Alive(w) /\ stranded' = stranded
  BY DEF Take, Alive, history
<1>1. PICK c \in cands[w] :
        IF jobs[c.key].state = c.row.state
        THEN /\ jobs' = [jobs EXCEPT ![c.key] = Claimed(jobs[c.key], w, c.at)]
             /\ held' = [held EXCEPT ![w] =
                  [key |-> c.key, row |-> Claimed(c.row, w, c.at), stored |-> FALSE]]
             /\ turn' = [turn EXCEPT ![w] = @ \cup {c.key}]
             /\ cands' = [cands EXCEPT ![w] = {}]
             /\ pc' = [pc EXCEPT ![w] = "run"]
        ELSE /\ cands' = [cands EXCEPT ![w] = @ \ {c}]
             /\ UNCHANGED <<jobs, held, turn, pc>>
  BY DEF Take, Oldest
<1>2. c.key \in Jobs /\ c.row \in Row /\ c.at \in Nat
  BY DEF QueueTypeOK
<1>3. \A row \in Row : /\ Claimed(row, w, c.at) \in Row
                       /\ Claimed(row, w, c.at).state = "processing"
                       /\ Claimed(row, w, c.at).owner = Owner[w]
                       /\ Claimed(row, w, c.at).epoch = c.at
  BY <1>2, ClaimedTyped DEF Claimed, Row
<1>4. \A j \in Jobs : Owned(j, w) => j \in stranded
  BY <1>0 DEF ClaimInv, NoForgottenClaim
<1>5. CASE jobs[c.key].state = c.row.state
  <2> DEFINE row == Claimed(jobs[c.key], w, c.at)
             copy == Claimed(c.row, w, c.at)
             taken == [key |-> c.key, row |-> copy, stored |-> FALSE]
  <2>1. /\ jobs' = [jobs EXCEPT ![c.key] = row]
        /\ held' = [held EXCEPT ![w] = taken]
        /\ pc' = [pc EXCEPT ![w] = "run"]
    BY <1>1, <1>5, Zenon
  <2>2. /\ row \in Row /\ row.state = "processing"
        /\ row.owner = Owner[w] /\ row.epoch = c.at
        /\ copy.owner = Owner[w] /\ copy.epoch = c.at
    BY <1>2, <1>3 DEF QueueTypeOK
  <2>3. taken.key = c.key /\ taken.row = copy
    OBVIOUS
  <2>4. held'[w] = taken /\ \A v \in Workers : v # w => held'[v] = held[v]
    <3> HIDE DEF taken
    <3> QED BY <2>1 DEF QueueTypeOK
  <2> HIDE DEF taken, row, copy
  <2> QED BY <1>0, <1>2, <1>4, <2>1, <2>2, <2>3, <2>4, HoldClaims
<1>6. CASE jobs[c.key].state # c.row.state
  <2>1. UNCHANGED <<jobs, held, pc>>
    BY <1>1, <1>6, Zenon
  <2> QED BY <1>0, <2>1, QuietStep DEF Alive
<1> QED BY <1>5, <1>6

LEMMA HeartbeatClaims ==
  ASSUME QueueTypeOK, ClaimInv, OwnHand, NEW w \in Workers, heartbeat(w)
  PROVE  ClaimInv'
<1> DEFINE k == held[w].key
           row == [jobs[k] EXCEPT !.epoch = clock]
           copy == [held[w].row EXCEPT !.epoch = clock]
<1>1. k \in Jobs /\ pc[w] = "run" /\ Alive(w) /\ HoldsClaim(w) /\ stranded' = stranded
  BY DEF heartbeat, QueueTypeOK, Alive, history
<1>2. jobs' = [jobs EXCEPT ![k] = row] /\ held' = [held EXCEPT ![w] = [held[w] EXCEPT !.row = copy]]
  BY DEF heartbeat
<1>3. /\ row \in Row /\ row.state = "processing" /\ row.epoch = clock
      /\ row.owner = jobs[k].owner
  BY <1>1, EpochTyped DEF HoldsClaim, QueueTypeOK, Row
<1>4. copy.epoch = clock /\ copy.owner = held[w].row.owner
  BY DEF QueueTypeOK, Row
<1>5. row.owner = copy.owner
  BY <1>1, <1>3, <1>4 DEF HoldsClaim
<1>6. \A j \in Jobs : Owned(j, w) => j \in stranded \/ j = k
  BY <1>1 DEF ClaimInv, NoForgottenClaim
<1>7. /\ held'[w].key = k /\ held'[w].row = copy
      /\ \A v \in Workers : v # w => held'[v] = held[v]
  <2> HIDE DEF copy
  <2> QED BY <1>2 DEF QueueTypeOK
<1>8. pc' = [pc EXCEPT ![w] = "run"]
  BY <1>1 DEF heartbeat, QueueTypeOK
<1>9. row.owner = Owner[w]
  BY <1>1, <1>3 DEF HoldsClaim, OwnHand
<1> HIDE DEF row, copy
<1> QED BY <1>1, <1>2, <1>3, <1>4, <1>5, <1>6, <1>7, <1>8, <1>9, HoldClaims

\* Only Take starts a run, and it stamps the copy with the taker's string.
LEMMA HandKept ==
  ASSUME QueueTypeOK, OwnHand,
         \A v \in Workers : pc'[v] = "run" =>
           pc[v] = "run" /\ held'[v].row.owner = held[v].row.owner
  PROVE  OwnHand'
BY DEF OwnHand

LEMMA StepHand ==
  ASSUME QueueTypeOK, OwnHand, [Next]_vars
  PROVE  OwnHand'
<1>1. CASE UNCHANGED vars
  BY <1>1, HandKept DEF vars, worker
<1>2. CASE Asked
  <2>1. pc' = pc /\ held' = held
    BY <1>2 DEF Asked, enqueue_asr, request_retranscribe, request_regenerate,
                request_diarize, request_summary_language, Request, worker
  <2> QED BY <2>1, HandKept
<1>3. CASE Tick
  BY <1>3, HandKept DEF Tick, worker
<1>4. ASSUME NEW w \in Workers,
             \/ Start(w) \/ ReadClaims(w) \/ Repair(w) \/ Reconcile(w) \/ BeginDrain(w)
             \/ Select(w) \/ EndDrain(w)
      PROVE  OwnHand'
  <2>1. /\ held' = held
        /\ \E s \in {"idle", "repair", "adopt", "reconciled", "sweep", "drain", "scan"} :
             pc' = [pc EXCEPT ![w] = s]
    BY <1>4 DEF Start, ReadClaims, Repair, Reconcile, BeginDrain, Select, EndDrain
  <2> QED BY <2>1, HandKept DEF QueueTypeOK
<1>5. ASSUME NEW w \in Workers,
             Crash(w) \/ Complete(w) \/ Fail(w) \/ Defer(w) \/ Lost(w) \/ Abort(w)
      PROVE  OwnHand'
  <2>1. /\ held' = [held EXCEPT ![w] = Nothing]
        /\ \E s \in {"dead", "drain", "idle"} : pc' = [pc EXCEPT ![w] = s]
    BY <1>5 DEF Crash, Complete, complete, Fail, fail, Defer, Lost, Abort, Return
  <2> QED BY <2>1, HandKept DEF QueueTypeOK
<1>6. ASSUME NEW w \in Workers, Publish(w)
      PROVE  OwnHand'
  <2>1. pc' = pc /\ \A v \in Workers : held'[v].row = held[v].row
    BY <1>6 DEF Publish, QueueTypeOK
  <2> QED BY <2>1, HandKept
<1>7. ASSUME NEW w \in Workers, heartbeat(w)
      PROVE  OwnHand'
  <2> DEFINE copy == [held[w].row EXCEPT !.epoch = clock]
  <2>1. pc' = pc /\ held' = [held EXCEPT ![w] = [held[w] EXCEPT !.row = copy]]
    BY <1>7 DEF heartbeat
  <2>2. copy.owner = held[w].row.owner
    BY DEF QueueTypeOK, Row
  <2> HIDE DEF copy
  <2>3. \A v \in Workers : held'[v].row.owner = held[v].row.owner
    BY <2>1, <2>2 DEF QueueTypeOK
  <2> QED BY <2>1, <2>3, HandKept
<1>8. ASSUME NEW w \in Workers, Take(w)
      PROVE  OwnHand'
  <2>1. PICK c \in cands[w] :
          \/ /\ held' = [held EXCEPT ![w] =
                   [key |-> c.key, row |-> Claimed(c.row, w, c.at), stored |-> FALSE]]
             /\ pc' = [pc EXCEPT ![w] = "run"]
          \/ UNCHANGED <<held, pc>>
    BY <1>8, Zenon DEF Take, Oldest
  <2>2. c.row \in Row
    BY DEF QueueTypeOK
  <2> DEFINE copy == Claimed(c.row, w, c.at)
             taken == [key |-> c.key, row |-> copy, stored |-> FALSE]
  <2>3. copy.owner = Owner[w]
    BY <2>2 DEF Claimed, Row
  <2>4. taken.row = copy
    OBVIOUS
  <2>5. CASE held' = [held EXCEPT ![w] = taken] /\ pc' = [pc EXCEPT ![w] = "run"]
    <3> HIDE DEF taken, copy
    <3> QED BY <2>3, <2>4, <2>5 DEF OwnHand, QueueTypeOK
  <2>6. CASE UNCHANGED <<held, pc>>
    BY <2>6, HandKept
  <2> QED BY <2>1, <2>5, <2>6
<1> QED BY <1>1, <1>2, <1>3, <1>4, <1>5, <1>6, <1>7, <1>8 DEF Next, Work

LEMMA InitClaims == ASSUME Init PROVE ClaimInv /\ OwnHand
BY DEF Init, NoRow, Absent, ClaimInv, OwnHand, NoForgottenClaim, FlockOwnsClaims,
       Alive, Owned, Processing

LEMMA StepClaims ==
  ASSUME QueueTypeOK, ClaimInv, OwnHand, [Next]_vars
  PROVE  ClaimInv'
<1>1. CASE UNCHANGED vars
  BY <1>1, QuietStep DEF vars, queue, worker, history, Alive
<1>2. CASE Asked
  BY <1>2, AskedClaims
<1>3. CASE Tick
  BY <1>3, QuietStep DEF Tick, queue, worker, history, Alive
<1>4. ASSUME NEW w \in Workers, Work(w) PROVE ClaimInv'
  BY <1>4, RepairClaims, IdleClaims, TakeClaims, OutcomeClaims DEF Work
<1>5. ASSUME NEW w \in Workers, Start(w) \/ Crash(w) \/ heartbeat(w) \/ Abort(w)
      PROVE  ClaimInv'
  BY <1>5, StartClaims, IdleClaims, HeartbeatClaims, OutcomeClaims
<1> QED BY <1>1, <1>2, <1>3, <1>4, <1>5 DEF Next

\* The claim protocol's invariant holds for any number of workers, hosts and
\* recordings and any lease.
THEOREM ClaimCorrect == Spec => [](ClaimInv /\ OwnHand)
<1>1. Init => ClaimInv /\ OwnHand
  BY InitClaims
<1>2. QueueTypeOK /\ ClaimInv /\ OwnHand /\ [Next]_vars => (ClaimInv /\ OwnHand)'
  BY StepClaims, StepHand
<1>3. Spec => []QueueTypeOK
  BY QueueTyped
<1> QED BY <1>1, <1>2, <1>3, PTL DEF Spec

\* No process that is alive is ever named by a claim it is not working on,
\* except one whose completing transaction failed.
THEOREM NoForgottenClaimHolds == Spec => []NoForgottenClaim
<1>1. ClaimInv => NoForgottenClaim
  BY DEF ClaimInv
<1> QED BY <1>1, ClaimCorrect, PTL

\* Under the connector's flock every claim in the table is the job the started
\* process is running, or one whose completing transaction failed.
THEOREM NoInheritedClaimHolds == Spec => []NoInheritedClaim
<1>1. ClaimInv => NoInheritedClaim
  <2> SUFFICES ASSUME ClaimInv, NEW k \in Jobs, NEW w \in Workers,
                      SingleFlight, Alive(w), Processing(k), k \notin stranded
               PROVE  pc[w] = "run" /\ held[w].key = k /\ HoldsClaim(w)
    BY DEF NoInheritedClaim
  <2>1. Owned(k, w)
    BY DEF ClaimInv, FlockOwnsClaims
  <2> QED BY <2>1 DEF ClaimInv, NoForgottenClaim
<1> QED BY <1>1, ClaimCorrect, PTL

-----------------------------------------------------------------------------
(* What a step may do to a row, and who does it *)

\* A claim no process is believed to hold goes back to the queue.
LetGo(k) ==
  /\ Processing(k) /\ jobs'[k].state = "queued"
  /\ \/ SingleFlight /\ \A v \in Workers : ~Alive(v)
     \/ \E v \in Workers : /\ pc[v] \in {"repair", "sweep"}
                           /\ \E c \in Abandoned(v) : c.key = k

\* A row that is missing or closed is queued, by a request or a repair pass.
Reset(k) == ~Open(jobs[k]) /\ jobs'[k].state = "queued"

TakenBy(w, k) ==
  /\ pc[w] = "scan" /\ pc'[w] = "run" /\ held'[w].key = k
  /\ jobs[k].state \in {"queued", "retry_wait"}
  /\ jobs'[k].owner = Owner[w]

RenewedBy(w, k) == heartbeat(w) /\ held[w].key = k

\* The holder of the claim records what became of the job.
JudgedBy(w, k) ==
  /\ pc[w] = "run" /\ held[w].key = k /\ HoldsClaim(w)
  /\ held'[w] = Nothing
  /\ jobs'[k].state # "processing"
  /\ jobs'[k].state = "done" => Complete(w)

\* A finished predecessor starts the row afresh, whatever it was doing.
RestartedBy(w, k) ==
  /\ Complete(w) /\ HoldsClaim(w)
  /\ held[w].key[1] = k[1] /\ NEXT_STAGE[Stage(w)] = k[2]
  /\ jobs'[held[w].key].state = "done"
  /\ jobs'[k].state = "queued"

\* What a worker has read is of the past, and claim_next read rows to run.
CandsRead ==
  \A w \in Workers : \A c \in cands[w] :
    /\ c.at <= clock
    /\ pc[w] = "scan" => c.row.state \in {"queued", "retry_wait"}

LEMMA AskedRows ==
  ASSUME QueueTypeOK, Asked, NEW k \in Jobs, jobs'[k] # jobs[k]
  PROVE  Reset(k)
<1>1. PICK r \in Recordings :
        \/ enqueue_asr(r) \/ request_retranscribe(r) \/ request_regenerate(r)
        \/ request_diarize(r) \/ request_summary_language(r)
  BY DEF Asked
<1>2. ASSUME NEW j \in Jobs, NEW b \in BOOLEAN, Request(j, b)
      PROVE  Reset(k)
  <2>1. NewRow(nextSeq, b).state = "queued" /\ Requeued(jobs[j], b).state = "queued"
    BY StatesAfter DEF QueueTypeOK
  <2>2. ~Open(jobs[j]) /\ \A i \in Jobs : i # j => jobs'[i] = jobs[i]
    BY <1>2 DEF Request, QueueTypeOK
  <2>3. jobs'[j].state = "queued"
    BY <1>2, <2>1 DEF Request, QueueTypeOK
  <2> QED BY <2>2, <2>3 DEF Reset
<1>3. CASE enqueue_asr(r)
  <2> DEFINE j == <<r, "asr">>
             row == NewRow(nextSeq, FALSE)
  <2>1. row.state = "queued" /\ j \in Jobs
    BY StatesAfter DEF QueueTypeOK, Stages, Jobs
  <2>2. jobs[j].state = Absent /\ jobs' = [jobs EXCEPT ![j] = row]
    BY <1>3, Zenon DEF enqueue_asr, Enqueue
  <2>3. ~Open(jobs[j])
    BY <2>2 DEF Open, OPEN_STATES, Absent
  <2> HIDE DEF row, j
  <2> QED BY <2>1, <2>2, <2>3 DEF QueueTypeOK, Reset
<1>4. \A s \in Stages : <<r, s>> \in Jobs
  BY DEF Jobs
<1> QED BY <1>1, <1>2, <1>3, <1>4 DEF request_retranscribe, request_regenerate,
          request_diarize, request_summary_language, Stages

LEMMA RepairRows ==
  ASSUME QueueTypeOK, NEW w \in Workers,
         Start(w) \/ Repair(w) \/ Reconcile(w) \/ BeginDrain(w),
         NEW k \in Jobs, jobs'[k] # jobs[k]
  PROVE  LetGo(k) \/ Reset(k)
<1>1. ASSUME NEW copies, recover_stale(copies)
      PROVE  /\ Processing(k) /\ jobs'[k].state = "queued"
             /\ \E c \in copies : c.key = k
  <2>1. jobs' = Recovered(Swept(copies))
    BY <1>1, RecoverStaleIs
  <2>2. k \in Swept(copies)
    BY <2>1 DEF Recovered
  <2>3. Released(jobs[k], "queued").state = "queued"
    BY StatesAfter DEF QueueTypeOK, States, OPEN_STATES
  <2> QED BY <2>1, <2>2, <2>3 DEF Swept, Recovered
<1>2. CASE Start(w)
  BY <1>1, <1>2 DEF Start, LetGo
<1>3. CASE Repair(w) \/ BeginDrain(w)
  BY <1>1, <1>3 DEF Repair, BeginDrain, LetGo
<1>4. CASE Reconcile(w)
  <2>0. PICK ks \in SUBSET Jobs :
          /\ Adoption(ks)
          /\ \E number : /\ jobs' = Adopted(ks, number)
                         /\ \A j \in ks : jobs[j].state = Absent => number[j] \in Nat
    BY <1>4, AdoptionIs
  <2>1. PICK number : /\ jobs' = Adopted(ks, number)
                      /\ \A j \in ks : jobs[j].state = Absent => number[j] \in Nat
    BY <2>0
  <2>2. k \in ks => jobs[k].state \in {"failed", Absent}
    BY <2>0 DEF Adoption, Revivable, Missing, Undiarized
  <2>3. k \in ks /\ jobs'[k].state = "queued"
    BY <2>1, StatesAfter DEF Adopted, QueueTypeOK
  <2> QED BY <2>2, <2>3 DEF Reset, Open, OPEN_STATES, Absent
<1> QED BY <1>2, <1>3, <1>4

\* The compare-and-swap, as the row and the copy see it.
LEMMA TakeIs ==
  ASSUME QueueTypeOK, NEW w \in Workers, Take(w)
  PROVE  \E c \in cands[w] :
           \/ /\ jobs[c.key].state = c.row.state
              /\ jobs' = [jobs EXCEPT ![c.key] = Claimed(jobs[c.key], w, c.at)]
              /\ held' = [held EXCEPT ![w] =
                   [key |-> c.key, row |-> Claimed(c.row, w, c.at), stored |-> FALSE]]
              /\ pc' = [pc EXCEPT ![w] = "run"]
              /\ cands' = [cands EXCEPT ![w] = {}]
           \/ /\ UNCHANGED <<jobs, held, pc>>
              /\ cands' = [cands EXCEPT ![w] = @ \ {c}]
BY Zenon DEF Take, Oldest

LEMMA TakeRows ==
  ASSUME QueueTypeOK, CandsRead, NEW w \in Workers, Take(w),
         NEW k \in Jobs, jobs'[k] # jobs[k]
  PROVE  TakenBy(w, k)
<1>1. PICK c \in cands[w] :
        /\ jobs[c.key].state = c.row.state
        /\ jobs' = [jobs EXCEPT ![c.key] = Claimed(jobs[c.key], w, c.at)]
        /\ held' = [held EXCEPT ![w] =
             [key |-> c.key, row |-> Claimed(c.row, w, c.at), stored |-> FALSE]]
        /\ pc' = [pc EXCEPT ![w] = "run"]
  BY TakeIs
<1>2. c.key \in Jobs /\ c.row.state \in {"queued", "retry_wait"}
  BY DEF QueueTypeOK, CandsRead, Take
<1> DEFINE row == Claimed(jobs[c.key], w, c.at)
           taken == [key |-> c.key, row |-> Claimed(c.row, w, c.at), stored |-> FALSE]
<1>3. row.owner = Owner[w]
  BY <1>2 DEF QueueTypeOK, Claimed, Row
<1>4. taken.key = c.key
  OBVIOUS
<1>5. pc[w] = "scan"
  BY DEF Take
<1> HIDE DEF row, taken
<1> QED BY <1>1, <1>2, <1>3, <1>4, <1>5 DEF TakenBy, QueueTypeOK, row, taken

\* How a run ends: the copy is dropped, and only a held row changes.
LEMMA OutcomeIs ==
  ASSUME QueueTypeOK, NEW w \in Workers,
         Complete(w) \/ Fail(w) \/ Defer(w) \/ Lost(w) \/ Abort(w)
  PROVE  /\ held[w].key \in Jobs /\ pc[w] = "run"
         /\ held' = [held EXCEPT ![w] = Nothing]
         /\ \E s \in {"drain", "idle"} : pc' = [pc EXCEPT ![w] = s]
         /\ overtaken' = overtaken \ {w} /\ text' = text /\ cands' = cands
BY DEF Complete, complete, Fail, fail, Defer, Lost, Abort, Return, QueueTypeOK, archive

LEMMA OutcomeRows ==
  ASSUME QueueTypeOK, NEW w \in Workers,
         Complete(w) \/ Fail(w) \/ Defer(w) \/ Lost(w) \/ Abort(w),
         NEW k \in Jobs, jobs'[k] # jobs[k]
  PROVE  JudgedBy(w, k) \/ RestartedBy(w, k)
<1> DEFINE mine == held[w].key
<1>1. mine \in Jobs /\ jobs[mine] \in Row /\ pc[w] = "run" /\ held'[w] = Nothing
  BY OutcomeIs DEF QueueTypeOK
<1>2. ASSUME NEW row \in Row, row.state \notin {"processing", "done"},
             jobs' = IF HoldsClaim(w) THEN [jobs EXCEPT ![mine] = row] ELSE jobs
      PROVE  JudgedBy(w, k)
  BY <1>1, <1>2 DEF QueueTypeOK, JudgedBy
<1>3. CASE Fail(w)
  <2>1. PICK kind \in {"transient", "strike", "tool"} : fail(w, kind)
    BY <1>3 DEF Fail
  <2> DEFINE verdict == Failure(held[w].row, kind)
             row == [Released(jobs[mine], verdict.state) EXCEPT
                       !.attempts = verdict.attempts, !.tools = verdict.tools]
  <2>2. row \in Row /\ row.state \notin {"processing", "done"}
    <3>1. /\ verdict.state \in States /\ verdict.state \notin {"processing", "done"}
          /\ verdict.attempts \in Nat /\ verdict.tools \in Nat
      BY FailureTyped DEF States, OPEN_STATES, QueueTypeOK
    <3>2. /\ Released(jobs[mine], verdict.state) \in Row
          /\ Released(jobs[mine], verdict.state).state = verdict.state
      BY <1>1, <3>1, RowsTyped, StatesAfter
    <3>3. \A q \in Row, m, n \in Nat :
            /\ [q EXCEPT !.attempts = m, !.tools = n] \in Row
            /\ [q EXCEPT !.attempts = m, !.tools = n].state = q.state
      BY DEF Row
    <3> HIDE DEF verdict
    <3> QED BY <3>1, <3>2, <3>3
  <2>3. jobs' = IF HoldsClaim(w) THEN [jobs EXCEPT ![mine] = row] ELSE jobs
    BY <2>1, Zenon DEF fail
  <2> HIDE DEF row
  <2> QED BY <1>2, <2>2, <2>3
<1>4. CASE Defer(w)
  <2> DEFINE row == Released(jobs[mine], "queued")
  <2>1. row \in Row /\ row.state \notin {"processing", "done"}
    BY <1>1, RowsTyped, StatesAfter DEF States, OPEN_STATES
  <2>2. jobs' = IF HoldsClaim(w) THEN [jobs EXCEPT ![mine] = row] ELSE jobs
    BY <1>4, Zenon DEF Defer
  <2> HIDE DEF row
  <2> QED BY <1>2, <2>1, <2>2
<1>5. CASE Lost(w) \/ Abort(w)
  BY <1>5 DEF Lost, Abort, queue
<1>6. CASE Complete(w)
  <2>1. Stage(w) \in Stages
    BY <1>6, QueueAssumption DEF Complete
  <2>2. PICK next \in {NEXT_STAGE[Stage(w)], STOP} : complete(w, next)
    BY <1>6 DEF Complete
  <2> DEFINE forced == held[w].row.replace
             succ == <<mine[1], next>>
             final == [Released(jobs[mine], "done") EXCEPT !.replace = FALSE]
             done == [jobs EXCEPT ![mine] = final]
             after == Successor(done[succ], forced)
  <2>3. final.state = "done"
    <3>1. /\ Released(jobs[mine], "done") \in Row
          /\ Released(jobs[mine], "done").state = "done"
      BY <1>1, RowsTyped, StatesAfter DEF States
    <3>2. \A q \in Row : [q EXCEPT !.replace = FALSE].state = q.state
      BY DEF Row
    <3> QED BY <3>1, <3>2
  <2>4. HoldsClaim(w)
    BY <2>2, Zenon DEF complete, queue
  <2>5. jobs' = done \/ (next # STOP /\ jobs' = [done EXCEPT ![succ] = after])
    BY <2>2, <2>4, Zenon DEF complete
  <2>6. mine = <<mine[1], Stage(w)>> /\ NEXT_STAGE[Stage(w)] # Stage(w)
    BY <1>1, <2>1 DEF Jobs, Stage, NEXT_STAGE, Stages, STOP
  <2>7. next # STOP => next = NEXT_STAGE[Stage(w)] /\ succ # mine
    BY <2>6
  <2>8. DOMAIN jobs = Jobs
    BY DEF QueueTypeOK
  <2>9. jobs'[mine].state = "done"
    <3> HIDE DEF succ, after, final, mine
    <3> QED BY <1>1, <2>3, <2>5, <2>7, <2>8
  <2>10. CASE k = mine
    BY <1>1, <1>6, <2>4, <2>9, <2>10 DEF JudgedBy
  <2>11. CASE k # mine
    <3>1. k = succ /\ next # STOP /\ jobs'[k] = after /\ done[k] = jobs[k]
      <4> HIDE DEF succ, after, final, mine
      <4> QED BY <1>1, <2>5, <2>8, <2>11
    <3>2. forced \in BOOLEAN
      BY DEF QueueTypeOK, Row
    <3>3. NewRow(nextSeq, forced).state = "queued" /\ Requeued(jobs[k], TRUE).state = "queued"
      BY <3>2, StatesAfter DEF QueueTypeOK
    <3>4. after \in {NewRow(nextSeq, forced), Requeued(jobs[k], TRUE), jobs[k]}
      <4>1. after = Successor(jobs[k], forced)
        BY <3>1
      <4> HIDE DEF after
      <4> QED BY <4>1 DEF Successor
    <3>5. jobs'[k].state = "queued"
      BY <3>1, <3>3, <3>4
    <3>6. mine[1] = k[1] /\ NEXT_STAGE[Stage(w)] = k[2]
      BY <2>7, <3>1
    <3> QED BY <1>6, <2>4, <2>9, <3>5, <3>6 DEF RestartedBy
  <2> QED BY <2>10, <2>11
<1> QED BY <1>3, <1>4, <1>5, <1>6

\* Every way a row can change, and the process that changes it.
LEMMA RowStep ==
  ASSUME QueueTypeOK, CandsRead, [Next]_vars, NEW k \in Jobs, jobs'[k] # jobs[k]
  PROVE  \/ LetGo(k) \/ Reset(k)
         \/ \E w \in Workers : \/ TakenBy(w, k) \/ RenewedBy(w, k)
                               \/ JudgedBy(w, k) \/ RestartedBy(w, k)
<1>1. CASE UNCHANGED vars
  BY <1>1 DEF vars, queue
<1>2. CASE Asked
  BY <1>2, AskedRows
<1>3. CASE Tick
  BY <1>3 DEF Tick, queue
<1>4. ASSUME NEW w \in Workers,
             Crash(w) \/ ReadClaims(w) \/ Select(w) \/ EndDrain(w) \/ Publish(w)
      PROVE  FALSE
  BY <1>4 DEF Crash, ReadClaims, Select, EndDrain, Publish, queue
<1>5. ASSUME NEW w \in Workers, heartbeat(w)
      PROVE  RenewedBy(w, k)
  BY <1>5 DEF heartbeat, RenewedBy, QueueTypeOK
<1> QED BY <1>1, <1>2, <1>3, <1>4, <1>5, RepairRows, TakeRows, OutcomeRows DEF Next, Work

-----------------------------------------------------------------------------
(* What a step may do to a worker's hand *)

LEMMA HandStep ==
  ASSUME QueueTypeOK, [Next]_vars, NEW w \in Workers
  PROVE  \/ (pc'[w] = "run" <=> pc[w] = "run") /\ held'[w] = held[w]
         \/ Take(w) \/ heartbeat(w) \/ Publish(w)
         \/ pc'[w] # "run" /\ held'[w] = Nothing /\ w \notin overtaken'
<1> DEFINE Same == (pc'[w] = "run" <=> pc[w] = "run") /\ held'[w] = held[w]
           Ended == pc'[w] # "run" /\ held'[w] = Nothing /\ w \notin overtaken'
<1>1. CASE UNCHANGED vars
  BY <1>1 DEF vars, worker
<1>2. CASE Asked
  BY <1>2 DEF Asked, enqueue_asr, request_retranscribe, request_regenerate,
              request_diarize, request_summary_language, Request, worker
<1>3. CASE Tick
  BY <1>3 DEF Tick, worker
<1>4. ASSUME NEW v \in Workers,
             \/ Start(v) \/ ReadClaims(v) \/ Repair(v) \/ Reconcile(v) \/ BeginDrain(v)
             \/ Select(v) \/ EndDrain(v)
      PROVE  Same
  <2>1. /\ held' = held /\ pc[v] # "run"
        /\ \E s \in {"idle", "repair", "adopt", "reconciled", "sweep", "drain", "scan"} :
             pc' = [pc EXCEPT ![v] = s]
    BY <1>4 DEF Start, ReadClaims, Repair, Reconcile, BeginDrain, Select, EndDrain
  <2> QED BY <2>1 DEF QueueTypeOK
<1>5. ASSUME NEW v \in Workers,
             Complete(v) \/ Fail(v) \/ Defer(v) \/ Lost(v) \/ Abort(v)
      PROVE  Same \/ Ended
  BY <1>5, OutcomeIs DEF QueueTypeOK
<1>6. ASSUME NEW v \in Workers, Crash(v)
      PROVE  Same \/ Ended
  BY <1>6 DEF Crash, QueueTypeOK
<1>7. ASSUME NEW v \in Workers, v # w, Publish(v) \/ heartbeat(v)
      PROVE  Same
  BY <1>7 DEF Publish, heartbeat, QueueTypeOK
<1>8. ASSUME NEW v \in Workers, v # w, Take(v)
      PROVE  Same
  BY <1>8, TakeIs DEF QueueTypeOK
<1> QED BY <1>1, <1>2, <1>3, <1>4, <1>5, <1>6, <1>7, <1>8 DEF Next, Work

\* Of the workers running one job at most one holds the claim.
LEMMA OneHolder ==
  ASSUME ClaimInv, OwnHand, NEW v \in Workers, NEW w \in Workers,
         pc[v] = "run", pc[w] = "run", held[v].key = held[w].key,
         HoldsClaim(v), HoldsClaim(w)
  PROVE  v = w
BY OwnersDistinct DEF OwnHand, HoldsClaim, Alive

\* A worker that has lost its claim does not come by it again while it runs.
LEMMA NoReclaim ==
  ASSUME QueueTypeOK, ClaimInv, OwnHand, CandsRead, [Next]_vars,
         NEW w \in Workers, pc[w] = "run", held'[w] = held[w], ~HoldsClaim(w)
  PROVE  ~HoldsClaim(w)'
<1> DEFINE k == held[w].key
<1>1. k \in Jobs
  BY DEF QueueTypeOK
<1>2. CASE jobs'[k] = jobs[k]
  BY <1>2 DEF HoldsClaim
<1>3. CASE jobs'[k] # jobs[k]
  <2>1. ASSUME NEW v \in Workers, TakenBy(v, k) PROVE ~HoldsClaim(w)'
    <3>1. Owner[v] # Owner[w]
      BY <2>1, OwnersDistinct DEF TakenBy, Alive
    <3> QED BY <2>1, <3>1 DEF TakenBy, HoldsClaim, OwnHand
  <2>2. ASSUME NEW v \in Workers, RenewedBy(v, k) PROVE ~HoldsClaim(w)'
    <3>1. HoldsClaim(v) /\ pc[v] = "run" /\ held[v].key = k
      BY <2>2 DEF RenewedBy, heartbeat
    <3>2. Owner[v] # Owner[w]
      BY <3>1, OwnersDistinct DEF Alive
    <3>3. jobs'[k].owner = Owner[v]
      <4>1. jobs' = [jobs EXCEPT ![k] = [jobs[k] EXCEPT !.epoch = clock]]
        BY <2>2 DEF RenewedBy, heartbeat
      <4>2. [jobs[k] EXCEPT !.epoch = clock].owner = jobs[k].owner
        BY <1>1 DEF QueueTypeOK, Row
      <4>3. jobs[k].owner = Owner[v]
        BY <3>1 DEF HoldsClaim, OwnHand
      <4> QED BY <1>1, <4>1, <4>2, <4>3 DEF QueueTypeOK
    <3> QED BY <3>2, <3>3 DEF HoldsClaim, OwnHand
  <2>3. jobs'[k].state # "processing" => ~HoldsClaim(w)'
    BY DEF HoldsClaim
  <2> QED BY <1>1, <1>3, <2>1, <2>2, <2>3, RowStep DEF LetGo, Reset, JudgedBy, RestartedBy
<1> QED BY <1>2, <1>3

-----------------------------------------------------------------------------
(* Publication *)

\* Who holds the claim on ASR work it has published is the publisher.
StoredIsMine ==
  \A w \in Workers : pc[w] = "run" /\ held[w].stored =>
    /\ Stage(w) = "asr"
    /\ HoldsClaim(w) => text[Recording(w)] = w

\* Who was overtaken has lost its claim.
OvertakenLost == \A w \in overtaken : pc[w] = "run" /\ ~HoldsClaim(w)

PublicationInv == CandsRead /\ StoredIsMine /\ OvertakenLost

LEMMA StepCands ==
  ASSUME QueueTypeOK, CandsRead, [Next]_vars
  PROVE  CandsRead'
<1>0. clock \in Nat /\ clock' \in {clock, clock + 1}
  <2>1. CASE Asked
    BY <2>1 DEF Asked, enqueue_asr, request_retranscribe, request_regenerate,
                request_diarize, request_summary_language, Request, QueueTypeOK
  <2>2. CASE Tick \/ UNCHANGED vars
    BY <2>2 DEF Tick, vars, QueueTypeOK
  <2>3. ASSUME NEW w \in Workers, Start(w) \/ Crash(w) \/ Work(w) \/ heartbeat(w) \/ Abort(w)
        PROVE  clock' = clock
    BY <2>3, Zenon DEF Work, Start, Crash, heartbeat, Abort, ReadClaims, Repair, Reconcile,
          BeginDrain, Select, Take, EndDrain, Publish, Complete, complete, Fail, fail, Defer,
          Lost, Return
  <2> QED BY <2>1, <2>2, <2>3 DEF Next, QueueTypeOK
<1>1. ASSUME \A w \in Workers : /\ cands'[w] \subseteq cands[w]
                                /\ pc'[w] = "scan" => pc[w] = "scan" \/ cands'[w] = {}
      PROVE  CandsRead'
  BY <1>0, <1>1 DEF CandsRead, QueueTypeOK
<1>2. CASE UNCHANGED vars
  BY <1>1, <1>2 DEF vars, worker
<1>3. CASE Asked
  BY <1>1, <1>3 DEF Asked, enqueue_asr, request_retranscribe, request_regenerate,
              request_diarize, request_summary_language, Request, worker
<1>4. CASE Tick
  BY <1>1, <1>4 DEF Tick, worker
<1>5. ASSUME NEW w \in Workers,
             \/ Start(w) \/ Crash(w) \/ Repair(w) \/ Reconcile(w) \/ BeginDrain(w)
             \/ EndDrain(w) \/ Publish(w) \/ heartbeat(w)
      PROVE  CandsRead'
  BY <1>1, <1>5 DEF Start, Crash, Repair, Reconcile, BeginDrain, EndDrain, Publish, heartbeat,
                    QueueTypeOK
<1>6. ASSUME NEW w \in Workers,
             Complete(w) \/ Fail(w) \/ Defer(w) \/ Lost(w) \/ Abort(w)
      PROVE  CandsRead'
  BY <1>1, <1>6, OutcomeIs DEF QueueTypeOK
<1>8. ASSUME NEW w \in Workers, Take(w) PROVE CandsRead'
  <2>1. PICK d \in cands[w] :
          \/ pc' = [pc EXCEPT ![w] = "run"] /\ cands' = [cands EXCEPT ![w] = {}]
          \/ pc' = pc /\ cands' = [cands EXCEPT ![w] = @ \ {d}]
    BY <1>8, TakeIs
  <2> QED BY <1>1, <2>1 DEF QueueTypeOK
<1>9. ASSUME NEW w \in Workers, Select(w) \/ ReadClaims(w) PROVE CandsRead'
  <2>1. /\ clock' = clock
        /\ \E ks \in SUBSET Jobs :
             /\ cands' = [cands EXCEPT ![w] = Copies(ks)]
             /\ \/ \A k \in ks : jobs[k].state \in {"queued", "retry_wait"}
                \/ pc'[w] # "scan"
        /\ \A v \in Workers : v # w => pc'[v] = pc[v]
    <3>1. CASE Select(w)
      <4>1. Eligible(w) \in SUBSET Jobs /\ \A k \in Eligible(w) : jobs[k].state \in {"queued", "retry_wait"}
        BY DEF Eligible, Runnable
      <4>2. cands' = [cands EXCEPT ![w] = Copies(Eligible(w))]
        BY <3>1 DEF Select
      <4> QED BY <3>1, <4>1, <4>2 DEF Select, QueueTypeOK
    <3>2. CASE ReadClaims(w)
      <4>1. cands' = [cands EXCEPT ![w] = Copies({k \in Jobs : Processing(k)})]
        BY <3>2 DEF ReadClaims
      <4>2. clock' = clock /\ pc'[w] # "scan" /\ \A v \in Workers : v # w => pc'[v] = pc[v]
        BY <3>2 DEF ReadClaims, QueueTypeOK
      <4> QED BY <4>1, <4>2
    <3> QED BY <1>9, <3>1, <3>2
  <2>2. \A ks, c : c \in Copies(ks) => \E k \in ks : c.row = jobs[k] /\ c.at = clock
    BY DEF Copies
  <2> QED BY <1>0, <2>1, <2>2 DEF CandsRead, QueueTypeOK
<1> QED BY <1>2, <1>3, <1>4, <1>5, <1>6, <1>8, <1>9 DEF Next, Work

\* Only a publication touches the transcript, or leaves somebody behind.
LEMMA TextStep ==
  ASSUME QueueTypeOK, [Next]_vars
  PROVE  \/ text' = text /\ overtaken' \subseteq overtaken
         \/ \E w \in Workers : Publish(w)
<1> DEFINE Kept == text' = text /\ overtaken' \subseteq overtaken
<1>1. CASE UNCHANGED vars
  BY <1>1 DEF vars, archive, history
<1>2. CASE Asked
  BY <1>2 DEF Asked, enqueue_asr, request_retranscribe, request_regenerate,
              request_diarize, request_summary_language, Request, archive, history
<1>3. CASE Tick
  BY <1>3 DEF Tick, archive, history
<1>4. ASSUME NEW w \in Workers,
             \/ Start(w) \/ Crash(w) \/ ReadClaims(w) \/ Repair(w) \/ Reconcile(w)
             \/ BeginDrain(w) \/ Select(w) \/ Take(w) \/ EndDrain(w) \/ heartbeat(w)
      PROVE  Kept
  BY <1>4 DEF Start, Crash, ReadClaims, Repair, Reconcile, BeginDrain, Select, Take, EndDrain, heartbeat,
              archive, history
<1>5. ASSUME NEW w \in Workers,
             Complete(w) \/ Fail(w) \/ Defer(w) \/ Lost(w) \/ Abort(w)
      PROVE  Kept
  BY <1>5, OutcomeIs
<1> QED BY <1>1, <1>2, <1>3, <1>4, <1>5 DEF Next, Work

\* A publisher holds its claim when it publishes and keeps it.
LEMMA PublishIs ==
  ASSUME QueueTypeOK, NEW w \in Workers, Publish(w)
  PROVE  /\ pc[w] = "run" /\ pc' = pc /\ HoldsClaim(w) /\ jobs' = jobs
         /\ Stage(w) = "asr" /\ held[w].key = <<Recording(w), "asr">>
         /\ Recording(w) \in Recordings
         /\ text' = [text EXCEPT ![Recording(w)] = w]
         /\ \A v \in Workers : v # w => held'[v] = held[v]
         /\ held'[w].key = held[w].key /\ held'[w].row = held[w].row /\ held'[w].stored
         /\ overtaken' = overtaken \cup
              {v \in Workers \ {w} : pc[v] = "run" /\ held[v].key = held[w].key}
<1>1. held[w].key \in Jobs
  BY DEF Publish, QueueTypeOK
<1>2. held[w].key = <<Recording(w), "asr">> /\ Recording(w) \in Recordings
  BY <1>1 DEF Publish, Jobs, Stage, Recording
<1>3. held' = [held EXCEPT ![w] = [held[w] EXCEPT !.stored = TRUE]]
  BY DEF Publish
<1>4. /\ [held[w] EXCEPT !.stored = TRUE].key = held[w].key
      /\ [held[w] EXCEPT !.stored = TRUE].row = held[w].row
      /\ [held[w] EXCEPT !.stored = TRUE].stored = TRUE
  BY DEF QueueTypeOK
<1>5. /\ held'[w] = [held[w] EXCEPT !.stored = TRUE]
      /\ \A v \in Workers : v # w => held'[v] = held[v]
  BY <1>3 DEF QueueTypeOK
<1> QED BY <1>2, <1>4, <1>5 DEF Publish, queue

LEMMA StepOvertaken ==
  ASSUME QueueTypeOK, ClaimInv, OwnHand, PublicationInv, [Next]_vars
  PROVE  OvertakenLost'
<1> SUFFICES ASSUME NEW w \in overtaken' PROVE (pc[w] = "run" /\ ~HoldsClaim(w))'
  BY DEF OvertakenLost
<1>1. CASE w \in overtaken
  <2>1. w \in Workers /\ pc[w] = "run" /\ ~HoldsClaim(w)
    BY <1>1 DEF PublicationInv, OvertakenLost, QueueTypeOK
  <2>2. ~Take(w) /\ ~heartbeat(w) /\ ~Publish(w)
    BY <2>1 DEF Take, heartbeat, Publish
  <2>3. pc'[w] = "run" /\ held'[w] = held[w]
    BY <2>1, <2>2, HandStep
  <2> QED BY <2>1, <2>3, NoReclaim DEF PublicationInv
<1>2. CASE w \notin overtaken
  <2>1. PICK v \in Workers : Publish(v)
    BY <1>2, TextStep
  <2>2. w \in Workers /\ w # v /\ pc[w] = "run" /\ held[w].key = held[v].key
    BY <1>2, <2>1, PublishIs
  <2>3. ~HoldsClaim(w)
    BY <2>1, <2>2, PublishIs, OneHolder
  <2>4. pc'[w] = "run" /\ held'[w] = held[w] /\ jobs' = jobs
    BY <2>1, <2>2, PublishIs
  <2> QED BY <2>3, <2>4 DEF HoldsClaim
<1> QED BY <1>1, <1>2

LEMMA StepStored ==
  ASSUME QueueTypeOK, QueueTypeOK', ClaimInv, OwnHand, PublicationInv, [Next]_vars
  PROVE  StoredIsMine'
<1> SUFFICES ASSUME NEW w \in Workers, pc'[w] = "run", held'[w].stored
             PROVE  (Stage(w) = "asr" /\ (HoldsClaim(w) => text[Recording(w)] = w))'
  BY DEF StoredIsMine
<1>1. CASE Publish(w)
  <2>1. Stage(w)' = "asr" /\ Recording(w)' = Recording(w)
    BY <1>1, PublishIs DEF Stage, Recording
  <2>2. text'[Recording(w)] = w
    BY <1>1, PublishIs DEF QueueTypeOK
  <2> QED BY <2>1, <2>2
<1>2. CASE ~Publish(w) /\ pc[w] = "run" /\ held'[w].stored = held[w].stored
           /\ held'[w].key = held[w].key /\ (HoldsClaim(w)' => HoldsClaim(w))
  <2>1. Stage(w) = "asr" /\ (HoldsClaim(w) => text[Recording(w)] = w)
    BY <1>2 DEF PublicationInv, StoredIsMine
  <2>2. Stage(w)' = Stage(w) /\ Recording(w)' = Recording(w)
    BY <1>2 DEF Stage, Recording
  <2>3. HoldsClaim(w) => text'[Recording(w)] = text[Recording(w)]
    <3> SUFFICES ASSUME HoldsClaim(w), NEW v \in Workers, Publish(v)
                 PROVE  text'[Recording(w)] = text[Recording(w)]
      BY TextStep
    <3>1. v # w
      BY <1>2
    <3>2. held[v].key # held[w].key
      BY <1>2, <3>1, PublishIs, OneHolder
    <3>3. held[w].key \in Jobs
      BY <1>2 DEF QueueTypeOK
    <3>4. held[w].key = <<Recording(w), "asr">> /\ Recording(w) \in Recordings
      BY <2>1, <3>3 DEF Jobs, Stage, Recording
    <3>5. Recording(v) # Recording(w)
      BY <3>2, <3>4, PublishIs
    <3> QED BY <3>4, <3>5, PublishIs DEF QueueTypeOK
  <2> QED BY <1>2, <2>1, <2>2, <2>3
<1>3. CASE Take(w)
  <2>1. PICK c \in cands[w] :
          \/ held' = [held EXCEPT ![w] =
               [key |-> c.key, row |-> Claimed(c.row, w, c.at), stored |-> FALSE]]
          \/ UNCHANGED <<jobs, held, pc>>
    BY <1>3, TakeIs
  <2>2. [key |-> c.key, row |-> Claimed(c.row, w, c.at), stored |-> FALSE].stored = FALSE
    OBVIOUS
  <2>3. pc[w] # "run"
    BY <1>3 DEF Take
  <2> QED BY <2>1, <2>2, <2>3 DEF QueueTypeOK
<1>4. CASE heartbeat(w)
  <2>1. held' = [held EXCEPT ![w] = [held[w] EXCEPT !.row = [held[w].row EXCEPT !.epoch = clock]]]
    BY <1>4 DEF heartbeat
  <2>2. ASSUME NEW row
        PROVE  /\ [held[w] EXCEPT !.row = row].key = held[w].key
               /\ [held[w] EXCEPT !.row = row].stored = held[w].stored
    BY DEF QueueTypeOK
  <2>3. held'[w].key = held[w].key /\ held'[w].stored = held[w].stored
    BY <2>1, <2>2 DEF QueueTypeOK
  <2>4. HoldsClaim(w) /\ pc[w] = "run"
    BY <1>4 DEF heartbeat
  <2>5. ~Publish(w)
    BY <1>4, <2>3, PublishIs DEF heartbeat, archive, Publish
  <2> QED BY <1>2, <2>3, <2>4, <2>5
<1>5. CASE pc[w] = "run" /\ held'[w] = held[w]
  BY <1>1, <1>2, <1>5, NoReclaim DEF PublicationInv
<1> QED BY <1>1, <1>3, <1>4, <1>5, HandStep

\* No worker holds the claim of a job another has published meanwhile, and who
\* holds it after publishing finds its own text in the archive.
THEOREM PublicationCorrect == Spec => []PublicationInv
<1>1. Init => PublicationInv
  BY DEF Init, PublicationInv, CandsRead, StoredIsMine, OvertakenLost
<1>2. /\ QueueTypeOK /\ QueueTypeOK' /\ ClaimInv /\ OwnHand /\ PublicationInv /\ [Next]_vars
      => PublicationInv'
  BY StepCands, StepStored, StepOvertaken DEF PublicationInv
<1> QED BY <1>1, <1>2, QueueTyped, ClaimCorrect, PTL DEF Spec

-----------------------------------------------------------------------------
(* What no step does *)

LEMMA RenewedIs ==
  ASSUME QueueTypeOK, NEW w \in Workers, NEW k \in Jobs, RenewedBy(w, k)
  PROVE  /\ pc[w] = "run" /\ held[w].key = k /\ HoldsClaim(w)
         /\ jobs'[k] = [jobs[k] EXCEPT !.epoch = clock]
         /\ held'[w].key = k
         /\ held'[w].row = [held[w].row EXCEPT !.epoch = clock]
<1>1. /\ jobs' = [jobs EXCEPT ![k] = [jobs[k] EXCEPT !.epoch = clock]]
      /\ held' = [held EXCEPT ![w] = [held[w] EXCEPT !.row = [held[w].row EXCEPT !.epoch = clock]]]
      /\ pc[w] = "run" /\ held[w].key = k /\ HoldsClaim(w)
  BY DEF RenewedBy, heartbeat
<1>2. ASSUME NEW row
      PROVE  /\ [held[w] EXCEPT !.row = row].key = held[w].key
             /\ [held[w] EXCEPT !.row = row].row = row
  BY DEF QueueTypeOK
<1> QED BY <1>1, <1>2 DEF QueueTypeOK

\* The fence compares owner and epoch, so its holder is the owner.
LEMMA HolderOwns ==
  ASSUME OwnHand, NEW w \in Workers, NEW k \in Jobs,
         pc[w] = "run", held[w].key = k, HoldsClaim(w)
  PROVE  Owned(k, w) /\ Alive(w)
BY DEF OwnHand, HoldsClaim, Owned, Processing, Alive

\* A claim ends in a verdict only at the hand of the process that holds it, and
\* ASR is done only on the transcript that process published (the owner fence of
\* complete and fail, assert_publication_claim).
THEOREM OnlyClaimantJudgesHolds == Spec => OnlyClaimantJudges
<1> DEFINE Judged(k) ==
      Processing(k) /\ jobs'[k].state \in {"done", "failed", "retry_wait"} =>
        \E w \in Workers :
          /\ Owned(k, w) /\ held[w].key = k /\ held'[w] = Nothing
          /\ k[2] = "asr" /\ k[1] \notin WithPlaud /\ jobs'[k].state = "done"
               => text[k[1]] = w
<1>1. QueueTypeOK /\ ClaimInv /\ OwnHand /\ PublicationInv /\ [Next]_vars
      => \A k \in Jobs : Judged(k)
  <2> SUFFICES ASSUME QueueTypeOK, ClaimInv, OwnHand, PublicationInv, [Next]_vars,
                      NEW k \in Jobs, Processing(k),
                      jobs'[k].state \in {"done", "failed", "retry_wait"}
               PROVE  Judged(k)
    OBVIOUS
  <2>1. ASSUME NEW w \in Workers, JudgedBy(w, k)
        PROVE  Judged(k)
    <3>1. Owned(k, w) /\ held[w].key = k /\ held'[w] = Nothing
      BY <2>1, HolderOwns DEF JudgedBy
    <3>2. ASSUME k[2] = "asr", k[1] \notin WithPlaud, jobs'[k].state = "done"
          PROVE  text[k[1]] = w
      <4>1. Complete(w) /\ Stage(w) = "asr" /\ Recording(w) = k[1] /\ pc[w] = "run"
        BY <2>1, <3>2 DEF JudgedBy, Stage, Recording
      <4>2. held[w].stored
        BY <3>2, <4>1 DEF Complete
      <4> QED BY <2>1, <4>1, <4>2 DEF JudgedBy, PublicationInv, StoredIsMine
    <3> QED BY <3>1, <3>2
  <2>2. ASSUME NEW w \in Workers, RenewedBy(w, k)
        PROVE  FALSE
    <3>1. jobs'[k] = [jobs[k] EXCEPT !.epoch = clock]
      BY <2>2, RenewedIs
    <3>2. [jobs[k] EXCEPT !.epoch = clock].state = jobs[k].state
      BY DEF QueueTypeOK, Row
    <3> QED BY <3>1, <3>2 DEF Processing
  <2>3. jobs'[k] # jobs[k]
    BY DEF Processing
  <2> HIDE DEF Judged
  <2> QED BY <2>1, <2>2, <2>3, RowStep DEF PublicationInv, LetGo, Reset, TakenBy, RestartedBy,
            Processing, Open, OPEN_STATES
<1>2. (\A k \in Jobs : Judged(k)) =>
        [\A k \in Jobs :
           Processing(k) /\ jobs'[k].state \in {"done", "failed", "retry_wait"} =>
             \E w \in Workers :
               /\ Owned(k, w) /\ held[w].key = k /\ held'[w] = Nothing
               /\ k[2] = "asr" /\ k[1] \notin WithPlaud /\ jobs'[k].state = "done"
                    => text[k[1]] = w]_vars
  OBVIOUS
<1> HIDE DEF Judged
<1> QED BY <1>1, <1>2, QueueTyped, ClaimCorrect, PublicationCorrect, PTL
        DEF Spec, OnlyClaimantJudges

\* Who lost its job to a worker that has published never publishes over it.
THEOREM NoStaleOverwriteHolds == Spec => NoStaleOverwrite
<1>1. QueueTypeOK /\ ClaimInv /\ OwnHand /\ PublicationInv /\ PublicationInv' /\ [Next]_vars
      => [\A r \in Recordings : text'[r] # text[r] => text'[r] \notin overtaken]_vars
  <2> SUFFICES ASSUME QueueTypeOK, PublicationInv, [Next]_vars,
                      NEW r \in Recordings, text'[r] # text[r]
               PROVE  text'[r] \notin overtaken
    OBVIOUS
  <2>1. PICK w \in Workers : Publish(w)
    BY TextStep
  <2>2. text'[r] = w /\ HoldsClaim(w)
    BY <2>1, PublishIs DEF QueueTypeOK
  <2> QED BY <2>2 DEF PublicationInv, OvertakenLost
<1> QED BY <1>1, QueueTyped, ClaimCorrect, PublicationCorrect, PTL
        DEF Spec, NoStaleOverwrite

\* While a worker repairs, no claim under its own name can have been made since
\* it read the table.
SweepMine ==
  \A w \in Workers : pc[w] \in {"repair", "sweep"} =>
    \A c \in cands[w] : Owned(c.key, w) =>
      c.row.owner = jobs[c.key].owner /\ c.row.epoch = jobs[c.key].epoch

LEMMA StepSweep ==
  ASSUME QueueTypeOK, ClaimInv, OwnHand, CandsRead, SweepMine, [Next]_vars
  PROVE  SweepMine'
<1> SUFFICES ASSUME NEW w \in Workers, pc'[w] \in {"repair", "sweep"},
                    NEW c \in cands'[w], Owned(c.key, w)'
             PROVE  c.row.owner = jobs'[c.key].owner /\ c.row.epoch = jobs'[c.key].epoch
  BY DEF SweepMine
<1> DEFINE Kept == pc[w] \in {"repair", "sweep"} /\ cands'[w] \subseteq cands[w]
<1>1. Kept \/ ReadClaims(w)
  <2>1. CASE UNCHANGED vars
    BY <2>1 DEF vars, worker
  <2>2. CASE Asked
    BY <2>2 DEF Asked, enqueue_asr, request_retranscribe, request_regenerate,
                request_diarize, request_summary_language, Request, worker
  <2>3. CASE Tick
    BY <2>3 DEF Tick, worker
  <2>4. ASSUME NEW v \in Workers,
               \/ Start(v) \/ (ReadClaims(v) /\ v # w) \/ Repair(v) \/ Reconcile(v)
               \/ BeginDrain(v) \/ EndDrain(v) \/ Publish(v) \/ heartbeat(v) \/ Crash(v)
               \/ Select(v)
        PROVE  Kept
    BY <2>4 DEF Start, ReadClaims, Repair, Reconcile, BeginDrain, EndDrain, Publish, heartbeat,
                Crash, Select, QueueTypeOK
  <2>5. ASSUME NEW v \in Workers, Take(v) PROVE Kept
    <3>1. PICK d \in cands[v] :
            \/ pc' = [pc EXCEPT ![v] = "run"] /\ cands' = [cands EXCEPT ![v] = {}]
            \/ pc' = pc /\ cands' = [cands EXCEPT ![v] = @ \ {d}]
      BY <2>5, TakeIs
    <3> QED BY <3>1 DEF QueueTypeOK
  <2>6. ASSUME NEW v \in Workers,
               Complete(v) \/ Fail(v) \/ Defer(v) \/ Lost(v) \/ Abort(v)
        PROVE  Kept
    BY <2>6, OutcomeIs DEF QueueTypeOK
  <2> QED BY <2>1, <2>2, <2>3, <2>4, <2>5, <2>6 DEF Next, Work
<1>2. CASE ReadClaims(w)
  BY <1>2 DEF ReadClaims, Copies, queue, QueueTypeOK
<1>3. CASE Kept
  <2> DEFINE k == c.key
  <2>1. k \in Jobs /\ Alive(w) /\ c \in cands[w]
    BY <1>3 DEF QueueTypeOK, Alive
  <2>2. CASE jobs'[k] = jobs[k]
    BY <1>3, <2>1, <2>2 DEF SweepMine, Owned, Processing
  <2>3. CASE jobs'[k] # jobs[k]
    <3>1. jobs'[k].state = "processing" /\ jobs'[k].owner = Owner[w]
      BY DEF Owned, Processing
    <3>2. ASSUME NEW v \in Workers, TakenBy(v, k) PROVE FALSE
      <4>1. Alive(v) /\ Owner[v] = Owner[w]
        BY <3>1, <3>2 DEF TakenBy, Alive
      <4> QED BY <1>3, <2>1, <3>2, <4>1, OwnersDistinct DEF TakenBy
    <3>3. ASSUME NEW v \in Workers, RenewedBy(v, k) PROVE FALSE
      <4>1. /\ pc[v] = "run" /\ held[v].key = k /\ HoldsClaim(v)
            /\ jobs'[k] = [jobs[k] EXCEPT !.epoch = clock]
        BY <2>1, <3>3, RenewedIs
      <4>2. jobs'[k].owner = jobs[k].owner
        BY <2>1, <4>1 DEF QueueTypeOK, Row
      <4>3. Alive(v) /\ Owner[v] = Owner[w]
        BY <2>1, <3>1, <4>1, <4>2, HolderOwns DEF Owned
      <4> QED BY <1>3, <2>1, <4>1, <4>3, OwnersDistinct
    <3> QED BY <2>1, <2>3, <3>1, <3>2, <3>3, RowStep DEF LetGo, Reset, JudgedBy, RestartedBy
  <2> QED BY <2>2, <2>3
<1> QED BY <1>1, <1>2, <1>3

LEMMA SweepCorrect == Spec => []SweepMine
<1>1. Init => SweepMine
  BY DEF Init, SweepMine
<1>2. QueueTypeOK /\ ClaimInv /\ OwnHand /\ PublicationInv /\ SweepMine /\ [Next]_vars => SweepMine'
  BY StepSweep DEF PublicationInv
<1> QED BY <1>1, <1>2, QueueTyped, ClaimCorrect, PublicationCorrect, PTL DEF Spec

\* Inside its lease a live process's row is its own, but for the predecessor of
\* the same recording that finishes under a replacement, and, without the flock,
\* for a recovery pass that read the row under an earlier claim
\* (recover_stale_jobs, claim_is_live, _FENCE).
THEOREM LiveClaimUndisturbedHolds == Spec => LiveClaimUndisturbed
<1> DEFINE Left(k, w) ==
      /\ Alive(w) /\ Owned(k, w)
      /\ jobs[k].epoch > clock - LeaseSec
      /\ jobs'[k] # jobs[k]
      => \/ held'[w] # held[w]
         \/ \E s \in Stages : /\ NEXT_STAGE[s] = k[2]
                              /\ Processing(<<k[1], s>>)
                              /\ jobs'[<<k[1], s>>].state = "done"
         \/ /\ ~SingleFlight /\ jobs'[k].state = "queued"
            /\ \E v \in Workers \ {w} : RecoversEarlierClaim(v, k)
<1>1. QueueTypeOK /\ ClaimInv /\ OwnHand /\ PublicationInv /\ SweepMine /\ [Next]_vars
      => \A k \in Jobs, w \in Workers : Left(k, w)
  <2> SUFFICES ASSUME QueueTypeOK, ClaimInv, OwnHand, PublicationInv, SweepMine, [Next]_vars,
                      NEW k \in Jobs, NEW w \in Workers, Alive(w), Owned(k, w),
                      jobs[k].epoch > clock - LeaseSec, jobs'[k] # jobs[k]
               PROVE  Left(k, w)
    OBVIOUS
  <2>1. ASSUME NEW v \in Workers, pc[v] = "run", held[v].key = k, HoldsClaim(v)
        PROVE  v = w
    BY <2>1, HolderOwns, OwnersDistinct DEF Owned
  <2>8. \E v \in Workers : Alive(v)
    OBVIOUS
  <2>2. CASE LetGo(k)
    <3>0. PICK v \in Workers : /\ pc[v] \in {"repair", "sweep"}
                               /\ \E c \in Abandoned(v) : c.key = k
      BY <2>2, <2>8 DEF LetGo
    <3>1. PICK c \in Abandoned(v) : pc[v] \in {"repair", "sweep"} /\ c.key = k
      BY <3>0
    <3>2. c \in cands[v] /\ ~claim_is_live(v, c.row, c.at)
      BY <3>1 DEF Abandoned
    <3>3. c.row.owner # jobs[k].owner \/ c.row.epoch # jobs[k].epoch
      <4> SUFFICES ASSUME c.row.owner = jobs[k].owner, c.row.epoch = jobs[k].epoch
                   PROVE  claim_is_live(v, c.row, c.at)
        BY <3>2
      <4>1. c.at \in Nat /\ clock \in Nat /\ c.at <= clock /\ jobs[k].epoch \in Nat
        BY <3>2 DEF PublicationInv, CandsRead, QueueTypeOK, Row
      <4>2. c.row.epoch > c.at - LeaseSec
        BY <4>1, QueueAssumption
      <4>3. OwnerAlive(c.row.owner)
        BY DEF OwnerAlive, Owned
      <4> QED BY <4>2, <4>3 DEF claim_is_live
    <3>4. v # w
      BY <3>1, <3>2, <3>3 DEF SweepMine
    <3>5. ~SingleFlight
      BY <3>1, <3>4 DEF ClaimInv, Alive
    <3>6. <<c.row.owner, c.row.epoch>> # <<jobs[k].owner, jobs[k].epoch>>
      BY <3>3
    <3>7. RecoversEarlierClaim(v, k)
      BY <3>1, <3>6 DEF RecoversEarlierClaim
    <3> QED BY <2>2, <3>4, <3>5, <3>7 DEF LetGo
  <2>3. ASSUME NEW v \in Workers, JudgedBy(v, k)
        PROVE  Left(k, w)
    <3>1. v = w /\ held'[w] = Nothing /\ held[w].key = k
      BY <2>1, <2>3 DEF JudgedBy
    <3>2. Nothing.key \notin Jobs
      BY DEF Nothing, NoJob, Jobs, STOP, Stages
    <3> QED BY <3>1, <3>2
  <2>4. ASSUME NEW v \in Workers, RenewedBy(v, k)
        PROVE  Left(k, w)
    <3>1. /\ v = w /\ HoldsClaim(w) /\ jobs'[k] = [jobs[k] EXCEPT !.epoch = clock]
          /\ held'[w].row = [held[w].row EXCEPT !.epoch = clock] /\ held[w].key = k
      <4>1. /\ pc[v] = "run" /\ held[v].key = k /\ HoldsClaim(v)
            /\ jobs'[k] = [jobs[k] EXCEPT !.epoch = clock]
            /\ held'[v].row = [held[v].row EXCEPT !.epoch = clock]
        BY <2>4, RenewedIs
      <4>2. v = w
        BY <2>1, <4>1
      <4> QED BY <4>1, <4>2
    <3>2. jobs[k].epoch # clock
      <4>1. jobs[k].epoch = clock => [jobs[k] EXCEPT !.epoch = clock] = jobs[k]
        BY DEF QueueTypeOK, Row
      <4> QED BY <3>1, <4>1
    <3>3. held[w].row.epoch # clock /\ held'[w].row.epoch = clock
      BY <3>1, <3>2 DEF HoldsClaim, QueueTypeOK, Row
    <3> QED BY <3>3
  <2>5. ASSUME NEW v \in Workers, RestartedBy(v, k)
        PROVE  Left(k, w)
    <3>1. pc[v] = "run" /\ Stage(v) \in Stages /\ HoldsClaim(v)
      BY <2>5, QueueAssumption DEF RestartedBy, Complete
    <3>2. held[v].key = <<k[1], Stage(v)>>
      BY <2>5, <3>1 DEF RestartedBy, QueueTypeOK, Jobs, Stage
    <3> QED BY <2>5, <3>1, <3>2 DEF RestartedBy, HoldsClaim, Processing
  <2> HIDE DEF Left
  <2> QED BY <2>2, <2>3, <2>4, <2>5, RowStep DEF PublicationInv, Reset, TakenBy, Owned,
            Processing, Open, OPEN_STATES
<1>2. (\A k \in Jobs, w \in Workers : Left(k, w)) =>
        [\A k \in Jobs, w \in Workers :
           /\ Alive(w) /\ Owned(k, w)
           /\ jobs[k].epoch > clock - LeaseSec
           /\ jobs'[k] # jobs[k]
           => \/ held'[w] # held[w]
              \/ \E s \in Stages : /\ NEXT_STAGE[s] = k[2]
                                   /\ Processing(<<k[1], s>>)
                                   /\ jobs'[<<k[1], s>>].state = "done"
              \/ /\ ~SingleFlight /\ jobs'[k].state = "queued"
                 /\ \E v \in Workers \ {w} : RecoversEarlierClaim(v, k)]_vars
  OBVIOUS
<1> HIDE DEF Left
<1> QED BY <1>1, <1>2, QueueTyped, ClaimCorrect, PublicationCorrect, SweepCorrect, PTL
        DEF Spec, LiveClaimUndisturbed

-----------------------------------------------------------------------------
(* The copy a handler works from, under the flock *)

\* A candidate nobody else can have touched is still the row that was read.
CandsFresh ==
  \A w \in Workers : pc[w] = "scan" => \A c \in cands[w] : jobs[c.key] = c.row

CopyInv == CandsFresh /\ CopyMatchesRow

\* With one live process a row in the queue changes only at its hand.
LEMMA OnlyMine ==
  ASSUME SingleFlight, QueueTypeOK, ClaimInv, CandsRead, [Next]_vars,
         NEW w \in Workers, Alive(w), NEW k \in Jobs, Open(jobs[k]), jobs'[k] # jobs[k]
  PROVE  \/ Processing(k) /\ LetGo(k)
         \/ TakenBy(w, k) \/ RenewedBy(w, k) \/ JudgedBy(w, k) \/ RestartedBy(w, k)
<1>1. ASSUME NEW v \in Workers, Alive(v) PROVE v = w
  BY <1>1 DEF ClaimInv
<1>2. ASSUME NEW v \in Workers,
             TakenBy(v, k) \/ RenewedBy(v, k) \/ JudgedBy(v, k) \/ RestartedBy(v, k)
      PROVE  Alive(v)
  BY <1>2 DEF TakenBy, RenewedBy, heartbeat, JudgedBy, RestartedBy, Complete, Alive
<1> QED BY <1>1, <1>2, RowStep DEF LetGo, Reset

LEMMA StepCandsFresh ==
  ASSUME SingleFlight, QueueTypeOK, ClaimInv, CandsRead, CopyInv, [Next]_vars
  PROVE  CandsFresh'
<1> SUFFICES ASSUME NEW w \in Workers, pc'[w] = "scan", NEW c \in cands'[w]
             PROVE  jobs'[c.key] = c.row
  BY DEF CandsFresh
<1>1. \/ pc[w] = "scan" /\ c \in cands[w]
      \/ Select(w)
  <2> DEFINE Kept == pc[w] = "scan" /\ cands'[w] \subseteq cands[w]
  <2>1. CASE UNCHANGED vars
    BY <2>1 DEF vars, worker
  <2>2. CASE Asked
    BY <2>2 DEF Asked, enqueue_asr, request_retranscribe, request_regenerate,
                request_diarize, request_summary_language, Request, worker
  <2>3. CASE Tick
    BY <2>3 DEF Tick, worker
  <2>4. ASSUME NEW v \in Workers,
               \/ Start(v) \/ ReadClaims(v) \/ Repair(v) \/ Reconcile(v) \/ BeginDrain(v)
               \/ EndDrain(v) \/ Publish(v) \/ heartbeat(v) \/ Crash(v) \/ (Select(v) /\ v # w)
        PROVE  Kept
    BY <2>4 DEF Start, ReadClaims, Repair, Reconcile, BeginDrain, EndDrain, Publish, heartbeat, Crash, Select,
                QueueTypeOK
  <2>5. ASSUME NEW v \in Workers, Take(v) PROVE Kept
    <3>1. PICK d \in cands[v] :
            \/ pc' = [pc EXCEPT ![v] = "run"] /\ cands' = [cands EXCEPT ![v] = {}]
            \/ pc' = pc /\ cands' = [cands EXCEPT ![v] = @ \ {d}]
      BY <2>5, TakeIs
    <3> QED BY <3>1 DEF QueueTypeOK
  <2>6. ASSUME NEW v \in Workers,
               Complete(v) \/ Fail(v) \/ Defer(v) \/ Lost(v) \/ Abort(v)
        PROVE  Kept
    BY <2>6, OutcomeIs DEF QueueTypeOK
  <2> QED BY <2>1, <2>2, <2>3, <2>4, <2>5, <2>6 DEF Next, Work
<1>2. CASE Select(w)
  BY <1>2 DEF Select, Copies, queue, QueueTypeOK
<1>3. CASE pc[w] = "scan" /\ c \in cands[w]
  <2>1. /\ c.key \in Jobs /\ jobs[c.key] = c.row /\ Alive(w)
        /\ c.row.state \in {"queued", "retry_wait"}
    BY <1>3 DEF CopyInv, CandsFresh, CandsRead, QueueTypeOK, Alive
  <2>2. Open(jobs[c.key]) /\ ~Processing(c.key)
    BY <2>1 DEF Open, OPEN_STATES, Processing
  <2>3. ~TakenBy(w, c.key)
    BY DEF TakenBy
  <2>4. ~RenewedBy(w, c.key) /\ ~JudgedBy(w, c.key) /\ ~RestartedBy(w, c.key)
    BY <1>3 DEF RenewedBy, heartbeat, JudgedBy, RestartedBy, Complete
  <2> QED BY <2>1, <2>2, <2>3, <2>4, OnlyMine
<1> QED BY <1>1, <1>2, <1>3

LEMMA StepCopy ==
  ASSUME SingleFlight, QueueTypeOK, QueueTypeOK', ClaimInv, OwnHand, CandsRead, CopyInv,
         [Next]_vars
  PROVE  CopyMatchesRow'
<1> DEFINE Same(p, q) == p.attempts = q.attempts /\ p.tools = q.tools /\ p.replace = q.replace
<1> SUFFICES ASSUME NEW w \in Workers, pc'[w] = "run", HoldsClaim(w)'
             PROVE  Same(held'[w].row, jobs'[held'[w].key])
  BY DEF CopyMatchesRow
<1>1. CASE pc[w] = "run" /\ held'[w].key = held[w].key /\ held'[w].row = held[w].row
  <2> DEFINE k == held[w].key
  <2>1. k \in Jobs /\ Alive(w) /\ jobs'[k].state = "processing"
    BY <1>1 DEF QueueTypeOK, Alive, HoldsClaim
  <2>2. CASE jobs'[k] = jobs[k]
    <3>1. HoldsClaim(w)
      BY <1>1, <2>2 DEF HoldsClaim
    <3> QED BY <1>1, <2>2, <3>1 DEF CopyInv, CopyMatchesRow
  <2>3. CASE jobs'[k] # jobs[k]
    <3>1. ~TakenBy(w, k)
      BY <1>1 DEF TakenBy
    <3>2. ~LetGo(k) /\ ~JudgedBy(w, k) /\ ~RestartedBy(w, k) /\ ~Reset(k)
      BY <2>1 DEF LetGo, JudgedBy, RestartedBy, Reset
    <3>3. RenewedBy(w, k)
      <4>1. ASSUME NEW v \in Workers,
                   TakenBy(v, k) \/ RenewedBy(v, k) \/ JudgedBy(v, k) \/ RestartedBy(v, k)
            PROVE  v = w
        <5>1. Alive(v)
          BY <4>1 DEF TakenBy, RenewedBy, heartbeat, JudgedBy, RestartedBy, Complete, Alive
        <5> QED BY <2>1, <5>1 DEF ClaimInv
      <4> QED BY <2>1, <2>3, <3>1, <3>2, <4>1, RowStep
    <3>4. /\ HoldsClaim(w) /\ jobs'[k] = [jobs[k] EXCEPT !.epoch = clock]
      BY <2>1, <3>3, RenewedIs
    <3>5. Same(jobs'[k], jobs[k])
      BY <2>1, <3>4 DEF QueueTypeOK, Row
    <3> QED BY <1>1, <3>4, <3>5 DEF CopyInv, CopyMatchesRow
  <2> QED BY <2>2, <2>3
<1>2. CASE heartbeat(w)
  <2> DEFINE k == held[w].key
  <2>1. k \in Jobs /\ RenewedBy(w, k)
    BY <1>2 DEF RenewedBy, heartbeat, QueueTypeOK
  <2>2. /\ pc[w] = "run" /\ HoldsClaim(w) /\ held'[w].key = k
        /\ jobs'[k] = [jobs[k] EXCEPT !.epoch = clock]
        /\ held'[w].row = [held[w].row EXCEPT !.epoch = clock]
    BY <2>1, RenewedIs
  <2>3. Same(held[w].row, jobs[k])
    BY <2>2 DEF CopyInv, CopyMatchesRow
  <2>4. \A row \in Row : Same([row EXCEPT !.epoch = clock], row)
    BY DEF Row
  <2>5. Same(jobs'[k], jobs[k]) /\ Same(held'[w].row, held[w].row)
    BY <2>1, <2>2, <2>4 DEF QueueTypeOK
  <2> QED BY <2>2, <2>3, <2>5
<1>3. CASE Publish(w)
  BY <1>1, <1>3, PublishIs
<1>4. CASE Take(w)
  <2>1. PICK c \in cands[w] :
          \/ /\ jobs' = [jobs EXCEPT ![c.key] = Claimed(jobs[c.key], w, c.at)]
             /\ held' = [held EXCEPT ![w] =
                  [key |-> c.key, row |-> Claimed(c.row, w, c.at), stored |-> FALSE]]
          \/ UNCHANGED <<jobs, held, pc>>
    BY <1>4, TakeIs
  <2>2. pc[w] = "scan" /\ c.key \in Jobs /\ jobs[c.key] = c.row
    BY <1>4 DEF Take, CopyInv, CandsFresh, QueueTypeOK
  <2> DEFINE row == Claimed(c.row, w, c.at)
             taken == [key |-> c.key, row |-> row, stored |-> FALSE]
  <2>3. taken.key = c.key /\ taken.row = row
    OBVIOUS
  <2>4. jobs' = [jobs EXCEPT ![c.key] = row] /\ held' = [held EXCEPT ![w] = taken]
    BY <2>1, <2>2, Zenon
  <2> HIDE DEF taken, row
  <2>5. jobs'[c.key] = row /\ held'[w].key = c.key /\ held'[w].row = row
    BY <2>2, <2>3, <2>4 DEF QueueTypeOK
  <2> QED BY <2>5
<1> QED BY <1>1, <1>2, <1>3, <1>4, HandStep

\* Under the flock the copy a handler works from carries the row's own budgets
\* and replacement intent: claim_next's swap on `state` alone is enough there.
THEOREM CopyMatchesRowHolds == SingleFlight => (Spec => []CopyMatchesRow)
<1> SUFFICES ASSUME SingleFlight PROVE Spec => []CopyMatchesRow
  OBVIOUS
<1>1. Init => CopyInv
  BY DEF Init, CopyInv, CandsFresh, CopyMatchesRow
<1>2. /\ QueueTypeOK /\ QueueTypeOK' /\ ClaimInv /\ OwnHand /\ PublicationInv
      /\ CopyInv /\ [Next]_vars
      => CopyInv'
  BY StepCandsFresh, StepCopy DEF CopyInv, PublicationInv
<1>3. CopyInv => CopyMatchesRow
  BY DEF CopyInv
<1> QED BY <1>1, <1>2, <1>3, QueueTyped, ClaimCorrect, PublicationCorrect, PTL DEF Spec

-----------------------------------------------------------------------------
(* The main loop.  NoLostWake is not inductive: that nobody answered is left*)
(* behind a sleeping loop follows from who may still reach the queue from  *)
(* each place of the main thread.                                          *)

\* What the argument needs of the types; the flags are used as formulas only.
LoopTypes ==
  /\ main \in {"down", "top", "wait", "clear", "sync", "drain"}
  /\ why \in {"wake", "poll", "periodic"}
  /\ left \in Nat /\ due \in Nat /\ cool \in Nat /\ made \in Nat /\ mishaps \in Nat

\* Who was answered and not yet looked after has the event set for him, or the
\* process is down, or its first pass after a restart is still to come.
WakeOwed ==
  /\ main = "clear" => event
  /\ \/ heard = {}
     \/ event
     \/ main = "down"
     \/ main \in {"top", "wait", "sync"} /\ due = 0

\* An accepted poll is still pending, and the loop will come past the flag
\* before it sleeps, or the first pass after a restart will do.
PollOwed ==
  asked \/ pending =>
    \/ main = "down"
    \/ due = 0 /\ main \in {"top", "wait", "clear"}
    \/ due = 0 /\ main = "drain" /\ why = "wake"
    \/ pending /\ (event \/ Poll \in calls \/ main \in {"clear", "drain", "top", "sync"})

LoopInv == LoopTypes /\ WakeOwed /\ PollOwed

LEMMA InitLoop == LoopInit => LoopInv
BY LoopAssumption DEF LoopInit, LoopInv, LoopTypes, WakeOwed, PollOwed

LEMMA StepLoop == LoopInv /\ [LoopNext]_loopVars => LoopInv'
<1> SUFFICES ASSUME LoopInv, [LoopNext]_loopVars PROVE LoopInv'
  OBVIOUS
<1> USE LoopAssumption DEF LoopInv, LoopTypes, WakeOwed, PollOwed
<1>1. CASE ConsumePoll
  BY <1>1 DEF ConsumePoll, BeginPass
<1>2. CASE NoPoll
  BY <1>2 DEF NoPoll, server
<1>3. CASE WaitFires
  BY <1>3 DEF WaitFires, server
<1>4. CASE WaitTimesOut
  BY <1>4 DEF WaitTimesOut, BeginPass, server
<1>5. CASE ClearAndDrain
  BY <1>5 DEF ClearAndDrain, OpenDrain, server
<1>6. CASE Sync
  BY <1>6 DEF Sync, OpenDrain, server
<1>7. CASE LeaveDrain
  BY <1>7 DEF LeaveDrain, server
<1>8. ASSUME NEW i \in Intents, DrainOne(i) PROVE LoopInv'
  BY <1>8 DEF DrainOne, server
<1>9. CASE RequestPoll
  BY <1>9 DEF RequestPoll
<1>10. ASSUME NEW i \in Intents, Commit(i) PROVE LoopInv'
  BY <1>10 DEF Commit
<1>11. ASSUME NEW i \in Intents, ImportFails(i) PROVE LoopInv'
  BY <1>11 DEF ImportFails, Intents
<1>12. ASSUME NEW i \in Intents \cup {Poll}, WakeAndAnswer(i) PROVE LoopInv'
  BY <1>12 DEF WakeAndAnswer
<1>13. CASE Restart
  BY <1>13 DEF Restart
<1>14. CASE Elapse
  BY <1>14 DEF Elapse, Down
<1>15. CASE Die
  BY <1>15 DEF Die
<1>16. CASE UNCHANGED loopVars
  BY <1>16 DEF loopVars, server
<1> QED
  BY <1>1, <1>2, <1>3, <1>4, <1>5, <1>6, <1>7, <1>8, <1>9, <1>10, <1>11,
     <1>12, <1>13, <1>14, <1>15, <1>16 DEF LoopNext, Loop, Serve

\* Every behaviour of the loop keeps the strengthened invariant.
THEOREM LoopCorrect == LoopSpec => []LoopInv
BY InitLoop, StepLoop, PTL DEF LoopSpec

\* While the loop sleeps nobody who was answered waits for a first look, and no
\* accepted poll without a thread about to wake the loop.
THEOREM NoLostWakeHolds == LoopSpec => []NoLostWake
<1>1. LoopInv => NoLostWake
  BY DEF LoopInv, LoopTypes, WakeOwed, PollOwed, NoLostWake, Asleep
<1> QED
  BY <1>1, LoopCorrect, PTL
=============================================================================
