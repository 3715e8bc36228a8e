--------------------------- MODULE PipelineQueue ---------------------------
(***************************************************************************)
(* The durable job queue of archive/pipeline.py: the pipeline_jobs table,  *)
(* the claim protocol (compare-and-swap, lease, owner fence), the outcomes *)
(* a drain records and the requests a reader or a repair pass may make.    *)
(*                                                                         *)
(* A worker is one process incarnation; Owner gives its claim_owner()      *)
(* string host:pid, which a container restart may hand to a later worker.  *)
(* A stage handler is opaque here: it may publish (ASR only), renew its    *)
(* lease, and end in one of the outcomes drain distinguishes.  What the    *)
(* handlers of the chain read and write is Materials' subject.             *)
(***************************************************************************)
EXTENDS Integers, FiniteSets

CONSTANTS
  Recordings,        \* rows of the archive with local audio
  WithPlaud,         \* those that arrived with PLAUD's provisional text
  Doubtful,          \* those whose media may turn out impossible to transcribe
  Workers,           \* process incarnations, each started at most once
  Owners,            \* the host:pid strings claim_owner() returns
  Owner,             \* Owner[w]: w's claim_owner()
  Host,              \* Host[o]: the hostname in the owner string o
  SingleFlight,      \* TRUE: workers hold the connector's archive flock
  Wanted,            \* stages this instance exercises (claim_next's `stages`)
  Served,            \* stages whose handler can finish; the others' defer each turn
  Diarizes,          \* diarization.available()
  MaxAttempts,       \* PIPELINE_MAX_ATTEMPTS
  MaxToolAttempts,   \* PIPELINE_MAX_TOOL_ATTEMPTS
  MaxRevivals,       \* PIPELINE_MAX_REVIVALS
  LeaseSec,          \* PIPELINE_LEASE_SECONDS
  RetryBackoff,      \* PIPELINE_RETRY_BACKOFF_SECONDS
  RetryBackoffMax,   \* PIPELINE_RETRY_BACKOFF_MAX_SECONDS
  ReconcileLimit,    \* PIPELINE_RECONCILE_LIMIT
  DrainMaxJobs,      \* PIPELINE_DRAIN_MAX_JOBS
  MaxTime,           \* bound on the clock
  MaxFaults,         \* bound on failures and deferrals
  MaxRequests,       \* bound on reader requests
  NoWorker, NoOwner  \* no publisher yet; NULL claim_owner

Stages == {"asr", "diarization", "summary", "summary_en", "mindmap", "card"}
STOP   == "__stop__"

NEXT_STAGE == [s \in Stages |->
  CASE s = "asr"     -> "summary"
    [] s = "summary" -> "mindmap"
    [] s = "mindmap" -> "card"
    [] OTHER         -> STOP]

OPEN_STATES == {"queued", "processing", "retry_wait"}
States      == OPEN_STATES \cup {"done", "failed"}
Absent      == "absent"               \* no row for this recording and stage

ASSUME QueueAssumption ==
  /\ IsFiniteSet(Recordings)
  /\ WithPlaud \subseteq Recordings /\ Doubtful \subseteq Recordings
  /\ Wanted \subseteq Stages
  /\ Served \subseteq Wanted
  /\ SingleFlight \in BOOLEAN /\ Diarizes \in BOOLEAN
  /\ NoWorker \notin Workers /\ NoOwner \notin Owners
  /\ Owner \in [Workers -> Owners]
  /\ SingleFlight \/ (\A v, w \in Workers : Owner[v] = Owner[w] => v = w)
  /\ MaxAttempts \in Nat \ {0} /\ MaxToolAttempts \in Nat \ {0}
  /\ MaxRevivals \in Nat /\ LeaseSec \in Nat \ {0}
  /\ RetryBackoff \in Nat /\ RetryBackoffMax \in Nat
  /\ ReconcileLimit \in Nat /\ DrainMaxJobs \in Nat \ {0}
  /\ MaxTime \in Nat /\ MaxFaults \in Nat /\ MaxRequests \in Nat

Jobs  == Recordings \X Stages         \* UNIQUE(recording_id, stage)
NoJob == <<NoOwner, STOP>>

VARIABLES
  jobs,      \* pipeline_jobs: one row per recording and stage
  avail,     \* available_epoch of each row
  nextSeq,   \* the AUTOINCREMENT counter
  text,      \* who last published asr_transcript; NoWorker while it is ''
  pc,        \* where each worker stands in drain_pipeline and drain
  cands,     \* rows as the worker's last SELECT read them, not yet acted on
  held,      \* the job dict the worker is running, a copy of its row
  turn,      \* had_a_turn of the worker's current drain
  finished,  \* len(finished) of that drain
  clock,     \* now_epoch()
  unreadable, \* recordings no ASR attempt can transcribe; fixed from the start
  faults, requests,   \* bounded counters of the environment
  overtaken, \* history: workers whose job a later claimant has published
  stranded   \* history: claims a failed commit left behind in a live process

queue   == <<jobs, avail, nextSeq>>
worker  == <<pc, cands, held, turn, finished>>
history == <<faults, requests, overtaken, stranded>>
archive == <<text, unreadable>>
vars    == <<queue, archive, worker, clock, history>>

Row == [state : States \cup {Absent}, seq : Nat, attempts : Nat, tools : Nat,
        revivals : Nat, epoch : Nat, owner : Owners \cup {NoOwner},
        replace : BOOLEAN]

NoRow == [state |-> Absent, seq |-> 0, attempts |-> 0, tools |-> 0,
          revivals |-> 0, epoch |-> 0, owner |-> NoOwner, replace |-> FALSE]

Nothing == [key |-> NoJob, row |-> NoRow, stored |-> FALSE]

-----------------------------------------------------------------------------
(* Rows and their lifecycle *)

Open_claimed_only(row) == row.state = "processing"   \* mutant of Open

Open(row) == row.state \in OPEN_STATES

NewRow(seq, replace) ==
  [NoRow EXCEPT !.state = "queued", !.seq = seq, !.replace = replace]

\* The reset every request, revival and forced successor makes: a new turn at
\* the job with a fresh attempt budget.  tool_attempts and revival_attempts
\* are deliberately the caller's to change.
Requeued(row, replace) ==
  [row EXCEPT !.state = "queued", !.attempts = 0, !.epoch = 0,
              !.owner = NoOwner, !.replace = replace]

\* Leaving `processing` without a new verdict on the job.
Released(row, state) ==
  [row EXCEPT !.state = state, !.epoch = 0, !.owner = NoOwner]

backoff_sec(strikes) ==
  LET delay == RetryBackoff * 2^strikes
  IN  IF delay < RetryBackoffMax THEN delay ELSE RetryBackoffMax

\* INSERT ... ON CONFLICT DO NOTHING, available now.
Enqueue(k) ==
  IF jobs[k].state = Absent
  THEN /\ jobs' = [jobs EXCEPT ![k] = NewRow(nextSeq, FALSE)]
       /\ avail' = [avail EXCEPT ![k] = clock]
       /\ nextSeq' = nextSeq + 1
  ELSE UNCHANGED queue

\* request_retranscribe, request_regenerate, request_diarize and
\* request_summary_language share one shape: an open job absorbs the request,
\* a closed one is reset, a missing one is inserted.
Request(k, replace) ==
  /\ k[2] \in Wanted
  /\ ~Open(jobs[k])
  /\ requests < MaxRequests
  /\ requests' = requests + 1
  /\ avail' = [avail EXCEPT ![k] = clock]
  /\ IF jobs[k].state = Absent
     THEN /\ jobs' = [jobs EXCEPT ![k] = NewRow(nextSeq, replace)]
          /\ nextSeq' = nextSeq + 1
     ELSE /\ jobs' = [jobs EXCEPT ![k] = Requeued(jobs[k], replace)]
          /\ UNCHANGED nextSeq
  /\ UNCHANGED <<archive, worker, clock, faults, overtaken, stranded>>

request_retranscribe(r)     == Request(<<r, "asr">>, TRUE)
request_regenerate(r)       == Request(<<r, "summary">>, TRUE)
request_diarize(r)          == Request(<<r, "diarization">>, FALSE)
request_summary_language(r) == Request(<<r, "summary_en">>, FALSE)

\* Ingest (archive_one, local_import.persist) commits the recording's row and
\* its ASR job in one transaction, unless a local transcript is published.
enqueue_asr(r) ==
  /\ text[r] = NoWorker
  /\ jobs[<<r, "asr">>].state = Absent
  /\ Enqueue(<<r, "asr">>)
  /\ UNCHANGED <<archive, worker, clock, history>>

-----------------------------------------------------------------------------
(* Claims *)

Alive(w) == pc[w] \notin {"off", "dead"}

OwnerAlive(o) == \E w \in Workers : Alive(w) /\ Owner[w] = o

\* The verdict w reaches about a claim as it read it at that time: the lease,
\* then the pid if the claim was made on w's own host; a foreign claim inside
\* its lease is believed.
claim_is_live_own_host(w, row, at) ==  \* mutant: foreign claims never believed
  /\ row.epoch > at - LeaseSec
  /\ Host[row.owner] = Host[Owner[w]] /\ OwnerAlive(row.owner)

claim_is_live(w, row, at) ==
  /\ row.epoch > at - LeaseSec
  /\ Host[row.owner] = Host[Owner[w]] => OwnerAlive(row.owner)

Processing(k) == jobs[k].state = "processing"

\* What a SELECT leaves in a worker's hands: the rows and the time, as read.
Copies(ks) == {[key |-> k, row |-> jobs[k], at |-> clock] : k \in ks}

\* Of the rows w has read, those whose claim it does not believe ...
Abandoned(w) == {c \in cands[w] : ~claim_is_live(w, c.row, c.at)}

\* ... and their return to the queue, without a strike.  The UPDATE asks only
\* that the row is still processing, whoever holds it by now.
Swept(copies) == {k \in Jobs : Processing(k) /\ \E c \in copies : c.key = k}

Recovered(ks) ==
  [k \in Jobs |-> IF k \in ks THEN Released(jobs[k], "queued") ELSE jobs[k]]

recover_stale(copies) ==
  LET ks == Swept(copies)
  IN  /\ jobs' = Recovered(ks)
      /\ avail' = [k \in Jobs |->
           IF k \in ks THEN (CHOOSE c \in copies : c.key = k).at ELSE avail[k]]
      /\ stranded' = stranded \ ks

HoldsClaim_state_only(w) == Processing(held[w].key)   \* mutant of the fence

\* _FENCE: still processing under exactly the claim this worker holds.
HoldsClaim(w) ==
  LET row == jobs[held[w].key]
  IN  /\ row.state = "processing"
      /\ row.owner = held[w].row.owner
      /\ row.epoch = held[w].row.epoch

\* What a claim of w's current drain may pick: runnable now, and not a job
\* this drain has already had a turn at.
Runnable(k) == /\ jobs[k].state \in {"queued", "retry_wait"}
               /\ avail[k] <= clock
               /\ k[2] \in Wanted

Eligible_again(w) == {k \in Jobs : Runnable(k)}       \* mutant: no `exclude`

Eligible(w) == {k \in Jobs : Runnable(k) /\ k \notin turn[w]}

-----------------------------------------------------------------------------
(* The worker process: connector.main, drain_pipeline, drain *)

\* mutant: a claim under this process's own host:pid is taken for its own
Orphans_not_mine(w) == {k \in Jobs : Processing(k) /\ jobs[k].owner # Owner[w]}

\* Taking the archive's flock proves that no processing claim is legitimate,
\* so the connector returns every one to the queue before it does anything.
\* With nobody else alive no such row can move between the SELECT and the
\* UPDATE, which are one step here.
Orphans(w) == {k \in Jobs : Processing(k)}

Start(w) ==
  /\ pc[w] = "off"
  /\ IF SingleFlight
     THEN /\ \A v \in Workers : ~Alive(v)
          /\ recover_stale(Copies(Orphans(w)))
     ELSE UNCHANGED <<jobs, avail, stranded>>
  /\ pc' = [pc EXCEPT ![w] = "idle"]
  /\ UNCHANGED <<nextSeq, archive, cands, held, turn, finished, clock,
                 faults, requests, overtaken>>

\* drain's locals go when it does.
ForgetDrain(w) == /\ turn' = [turn EXCEPT ![w] = {}]
                 /\ finished' = [finished EXCEPT ![w] = 0]

\* A crash or redeploy; the supervisor still has an incarnation to start, and
\* a lease left behind can still expire before MaxTime.
Crash(w) ==
  /\ Alive(w)
  /\ \E v \in Workers : pc[v] = "off"
  /\ clock + LeaseSec <= MaxTime
  /\ pc' = [pc EXCEPT ![w] = "dead"]
  /\ held' = [held EXCEPT ![w] = Nothing]
  /\ cands' = [cands EXCEPT ![w] = {}]
  /\ ForgetDrain(w)
  /\ overtaken' = overtaken \ {w}
  /\ UNCHANGED <<queue, archive, clock, faults, requests, stranded>>

\* What one reconcile pass may adopt: failed ASR work with revivals left and
\* recordings without an ASR job, textless ones first, then diarization.
Revivable  == {k \in Jobs : /\ k[2] = "asr" /\ jobs[k].state = "failed"
                            /\ text[k[1]] = NoWorker
                            /\ jobs[k].revivals < MaxRevivals}
Missing    == {k \in Jobs : /\ k[2] = "asr" /\ jobs[k].state = Absent
                            /\ text[k[1]] = NoWorker}
Undiarized == {k \in Jobs : /\ Diarizes /\ k[2] = "diarization"
                            /\ jobs[k].state = Absent}

\* The limit counts recordings, in that order; which members of one class are
\* taken is the ORDER BY on dates, left open.
Adoption(ks) ==
  LET textless == {k \in Missing : k[1] \notin WithPlaud}
      asr      == Revivable \cup Missing
      rest(all) == all \ ks # {}
      count(s) == Cardinality({k[1] : k \in s})
  IN  /\ ks \subseteq asr \cup Undiarized
      /\ count(ks) <= ReconcileLimit
      /\ ks \cap Missing # {} => ~rest(Revivable)
      /\ ks \cap (Missing \ textless) # {} => ~rest(textless)
      /\ ks \cap Undiarized # {} => /\ ~rest(asr)
                                       /\ count(asr) < ReconcileLimit
      /\ rest(asr \cup Undiarized) => count(ks) = ReconcileLimit

\* Sequence numbers for newly inserted rows, in some order.
Numbering(ks) == {f \in [ks -> nextSeq .. nextSeq + Cardinality(ks) - 1] :
                    \A j, k \in ks : f[j] = f[k] => j = k}

Revived_forever(row) ==                \* mutant: revivals are not counted
  [Requeued(row, row.replace) EXCEPT !.tools = 0]

Revived(row) ==
  [Requeued(row, row.replace) EXCEPT !.tools = 0, !.revivals = @ + 1]

Adopted(ks, number) ==
  [k \in Jobs |->
     CASE k \in ks /\ jobs[k].state = Absent -> NewRow(number[k], FALSE)
       [] k \in ks /\ jobs[k].state # Absent -> Revived(jobs[k])
       [] OTHER -> jobs[k]]

\* recover_stale SELECTs the processing rows in autocommit, at the head of
\* reconcile and again at the head of drain ...
ReadClaims(w) ==
  /\ \/ pc[w] = "idle" /\ pc' = [pc EXCEPT ![w] = "repair"]
     \/ pc[w] = "reconciled" /\ pc' = [pc EXCEPT ![w] = "sweep"]
  /\ cands' = [cands EXCEPT ![w] = Copies({k \in Jobs : Processing(k)})]
  /\ UNCHANGED <<queue, archive, held, turn, finished, clock, history>>

\* ... and judges and UPDATEs in one transaction that begins later.
Repair(w) ==
  /\ pc[w] = "repair"
  /\ recover_stale(Abandoned(w))
  /\ cands' = [cands EXCEPT ![w] = {}]
  /\ pc' = [pc EXCEPT ![w] = "adopt"]
  /\ UNCHANGED <<nextSeq, archive, held, turn, finished, clock,
                 faults, requests, overtaken>>

Reconcile(w) ==
  /\ pc[w] = "adopt"
  /\ \E ks \in SUBSET Jobs :
        LET new == {k \in ks : jobs[k].state = Absent}
        IN  /\ Adoption(ks)
            /\ \E number \in Numbering(new) : jobs' = Adopted(ks, number)
            /\ nextSeq' = nextSeq + Cardinality(new)
            /\ avail' = [k \in Jobs |-> IF k \in ks THEN clock ELSE avail[k]]
  /\ pc' = [pc EXCEPT ![w] = "reconciled"]
  /\ UNCHANGED <<archive, cands, held, turn, finished, clock, history>>

BeginDrain(w) ==
  /\ pc[w] = "sweep"
  /\ recover_stale(Abandoned(w))
  /\ cands' = [cands EXCEPT ![w] = {}]
  /\ pc' = [pc EXCEPT ![w] = "drain"]
  /\ UNCHANGED <<nextSeq, archive, held, turn, finished, clock,
                 faults, requests, overtaken>>

\* claim_next reads its candidates and the time in one SELECT ...
Select(w) ==
  /\ pc[w] = "drain"
  /\ finished[w] < DrainMaxJobs
  /\ cands' = [cands EXCEPT ![w] = Copies(Eligible(w))]
  /\ pc' = [pc EXCEPT ![w] = "scan"]
  /\ UNCHANGED <<queue, archive, held, turn, finished, clock, history>>

Claimed(row, w, at) == [row EXCEPT !.state = "processing", !.epoch = at,
                                   !.owner = Owner[w]]

Oldest(cs) == {c \in cs : \A d \in cs : c.row.seq <= d.row.seq}

\* ... and then tries them in seq order with a compare-and-swap on `state`,
\* keeping a copy of the row as it was read.
Take(w) ==
  /\ pc[w] = "scan"
  /\ \E c \in Oldest(cands[w]) :
       IF jobs[c.key].state = c.row.state
       THEN /\ jobs' = [jobs EXCEPT ![c.key] = Claimed(jobs[c.key], w, c.at)]
            /\ held' = [held EXCEPT ![w] =
                 [key |-> c.key, row |-> Claimed(c.row, w, c.at), stored |-> FALSE]]
            /\ turn' = [turn EXCEPT ![w] = @ \cup {c.key}]
            /\ cands' = [cands EXCEPT ![w] = {}]
            /\ pc' = [pc EXCEPT ![w] = "run"]
       ELSE /\ cands' = [cands EXCEPT ![w] = @ \ {c}]
            /\ UNCHANGED <<jobs, held, turn, pc>>
  /\ UNCHANGED <<avail, nextSeq, archive, finished, clock, history>>

EndDrain(w) ==
  /\ \/ pc[w] = "scan" /\ cands[w] = {}
     \/ pc[w] = "drain" /\ finished[w] = DrainMaxJobs
  /\ ForgetDrain(w)
  /\ pc' = [pc EXCEPT ![w] = "idle"]
  /\ UNCHANGED <<queue, archive, cands, held, clock, history>>

-----------------------------------------------------------------------------
(* A worker running one job: each write is fenced on the claim it made *)

Stage(w)     == held[w].key[2]
Recording(w) == held[w].key[1]

heartbeat_row_only(w) ==               \* mutant: the job dict keeps its epoch
  /\ pc[w] = "run" /\ HoldsClaim(w)
  /\ jobs' = [jobs EXCEPT ![held[w].key].epoch = clock]
  /\ UNCHANGED <<avail, nextSeq, archive, worker, clock, history>>

\* Renew the lease in the row and in the job dict later fences compare with.
heartbeat(w) ==
  /\ pc[w] = "run" /\ HoldsClaim(w)
  /\ jobs' = [jobs EXCEPT ![held[w].key].epoch = clock]
  /\ held' = [held EXCEPT ![w].row.epoch = clock]
  /\ UNCHANGED <<avail, nextSeq, archive, pc, cands, turn, finished, clock, history>>

\* store / record_review with a local winner: assert_publication_claim and the
\* transcript share one transaction.
Publish(w) ==
  /\ pc[w] = "run" /\ Stage(w) = "asr" /\ "asr" \in Served
  /\ Recording(w) \notin unreadable
  /\ ~held[w].stored
  /\ HoldsClaim(w)
  /\ text' = [text EXCEPT ![Recording(w)] = w]
  /\ held' = [held EXCEPT ![w].stored = TRUE]
  /\ overtaken' = overtaken \cup
       {v \in Workers \ {w} : pc[v] = "run" /\ held[v].key = held[w].key}
  /\ UNCHANGED <<queue, unreadable, pc, cands, turn, finished, clock,
                 faults, requests, stranded>>

\* Back in drain's loop, the job dict dropped.
Return(w) ==
  /\ pc[w] = "run"
  /\ pc' = [pc EXCEPT ![w] = "drain"]
  /\ held' = [held EXCEPT ![w] = Nothing]
  /\ overtaken' = overtaken \ {w}
  /\ UNCHANGED <<archive, cands, turn, clock, requests>>

\* The successor's row after complete: inserted; reset to queued, whatever it
\* was doing, under a forced predecessor; otherwise left alone.
Successor(row, forced) ==
  IF row.state = Absent THEN NewRow(nextSeq, forced)
  ELSE IF forced THEN Requeued(row, TRUE) ELSE row

\* drain counts the job as finished even when complete found the claim gone.
complete(w, next) ==
  LET k == held[w].key
      forced == held[w].row.replace
      succ == <<k[1], next>>
      done == [jobs EXCEPT ![k] = [Released(@, "done") EXCEPT !.replace = FALSE]]
      new == next # STOP /\ jobs[succ].state = Absent
  IN /\ Return(w)
     /\ finished' = [finished EXCEPT ![w] = @ + 1]
     /\ UNCHANGED faults
     /\ IF HoldsClaim(w)
        THEN /\ jobs' = IF next = STOP THEN done
                        ELSE [done EXCEPT ![succ] = Successor(@, forced)]
             /\ avail' = IF new \/ (next # STOP /\ forced)
                         THEN [avail EXCEPT ![succ] = clock] ELSE avail
             /\ nextSeq' = IF new THEN nextSeq + 1 ELSE nextSeq
             /\ stranded' = IF forced THEN stranded \ {succ} ELSE stranded
        ELSE UNCHANGED <<queue, stranded>>

\* asr_stage returns only after a published transcript or a review that keeps
\* PLAUD's; the other handlers may also end the chain where there is nothing
\* to summarise, draw or render.
Complete(w) ==
  /\ pc[w] = "run" /\ Stage(w) \in Served
  /\ Stage(w) = "asr" => /\ held[w].stored \/ Recording(w) \in WithPlaud
                         /\ Recording(w) \notin unreadable
  /\ \E next \in {NEXT_STAGE[Stage(w)]} \cup
                 (IF Stage(w) \in {"summary", "mindmap"} THEN {STOP} ELSE {}) :
       complete(w, next)

\* The verdict `fail` reaches from the job dict, not from the row: a tool error
\* spends its own budget, a transient error none, anything else a strike.
Failure(row, kind) ==
  LET attempts == IF kind = "strike" THEN row.attempts + 1 ELSE row.attempts
      tools    == IF kind = "tool" THEN row.tools + 1 ELSE row.tools
      spent    == IF kind = "tool" THEN tools >= MaxToolAttempts
                                   ELSE attempts >= MaxAttempts
  IN  [attempts |-> attempts, tools |-> tools,
       state |-> IF spent THEN "failed" ELSE "retry_wait",
       delay |-> backoff_sec(IF kind = "tool" THEN tools ELSE attempts)]

fail(w, kind) ==
  LET k == held[w].key
      verdict == Failure(held[w].row, kind)
  IN /\ Return(w)
     /\ clock + verdict.delay <= MaxTime
     /\ IF HoldsClaim(w)
        THEN /\ jobs' = [jobs EXCEPT ![k] =
                  [Released(@, verdict.state) EXCEPT
                     !.attempts = verdict.attempts, !.tools = verdict.tools]]
             /\ avail' = [avail EXCEPT ![k] = clock + verdict.delay]
        ELSE UNCHANGED <<jobs, avail>>
     /\ UNCHANGED <<nextSeq, finished, stranded>>

Fault == faults < MaxFaults /\ faults' = faults + 1

\* Media nothing can transcribe fails every attempt; other faults are bounded.
Fail(w) ==
  \/ /\ pc[w] = "run" /\ Stage(w) = "asr" /\ "asr" \in Served
     /\ Recording(w) \in unreadable
     /\ fail(w, "strike") /\ UNCHANGED faults
  \/ /\ pc[w] = "run" /\ Stage(w) \in Served
     /\ \E kind \in {"transient", "strike", "tool"} : fail(w, kind)
     /\ Fault

\* StageDeferred: the job goes straight back with its budget untouched.  A
\* stage this deployment cannot serve defers every turn.
Defer(w) ==
  LET k == held[w].key
  IN /\ Return(w)
     /\ IF Stage(w) \in Served THEN Fault ELSE UNCHANGED faults
     /\ IF HoldsClaim(w)
        THEN /\ jobs' = [jobs EXCEPT ![k] = Released(@, "queued")]
             /\ avail' = [avail EXCEPT ![k] = clock]
        ELSE UNCHANGED <<jobs, avail>>
     /\ UNCHANGED <<nextSeq, finished, stranded>>

\* ClaimLost out of checkpoint or a fenced publication: record nothing at all.
Lost(w) ==
  /\ pc[w] = "run" /\ ~HoldsClaim(w)
  /\ Return(w)
  /\ UNCHANGED <<queue, finished, faults, stranded>>

\* complete rolls back and re-raises when its transaction fails: the exception
\* leaves drain, the process lives on, and the claim stays in the table.
Abort(w) ==
  /\ pc[w] = "run" /\ HoldsClaim(w)
  /\ Stage(w) \in Served
  /\ Fault
  /\ clock + LeaseSec <= MaxTime
  /\ pc' = [pc EXCEPT ![w] = "idle"]
  /\ held' = [held EXCEPT ![w] = Nothing]
  /\ overtaken' = overtaken \ {w}
  /\ stranded' = stranded \cup {held[w].key}
  /\ ForgetDrain(w)
  /\ UNCHANGED <<queue, archive, cands, clock, requests>>

Tick ==
  /\ clock < MaxTime
  /\ clock' = clock + 1
  /\ UNCHANGED <<queue, archive, worker, history>>

-----------------------------------------------------------------------------

Init ==
  /\ jobs = [k \in Jobs |-> NoRow]
  /\ avail = [k \in Jobs |-> 0]
  /\ nextSeq = 1
  /\ text = [r \in Recordings |-> NoWorker]
  /\ pc = [w \in Workers |-> "off"]
  /\ cands = [w \in Workers |-> {}]
  /\ held = [w \in Workers |-> Nothing]
  /\ turn = [w \in Workers |-> {}]
  /\ finished = [w \in Workers |-> 0]
  /\ clock = 0
  /\ unreadable \in SUBSET Doubtful
  /\ faults = 0 /\ requests = 0
  /\ overtaken = {} /\ stranded = {}

Work(w) == \/ ReadClaims(w) \/ Repair(w) \/ Reconcile(w) \/ BeginDrain(w)
           \/ Select(w) \/ Take(w) \/ EndDrain(w) \/ Publish(w) \/ Complete(w) \/ Fail(w) \/ Defer(w) \/ Lost(w)

Asked == \E r \in Recordings :
  \/ enqueue_asr(r) \/ request_retranscribe(r) \/ request_regenerate(r)
  \/ request_diarize(r) \/ request_summary_language(r)

Next == \/ Asked
        \/ Tick
        \/ \E w \in Workers : Start(w) \/ Crash(w) \/ Work(w) \/ heartbeat(w) \/ Abort(w)

Spec == Init /\ [][Next]_vars

\* The supervisor restarts the connector, the loop always comes back to drain,
\* every handler returns, and time passes.
Fairness == /\ WF_vars(Tick)
            /\ \A w \in Workers : WF_vars(Start(w)) /\ WF_vars(Work(w))

FairSpec == Spec /\ Fairness

-----------------------------------------------------------------------------
(* Properties *)

\* Rows, jobs in hand and counters have their types; available_epoch apart.
QueueTypeOK ==
  /\ jobs \in [Jobs -> Row]
  /\ nextSeq \in Nat \ {0}
  /\ text \in [Recordings -> Workers \cup {NoWorker}]
  /\ pc \in [Workers -> {"off", "idle", "repair", "adopt", "reconciled", "sweep",
                      "drain", "scan", "run", "dead"}]
  /\ cands \in [Workers -> SUBSET [key : Jobs, row : Row, at : Nat]]
  /\ held \in [Workers -> [key : Jobs \cup {NoJob}, row : Row, stored : BOOLEAN]]
  /\ \A w \in Workers : pc[w] = "run" => held[w].key \in Jobs
  /\ turn \in [Workers -> SUBSET Jobs]
  /\ finished \in [Workers -> Nat]
  /\ clock \in Nat /\ faults \in Nat /\ requests \in Nat
  /\ unreadable \subseteq Doubtful
  /\ overtaken \subseteq Workers /\ stranded \subseteq Jobs

\* The job table, the workers' copies and the clock hold values of their types.
TypeOK == QueueTypeOK /\ avail \in [Jobs -> Nat]

Owned(k, w) == Processing(k) /\ jobs[k].owner = Owner[w]

\* A claim by a process that is alive is a job that process is running right
\* now, under the very epoch it will present to the fence - or one whose
\* completing transaction failed.  Any other claim would be believed for a
\* whole lease, the pid being alive, with nobody working on it.
NoForgottenClaim ==
  \A k \in Jobs, w \in Workers :
    Alive(w) /\ Owned(k, w) /\ k \notin stranded =>
      pc[w] = "run" /\ held[w].key = k /\ HoldsClaim(w)

\* Under the archive's flock a started connector finds its own string on every
\* claim in the table ...
FlockOwnsClaims ==
  \A k \in Jobs, w \in Workers :
    SingleFlight /\ Alive(w) /\ Processing(k) => Owned(k, w)

\* ... and every such claim is the job it is running: what a dead incarnation
\* left behind, on any host or under the same reused pid, is gone before the
\* first pass.
NoInheritedClaim ==
  \A k \in Jobs, w \in Workers :
    SingleFlight /\ Alive(w) /\ Processing(k) /\ k \notin stranded =>
      pc[w] = "run" /\ held[w].key = k /\ HoldsClaim(w)

\* A worker runs its job under its own owner string.
OwnHand == \A w \in Workers : pc[w] = "run" => held[w].row.owner = Owner[w]

\* The inductive invariant behind the two: flock admits one live connector, and
\* where there is no flock the owner strings tell live workers apart.
ClaimInv ==
  /\ NoForgottenClaim /\ FlockOwnsClaims
  /\ SingleFlight => \A v, w \in Workers : Alive(v) /\ Alive(w) => v = w
  /\ ~SingleFlight => \A w \in Workers, k \in Jobs : pc[w] = "off" => ~Owned(k, w)

\* A claim ends in a verdict only at the hand of the process that holds it, and
\* the chain moves past ASR only on the transcript that very process published:
\* the summary never runs "against a transcript nobody published".
OnlyClaimantJudges ==
  [][\A k \in Jobs :
       Processing(k) /\ jobs'[k].state \in {"done", "failed", "retry_wait"} =>
         \E w \in Workers :
           /\ Owned(k, w) /\ held[w].key = k /\ held'[w] = Nothing
           /\ k[2] = "asr" /\ k[1] \notin WithPlaud /\ jobs'[k].state = "done"
                => text[k[1]] = w]_vars

\* A worker whose job has since been claimed and published by another never
\* publishes over it.
NoStaleOverwrite ==
  [][\A r \in Recordings : text'[r] # text[r] => text'[r] \notin overtaken]_vars

\* A recovery pass of v is at hand on a claim of k other than the one k is now
\* under: read before that claim was made or renewed, and disbelieved.
RecoversEarlierClaim(v, k) ==
  /\ pc[v] \in {"repair", "sweep"}
  /\ \E c \in Abandoned(v) :
       /\ c.key = k
       /\ <<c.row.owner, c.row.epoch>> # <<jobs[k].owner, jobs[k].epoch>>

\* While a claim is inside its lease and its process is alive, nobody but that
\* process changes the row - with two exceptions.  A forced predecessor of the
\* same recording finishing restarts the stage on purpose.  And a recovery pass
\* without the flock, whose UPDATE names neither owner nor epoch, may throw the
\* claim back: only when what it read and judged was an earlier claim of the
\* job, never this one.
LiveClaimUndisturbed ==
  [][\A k \in Jobs, w \in Workers :
       /\ Alive(w) /\ Owned(k, w)
       /\ jobs[k].epoch > clock - LeaseSec
       /\ jobs'[k] # jobs[k]
       => \/ held'[w] # held[w]
          \/ \E s \in Stages : /\ NEXT_STAGE[s] = k[2]
                               /\ Processing(<<k[1], s>>)
                               /\ jobs'[<<k[1], s>>].state = "done"
          \/ /\ ~SingleFlight /\ jobs'[k].state = "queued"
             /\ \E v \in Workers \ {w} : RecoversEarlierClaim(v, k)]_vars

\* The job dict a worker runs with is the row it claimed: budgets and the
\* replacement intent a handler acts on are the durable ones.
CopyMatchesRow ==
  \A w \in Workers : pc[w] = "run" /\ HoldsClaim(w) =>
    /\ held[w].row.attempts = jobs[held[w].key].attempts
    /\ held[w].row.tools = jobs[held[w].key].tools
    /\ held[w].row.replace = jobs[held[w].key].replace

\* Every job the deployment can serve comes to an end, whatever crashes, lost
\* leases, deferrals and failed transactions it meets on the way.
WorkFinishes ==
  \A k \in Recordings \X Served : Open(jobs[k]) ~> ~Open(jobs[k])

\* Local audio nothing was enqueued for is found, a stage that ran has its
\* successor in the table, and unreadable media stops being revived: every
\* recording comes to rest with ASR failed for good or the summary decided.
EveryRecordingSettles ==
  \A r \in Recordings :
    <>[]\/ jobs[<<r, "asr">>].state = "failed"
        \/ /\ jobs[<<r, "asr">>].state = "done"
           /\ jobs[<<r, "summary">>].state \in {"done", "failed"}
=============================================================================
