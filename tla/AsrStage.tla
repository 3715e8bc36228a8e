------------------------------ MODULE AsrStage ------------------------------
(***************************************************************************)
(* The ASR stage of one recording under the connector's flock: asr_stage   *)
(* of archive/stages.py with the window table (asr_segments) and the       *)
(* review ledger (plaud_reviews) of archive/asr_backfill.py.               *)
(*                                                                         *)
(* A turn is one run of the handler.  It may transcribe the recording from *)
(* local audio or, where PLAUD's text arrived first, review that text      *)
(* against it; a long recording goes window by window and may hand the     *)
(* queue back after its share.  Connector incarnations follow each other,  *)
(* each with its owner string, host and window size.  The job row keeps    *)
(* only what the turn needs of PipelineQueue: its state, claim, the        *)
(* force_local flag, the attempt budget and the revivals it has had.       *)
(***************************************************************************)
EXTENDS SegmentPlan, FiniteSets

CONSTANTS
  Durations,        \* lengths the recording may have, in seconds
  Threshold,        \* ASR_SEGMENT_THRESHOLD_SECONDS
  MinSec,           \* min_segment_sec: the shortest window ASR accepts
  MaxSegment,       \* MAX_SEGMENT_SEC: the longest
  Incarnations,     \* how many connector processes there may be, in turn
  Chunk,            \* Chunk[p]: ASR_SEGMENT_SECONDS of incarnation p
  Owner, Host,      \* Owner[p]: host:pid of incarnation p; Host of an owner
  Owners, NoOwner,
  LeaseSec,         \* SEGMENT_LEASE_SEC, which is PIPELINE_LEASE_SECONDS
  SegmentsPerRun,   \* ASR_SEGMENTS_PER_RUN
  MaxAttempts,      \* PIPELINE_MAX_ATTEMPTS
  MaxRevivals,      \* MAX_REVIVALS
  MaxTime, MaxFaults, MaxRequests   \* bounds on the environment

Processes == 1 .. Incarnations

ASSUME AsrAssumption ==
  /\ Durations \subseteq Nat \ {0} /\ IsFiniteSet(Durations)
  /\ Threshold \in Nat /\ MinSec \in Nat \ {0} /\ MaxSegment \in Nat \ {0}
  /\ Incarnations \in Nat \ {0}
  /\ Chunk \in [Processes -> Nat \ {0}]
  /\ Owner \in [Processes -> Owners] /\ NoOwner \notin Owners
  /\ LeaseSec \in Nat \ {0} /\ SegmentsPerRun \in Nat \ {0}
  /\ MaxAttempts \in Nat \ {0} /\ MaxRevivals \in Nat
  /\ MaxTime \in Nat /\ MaxFaults \in Nat /\ MaxRequests \in Nat

VARIABLES
  duration, plaud,   \* the recording's length; TRUE: it has PLAUD's text
  job,               \* its ASR row in pipeline_jobs
  review,            \* its row in plaud_reviews
  windows,           \* its rows in asr_segments
  text,              \* requests heard by asr_transcript's windows; {}: it is ''
  proc,              \* the latest incarnation; 0 before the first
  pc,                \* where it stands: "down" is no process
  at, spent,         \* the turn's window in hand, and how many it has heard
  done,              \* what it will publish: its copies of committed rows
  clock,
  requests,          \* how many retranscriptions the reader has been granted
  taps,              \* how many taps have found the job closed, no more
  emptied,           \* history: a tap came too late and took the windows
  faults             \* failures so far, bounded

rows  == <<job, review, windows, text>>
local == <<at, done, spent>>
asked == <<requests, taps, emptied>>
vars  == <<duration, plaud, rows, proc, pc, local, clock, asked, faults>>

Plan(p) == plan_segments(duration, WindowSize(Chunk[p], MaxSegment), MinSec)
Indexes == 0 .. Planned(duration, 1, 1) - 1    \* no plan has more windows

needs_segmentation == duration > Threshold

NoJob    == [state |-> "queued", owner |-> NoOwner, epoch |-> 0,
             force |-> FALSE, attempts |-> 0, revivals |-> 0]
NoReview == [state |-> "absent", owner |-> NoOwner, epoch |-> 0]
NoWindow == [status |-> "absent", span |-> [start |-> 0, duration |-> 0],
             owner |-> NoOwner, epoch |-> 0, heard |-> 0]

Pending(span) == [NoWindow EXCEPT !.status = "pending", !.span = span]

NoneHeld == [i \in {} |-> NoWindow]

Open == job.state \in {"queued", "processing", "retry_wait"}

-----------------------------------------------------------------------------
(* Claims: one process at a time, so an owner string is alive if it is its *)

Me == Owner[proc]

claim_is_live_forever(owner, epoch) ==       \* mutant: leases do not run out
  Host[owner] = Host[Me] => owner = Me

\* A lease, and on this host a pid that answers.
claim_is_live(owner, epoch) ==
  /\ epoch > clock - LeaseSec
  /\ Host[owner] = Host[Me] => owner = Me

\* A process is never concurrent with itself, so a window it left is its own.
claim_expired(owner, epoch) == owner = Me \/ ~claim_is_live(owner, epoch)

Freed(row) == [row EXCEPT !.owner = NoOwner, !.epoch = 0]

\* Startup lets go of windows claimed under this process's own string and of
\* those whose claim is dead; a foreign one inside its lease is kept.
release_processing_segments ==
  [i \in Indexes |->
     IF /\ windows[i].status = "processing"
        /\ windows[i].owner = Me \/ ~claim_is_live(windows[i].owner, windows[i].epoch)
     THEN [Freed(windows[i]) EXCEPT !.status = "pending"] ELSE windows[i]]

Reviewing == plaud /\ ~job.force

\* release_review: back to queued if the claim is this process's own.
ReleasedReview ==
  IF review.state = "processing" /\ review.owner = Me
  THEN [Freed(review) EXCEPT !.state = "queued"] ELSE review

\* claim_review: never a decided row, never one whose claim is believed.
Reviewable ==
  /\ review.state # "reviewed"
  /\ review.state = "processing" => ~claim_is_live(review.owner, review.epoch)

-----------------------------------------------------------------------------
(* The process: start, crash, passes *)

\* connector.main, from the flock to the control socket.  Jobs first: every
\* processing claim goes back to the queue.  Then, if the job is runnable, the
\* windows and the review it may have left in hand.
Start ==
  /\ pc = "down" /\ proc < Incarnations
  /\ proc' = proc + 1
  /\ pc' = "starting"
  /\ job' = IF job.state = "processing" THEN [Freed(job) EXCEPT !.state = "queued"]
                                        ELSE job
  /\ UNCHANGED <<duration, plaud, review, windows, text, local, clock, asked, faults>>

Release ==
  /\ pc = "starting"
  /\ pc' = "idle"
  /\ IF job.state \in {"queued", "retry_wait"}
     THEN /\ windows' = release_processing_segments
          /\ review' = IF review.state = "processing"
                       THEN [Freed(review) EXCEPT !.state = "queued"] ELSE review
     ELSE UNCHANGED <<windows, review>>
  /\ UNCHANGED <<duration, plaud, job, text, proc, local, clock, asked, faults>>

\* Whatever the turn held in memory is gone; a successor is still to come and a
\* lease left behind can still run out.  Taps are threads of the same process.
Crash ==
  /\ pc # "down" /\ proc < Incarnations
  /\ clock + LeaseSec <= MaxTime
  /\ pc' = "down"
  /\ at' = 0 /\ done' = NoneHeld /\ spent' = 0
  /\ taps' = 0
  /\ UNCHANGED <<duration, plaud, rows, proc, clock, requests, emptied, faults>>

\* The pass returns a claim it no longer believes, and gives the job a turn.
Recover ==
  /\ pc = "idle" /\ job.state = "processing"
  /\ ~claim_is_live(job.owner, job.epoch)
  /\ job' = [Freed(job) EXCEPT !.state = "queued"]
  /\ UNCHANGED <<duration, plaud, review, windows, text, proc, pc, local, clock,
                 asked, faults>>

\* reconcile gives a failed job without a text another chance, so many times.
Revive ==
  /\ pc = "idle" /\ job.state = "failed"
  /\ text = {} /\ job.revivals < MaxRevivals
  /\ job' = [Freed(job) EXCEPT !.state = "queued", !.attempts = 0, !.revivals = @ + 1]
  /\ UNCHANGED <<duration, plaud, review, windows, text, proc, pc, local, clock,
                 asked, faults>>

Claim ==
  /\ pc = "idle" /\ job.state \in {"queued", "retry_wait"}
  /\ job' = [job EXCEPT !.state = "processing", !.owner = Me, !.epoch = clock]
  /\ pc' = "handler"
  /\ UNCHANGED <<duration, plaud, review, windows, text, proc, local, clock,
                 asked, faults>>

-----------------------------------------------------------------------------
(* The handler *)

\* ensure_review_row and claim_review.
claim_review ==
  /\ pc = "handler" /\ Reviewing /\ Reviewable
  /\ review' = [state |-> "processing", owner |-> Me, epoch |-> clock]
  /\ pc' = "plan"
  /\ UNCHANGED <<duration, plaud, job, windows, text, proc, local, clock,
                 asked, faults>>

\* review_one returns None; the deferral this raises passes through the
\* handler's own `except Exception`, which releases the review.
DeclineReview ==
  /\ pc = "handler" /\ Reviewing /\ ~Reviewable
  /\ review' = ReleasedReview
  /\ pc' = "defer"
  /\ UNCHANGED <<duration, plaud, job, windows, text, proc, local, clock,
                 asked, faults>>

Transcribe ==
  /\ pc = "handler" /\ ~Reviewing
  /\ pc' = "plan"
  /\ UNCHANGED <<duration, plaud, rows, proc, local, clock, asked, faults>>

OnPlan(i) == i \in DOMAIN Plan(proc) /\ windows[i].span = Plan(proc)[i]

done_segments_any_span ==                    \* mutant: boundaries not compared
  {i \in DOMAIN Plan(proc) : windows[i].status = "complete"}

done_segments == {i \in Indexes : windows[i].status = "complete" /\ OnPlan(i)}

\* Committed windows and believed claims, on the plan's own boundaries.
Kept(i) == \/ i \in done_segments
           \/ /\ windows[i].status = "processing" /\ OnPlan(i)
              /\ ~claim_expired(windows[i].owner, windows[i].epoch)

materialize_plan_afresh ==                   \* mutant: every run starts over
  [i \in Indexes |-> IF i \notin DOMAIN Plan(proc) THEN NoWindow
                     ELSE Pending(Plan(proc)[i])]

materialize_plan_added ==                    \* mutant: rows outside the plan stay
  [i \in Indexes |-> IF i \notin DOMAIN Plan(proc) \/ Kept(i) THEN windows[i]
                     ELSE Pending(Plan(proc)[i])]

\* Rows outside the plan are deleted; what is not kept is owed.
materialize_plan ==
  [i \in Indexes |-> IF i \notin DOMAIN Plan(proc) THEN NoWindow
                     ELSE IF Kept(i) THEN windows[i] ELSE Pending(Plan(proc)[i])]

\* The top of transcribe: windows for long audio, else the file in one call.
BeginCalls ==
  /\ pc = "plan"
  /\ IF needs_segmentation
     THEN /\ windows' = materialize_plan
          /\ done' = [i \in done_segments |-> windows[i]]
          /\ emptied' = FALSE
          /\ pc' = "windows"
          /\ UNCHANGED at
     ELSE /\ pc' = "call" /\ at' = 0
          /\ UNCHANGED <<windows, done, emptied>>
  /\ spent' = 0
  /\ UNCHANGED <<duration, plaud, job, review, text, proc, clock, requests, taps, faults>>

Owed == DOMAIN Plan(proc) \ DOMAIN done
Following(i) == i \in Owed /\ \A j \in Owed : i <= j

ShareSpent_early == spent + 1 >= SegmentsPerRun   \* mutant: before the first
ShareSpent == spent >= SegmentsPerRun

\* A row that is gone cannot be claimed.
claim_segment(i) ==
  windows[i].status \notin {"absent", "complete"} /\
  (windows[i].status = "processing" => claim_expired(windows[i].owner, windows[i].epoch))

\* The next owed window.  A turn that has had its share yields if another
\* recording is waiting; a window it cannot claim ends the turn.
TakeWindow ==
  /\ pc = "windows"
  /\ \E i \in Owed :
       /\ Following(i) /\ claim_segment(i)
       /\ windows' = [windows EXCEPT ![i] = [@ EXCEPT !.status = "processing",
                        !.owner = Me, !.epoch = clock, !.span = Plan(proc)[i]]]
       /\ at' = i
  /\ pc' = "call"
  /\ UNCHANGED <<duration, plaud, job, review, text, proc, done, spent, clock,
                 asked, faults>>

\* SegmentPaused: the review claim, if any, stays as it is.
Pause ==
  /\ pc = "windows"
  /\ \E i \in Owed : Following(i) /\ (ShareSpent \/ ~claim_segment(i))
  /\ pc' = "defer"
  /\ UNCHANGED <<duration, plaud, rows, proc, local, clock, asked, faults>>

\* Upserts: a row deleted since it was claimed is there again.
record_segment ==
  [NoWindow EXCEPT !.status = "complete", !.span = Plan(proc)[at], !.heard = requests]

fail_segment_unclaimed == [windows[at] EXCEPT !.status = "failed"]   \* mutant

fail_segment == [Freed(windows[at]) EXCEPT !.status = "error", !.span = Plan(proc)[at]]

\* record_segment, then the checkpoint that renews the job's lease.
Heard ==
  /\ pc = "call"
  /\ IF needs_segmentation
     THEN /\ windows' = [windows EXCEPT ![at] = record_segment]
          /\ done' = [i \in DOMAIN done \cup {at} |->
                        IF i = at THEN record_segment ELSE done[i]]
          /\ spent' = spent + 1
          /\ pc' = "checkpoint"
     ELSE /\ pc' = "publish"
          /\ UNCHANGED <<windows, done, spent>>
  /\ UNCHANGED <<duration, plaud, job, review, text, proc, at, clock, asked, faults>>

Checkpoint ==
  /\ pc = "checkpoint"
  /\ job' = [job EXCEPT !.epoch = clock]
  /\ pc' = "windows"
  /\ UNCHANGED <<duration, plaud, review, windows, text, proc, local, clock,
                 asked, faults>>

Fault == faults < MaxFaults /\ faults' = faults + 1

\* A window's failure is checkpointed and ends the turn, as a deferral if the
\* service was away; neither way touches the review.  A whole-file failure
\* does release it.
CallFails ==
  /\ pc = "call" /\ Fault
  /\ IF needs_segmentation
     THEN /\ windows' = [windows EXCEPT ![at] = fail_segment]
          /\ pc' \in {"defer", "strike"}
          /\ UNCHANGED review
     ELSE /\ review' = IF Reviewing THEN ReleasedReview ELSE review
          /\ pc' \in {"retry", "strike"}
          /\ UNCHANGED windows
  /\ UNCHANGED <<duration, plaud, job, text, proc, local, clock, asked>>

Assembled == pc = "windows" /\ Owed = {}
Hearing   == IF needs_segmentation THEN {done[i].heard : i \in DOMAIN Plan(proc)}
                                   ELSE {requests}

\* Silence throughout is an error, raised before anything is published.
NothingHeard ==
  /\ Assembled \/ pc = "publish"
  /\ Fault
  /\ review' = IF Reviewing THEN ReleasedReview ELSE review
  /\ pc' = "strike"
  /\ UNCHANGED <<duration, plaud, job, windows, text, proc, local, clock, asked>>

\* store, or record_review with its verdict: one transaction, fenced on the
\* job's claim, which nothing but this process can have taken.
Publish ==
  /\ Assembled \/ pc = "publish"
  /\ \/ /\ ~Reviewing
        /\ text' = Hearing
        /\ UNCHANGED review
     \/ /\ Reviewing
        /\ text' \in {text, Hearing}
        /\ review' = [Freed(review) EXCEPT !.state = "reviewed"]
  /\ pc' = "renew"
  /\ UNCHANGED <<duration, plaud, job, windows, proc, local, clock, asked, faults>>

Renew ==
  /\ pc = "renew"
  /\ job' = [job EXCEPT !.epoch = clock]
  /\ pc' = "complete"
  /\ UNCHANGED <<duration, plaud, review, windows, text, proc, local, clock,
                 asked, faults>>

-----------------------------------------------------------------------------
(* How the turn ends in drain *)

Outcome(state, force) ==
  [Freed(job) EXCEPT !.state = state, !.force = force]

EndTurn == /\ pc' = "idle" /\ at' = 0 /\ done' = NoneHeld /\ spent' = 0
           /\ UNCHANGED <<duration, plaud, review, windows, text, proc, clock, asked>>

Complete == /\ pc = "complete" /\ EndTurn
            /\ job' = Outcome("done", FALSE)
            /\ UNCHANGED faults

\* The completing transaction fails and the exception leaves drain.
Abort == /\ pc = "complete" /\ Fault /\ EndTurn
         /\ clock + LeaseSec <= MaxTime
         /\ UNCHANGED job

Struck_by_pause ==                           \* mutant: a pause costs an attempt
  [Outcome("queued", job.force) EXCEPT !.attempts = @ + 1]

Deferred == Outcome("queued", job.force)

Defer == /\ pc = "defer" /\ EndTurn
         /\ job' = Deferred
         /\ UNCHANGED faults

\* fail: a transient error spends nothing, any other one attempt.
Fail == /\ pc \in {"retry", "strike"} /\ EndTurn
        /\ LET n == IF pc = "strike" THEN job.attempts + 1 ELSE job.attempts
           IN  job' = [Outcome(IF n >= MaxAttempts THEN "failed" ELSE "retry_wait", job.force)
                         EXCEPT !.attempts = n]
        /\ UNCHANGED faults

\* A tap of the reader looks at the job and joins it if it is open.
Tap ==
  /\ pc \notin {"down", "starting"} /\ ~Open
  /\ requests + taps < MaxRequests
  /\ taps' = taps + 1
  /\ UNCHANGED <<duration, plaud, rows, proc, pc, local, clock, requests, emptied, faults>>

request_retranscribe_keep_windows == windows \* mutant: the old windows stay

Cleared == [i \in Indexes |-> NoWindow]

\* The rest of it is one transaction, on the job as it is by then.  The reset
\* is for a closed job only, the DELETE is not: where the job was reopened
\* meanwhile, by another tap or by reconcile, its windows go all the same.
request_retranscribe ==
  /\ taps > 0 /\ taps' = taps - 1
  /\ IF Open
     THEN UNCHANGED <<job, requests>>
     ELSE /\ job' = [NoJob EXCEPT !.force = TRUE, !.revivals = job.revivals]
          /\ requests' = requests + 1
  /\ windows' = Cleared
  /\ emptied' = Open
  /\ UNCHANGED <<duration, plaud, review, text, proc, pc, local, clock, faults>>

Tick == /\ clock < MaxTime
        /\ clock' = clock + 1
        /\ UNCHANGED <<duration, plaud, rows, proc, pc, local, asked, faults>>

-----------------------------------------------------------------------------

Init ==
  /\ duration \in Durations /\ plaud \in BOOLEAN
  /\ job = NoJob /\ review = NoReview
  /\ windows = [i \in Indexes |-> NoWindow]
  /\ text = {}
  /\ proc = 0 /\ pc = "down"
  /\ at = 0 /\ done = NoneHeld /\ spent = 0
  /\ clock = 0 /\ faults = 0
  /\ requests = 0 /\ taps = 0 /\ emptied = FALSE

Work == \/ Start \/ Release \/ Recover \/ Revive \/ Claim
        \/ claim_review \/ DeclineReview \/ Transcribe
        \/ BeginCalls \/ TakeWindow \/ Pause \/ Heard \/ Checkpoint
        \/ CallFails \/ NothingHeard \/ Publish \/ Renew
        \/ Complete \/ Defer \/ Fail

Next == Work \/ Abort \/ Crash \/ Tap \/ request_retranscribe \/ Tick

Spec == Init /\ [][Next]_vars

\* The supervisor restarts the connector, its loop comes back to the queue and
\* every call returns; time passes.
Fairness == WF_vars(Work) /\ WF_vars(Tick)

FairSpec == Spec /\ Fairness

-----------------------------------------------------------------------------
(* Properties *)

SegmentRows ==
  [status : {"absent", "pending", "processing", "error", "complete"},
   span : [start : Nat, duration : Nat],
   owner : Owners \cup {NoOwner}, epoch : Nat, heard : 0 .. MaxRequests]

\* The ASR job, its windows, its review and the worker hold values of their types.
TypeOK ==
  /\ job \in [state : {"queued", "processing", "retry_wait", "done", "failed"},
              owner : Owners \cup {NoOwner}, epoch : Nat, force : BOOLEAN,
              attempts : 0 .. MaxAttempts, revivals : 0 .. MaxRevivals]
  /\ review \in [state : {"absent", "queued", "processing", "reviewed"},
                 owner : Owners \cup {NoOwner}, epoch : Nat]
  /\ windows \in [Indexes -> SegmentRows]
  /\ text \subseteq 0 .. MaxRequests
  /\ proc \in 0 .. Incarnations
  /\ DOMAIN done \subseteq Indexes /\ \A i \in DOMAIN done : done[i] \in SegmentRows
  /\ at \in Indexes /\ spent \in Nat
  /\ clock \in 0 .. MaxTime
  /\ requests \in Nat /\ taps \in Nat /\ requests + taps <= MaxRequests
  /\ emptied \in BOOLEAN
  /\ faults \in 0 .. MaxFaults

\* The types, and only failures spend attempts: no number of pauses, crashes
\* and restarts retires a recording nothing failed on.
OnlyFailuresSpend == TypeOK /\ job.attempts <= faults

\* What is published was heard in full: for each window of the current plan the
\* turn holds a row committed on the plan's own boundaries, through every crash,
\* retune and late tap.  Old audio is never spliced in under a new timestamp.
PublishedWhole ==
  [][text' # text /\ needs_segmentation =>
       \A i \in DOMAIN Plan(proc) :
         i \in DOMAIN done /\ done[i].status = "complete" /\ done[i].span = Plan(proc)[i]]_vars

\* A run the reader asked for hears every window anew.
FreshAfterRequest ==
  [][text' # text /\ job.force => text' = {requests}]_vars

\* A tap that found the job closed comes to write and finds it open again.
Overtaken == Open /\ taps > 0

\* A committed window is an hour of work nobody does twice: only a request, a
\* change of the plan's boundaries or a tap that was overtaken takes it back.
CommittedWindowKept ==
  [][\A i \in Indexes :
       windows[i].status = "complete" /\ windows'[i] # windows[i] =>
         requests' # requests \/ ~OnPlan(i) \/ (Overtaken /\ taps' < taps)]_vars

\* Local audio is transcribed in the end, unless attempts failed it.
LocalFinishes == Open /\ ~Reviewing ~> ~Open

\* PLAUD's text is judged in the end, unless attempts failed it.
ReviewDecided == Open /\ Reviewing ~> (~Open \/ review.state = "reviewed")

\* complete: "a crash either leaves the stage unfinished (it is retried) or
\* leaves the next stage queued.  There is no third state in which a recording
\* stops silently": the stage comes to an end.
StageEnds == Open ~> ~Open

\* connector.main: "under the tenant single-flight lock, a non-processing ASR
\* job cannot have a legitimate processing segment.  Restore that invariant".
StartFreesWindows ==
  pc = "idle" /\ job.state \in {"queued", "retry_wait"} =>
    \A i \in Indexes : windows[i].status # "processing"
=============================================================================
