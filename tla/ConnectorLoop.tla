---------------------------- MODULE ConnectorLoop ----------------------------
(***************************************************************************)
(* The connector's main loop (connector.py main) with everything that can  *)
(* wake it: the control server's threads (control.py), the coalescing      *)
(* source poll (SourcePollRequest) and the one-bit Waker (pipeline.py).    *)
(* The job queue behind a drain is PipelineQueue; here a job is only queued*)
(* or done, and what matters is WHEN somebody looks at it.                 *)
(*                                                                         *)
(* Times are counted down: due is what is left of the discovery deadline,  *)
(* cool what is left of the poll's cooldown.                               *)
(***************************************************************************)
EXTENDS Naturals, FiniteSets

CONSTANTS
  Waking,        \* control actions that commit a job and then wake the loop
  Quiet,         \* control actions that commit a job and wake nobody
  Uploads,       \* uploaded files, imported by a child process
  Found,         \* recordings only source discovery brings
  Interval,      \* SYNC_INTERVAL_S
  Cooldown,      \* SOURCE_POLL_COOLDOWN_S
  MaxJobs,  \* pipeline.DRAIN_MAX_JOBS
  MaxAsked,   \* bound: requests committed, polls included
  MaxMishaps      \* bound: crashes, failed syncs, drains, jobs and imports

Intents == Waking \cup Quiet \cup Uploads \cup Found
Poll == "source_poll"

ASSUME LoopAssumption ==
  /\ Interval \in Nat \ {0} /\ Cooldown \in Nat
  /\ MaxJobs \in Nat \ {0}
  /\ \A A, B \in {Waking, Quiet, Uploads, Found} : A # B => A \cap B = {}
  /\ Poll \notin Intents

VARIABLES
  main,       \* where the main thread is
  why,      \* what started the current drain: a wake, a poll or the deadline
  left,     \* jobs the current drain may still finish
  had,      \* had_a_turn: jobs it has taken up
  event,    \* Waker._event
  pending,  \* SourcePollRequest._pending
  due, cool,
  job,      \* the rows of pipeline_jobs
  calls,    \* server threads that committed and have not waked yet
  heard,    \* history: answered requests no drain has begun after
  asked,    \* history: a poll was answered "queued", no pass has begun since
  made, mishaps

server == <<pending, cool, calls, made>>
loopVars == <<main, why, left, had, event, due, job, heard, asked, mishaps, server>>

Queued == {i \in Intents : job[i] = "queued"}

LoopInit ==
  /\ main = "down" /\ why = "periodic" /\ left = 0 /\ had = {}
  /\ event = FALSE /\ pending = FALSE /\ due = 0 /\ cool = 0
  /\ job = [i \in Intents |-> "none"]
  /\ calls = {} /\ heard = {} /\ asked = FALSE
  /\ made = 0 /\ mishaps = 0

(***************************************************************************)
(* The server's threads.                                                   *)
(***************************************************************************)

\* One upload at a time: the others are answered "busy" (_upload_lock).
UploadLockFree(i) == i \in Uploads => calls \cap Uploads = {}

\* A thread commits what the reader asked for.  Only some actions go on to
\* waker.wake().
Commit(i) ==
  /\ main # "down" /\ made < MaxAsked
  /\ i \in Waking \cup Quiet \cup Uploads /\ UploadLockFree(i)
  /\ i \in Uploads => job[i] = "none"
  /\ job' = [job EXCEPT ![i] = "queued"]
  /\ calls' = IF i \in Quiet THEN calls ELSE calls \cup {i}
  /\ made' = made + 1
  /\ UNCHANGED <<main, why, left, had, event, pending, due, cool, heard, asked, mishaps>>

\* SourcePollRequest.request up to its unlock.  Refusing in the cooldown
\* changes nothing.
RequestPoll ==
  /\ main # "down" /\ made < MaxAsked
  /\ \/ pending /\ UNCHANGED <<pending, cool, calls>>
     \/ /\ ~pending /\ cool = 0
        /\ pending' = TRUE /\ cool' = Cooldown /\ calls' = calls \cup {Poll}
  /\ asked' = TRUE /\ made' = made + 1
  /\ UNCHANGED <<main, why, left, had, event, due, job, heard, mishaps>>

\* The thread wakes the loop and answers its caller.
WakeAndAnswer(i) ==
  /\ i \in calls
  /\ event' = TRUE /\ calls' = calls \ {i}
  /\ heard' = IF i \in Intents /\ job[i] = "queued" THEN heard \cup {i} ELSE heard
  /\ UNCHANGED <<main, why, left, had, pending, due, cool, job, asked, made, mishaps>>

\* The import's child committed its recording and is then killed by the
\* timeout, or ends badly: the caller is told import_failed, nobody is waked.
ImportFails(i) ==
  /\ i \in calls \cap Uploads /\ mishaps < MaxMishaps
  /\ calls' = calls \ {i} /\ mishaps' = mishaps + 1
  /\ UNCHANGED <<main, why, left, had, event, pending, due, cool, job, heard, asked, made>>

(***************************************************************************)
(* The main thread.                                                        *)
(***************************************************************************)

\* Restarted, the process owes a discovery pass at once and has forgotten
\* wakes, polls and the cooldown.
Restart ==
  /\ main = "down" /\ main' = "top"
  /\ due' = 0 /\ cool' = 0
  /\ UNCHANGED <<why, left, had, event, pending, job, calls, heard, asked, made, mishaps>>

BeginPass(w) == main' = "sync" /\ why' = w /\ asked' = FALSE

\* source_requests.consume(): cleared before the pass it stands for.
ConsumePoll ==
  /\ main = "top" /\ pending
  /\ pending' = FALSE /\ BeginPass("poll")
  /\ UNCHANGED <<left, had, event, due, cool, job, calls, heard, made, mishaps>>

NoPoll ==
  /\ main = "top" /\ ~pending /\ main' = "wait"
  /\ UNCHANGED <<why, left, had, event, due, job, heard, asked, mishaps, server>>

\* Mutant: the wait has no timeout.
WaitTimesOut_never == main = "wait" /\ ~event /\ due = 0 /\ UNCHANGED loopVars

\* waker.wait(remaining): the event wins over a deadline already past, and is
\* cleared in a later step, still before anything is drained.
WaitFires ==
  /\ main = "wait" /\ event /\ main' = "clear"
  /\ UNCHANGED <<why, left, had, event, due, job, heard, asked, mishaps, server>>

WaitTimesOut ==
  /\ main = "wait" /\ ~event /\ due = 0 /\ BeginPass("periodic")
  /\ UNCHANGED <<left, had, event, due, job, heard, mishaps, server>>

\* drain_pipeline opens the queue.  A fault is an exception before any job.
OpenDrain ==
  /\ main' = "drain" /\ heard' = {} /\ had' = {}
  /\ \/ left' = MaxJobs /\ UNCHANGED mishaps
     \/ mishaps < MaxMishaps /\ left' = 0 /\ mishaps' = mishaps + 1

ClearAndDrain ==
  /\ main = "clear" /\ event' = FALSE /\ why' = "wake" /\ OpenDrain
  /\ UNCHANGED <<due, job, asked, server>>

\* sync_once inside pass_once: each new recording is committed with its first
\* job and none of them wakes.  The drain follows whether or not it failed.
Sync ==
  /\ main = "sync"
  /\ \E new \in SUBSET {i \in Found : job[i] = "none"} :
       job' = [i \in Intents |-> IF i \in new THEN "queued" ELSE job[i]]
  /\ OpenDrain
  /\ UNCHANGED <<why, event, due, asked, server>>

\* One turn each: done, failed into a later retry, or deferred back into the
\* queue, as every job is while the caller's token file is missing.  Only what
\* was finished counts against the limit.
DrainOne(i) ==
  /\ main = "drain" /\ left > 0 /\ job[i] = "queued" /\ i \notin had
  /\ had' = had \cup {i}
  /\ \/ /\ job' = [job EXCEPT ![i] = "done"] /\ left' = left - 1
        /\ UNCHANGED mishaps
     \/ /\ mishaps < MaxMishaps /\ mishaps' = mishaps + 1
        /\ job' \in {job, [job EXCEPT ![i] = "retry_wait"]} /\ UNCHANGED left
  /\ UNCHANGED <<main, why, event, due, heard, asked, server>>

Drained == left = 0 \/ Queued \subseteq had

\* Mutant: the event is cleared once more when the drain is over.
LeaveDrain_clears ==
  /\ main = "drain" /\ Drained
  /\ main' = "top" /\ event' = FALSE
  /\ due' = IF why = "periodic" THEN Interval ELSE due
  /\ UNCHANGED <<why, left, had, job, heard, asked, mishaps, server>>

\* Only the discovery pass, failed or not, moves the deadline.
LeaveDrain ==
  /\ main = "drain" /\ Drained
  /\ main' = "top"
  /\ due' = IF why = "periodic" THEN Interval ELSE due
  /\ UNCHANGED <<why, left, had, event, job, heard, asked, mishaps, server>>

(***************************************************************************)
(* The environment: time, and the death of the process.                    *)
(***************************************************************************)

Down(n) == IF n = 0 THEN 0 ELSE n - 1

Elapse ==
  /\ main # "down"
  /\ due > 0 \/ cool > 0 \/ \E i \in Intents : job[i] = "retry_wait"
  /\ due' = Down(due) /\ cool' = Down(cool)
  /\ job' = [i \in Intents |-> IF job[i] = "retry_wait" THEN "queued" ELSE job[i]]
  /\ UNCHANGED <<main, why, left, had, event, pending, calls, heard, asked, made, mishaps>>

Die ==
  /\ main # "down" /\ mishaps < MaxMishaps
  /\ main' = "down" /\ left' = 0 /\ had' = {}
  /\ event' = FALSE /\ pending' = FALSE /\ calls' = {}
  /\ mishaps' = mishaps + 1
  /\ UNCHANGED <<why, due, cool, job, heard, asked, made>>

Loop ==
  \/ ConsumePoll \/ NoPoll \/ WaitFires \/ WaitTimesOut
  \/ ClearAndDrain \/ Sync \/ LeaveDrain
  \/ \E i \in Intents : DrainOne(i)

Serve ==
  \/ RequestPoll
  \/ \E i \in Intents : Commit(i) \/ ImportFails(i)
  \/ \E i \in Intents \cup {Poll} : WakeAndAnswer(i)

LoopNext == Loop \/ Serve \/ Restart \/ Elapse \/ Die

LoopSpec == LoopInit /\ [][LoopNext]_loopVars

\* The interpreter runs every started thread, docker restarts the container
\* (restart: unless-stopped) and time passes.  Nobody has to ask anything.
FairLoop ==
  /\ LoopSpec /\ WF_loopVars(Loop) /\ WF_loopVars(Restart) /\ WF_loopVars(Elapse)
  /\ \A i \in Intents \cup {Poll} : WF_loopVars(WakeAndAnswer(i))

(***************************************************************************)
(* Properties.                                                             *)
(***************************************************************************)

\* The loop sleeps until the next discovery.
Asleep == main = "wait" /\ ~event /\ due > 0

\* While the loop sleeps nobody who was answered waits for a first look at the
\* queue, and a poll that was accepted but has not begun its pass has a thread
\* about to wake the loop: no wake or poll is lost between wait and clear,
\* during a drain or pass, or in a crash (connector.py "wakes this event, and
\* this loop drains immediately").
NoLostWake == Asleep => heard = {} /\ (asked => Poll \in calls)

\* What was promised and is still to come: a source pass that begins after the
\* poll was answered, the end of a committed job.
Outstanding ==
  (IF asked THEN {Poll} ELSE {}) \cup {i \in Intents : job[i] \in {"queued", "retry_wait"}}

\* Everything promised comes.  A poll answered "queued" or "already_queued" is
\* followed by a pass that begins later, through coalescing, a pass under way
\* and a crash (connector.py SourcePollRequest).  Every committed job is run:
\* the ones that woke nobody, the ones beyond a drain's limit or after its
\* exception and the retried ones wait for the next pass, which drains whether
\* or not discovery worked (connector.py pass_once).
EveryoneServed == \A i \in Intents \cup {Poll} : i \in Outstanding ~> i \notin Outstanding

=============================================================================
