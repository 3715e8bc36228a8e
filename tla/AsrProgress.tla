----------------------------- MODULE AsrProgress -----------------------------
(***************************************************************************)
(* What the viewer tells a reader about a recording's transcription:       *)
(* viewer/app/asr_progress.py over the rows AsrStage writes.  The viewer   *)
(* queries a private copy taken by SQLite's backup, so one page sees one   *)
(* state of the archive and its answers are functions of that state.       *)
(*                                                                         *)
(* Of the chain only the ASR job is AsrStage's; the later stages are       *)
(* absent, which is when the least stands between a page and "completed".  *)
(***************************************************************************)
EXTENDS AsrStage, FiniteSetsExt

Nothing == [state |-> "none"]

-----------------------------------------------------------------------------
(* The block badge *)

\* Rows of the recording by the writer's classifier; the rest are pending.
Blocks     == {i \in Indexes : windows[i].status # "absent"}
Counted(s) == Cardinality({i \in Blocks : windows[i].status = s})

_payload(total, complete, processing, error) ==
  [state      |-> IF processing > 0 THEN "processing"
                  ELSE IF error > 0 THEN "error" ELSE "pending",
   total      |-> total, complete |-> complete,
   pending    |-> Max({0, total - complete - processing - error})]

progress_map ==
  IF Blocks = {} THEN Nothing
  ELSE _payload(Cardinality(Blocks), Counted("complete"), Counted("processing"),
                Counted("error"))

\* Which text is on the screen.
displayed == IF text # {} THEN "local" ELSE IF plaud THEN "plaud" ELSE "none"

\* A visible transcript ends the badge.
progress_for == IF displayed = "none" THEN progress_map ELSE Nothing

-----------------------------------------------------------------------------
(* The status *)

Stages == {"asr", "summary", "mindmap", "card"}
Earlier(s) == CASE s = "asr" -> {} [] s = "summary" -> {"asr"}
                [] s = "mindmap" -> {"asr", "summary"}
                [] s = "card" -> {"asr", "summary", "mindmap"}

_pipeline_jobs == [s \in Stages |-> IF s = "asr" THEN job.state ELSE "absent"]

project_settled(jobs) ==                     \* mutant: nothing open reads as ready
  IF \E s \in Stages : jobs[s] \in {"queued", "processing", "retry_wait"}
  THEN jobs["asr"] ELSE "done"

\* readiness.project: a failed stage, else the first open one, else done if
\* the transcript is.
project(jobs) ==
  LET open  == {s \in Stages : jobs[s] \in {"queued", "processing", "retry_wait"}}
      first == CHOOSE s \in open : Earlier(s) \cap open = {}
  IN  IF \E s \in Stages : jobs[s] = "failed" THEN "failed"
      ELSE IF open # {} THEN jobs[first]
      ELSE IF jobs["asr"] = "done" THEN "done" ELSE "queued"

_pipeline_status ==
  LET state == project(_pipeline_jobs)
  IN  [state |-> IF state = "done" THEN "completed" ELSE state, source |-> displayed]

-----------------------------------------------------------------------------
(* Properties *)

End(i) == windows[i].span.start + windows[i].span.duration

\* The windows a badge counts, end to end, are the recording: the first starts
\* with it, each other one where the one before ends, and the last ends with it.
Tiled == \A i \in Blocks :
  /\ IF i = 0 THEN windows[i].span.start = 0
     ELSE i - 1 \in Blocks /\ windows[i].span.start = End(i - 1)
  /\ i + 1 \notin Blocks => End(i) = duration

\* A page never says "completed" with nothing to read, in whatever order
\* publication, completion, crashes and requests fall; and a percentage is
\* always of the whole recording: no retuned, interrupted or repeated plan
\* leaves a row too many or a gap among the windows it counts.  Only a tap that
\* came too late does, until the next turn lays the plan again: the turn whose
\* windows it deleted still files the one it is hearing, alone.
PageHonest ==
  /\ _pipeline_status.state = "completed" => _pipeline_status.source # "none"
  /\ progress_for # Nothing /\ ~emptied => Tiled
=============================================================================
