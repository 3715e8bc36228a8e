----------------------------- MODULE Materials -----------------------------
(***************************************************************************)
(* What a reader is shown of one recording, and what it was derived from:  *)
(* the stage handlers of archive/stages.py with the summary publication of *)
(* archive/summary_backfill.py, the label catalogue they classify under,   *)
(* and the requests that arrive over the control socket meanwhile.         *)
(*                                                                         *)
(* One connector under its flock runs the passes of drain_pipeline.  Texts *)
(* are numbered: 0 is no text, 1 PLAUD's, 2 + n the local transcript heard *)
(* after the n-th request for a fresh one.  A derivation names the text    *)
(* it was made from, which is all that is kept of its content.  Claims,    *)
(* leases and retry budgets are PipelineQueue's; the windows and the       *)
(* review ledger behind an ASR turn are AsrStage's.                        *)
(***************************************************************************)
EXTENDS Integers, FiniteSets

CONSTANTS
  MaxRequests,   \* bound on retranscriptions asked for
  MaxCatalog,    \* bound on label_catalog_state.revision
  MaxFaults      \* bound on failures and crashes

ASSUME MaterialsAssumption ==
  MaxRequests \in Nat /\ MaxCatalog \in Nat \ {0} /\ MaxFaults \in Nat

Stages == {"asr", "summary", "mindmap", "card"}
STOP   == "__stop__"

NEXT_STAGE == [asr |-> "summary", summary |-> "mindmap", mindmap |-> "card", card |-> STOP]

\* FIFO by seq: rows of one recording are inserted in this order and kept.
Before(s, t) == t \in CASE s = "asr" -> {"summary", "mindmap", "card"}
                        [] s = "summary" -> {"mindmap", "card"}
                        [] s = "mindmap" -> {"card"}
                        [] OTHER -> {}

OPEN_STATES == {"queued", "processing", "retry_wait"}
States == OPEN_STATES \cup {"done", "failed", "absent"}

NULL == 0                                    \* of a revision or a derivation
Texts == 0 .. MaxRequests + 2
PLAUD == 1

VARIABLES
  plaud,             \* TRUE: it arrived with PLAUD's text
  asr_transcript,    \* the local text recordings holds, 0 if ''
  brief,             \* TRUE: the selected text is too short to summarise
  reviewed,          \* TRUE: the review ledger holds a verdict
  jobs,              \* its pipeline_jobs row for each stage
  summary, summary_json,     \* the text each was derived from
  mindmap, card,             \* the summary_json each artifact records
  catalog,                   \* label_catalog_state.revision
  label_catalog_revision,    \* what the recording says it is classified under
  labels,                    \* the catalogue its labels were chosen from
  pc, hand, had_a_turn,      \* where the worker stands, with which stage
  next,                      \* the successor its handler returned
  read,                      \* what the summary handler has read
  asked, faults

content == <<asr_transcript, brief, reviewed, summary, summary_json, mindmap, card>>
marks   == <<catalog, label_catalog_revision, labels>>
worker  == <<pc, hand, had_a_turn, next, read>>
vars    == <<plaud, content, jobs, marks, worker, asked, faults>>

selected_transcript == IF asr_transcript # 0 THEN asr_transcript
                       ELSE IF plaud THEN PLAUD ELSE 0
Summarisable == selected_transcript # 0 /\ ~brief

Open(s) == jobs[s].state \in OPEN_STATES

NoRow   == [state |-> "absent", replace |-> FALSE, local |-> FALSE, catalog_revision |-> NULL]
NewRow  == [NoRow EXCEPT !.state = "queued"]
NoRead  == [text |-> 0, catalogue |-> NULL, revision |-> NULL]

-----------------------------------------------------------------------------
(* Requests: the control socket and the pass *)

Regenerated(rev) ==
  [jobs EXCEPT !["summary"] = [NewRow EXCEPT !.replace = TRUE, !.catalog_revision = rev]]

\* The reader's regenerate, a speaker rename or identity change: absorbed by
\* an open summary job, whatever it has read already.
request_regenerate ==
  /\ ~Open("summary")
  /\ jobs' = Regenerated(NULL)
  /\ UNCHANGED <<plaud, content, marks, worker, asked, faults>>

request_retranscribe_keep ==                 \* mutant: the summary is left alone
  [jobs EXCEPT !["asr"] = [@ EXCEPT !.state = "queued", !.local = TRUE]]

Retranscribed ==
  [jobs EXCEPT !["asr"] = [@ EXCEPT !.state = "queued", !.local = TRUE, !.replace = TRUE]]

request_retranscribe ==
  /\ ~Open("asr") /\ asked < MaxRequests
  /\ jobs' = Retranscribed
  /\ asked' = asked + 1
  /\ UNCHANGED <<plaud, content, marks, worker, faults>>

\* admit_label_reclassification, against the catalogue's revision c.
Admitted(c) ==
  IF Summarisable /\ label_catalog_revision < c /\ ~Open("summary")
  THEN Regenerated(c) ELSE jobs

\* create_label or delete_label, with the admissions of its own transaction.
change_catalog ==
  /\ catalog < MaxCatalog
  /\ catalog' = catalog + 1
  /\ jobs' = Admitted(catalog + 1)
  /\ UNCHANGED <<plaud, content, label_catalog_revision, labels, worker, asked, faults>>

-----------------------------------------------------------------------------
(* The pass *)

Fault == faults < MaxFaults /\ faults' = faults + 1

\* Under the flock every processing claim goes back to the queue.
Start ==
  /\ pc = "down" /\ pc' = "idle"
  /\ jobs' = [s \in Stages |-> IF jobs[s].state = "processing"
                               THEN [jobs[s] EXCEPT !.state = "queued"] ELSE jobs[s]]
  /\ UNCHANGED <<plaud, content, marks, hand, had_a_turn, next, read, asked, faults>>

Crash ==
  /\ pc # "down" /\ Fault
  /\ pc' = "down" /\ hand' = "none" /\ had_a_turn' = {} /\ next' = STOP /\ read' = NoRead
  /\ UNCHANGED <<plaud, content, jobs, marks, asked>>

\* ensure_attempts: a summary that carries categories and no revision is taken
\* to be classified under the catalogue of this moment.
Projected ==
  IF summary_json # NULL /\ label_catalog_revision = NULL THEN catalog
                                                          ELSE label_catalog_revision

Pass ==
  /\ pc = "idle" /\ pc' = "admit"
  /\ label_catalog_revision' = Projected
  /\ UNCHANGED <<plaud, content, jobs, catalog, labels, hand, had_a_turn, next, read,
                 asked, faults>>

Admit ==
  /\ pc = "admit" /\ pc' = "drain"
  /\ jobs' = Admitted(catalog)
  /\ UNCHANGED <<plaud, content, marks, hand, had_a_turn, next, read, asked, faults>>

Waiting(s) == jobs[s].state = "queued" /\ s \notin had_a_turn

\* A job in retry_wait may be claimed once its backoff has passed.
Claim(s) ==
  /\ pc = "drain" /\ s \notin had_a_turn
  /\ jobs[s].state \in {"queued", "retry_wait"}
  /\ \A t \in Stages : Before(t, s) => ~Waiting(t)
  /\ jobs' = [jobs EXCEPT ![s].state = "processing"]
  /\ hand' = s /\ had_a_turn' = had_a_turn \cup {s}
  /\ pc' = "run"
  /\ UNCHANGED <<plaud, content, marks, next, read, asked, faults>>

EndDrain ==
  /\ pc = "drain" /\ \A s \in Stages : ~Waiting(s)
  /\ pc' = "idle" /\ had_a_turn' = {}
  /\ UNCHANGED <<plaud, content, jobs, marks, hand, next, read, asked, faults>>

Returned(succ) == pc' = "complete" /\ next' = succ /\ UNCHANGED <<hand, had_a_turn>>
Leaves == pc' = "drain" /\ hand' = "none" /\ read' = NoRead /\ UNCHANGED <<had_a_turn, next>>

Successor_as_it_is(row) ==                   \* mutant: a finished stage stays so
  IF row.state = "absent" THEN NewRow ELSE row

\* The successor's row: inserted, or reopened under a forced predecessor.
Successor(row) ==
  IF row.state = "absent" THEN [NewRow EXCEPT !.replace = jobs[hand].replace]
  ELSE IF jobs[hand].replace
       THEN [row EXCEPT !.state = "queued", !.replace = TRUE, !.local = FALSE] ELSE row

complete_alone ==                            \* mutant: the chain is not advanced
  [jobs EXCEPT ![hand] = [@ EXCEPT !.state = "done", !.replace = FALSE, !.local = FALSE]]

Completed ==
  [s \in Stages |->
     IF s = hand THEN [jobs[s] EXCEPT !.state = "done", !.replace = FALSE, !.local = FALSE]
     ELSE IF s = next THEN Successor(jobs[s]) ELSE jobs[s]]

Complete ==
  /\ pc = "complete" /\ Leaves
  /\ jobs' = Completed
  /\ UNCHANGED <<plaud, content, marks, asked, faults>>

Ends(state) ==
  /\ Leaves
  /\ jobs' = [jobs EXCEPT ![hand].state = state]
  /\ UNCHANGED <<plaud, content, marks, asked>>

\* A handler raises: before its call or after it, never once it published.
Fail == pc \in {"run", "publish"} /\ Fault
        /\ \E state \in {"retry_wait", "failed"} : Ends(state)

-----------------------------------------------------------------------------
(* The handlers *)

\* A long recording spends its share, or its review is already decided.
asr_defers ==
  /\ pc = "run" /\ hand = "asr"
  /\ Ends("queued") /\ UNCHANGED faults

\* A text of its own for each request; heard a second time for one, after a
\* crash, it is the same text.
Heard == /\ asr_transcript' = 2 + asked
         /\ IF asr_transcript = 2 + asked THEN UNCHANGED brief ELSE brief' \in BOOLEAN

\* store, or record_review: local text, or PLAUD's kept and nothing written.
asr_stage ==
  /\ pc = "run" /\ hand = "asr" /\ Returned("summary")
  /\ \/ /\ ~plaud \/ jobs["asr"].local
        /\ Heard
        /\ UNCHANGED reviewed
     \/ /\ plaud /\ ~jobs["asr"].local /\ ~reviewed
        /\ \/ Heard
           \/ UNCHANGED <<asr_transcript, brief>>
        /\ reviewed' = TRUE
  /\ UNCHANGED <<plaud, jobs, summary, summary_json, mindmap, card, marks, read,
                 asked, faults>>

summary_skips ==
  /\ pc = "run" /\ hand = "summary" /\ ~Summarisable
  /\ Returned(STOP)
  /\ UNCHANGED <<plaud, content, jobs, marks, read, asked, faults>>

\* summary_stage reads the text, and ensure_attempts runs once more.
ReadText ==
  /\ pc = "run" /\ hand = "summary" /\ Summarisable
  /\ read' = [read EXCEPT !.text = selected_transcript]
  /\ label_catalog_revision' = Projected
  /\ pc' = "catalogue"
  /\ UNCHANGED <<plaud, content, jobs, catalog, labels, hand, had_a_turn, next, asked, faults>>

\* label_catalogue and the revision it is taken to have are read in turn, in
\* no transaction; an admitted job brings the revision it was admitted for.
ReadCatalogue ==
  /\ pc = "catalogue" /\ pc' = "revision"
  /\ read' = [read EXCEPT !.catalogue = catalog]
  /\ UNCHANGED <<plaud, content, jobs, marks, hand, had_a_turn, next, asked, faults>>

ReadRevision ==
  /\ pc = "revision" /\ pc' = "publish"
  /\ read' = [read EXCEPT !.revision = IF jobs["summary"].catalog_revision # NULL
                                       THEN jobs["summary"].catalog_revision ELSE catalog]
  /\ UNCHANGED <<plaud, content, jobs, marks, hand, had_a_turn, next, asked, faults>>

Marked_regardless == catalog                 \* mutant: changes go unnoticed

\* A catalogue that moved during the call leaves the recording eligible.
Marked == IF read.revision = catalog THEN catalog ELSE label_catalog_revision

\* backfill_one publishes: a replacement replaces, else only blanks are filled.
Publish ==
  /\ pc = "publish" /\ Returned("mindmap")
  /\ LET blank(field) == jobs["summary"].replace \/ field = NULL
     IN  /\ summary' = IF blank(summary) THEN read.text ELSE summary
         /\ summary_json' = IF blank(summary_json) THEN read.text ELSE summary_json
  /\ labels' = read.catalogue
  /\ label_catalog_revision' = Marked
  /\ UNCHANGED <<plaud, asr_transcript, brief, reviewed, mindmap, card, jobs, catalog,
                 read, asked, faults>>

\* mindmap_stage and card_stage: both run behind a published summary, so their
\* sources are never blank.
mindmap_stage ==
  /\ pc = "run" /\ hand = "mindmap" /\ Returned("card")
  /\ mindmap' = summary_json
  /\ UNCHANGED <<plaud, asr_transcript, brief, reviewed, summary, summary_json, card, jobs,
                 marks, read, asked, faults>>

card_stage ==
  /\ pc = "run" /\ hand = "card" /\ Returned(STOP)
  /\ card' = summary_json
  /\ UNCHANGED <<plaud, asr_transcript, brief, reviewed, summary, summary_json, mindmap, jobs,
                 marks, read, asked, faults>>

-----------------------------------------------------------------------------

\* The archive writes a recording and its ASR job in one transaction; PLAUD's
\* own summary may come with PLAUD's text.
Init ==
  /\ plaud \in BOOLEAN
  /\ asr_transcript = 0 /\ reviewed = FALSE
  /\ brief \in IF plaud THEN BOOLEAN ELSE {FALSE}
  /\ summary \in IF plaud THEN {NULL, PLAUD} ELSE {NULL}
  /\ summary_json = NULL /\ mindmap = NULL /\ card = NULL
  /\ jobs = [s \in Stages |-> IF s = "asr" THEN NewRow ELSE NoRow]
  /\ catalog = 1 /\ label_catalog_revision = NULL /\ labels = NULL
  /\ pc = "down" /\ hand = "none" /\ had_a_turn = {} /\ next = STOP /\ read = NoRead
  /\ asked = 0 /\ faults = 0

Work == \/ Start \/ Pass \/ Admit \/ EndDrain
        \/ \E s \in Stages : Claim(s)
        \/ asr_stage \/ summary_skips \/ ReadText \/ ReadCatalogue \/ ReadRevision
        \/ Publish \/ mindmap_stage \/ card_stage \/ Complete

Next == \/ Work \/ asr_defers \/ Fail \/ Crash
        \/ request_regenerate \/ request_retranscribe \/ change_catalog

Spec == Init /\ [][Next]_vars

\* The supervisor restarts the connector, its loop makes pass after pass, every
\* call returns and every backoff passes.
Fairness == WF_vars(Work) /\ \A s \in Stages : SF_vars(Claim(s))

FairSpec == Spec /\ Fairness

-----------------------------------------------------------------------------
(* Properties *)

Failed == \E s \in Stages : jobs[s].state = "failed"

\* readiness.project
Ready == ~Failed /\ (\A s \in Stages : ~Open(s)) /\ jobs["asr"].state = "done"

\* Every derivation names a text there is, every mark a revision there was.
TypeOK ==
  /\ plaud \in BOOLEAN /\ brief \in BOOLEAN /\ reviewed \in BOOLEAN
  /\ {asr_transcript, summary, summary_json, mindmap, card} \subseteq Texts
  /\ jobs \in [Stages -> [state : States, replace : BOOLEAN, local : BOOLEAN,
                          catalog_revision : 0 .. MaxCatalog]]
  /\ catalog \in 1 .. MaxCatalog
  /\ {label_catalog_revision, labels} \subseteq 0 .. catalog
  /\ pc \in {"down", "idle", "admit", "drain", "run", "catalogue", "revision", "publish",
             "complete"}
  /\ hand \in Stages \cup {"none"} /\ had_a_turn \subseteq Stages
  /\ next \in Stages \cup {STOP}
  /\ read \in [text : Texts, catalogue : 0 .. MaxCatalog, revision : 0 .. MaxCatalog]
  /\ asked \in 0 .. MaxRequests /\ faults \in 0 .. MaxFaults

\* "Current for exactly this source": a ready recording's map and card belong
\* to the summary shown, and that to one text, whatever replaced it, crashed or
\* was asked for in between (checked together with the types).
MaterialsAgree ==
  /\ TypeOK
  /\ Ready /\ Summarisable /\ summary_json # NULL => mindmap = summary_json /\ card = summary_json

\* A fresh transcript the reader asked for has replaced everything derived
\* from the old one by the time the recording reads as ready.
RequestRefreshesAll ==
  Ready /\ Summarisable /\ asr_transcript > 2 =>
    {summary, summary_json, mindmap, card} = {asr_transcript}

\* ... and it comes to that, unless a stage fails on it or the reader asks for
\* yet another.
RequestReachesCard ==
  asr_transcript > 2 /\ jobs["asr"].state = "done" ~>
    card = asr_transcript \/ brief \/ Failed \/ Open("asr")

\* A reclassification that was admitted for one catalogue marks the recording
\* with it only if that is the catalogue the model chose from, however often
\* the catalogue changed while the job waited or the call ran.
AdmittedMarksTruly ==
  [][pc = "publish" /\ pc' = "complete" /\ jobs["summary"].catalog_revision # NULL
     /\ label_catalog_revision' # label_catalog_revision =>
       labels' = label_catalog_revision']_vars

\* stages.py: "the durable statement that the derived data is current for
\* exactly this source, so `ready` means something a reader can trust".
ReadyMeansFresh ==
  Ready /\ Summarisable /\ summary_json # NULL => summary_json = selected_transcript

\* backfill_one: "A catalog change during the call leaves this row eligible for
\* its newer generation": only a publication may end that, by classifying anew.
EligibleUntilClassified ==
  [][pc # "publish" /\ label_catalog_revision' # label_catalog_revision =>
       label_catalog_revision' = labels]_vars
=============================================================================
