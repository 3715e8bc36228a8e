-------------------------- MODULE MaterialsProofs --------------------------
(***************************************************************************)
(* What a ready recording shows belongs together, and is of the transcript *)
(* the reader asked for, with any number of requests, catalogue changes,   *)
(* failures and crashes.                                                   *)
(***************************************************************************)
EXTENDS Materials, TLAPS

Derived == 0 .. MaxRequests + 2
Row == [state : States, replace : BOOLEAN, local : BOOLEAN, catalog_revision : 0 .. MaxCatalog]

\* TypeOK, and that nobody has read a revision there was not yet.
Types == TypeOK /\ read.catalogue <= catalog

\* A worker inside a handler holds its job, and has read the text shown.
Running == {"run", "catalogue", "revision", "publish", "complete"}
InHand ==
  /\ pc \in Running => hand \in Stages /\ jobs[hand].state = "processing"
  /\ pc \in {"catalogue", "revision", "publish"} =>
       hand = "summary" /\ Summarisable /\ read.text = selected_transcript
  /\ pc = "complete" =>
       /\ hand = "asr" => next = "summary"
       /\ hand = "summary" => \/ next = STOP /\ ~Summarisable
                              \/ next = "mindmap" /\ summary_json # NULL
       /\ hand = "mindmap" => next = "card" /\ mindmap = summary_json
       /\ hand = "card" => next = STOP /\ card = summary_json

Unsettled(s) == jobs[s].state \in OPEN_STATES \cup {"failed"}
Finishing(s, t) == pc = "complete" /\ hand = s /\ next = t

\* A row of the chain exists from its predecessor's completion on.
Begun ==
  /\ jobs["asr"].state # "absent"
  /\ summary_json = NULL => jobs["mindmap"].state = "absent"
  /\ jobs["mindmap"].state = "absent" => jobs["card"].state = "absent"
  /\ summary_json # NULL => selected_transcript # 0 /\ jobs["summary"].state # "absent"
  /\ asr_transcript = 0 /\ brief => summary_json = NULL
  /\ asr_transcript # 0 => asr_transcript >= 2

\* The text of an earlier request stays only while the new one is under way,
\* and that one is forced through the chain.
Reheard == Unsettled("asr") /\ jobs["asr"].replace
Latest ==
  /\ asr_transcript <= 2 + asked
  /\ asked > 0 /\ asr_transcript # 2 + asked => Reheard /\ jobs["asr"].local
  /\ asked > 0 /\ Finishing("asr", "summary") => asr_transcript = 2 + asked

\* A run of the stage will reopen the next one.
Carries(s, t) == jobs[s].replace \/ jobs[t].state = "absent"

\* What brings map and card to the summary shown, when they are not its own.
SummaryToCome == \/ ~Summarisable
                 \/ Reheard
                 \/ Unsettled("summary") /\ Carries("summary", "mindmap")
MindmapToCome == mindmap = summary_json \/ Unsettled("mindmap") \/ SummaryToCome
CardToCome == \/ card = summary_json
              \/ Unsettled("card")
              \/ Unsettled("mindmap") /\ Carries("mindmap", "card")
              \/ SummaryToCome
ChainGoesOn == summary_json # NULL => MindmapToCome /\ CardToCome

\* What brings the summary to a text the reader asked for.
Fresh == summary_json = asr_transcript /\ summary = asr_transcript
SummaryGoesOn ==
  asr_transcript > 2 =>
    /\ \/ Fresh \/ ~Summarisable \/ Reheard
       \/ Unsettled("summary") /\ jobs["summary"].replace
    /\ Finishing("summary", "mindmap") /\ jobs["summary"].replace => Fresh

MaterialsInv == Types /\ InHand /\ Begun /\ Latest /\ ChainGoesOn /\ SummaryGoesOn

(***************************************************************************)
(* Rows.                                                                   *)
(***************************************************************************)

LEMMA RowWithState ==
  ASSUME NEW row \in Row, NEW state \in States
  PROVE  /\ [row EXCEPT !.state = state] \in Row
         /\ [row EXCEPT !.state = state].state = state
         /\ [row EXCEPT !.state = state].replace = row.replace
         /\ [row EXCEPT !.state = state].local = row.local
BY DEF Row

LEMMA RowForced ==
  ASSUME NEW row \in Row, NEW force \in BOOLEAN
  PROVE  /\ [row EXCEPT !.replace = force] \in Row
         /\ [row EXCEPT !.replace = force].state = row.state
         /\ [row EXCEPT !.replace = force].replace = force
         /\ [row EXCEPT !.replace = force].local = row.local
BY DEF Row

LEMMA StatesAre ==
  /\ "queued" \in States /\ "processing" \in States /\ "retry_wait" \in States
  /\ "done" \in States /\ "failed" \in States /\ "absent" \in States
BY DEF States, OPEN_STATES

LEMMA NoRowIs ==
  /\ NoRow \in Row /\ NoRow.state = "absent"
  /\ NoRow.replace = FALSE /\ NoRow.local = FALSE
BY StatesAre, MaterialsAssumption DEF NoRow, NULL, Row

LEMMA NewRowIs ==
  /\ NewRow \in Row /\ NewRow.state = "queued"
  /\ NewRow.replace = FALSE /\ NewRow.local = FALSE
BY NoRowIs, StatesAre, RowWithState DEF NewRow

\* What Regenerated, Retranscribed and Completed leave of the rows.
LEMMA RegeneratedIs ==
  ASSUME jobs \in [Stages -> Row], NEW rev \in 0 .. MaxCatalog
  PROVE  /\ Regenerated(rev) \in [Stages -> Row]
         /\ Regenerated(rev)["summary"].state = "queued" /\ Regenerated(rev)["summary"].replace
         /\ \A s \in Stages \ {"summary"} : Regenerated(rev)[s] = jobs[s]
<1> DEFINE row == [NewRow EXCEPT !.replace = TRUE, !.catalog_revision = rev]
<1>1. ASSUME NEW r \in Row
      PROVE  /\ [r EXCEPT !.replace = TRUE, !.catalog_revision = rev] \in Row
             /\ [r EXCEPT !.replace = TRUE, !.catalog_revision = rev].state = r.state
             /\ [r EXCEPT !.replace = TRUE, !.catalog_revision = rev].replace = TRUE
  BY DEF Row
<1>2. row \in Row /\ row.state = "queued" /\ row.replace = TRUE
  BY <1>1, NewRowIs
<1> HIDE DEF row
<1>3. Regenerated(rev) = [jobs EXCEPT !["summary"] = row]
  BY DEF Regenerated, row
<1>4. "summary" \in Stages
  BY DEF Stages
<1> QED
  BY <1>2, <1>3, <1>4

LEMMA RetranscribedIs ==
  ASSUME jobs \in [Stages -> Row]
  PROVE  /\ Retranscribed \in [Stages -> Row]
         /\ Retranscribed["asr"].state = "queued" /\ Retranscribed["asr"].replace
         /\ Retranscribed["asr"].local
         /\ \A s \in Stages \ {"asr"} : Retranscribed[s] = jobs[s]
<1>1. ASSUME NEW r \in Row
      PROVE  /\ [r EXCEPT !.state = "queued", !.local = TRUE, !.replace = TRUE] \in Row
             /\ [r EXCEPT !.state = "queued", !.local = TRUE, !.replace = TRUE].state = "queued"
             /\ [r EXCEPT !.state = "queued", !.local = TRUE, !.replace = TRUE].replace = TRUE
             /\ [r EXCEPT !.state = "queued", !.local = TRUE, !.replace = TRUE].local = TRUE
  BY StatesAre DEF Row
<1> DEFINE row == [jobs["asr"] EXCEPT !.state = "queued", !.local = TRUE, !.replace = TRUE]
<1>2. "asr" \in Stages
  BY DEF Stages
<1>3. row \in Row /\ row.state = "queued" /\ row.replace = TRUE /\ row.local = TRUE
  BY <1>1, <1>2
<1>4. Retranscribed = [jobs EXCEPT !["asr"] = row]
  BY DEF Retranscribed
<1> HIDE DEF row
<1> QED
  BY <1>2, <1>3, <1>4

LEMMA SuccessorIs ==
  ASSUME jobs \in [Stages -> Row], NEW row \in Row, hand \in Stages
  PROVE  /\ Successor(row) \in Row
         /\ row.state = "absent" => /\ Successor(row).state = "queued"
                                    /\ Successor(row).replace = jobs[hand].replace
         /\ row.state # "absent" /\ jobs[hand].replace =>
              Successor(row).state = "queued" /\ Successor(row).replace
         /\ row.state # "absent" /\ ~jobs[hand].replace => Successor(row) = row
<1> DEFINE force == jobs[hand].replace
           new == [NewRow EXCEPT !.replace = jobs[hand].replace]
           again == [row EXCEPT !.state = "queued", !.replace = TRUE, !.local = FALSE]
<1>1. force \in BOOLEAN
  BY DEF Row
<1>2. new \in Row /\ new.state = "queued" /\ new.replace = force
  BY <1>1, NewRowIs, RowForced
<1>3. again \in Row /\ again.state = "queued" /\ again.replace = TRUE
  BY StatesAre DEF Row
<1>4. Successor(row) = IF row.state = "absent" THEN new ELSE IF force THEN again ELSE row
  BY DEF Successor
<1> HIDE DEF force, new, again
<1> QED
  BY <1>2, <1>3, <1>4 DEF force

LEMMA CompletedIs ==
  ASSUME jobs \in [Stages -> Row], hand \in Stages, next \in Stages \cup {STOP}, next # hand
  PROVE  /\ Completed \in [Stages -> Row]
         /\ Completed[hand].state = "done"
         /\ \A s \in Stages : s # hand /\ s # next => Completed[s] = jobs[s]
         /\ next \in Stages => Completed[next] = Successor(jobs[next])
<1>1. ASSUME NEW r \in Row
      PROVE  /\ [r EXCEPT !.state = "done", !.replace = FALSE, !.local = FALSE] \in Row
             /\ [r EXCEPT !.state = "done", !.replace = FALSE, !.local = FALSE].state = "done"
  BY StatesAre DEF Row
<1> DEFINE row == [jobs[hand] EXCEPT !.state = "done", !.replace = FALSE, !.local = FALSE]
<1>2. row \in Row /\ row.state = "done"
  BY <1>1
<1>3. \A s \in Stages : Successor(jobs[s]) \in Row
  BY SuccessorIs
<1>4. Completed = [s \in Stages |-> IF s = hand THEN row
                                    ELSE IF s = next THEN Successor(jobs[s]) ELSE jobs[s]]
  BY DEF Completed
<1> HIDE DEF row
<1> QED
  BY <1>2, <1>3, <1>4

(***************************************************************************)
(* Types.                                                                  *)
(***************************************************************************)

LEMMA RowsAre == TypeOK <=> /\ TypeOK /\ jobs \in [Stages -> Row]
BY DEF TypeOK, Row

LEMMA AdmittedIs ==
  ASSUME jobs \in [Stages -> Row], NEW c \in 0 .. MaxCatalog
  PROVE  /\ Admitted(c) \in [Stages -> Row]
         /\ \/ Admitted(c) = jobs
            \/ ~Open("summary") /\ Admitted(c) = Regenerated(c)
BY RegeneratedIs DEF Admitted

LEMMA EndsRows ==
  ASSUME jobs \in [Stages -> Row], NEW s \in Stages, NEW state \in States,
         jobs' = [jobs EXCEPT ![s].state = state]
  PROVE  /\ jobs' \in [Stages -> Row]
         /\ jobs'[s].state = state /\ jobs'[s].replace = jobs[s].replace
         /\ jobs'[s].local = jobs[s].local
         /\ \A t \in Stages \ {s} : jobs'[t] = jobs[t]
<1>1. jobs' = [jobs EXCEPT ![s] = [jobs[s] EXCEPT !.state = state]]
  OBVIOUS
<1> DEFINE row == [jobs[s] EXCEPT !.state = state]
<1>2. row \in Row /\ row.state = state /\ row.replace = jobs[s].replace
      /\ row.local = jobs[s].local
  BY RowWithState
<1> HIDE DEF row
<1> QED
  BY <1>1, <1>2 DEF row

LEMMA StartRows ==
  ASSUME jobs \in [Stages -> Row], Start
  PROVE  /\ jobs' \in [Stages -> Row]
         /\ \A s \in Stages : jobs'[s].replace = jobs[s].replace /\ jobs'[s].local = jobs[s].local
         /\ \A s \in Stages : IF jobs[s].state = "processing" THEN jobs'[s].state = "queued"
                                                              ELSE jobs'[s].state = jobs[s].state
<1> DEFINE Again(s) == [jobs[s] EXCEPT !.state = "queued"]
<1>1. \A s \in Stages : /\ Again(s) \in Row /\ Again(s).state = "queued"
                        /\ Again(s).replace = jobs[s].replace /\ Again(s).local = jobs[s].local
  BY RowWithState, StatesAre
<1>2. jobs' = [s \in Stages |-> IF jobs[s].state = "processing" THEN Again(s) ELSE jobs[s]]
  BY DEF Start
<1> HIDE DEF Again
<1> QED
  BY <1>1, <1>2

LEMMA TypesStep == MaterialsInv /\ [Next]_vars => Types'
<1> SUFFICES ASSUME MaterialsInv, [Next]_vars PROVE Types'
  OBVIOUS
<1> USE MaterialsAssumption
<1>0. jobs \in [Stages -> Row] /\ TypeOK /\ Types /\ InHand
  BY RowsAre DEF MaterialsInv, Types
<1>1. jobs' \in [Stages -> Row]
  <2>1. CASE Start
    BY <1>0, <2>1, StartRows
  <2>2. CASE Admit \/ change_catalog
    BY <1>0, <2>2, AdmittedIs DEF Admit, change_catalog, TypeOK
  <2>3. CASE request_regenerate
    BY <1>0, <2>3, RegeneratedIs DEF request_regenerate, NULL
  <2>4. CASE request_retranscribe
    BY <1>0, <2>4, RetranscribedIs DEF request_retranscribe
  <2>5. ASSUME NEW s \in Stages, Claim(s) PROVE jobs' \in [Stages -> Row]
    BY <1>0, <2>5, EndsRows, StatesAre DEF Claim
  <2>6. CASE asr_defers \/ Fail
    <3>1. hand \in Stages
      BY <1>0, <2>6 DEF asr_defers, Fail, InHand, Running
    <3>2. PICK state \in States : jobs' = [jobs EXCEPT ![hand].state = state]
      BY <2>6, StatesAre DEF asr_defers, Fail, Ends
    <3> QED
      BY <1>0, <3>1, <3>2, EndsRows
  <2>7. CASE Complete
    <3>1. hand \in Stages /\ next \in Stages \cup {STOP} /\ next # hand
      BY <1>0, <2>7 DEF Complete, InHand, Running, Stages, STOP
    <3> QED
      BY <1>0, <2>7, <3>1, CompletedIs DEF Complete
  <2>8. CASE UNCHANGED jobs
    BY <1>0, <2>8
  <2> QED
    BY <2>1, <2>2, <2>3, <2>4, <2>5, <2>6, <2>7, <2>8
    DEF Next, Work, vars, Pass, EndDrain, asr_stage, summary_skips, ReadText, ReadCatalogue,
        ReadRevision, Publish, mindmap_stage, card_stage, Crash
<1>2. plaud' = plaud /\ asked' \in 0 .. MaxRequests
  <2>1. CASE request_retranscribe
    BY <1>0, <2>1 DEF request_retranscribe, TypeOK
  <2>2. CASE UNCHANGED <<plaud, asked>>
    BY <1>0, <2>2 DEF TypeOK
  <2> QED
    BY <2>1, <2>2
    DEF Next, Work, vars, Start, Pass, Admit, EndDrain, Claim, asr_stage, summary_skips,
        ReadText, ReadCatalogue, ReadRevision, Publish, mindmap_stage, card_stage, Complete,
        asr_defers, Fail, Ends, Crash, request_regenerate, change_catalog
<1>3. faults' \in 0 .. MaxFaults
  <2>1. CASE Fail \/ Crash
    BY <1>0, <2>1 DEF Fail, Crash, Fault, TypeOK
  <2>2. CASE UNCHANGED faults
    BY <1>0, <2>2 DEF TypeOK
  <2> QED
    BY <2>1, <2>2
    DEF Next, Work, vars, Start, Pass, Admit, EndDrain, Claim, asr_stage, summary_skips,
        ReadText, ReadCatalogue, ReadRevision, Publish, mindmap_stage, card_stage, Complete,
        asr_defers, Ends, request_regenerate, request_retranscribe, change_catalog
<1>4. catalog' \in 1 .. MaxCatalog /\ catalog <= catalog'
  <2>1. CASE change_catalog
    BY <1>0, <2>1 DEF change_catalog, TypeOK
  <2>2. CASE UNCHANGED catalog
    BY <1>0, <2>2 DEF TypeOK
  <2> QED
    BY <2>1, <2>2
    DEF Next, Work, vars, marks, Start, Pass, Admit, EndDrain, Claim, asr_stage, summary_skips,
        ReadText, ReadCatalogue, ReadRevision, Publish, mindmap_stage, card_stage, Complete,
        asr_defers, Fail, Ends, Crash, request_regenerate, request_retranscribe
<1>5. (reviewed' = reviewed \/ reviewed' = TRUE) /\ (brief' = brief \/ brief' \in BOOLEAN)
  BY DEF Next, Work, vars, worker, content, marks, Start, Pass, Admit, EndDrain, Claim, asr_stage, Heard, summary_skips,
     ReadText, ReadCatalogue, ReadRevision, Publish, mindmap_stage, card_stage, Returned, Complete, asr_defers, Fail,
     Ends, Leaves, Crash, Fault, request_regenerate, request_retranscribe, change_catalog
<1>6. /\ asr_transcript' \in {asr_transcript, 2 + asked}
      /\ mindmap' \in {mindmap, summary_json} /\ card' \in {card, summary_json}
      /\ summary' \in {summary, read.text} /\ summary_json' \in {summary_json, read.text}
  BY DEF Next, Work, vars, worker, content, marks, Start, Pass, Admit, EndDrain, Claim, asr_stage, Heard, summary_skips,
     ReadText, ReadCatalogue, ReadRevision, Publish, mindmap_stage, card_stage, Returned, Complete, asr_defers, Fail,
     Ends, Leaves, Crash, Fault, request_regenerate, request_retranscribe, change_catalog
<1>7. /\ labels' \in {labels, read.catalogue}
      /\ label_catalog_revision' \in {label_catalog_revision, catalog}
  BY DEF Next, Work, vars, worker, content, marks, Start, Pass, Admit, EndDrain, Claim, asr_stage, Heard, summary_skips,
     ReadText, ReadCatalogue, ReadRevision, Publish, mindmap_stage, card_stage, Returned, Complete, asr_defers, Fail,
     Ends, Leaves, Crash, Fault, request_regenerate, request_retranscribe, change_catalog, Projected, Marked
<1>8. pc' \in {"down", "idle", "admit", "drain", "run", "catalogue", "revision", "publish",
               "complete"}
  BY <1>0 DEF Next, Work, vars, worker, content, marks, Start, Pass, Admit, EndDrain, Claim, asr_stage,
        Heard, summary_skips, ReadText, ReadCatalogue, ReadRevision, Publish, mindmap_stage,
        card_stage, Returned, Complete, asr_defers, Fail, Ends, Leaves, Crash, Fault,
        request_regenerate, request_retranscribe, change_catalog, TypeOK
<1>9. hand' \in {hand, "none"} \/ \E s \in Stages : hand' = s
  BY DEF Next, Work, vars, worker, content, marks, Start, Pass, Admit, EndDrain, Claim, asr_stage,
        Heard, summary_skips, ReadText, ReadCatalogue, ReadRevision, Publish, mindmap_stage,
        card_stage, Returned, Complete, asr_defers, Fail, Ends, Leaves, Crash, Fault,
        request_regenerate, request_retranscribe, change_catalog
<1>10. had_a_turn' \in {had_a_turn, {}} \/ \E s \in Stages : had_a_turn' = had_a_turn \cup {s}
  BY DEF Next, Work, vars, worker, content, marks, Start, Pass, Admit, EndDrain, Claim, asr_stage,
        Heard, summary_skips, ReadText, ReadCatalogue, ReadRevision, Publish, mindmap_stage,
        card_stage, Returned, Complete, asr_defers, Fail, Ends, Leaves, Crash, Fault,
        request_regenerate, request_retranscribe, change_catalog
<1>11. next' \in {next, STOP, "summary", "mindmap", "card"}
  BY DEF Next, Work, vars, worker, content, marks, Start, Pass, Admit, EndDrain, Claim, asr_stage,
        Heard, summary_skips, ReadText, ReadCatalogue, ReadRevision, Publish, mindmap_stage,
        card_stage, Returned, Complete, asr_defers, Fail, Ends, Leaves, Crash, Fault,
        request_regenerate, request_retranscribe, change_catalog
<1>12. read' \in [text : Texts, catalogue : 0 .. MaxCatalog, revision : 0 .. MaxCatalog]
       /\ read'.catalogue <= catalog'
  <2>1. CASE ReadText
    <3>1. selected_transcript \in Texts
      BY <1>0 DEF selected_transcript, TypeOK, PLAUD, Texts
    <3> QED
      BY <1>0, <1>4, <2>1, <3>1 DEF ReadText, Types, TypeOK
  <2>2. CASE ReadCatalogue
    BY <1>0, <1>4, <2>2 DEF ReadCatalogue, Types, TypeOK
  <2>3. CASE ReadRevision
    <3>1. jobs["summary"].catalog_revision \in 0 .. MaxCatalog
      BY <1>0 DEF Row, Stages
    <3> QED
      BY <1>0, <1>4, <2>3, <3>1 DEF ReadRevision, Types, TypeOK
  <2>4. CASE read' = NoRead
    BY <1>0, <1>4, <2>4 DEF NoRead, NULL, Texts, TypeOK
  <2>5. CASE read' = read
    BY <1>0, <1>4, <2>5 DEF Types, TypeOK
  <2> QED
    BY <2>1, <2>2, <2>3, <2>4, <2>5 DEF Next, Work, vars, worker, content, marks, Start, Pass, Admit, EndDrain, Claim, asr_stage,
        Heard, summary_skips, ReadText, ReadCatalogue, ReadRevision, Publish, mindmap_stage,
        card_stage, Returned, Complete, asr_defers, Fail, Ends, Leaves, Crash, Fault,
        request_regenerate, request_retranscribe, change_catalog
<1>13. plaud' \in BOOLEAN /\ brief' \in BOOLEAN /\ reviewed' \in BOOLEAN
  BY <1>0, <1>2, <1>5, Zenon DEF TypeOK
<1>14. {asr_transcript', summary', summary_json', mindmap', card'} \subseteq Texts
  BY <1>0, <1>6 DEF TypeOK, Texts
<1>15. {label_catalog_revision', labels'} \subseteq 0 .. catalog'
  BY <1>0, <1>4, <1>7 DEF Types, TypeOK
<1>16. hand' \in Stages \cup {"none"} /\ had_a_turn' \subseteq Stages /\ next' \in Stages \cup {STOP}
  BY <1>0, <1>9, <1>10, <1>11 DEF TypeOK, Stages
<1> QED
  BY <1>1, <1>2, <1>3, <1>4, <1>8, <1>12, <1>13, <1>14, <1>15, <1>16 DEF Types, TypeOK, Row

(***************************************************************************)
(* The chain.                                                              *)
(***************************************************************************)

ChainInv == InHand /\ Begun /\ Latest /\ ChainGoesOn /\ SummaryGoesOn

\* A summary that is asked for when none is under way.
LEMMA RegeneratedKeeps ==
  ASSUME MaterialsInv, NEW rev \in 0 .. MaxCatalog, ~Open("summary"), jobs' = Regenerated(rev),
         UNCHANGED <<plaud, content, hand, next, read, asked>>,
         pc' = pc \/ (pc = "admit" /\ pc' = "drain")
  PROVE  ChainInv'
<1> USE DEF content
<1>0. jobs \in [Stages -> Row]
  BY RowsAre DEF MaterialsInv, Types
<1>1. /\ jobs' \in [Stages -> Row]
      /\ jobs'["summary"].state = "queued" /\ jobs'["summary"].replace
      /\ jobs'["asr"] = jobs["asr"] /\ jobs'["mindmap"] = jobs["mindmap"]
      /\ jobs'["card"] = jobs["card"]
      /\ \A s \in Stages \ {"summary"} : jobs'[s] = jobs[s]
  BY <1>0, RegeneratedIs DEF Stages
<1>2. selected_transcript' = selected_transcript /\ (Summarisable' <=> Summarisable)
  BY DEF selected_transcript, Summarisable
<1>3. jobs["summary"].state # "processing"
  BY DEF Open, OPEN_STATES
<1>4. pc \in Running => hand # "summary"
  BY <1>3 DEF MaterialsInv, InHand
<1>5. InHand'
  BY <1>1, <1>2, <1>4 DEF MaterialsInv, InHand, Running
<1>6. Begun'
  BY <1>1, <1>2 DEF MaterialsInv, Begun
<1>7. Latest'
  BY <1>1 DEF MaterialsInv, Latest, Reheard, Unsettled, Finishing
<1>8. ChainGoesOn'
  BY <1>1, <1>2 DEF MaterialsInv, ChainGoesOn, MindmapToCome, CardToCome, SummaryToCome, Reheard,
     Unsettled, Carries, OPEN_STATES
<1>9. ~Finishing("summary", "mindmap")'
  BY <1>4 DEF Finishing, Running
<1>10. SummaryGoesOn'
  BY <1>1, <1>9 DEF SummaryGoesOn, Unsettled, OPEN_STATES
<1> QED
  BY <1>5, <1>6, <1>7, <1>8, <1>10 DEF ChainInv

\* Nothing the chain depends on.
LEMMA AsideKeeps ==
  ASSUME MaterialsInv, UNCHANGED <<plaud, content, jobs, asked>>,
         \/ pc' = pc /\ UNCHANGED <<hand, next, read>>
         \/ pc' \notin Running
  PROVE  ChainInv'
<1> USE DEF content
<1>1. selected_transcript' = selected_transcript /\ (Summarisable' <=> Summarisable)
  BY DEF selected_transcript, Summarisable
<1>2. \A s, t : Finishing(s, t)' => Finishing(s, t)
  BY DEF Finishing, Running
<1>3. InHand'
  BY <1>1 DEF MaterialsInv, InHand, Running
<1>4. Begun'
  BY <1>1 DEF MaterialsInv, Begun
<1>5. Latest'
  BY <1>2 DEF MaterialsInv, Latest, Reheard, Unsettled
<1>6. ChainGoesOn'
  BY <1>1 DEF MaterialsInv, ChainGoesOn, MindmapToCome, CardToCome, SummaryToCome, Reheard,
     Unsettled, Carries
<1>7. SummaryGoesOn'
  BY <1>1, <1>2 DEF MaterialsInv, SummaryGoesOn, Fresh, Reheard, Unsettled
<1> QED
  BY <1>3, <1>4, <1>5, <1>6, <1>7 DEF ChainInv

\* A job that changes its state, and stays to be done or has failed.
LEMMA RestatedKeeps ==
  ASSUME MaterialsInv, jobs' \in [Stages -> Row],
         \A s \in Stages : /\ jobs'[s].replace = jobs[s].replace /\ jobs'[s].local = jobs[s].local
                           /\ (jobs'[s].state = "absent" <=> jobs[s].state = "absent")
                           /\ (Unsettled(s) => Unsettled(s)'),
         UNCHANGED <<plaud, content, asked>>,
         \/ pc' \notin Running
         \/ pc' = "run" /\ hand' \in Stages /\ jobs'[hand'].state = "processing"
  PROVE  ChainInv'
<1> USE DEF content
<1>0. "asr" \in Stages /\ "summary" \in Stages /\ "mindmap" \in Stages /\ "card" \in Stages
  BY DEF Stages
<1>1. selected_transcript' = selected_transcript /\ (Summarisable' <=> Summarisable)
  BY DEF selected_transcript, Summarisable
<1>2. \A s, t : ~Finishing(s, t)'
  BY DEF Finishing, Running
<1>3. InHand'
  BY DEF InHand, Running
<1>4. Begun'
  BY <1>0, <1>1 DEF MaterialsInv, Begun
<1>5. Latest'
  BY <1>0, <1>2 DEF MaterialsInv, Latest, Reheard
<1>6. ChainGoesOn'
  BY <1>0, <1>1 DEF MaterialsInv, ChainGoesOn, MindmapToCome, CardToCome, SummaryToCome, Reheard,
     Carries
<1>7. SummaryGoesOn'
  BY <1>0, <1>1, <1>2 DEF MaterialsInv, SummaryGoesOn, Fresh, Reheard
<1> QED
  BY <1>3, <1>4, <1>5, <1>6, <1>7 DEF ChainInv

LEMMA RetranscribeKeeps == MaterialsInv /\ request_retranscribe => ChainInv'
<1> SUFFICES ASSUME MaterialsInv, request_retranscribe PROVE ChainInv'
  OBVIOUS
<1> USE DEF content, worker, request_retranscribe
<1>0. jobs \in [Stages -> Row] /\ asked \in Nat /\ asr_transcript \in Nat
  BY RowsAre DEF MaterialsInv, Types, TypeOK, Texts
<1>1. /\ jobs' \in [Stages -> Row]
      /\ jobs'["asr"].state = "queued" /\ jobs'["asr"].replace /\ jobs'["asr"].local
      /\ jobs'["summary"] = jobs["summary"] /\ jobs'["mindmap"] = jobs["mindmap"]
      /\ jobs'["card"] = jobs["card"]
      /\ \A s \in Stages \ {"asr"} : jobs'[s] = jobs[s]
  BY <1>0, RetranscribedIs DEF Stages
<1>2. selected_transcript' = selected_transcript /\ (Summarisable' <=> Summarisable)
  BY DEF selected_transcript, Summarisable
<1>3. pc \in Running => hand # "asr"
  BY DEF MaterialsInv, InHand, Open, OPEN_STATES
<1>4. Reheard'
  BY <1>1 DEF Reheard, Unsettled, OPEN_STATES
<1>5. InHand'
  BY <1>1, <1>2, <1>3 DEF MaterialsInv, InHand, Running
<1>6. Begun'
  BY <1>1, <1>2 DEF MaterialsInv, Begun
<1>7. Latest'
  BY <1>0, <1>1, <1>3, <1>4 DEF MaterialsInv, Latest, Finishing, Running
<1>8. ChainGoesOn'
  BY <1>4 DEF ChainGoesOn, MindmapToCome, CardToCome, SummaryToCome
<1>9. SummaryGoesOn'
  BY <1>1, <1>2, <1>4 DEF MaterialsInv, SummaryGoesOn, Fresh, Finishing
<1> QED
  BY <1>5, <1>6, <1>7, <1>8, <1>9 DEF ChainInv

\* A text that was not there before is the first, or one the reader asked for.
LEMMA AsrKeeps == MaterialsInv /\ asr_stage => ChainInv'
<1> SUFFICES ASSUME MaterialsInv, asr_stage PROVE ChainInv'
  OBVIOUS
<1>0. jobs \in [Stages -> Row] /\ asked \in Nat /\ asr_transcript \in Nat
  BY RowsAre DEF MaterialsInv, Types, TypeOK, Texts
<1>1. /\ pc = "run" /\ hand = "asr" /\ pc' = "complete" /\ hand' = "asr" /\ next' = "summary"
      /\ UNCHANGED <<plaud, jobs, summary, summary_json, mindmap, card, asked, read>>
      /\ asr_transcript' \in {asr_transcript, 2 + asked}
      /\ asr_transcript' = asr_transcript => UNCHANGED brief
  BY DEF asr_stage, Returned, Heard
<1>2. jobs["asr"].state = "processing"
  BY <1>1 DEF MaterialsInv, InHand, Running
<1>3. asked > 0 => asr_transcript' = 2 + asked
  <2>1. CASE Heard
    BY <2>1 DEF Heard
  <2>2. CASE ~jobs["asr"].local /\ UNCHANGED asr_transcript
    BY <2>2 DEF MaterialsInv, Latest
  <2> QED
    BY <2>1, <2>2 DEF asr_stage
<1>4. asr_transcript' # asr_transcript =>
        \/ Reheard
        \/ asked = 0 /\ asr_transcript = 0 /\ asr_transcript' = 2
  BY <1>0, <1>1 DEF MaterialsInv, Latest, Begun
<1>5. /\ asr_transcript' <= 2 + asked /\ (asr_transcript' # 0 => asr_transcript' >= 2)
      /\ (asr_transcript' = 0 => asr_transcript = 0 /\ brief' = brief)
  BY <1>0, <1>1 DEF MaterialsInv, Latest, Begun
<1>6. selected_transcript # 0 => selected_transcript' # 0
  BY <1>0, <1>1, <1>5 DEF selected_transcript, PLAUD
<1>7. Reheard' <=> Reheard
  BY <1>1 DEF Reheard, Unsettled
<1>8. InHand'
  BY <1>1, <1>2 DEF InHand, Running, Stages
<1>9. Begun'
  BY <1>1, <1>5, <1>6 DEF MaterialsInv, Begun
<1>10. Latest'
  BY <1>0, <1>1, <1>3, <1>5 DEF Latest
<1>11. ASSUME summary_json # NULL, ~Summarisable PROVE Reheard \/ ~Summarisable'
  <2>1. CASE UNCHANGED asr_transcript
    BY <1>1, <1>11, <2>1 DEF Summarisable, selected_transcript
  <2>2. CASE asr_transcript' # asr_transcript /\ ~Reheard
    <3>1. asr_transcript = 0 /\ ~brief /\ selected_transcript # 0
      BY <1>4, <1>11, <2>2 DEF MaterialsInv, Begun
    <3> QED
      BY <1>11, <3>1 DEF Summarisable
  <2> QED
    BY <2>1, <2>2
<1>12. ChainGoesOn'
  BY <1>1, <1>7, <1>11 DEF MaterialsInv, ChainGoesOn, MindmapToCome, CardToCome, SummaryToCome,
     Unsettled, Carries
<1>13. SummaryGoesOn'
  <2> SUFFICES ASSUME asr_transcript' > 2
      PROVE  (Fresh \/ ~Summarisable \/ Reheard \/ (Unsettled("summary") /\ jobs["summary"].replace))'
    BY <1>1 DEF SummaryGoesOn, Finishing
  <2>1. CASE UNCHANGED asr_transcript
    <3>1. Summarisable' <=> Summarisable
      BY <1>1, <2>1 DEF Summarisable, selected_transcript
    <3>2. Fresh \/ ~Summarisable \/ Reheard \/ (Unsettled("summary") /\ jobs["summary"].replace)
      BY <2>1 DEF MaterialsInv, SummaryGoesOn
    <3> QED
      BY <1>1, <1>7, <2>1, <3>1, <3>2 DEF Fresh, Unsettled
  <2>2. CASE asr_transcript' # asr_transcript
    BY <1>4, <1>7, <2>2
  <2> QED
    BY <2>1, <2>2
<1> QED
  BY <1>8, <1>9, <1>10, <1>12, <1>13 DEF ChainInv

\* The summary handler, up to its publication.
LEMMA ReadKeeps ==
  MaterialsInv /\ (summary_skips \/ ReadText \/ ReadCatalogue \/ ReadRevision) => ChainInv'
<1> SUFFICES ASSUME MaterialsInv, summary_skips \/ ReadText \/ ReadCatalogue \/ ReadRevision
    PROVE  ChainInv'
  OBVIOUS
<1>1. /\ hand = "summary" /\ hand' = hand /\ pc \in Running
      /\ UNCHANGED <<plaud, content, jobs, asked>>
  BY DEF MaterialsInv, InHand, Running, summary_skips, ReadText, ReadCatalogue, ReadRevision, Returned
<1>2. selected_transcript' = selected_transcript /\ (Summarisable' <=> Summarisable)
  BY <1>1 DEF selected_transcript, Summarisable, content
<1>3. InHand'
  <2>1. CASE summary_skips
    BY <1>1, <1>2, <2>1 DEF summary_skips, Returned, MaterialsInv, InHand, Running
  <2>2. CASE ReadText
    <3>1. read'.text = selected_transcript
      <4>1. read \in [text : Texts, catalogue : 0 .. MaxCatalog, revision : 0 .. MaxCatalog]
        BY DEF MaterialsInv, Types, TypeOK
      <4> QED
        BY <2>2, <4>1 DEF ReadText
    <3> QED
      BY <1>1, <1>2, <2>2, <3>1 DEF ReadText, MaterialsInv, InHand, Running
  <2>3. CASE ReadCatalogue \/ ReadRevision
    <3>1. read'.text = read.text
      <4>1. read \in [text : Texts, catalogue : 0 .. MaxCatalog, revision : 0 .. MaxCatalog]
        BY DEF MaterialsInv, Types, TypeOK
      <4> QED
        BY <2>3, <4>1 DEF ReadCatalogue, ReadRevision
    <3> QED
      BY <1>1, <1>2, <2>3, <3>1 DEF ReadCatalogue, ReadRevision, MaterialsInv, InHand, Running
  <2> QED
    BY <2>1, <2>2, <2>3
<1>4. Begun'
  BY <1>1, <1>2 DEF MaterialsInv, Begun, content
<1>5. ~Finishing("asr", "summary")' /\ ~Finishing("summary", "mindmap")'
  BY <1>1 DEF Finishing, summary_skips, ReadText, ReadCatalogue, ReadRevision, Returned, STOP
<1>6. Latest'
  BY <1>1, <1>5 DEF MaterialsInv, Latest, Reheard, Unsettled, content
<1>7. ChainGoesOn'
  BY <1>1, <1>2 DEF MaterialsInv, ChainGoesOn, MindmapToCome, CardToCome, SummaryToCome, Reheard,
     Unsettled, Carries, content
<1>8. SummaryGoesOn'
  BY <1>1, <1>2, <1>5 DEF MaterialsInv, SummaryGoesOn, Fresh, Reheard, Unsettled, content
<1> QED
  BY <1>3, <1>4, <1>6, <1>7, <1>8 DEF ChainInv

LEMMA PublishKeeps == MaterialsInv /\ Publish => ChainInv'
<1> SUFFICES ASSUME MaterialsInv, Publish PROVE ChainInv'
  OBVIOUS
<1>1. /\ pc = "publish" /\ hand = "summary" /\ jobs["summary"].state = "processing"
      /\ Summarisable /\ read.text = selected_transcript /\ selected_transcript # NULL
  BY DEF Publish, MaterialsInv, InHand, Running, Summarisable, NULL
<1>2. /\ pc' = "complete" /\ hand' = "summary" /\ next' = "mindmap"
      /\ UNCHANGED <<plaud, asr_transcript, brief, mindmap, card, jobs, asked, read>>
      /\ summary' = IF jobs["summary"].replace \/ summary = NULL THEN read.text ELSE summary
      /\ summary_json' = IF jobs["summary"].replace \/ summary_json = NULL THEN read.text
                                                                        ELSE summary_json
  BY <1>1 DEF Publish, Returned
<1>3. selected_transcript' = selected_transcript /\ (Summarisable' <=> Summarisable)
  BY <1>2 DEF selected_transcript, Summarisable
<1>4. summary_json' # NULL
  BY <1>1, <1>2
<1>5. InHand'
  BY <1>1, <1>2, <1>4 DEF InHand, Running, Stages
<1>6. Begun'
  BY <1>1, <1>2, <1>3, <1>4 DEF MaterialsInv, Begun, NULL, Summarisable
<1>7. Latest'
  BY <1>2 DEF MaterialsInv, Latest, Reheard, Unsettled, Finishing
<1>8. Unsettled("summary")'
  BY <1>1, <1>2 DEF Unsettled, OPEN_STATES
<1>9. ChainGoesOn'
  <2>1. CASE Carries("summary", "mindmap")
    BY <1>2, <1>8, <2>1 DEF ChainGoesOn, MindmapToCome, CardToCome, SummaryToCome, Carries
  <2>2. CASE ~Carries("summary", "mindmap")
    <3>1. summary_json # NULL /\ summary_json' = summary_json
      BY <1>2, <2>2 DEF MaterialsInv, Begun, Carries
    <3> QED
      BY <1>2, <1>3, <3>1 DEF MaterialsInv, ChainGoesOn, MindmapToCome, CardToCome, SummaryToCome,
         Reheard, Unsettled, Carries
  <2> QED
    BY <2>1, <2>2
<1>10. SummaryGoesOn'
  <2> SUFFICES ASSUME asr_transcript' > 2
      PROVE  /\ (Fresh \/ Reheard \/ (Unsettled("summary") /\ jobs["summary"].replace))'
             /\ jobs'["summary"].replace => Fresh'
    BY <1>2 DEF SummaryGoesOn
  <2>1. selected_transcript = asr_transcript /\ asr_transcript # NULL
    BY <1>2 DEF selected_transcript, NULL
  <2>2. jobs'["summary"].replace => Fresh'
    BY <1>1, <1>2, <2>1 DEF Fresh
  <2>3. Fresh => Fresh'
    BY <1>1, <1>2, <2>1 DEF Fresh
  <2>4. Fresh \/ Reheard \/ (Unsettled("summary") /\ jobs["summary"].replace)
    BY <1>1, <1>2 DEF MaterialsInv, SummaryGoesOn
  <2> QED
    BY <1>2, <2>2, <2>3, <2>4 DEF Reheard, Unsettled
<1> QED
  BY <1>5, <1>6, <1>7, <1>9, <1>10 DEF ChainInv

LEMMA DrawKeeps == MaterialsInv /\ (mindmap_stage \/ card_stage) => ChainInv'
<1> SUFFICES ASSUME MaterialsInv, mindmap_stage \/ card_stage PROVE ChainInv'
  OBVIOUS
<1>1. /\ pc = "run" /\ pc' = "complete" /\ hand' = hand /\ hand \in {"mindmap", "card"}
      /\ UNCHANGED <<plaud, asr_transcript, brief, summary, summary_json, jobs, asked>>
      /\ hand = "mindmap" => mindmap' = summary_json /\ card' = card /\ next' = "card"
      /\ hand = "card" => card' = summary_json /\ mindmap' = mindmap /\ next' = STOP
  BY DEF mindmap_stage, card_stage, Returned
<1>2. selected_transcript' = selected_transcript /\ (Summarisable' <=> Summarisable)
  BY <1>1 DEF selected_transcript, Summarisable
<1>3. InHand'
  BY <1>1 DEF MaterialsInv, InHand, Running, Stages
<1>4. Begun'
  BY <1>1, <1>2 DEF MaterialsInv, Begun
<1>5. ~Finishing("asr", "summary")' /\ ~Finishing("summary", "mindmap")'
  BY <1>1 DEF Finishing
<1>6. Latest'
  BY <1>1, <1>5 DEF MaterialsInv, Latest, Reheard, Unsettled
<1>7. ChainGoesOn'
  BY <1>1, <1>2 DEF MaterialsInv, ChainGoesOn, MindmapToCome, CardToCome, SummaryToCome, Reheard,
     Unsettled, Carries
<1>8. SummaryGoesOn'
  BY <1>1, <1>2, <1>5 DEF MaterialsInv, SummaryGoesOn, Fresh, Reheard, Unsettled
<1> QED
  BY <1>3, <1>4, <1>6, <1>7, <1>8 DEF ChainInv

\* A stage gives the row back and hands on to the next.
LEMMA CompleteKeeps == MaterialsInv /\ Complete => ChainInv'
<1> SUFFICES ASSUME MaterialsInv, Complete PROVE ChainInv'
  OBVIOUS
<1>0. jobs \in [Stages -> Row]
  BY RowsAre DEF MaterialsInv, Types
<1>1. /\ pc = "complete" /\ pc' = "drain" /\ jobs' = Completed
      /\ UNCHANGED <<plaud, content, asked>>
  BY DEF Complete, Leaves
<1>2. /\ hand \in Stages /\ jobs[hand].state = "processing"
      /\ hand = "asr" => next = "summary"
      /\ hand = "summary" => \/ next = STOP /\ ~Summarisable
                             \/ next = "mindmap" /\ summary_json # NULL
      /\ hand = "mindmap" => next = "card" /\ mindmap = summary_json
      /\ hand = "card" => next = STOP /\ card = summary_json
  BY <1>1 DEF MaterialsInv, InHand, Running
<1>3. hand \in {"asr", "summary", "mindmap", "card"} /\ next \in Stages \cup {STOP} /\ next # hand
      /\ STOP \notin Stages
  BY <1>2 DEF Stages, STOP
<1>4. /\ jobs'[hand].state = "done"
      /\ \A s \in Stages : s # hand /\ s # next => jobs'[s] = jobs[s]
      /\ next \in Stages =>
           /\ jobs[next].state = "absent" => /\ jobs'[next].state = "queued"
                                             /\ jobs'[next].replace = jobs[hand].replace
           /\ jobs[next].state # "absent" /\ jobs[hand].replace =>
                jobs'[next].state = "queued" /\ jobs'[next].replace
           /\ jobs[next].state # "absent" /\ ~jobs[hand].replace => jobs'[next] = jobs[next]
  BY <1>0, <1>1, <1>2, <1>3, CompletedIs, SuccessorIs
<1>5. selected_transcript' = selected_transcript /\ (Summarisable' <=> Summarisable)
  BY <1>1 DEF selected_transcript, Summarisable, content
<1>6. \A s, t : ~Finishing(s, t)'
  BY <1>1 DEF Finishing
<1>7. InHand'
  BY <1>1 DEF InHand, Running
<1>8. Begun /\ Latest /\ ChainGoesOn /\ SummaryGoesOn
  BY DEF MaterialsInv
<1> USE DEF content, OPEN_STATES, Unsettled
<1>9. CASE hand = "asr"
  <2>1. /\ next = "summary" /\ jobs'["asr"].state = "done" /\ jobs["asr"].state = "processing"
        /\ jobs'["mindmap"] = jobs["mindmap"] /\ jobs'["card"] = jobs["card"]
        /\ jobs'["summary"].state # "absent"
        /\ jobs["summary"].state # "absent" =>
             jobs'["summary"] = jobs["summary"] \/ jobs'["summary"].replace
        /\ jobs["summary"].state # "absent" /\ jobs'["summary"] # jobs["summary"] =>
             jobs'["summary"].state = "queued"
        /\ jobs["asr"].replace => jobs'["summary"].state = "queued" /\ jobs'["summary"].replace
    BY <1>2, <1>4, <1>9 DEF Stages
  <2>2. Reheard => jobs["asr"].replace
    BY DEF Reheard
  <2>3. Begun'
    BY <1>1, <1>5, <1>8, <2>1 DEF Begun
  <2>4. Latest'
    BY <1>1, <1>2, <1>6, <1>8, <1>9, <2>1 DEF Latest, Finishing
  <2>5. SummaryToCome => SummaryToCome'
    BY <1>5, <2>1, <2>2 DEF SummaryToCome, Carries
  <2>6. ChainGoesOn'
    BY <1>1, <1>8, <2>1, <2>5 DEF ChainGoesOn, MindmapToCome, CardToCome, Carries
  <2>7. SummaryGoesOn'
    BY <1>1, <1>5, <1>6, <1>8, <2>1, <2>2 DEF SummaryGoesOn, Fresh
  <2> QED
    BY <1>7, <2>3, <2>4, <2>6, <2>7 DEF ChainInv
<1>10. CASE hand = "summary" /\ next = STOP
  <2>1. /\ ~Summarisable /\ jobs'["asr"] = jobs["asr"] /\ jobs'["mindmap"] = jobs["mindmap"]
        /\ jobs'["card"] = jobs["card"] /\ jobs'["summary"].state = "done"
    BY <1>2, <1>3, <1>4, <1>10 DEF Stages, STOP
  <2>2. Begun'
    BY <1>1, <1>5, <1>8, <2>1 DEF Begun
  <2>3. Latest'
    BY <1>1, <1>6, <1>8, <2>1 DEF Latest, Reheard
  <2>4. ChainGoesOn' /\ SummaryGoesOn'
    BY <1>5, <1>6, <2>1 DEF ChainGoesOn, MindmapToCome, CardToCome, SummaryToCome, SummaryGoesOn
  <2> QED
    BY <1>7, <2>2, <2>3, <2>4 DEF ChainInv
<1>11. CASE hand = "summary" /\ next = "mindmap"
  <2>1. /\ summary_json # NULL /\ jobs'["asr"] = jobs["asr"] /\ jobs'["card"] = jobs["card"]
        /\ jobs'["summary"].state = "done" /\ jobs'["mindmap"].state # "absent"
        /\ jobs["mindmap"].state = "absent" =>
             jobs'["mindmap"].state = "queued" /\ jobs'["mindmap"].replace = jobs["summary"].replace
        /\ jobs["summary"].replace =>
             jobs'["mindmap"].state = "queued" /\ jobs'["mindmap"].replace
        /\ jobs["mindmap"].state # "absent" /\ ~jobs["summary"].replace =>
             jobs'["mindmap"] = jobs["mindmap"]
    <3>1. summary_json # NULL /\ "mindmap" \in Stages /\ "asr" \in Stages /\ "card" \in Stages
      BY <1>2, <1>11 DEF Stages, STOP
    <3> QED
      BY <1>0, <1>4, <1>11, <3>1
  <2>2. Begun'
    BY <1>1, <1>5, <1>8, <2>1 DEF Begun
  <2>3. Latest'
    BY <1>1, <1>6, <1>8, <2>1 DEF Latest, Reheard
  <2>4. ~Summarisable \/ Reheard => SummaryToCome'
    BY <1>5, <2>1 DEF SummaryToCome, Reheard
  <2>5. MindmapToCome => MindmapToCome'
    BY <1>1, <2>1, <2>4 DEF MindmapToCome, SummaryToCome, Carries
  <2>6. CardToCome => CardToCome'
    <3>1. CASE card = summary_json \/ Unsettled("card")
      BY <1>1, <2>1, <3>1 DEF CardToCome
    <3>2. CASE Unsettled("mindmap") /\ Carries("mindmap", "card")
      BY <2>1, <3>2 DEF CardToCome, Carries
    <3>3. CASE Carries("summary", "mindmap")
      BY <1>8, <2>1, <3>3 DEF CardToCome, Carries, Begun
    <3> QED
      BY <2>4, <3>1, <3>2, <3>3 DEF CardToCome, SummaryToCome
  <2>7. ChainGoesOn'
    BY <1>1, <1>8, <2>5, <2>6 DEF ChainGoesOn
  <2>8. jobs["summary"].replace /\ asr_transcript > 2 => Fresh
    BY <1>1, <1>8, <1>11 DEF SummaryGoesOn, Finishing
  <2>9. SummaryGoesOn'
    BY <1>1, <1>5, <1>6, <1>8, <2>1, <2>8 DEF SummaryGoesOn, Fresh, Reheard
  <2> QED
    BY <1>7, <2>2, <2>3, <2>7, <2>9 DEF ChainInv
<1>12. CASE hand = "mindmap"
  <2>1. /\ mindmap = summary_json /\ jobs'["asr"] = jobs["asr"]
        /\ jobs'["summary"] = jobs["summary"] /\ jobs'["mindmap"].state = "done"
        /\ jobs["card"].state = "absent" => jobs'["card"].state = "queued"
        /\ jobs["mindmap"].replace => jobs'["card"].state = "queued"
        /\ jobs["card"].state # "absent" /\ ~jobs["mindmap"].replace =>
             jobs'["card"] = jobs["card"]
    BY <1>2, <1>4, <1>12 DEF Stages
  <2>2. Begun'
    <3>1. jobs["mindmap"].state = "processing"
      BY <1>2, <1>12
    <3> QED
      BY <1>1, <1>5, <1>8, <2>1, <3>1 DEF Begun
  <2>3. Latest'
    BY <1>1, <1>6, <1>8, <2>1 DEF Latest, Reheard
  <2>4. SummaryToCome => SummaryToCome'
    <3>1. jobs["mindmap"].state = "processing"
      BY <1>2, <1>12
    <3> QED
      BY <1>5, <2>1, <3>1 DEF SummaryToCome, Reheard, Carries
  <2>5. CardToCome => CardToCome'
    BY <1>1, <2>1, <2>4 DEF CardToCome, Carries
  <2>6. ChainGoesOn'
    BY <1>1, <1>8, <2>1, <2>5 DEF ChainGoesOn, MindmapToCome
  <2>7. SummaryGoesOn'
    BY <1>1, <1>5, <1>6, <1>8, <2>1 DEF SummaryGoesOn, Fresh, Reheard
  <2> QED
    BY <1>7, <2>2, <2>3, <2>6, <2>7 DEF ChainInv
<1>13. CASE hand = "card"
  <2>1. /\ card = summary_json /\ jobs'["asr"] = jobs["asr"]
        /\ jobs'["summary"] = jobs["summary"] /\ jobs'["mindmap"] = jobs["mindmap"]
        /\ jobs'["card"].state = "done" /\ jobs["card"].state = "processing"
    BY <1>2, <1>3, <1>4, <1>13 DEF Stages, STOP
  <2>2. Begun'
    BY <1>1, <1>5, <1>8, <2>1 DEF Begun
  <2>3. Latest'
    BY <1>1, <1>6, <1>8, <2>1 DEF Latest, Reheard
  <2>4. ChainGoesOn'
    BY <1>1, <1>5, <1>8, <2>1 DEF ChainGoesOn, MindmapToCome, CardToCome, SummaryToCome, Reheard,
       Carries
  <2>5. SummaryGoesOn'
    BY <1>1, <1>5, <1>6, <1>8, <2>1 DEF SummaryGoesOn, Fresh, Reheard
  <2> QED
    BY <1>7, <2>2, <2>3, <2>4, <2>5 DEF ChainInv
<1> QED
  BY <1>2, <1>3, <1>9, <1>10, <1>11, <1>12, <1>13


LEMMA AdmittedKeeps == MaterialsInv /\ (Admit \/ change_catalog) => ChainInv'
<1> SUFFICES ASSUME MaterialsInv, Admit \/ change_catalog PROVE ChainInv'
  OBVIOUS
<1>1. PICK c \in 0 .. MaxCatalog : jobs' = Admitted(c)
  <2>1. CASE Admit
    BY <2>1, MaterialsAssumption DEF Admit, MaterialsInv, Types, TypeOK
  <2>2. CASE change_catalog
    BY <2>2, MaterialsAssumption DEF change_catalog, MaterialsInv, Types, TypeOK
  <2> QED
    BY <2>1, <2>2
<1>2. /\ UNCHANGED <<plaud, content, hand, next, read, asked>>
      /\ pc' = pc \/ (pc = "admit" /\ pc' = "drain")
  BY DEF Admit, change_catalog, worker
<1>3. jobs' = jobs \/ (~Open("summary") /\ jobs' = Regenerated(c))
  BY <1>1, RowsAre, AdmittedIs DEF MaterialsInv, Types
<1>4. CASE jobs' = jobs
  BY <1>2, <1>4, AsideKeeps DEF Running
<1>5. CASE ~Open("summary") /\ jobs' = Regenerated(c)
  BY <1>2, <1>5, RegeneratedKeeps
<1> QED
  BY <1>3, <1>4, <1>5

\* The moves of the queue around a handler.
LEMMA MovedKeeps ==
  ASSUME MaterialsInv, Start \/ (\E s \in Stages : Claim(s)) \/ asr_defers \/ Fail
  PROVE  ChainInv'
<1>0. jobs \in [Stages -> Row]
  BY RowsAre DEF MaterialsInv, Types
<1>1. CASE Start
  <2>1. UNCHANGED <<plaud, content, asked>> /\ pc' \notin Running
    BY <1>1 DEF Start, Running
  <2>2. /\ jobs' \in [Stages -> Row]
        /\ \A s \in Stages : /\ jobs'[s].replace = jobs[s].replace
                             /\ jobs'[s].local = jobs[s].local
                             /\ IF jobs[s].state = "processing" THEN jobs'[s].state = "queued"
                                ELSE jobs'[s].state = jobs[s].state
    BY <1>0, <1>1, StartRows
  <2>3. \A s \in Stages : /\ (jobs'[s].state = "absent" <=> jobs[s].state = "absent")
                          /\ (Unsettled(s) => Unsettled(s)')
    BY <2>2 DEF Unsettled, OPEN_STATES
  <2> QED
    BY <2>1, <2>2, <2>3, RestatedKeeps
<1>2. ASSUME NEW s \in Stages, NEW state \in {"queued", "processing", "retry_wait", "failed"},
             jobs[s].state \in OPEN_STATES, jobs' = [jobs EXCEPT ![s].state = state],
             UNCHANGED <<plaud, content, asked>>,
             pc' = "drain" \/ (pc' = "run" /\ hand' = s /\ state = "processing")
      PROVE  ChainInv'
  <2>1. state \in States
    BY DEF States, OPEN_STATES
  <2>2. /\ jobs' \in [Stages -> Row]
        /\ jobs'[s].state = state /\ jobs'[s].replace = jobs[s].replace
        /\ jobs'[s].local = jobs[s].local
        /\ \A t \in Stages \ {s} : jobs'[t] = jobs[t]
    BY <1>0, <1>2, <2>1, EndsRows
  <2>3. \A t \in Stages : /\ jobs'[t].replace = jobs[t].replace /\ jobs'[t].local = jobs[t].local
                          /\ (jobs'[t].state = "absent" <=> jobs[t].state = "absent")
                          /\ (Unsettled(t) => Unsettled(t)')
    BY <1>2, <2>2 DEF Unsettled, OPEN_STATES
  <2>4. pc' \notin Running \/ (pc' = "run" /\ hand' \in Stages /\ jobs'[hand'].state = "processing")
    BY <1>2, <2>2 DEF Running
  <2> QED
    BY <1>2, <2>2, <2>3, <2>4, RestatedKeeps
<1>3. ASSUME NEW s \in Stages, Claim(s) PROVE ChainInv'
  BY <1>2, <1>3 DEF Claim, OPEN_STATES
<1>4. CASE asr_defers \/ Fail
  <2>1. hand \in Stages /\ jobs[hand].state = "processing" /\ pc' = "drain"
        /\ UNCHANGED <<plaud, content, asked>>
    BY <1>4 DEF asr_defers, Fail, Ends, Leaves, MaterialsInv, InHand, Running
  <2>2. PICK state \in {"queued", "retry_wait", "failed"} :
          jobs' = [jobs EXCEPT ![hand].state = state]
    BY <1>4 DEF asr_defers, Fail, Ends
  <2> QED
    BY <1>2, <2>1, <2>2 DEF OPEN_STATES
<1> QED
  BY <1>1, <1>3, <1>4

LEMMA ChainStep == MaterialsInv /\ [Next]_vars => ChainInv'
<1> SUFFICES ASSUME MaterialsInv, [Next]_vars PROVE ChainInv'
  OBVIOUS
<1>1. CASE Start \/ (\E s \in Stages : Claim(s)) \/ asr_defers \/ Fail
  BY <1>1, MovedKeeps
<1>2. CASE Admit \/ change_catalog
  BY <1>2, AdmittedKeeps
<1>3. CASE Pass \/ EndDrain \/ Crash \/ UNCHANGED vars
  BY <1>3, AsideKeeps DEF Pass, EndDrain, Crash, vars, worker, Running, content
<1>4. CASE request_regenerate
  <2>1. NULL \in 0 .. MaxCatalog
    BY MaterialsAssumption DEF NULL
  <2> QED
    BY <1>4, <2>1, RegeneratedKeeps DEF request_regenerate, worker
<1>5. CASE request_retranscribe
  BY <1>5, RetranscribeKeeps
<1>6. CASE asr_stage
  BY <1>6, AsrKeeps
<1>7. CASE summary_skips \/ ReadText \/ ReadCatalogue \/ ReadRevision
  BY <1>7, ReadKeeps
<1>8. CASE Publish
  BY <1>8, PublishKeeps
<1>9. CASE mindmap_stage \/ card_stage
  BY <1>9, DrawKeeps
<1>10. CASE Complete
  BY <1>10, CompleteKeeps
<1> QED
  BY <1>1, <1>2, <1>3, <1>4, <1>5, <1>6, <1>7, <1>8, <1>9, <1>10 DEF Next, Work

LEMMA InitMaterials == Init => MaterialsInv
<1> SUFFICES ASSUME Init PROVE MaterialsInv
  OBVIOUS
<1> USE MaterialsAssumption DEF Init
<1>1. /\ jobs \in [Stages -> Row] /\ jobs["asr"].state = "queued"
      /\ jobs["summary"].state = "absent" /\ jobs["mindmap"].state = "absent"
      /\ jobs["card"].state = "absent"
  BY NewRowIs, NoRowIs DEF Stages
<1>2. plaud \in BOOLEAN /\ brief \in BOOLEAN /\ reviewed \in BOOLEAN
  <2>1. brief \in BOOLEAN \/ brief \in {FALSE}
    OBVIOUS
  <2> QED
    BY <2>1, Zenon
<1>3. {asr_transcript, summary, summary_json, mindmap, card} \subseteq Texts
  BY DEF Texts, NULL, PLAUD
<1>4. catalog \in 1 .. MaxCatalog /\ {label_catalog_revision, labels} \subseteq 0 .. catalog
  BY DEF NULL
<1>5. read \in [text : Texts, catalogue : 0 .. MaxCatalog, revision : 0 .. MaxCatalog]
      /\ read.catalogue <= catalog
  BY DEF NoRead, NULL, Texts
<1>6. /\ pc \in {"down", "idle", "admit", "drain", "run", "catalogue", "revision", "publish",
                 "complete"}
      /\ hand \in Stages \cup {"none"} /\ had_a_turn \subseteq Stages
      /\ next \in Stages \cup {STOP}
      /\ asked \in 0 .. MaxRequests /\ faults \in 0 .. MaxFaults
  OBVIOUS
<1>7. Types
  BY <1>1, <1>2, <1>3, <1>4, <1>5, <1>6 DEF Types, TypeOK, Row
<1>8. InHand /\ Begun /\ Latest /\ ChainGoesOn /\ SummaryGoesOn
  BY <1>1 DEF InHand, Running, Begun, Latest, Finishing, ChainGoesOn, SummaryGoesOn, NULL
<1> QED
  BY <1>7, <1>8 DEF MaterialsInv

(***************************************************************************)
(* Which catalogue a publication marks.                                    *)
(***************************************************************************)

\* A summary job is admitted for a revision there was; its worker reads the
\* catalogue afterwards, and marks with the revision admitted.
Admission ==
  LET row == jobs["summary"]
  IN  /\ row.catalog_revision <= catalog
      /\ pc \in {"revision", "publish"} => row.catalog_revision <= read.catalogue
      /\ pc = "publish" /\ row.catalog_revision # NULL => read.revision = row.catalog_revision

LEMMA SameRevision ==
  ASSUME NEW row \in Row, NEW state
  PROVE  [row EXCEPT !.state = state].catalog_revision = row.catalog_revision
BY DEF Row

LEMMA CompletedRevision ==
  ASSUME MaterialsInv, Complete
  PROVE  jobs'["summary"].catalog_revision \in {NULL, jobs["summary"].catalog_revision}
<1>1. jobs \in [Stages -> Row] /\ "summary" \in Stages
  BY RowsAre DEF MaterialsInv, Types, Stages
<1> DEFINE row == jobs["summary"]
           done == [row EXCEPT !.state = "done", !.replace = FALSE, !.local = FALSE]
           again == [row EXCEPT !.state = "queued", !.replace = TRUE, !.local = FALSE]
           force == jobs[hand].replace
           new == [NewRow EXCEPT !.replace = force]
<1>2. /\ done.catalog_revision = row.catalog_revision
      /\ again.catalog_revision = row.catalog_revision
  BY <1>1 DEF Row
<1>3. new.catalog_revision = NULL /\ NewRow.catalog_revision = NULL
  BY DEF NewRow, NoRow
<1>4. jobs'["summary"] \in {done, again, new, row}
  BY <1>1 DEF Complete, Completed, Successor
<1> HIDE DEF done, again, new
<1> QED
  BY <1>2, <1>3, <1>4

\* Requests leave a row alone that is being worked on, the worker its revision.
LEMMA RevisionStep ==
  ASSUME MaterialsInv, [Next]_vars
  PROVE  /\ jobs'["summary"].catalog_revision
              \in {NULL, catalog', jobs["summary"].catalog_revision}
         /\ pc \in {"catalogue", "revision", "publish"} =>
              jobs'["summary"].catalog_revision = jobs["summary"].catalog_revision
<1> DEFINE now == jobs["summary"].catalog_revision
           then == jobs'["summary"].catalog_revision
           Working == pc \in {"catalogue", "revision", "publish"}
<1>0. jobs \in [Stages -> Row] /\ "summary" \in Stages /\ TypeOK /\ InHand
  BY RowsAre DEF MaterialsInv, Types, Stages
<1>1. Working => Open("summary") /\ hand = "summary"
  BY <1>0 DEF InHand, Running, Open, OPEN_STATES
<1>2. ASSUME NEW rev, jobs' = Regenerated(rev) PROVE then = rev
  <2>1. ASSUME NEW row \in Row
        PROVE  [row EXCEPT !.replace = TRUE, !.catalog_revision = rev].catalog_revision = rev
    BY DEF Row
  <2>2. [NewRow EXCEPT !.replace = TRUE, !.catalog_revision = rev].catalog_revision = rev
    BY <2>1, NewRowIs
  <2> QED
    BY <1>0, <1>2, <2>2 DEF Regenerated
<1>3. CASE request_regenerate
  BY <1>1, <1>2, <1>3 DEF request_regenerate
<1>4. CASE Admit \/ change_catalog
  <2>1. PICK c : jobs' = Admitted(c) /\ c = catalog'
    BY <1>4 DEF Admit, change_catalog, marks
  <2>2. CASE jobs' = jobs
    BY <2>2
  <2>3. CASE jobs' # jobs
    BY <1>1, <1>2, <2>1, <2>3 DEF Admitted
  <2> QED
    BY <2>2, <2>3
<1>5. CASE request_retranscribe
  BY <1>0, <1>5, RetranscribedIs DEF request_retranscribe
<1>6. ASSUME NEW s \in Stages, NEW state, jobs' = [jobs EXCEPT ![s].state = state] PROVE then = now
  <2>1. jobs' = [jobs EXCEPT ![s] = [jobs[s] EXCEPT !.state = state]]
    BY <1>6
  <2>2. jobs'["summary"] \in {jobs["summary"], [jobs["summary"] EXCEPT !.state = state]}
    BY <1>0, <2>1
  <2> QED
    BY <1>0, <2>2, SameRevision
<1>7. CASE asr_defers \/ Fail
  <2>1. hand \in Stages
    BY <1>0, <1>7 DEF asr_defers, Fail, InHand, Running
  <2> QED
    BY <1>6, <1>7, <2>1 DEF asr_defers, Fail, Ends
<1>8. ASSUME NEW s \in Stages, Claim(s) PROVE then = now
  BY <1>6, <1>8 DEF Claim
<1>9. CASE Start
  <2>1. jobs'["summary"] = jobs["summary"] \/ jobs'["summary"] = [jobs["summary"] EXCEPT !.state = "queued"]
    BY <1>0, <1>9 DEF Start
  <2>2. [jobs["summary"] EXCEPT !.state = "queued"].catalog_revision = now
    BY <1>0, SameRevision
  <2> QED
    BY <2>1, <2>2
<1>10. CASE Complete
  BY <1>10, CompletedRevision DEF Complete
<1>11. CASE UNCHANGED jobs
  BY <1>11
<1> QED
  BY <1>3, <1>4, <1>5, <1>7, <1>8, <1>9, <1>10, <1>11
  DEF Next, Work, vars, Pass, EndDrain, asr_stage, summary_skips, ReadText, ReadCatalogue,
      ReadRevision, Publish, mindmap_stage, card_stage, Crash

LEMMA AdmissionStep == MaterialsInv /\ Admission /\ [Next]_vars => Admission'
<1> SUFFICES ASSUME MaterialsInv, Admission, [Next]_vars PROVE Admission'
  OBVIOUS
<1> DEFINE now == jobs["summary"].catalog_revision
           then == jobs'["summary"].catalog_revision
<1>0. Types /\ TypeOK /\ Types' /\ TypeOK'
  BY TypesStep DEF MaterialsInv, Types
<1>1. now \in Nat /\ catalog \in Nat /\ catalog' \in Nat /\ read.catalogue \in Nat
  BY <1>0, MaterialsAssumption DEF TypeOK, Stages
<1>2. now <= catalog /\ catalog <= catalog'
  <2>1. CASE change_catalog
    BY <1>1, <2>1 DEF Admission, change_catalog
  <2>2. CASE UNCHANGED catalog
    BY <1>1, <2>2 DEF Admission
  <2> QED
    BY <2>1, <2>2
    DEF Next, Work, vars, marks, Start, Pass, Admit, EndDrain, Claim, asr_stage, summary_skips,
        ReadText, ReadCatalogue, ReadRevision, Publish, mindmap_stage, card_stage, Complete,
        asr_defers, Fail, Ends, Crash, request_regenerate, request_retranscribe
<1>3. /\ then \in {NULL, catalog', now}
      /\ pc \in {"catalogue", "revision", "publish"} => then = now
  BY RevisionStep
<1>4. then <= catalog'
  BY <1>1, <1>2, <1>3 DEF NULL
<1>5. CASE ReadCatalogue
  <2>1. read' = [read EXCEPT !.catalogue = catalog] /\ pc' = "revision" /\ then = now
    BY <1>3, <1>5 DEF ReadCatalogue
  <2>2. read'.catalogue = catalog
    BY <1>0, <2>1 DEF TypeOK
  <2> QED
    BY <1>2, <1>4, <2>1, <2>2 DEF Admission
<1>6. CASE ReadRevision
  <2>1. /\ read' = [read EXCEPT !.revision = IF now # NULL THEN now ELSE catalog]
        /\ pc = "revision" /\ pc' = "publish" /\ then = now
    BY <1>3, <1>6 DEF ReadRevision
  <2>2. read'.catalogue = read.catalogue /\ (now # NULL => read'.revision = now)
    BY <1>0, <2>1 DEF TypeOK
  <2> QED
    BY <1>4, <2>1, <2>2 DEF Admission
<1>7. CASE UNCHANGED <<pc, read>>
  BY <1>3, <1>4, <1>7 DEF Admission
<1>8. CASE pc' \notin {"revision", "publish"}
  BY <1>4, <1>8 DEF Admission
<1> QED
  BY <1>5, <1>6, <1>7, <1>8
  DEF Next, Work, vars, worker, Start, Pass, Admit, EndDrain, Claim, asr_stage, summary_skips,
      ReadText, Publish, mindmap_stage, card_stage, Returned, Complete, asr_defers, Fail, Ends,
      Leaves, Crash, request_regenerate, request_retranscribe, change_catalog

(***************************************************************************)
(* Theorems.                                                               *)
(***************************************************************************)

\* The inductive invariant: whatever is not of the text shown, or of the text
\* asked for, has a job under way that will replace it.
THEOREM MaterialsCorrect == Spec => []MaterialsInv
<1>1. Init => MaterialsInv
  BY InitMaterials
<1>2. MaterialsInv /\ [Next]_vars => MaterialsInv'
  BY TypesStep, ChainStep DEF MaterialsInv, ChainInv
<1> QED
  BY <1>1, <1>2, PTL DEF Spec

\* A ready recording's mind map and card are of the summary shown
\* (backfill_one's publication, mindmap_stage and card_stage, under whatever
\* requests, faults and catalogue changes).
THEOREM MaterialsAgreeHolds == Spec => []MaterialsAgree
<1>1. MaterialsInv => MaterialsAgree
  <2> SUFFICES ASSUME MaterialsInv, Ready, Summarisable, summary_json # NULL
      PROVE  mindmap = summary_json /\ card = summary_json
    BY DEF MaterialsAgree, MaterialsInv, Types
  <2>1. \A s \in Stages : ~Unsettled(s)
    BY DEF Ready, Failed, Open, Unsettled
  <2>2. ~Unsettled("asr") /\ ~Unsettled("summary") /\ ~Unsettled("mindmap") /\ ~Unsettled("card")
    BY <2>1 DEF Stages
  <2> QED
    BY <2>2 DEF MaterialsInv, ChainGoesOn, MindmapToCome, CardToCome, SummaryToCome, Reheard
<1> QED
  BY <1>1, MaterialsCorrect, PTL

\* Once the recording reads as ready, all that is derived is of the transcript
\* the reader asked for (request_retranscribe, advance_pipeline's replacement).
THEOREM RequestRefreshesAllHolds == Spec => []RequestRefreshesAll
<1>1. MaterialsInv => RequestRefreshesAll
  <2> SUFFICES ASSUME MaterialsInv, Ready, Summarisable, asr_transcript > 2
      PROVE  {summary, summary_json, mindmap, card} = {asr_transcript}
    BY DEF RequestRefreshesAll
  <2>1. \A s \in Stages : ~Unsettled(s)
    BY DEF Ready, Failed, Open, Unsettled
  <2>2. ~Unsettled("asr") /\ ~Unsettled("summary") /\ ~Unsettled("mindmap") /\ ~Unsettled("card")
    BY <2>1 DEF Stages
  <2>3. summary_json = asr_transcript /\ summary = asr_transcript
    BY <2>2 DEF MaterialsInv, SummaryGoesOn, Fresh, Reheard
  <2>4. mindmap = summary_json /\ card = summary_json
    BY <2>2, <2>3 DEF MaterialsInv, ChainGoesOn, MindmapToCome, CardToCome, SummaryToCome,
       Reheard, NULL
  <2> QED
    BY <2>3, <2>4
<1> QED
  BY <1>1, MaterialsCorrect, PTL

\* Materials!AdmittedMarksTruly: whatever happens to the catalogue between
\* admit_label_reclassification, label_catalogue and the publication, an
\* admitted job marks its recording only with the catalogue it chose from.
THEOREM AdmittedMarksTrulyHolds == Spec => AdmittedMarksTruly
<1> DEFINE Marking == pc = "publish" /\ pc' = "complete"
                      /\ jobs["summary"].catalog_revision # NULL
                      /\ label_catalog_revision' # label_catalog_revision =>
                        labels' = label_catalog_revision'
<1>1. Init => Admission
  <2> SUFFICES ASSUME Init PROVE Admission
    OBVIOUS
  <2>1. jobs["summary"] = NoRow
    BY DEF Init, Stages
  <2> QED
    BY <2>1 DEF Init, Admission, NoRow, NULL
<1>2. MaterialsInv /\ Admission /\ [Next]_vars => Admission'
  BY AdmissionStep
<1>3. MaterialsInv /\ Admission /\ [Next]_vars => [Marking]_vars
  <2> SUFFICES ASSUME MaterialsInv, Admission, [Next]_vars, pc = "publish", pc' = "complete",
                      jobs["summary"].catalog_revision # NULL,
                      label_catalog_revision' # label_catalog_revision
      PROVE  labels' = label_catalog_revision'
    OBVIOUS
  <2>1. Publish
    BY DEF Next, Work, vars, worker, Start, Pass, Admit, EndDrain, Claim, asr_stage,
       summary_skips, ReadText, ReadCatalogue, ReadRevision, mindmap_stage, card_stage, Complete,
       asr_defers, Fail, Ends, Leaves, Crash, request_regenerate, request_retranscribe,
       change_catalog
  <2>2. /\ labels' = read.catalogue /\ label_catalog_revision' = catalog
        /\ read.revision = catalog
    BY <2>1 DEF Publish, Marked
  <2>3. catalog <= read.catalogue
    BY <2>2 DEF Admission
  <2>4. read.catalogue <= catalog /\ catalog \in Nat /\ read.catalogue \in Nat
    BY MaterialsAssumption DEF MaterialsInv, Types, TypeOK
  <2> QED
    BY <2>2, <2>3, <2>4
<1> QED
  BY <1>1, <1>2, <1>3, MaterialsCorrect, PTL DEF Spec, AdmittedMarksTruly

=============================================================================
