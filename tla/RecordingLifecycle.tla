------------------------ MODULE RecordingLifecycle ------------------------
(***************************************************************************)
(* How recordings enter an archive, are numbered, handed to the queue,     *)
(* indexed for search, archived and deleted.                               *)
(*                                                                         *)
(* Three kinds of process share the SQLite file.  The connector is one     *)
(* thread under a flock: a pass of sync_once, then reconcile and drain;    *)
(* archive_recording's command line takes the same flock, so it runs only  *)
(* while no connector does.  The connector's control threads delete,       *)
(* archive and restore.  An upload is imported by a process of its own,    *)
(* one at a time, which takes no flock.  A step here is one transaction,   *)
(* or one access to the audio directory, with the reads that belong to it. *)
(*                                                                         *)
(* A pipeline job stands for the ASR job of the recording; retries and     *)
(* their budget are PipelineQueue's.  Audio is present or absent:          *)
(* download_audio and normalize_audio rename a finished file into place.   *)
(***************************************************************************)
EXTENDS Integers, FiniteSets, FiniteSetsExt

CONSTANTS
  Source,      \* ids the PLAUD account lists
  Upload,      \* fresh ids of the files a reader uploads
  MaxFaults,   \* bound on crashes and failures
  MaxManual    \* bound on runs of the command line

NoId == "none"                               \* no recording in hand

ASSUME LifecycleAssumption ==
  /\ Source \cap Upload = {} /\ NoId \notin Source \cup Upload
  /\ MaxFaults \in Nat /\ MaxManual \in Nat

Ids == Source \cup Upload

VARIABLES
  recordings,    \* id -> its row: present, archived, recording_number, plaud, asr
  tombstones,    \* the ids of recording_tombstones
  recordings_fts,\* id -> the text the search index holds for it
  jobs,          \* id -> the state of its ASR job
  plaud_reviews, \* id -> the verdict its review ledger holds
  audio,         \* the ids with a non-empty file in the audio directory
  next_number,   \* the counter of SEQ_TABLE
  issued,        \* history: every <<number, id>> an allocation committed
  pc, batch, hand,   \* the flock's holder: where it is, ids left, the one in hand
  read,          \* what its ASR handler found: no row or audio, PLAUD's text, neither
  manual,        \* TRUE: the holder is the command line, with --force
  importer,      \* the import process: where it is, which id, rows to number
  deleting,      \* id -> how far a control thread's delete has come
  faults, runs,
  offered        \* the ids whose next get_file is sure to come with a URL

index    == <<recordings_fts, plaud_reviews>>
rows     == <<recordings, tombstones, index, jobs, audio>>
numbers  == <<next_number, issued>>
turn     == <<manual, read>>
holder   == <<pc, batch, hand, turn>>
vars     == <<rows, numbers, holder, importer, deleting, faults, runs, offered>>

NoRow == [present |-> FALSE, archived |-> FALSE, recording_number |-> 0,
          plaud |-> FALSE, asr |-> FALSE]
Idle  == [at |-> "none", id |-> NoId, todo |-> {}]

Present(r) == recordings[r].present
Fault == faults < MaxFaults /\ faults' = faults + 1

\* The text recordings shows: local when there is one, else PLAUD's, else ''.
Shown(row) == IF row.asr THEN "local" ELSE IF row.plaud THEN "plaud" ELSE ""

-----------------------------------------------------------------------------
(* Numbering *)

Unnumbered_none == {}                        \* mutant: init_db repairs nothing
unnumbered_ids  == {r \in Ids : Present(r) /\ recordings[r].recording_number = 0}

Stored == {recordings[r].recording_number : r \in Ids}

Reserve_highest == Max(Stored \cup {0}) + 1  \* mutant: the counter is not kept
_reserve == Max(Stored \cup {next_number - 1}) + 1

\* One _allocate: the writer lock is held from the read of the row to commit.
Allocate(r) ==
  IF Present(r) /\ recordings[r].recording_number = 0
  THEN /\ recordings' = [recordings EXCEPT ![r].recording_number = _reserve]
       /\ next_number' = Max({next_number, _reserve + 1})
       /\ issued' = issued \cup {<<_reserve, r>>}
  ELSE UNCHANGED <<recordings, numbers>>

-----------------------------------------------------------------------------
(* The flock's holder: a pass of the connector, or the command line *)

\* Startup sweep: every processing claim goes back to the queue.
Start ==
  /\ pc = "down"
  /\ jobs' = [r \in Ids |-> IF jobs[r] = "processing" THEN "queued" ELSE jobs[r]]
  /\ pc' = "idle"
  /\ UNCHANGED <<recordings, tombstones, index, audio, numbers, batch, hand,
                 turn, importer, deleting, faults, offered, runs>>

\* sync_once, or the command line, opens with init_db.
BeginPass ==
  /\ pc = "idle"
  /\ pc' = "numbering" /\ batch' = unnumbered_ids
  /\ UNCHANGED <<rows, numbers, hand, turn, importer, deleting, faults, offered, runs>>

BeginManual(r) ==
  /\ pc = "down" /\ runs < MaxManual
  /\ pc' = "numbering" /\ batch' = unnumbered_ids
  /\ hand' = r /\ manual' = TRUE /\ runs' = runs + 1
  /\ UNCHANGED <<rows, numbers, read, importer, deleting, faults, offered>>

BackfillOne(r) ==
  /\ pc = "numbering" /\ r \in batch
  /\ Allocate(r)
  /\ batch' = batch \ {r}
  /\ UNCHANGED <<tombstones, index, jobs, audio, pc, hand, turn,
                 importer, deleting, faults, offered, runs>>

have_rows == {r \in Ids : Present(r)}        \* mutant: the row alone counts
have == {r \in Ids : Present(r) /\ r \in audio}

\* The two reads, before the listing and every download.
TakeSnapshot ==
  /\ pc = "numbering" /\ batch = {}
  /\ pc' = "archiving"
  /\ batch' = IF manual THEN {hand} ELSE (Source \ have) \ tombstones
  /\ hand' = NoId
  /\ UNCHANGED <<rows, numbers, turn, importer, deleting, faults, offered, runs>>

\* archive_one up to its transaction: metadata, audio when a URL came with it.
\* Of the calls for a recording, one may come without (the bound on those).
Fetch(r) ==
  /\ pc = "archiving" /\ r \in batch
  /\ audio' \in {audio \cup {r}} \cup (IF r \in offered THEN {} ELSE {audio})
  /\ offered' = offered \cup {r}
  /\ pc' = "fetched" /\ hand' = r /\ batch' = batch \ {r}
  /\ UNCHANGED <<recordings, tombstones, index, jobs, numbers, turn,
                 importer, deleting, faults, runs>>

FetchFails(r) ==
  /\ pc = "archiving" /\ r \in batch
  /\ batch' = batch \ {r} /\ Fault
  /\ UNCHANGED <<rows, numbers, pc, hand, turn, importer, deleting, offered, runs>>

Upserted_replaced(r, plaud) == [NoRow EXCEPT !.present = TRUE, !.plaud = plaud]
                                             \* mutant: INSERT OR REPLACE
Upserted(r, plaud) == [recordings[r] EXCEPT !.present = TRUE, !.plaud = plaud]

Indexed_fetched(row) == IF row.plaud THEN "plaud" ELSE ""
                                             \* mutant: what was just fetched
Indexed(row) == Shown(row)

\* enqueue_asr: DO NOTHING on a job that exists or a text that is published.
Enqueued(r, row) ==
  IF jobs[r] = "absent" /\ ~row.asr THEN [jobs EXCEPT ![r] = "queued"] ELSE jobs

\* Row, index entry and first job, both or neither.
ArchiveRow ==
  /\ pc = "fetched"
  /\ \E plaud \in BOOLEAN :
       LET row == Upserted(hand, plaud) IN
         /\ recordings' = [recordings EXCEPT ![hand] = row]
         /\ recordings_fts' = [recordings_fts EXCEPT ![hand] = Indexed(row)]
         /\ jobs' = IF hand \in audio THEN Enqueued(hand, row) ELSE jobs
  /\ pc' = "archived"
  /\ UNCHANGED <<tombstones, plaud_reviews, audio, numbers, batch, hand, turn, importer,
                 deleting, faults, offered, runs>>

\* A row deleted in between raises UnknownRecordingError: the next id follows.
NumberRow ==
  /\ pc = "archived"
  /\ Allocate(hand)
  /\ pc' = "archiving" /\ hand' = NoId
  /\ UNCHANGED <<tombstones, index, jobs, audio, batch, turn,
                 importer, deleting, faults, offered, runs>>

SyncFails ==                                 \* init_db, the handshake or a page
  /\ pc \in {"numbering", "archiving"} /\ ~manual
  /\ pc' = "synced" /\ batch' = {} /\ Fault
  /\ UNCHANGED <<rows, numbers, hand, turn, importer, deleting, offered, runs>>

EndSync ==
  /\ pc = "archiving" /\ batch = {}
  /\ pc' = IF manual THEN "down" ELSE "synced"
  /\ manual' = FALSE
  /\ UNCHANGED <<rows, numbers, batch, hand, read, importer, deleting, faults, offered, runs>>

-----------------------------------------------------------------------------
(* The same pass: reconcile and drain *)

Adoptable_none == {}                         \* mutant: nothing is adopted
Adoptable == {r \in have : ~recordings[r].asr /\ jobs[r] = "absent"}

\* Failed transcriptions are revived (within PipelineQueue's budget), and the
\* recordings to adopt are read.
Reconcile ==
  /\ pc = "synced"
  /\ \E revived \in SUBSET {r \in have : ~recordings[r].asr /\ jobs[r] = "failed"} :
       jobs' = [r \in Ids |-> IF r \in revived THEN "queued" ELSE jobs[r]]
  /\ pc' = "adopting" /\ batch' = Adoptable
  /\ UNCHANGED <<recordings, tombstones, index, audio, numbers, hand, turn,
                 importer, deleting, faults, offered, runs>>

Adopt(r) ==
  /\ pc = "adopting" /\ r \in batch
  /\ jobs' = IF r \in audio /\ jobs[r] = "absent"
             THEN [jobs EXCEPT ![r] = "queued"] ELSE jobs
  /\ batch' = batch \ {r}
  /\ UNCHANGED <<recordings, tombstones, index, audio, numbers, pc, hand,
                 turn, importer, deleting, faults, offered, runs>>

BeginDrain ==
  /\ pc = "adopting" /\ batch = {}
  /\ pc' = "draining" /\ batch' = {}
  /\ UNCHANGED <<rows, numbers, hand, turn, importer, deleting, faults, offered, runs>>

\* While it drains, batch is had_a_turn.  The handler opens with the row and
\* its audio.
Claim(r) ==
  /\ pc = "draining" /\ hand = NoId
  /\ jobs[r] = "queued" /\ r \notin batch
  /\ jobs' = [jobs EXCEPT ![r] = "processing"]
  /\ batch' = batch \cup {r} /\ hand' = r
  /\ read' = IF r \notin have THEN "gone" ELSE IF recordings[r].plaud THEN "plaud" ELSE "bare"
  /\ UNCHANGED <<recordings, tombstones, index, audio, numbers, pc, manual,
                 importer, deleting, faults, offered, runs>>

Claimed_any(r) == TRUE                       \* mutant: publication is unfenced
Claimed(r) == jobs[r] = "processing"

Local == recordings' = [recordings EXCEPT ![hand].asr = TRUE]

\* store, or record_review: text, index and verdict in one transaction, under
\* the claim.  A review that keeps PLAUD's text leaves the row alone, and is
\* not checked against it; a decided one is not taken up again.
Publish ==
  /\ pc = "draining" /\ hand # NoId /\ Claimed(hand)
  /\ \/ /\ read = "bare" /\ Present(hand) /\ Local
        /\ recordings_fts' = [recordings_fts EXCEPT ![hand] = "local"]
        /\ UNCHANGED plaud_reviews
     \/ /\ read = "plaud" /\ plaud_reviews[hand] = "none"
        /\ \E chosen \in {"plaud", "local"} :
             /\ IF chosen = "local" THEN Present(hand) /\ Local ELSE UNCHANGED recordings
             /\ recordings_fts' = [recordings_fts EXCEPT ![hand] = chosen]
             /\ plaud_reviews' = [plaud_reviews EXCEPT ![hand] = chosen]
  /\ pc' = "published"
  /\ UNCHANGED <<tombstones, jobs, audio, numbers, batch, hand, turn, importer,
                 deleting, faults, offered, runs>>

Complete ==
  /\ pc = "published"
  /\ jobs' = IF Claimed(hand) THEN [jobs EXCEPT ![hand] = "done"] ELSE jobs
  /\ pc' = "draining" /\ hand' = NoId /\ read' = "gone"
  /\ UNCHANGED <<recordings, tombstones, index, audio, numbers, batch, manual,
                 importer, deleting, faults, offered, runs>>

Refused(r) ==
  \/ read = "gone" \/ ~Claimed(r)
  \/ read = "plaud" /\ plaud_reviews[r] # "none"

\* No row, no audio, no claim or a decided review raises, and so may a call;
\* a claim still held ends in queued, retry_wait or failed.
HandlerRaises ==
  /\ pc = "draining" /\ hand # NoId
  /\ IF Refused(hand) THEN UNCHANGED faults ELSE Fault
  /\ \E verdict \in {"queued", "failed"} :
       jobs' = IF Claimed(hand) THEN [jobs EXCEPT ![hand] = verdict] ELSE jobs
  /\ hand' = NoId /\ read' = "gone"
  /\ UNCHANGED <<recordings, tombstones, index, audio, numbers, pc, batch,
                 manual, importer, deleting, offered, runs>>

EndPass ==
  /\ pc = "draining" /\ hand = NoId
  /\ \A r \in Ids \ batch : jobs[r] # "queued"
  /\ pc' = "idle" /\ batch' = {}
  /\ UNCHANGED <<rows, numbers, hand, turn, importer, deleting, faults, offered, runs>>

-----------------------------------------------------------------------------
(* The control socket *)

Serving == pc # "down" /\ ~manual

SetArchived(r) ==                            \* archive, and restore
  /\ Serving /\ Present(r)
  /\ recordings' = [recordings EXCEPT ![r].archived = ~@]
  /\ UNCHANGED <<tombstones, index, jobs, audio, numbers, holder, importer,
                 deleting, faults, offered, runs>>

\* The check is a SELECT of its own; the deletions follow in a transaction.
DeleteCheck(r) ==
  /\ Serving /\ deleting[r] = "no"
  /\ Present(r) /\ recordings[r].archived
  /\ deleting' = [deleting EXCEPT ![r] = "checked"]
  /\ UNCHANGED <<rows, numbers, holder, importer, faults, offered, runs>>

DeleteCommit(r) ==
  /\ Serving /\ deleting[r] = "checked"
  /\ tombstones' = tombstones \cup {r}
  /\ recordings' = [recordings EXCEPT ![r] = NoRow]
  /\ recordings_fts' = [recordings_fts EXCEPT ![r] = "absent"]
  /\ plaud_reviews' = [plaud_reviews EXCEPT ![r] = "none"]
  /\ jobs' = [jobs EXCEPT ![r] = "absent"]
  /\ deleting' = [deleting EXCEPT ![r] = "committed"]
  /\ UNCHANGED <<audio, numbers, holder, importer, faults, offered, runs>>

_cleanup_local(r) ==
  /\ Serving /\ deleting[r] = "committed"
  /\ audio' = audio \ {r}
  /\ deleting' = [deleting EXCEPT ![r] = "no"]
  /\ UNCHANGED <<recordings, tombstones, index, jobs, numbers, holder, importer,
                 faults, offered, runs>>

-----------------------------------------------------------------------------
(* An upload: local_import in its own process *)

NormalizeAudio(u) ==
  /\ Serving /\ importer.at = "none"
  /\ u \in Upload \ audio /\ ~Present(u) /\ u \notin tombstones
  /\ audio' = audio \cup {u}
  /\ importer' = [at |-> "numbering", id |-> u, todo |-> unnumbered_ids]
  /\ UNCHANGED <<recordings, tombstones, index, jobs, numbers, holder,
                 deleting, faults, offered, runs>>

ImportBackfillOne(r) ==
  /\ importer.at = "numbering" /\ r \in importer.todo
  /\ Allocate(r)
  /\ importer' = [importer EXCEPT !.todo = @ \ {r}]
  /\ UNCHANGED <<tombstones, index, jobs, audio, holder, deleting,
                 faults, offered, runs>>

persist ==
  /\ importer.at = "numbering" /\ importer.todo = {}
  /\ LET u == importer.id  row == Upserted(u, FALSE) IN
       /\ recordings' = [recordings EXCEPT ![u] = row]
       /\ recordings_fts' = [recordings_fts EXCEPT ![u] = ""]
       /\ jobs' = Enqueued(u, row)
  /\ importer' = [importer EXCEPT !.at = "persisted"]
  /\ UNCHANGED <<tombstones, plaud_reviews, audio, numbers, holder, deleting,
                 faults, offered, runs>>

ImportNumber ==
  /\ importer.at = "persisted"
  /\ Allocate(importer.id)
  /\ importer' = Idle
  /\ UNCHANGED <<tombstones, index, jobs, audio, holder, deleting,
                 faults, offered, runs>>

\* Killed at its timeout, or failed.
ImportDies ==
  /\ importer # Idle /\ importer' = Idle /\ Fault
  /\ UNCHANGED <<rows, numbers, holder, deleting, offered, runs>>

\* The holder dies with its control threads; the importer is another session.
Crash ==
  /\ pc # "down" /\ Fault
  /\ pc' = "down" /\ batch' = {} /\ hand' = NoId /\ manual' = FALSE /\ read' = "gone"
  /\ deleting' = [r \in Ids |-> "no"]
  /\ UNCHANGED <<rows, numbers, importer, offered, runs>>

-----------------------------------------------------------------------------

Init ==
  /\ recordings = [r \in Ids |-> NoRow]
  /\ tombstones = {} /\ audio = {}
  /\ recordings_fts = [r \in Ids |-> "absent"]
  /\ jobs = [r \in Ids |-> "absent"]
  /\ plaud_reviews = [r \in Ids |-> "none"]
  /\ next_number = 1 /\ issued = {}
  /\ pc = "down" /\ batch = {} /\ hand = NoId /\ manual = FALSE /\ read = "gone"
  /\ importer = Idle
  /\ deleting = [r \in Ids |-> "no"]
  /\ faults = 0 /\ runs = 0
  /\ offered = {}

\* What the holder does when nothing fails.
Work ==
  \/ Start \/ BeginPass \/ TakeSnapshot \/ ArchiveRow \/ NumberRow \/ EndSync
  \/ Reconcile \/ BeginDrain \/ Publish \/ Complete \/ EndPass
  \/ \E r \in Ids : BackfillOne(r) \/ Fetch(r) \/ Adopt(r) \/ Claim(r)

Control == \E r \in Ids : SetArchived(r) \/ DeleteCheck(r) \/ DeleteCommit(r)
                          \/ _cleanup_local(r)

Import == \/ persist \/ ImportNumber \/ ImportDies
          \/ \E u \in Upload : NormalizeAudio(u)
          \/ \E r \in Ids : ImportBackfillOne(r)

Next ==
  \/ Work \/ SyncFails \/ HandlerRaises \/ Crash \/ Control \/ Import
  \/ \E r \in Source : BeginManual(r)
  \/ \E r \in Ids : FetchFails(r)

Spec == Init /\ [][Next]_vars

\* The connector is restarted when it dies (restart: unless-stopped) and its
\* single thread keeps running; requests, uploads and their process may stop.
FairSpec == Spec /\ WF_vars(Work \/ HandlerRaises)

-----------------------------------------------------------------------------
(* Properties *)

\* The tables, the audio directory and the processes hold values of their types.
TypeOK ==
  /\ recordings \in [Ids -> [present : BOOLEAN, archived : BOOLEAN,
                             recording_number : Nat, plaud : BOOLEAN, asr : BOOLEAN]]
  /\ tombstones \subseteq Ids /\ audio \subseteq Ids /\ batch \subseteq Ids
  /\ recordings_fts \in [Ids -> {"absent", "", "plaud", "local"}]
  /\ jobs \in [Ids -> {"absent", "queued", "processing", "done", "failed"}]
  /\ next_number \in Nat \ {0} /\ issued \subseteq (Nat \ {0}) \X Ids
  /\ pc \in {"down", "idle", "numbering", "archiving", "fetched", "archived",
             "synced", "adopting", "draining", "published"}
  /\ plaud_reviews \in [Ids -> {"none", "plaud", "local"}]
  /\ hand \in Ids \cup {NoId} /\ manual \in BOOLEAN /\ read \in {"gone", "plaud", "bare"}
  /\ importer \in [at : {"none", "numbering", "persisted"}, id : Ids \cup {NoId},
                   todo : SUBSET Ids]
  /\ deleting \in [Ids -> {"no", "checked", "committed"}]
  /\ offered \subseteq Source /\ faults \in 0 .. MaxFaults /\ runs \in 0 .. MaxManual

\* A code names one recording for ever: the number of a deleted recording is
\* not given to another, whoever numbers rows meanwhile (recording_codes'
\* "permanent, human-friendly codes").
NumberNamesOne == \A p, q \in issued : p[1] = q[1] => p[2] = q[2]

\* The search index has an entry for exactly the recordings there are, with the
\* text a reader is shown or the one its review decided for: through forced
\* re-archiving, publication by a worker whose recording is deleted, deletion.
SearchAgrees ==
  \A r \in Ids :
    IF Present(r) THEN recordings_fts[r] \in {Shown(recordings[r]), plaud_reviews[r]}
    ELSE recordings_fts[r] = "absent"

\* While a recording stays, nothing takes its number or its transcript away:
\* not a forced re-archive, not an overlapping numbering.
IngestKeepsWork ==
  [][\A r \in Ids : Present(r) /\ recordings'[r].present =>
        /\ recordings[r].asr => recordings'[r].asr
        /\ recordings[r].recording_number # 0 =>
             recordings'[r].recording_number = recordings[r].recording_number]_vars

\* Audio that was archived is transcribed or its failure recorded: a process
\* that dies between the download and the job leaves nothing forgotten.
AudioIsWorked ==
  \A r \in Ids : (Present(r) /\ r \in audio /\ ~recordings[r].asr)
                   ~> (jobs[r] # "absent" \/ ~Present(r) \/ r \notin audio)

\* Every recording gets its code although the process that archived it died
\* before allocating one.
EveryRowNumbered ==
  \A r \in Ids : Present(r) ~> (recordings[r].recording_number # 0 \/ ~Present(r))

\* What the account lists is archived with its audio, unless the reader deletes
\* it: through passes that fail, calls without a URL and crashes.
SourceArchived ==
  \A r \in Source : <>(r \in tombstones \/ (Present(r) /\ r \in audio))

\* "tombstoned rows are absent from ``recordings``" (summary_backfill.py:324).
TombstonedAbsent == \A r \in tombstones : ~Present(r)
=============================================================================
