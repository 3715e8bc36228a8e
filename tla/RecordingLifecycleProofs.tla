---------------------- MODULE RecordingLifecycleProofs ----------------------
(***************************************************************************)
(* Theorems about RecordingLifecycle for every account, every set of       *)
(* uploads and any number of faults and manual runs.                       *)
(***************************************************************************)
EXTENDS RecordingLifecycle, RecordingCodes, WellFoundedInduction, TLAPS

Row == [present : BOOLEAN, archived : BOOLEAN, recording_number : Nat,
        plaud : BOOLEAN, asr : BOOLEAN]

(* Rows *)

LEMMA NoRowTyped ==
  NoRow \in Row /\ ~NoRow.present /\ ~NoRow.asr /\ NoRow.recording_number = 0
BY DEF NoRow, Row

LEMMA UpsertedTyped ==
  ASSUME recordings \in [Ids -> Row], NEW r \in Ids, NEW plaud \in BOOLEAN
  PROVE  /\ Upserted(r, plaud) \in Row
         /\ Upserted(r, plaud).present
         /\ Upserted(r, plaud).asr = recordings[r].asr
         /\ Upserted(r, plaud).recording_number = recordings[r].recording_number
BY DEF Upserted, Row

LEMMA ShownTyped ==
  ASSUME NEW row \in Row
  PROVE  Shown(row) \in {"", "plaud", "local"}
BY DEF Shown

(* Numbering *)

LEMMA MaxIs ==
  ASSUME NEW S, S \subseteq Int, NEW m \in S, \A y \in S : m >= y
  PROVE  Max(S) = m
<1> DEFINE top == CHOOSE x \in S : \A y \in S : x >= y
<1>1. \E x \in S : \A y \in S : x >= y
  OBVIOUS
<1>2. top \in S /\ \A y \in S : top >= y
  BY <1>1
<1>3. top >= m /\ m >= top
  BY <1>2
<1>4. \A i, j \in Int : i >= j /\ j >= i => i = j
  OBVIOUS
<1>5. top = m
  <2>1. top \in Int /\ m \in Int
    BY <1>2
  <2> HIDE DEF top
  <2> QED BY <1>3, <1>4, <2>1
<1> QED BY <1>5 DEF Max

Numbering ==
  /\ \A r \in Ids : recordings[r].recording_number < next_number
  /\ \A r \in Ids : recordings[r].recording_number # 0 =>
                       <<recordings[r].recording_number, r>> \in issued
  /\ \A p \in issued : p[1] < next_number
  /\ NumberNamesOne

\* While no stored number has reached the counter, the counter is next.
LEMMA ReserveTakesNext ==
  ASSUME recordings \in [Ids -> Row], next_number \in Nat \ {0}, Numbering
  PROVE  _reserve = next_number
<1> DEFINE S == Stored \cup {next_number - 1}
<1>1. S \subseteq Int /\ next_number - 1 \in S
  BY DEF Stored, Row
<1>2. \A y \in S : next_number - 1 >= y
  BY DEF Stored, Row, Numbering
<1>3. Max(S) = next_number - 1
  <2> HIDE DEF S
  <2> QED BY <1>1, <1>2, MaxIs
<1> QED BY <1>3 DEF _reserve

LEMMA AllocateStep ==
  ASSUME recordings \in [Ids -> Row], next_number \in Nat \ {0},
         issued \subseteq (Nat \ {0}) \X Ids, Numbering,
         NEW r \in Ids, Allocate(r)
  PROVE  /\ recordings' \in [Ids -> Row]
         /\ next_number' \in Nat \ {0}
         /\ issued' \subseteq (Nat \ {0}) \X Ids
         /\ Numbering'
         /\ \A q \in Ids : /\ recordings'[q].present = recordings[q].present
                           /\ recordings'[q].plaud = recordings[q].plaud
                           /\ recordings'[q].asr = recordings[q].asr
         /\ \A q \in Ids : ~Present(q) => recordings'[q] = recordings[q]
<1> DEFINE Numbered(n) == [recordings EXCEPT ![r].recording_number = n]
<1>1. CASE Present(r) /\ recordings[r].recording_number = 0
  <2>1. _reserve = next_number
    BY ReserveTakesNext
  <2>2. Max({next_number, next_number + 1}) = next_number + 1
    BY MaxIs
  <2>3. /\ recordings' = Numbered(next_number)
        /\ next_number' = next_number + 1
        /\ issued' = issued \cup {<<next_number, r>>}
    BY <1>1, <2>1, <2>2, Zenon DEF Allocate
  <2>4. recordings' \in [Ids -> Row]
    BY <2>3 DEF Row
  <2>5. issued' \subseteq (Nat \ {0}) \X Ids
    BY <2>3
  <2>6. Numbering'
    <3>1. \A q \in Ids : recordings'[q].recording_number
                          = IF q = r THEN next_number ELSE recordings[q].recording_number
      BY <2>3 DEF Row
    <3>2. \A q \in Ids : recordings'[q].recording_number # 0 =>
                            <<recordings'[q].recording_number, q>> \in issued'
      BY <2>3, <3>1 DEF Numbering
    <3>3. /\ \A q \in Ids : recordings'[q].recording_number < next_number'
          /\ \A p \in issued' : p[1] < next_number'
          /\ NumberNamesOne'
      BY <2>3, <2>5, <3>1 DEF Numbering, NumberNamesOne, Row
    <3> QED
      BY <3>2, <3>3 DEF Numbering
  <2>7. \A q \in Ids : /\ recordings'[q].present = recordings[q].present
                       /\ recordings'[q].plaud = recordings[q].plaud
                       /\ recordings'[q].asr = recordings[q].asr
    BY <2>3 DEF Row
  <2>8. \A q \in Ids : ~Present(q) => recordings'[q] = recordings[q]
    BY <1>1, <2>3 DEF Row, Present
  <2> QED BY <2>3, <2>4, <2>5, <2>6, <2>7, <2>8
<1>2. CASE ~(Present(r) /\ recordings[r].recording_number = 0)
  <2>1. recordings' = recordings /\ next_number' = next_number /\ issued' = issued
    BY <1>2, Zenon DEF Allocate, numbers
  <2> QED BY <2>1 DEF Numbering, NumberNamesOne
<1> QED BY <1>1, <1>2

(***************************************************************************)
(* Types, and where the processes are: what a holder has in hand, and that *)
(* the ids of a listing and those of uploads stay apart.                   *)
(***************************************************************************)
Places ==
  /\ manual => pc \in {"numbering", "archiving", "fetched", "archived"}
  /\ pc = "numbering" /\ manual => hand \in Source
  /\ pc \in {"archiving", "fetched", "archived"} => batch \subseteq Source
  /\ pc = "fetched" => hand \in Source
  /\ pc \in {"archived", "published"} => hand \in Ids
  /\ read # "gone" => pc \in {"draining", "published"} /\ hand # NoId
  /\ importer.at # "none" => importer.id \in Upload

\* NumberNamesOne is not inductive: the counter stays above every number that
\* is stored and every number that was ever given out, and whatever is stored
\* was given out to that recording.
TypesAndPlaces == TypeOK /\ Places /\ Numbering

LEMMA RowsInTypeOK == TypeOK => recordings \in [Ids -> Row]
BY DEF TypeOK, Row

LEMMA Counted ==
  /\ TypeOK /\ Fault => faults' \in 0 .. MaxFaults
  /\ TypeOK /\ runs < MaxManual => runs + 1 \in 0 .. MaxManual
<1>1. TypeOK => faults \in 0 .. MaxFaults /\ runs \in 0 .. MaxManual
  BY Zenon DEF TypeOK
<1>2. MaxFaults \in Nat /\ MaxManual \in Nat
  BY LifecycleAssumption
<1> QED BY <1>1, <1>2 DEF Fault

LEMMA InitPlaces == Init => TypesAndPlaces
<1> SUFFICES ASSUME Init PROVE TypesAndPlaces
  OBVIOUS
<1>1. recordings \in [Ids -> Row] /\ \A r \in Ids : recordings[r].recording_number = 0
  BY NoRowTyped DEF Init
<1>2. TypeOK
  <2>1. Idle \in [at : {"none", "numbering", "persisted"}, id : Ids \cup {NoId},
                  todo : SUBSET Ids]
    BY DEF Idle
  <2>2. 0 \in 0 .. MaxFaults /\ 0 \in 0 .. MaxManual
    BY LifecycleAssumption
  <2>3. recordings \in [Ids -> [present : BOOLEAN, archived : BOOLEAN,
                             recording_number : Nat, plaud : BOOLEAN, asr : BOOLEAN]]
    BY <1>1, Zenon DEF Row
  <2>4. manual \in BOOLEAN /\ importer = Idle /\ faults = 0 /\ runs = 0
    BY Zenon DEF Init
  <2>5. /\ tombstones \subseteq Ids /\ audio \subseteq Ids /\ batch \subseteq Ids
        /\ recordings_fts \in [Ids -> {"absent", "", "plaud", "local"}]
        /\ jobs \in [Ids -> {"absent", "queued", "processing", "done", "failed"}]
        /\ plaud_reviews \in [Ids -> {"none", "plaud", "local"}]
        /\ deleting \in [Ids -> {"no", "checked", "committed"}]
        /\ next_number \in Nat \ {0} /\ issued \subseteq (Nat \ {0}) \X Ids
        /\ offered \subseteq Source
    BY DEF Init
  <2>6. /\ pc = "down" /\ hand = NoId /\ read = "gone"
    BY DEF Init
  <2> QED BY <2>1, <2>2, <2>3, <2>4, <2>5, <2>6 DEF TypeOK
<1>3. Places
  BY DEF Init, Places, Idle
<1>4. Numbering
  BY <1>1 DEF Init, Numbering, NumberNamesOne
<1> QED BY <1>2, <1>3, <1>4 DEF TypesAndPlaces

\* The steps that leave rows, their text and their numbers alone.
LEMMA QuietStep ==
  ASSUME TypesAndPlaces,
         UNCHANGED <<recordings, numbers>>,
         TypeOK', Places'
  PROVE  TypesAndPlaces'
BY DEF TypesAndPlaces, Numbering, NumberNamesOne, numbers

LEMMA HolderQuiet ==
  ASSUME TypesAndPlaces,
         \/ Start \/ BeginPass \/ TakeSnapshot \/ EndSync \/ SyncFails
         \/ Reconcile \/ BeginDrain \/ Complete \/ EndPass
         \/ HandlerRaises \/ Crash
         \/ \E r \in Ids : Fetch(r) \/ FetchFails(r) \/ Adopt(r) \/ Claim(r)
         \/ \E r \in Source : BeginManual(r)
  PROVE  TypesAndPlaces'
<1> USE DEF TypesAndPlaces, TypeOK, Places, vars, rows, index, numbers, turn, holder
<1>1. CASE Start
  BY <1>1, QuietStep DEF Start
<1>2. CASE BeginPass
  BY <1>2, QuietStep DEF BeginPass, unnumbered_ids
<1>3. CASE TakeSnapshot
  <2>1. batch' \subseteq Source
    <3>1. pc = "numbering" /\ batch' = IF manual THEN {hand} ELSE (Source \ have) \ tombstones
      BY <1>3, Zenon DEF TakeSnapshot
    <3>2. manual => hand \in Source
      BY <3>1
    <3>3. CASE manual
      BY <3>1, <3>2, <3>3, Zenon
    <3>4. CASE ~manual
      BY <3>1, <3>4, Zenon
    <3> QED BY <3>3, <3>4
  <2>2. batch' \subseteq Ids
    BY <2>1 DEF Ids
  <2> QED BY <1>3, <2>1, <2>2, QuietStep DEF TakeSnapshot
<1>4. CASE EndSync
  BY <1>4, QuietStep DEF EndSync
<1>5. CASE SyncFails
  BY <1>5, QuietStep, Counted DEF SyncFails
<1>6. CASE Reconcile
  <2>1. jobs' \in [Ids -> {"absent", "queued", "processing", "done", "failed"}]
    <3>1. PICK revived : jobs' = [r \in Ids |-> IF r \in revived THEN "queued" ELSE jobs[r]]
      BY <1>6, Zenon DEF Reconcile
    <3>2. jobs \in [Ids -> {"absent", "queued", "processing", "done", "failed"}]
      OBVIOUS
    <3> QED BY <3>1, <3>2, Zenon
  <2>2. batch' \subseteq Ids
    BY <1>6 DEF Reconcile, Adoptable, have
  <2>a. TypeOK'
    BY <1>6, <2>1, <2>2, Zenon DEF Reconcile
  <2>b. Places' /\ UNCHANGED <<recordings, numbers>>
    BY <1>6 DEF Reconcile, Adoptable, have
  <2> QED BY <2>a, <2>b, QuietStep
<1>7. CASE BeginDrain
  BY <1>7, QuietStep DEF BeginDrain
<1>8. CASE Complete
  BY <1>8, QuietStep DEF Complete
<1>9. CASE EndPass
  BY <1>9, QuietStep DEF EndPass
<1>10. CASE HandlerRaises
  <2>1. faults' \in 0 .. MaxFaults
    BY <1>10, Counted DEF HandlerRaises
  <2>2. jobs' \in [Ids -> {"absent", "queued", "processing", "done", "failed"}]
    BY <1>10 DEF HandlerRaises
  <2>a. TypeOK'
    BY <1>10, <2>1, <2>2, Zenon DEF HandlerRaises
  <2>b. Places' /\ UNCHANGED <<recordings, numbers>>
    BY <1>10 DEF HandlerRaises
  <2> QED BY <2>a, <2>b, QuietStep
<1>11. CASE Crash
  BY <1>11, QuietStep, Counted DEF Crash
<1>12. ASSUME NEW r \in Ids, Fetch(r) PROVE TypesAndPlaces'
  BY <1>12, QuietStep DEF Fetch, Ids
<1>13. ASSUME NEW r \in Ids, FetchFails(r) PROVE TypesAndPlaces'
  BY <1>13, QuietStep, Counted DEF FetchFails
<1>14. ASSUME NEW r \in Ids, Adopt(r) PROVE TypesAndPlaces'
  BY <1>14, QuietStep DEF Adopt
<1>15. ASSUME NEW r \in Ids, Claim(r) PROVE TypesAndPlaces'
  BY <1>15, QuietStep, LifecycleAssumption DEF Claim, Ids
<1>16. ASSUME NEW r \in Source, BeginManual(r) PROVE TypesAndPlaces'
  BY <1>16, QuietStep, Counted DEF BeginManual, unnumbered_ids, Ids
<1> QED
  BY <1>1, <1>2, <1>3, <1>4, <1>5, <1>6, <1>7, <1>8, <1>9, <1>10, <1>11,
     <1>12, <1>13, <1>14, <1>15, <1>16

LEMMA AllocatingStep ==
  ASSUME TypesAndPlaces,
         \/ NumberRow \/ ImportNumber
         \/ \E r \in Ids : BackfillOne(r) \/ ImportBackfillOne(r)
  PROVE  TypesAndPlaces'
<1> DEFINE Numbered == \E r \in Ids : Allocate(r)
<1>1. ASSUME Numbered
      PROVE  /\ recordings' \in [Ids -> Row] /\ next_number' \in Nat \ {0}
             /\ issued' \subseteq (Nat \ {0}) \X Ids /\ Numbering'
  BY <1>1, AllocateStep, RowsInTypeOK DEF TypesAndPlaces, TypeOK
<1>2. CASE NumberRow
  <2>1. hand \in Ids
    BY <1>2 DEF TypesAndPlaces, Places, NumberRow
  <2>2. Numbered
    BY <1>2, <2>1 DEF NumberRow
  <2> HIDE DEF Numbered
  <2> QED BY <1>2, <1>1, <2>2 DEF TypesAndPlaces, TypeOK, Places, NumberRow, index, turn, Row
<1>3. CASE ImportNumber
  <2>1. importer.id \in Ids /\ Idle.at = "none"
    BY <1>3 DEF TypesAndPlaces, Places, ImportNumber, Ids, Idle
  <2>2. Numbered
    BY <1>3, <2>1 DEF ImportNumber
  <2>3. Idle \in [at : {"none", "numbering", "persisted"}, id : Ids \cup {NoId},
                  todo : SUBSET Ids]
    BY DEF Idle
  <2> HIDE DEF Numbered
  <2> QED BY <1>3, <1>1, <2>1, <2>2, <2>3
          DEF TypesAndPlaces, TypeOK, Places, ImportNumber, index, holder, turn, Row
<1>4. ASSUME NEW r \in Ids, BackfillOne(r) PROVE TypesAndPlaces'
  <2>1. Numbered
    BY <1>4 DEF BackfillOne
  <2> HIDE DEF Numbered
  <2> QED BY <1>4, <1>1, <2>1 DEF TypesAndPlaces, TypeOK, Places, BackfillOne, index, turn, Row
<1>5. ASSUME NEW r \in Ids, ImportBackfillOne(r) PROVE TypesAndPlaces'
  <2>1. Numbered
    BY <1>5 DEF ImportBackfillOne
  <2> HIDE DEF Numbered
  <2> QED BY <1>5, <1>1, <2>1
          DEF TypesAndPlaces, TypeOK, Places, ImportBackfillOne, index, holder, turn, Row
<1> QED BY <1>2, <1>3, <1>4, <1>5

\* A row that is rewritten keeps its number or loses it.
LEMMA RewrittenNumbers ==
  ASSUME TypesAndPlaces, NEW r \in Ids, NEW row \in Row,
         recordings' = [recordings EXCEPT ![r] = row],
         row.recording_number \in {0, recordings[r].recording_number},
         UNCHANGED numbers
  PROVE  Numbering' /\ recordings' \in [Ids -> Row]
<1>1. recordings \in [Ids -> Row]
  BY RowsInTypeOK DEF TypesAndPlaces
<1>2. recordings' \in [Ids -> Row]
  BY <1>1
<1>3. next_number \in Nat \ {0}
  BY Zenon DEF TypesAndPlaces, TypeOK
<1>4. \A q \in Ids : recordings'[q].recording_number < next_number'
  BY <1>1, <1>3 DEF TypesAndPlaces, Numbering, numbers, Row
<1>5. issued' = issued /\ next_number' = next_number
  BY DEF numbers
<1>6. \A q \in Ids : recordings'[q].recording_number # 0 =>
                       <<recordings'[q].recording_number, q>> \in issued'
  BY <1>1, <1>5 DEF TypesAndPlaces, Numbering, Row
<1> QED BY <1>2, <1>4, <1>5, <1>6 DEF TypesAndPlaces, Numbering, NumberNamesOne

LEMMA LocalRow ==
  ASSUME TypesAndPlaces, hand \in Ids, Local
  PROVE  \E row \in Row :
           /\ recordings' = [recordings EXCEPT ![hand] = row]
           /\ row.recording_number = recordings[hand].recording_number
           /\ row.present = recordings[hand].present
           /\ row.asr
<1> DEFINE row == [recordings[hand] EXCEPT !.asr = TRUE]
<1>1. recordings \in [Ids -> Row]
  BY RowsInTypeOK DEF TypesAndPlaces
<1>2. row \in Row /\ row.recording_number = recordings[hand].recording_number
      /\ row.present = recordings[hand].present /\ row.asr
  BY <1>1 DEF Row
<1>3. recordings' = [recordings EXCEPT ![hand] = row]
  BY Zenon DEF Local
<1> HIDE DEF row
<1> QED BY <1>2, <1>3

LEMMA RewritingStep ==
  ASSUME TypesAndPlaces,
         \/ ArchiveRow \/ Publish \/ persist
         \/ \E r \in Ids : SetArchived(r) \/ DeleteCommit(r)
  PROVE  TypesAndPlaces'
<1>0. recordings \in [Ids -> Row]
  BY RowsInTypeOK DEF TypesAndPlaces
<1>1. CASE ArchiveRow
  <2>1. hand \in Source /\ hand \in Ids
    BY <1>1 DEF TypesAndPlaces, Places, ArchiveRow, Ids
  <2>2. PICK plaud \in BOOLEAN :
          /\ recordings' = [recordings EXCEPT ![hand] = Upserted(hand, plaud)]
          /\ recordings_fts' = [recordings_fts EXCEPT ![hand] = Indexed(Upserted(hand, plaud))]
          /\ jobs' = IF hand \in audio THEN Enqueued(hand, Upserted(hand, plaud)) ELSE jobs
    BY <1>1, Zenon DEF ArchiveRow
  <2> DEFINE row == Upserted(hand, plaud)
  <2>3. /\ row \in Row
        /\ row.recording_number = recordings[hand].recording_number
        /\ Indexed(row) \in {"", "plaud", "local"}
    BY <1>0, <2>1, UpsertedTyped, ShownTyped DEF Indexed
  <2> HIDE DEF row
  <2>4. Numbering' /\ recordings' \in [Ids -> Row]
    <3>1. recordings' = [recordings EXCEPT ![hand] = row]
      BY <2>2 DEF row
    <3>2. UNCHANGED numbers
      BY <1>1, Zenon DEF ArchiveRow
    <3> QED BY <2>1, <2>3, <3>1, <3>2, RewrittenNumbers
  <2>5. Enqueued(hand, row) \in [Ids -> {"absent", "queued", "processing", "done", "failed"}]
    BY <2>1 DEF Enqueued, TypesAndPlaces, TypeOK
  <2>6. /\ jobs' \in [Ids -> {"absent", "queued", "processing", "done", "failed"}]
        /\ recordings_fts' \in [Ids -> {"absent", "", "plaud", "local"}]
    <3>1. jobs' \in {Enqueued(hand, row), jobs}
      BY <2>2, Zenon DEF row
    <3>2. recordings_fts' = [recordings_fts EXCEPT ![hand] = Indexed(row)]
      BY <2>2 DEF row
    <3> QED BY <2>1, <2>3, <2>5, <3>1, <3>2 DEF TypesAndPlaces, TypeOK
  <2>7. /\ pc = "fetched" /\ pc' = "archived"
        /\ UNCHANGED <<tombstones, plaud_reviews, audio, numbers, batch, hand, turn,
                       importer, deleting, faults, offered, runs>>
    BY <1>1, Zenon DEF ArchiveRow
  <2> QED
    BY <2>1, <2>4, <2>6, <2>7
    DEF TypesAndPlaces, TypeOK, Places, turn, numbers, Row
<1>2. CASE Publish
  <2>1. hand \in Ids
    BY <1>2 DEF Publish, TypesAndPlaces, TypeOK
  <2>2. recordings' = recordings \/ Local
    BY <1>2 DEF Publish
  <2>3. UNCHANGED numbers
    BY <1>2 DEF Publish
  <2>4. Numbering' /\ recordings' \in [Ids -> Row]
    <3>1. CASE recordings' = recordings
      BY <1>0, <2>3, <3>1 DEF TypesAndPlaces, Numbering, NumberNamesOne, numbers
    <3>2. CASE Local
      BY <2>1, <2>3, <3>2, LocalRow, RewrittenNumbers
    <3> QED BY <2>2, <3>1, <3>2
  <2>5. /\ recordings_fts' \in [Ids -> {"absent", "", "plaud", "local"}]
        /\ plaud_reviews' \in [Ids -> {"none", "plaud", "local"}]
    <3>1. \/ /\ recordings_fts' = [recordings_fts EXCEPT ![hand] = "local"]
             /\ plaud_reviews' = plaud_reviews
          \/ \E chosen \in {"plaud", "local"} :
               /\ recordings_fts' = [recordings_fts EXCEPT ![hand] = chosen]
               /\ plaud_reviews' = [plaud_reviews EXCEPT ![hand] = chosen]
      BY <1>2, Zenon DEF Publish
    <3>2. /\ recordings_fts \in [Ids -> {"absent", "", "plaud", "local"}]
          /\ plaud_reviews \in [Ids -> {"none", "plaud", "local"}]
      BY Zenon DEF TypesAndPlaces, TypeOK
    <3> QED BY <2>1, <3>1, <3>2
  <2>6. /\ pc = "draining" /\ pc' = "published" /\ hand # NoId
        /\ UNCHANGED <<tombstones, jobs, audio, numbers, batch, hand, turn, importer,
                       deleting, faults, offered, runs>>
    BY <1>2, Zenon DEF Publish
  <2> QED
    BY <2>1, <2>4, <2>5, <2>6
    DEF TypesAndPlaces, TypeOK, Places, turn, numbers, Row
<1>3. CASE persist
  <2> DEFINE u == importer.id  row == Upserted(u, FALSE)
  <2>1. u \in Upload /\ u \in Ids
    BY <1>3 DEF TypesAndPlaces, Places, persist, Ids
  <2>2. row \in Row /\ row.recording_number = recordings[u].recording_number
    BY <1>0, <2>1, UpsertedTyped
  <2>3. /\ recordings' = [recordings EXCEPT ![u] = row]
        /\ recordings_fts' = [recordings_fts EXCEPT ![u] = ""]
        /\ jobs' = Enqueued(u, row)
    BY <1>3, Zenon DEF persist
  <2> HIDE DEF u, row
  <2>4. Numbering' /\ recordings' \in [Ids -> Row]
    BY <1>3, <2>1, <2>2, <2>3, RewrittenNumbers DEF persist
  <2>5. /\ jobs' \in [Ids -> {"absent", "queued", "processing", "done", "failed"}]
        /\ recordings_fts' \in [Ids -> {"absent", "", "plaud", "local"}]
    BY <2>1, <2>3 DEF Enqueued, TypesAndPlaces, TypeOK
  <2>6. importer' \in [at : {"none", "numbering", "persisted"}, id : Ids \cup {NoId},
                       todo : SUBSET Ids]
        /\ importer'.id = u
    BY <1>3 DEF persist, TypesAndPlaces, TypeOK, u
  <2>7. UNCHANGED <<tombstones, plaud_reviews, audio, numbers, holder, deleting,
                    faults, offered, runs>>
    BY <1>3, Zenon DEF persist
  <2> QED
    BY <2>1, <2>4, <2>5, <2>6, <2>7
    DEF TypesAndPlaces, TypeOK, Places, holder, turn, numbers, Row
<1>4. ASSUME NEW r \in Ids, SetArchived(r) PROVE TypesAndPlaces'
  <2> DEFINE row == [recordings[r] EXCEPT !.archived = ~@]
  <2>1. row \in Row /\ row.recording_number = recordings[r].recording_number
    BY <1>0 DEF Row
  <2>2. recordings' = [recordings EXCEPT ![r] = row]
    BY <1>4, Zenon DEF SetArchived
  <2> HIDE DEF row
  <2>3. Numbering' /\ recordings' \in [Ids -> Row]
    BY <1>4, <2>1, <2>2, RewrittenNumbers DEF SetArchived
  <2>4. UNCHANGED <<tombstones, index, jobs, audio, numbers, holder, importer,
                    deleting, faults, offered, runs>>
    BY <1>4, Zenon DEF SetArchived
  <2> QED
    BY <2>3, <2>4
    DEF TypesAndPlaces, TypeOK, Places, holder, turn, index, numbers, Row
<1>5. ASSUME NEW r \in Ids, DeleteCommit(r) PROVE TypesAndPlaces'
  <2>1. Numbering' /\ recordings' \in [Ids -> Row]
    BY <1>5, NoRowTyped, RewrittenNumbers DEF DeleteCommit
  <2>2. /\ tombstones' \subseteq Ids
        /\ recordings_fts' \in [Ids -> {"absent", "", "plaud", "local"}]
        /\ plaud_reviews' \in [Ids -> {"none", "plaud", "local"}]
        /\ jobs' \in [Ids -> {"absent", "queued", "processing", "done", "failed"}]
        /\ deleting' \in [Ids -> {"no", "checked", "committed"}]
    BY <1>5 DEF DeleteCommit, TypesAndPlaces, TypeOK
  <2>3. UNCHANGED <<audio, numbers, holder, importer, faults, offered, runs>>
    BY <1>5, Zenon DEF DeleteCommit
  <2> QED
    BY <2>1, <2>2, <2>3
    DEF TypesAndPlaces, TypeOK, Places, holder, turn, numbers, Row
<1> QED BY <1>1, <1>2, <1>3, <1>4, <1>5

LEMMA OtherQuiet ==
  ASSUME TypesAndPlaces,
         \/ ImportDies
         \/ \E u \in Upload : NormalizeAudio(u)
         \/ \E r \in Ids : DeleteCheck(r) \/ _cleanup_local(r)
  PROVE  TypesAndPlaces'
<1> USE DEF TypesAndPlaces, TypeOK, Places, rows, index, numbers, turn, holder
<1>1. CASE ImportDies
  <2>1. Idle.at = "none" /\ Idle \in [at : {"none", "numbering", "persisted"},
                                      id : Ids \cup {NoId}, todo : SUBSET Ids]
    BY DEF Idle
  <2> QED BY <1>1, <2>1, QuietStep, Counted DEF ImportDies
<1>2. ASSUME NEW u \in Upload, NormalizeAudio(u) PROVE TypesAndPlaces'
  BY <1>2, QuietStep DEF NormalizeAudio, unnumbered_ids, Ids
<1>3. ASSUME NEW r \in Ids, DeleteCheck(r) PROVE TypesAndPlaces'
  <2>a. TypeOK'
    BY <1>3 DEF DeleteCheck
  <2>b. Places' /\ UNCHANGED <<recordings, numbers>>
    BY <1>3 DEF DeleteCheck
  <2> QED BY <2>a, <2>b, QuietStep
<1>4. ASSUME NEW r \in Ids, _cleanup_local(r) PROVE TypesAndPlaces'
  <2>a. TypeOK'
    BY <1>4 DEF _cleanup_local
  <2>b. Places' /\ UNCHANGED <<recordings, numbers>>
    BY <1>4 DEF _cleanup_local
  <2> QED BY <2>a, <2>b, QuietStep
<1> QED BY <1>1, <1>2, <1>3, <1>4

LEMMA PlacesStep == TypesAndPlaces /\ [Next]_vars => TypesAndPlaces'
<1> SUFFICES ASSUME TypesAndPlaces, [Next]_vars PROVE TypesAndPlaces'
  OBVIOUS
<1>1. CASE Next
  BY <1>1, HolderQuiet, AllocatingStep, RewritingStep, OtherQuiet, Zenon
  DEF Next, Work, Control, Import
<1>2. CASE UNCHANGED vars
  <2>1. TypeOK' /\ Places'
    BY <1>2 DEF TypesAndPlaces, TypeOK, Places, vars, rows, index, numbers, turn, holder
  <2> QED BY <1>2, <2>1, QuietStep DEF vars, rows
<1> QED BY <1>1, <1>2

(* The search index *)

(***************************************************************************)
(* SearchAgrees is not inductive either: a text that is published late, or *)
(* over a fresh import, agrees only because the publisher's claim died     *)
(* with the row it belonged to and an importer's row is a new one.         *)
(***************************************************************************)
Published ==
  pc = "draining" /\ read # "gone" /\ jobs[hand] = "processing" => Present(hand)

Indexing ==
  /\ SearchAgrees
  /\ \A r \in Ids : ~Present(r) => recordings[r] = NoRow
  /\ importer.at = "numbering" => ~Present(importer.id)
  /\ Published

LifecycleInv == TypesAndPlaces /\ Indexing

LEMMA InitIndexing == Init => Indexing
<1> SUFFICES ASSUME Init PROVE Indexing
  OBVIOUS
<1>1. \A r \in Ids : recordings[r] = NoRow /\ recordings_fts[r] = "absent"
  BY DEF Init
<1>2. \A r \in Ids : ~Present(r)
  BY <1>1, NoRowTyped DEF Present
<1>3. importer.at = "none" /\ pc = "down"
  BY DEF Init, Idle
<1> QED BY <1>1, <1>2, <1>3 DEF Indexing, SearchAgrees, Published

\* What the index says of a recording depends on four columns of it.
LEMMA IndexKept ==
  ASSUME TypesAndPlaces, Indexing, recordings' \in [Ids -> Row],
         \A r \in Ids : /\ recordings'[r].present = recordings[r].present
                        /\ recordings'[r].plaud = recordings[r].plaud
                        /\ recordings'[r].asr = recordings[r].asr,
         \A r \in Ids : ~Present(r) => recordings'[r] = recordings[r],
         UNCHANGED index
  PROVE  /\ SearchAgrees'
         /\ \A r \in Ids : ~Present(r)' => recordings'[r] = NoRow
         /\ \A r \in Ids : Present(r)' = Present(r)
<1>1. \A r \in Ids : Present(r)' = Present(r)
  BY DEF Present
<1>2. \A r \in Ids : Shown(recordings'[r]) = Shown(recordings[r])
  BY DEF Shown
<1>3. recordings_fts' = recordings_fts /\ plaud_reviews' = plaud_reviews
  BY DEF index
<1> QED BY <1>1, <1>2, <1>3 DEF Indexing, SearchAgrees

LEMMA IndexQuiet ==
  ASSUME LifecycleInv, TypesAndPlaces', UNCHANGED <<recordings, index>>,
         importer' = importer \/ importer'.at # "numbering" \/ ~Present(importer'.id),
         Published'
  PROVE  Indexing'
BY DEF LifecycleInv, Indexing, SearchAgrees, Present, index

LEMMA HolderIndexing ==
  ASSUME LifecycleInv, TypesAndPlaces',
         \/ Start \/ BeginPass \/ TakeSnapshot \/ EndSync \/ SyncFails
         \/ Reconcile \/ BeginDrain \/ Complete \/ EndPass
         \/ HandlerRaises \/ Crash
         \/ \E r \in Ids : Fetch(r) \/ FetchFails(r) \/ Adopt(r) \/ Claim(r)
         \/ \E r \in Source : BeginManual(r)
  PROVE  Indexing'
<1>1. UNCHANGED <<recordings, index, importer>>
  BY Zenon DEF Start, BeginPass, TakeSnapshot, EndSync, SyncFails, Reconcile, BeginDrain,
     Complete, EndPass, HandlerRaises, Crash, Fetch, FetchFails, Adopt, Claim,
     BeginManual, rows, index
<1>2. \/ pc' # "draining" \/ read' = "gone" \/ \E r \in Ids : Claim(r)
  <2>1. CASE \/ Start \/ BeginPass \/ TakeSnapshot \/ EndSync \/ SyncFails
             \/ Reconcile \/ EndPass \/ Crash \/ Complete \/ HandlerRaises
    BY <2>1 DEF Start, BeginPass, TakeSnapshot, EndSync, SyncFails, Reconcile, EndPass,
       Crash, Complete, HandlerRaises
  <2>2. CASE BeginDrain
    BY <2>2 DEF BeginDrain, LifecycleInv, TypesAndPlaces, Places, turn
  <2>3. CASE \/ \E r \in Ids : Fetch(r) \/ FetchFails(r) \/ Adopt(r)
             \/ \E r \in Source : BeginManual(r)
    BY <2>3 DEF Fetch, FetchFails, Adopt, BeginManual
  <2> QED BY <2>1, <2>2, <2>3
<1>3. ASSUME NEW r \in Ids, Claim(r) PROVE Published'
  <2>1. hand' = r /\ (read' # "gone" => r \in have)
    BY <1>3 DEF Claim
  <2>2. r \in have => Present(r)
    BY DEF have
  <2>3. Present(r)' = Present(r)
    BY <1>1 DEF Present
  <2> QED BY <2>1, <2>2, <2>3 DEF Published, Present
<1>4. Published'
  BY <1>2, <1>3 DEF Published
<1> QED BY <1>1, <1>4, IndexQuiet

LEMMA OtherIndexing ==
  ASSUME LifecycleInv, TypesAndPlaces',
         \/ ImportDies
         \/ \E u \in Upload : NormalizeAudio(u)
         \/ \E r \in Ids : DeleteCheck(r) \/ _cleanup_local(r)
  PROVE  Indexing'
<1>1. UNCHANGED <<recordings, index, jobs, pc, hand, read>>
  BY Zenon DEF ImportDies, NormalizeAudio, DeleteCheck, _cleanup_local, rows, index,
     holder, turn
<1>2. Published'
  BY <1>1 DEF LifecycleInv, Indexing, Published, Present
<1>3. importer' = importer \/ importer'.at # "numbering" \/ ~Present(importer'.id)
  <2>1. CASE ImportDies
    BY <2>1 DEF ImportDies, Idle
  <2>2. CASE \E u \in Upload : NormalizeAudio(u)
    BY <2>2 DEF NormalizeAudio
  <2>3. CASE \E r \in Ids : DeleteCheck(r) \/ _cleanup_local(r)
    BY <2>3 DEF DeleteCheck, _cleanup_local
  <2> QED BY <2>1, <2>2, <2>3
<1> QED BY <1>1, <1>2, <1>3, IndexQuiet

LEMMA AllocatingIndexing ==
  ASSUME LifecycleInv, TypesAndPlaces',
         \/ NumberRow \/ ImportNumber
         \/ \E r \in Ids : BackfillOne(r) \/ ImportBackfillOne(r)
  PROVE  Indexing'
<1>1. \E r \in Ids : Allocate(r)
  BY DEF LifecycleInv, TypesAndPlaces, Places, NumberRow, ImportNumber, BackfillOne,
     ImportBackfillOne, Ids
<1>2. /\ \A q \in Ids : /\ recordings'[q].present = recordings[q].present
                        /\ recordings'[q].plaud = recordings[q].plaud
                        /\ recordings'[q].asr = recordings[q].asr
      /\ \A q \in Ids : ~Present(q) => recordings'[q] = recordings[q]
      /\ recordings' \in [Ids -> Row]
  BY <1>1, AllocateStep, RowsInTypeOK DEF LifecycleInv, TypesAndPlaces, TypeOK
<1>3. UNCHANGED <<index, jobs>>
  BY Zenon DEF NumberRow, ImportNumber, BackfillOne, ImportBackfillOne
<1>4. /\ SearchAgrees'
      /\ \A r \in Ids : ~Present(r)' => recordings'[r] = NoRow
      /\ \A r \in Ids : Present(r)' = Present(r)
  BY <1>2, <1>3, IndexKept DEF LifecycleInv
<1>5. importer'.at = "numbering" => importer.at = "numbering" /\ importer'.id = importer.id
  <2>1. importer \in [at : {"none", "numbering", "persisted"}, id : Ids \cup {NoId},
                     todo : SUBSET Ids]
    BY Zenon DEF LifecycleInv, TypesAndPlaces, TypeOK
  <2>2. CASE NumberRow \/ \E r \in Ids : BackfillOne(r)
    BY <2>2 DEF NumberRow, BackfillOne
  <2>3. CASE ImportNumber
    BY <2>3 DEF ImportNumber, Idle
  <2>4. CASE \E r \in Ids : ImportBackfillOne(r)
    BY <2>1, <2>4 DEF ImportBackfillOne
  <2> QED BY <2>2, <2>3, <2>4
<1>6. importer.at = "numbering" => importer.id \in Ids
  BY DEF LifecycleInv, TypesAndPlaces, Places, Ids
<1>7. importer'.at = "numbering" => ~Present(importer.id)'
  BY <1>4, <1>5, <1>6 DEF LifecycleInv, Indexing, Present
<1>8. pc' # "draining" \/ UNCHANGED <<pc, hand, read>>
  BY DEF NumberRow, ImportNumber, BackfillOne, ImportBackfillOne, holder, turn
<1>9. Published'
  <2>1. read # "gone" => hand \in Ids
    BY DEF LifecycleInv, TypesAndPlaces, TypeOK, Places
  <2> QED BY <1>3, <1>4, <1>8, <2>1 DEF LifecycleInv, Indexing, Published, Present
<1> QED BY <1>4, <1>7, <1>9 DEF Indexing

\* One recording's row and index entry are replaced together.
LEMMA IndexReplaced ==
  ASSUME LifecycleInv, NEW r \in Ids, NEW row \in Row,
         recordings' = [recordings EXCEPT ![r] = row],
         \A q \in Ids \ {r} : /\ recordings_fts'[q] = recordings_fts[q]
                              /\ plaud_reviews'[q] = plaud_reviews[q],
         IF row.present THEN recordings_fts'[r] \in {Shown(row), plaud_reviews'[r]}
         ELSE row = NoRow /\ recordings_fts'[r] = "absent"
  PROVE  /\ SearchAgrees'
         /\ \A q \in Ids : ~Present(q)' => recordings'[q] = NoRow
         /\ \A q \in Ids \ {r} : Present(q)' = Present(q)
         /\ Present(r)' = row.present
<1>1. recordings \in [Ids -> Row]
  BY RowsInTypeOK DEF LifecycleInv, TypesAndPlaces
<1>2. recordings'[r] = row /\ \A q \in Ids \ {r} : recordings'[q] = recordings[q]
  BY <1>1
<1>3. \A q \in Ids : ~Present(q)' => recordings'[q] = NoRow
  BY <1>2 DEF LifecycleInv, Indexing, Present
<1>4. ASSUME NEW q \in Ids
      PROVE  IF Present(q)' THEN recordings_fts'[q] \in {Shown(recordings'[q]), plaud_reviews'[q]}
             ELSE recordings_fts'[q] = "absent"
  <2>1. CASE q = r
    BY <1>2, <2>1 DEF Present
  <2>2. CASE q # r
    BY <1>2, <2>2 DEF LifecycleInv, Indexing, SearchAgrees, Present
  <2> QED BY <2>1, <2>2
<1>5. SearchAgrees'
  BY <1>4 DEF SearchAgrees
<1> QED BY <1>2, <1>3, <1>5 DEF Present

LEMMA HandInIds ==
  LifecycleInv => /\ read # "gone" => hand \in Ids
                  /\ importer.at # "none" => importer.id \in Ids
BY DEF LifecycleInv, TypesAndPlaces, TypeOK, Places, Ids

LEMMA TablesTyped ==
  LifecycleInv => /\ recordings_fts \in [Ids -> {"absent", "", "plaud", "local"}]
                  /\ plaud_reviews \in [Ids -> {"none", "plaud", "local"}]
                  /\ jobs \in [Ids -> {"absent", "queued", "processing", "done", "failed"}]
BY Zenon DEF LifecycleInv, TypesAndPlaces, TypeOK

LEMMA PublishIndexing ==
  ASSUME LifecycleInv, TypesAndPlaces', Publish
  PROVE  Indexing'
<1>1. /\ pc = "draining" /\ pc' = "published" /\ hand # NoId /\ Claimed(hand)
      /\ UNCHANGED importer
  BY Zenon DEF Publish
<1>2. hand \in Ids
  BY <1>1 DEF LifecycleInv, TypesAndPlaces, TypeOK
<1>3. recordings \in [Ids -> Row] /\ recordings_fts \in [Ids -> {"absent", "", "plaud", "local"}]
      /\ plaud_reviews \in [Ids -> {"none", "plaud", "local"}]
  BY RowsInTypeOK, Zenon DEF LifecycleInv, TypesAndPlaces, TypeOK
<1>4. \A row \in Row : row.asr => Shown(row) = "local"
  BY Zenon DEF Shown
<1>5. read # "gone" => Present(hand)
  BY <1>1 DEF LifecycleInv, Indexing, Published, Claimed
<1>6. CASE /\ read = "bare" /\ Present(hand) /\ Local
           /\ recordings_fts' = [recordings_fts EXCEPT ![hand] = "local"]
           /\ UNCHANGED plaud_reviews
  <2>1. PICK row \in Row : /\ recordings' = [recordings EXCEPT ![hand] = row]
                           /\ row.present = recordings[hand].present /\ row.asr
    BY <1>2, <1>6, LocalRow DEF LifecycleInv
  <2>2. row.present /\ Shown(row) = "local"
    BY <1>4, <1>6, <2>1 DEF Present
  <2>3. recordings_fts'[hand] = "local"
        /\ \A q \in Ids \ {hand} : recordings_fts'[q] = recordings_fts[q]
    BY <1>2, <1>3, <1>6
  <2>4. /\ SearchAgrees'
        /\ \A q \in Ids : ~Present(q)' => recordings'[q] = NoRow
        /\ \A q \in Ids \ {hand} : Present(q)' = Present(q)
    BY <1>2, <1>6, <2>1, <2>2, <2>3, IndexReplaced
  <2>5. importer.at = "numbering" => importer.id # hand
    BY <1>6 DEF LifecycleInv, Indexing
  <2> QED BY <1>1, <2>4, <2>5, HandInIds DEF LifecycleInv, Indexing, Published, Present
<1>7. CASE \E chosen \in {"plaud", "local"} :
             /\ read = "plaud"
             /\ IF chosen = "local" THEN Present(hand) /\ Local ELSE UNCHANGED recordings
             /\ recordings_fts' = [recordings_fts EXCEPT ![hand] = chosen]
             /\ plaud_reviews' = [plaud_reviews EXCEPT ![hand] = chosen]
  <2>1. PICK chosen \in {"plaud", "local"} :
             /\ read = "plaud"
             /\ IF chosen = "local" THEN Present(hand) /\ Local ELSE UNCHANGED recordings
             /\ recordings_fts' = [recordings_fts EXCEPT ![hand] = chosen]
             /\ plaud_reviews' = [plaud_reviews EXCEPT ![hand] = chosen]
    BY <1>7, Zenon
  <2>2. recordings_fts'[hand] = chosen /\ plaud_reviews'[hand] = chosen
        /\ \A q \in Ids \ {hand} : /\ recordings_fts'[q] = recordings_fts[q]
                                   /\ plaud_reviews'[q] = plaud_reviews[q]
    BY <1>2, <1>3, <2>1
  <2>3. \E row \in Row : recordings' = [recordings EXCEPT ![hand] = row] /\ row.present
    <3>1. Present(hand)
      BY <1>5, <2>1
    <3>2. CASE Local
      <4>1. PICK row \in Row : /\ recordings' = [recordings EXCEPT ![hand] = row]
                               /\ row.present = recordings[hand].present
        BY <1>2, <3>2, LocalRow DEF LifecycleInv
      <4> QED BY <3>1, <4>1 DEF Present
    <3>3. CASE recordings' = recordings
      <4>1. recordings = [recordings EXCEPT ![hand] = recordings[hand]] /\ recordings[hand] \in Row
        BY <1>2, <1>3
      <4> QED BY <3>1, <3>3, <4>1 DEF Present
    <3> QED BY <2>1, <3>2, <3>3, Zenon
  <2>4. PICK row \in Row : recordings' = [recordings EXCEPT ![hand] = row] /\ row.present
    BY <2>3
  <2>5. /\ SearchAgrees'
        /\ \A q \in Ids : ~Present(q)' => recordings'[q] = NoRow
        /\ \A q \in Ids \ {hand} : Present(q)' = Present(q)
    BY <1>2, <2>2, <2>4, IndexReplaced
  <2>6. importer.at = "numbering" => importer.id # hand
    BY <1>5, <2>1 DEF LifecycleInv, Indexing
  <2> QED BY <1>1, <2>5, <2>6, HandInIds DEF LifecycleInv, Indexing, Published, Present
<1> QED BY <1>6, <1>7, Zenon DEF Publish

LEMMA ArchiveIndexing ==
  ASSUME LifecycleInv, TypesAndPlaces', ArchiveRow
  PROVE  Indexing'
<1>1. hand \in Source /\ hand \in Ids
  BY DEF LifecycleInv, TypesAndPlaces, Places, ArchiveRow, Ids
<1>2. PICK plaud \in BOOLEAN :
        /\ recordings' = [recordings EXCEPT ![hand] = Upserted(hand, plaud)]
        /\ recordings_fts' = [recordings_fts EXCEPT ![hand] = Indexed(Upserted(hand, plaud))]
  BY Zenon DEF ArchiveRow
<1> DEFINE row == Upserted(hand, plaud)
<1>3. row \in Row /\ row.present
  BY <1>1, UpsertedTyped, RowsInTypeOK DEF LifecycleInv, TypesAndPlaces
<1>4. recordings' = [recordings EXCEPT ![hand] = row]
      /\ recordings_fts' = [recordings_fts EXCEPT ![hand] = Shown(row)]
  BY <1>2 DEF Indexed
<1> HIDE DEF row
<1>5. recordings_fts'[hand] = Shown(row)
      /\ \A q \in Ids \ {hand} : recordings_fts'[q] = recordings_fts[q]
  BY <1>1, <1>4, TablesTyped
<1>6. plaud_reviews' = plaud_reviews /\ importer' = importer /\ pc' = "archived"
  BY Zenon DEF ArchiveRow
<1>7. /\ SearchAgrees'
      /\ \A q \in Ids : ~Present(q)' => recordings'[q] = NoRow
      /\ \A q \in Ids \ {hand} : Present(q)' = Present(q)
  BY <1>1, <1>3, <1>4, <1>5, <1>6, IndexReplaced
<1>8. importer.at = "numbering" => importer.id \in Ids \ {hand}
  BY <1>1, HandInIds, LifecycleAssumption DEF LifecycleInv, TypesAndPlaces, Places
<1> QED BY <1>6, <1>7, <1>8 DEF LifecycleInv, Indexing, Published, Present

LEMMA PersistIndexing ==
  ASSUME LifecycleInv, TypesAndPlaces', persist
  PROVE  Indexing'
<1> DEFINE u == importer.id  row == Upserted(u, FALSE)
<1>1. u \in Ids /\ ~Present(u)
  BY HandInIds DEF persist, LifecycleInv, Indexing
<1>2. row \in Row /\ row.present /\ row.asr = recordings[u].asr
  BY <1>1, UpsertedTyped, RowsInTypeOK DEF LifecycleInv, TypesAndPlaces
<1>3. ~row.plaud
  BY <1>1, RowsInTypeOK DEF Upserted, LifecycleInv, TypesAndPlaces, Row
<1>4. ~row.asr
  BY <1>1, <1>2, NoRowTyped DEF LifecycleInv, Indexing
<1>5. /\ recordings' = [recordings EXCEPT ![u] = row]
      /\ recordings_fts' = [recordings_fts EXCEPT ![u] = ""]
      /\ jobs' = Enqueued(u, row)
      /\ UNCHANGED <<plaud_reviews, holder>>
  BY Zenon DEF persist
<1>6. importer'.at = "persisted"
  BY DEF persist, LifecycleInv, TypesAndPlaces, TypeOK
<1>7. Shown(row) = ""
  BY <1>3, <1>4, Zenon DEF Shown
<1> HIDE DEF u, row
<1>8. recordings_fts'[u] = "" /\ \A q \in Ids \ {u} : recordings_fts'[q] = recordings_fts[q]
  BY <1>1, <1>5, TablesTyped
<1>9. /\ SearchAgrees'
      /\ \A q \in Ids : ~Present(q)' => recordings'[q] = NoRow
      /\ \A q \in Ids \ {u} : Present(q)' = Present(q)
      /\ recordings'[u].present
  <2>1. UNCHANGED plaud_reviews
    BY <1>5
  <2>2. recordings_fts'[u] \in {Shown(row), plaud_reviews'[u]}
    BY <1>7, <1>8
  <2>3. \A q \in Ids \ {u} : /\ recordings_fts'[q] = recordings_fts[q]
                            /\ plaud_reviews'[q] = plaud_reviews[q]
    BY <1>8, <2>1
  <2>4. recordings' = [recordings EXCEPT ![u] = row]
    BY <1>5
  <2>5. row \in Row /\ row.present
    BY <1>2
  <2>6. /\ SearchAgrees'
        /\ \A q \in Ids : ~Present(q)' => recordings'[q] = NoRow
        /\ \A q \in Ids \ {u} : Present(q)' = Present(q)
    BY <1>1, <2>2, <2>3, <2>4, <2>5, IndexReplaced
  <2>7. recordings'[u] = row
    BY <1>1, <2>4, RowsInTypeOK DEF LifecycleInv, TypesAndPlaces
  <2> QED BY <2>5, <2>6, <2>7
<1>10. \A q \in Ids : jobs'[q] = "processing" => jobs[q] = "processing"
  BY <1>1, <1>5, TablesTyped DEF Enqueued
<1>11. UNCHANGED <<pc, hand, read>>
  BY <1>5 DEF holder, turn
<1>12. Published'
  <2>1. \A q \in Ids : Present(q) => Present(q)'
    BY <1>9 DEF Present
  <2> QED BY <1>10, <1>11, <2>1, HandInIds DEF LifecycleInv, Indexing, Published, Present
<1> QED BY <1>6, <1>9, <1>12 DEF Indexing

LEMMA ControlIndexing ==
  ASSUME LifecycleInv, TypesAndPlaces', NEW r \in Ids, SetArchived(r) \/ DeleteCommit(r)
  PROVE  Indexing'
<1>0. recordings \in [Ids -> Row]
  BY RowsInTypeOK DEF LifecycleInv, TypesAndPlaces
<1>1. CASE SetArchived(r)
  <2> DEFINE row == [recordings[r] EXCEPT !.archived = ~@]
  <2>1. /\ row \in Row /\ row.present = recordings[r].present
        /\ row.plaud = recordings[r].plaud /\ row.asr = recordings[r].asr
    BY <1>0 DEF Row
  <2>2. recordings' = [recordings EXCEPT ![r] = row] /\ Present(r)
        /\ UNCHANGED <<index, jobs, holder, importer>>
    BY <1>1, Zenon DEF SetArchived
  <2> HIDE DEF row
  <2>3. /\ SearchAgrees'
        /\ \A q \in Ids : ~Present(q)' => recordings'[q] = NoRow
        /\ \A q \in Ids : Present(q)' = Present(q)
    BY <1>0, <2>1, <2>2, IndexKept DEF LifecycleInv, Present
  <2> QED
    BY <2>2, <2>3, HandInIds DEF LifecycleInv, Indexing, Published, Present, holder, turn
<1>2. CASE DeleteCommit(r)
  <2>1. /\ recordings' = [recordings EXCEPT ![r] = NoRow]
        /\ recordings_fts' = [recordings_fts EXCEPT ![r] = "absent"]
        /\ plaud_reviews' = [plaud_reviews EXCEPT ![r] = "none"]
        /\ jobs' = [jobs EXCEPT ![r] = "absent"]
        /\ UNCHANGED <<holder, importer>>
    BY <1>2, Zenon DEF DeleteCommit
  <2>2. recordings_fts'[r] = "absent"
        /\ \A q \in Ids \ {r} : /\ recordings_fts'[q] = recordings_fts[q]
                               /\ plaud_reviews'[q] = plaud_reviews[q]
    BY <2>1, TablesTyped
  <2>3. /\ SearchAgrees'
        /\ \A q \in Ids : ~Present(q)' => recordings'[q] = NoRow
        /\ \A q \in Ids \ {r} : Present(q)' = Present(q)
        /\ ~Present(r)'
    BY <2>1, <2>2, NoRowTyped, IndexReplaced
  <2>4. jobs'[r] # "processing" /\ \A q \in Ids \ {r} : jobs'[q] = jobs[q]
    BY <2>1, TablesTyped
  <2> QED
    BY <2>1, <2>3, <2>4, HandInIds DEF LifecycleInv, Indexing, Published, Present, holder, turn
<1> QED BY <1>1, <1>2

LEMMA LifecycleStep == LifecycleInv /\ [Next]_vars => LifecycleInv'
<1> SUFFICES ASSUME LifecycleInv, [Next]_vars PROVE LifecycleInv'
  OBVIOUS
<1>1. TypesAndPlaces'
  BY PlacesStep DEF LifecycleInv
<1>2. CASE Next
  <2>1. Indexing'
    BY <1>1, <1>2, HolderIndexing, OtherIndexing, AllocatingIndexing, PublishIndexing,
       ArchiveIndexing, PersistIndexing, ControlIndexing, Zenon
    DEF Next, Work, Control, Import
  <2> QED BY <1>1, <2>1 DEF LifecycleInv
<1>3. CASE UNCHANGED vars
  <2>1. UNCHANGED <<recordings, index, importer, pc, hand, read, jobs>>
    BY <1>3 DEF vars, rows, holder, turn
  <2>2. Published'
    BY <2>1 DEF LifecycleInv, Indexing, Published, Present
  <2> QED BY <1>1, <2>1, <2>2, IndexQuiet DEF LifecycleInv
<1> QED BY <1>2, <1>3

\* The inductive invariant: types, what each process has in hand, the counter
\* above every number given out, and an index no late publication can spoil.
THEOREM LifecycleCorrect == Spec => []LifecycleInv
<1>1. Init => LifecycleInv
  BY InitPlaces, InitIndexing DEF LifecycleInv
<1>2. LifecycleInv /\ [Next]_vars => LifecycleInv'
  BY LifecycleStep
<1> QED BY <1>1, <1>2, PTL DEF Spec

\* The tables, the audio directory and the processes keep their types.
THEOREM LifecycleTypes == Spec => []TypeOK
<1>1. LifecycleInv => TypeOK
  BY DEF LifecycleInv, TypesAndPlaces
<1> QED BY <1>1, LifecycleCorrect, PTL

\* A code names one recording for ever, for any number of recordings, deletions
\* and overlapping allocations of the two processes.
THEOREM NumberNamesOneHolds == Spec => []NumberNamesOne
<1>1. LifecycleInv => NumberNamesOne
  BY DEF LifecycleInv, TypesAndPlaces, Numbering
<1> QED BY <1>1, LifecycleCorrect, PTL

\* The search index holds exactly the recordings there are, each with its text.
THEOREM SearchAgreesHolds == Spec => []SearchAgrees
<1>1. LifecycleInv => SearchAgrees
  BY DEF LifecycleInv, Indexing
<1> QED BY <1>1, LifecycleCorrect, PTL

(* What ingest may not undo *)

Keeps(r) ==
  Present(r) /\ recordings'[r].present =>
    /\ recordings[r].asr => recordings'[r].asr
    /\ recordings[r].recording_number # 0 =>
         recordings'[r].recording_number = recordings[r].recording_number

\* A single row replaced: the other rows are kept as they are.
LEMMA KeepsOthers ==
  ASSUME LifecycleInv, NEW r \in Ids, NEW row \in Row,
         recordings' = [recordings EXCEPT ![r] = row],
         Present(r) /\ row.present =>
           /\ recordings[r].asr => row.asr
           /\ row.recording_number = recordings[r].recording_number
  PROVE  \A q \in Ids : Keeps(q)
<1>1. recordings \in [Ids -> Row]
  BY RowsInTypeOK DEF LifecycleInv, TypesAndPlaces
<1>2. recordings'[r] = row /\ \A q \in Ids \ {r} : recordings'[q] = recordings[q]
  BY <1>1
<1> QED BY <1>2 DEF Keeps

LEMMA KeepsStep ==
  ASSUME LifecycleInv, Next
  PROVE  \A r \in Ids : Keeps(r)
<1>0. recordings \in [Ids -> Row]
  BY RowsInTypeOK DEF LifecycleInv, TypesAndPlaces
<1>1. CASE UNCHANGED recordings
  BY <1>1 DEF Keeps
<1>2. ASSUME NEW r \in Ids, Allocate(r) PROVE \A q \in Ids : Keeps(q)
  <2>1. CASE Present(r) /\ recordings[r].recording_number = 0
    <3>1. PICK n : recordings' = [recordings EXCEPT ![r].recording_number = n]
      BY <1>2, <2>1, Zenon DEF Allocate
    <3> QED BY <1>0, <2>1, <3>1 DEF Keeps, Row
  <2>2. CASE ~(Present(r) /\ recordings[r].recording_number = 0)
    BY <1>1, <1>2, <2>2, Zenon DEF Allocate
  <2> QED BY <2>1, <2>2
<1>3. CASE ArchiveRow
  <2>1. hand \in Ids
    BY <1>3 DEF LifecycleInv, TypesAndPlaces, Places, ArchiveRow, Ids
  <2>2. PICK plaud \in BOOLEAN :
          recordings' = [recordings EXCEPT ![hand] = Upserted(hand, plaud)]
    BY <1>3, Zenon DEF ArchiveRow
  <2> QED BY <1>0, <2>1, <2>2, UpsertedTyped, KeepsOthers
<1>4. CASE Publish
  <2>1. hand \in Ids
    BY <1>4 DEF Publish, LifecycleInv, TypesAndPlaces, TypeOK
  <2>2. Local \/ UNCHANGED recordings
    BY <1>4 DEF Publish
  <2>3. CASE Local
    <3>1. PICK row \in Row :
            /\ recordings' = [recordings EXCEPT ![hand] = row]
            /\ row.recording_number = recordings[hand].recording_number
            /\ row.asr
      BY <2>1, <2>3, LocalRow DEF LifecycleInv
    <3> QED BY <2>1, <3>1, KeepsOthers
  <2> QED BY <1>1, <2>2, <2>3
<1>5. CASE persist
  <2>1. /\ importer.id \in Ids /\ ~Present(importer.id)
        /\ recordings' = [recordings EXCEPT ![importer.id] = Upserted(importer.id, FALSE)]
    BY <1>5, HandInIds DEF persist, LifecycleInv, Indexing
  <2>2. Upserted(importer.id, FALSE) \in Row
    BY <1>0, <2>1, UpsertedTyped
  <2> QED BY <2>1, <2>2, KeepsOthers
<1>6. ASSUME NEW r \in Ids, SetArchived(r) PROVE \A q \in Ids : Keeps(q)
  <2>1. recordings' = [recordings EXCEPT ![r].archived = ~@]
    BY <1>6, Zenon DEF SetArchived
  <2> QED BY <1>0, <2>1 DEF Keeps, Row
<1>7. ASSUME NEW r \in Ids, DeleteCommit(r) PROVE \A q \in Ids : Keeps(q)
  BY <1>7, NoRowTyped, KeepsOthers DEF DeleteCommit
<1>8. CASE NumberRow \/ ImportNumber
  <2>1. \E r \in Ids : Allocate(r)
    BY <1>8 DEF LifecycleInv, TypesAndPlaces, Places, NumberRow, ImportNumber, Ids
  <2> QED BY <1>2, <2>1
<1>9. ASSUME NEW r \in Ids, BackfillOne(r) \/ ImportBackfillOne(r)
      PROVE \A q \in Ids : Keeps(q)
  BY <1>2, <1>9 DEF BackfillOne, ImportBackfillOne
<1>10. \/ UNCHANGED recordings
       \/ ArchiveRow \/ Publish \/ persist \/ NumberRow \/ ImportNumber
       \/ \E r \in Ids : SetArchived(r) \/ DeleteCommit(r) \/ BackfillOne(r)
                        \/ ImportBackfillOne(r)
  <2>1. CASE Work
    BY <2>1, Zenon DEF Work, Start, BeginPass, TakeSnapshot, EndSync, Reconcile,
       BeginDrain, Complete, EndPass, Fetch, Adopt, Claim, rows
  <2>2. CASE Control
    BY <2>2, Zenon DEF Control, DeleteCheck, _cleanup_local, rows
  <2>3. CASE Import
    BY <2>3, Zenon DEF Import, ImportDies, NormalizeAudio, rows
  <2>4. CASE \/ SyncFails \/ HandlerRaises \/ Crash
             \/ \E r \in Source : BeginManual(r)
             \/ \E r \in Ids : FetchFails(r)
    BY <2>4, Zenon DEF SyncFails, HandlerRaises, Crash, BeginManual, FetchFails, rows
  <2> QED BY <2>1, <2>2, <2>3, <2>4, Zenon DEF Next
<1> QED BY <1>1, <1>3, <1>4, <1>5, <1>6, <1>7, <1>8, <1>9, <1>10, Zenon

\* No step takes the number or the local transcript from a recording that stays.
THEOREM IngestKeepsWorkHolds == Spec => IngestKeepsWork
<1>1. LifecycleInv /\ [Next]_vars => [\A r \in Ids : Keeps(r)]_vars
  BY KeepsStep
<1>2. [\A r \in Ids : Keeps(r)]_vars =>
      [\A r \in Ids : Present(r) /\ recordings'[r].present =>
          /\ recordings[r].asr => recordings'[r].asr
          /\ recordings[r].recording_number # 0 =>
               recordings'[r].recording_number = recordings[r].recording_number]_vars
  BY DEF Keeps
<1> QED BY <1>1, <1>2, LifecycleCorrect, PTL DEF Spec, IngestKeepsWork

-----------------------------------------------------------------------------
(* Codes *)

\* No code of one tenant is another's: RecordingCodes!NoCrossTenant for every
\* configuration whatever its size (_prefixes refuses a prefix given twice), and
\* every number a code can carry.
THEOREM CodesScoped ==
  ASSUME NEW pairs, NEW t, NEW u, t # u, NEW word \in Prefixes, NEW number
  PROVE  \/ parse_code(format_code(word, number), prefix_for(t, pairs)) = NoCode
         \/ parse_code(format_code(word, number), prefix_for(u, pairs)) = NoCode
<1>1. ASSUME NEW x, parse_code(format_code(word, number), prefix_for(x, pairs)) # NoCode
      PROVE  prefix_for(x, pairs) = word
  BY <1>1, CodesAssumption DEF parse_code, format_code
<1>2. ASSUME NEW x, prefix_for(x, pairs) = word
      PROVE  /\ \E p \in pairs : p.tenant = x /\ p.word = word
             /\ \A p, q \in pairs : p # q => p.tenant # q.tenant /\ p.word # q.word
  <2>1. x \in DOMAIN prefixes(pairs) /\ prefixes(pairs)[x] = word
    BY <1>2, CodesAssumption DEF prefix_for
  <2>2. prefixes(pairs) # <<>>
    BY <2>1
  <2>3. /\ prefixes(pairs) = [y \in {p.tenant : p \in pairs} |->
                              (CHOOSE p \in pairs : p.tenant = y).word]
        /\ \A p, q \in pairs : p # q => p.tenant # q.tenant /\ p.word # q.word
    BY <2>2 DEF prefixes
  <2>4. PICK p \in pairs : p.tenant = x
    BY <2>1, <2>3
  <2> QED
    BY <2>1, <2>3, <2>4
<1> QED
  BY <1>1, <1>2

\* A set of numbers that is not empty has a least one: what an induction needs,
\* without an operator as parameter.
LEMMA Least ==
  ASSUME NEW T \in SUBSET Nat, T # {}
  PROVE  \E x \in T : \A y \in T : x <= y
<1> DEFINE R == {ss \in Nat \X Nat : ss[1] < ss[2]}
<1>1. IsWellFoundedOn(R, Nat)
  BY NatLessThanWellFounded DEF OpToRel
<1>2. PICK x \in T : \A y \in T : ~ (<<y, x>> \in R)
  <2> HIDE DEF R
  <2> QED BY <1>1, WFMin, Zenon
<1>3. \A y \in T : ~ (y < x)
  BY <1>2
<1> QED BY <1>3

\* The powers up to n.
Ladder(f, n) == f \in [0 .. n -> Nat] /\ f[0] = 1 /\ \A d \in 1 .. n : f[d] = Base * f[d - 1]

\* They can be written down for any n, ...
LEMMA LadderThere == ASSUME NEW n \in Nat PROVE \E f : Ladder(f, n)
<1> DEFINE Short == {m \in Nat : ~ \E f : Ladder(f, m)}
<1>1. ASSUME Short # {} PROVE FALSE
  <2>1. PICK m \in Short : \A k \in Short : m <= k
    BY <1>1, Least
  <2>2. CASE m = 0
    <3>1. Ladder([d \in 0 .. 0 |-> 1], 0)
      BY DEF Ladder
    <3> QED BY <2>1, <2>2, <3>1
  <2>3. CASE m # 0
    <3>1. m - 1 \in Nat /\ ~ (m <= m - 1)
      BY <2>1, <2>3
    <3>2. PICK f : Ladder(f, m - 1)
      BY <2>1, <3>1
    <3> DEFINE g == [d \in 0 .. m |-> IF d = m THEN Base * f[m - 1] ELSE f[d]]
    <3>3. \A d \in 0 .. m - 1 : f[d] \in Nat /\ g[d] = f[d]
      BY <2>1, <3>1, <3>2 DEF Ladder
    <3>4. g[m] = Base * f[m - 1] /\ f[m - 1] \in Nat
      <4>1. m \in 0 .. m /\ m - 1 \in 0 .. m - 1
        BY <2>1, <3>1
      <4>2. g[m] = Base * f[m - 1]
        BY <4>1
      <4> HIDE DEF g
      <4> QED BY <3>3, <4>1, <4>2
    <3>5. g[m] \in Nat
      <4> HIDE DEF g
      <4> QED BY <3>4, CodesAssumption
    <3>6. g \in [0 .. m -> Nat]
      <4>1. \A d \in 0 .. m : g[d] \in Nat
        <5> HIDE DEF g
        <5> QED BY <2>1, <3>1, <3>3, <3>5
      <4>2. DOMAIN g = 0 .. m /\ g = [d \in 0 .. m |-> g[d]]
        OBVIOUS
      <4> HIDE DEF g
      <4> QED BY <4>1, <4>2
    <3>7. g[0] = 1
      BY <2>3, <3>1, <3>2, <3>3 DEF Ladder
    <3>8. ASSUME NEW d \in 1 .. m PROVE g[d] = Base * g[d - 1]
      <4>1. d - 1 \in 0 .. m - 1
        BY <2>1, <3>1
      <4>2. CASE d = m
        BY <3>3, <3>4, <4>1, <4>2
      <4>3. CASE d # m
        <5>1. d \in 1 .. m - 1 /\ d \in 0 .. m - 1
          BY <2>1, <3>1, <4>3
        <5> HIDE DEF g
        <5> QED BY <3>2, <3>3, <4>1, <5>1 DEF Ladder
      <4> QED BY <4>2, <4>3
    <3> HIDE DEF g
    <3>9. Ladder(g, m)
      BY <3>6, <3>7, <3>8 DEF Ladder
    <3> QED BY <2>1, <3>9
  <2> QED BY <2>2, <2>3
<1> QED BY <1>1

\* ... always the same, ...
LEMMA LaddersAgree ==
  ASSUME NEW f, NEW g, NEW m \in Nat, NEW n \in Nat, Ladder(f, m), Ladder(g, n),
         NEW d \in Nat, d <= m, d <= n
  PROVE  f[d] = g[d]
<1> DEFINE Off == {k \in Nat : k <= m /\ k <= n /\ f[k] # g[k]}
<1>1. ASSUME Off # {} PROVE FALSE
  <2>1. PICK k \in Off : \A j \in Off : k <= j
    BY <1>1, Least
  <2>2. k # 0
    BY <2>1 DEF Ladder
  <2>3. k - 1 \in Nat /\ k - 1 <= m /\ k - 1 <= n /\ ~ (k <= k - 1)
    BY <2>1, <2>2
  <2>4. f[k - 1] = g[k - 1]
    BY <2>1, <2>3
  <2>5. k \in 1 .. m /\ k \in 1 .. n
    BY <2>1, <2>2
  <2>6. f[k] = Base * f[k - 1] /\ g[k] = Base * g[k - 1]
    BY <2>5 DEF Ladder
  <2> QED BY <2>1, <2>4, <2>6
<1> QED BY <1>1

\* ... so Power is what its definition says: the function exists.
LEMMA PowerIs ==
  /\ Power \in [Nat -> Nat]
  /\ Power[0] = 1
  /\ \A d \in Nat : Power[d + 1] = Base * Power[d]
<1> DEFINE Fits(f) == f = [d \in Nat |-> IF d = 0 THEN 1 ELSE Base * f[d - 1]]
           up(n) == CHOOSE f : Ladder(f, n)
           p == [d \in Nat |-> up(d)[d]]
<1>1. \A n \in Nat : Ladder(up(n), n)
  BY LadderThere
<1> HIDE DEF up
<1>2. \A d \in Nat : p[d] \in Nat /\ (d = 0 => p[d] = 1) /\ (d # 0 => p[d] = Base * p[d - 1])
  <2> SUFFICES ASSUME NEW d \in Nat
      PROVE  p[d] \in Nat /\ (d = 0 => p[d] = 1) /\ (d # 0 => p[d] = Base * p[d - 1])
    OBVIOUS
  <2>1. p[d] = up(d)[d] /\ p[d] \in Nat
    BY <1>1 DEF Ladder
  <2>2. d = 0 => up(d)[d] = 1
    BY <1>1 DEF Ladder
  <2>3. ASSUME d # 0 PROVE up(d)[d] = Base * p[d - 1]
    <3>1. d - 1 \in Nat /\ d \in 1 .. d /\ d - 1 <= d /\ d - 1 <= d - 1
      BY <2>3
    <3>2. up(d)[d] = Base * up(d)[d - 1]
      BY <1>1, <3>1 DEF Ladder
    <3>3. up(d)[d - 1] = up(d - 1)[d - 1]
      BY <1>1, <3>1, LaddersAgree
    <3> QED BY <3>1, <3>2, <3>3
  <2> HIDE DEF p
  <2> QED BY <2>1, <2>2, <2>3
<1>3. Fits(p)
  <2>1. p = [d \in Nat |-> p[d]]
    OBVIOUS
  <2> HIDE DEF p
  <2>2. \A d \in Nat : p[d] = IF d = 0 THEN 1 ELSE Base * p[d - 1]
    BY <1>2
  <2> QED BY <2>1, <2>2
<1>4. Power = CHOOSE f : Fits(f)
  BY DEF Power
<1>5. Fits(Power)
  <2> HIDE DEF Fits, p
  <2> QED BY <1>3, <1>4
<1>6. Power[0] = 1 /\ \A d \in Nat : Power[d + 1] = Base * Power[d]
  <2>1. \A d \in Nat : Power[d] = IF d = 0 THEN 1 ELSE Base * Power[d - 1]
    BY <1>5
  <2>2. ASSUME NEW d \in Nat PROVE Power[d + 1] = Base * Power[d]
    <3>1. d + 1 \in Nat /\ d + 1 # 0 /\ d + 1 - 1 = d
      OBVIOUS
    <3> QED BY <2>1, <3>1
  <2> QED BY <2>1, <2>2
<1>7. \A d \in Nat : Power[d] \in Nat
  <2> DEFINE Odd == {d \in Nat : Power[d] \notin Nat}
  <2>1. ASSUME Odd # {} PROVE FALSE
    <3>1. PICK d \in Odd : \A e \in Odd : d <= e
      BY <2>1, Least
    <3>2. d # 0
      BY <1>6, <3>1
    <3>3. d - 1 \in Nat /\ ~ (d <= d - 1) /\ d - 1 + 1 = d
      BY <3>1, <3>2
    <3>4. Power[d - 1] \in Nat /\ Power[d] = Base * Power[d - 1]
      BY <1>6, <3>1, <3>3
    <3>5. Power[d] \in Nat
      BY <3>4, CodesAssumption
    <3> QED BY <3>1, <3>5
  <2> QED BY <2>1
<1>8. Power = [d \in Nat |-> Power[d]]
  <2>1. ASSUME NEW f, Fits(f) PROVE f = [d \in Nat |-> f[d]]
    BY <2>1
  <2> HIDE DEF Fits
  <2> QED BY <1>5, <2>1
<1> QED BY <1>6, <1>7, <1>8

\* One digit more writes more numbers.
LEMMA PowerGrows ==
  ASSUME NEW d \in Nat, NEW e \in Nat
  PROVE  /\ Power[d] \in Nat \ {0}
         /\ d < e => Power[d] < Power[e]
         /\ Power[d + 1] = Base * Power[d]
<1>1. \A k \in Nat : Power[k] \in Nat \ {0}
  <2> DEFINE None == {k \in Nat : Power[k] = 0}
  <2>1. ASSUME None # {} PROVE FALSE
    <3>1. PICK k \in None : \A j \in None : k <= j
      BY <2>1, Least
    <3>2. k # 0
      BY <3>1, PowerIs
    <3>3. k - 1 \in Nat /\ ~ (k <= k - 1) /\ k - 1 + 1 = k
      BY <3>1, <3>2
    <3>4. Power[k - 1] \in Nat \ {0} /\ Power[k] = Base * Power[k - 1]
      BY <3>1, <3>3, PowerIs
    <3> QED BY <3>1, <3>4, CodesAssumption
  <2> QED BY <2>1, PowerIs
<1>2. ASSUME NEW k \in Nat PROVE Power[k] < Power[k + 1]
  <2>1. Power[k + 1] = Base * Power[k] /\ Power[k] \in Nat \ {0}
    BY <1>1, PowerIs
  <2>2. ASSUME NEW a \in Nat \ {0} PROVE a < Base * a
    BY CodesAssumption
  <2> QED BY <2>1, <2>2
<1>3. d < e => Power[d] < Power[e]
  <2> DEFINE Low == {k \in Nat : d < k /\ ~ (Power[d] < Power[k])}
  <2>1. ASSUME Low # {} PROVE FALSE
    <3>1. PICK k \in Low : \A j \in Low : k <= j
      BY <2>1, Least
    <3>2. k - 1 \in Nat /\ ~ (k <= k - 1) /\ k - 1 + 1 = k /\ d <= k - 1
      BY <3>1
    <3>3. Power[k - 1] < Power[k] /\ Power[k - 1] \in Nat /\ Power[k] \in Nat /\ Power[d] \in Nat
      BY <1>1, <1>2, <3>1, <3>2
    <3>4. d = k - 1 \/ Power[d] < Power[k - 1]
      BY <3>1, <3>2
    <3> QED BY <3>1, <3>3, <3>4
  <2> QED BY <2>1
<1> QED BY <1>1, <1>3, PowerIs

\* A number that MaxDigits digits can write has as many digits as it needs and no more.
LEMMA DigitsFit ==
  ASSUME NEW n \in Numbers
  PROVE  n \in Nat \ {0} /\ DigitsOf(n) \in 1 .. MaxDigits
<1>1. n \in Nat \ {0} /\ n < Power[MaxDigits] /\ MaxDigits \in Nat \ {0}
  BY CodesAssumption, PowerIs DEF Numbers
<1> DEFINE Enough == {d \in Nat : n < Power[d]}
<1>2. PICK d \in Enough : \A e \in Enough : d <= e
  <2>1. MaxDigits \in Enough
    BY <1>1
  <2> QED BY <2>1, Least
<1>3. d \in 1 .. MaxDigits
  <2>1. d # 0
    BY <1>1, <1>2, PowerIs
  <2> QED BY <1>1, <1>2, <2>1
<1>4. n >= Power[d - 1]
  <2>1. d - 1 \in Nat /\ ~ (d <= d - 1)
    BY <1>1, <1>3
  <2>2. ~ (n < Power[d - 1]) /\ Power[d - 1] \in Nat
    BY <1>2, <2>1, PowerIs
  <2> QED BY <1>1, <2>2
<1>5. ASSUME NEW e \in 1 .. MaxDigits + 1, n < Power[e], e > 1 => n >= Power[e - 1]
      PROVE  e = d
  <2>1. e \in Nat /\ d <= e
    BY <1>1, <1>2, <1>5
  <2>2. ASSUME d < e PROVE FALSE
    <3>1. e > 1 /\ e - 1 \in Nat /\ d <= e - 1
      BY <1>3, <2>1, <2>2
    <3>2. Power[d] <= Power[e - 1] /\ Power[d] \in Nat /\ Power[e - 1] \in Nat
      BY <1>2, <3>1, PowerGrows
    <3> QED BY <1>1, <1>2, <1>5, <3>1, <3>2
  <2> QED BY <1>2, <2>1, <2>2
<1>6. DigitsOf(n) = d
  <2>1. d \in 1 .. MaxDigits + 1 /\ n < Power[d] /\ (d > 1 => n >= Power[d - 1])
    BY <1>1, <1>2, <1>3, <1>4
  <2> QED BY <1>5, <2>1 DEF DigitsOf
<1> QED BY <1>1, <1>3, <1>6

\* Whatever the base, the width and the number of digits: a code given out reads
\* back as itself, in any of its spellings, and no other text reads as it.
THEOREM RoundTripsHolds == RoundTrips
<1> SUFFICES ASSUME NEW scope \in Prefixes, NEW n \in Numbers
             PROVE  /\ parse_code(format_code(scope, n), scope) = format_code(scope, n)
                    /\ \A t \in Texts : parse_code(t, scope) = format_code(scope, n)
                         <=> t.number = n /\ t.word \in {scope, Bare} /\ t.digits <= MaxDigits
  BY DEF RoundTrips
<1>1. n \in Nat \ {0} /\ n >= 1 /\ DigitsOf(n) \in 1 .. MaxDigits
  BY DigitsFit
<1>2. LET code == format_code(scope, n)
      IN  /\ code.word = scope /\ code.number = n /\ code.digits <= MaxDigits
          /\ code # NoCode
  BY <1>1, CodesAssumption DEF format_code, NoCode
<1>3. parse_code(format_code(scope, n), scope) = format_code(scope, n)
  BY <1>1, <1>2 DEF parse_code
<1>4. ASSUME NEW t \in Texts
      PROVE  parse_code(t, scope) = format_code(scope, n)
               <=> t.number = n /\ t.word \in {scope, Bare} /\ t.digits <= MaxDigits
  <2>1. parse_code(t, scope) = IF t.digits <= MaxDigits /\ t.number >= 1 /\ t.word \in {scope, Bare}
                               THEN format_code(scope, t.number) ELSE NoCode
    BY DEF parse_code
  <2>2. format_code(scope, t.number).number = t.number
    BY DEF format_code
  <2> QED BY <1>1, <1>2, <2>1, <2>2
<1> QED BY <1>3, <1>4

\* The codes of the recordings there are, under the prefix of their archive.
Codes(scope) ==
  [r \in {x \in Ids : Present(x)} |->
     IF recordings[r].recording_number = 0 THEN NoCode
     ELSE format_code(scope, recordings[r].recording_number)]

\* A recording that is there is found by its number in any spelling, and a text
\* that finds a recording finds the only one its number was ever given to, the
\* deleted ones included: what a reader wrote down never comes to mean another.
Spells(text, scope, number) ==
  text.number = number /\ text.word \in {scope, Bare} /\ text.digits <= MaxDigits

NamesForGood ==
  \A scope \in Prefixes, text \in Texts :
    /\ \A r \in Ids :
         /\ Present(r) /\ recordings[r].recording_number \in Numbers
         /\ Spells(text, scope, recordings[r].recording_number)
         => r \in resolve(text, scope, Codes(scope))
    /\ \A r \in resolve(text, scope, Codes(scope)) :
         /\ recordings[r].recording_number = text.number
         /\ \A p \in issued : p[1] = text.number => p[2] = r

\* Allocation (_reserve, its counter, deletion) and reading (parse_code, resolve)
\* together: what recording_codes.py calls permanent codes.
THEOREM NamesForGoodHolds == Spec => []NamesForGood
<1>1. ASSUME NEW scope \in Prefixes, NEW text \in Texts, NEW r \in Ids,
             Present(r), recordings[r].recording_number \in Numbers,
             Spells(text, scope, recordings[r].recording_number)
      PROVE  r \in resolve(text, scope, Codes(scope))
  <2> DEFINE n == recordings[r].recording_number
  <2>1. parse_code(text, scope) = format_code(scope, n)
    BY <1>1, RoundTripsHolds DEF RoundTrips, Spells
  <2>2. n # 0
    BY <1>1, DigitsFit
  <2>3. r \in DOMAIN Codes(scope) /\ Codes(scope)[r] = format_code(scope, n)
    BY <1>1, <2>2 DEF Codes
  <2>4. format_code(scope, n) # NoCode
    BY <2>2 DEF format_code, NoCode
  <2> QED BY <2>1, <2>3, <2>4 DEF resolve
<1>2. ASSUME LifecycleInv, NEW scope \in Prefixes, NEW text \in Texts,
             NEW r \in resolve(text, scope, Codes(scope))
      PROVE  /\ recordings[r].recording_number = text.number
             /\ \A p \in issued : p[1] = text.number => p[2] = r
  <2>1. r \in Ids /\ Present(r) /\ Codes(scope)[r] = parse_code(text, scope)
        /\ Codes(scope)[r] # NoCode
    BY <1>2 DEF resolve, Codes
  <2>2. /\ recordings[r].recording_number # 0
        /\ Codes(scope)[r] = format_code(scope, recordings[r].recording_number)
    BY <2>1 DEF Codes
  <2>3. parse_code(text, scope) = format_code(scope, text.number)
    BY <2>1 DEF parse_code
  <2>4. \A n : format_code(scope, n).number = n
    BY DEF format_code
  <2>5. recordings[r].recording_number = text.number
    BY <2>1, <2>2, <2>3, <2>4
  <2>6. <<recordings[r].recording_number, r>> \in issued
    BY <1>2, <2>1, <2>2 DEF LifecycleInv, TypesAndPlaces, Numbering
  <2> QED
    BY <1>2, <2>5, <2>6 DEF LifecycleInv, TypesAndPlaces, Numbering, NumberNamesOne
<1>3. LifecycleInv => NamesForGood
  BY <1>1, <1>2 DEF NamesForGood
<1> QED
  BY <1>3, LifecycleCorrect, PTL
=============================================================================
