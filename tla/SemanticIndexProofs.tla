------------------------- MODULE SemanticIndexProofs -------------------------
(***************************************************************************)
(* Proofs about SemanticIndex: IndexSound is inductive as it stands, and   *)
(* under it every step is a step of SearchMirror or leaves it alone; and   *)
(* about two algorithms for any input: the heap of a search holds the best *)
(* (SearchHeap), and the chunker keeps to its limit and loses no letter    *)
(* (Chunker).                                                              *)
(***************************************************************************)
EXTENDS SemanticIndex, SearchHeap, Chunker, FiniteSetTheorems, SequenceTheorems,
        WellFoundedInduction, TLAPS

-----------------------------------------------------------------------------
(* IndexSound, one lemma per kind of step *)

LEMMA VisibleRecs == Visible \subseteq Recs
BY DEF Visible

\* A file made anew holds no rows, and so no chunks.
LEMMA EmptySound ==
  ASSUME IndexSound, NEW m \in Models, Empty(m)
  PROVE  /\ records' \in [Recs -> [hash : 0..MaxVersion, gen : Nat]]
         /\ jobs' \in [Recs -> {"none", "queued", "retry"}]
         /\ file' = "ok" /\ identity' = m /\ DOMAIN chunks' = Recs
         /\ \A r \in Recs : records'[r].hash = 0 /\ chunks'[r] = {}
<1>1. MaxVersion \in Nat
  BY SemanticAssumption
<1> QED BY <1>1 DEF Empty, NoRow

LEMMA InitSound == Init => IndexSound
<1> SUFFICES ASSUME Init PROVE IndexSound
  OBVIOUS
<1>1. MaxVersion \in Nat \ {0} /\ NoModel \notin Models
  BY SemanticAssumption
<1>2. TypeOK
  BY <1>1 DEF Init, TypeOK, NoRow, Versions
<1>3. IndexWhole
  BY <1>1 DEF Init, IndexWhole, NoRow
<1>4. PassAware
  BY <1>1 DEF Init, PassAware, Visible, Readable
<1> QED BY <1>2, <1>3, <1>4 DEF IndexSound

\* A pass that ends leaves the index and its snapshot.
LEMMA IdleSound ==
  ASSUME IndexSound, pass' = Idle,
         UNCHANGED <<file, identity, records, chunks>>,
         jobs' \in [Recs -> {"none", "queued", "retry"}],
         archive' = archive, release' \in Models
  PROVE  IndexSound'
<1> USE DEF IndexSound
<1>1. TypeOK'
  BY DEF TypeOK, Idle
<1>2. IndexWhole'
  BY DEF IndexWhole, Whole
<1>3. PassAware'
  BY DEF PassAware, Readable, TypeOK, Idle, Visible
<1> QED BY <1>1, <1>2, <1>3

LEMMA OpenSound == ASSUME IndexSound, Open PROVE IndexSound'
<1> USE DEF IndexSound
<1>0. /\ release \in Models /\ NoModel \notin Models
      /\ archive' = archive /\ release' = release /\ pass.at = "idle"
  BY SemanticAssumption DEF TypeOK, Open
<1>1. CASE Empty(release) /\ pass' = [pass EXCEPT !.at = "open"]
  <2>1. TypeOK'
    BY <1>0, <1>1, EmptySound DEF TypeOK
  <2>2. IndexWhole'
    BY <1>1, <1>0, EmptySound DEF IndexWhole
  <2>3. PassAware'
    BY <1>0, <1>1, EmptySound DEF PassAware, Readable, TypeOK, Visible
  <2> QED BY <2>1, <2>2, <2>3
<1>2. CASE UNCHANGED store /\ identity = release /\ pass' = [pass EXCEPT !.at = "open"]
  <2>1. TypeOK'
    BY <1>0, <1>2 DEF TypeOK, store
  <2>2. IndexWhole'
    BY <1>2 DEF IndexWhole, Whole, store
  <2>3. PassAware'
    BY <1>0, <1>2 DEF PassAware, Readable, TypeOK, Visible, store
  <2> QED BY <2>1, <2>2, <2>3
<1>3. CASE UNCHANGED <<store, pass>>
  BY <1>0, <1>3 DEF TypeOK, IndexWhole, Whole, PassAware, Visible, Readable, store
<1> QED BY <1>1, <1>2, <1>3 DEF Open, Invalidated

LEMMA DocumentsSound == ASSUME IndexSound, _documents PROVE IndexSound'
<1> USE DEF IndexSound, _documents
<1>1. \A r \in Recs : Source(r) \in 0..MaxVersion
  BY SemanticAssumption DEF TypeOK, Source, Versions
<1>2. TypeOK'
  BY <1>1 DEF TypeOK, store
<1>3. IndexWhole'
  BY DEF IndexWhole, Whole, store
<1>4. PassAware'
  BY DEF PassAware, Readable, TypeOK, Visible, store
<1> QED BY <1>2, <1>3, <1>4

\* What is out of sight goes; the rest keeps rows and chunks.
LEMMA PurgeSound == ASSUME IndexSound, Purge PROVE IndexSound'
<1> USE DEF IndexSound, Purge, purge_except
<1>0. NoRow \in [hash : 0..MaxVersion, gen : Nat]
  BY SemanticAssumption DEF NoRow
<1>a. records' \in [Recs -> [hash : 0..MaxVersion, gen : Nat]]
  BY <1>0 DEF TypeOK
<1>b. jobs' \in [Recs -> {"none", "queued", "retry"}] /\ DOMAIN chunks' = Recs
  BY DEF TypeOK
<1>c. pass' \in [at : {"idle", "open", "seen", "purged", "work", "admitted", "embedded"},
                docs : [Recs -> 0..MaxVersion], todo : SUBSET Recs, doc : Recs \cup {0}]
  BY DEF TypeOK
<1>1. TypeOK'
  BY <1>a, <1>b, <1>c DEF TypeOK
<1>2. IndexWhole'
  BY DEF IndexWhole, Whole, NoRow, TypeOK
<1>3. PassAware'
  BY DEF PassAware, Readable, TypeOK, Visible
<1> QED BY <1>1, <1>2, <1>3

LEMMA PlanSound == ASSUME IndexSound, Plan PROVE IndexSound'
<1> USE DEF IndexSound, Plan
<1>0. First(Changed) \subseteq Visible /\ Visible \subseteq Recs
  BY DEF First, Changed, Visible
<1>1. TypeOK'
  BY <1>0 DEF TypeOK, store
<1>2. IndexWhole'
  BY DEF IndexWhole, Whole, store
<1>3. PassAware'
  BY <1>0 DEF PassAware, Readable, TypeOK, Visible, store
<1> QED BY <1>1, <1>2, <1>3

LEMMA AdmitSound == ASSUME IndexSound, admit PROVE IndexSound'
<1> USE DEF IndexSound
<1>1. PICK r \in pass.todo :
         /\ jobs' = [jobs EXCEPT ![r] = "queued"]
         /\ pass' = [pass EXCEPT !.at = "admitted", !.doc = r, !.todo = @ \ {r}]
  BY DEF admit
<1>2. r \in Recs /\ r \in Visible
  BY DEF TypeOK, PassAware
<1>3. UNCHANGED <<archive, file, identity, records, chunks, release>>
  BY DEF admit
<1>4. TypeOK'
  BY <1>1, <1>2, <1>3 DEF TypeOK
<1>5. IndexWhole'
  BY <1>3 DEF IndexWhole, Whole
<1>6. PassAware'
  BY <1>1, <1>2, <1>3, pass.at = "work" DEF PassAware, Readable, TypeOK, Visible, admit
<1> QED BY <1>4, <1>5, <1>6

LEMMA EmbedSound == ASSUME IndexSound, Embed PROVE IndexSound'
<1> USE DEF IndexSound, Embed
<1>1. TypeOK'
  BY DEF TypeOK, store
<1>2. IndexWhole'
  BY DEF IndexWhole, Whole, store
<1>3. PassAware'
  BY DEF PassAware, Readable, TypeOK, Visible, store
<1> QED BY <1>1, <1>2, <1>3

\* The document's rows and chunks change together; the model is the manifest's.
LEMMA ReplaceSound == ASSUME IndexSound, replace PROVE IndexSound'
<1> USE DEF IndexSound
<1> DEFINE d == pass.doc
           v == pass.docs[pass.doc]
<1>1. d \in Recs /\ v \in 0..MaxVersion /\ v # 0 /\ MaxVersion \in Nat
  BY SemanticAssumption DEF TypeOK, PassAware, Visible, replace
<1>2. /\ records' = [records EXCEPT ![d] = [hash |-> v, gen |-> @.gen + 1]]
      /\ jobs' = [jobs EXCEPT ![d] = "none"]
      /\ pass' = [pass EXCEPT !.at = "work", !.doc = 0]
      /\ chunks' = [chunks EXCEPT ![d] = {[gen |-> records[d].gen + 1, ord |-> i, text |-> v,
                                            model |-> release] : i \in Pieces[v]}]
      /\ UNCHANGED <<archive, file, identity, release>>
  BY DEF replace, Replaced
<1>3. identity = release
  BY DEF PassAware, Readable, replace
<1>a. [hash |-> v, gen |-> records[d].gen + 1] \in [hash : 0..MaxVersion, gen : Nat]
  BY <1>1 DEF TypeOK
<1>b. records' \in [Recs -> [hash : 0..MaxVersion, gen : Nat]]
  BY <1>1, <1>2, <1>a DEF TypeOK
<1>c. jobs' \in [Recs -> {"none", "queued", "retry"}] /\ DOMAIN chunks' = Recs
  BY <1>1, <1>2 DEF TypeOK
<1>d. pass' \in [at : {"idle", "open", "seen", "purged", "work", "admitted", "embedded"},
                docs : [Recs -> 0..MaxVersion], todo : SUBSET Recs, doc : Recs \cup {0}]
  BY <1>2 DEF TypeOK
<1>4. TypeOK'
  BY <1>2, <1>b, <1>c, <1>d DEF TypeOK
<1>5. IndexWhole'
  <2>1. SUFFICES ASSUME NEW r \in Recs
                 PROVE  IF records'[r].hash = 0 THEN chunks'[r] = {} ELSE Whole(r)'
    BY DEF IndexWhole
  <2>2. CASE r = d
    <3>1. records'[r] = [hash |-> v, gen |-> records[d].gen + 1]
      BY <1>1, <1>2, <2>2 DEF TypeOK
    <3>2. chunks'[r] = {[gen |-> records[d].gen + 1, ord |-> i, text |-> v,
                         model |-> release] : i \in Pieces[v]}
      BY <1>1, <1>2, <2>2, r \in DOMAIN chunks DEF TypeOK
    <3> QED BY <1>1, <1>2, <1>3, <3>1, <3>2 DEF Whole
  <2>3. CASE r # d
    BY <1>1, <1>2, <2>3 DEF TypeOK, IndexWhole, Whole
  <2> QED BY <2>2, <2>3
<1>6. PassAware'
  BY <1>1, <1>2, pass.at = "embedded" DEF PassAware, Readable, TypeOK, Visible, replace
<1> QED BY <1>4, <1>5, <1>6

LEMMA RetrySound == ASSUME IndexSound, mark_retry PROVE IndexSound'
<1>1. jobs' \in [Recs -> {"none", "queued", "retry"}]
  BY DEF mark_retry, IndexSound, TypeOK
<1>2. release' \in Models
  BY DEF mark_retry, IndexSound, TypeOK
<1> QED BY <1>1, <1>2, IdleSound DEF mark_retry

LEMMA StopSound == ASSUME IndexSound, EndPass \/ Crash \/ Upgrade PROVE IndexSound'
<1>1. jobs' \in [Recs -> {"none", "queued", "retry"}]
  BY DEF EndPass, Crash, Upgrade, IndexSound, TypeOK, store
<1>2. release' \in Models
  BY DEF EndPass, Crash, Upgrade, IndexSound, TypeOK
<1> QED BY <1>1, <1>2, IdleSound DEF EndPass, Crash, Upgrade, store

LEMMA MoveSound == ASSUME IndexSound, NEW r \in Recs, Move(r) PROVE IndexSound'
<1> USE DEF IndexSound, Move
<1>1. archive' \in [Recs -> [version : Versions, visible : BOOLEAN]]
  <2>1. CASE archive[r].version < MaxVersion /\ archive' = [archive EXCEPT ![r].version = @ + 1]
    BY <2>1, SemanticAssumption DEF TypeOK, Versions
  <2>2. CASE archive' = [archive EXCEPT ![r].visible = ~@]
    <3>1. archive[r] \in [version : Versions, visible : BOOLEAN]
      BY DEF TypeOK
    <3>2. (~ archive[r].visible) \in BOOLEAN
      OBVIOUS
    <3>3. [archive[r] EXCEPT !.visible = ~ archive[r].visible]
            \in [version : Versions, visible : BOOLEAN]
      BY <3>1, <3>2
    <3>4. archive' = [archive EXCEPT ![r] = [archive[r] EXCEPT !.visible = ~ archive[r].visible]]
      BY <2>2, Zenon
    <3> QED BY <3>3, <3>4 DEF TypeOK
  <2> QED BY <2>1, <2>2
<1>2. TypeOK'
  BY <1>1 DEF TypeOK, store
<1>3. IndexWhole'
  BY DEF IndexWhole, Whole, store
<1>4. PassAware'
  BY DEF PassAware, Readable, Visible, store
<1> QED BY <1>2, <1>3, <1>4

LEMMA CorruptSound == ASSUME IndexSound, Corrupt PROVE IndexSound'
<1> USE DEF IndexSound, Corrupt
<1>1. TypeOK'
  BY DEF TypeOK
<1>2. IndexWhole'
  BY DEF IndexWhole, Whole
<1>3. PassAware'
  BY DEF PassAware, Readable, Visible
<1> QED BY <1>1, <1>2, <1>3

Searching == \E q \in Readers : Begin(q) \/ OpenReadonly(q) \/ iter_candidates(q) \/ FallBack(q)

\* Searches, and steps of nobody, touch neither the index nor the pass.
LEMMA QuietSound ==
  ASSUME IndexSound, Searching \/ UNCHANGED vars
  PROVE  IndexSound' /\ UNCHANGED <<archive, store, pass>>
<1>1. UNCHANGED <<archive, store, release, pass>>
  BY DEF Searching, Begin, OpenReadonly, iter_candidates, FallBack, vars
<1> QED BY <1>1 DEF IndexSound, TypeOK, IndexWhole, Whole, PassAware, Visible, Readable, store

\* The index is in one piece in every state, for any recordings, versions,
\* batch and models, and any number of failures: SemanticIndex!IndexSound.
THEOREM IndexSoundHolds == Spec => []IndexSound
<1>1. Init => IndexSound
  BY InitSound
<1>2. IndexSound /\ [Next]_vars => IndexSound'
  <2> SUFFICES ASSUME IndexSound, [Next]_vars PROVE IndexSound'
    OBVIOUS
  <2>1. CASE Pass
    BY <2>1, OpenSound, DocumentsSound, PurgeSound, PlanSound, AdmitSound, EmbedSound,
       ReplaceSound, StopSound DEF Pass
  <2>2. CASE mark_retry \/ Crash \/ Upgrade \/ Corrupt
    BY <2>2, RetrySound, StopSound, CorruptSound
  <2>3. CASE \E r \in Recs : Move(r)
    BY <2>3, MoveSound
  <2>4. CASE Searching \/ UNCHANGED vars
    BY <2>4, QuietSound
  <2> QED BY <2>1, <2>2, <2>3, <2>4 DEF Next, Searching
<1> QED BY <1>1, <1>2, PTL DEF Spec

-----------------------------------------------------------------------------
(* The index implements SearchMirror *)

\* What readers find follows the rows while the file is readable.
LEMMA ShownSame ==
  ASSUME file' = file, records' = records
  PROVE  [r \in Recs |-> Shown(r)]' = [r \in Recs |-> Shown(r)]
BY DEF Shown, Readable

\* A step that leaves the archive, the snapshot and the rows alone stutters.
LEMMA Stutters ==
  ASSUME UNCHANGED <<archive, file, records>>, pass'.docs = pass.docs
  PROVE  UNCHANGED Mirror!vars
BY ShownSame DEF Mirror!vars

LEMMA Rebuilds ==
  ASSUME archive' = archive, pass'.docs = pass.docs, \A r \in Recs : Shown(r)' = 0
  PROVE  Mirror!Rebuild
BY DEF Mirror!Rebuild

LEMMA OpenMirrored == ASSUME IndexSound, Open PROVE [Mirror!Next]_Mirror!vars
<1>0. archive' = archive
  BY DEF Open
<1>1. CASE Empty(release) /\ pass' = [pass EXCEPT !.at = "open"]
  <2>1. \A r \in Recs : Shown(r)' = 0
    BY <1>1 DEF Empty, NoRow, Shown, Readable
  <2>2. pass'.docs = pass.docs
    BY <1>1 DEF IndexSound, TypeOK
  <2> QED BY <1>0, <2>1, <2>2, Rebuilds DEF Mirror!Next
<1>2. CASE UNCHANGED store /\ pass' \in {pass, [pass EXCEPT !.at = "open"]}
  <2>1. pass'.docs = pass.docs
    BY <1>2 DEF IndexSound, TypeOK
  <2> QED BY <1>0, <1>2, <2>1, Stutters DEF store
<1> QED BY <1>1, <1>2 DEF Open, Invalidated

LEMMA DocumentsMirrored == ASSUME IndexSound, _documents PROVE Mirror!Look
<1>1. pass'.docs = [r \in Recs |-> Source(r)]
  BY DEF _documents, IndexSound, TypeOK
<1>2. archive' = archive /\ file' = file /\ records' = records
  BY DEF _documents, store
<1> QED BY <1>1, <1>2, ShownSame DEF Mirror!Look, Mirror!Source, Source

LEMMA PurgeMirrored == ASSUME IndexSound, Purge PROVE Mirror!Withdraw
<1>1. archive' = archive /\ file' = file /\ Readable /\ pass'.docs = pass.docs
  BY DEF Purge, purge_except, IndexSound, TypeOK
<1>2. \A r \in Recs : Shown(r)' = IF pass.docs[r] = 0 THEN 0 ELSE Shown(r)
  BY <1>1 DEF Purge, purge_except, Shown, Visible, NoRow, Readable
<1> QED BY <1>1, <1>2 DEF Mirror!Withdraw

LEMMA ReplaceMirrored == ASSUME IndexSound, replace PROVE Mirror!Publish(pass.doc) /\ pass.doc \in Recs
<1>1. pass.doc \in Recs /\ pass.docs[pass.doc] # 0
  BY DEF replace, IndexSound, PassAware, Visible
<1>2. archive' = archive /\ file' = file /\ Readable /\ pass'.docs = pass.docs
  BY DEF replace, IndexSound, TypeOK
<1>3. records' = [records EXCEPT ![pass.doc] = [hash |-> pass.docs[pass.doc],
                                                gen |-> records[pass.doc].gen + 1]]
  BY DEF replace
<1>4. \A r \in Recs : Shown(r)' = IF r = pass.doc THEN pass.docs[pass.doc] ELSE Shown(r)
  BY <1>1, <1>2, <1>3 DEF Shown, Readable, IndexSound, TypeOK
<1>5. [r \in Recs |-> Shown(r)]' = [[r \in Recs |-> Shown(r)] EXCEPT ![pass.doc] = pass.docs[pass.doc]]
  BY <1>1, <1>4
<1> QED BY <1>1, <1>2, <1>5 DEF Mirror!Publish

LEMMA IdleMirrored ==
  ASSUME IndexSound, mark_retry \/ EndPass \/ Crash \/ Upgrade
  PROVE  UNCHANGED Mirror!vars
<1>1. UNCHANGED <<archive, file, records>> /\ pass' = Idle
  BY DEF mark_retry, EndPass, Crash, Upgrade, store
<1>2. pass'.docs = pass.docs
  BY <1>1 DEF Idle, IndexSound, TypeOK
<1> QED BY <1>1, <1>2, Stutters

LEMMA StepMirrored ==
  ASSUME IndexSound, Plan \/ admit \/ Embed
  PROVE  UNCHANGED Mirror!vars
<1>1. UNCHANGED <<archive, file, records>>
  BY DEF Plan, admit, Embed, store
<1>2. pass'.docs = pass.docs
  BY DEF Plan, admit, Embed, IndexSound, TypeOK
<1> QED BY <1>1, <1>2, Stutters

LEMMA MoveMirrored == ASSUME NEW r \in Recs, Move(r) PROVE Mirror!Move(r)
<1>1. UNCHANGED <<file, records, pass>>
  BY DEF Move, store
<1> QED BY <1>1, ShownSame DEF Move, Mirror!Move

\* A torn file keeps its rows for who does not meet the page.
LEMMA CorruptMirrored == ASSUME Corrupt PROVE [Mirror!Next]_Mirror!vars
<1>1. CASE file' = "torn"
  <2>1. UNCHANGED <<archive, records, pass>> /\ Readable /\ Readable'
    BY <1>1 DEF Corrupt, Readable
  <2>2. [r \in Recs |-> Shown(r)]' = [r \in Recs |-> Shown(r)]
    BY <2>1 DEF Shown
  <2> QED BY <2>1, <2>2 DEF Mirror!vars
<1>2. CASE file' = "corrupt"
  <2>1. \A r \in Recs : Shown(r)' = 0
    BY <1>2 DEF Shown, Readable
  <2> QED BY <2>1, Rebuilds DEF Corrupt, Mirror!Next
<1> QED BY <1>1, <1>2 DEF Corrupt

\* Every behaviour of the index, as readers find it, is one of SearchMirror:
\* SemanticIndex!KeepsMirror, for any constants.
THEOREM KeepsMirrorHolds == Spec => KeepsMirror
<1>1. Init => Mirror!Init
  BY DEF Init, Mirror!Init, Shown, Readable
<1>2. IndexSound /\ [Next]_vars => [Mirror!Next]_Mirror!vars
  <2> SUFFICES ASSUME IndexSound, [Next]_vars PROVE [Mirror!Next]_Mirror!vars
    OBVIOUS
  <2>1. CASE Open
    BY <2>1, OpenMirrored
  <2>2. CASE _documents \/ Purge
    BY <2>2, DocumentsMirrored, PurgeMirrored DEF Mirror!Next
  <2>3. CASE replace
    BY <2>3, ReplaceMirrored DEF Mirror!Next
  <2>4. CASE Plan \/ admit \/ Embed \/ mark_retry \/ EndPass \/ Crash \/ Upgrade
    BY <2>4, StepMirrored, IdleMirrored
  <2>5. CASE \E r \in Recs : Move(r)
    BY <2>5, MoveMirrored DEF Mirror!Next
  <2>6. CASE Corrupt
    BY <2>6, CorruptMirrored
  <2>7. CASE Searching \/ UNCHANGED vars
    BY <2>7, QuietSound, Stutters DEF store
  <2> QED BY <2>1, <2>2, <2>3, <2>4, <2>5, <2>6, <2>7 DEF Next, Pass, Searching
<1> QED BY <1>1, <1>2, IndexSoundHolds, PTL DEF Spec, KeepsMirror, Mirror!Spec

-----------------------------------------------------------------------------
(* Searches *)

Hits == [rec : Recs, ord : Nat, text : 0..MaxVersion, model : Models]

ReaderTypes ==
  reader \in [Readers -> [at : {"idle", "asked", "open", "found"}, model : Models \cup {NoModel},
                          allowed : SUBSET Recs, visible : SUBSET Recs, hits : SUBSET Hits]]

\* A search ranks within what it asked for, which for the MCP is no more than
\* the archive has shown it since; one that is over has left nothing.
ReaderKeeps ==
  \A q \in Readers :
    /\ reader[q].at = "idle" => reader[q] = NoSearch
    /\ \A h \in reader[q].hits : h.rec \in reader[q].allowed
    /\ q \in McpReaders => reader[q].allowed \subseteq reader[q].visible

\* A ranking is of one model, and of every chunk of one version of a recording.
Ranked(H) ==
  /\ \A g, h \in H : g.model = h.model
  /\ \A h \in H : {[ord |-> g.ord, text |-> g.text] : g \in {g \in H : g.rec = h.rec}}
                    = {[ord |-> i, text |-> h.text] : i \in Pieces[h.text]}

ReaderInv == ReaderTypes /\ ReaderKeeps /\ \A q \in Readers : Ranked(reader[q].hits)

Found(S) == UNION {{[rec |-> r, ord |-> c.ord, text |-> c.text, model |-> c.model] : c \in Joined(r)}
                     : r \in S}

\* In a readable index the join of a row with its chunks is all its pieces.
LEMMA JoinedWhole ==
  ASSUME IndexSound, Readable, NEW r \in Recs
  PROVE  /\ records[r].hash = 0 => Joined(r) = {}
         /\ records[r].hash # 0 =>
              Joined(r) = {[gen |-> records[r].gen, ord |-> i, text |-> records[r].hash,
                            model |-> identity] : i \in Pieces[records[r].hash]}
BY DEF IndexSound, IndexWhole, Whole, Joined

\* A hit, then, is a piece of the version its recording's row stands at.
LEMMA FoundIs ==
  ASSUME IndexSound, Readable, NEW S \in SUBSET Recs, NEW h
  PROVE  h \in Found(S) <=>
           \E r \in S : /\ records[r].hash # 0
                        /\ \E i \in Pieces[records[r].hash] :
                             h = [rec |-> r, ord |-> i, text |-> records[r].hash, model |-> identity]
<1>1. h \in Found(S) <=>
        \E r \in S : \E c \in Joined(r) :
          h = [rec |-> r, ord |-> c.ord, text |-> c.text, model |-> c.model]
  BY DEF Found
<1>2. ASSUME NEW r \in S
      PROVE  (\E c \in Joined(r) :
                 h = [rec |-> r, ord |-> c.ord, text |-> c.text, model |-> c.model])
             <=> /\ records[r].hash # 0
                 /\ \E i \in Pieces[records[r].hash] :
                      h = [rec |-> r, ord |-> i, text |-> records[r].hash, model |-> identity]
  <2>0. r \in Recs
    OBVIOUS
  <2>1. CASE records[r].hash = 0
    BY <2>0, <2>1, JoinedWhole
  <2>2. CASE records[r].hash # 0
    <3>1. Joined(r) = {[gen |-> records[r].gen, ord |-> i, text |-> records[r].hash,
                        model |-> identity] : i \in Pieces[records[r].hash]}
      BY <2>0, <2>2, JoinedWhole
    <3> DEFINE C(i) == [gen |-> records[r].gen, ord |-> i, text |-> records[r].hash,
                        model |-> identity]
    <3>2. \A i : /\ C(i).ord = i /\ C(i).text = records[r].hash /\ C(i).model = identity
                 /\ i \in Pieces[records[r].hash] => C(i) \in Joined(r)
      BY <3>1
    <3>3. \A c \in Joined(r) : \E i \in Pieces[records[r].hash] : c = C(i)
      BY <3>1
    <3> HIDE DEF C
    <3> QED BY <2>2, <3>2, <3>3
  <2> QED BY <2>1, <2>2
<1> QED BY <1>1, <1>2

LEMMA FoundRanked ==
  ASSUME IndexSound, Readable, NEW S \in SUBSET Recs
  PROVE  /\ Found(S) \in SUBSET Hits
         /\ \A h \in Found(S) : h.rec \in S
         /\ Ranked(Found(S))
<1>0. /\ identity \in Models
      /\ \A r \in Recs : records[r].hash \in 0..MaxVersion
      /\ \A v \in Versions : Pieces[v] \subseteq Nat
  BY SemanticAssumption DEF IndexSound, TypeOK, PassAware
<1>1. ASSUME NEW h \in Found(S)
      PROVE  /\ h \in Hits /\ h.rec \in S /\ h.model = identity
             /\ h.text = records[h.rec].hash /\ h.text # 0 /\ h.ord \in Pieces[h.text]
             /\ h = [rec |-> h.rec, ord |-> h.ord, text |-> h.text, model |-> identity]
  <2>1. PICK r \in S : /\ records[r].hash # 0
                       /\ \E i \in Pieces[records[r].hash] :
                            h = [rec |-> r, ord |-> i, text |-> records[r].hash, model |-> identity]
    BY FoundIs
  <2>2. PICK i \in Pieces[records[r].hash] :
          h = [rec |-> r, ord |-> i, text |-> records[r].hash, model |-> identity]
    BY <2>1
  <2>3. records[r].hash \in Versions /\ i \in Nat
    BY <1>0, <2>1, SemanticAssumption DEF Versions
  <2>4. records[r].hash \in 0..MaxVersion /\ r \in Recs
    BY <1>0
  <2>5. h.rec = r /\ h.ord = i /\ h.text = records[r].hash /\ h.model = identity
    BY <2>2
  <2>6. h \in Hits
    BY <1>0, <2>2, <2>3, <2>4 DEF Hits
  <2> QED BY <2>1, <2>2, <2>5, <2>6
<1>2. ASSUME NEW h \in Found(S)
      PROVE  {[ord |-> g.ord, text |-> g.text] : g \in {g \in Found(S) : g.rec = h.rec}}
               = {[ord |-> i, text |-> h.text] : i \in Pieces[h.text]}
  <2> DEFINE L == {[ord |-> g.ord, text |-> g.text] : g \in {g \in Found(S) : g.rec = h.rec}}
             R == {[ord |-> i, text |-> h.text] : i \in Pieces[h.text]}
  <2>1. ASSUME NEW e \in L PROVE e \in R
    <3>1. PICK g \in Found(S) : g.rec = h.rec /\ e = [ord |-> g.ord, text |-> g.text]
      OBVIOUS
    <3> QED BY <1>1, <3>1
  <2>2. ASSUME NEW e \in R PROVE e \in L
    <3>1. PICK i \in Pieces[h.text] : e = [ord |-> i, text |-> h.text]
      OBVIOUS
    <3> DEFINE g == [rec |-> h.rec, ord |-> i, text |-> h.text, model |-> identity]
    <3>2. g \in Found(S)
      BY <1>1, FoundIs
    <3>3. g.rec = h.rec /\ e = [ord |-> g.ord, text |-> g.text]
      BY <3>1
    <3> QED BY <3>2, <3>3
  <2> QED BY <2>1, <2>2
<1> QED BY <1>1, <1>2 DEF Ranked

LEMMA InitReaders == Init => ReaderInv
<1> SUFFICES ASSUME Init PROVE ReaderInv
  OBVIOUS
<1>1. ReaderTypes
  BY DEF Init, ReaderTypes, NoSearch
<1>2. ReaderKeeps /\ \A q \in Readers : Ranked(reader[q].hits)
  BY DEF Init, ReaderKeeps, Ranked, NoSearch
<1> QED BY <1>1, <1>2 DEF ReaderInv

\* It is enough to look at the reader that moves.
LEMMA OneReader ==
  ASSUME ReaderInv, NEW q \in Readers, NEW new,
         new \in [at : {"idle", "asked", "open", "found"}, model : Models \cup {NoModel},
                  allowed : SUBSET Recs, visible : SUBSET Recs, hits : SUBSET Hits],
         new.at = "idle" => new = NoSearch,
         \A h \in new.hits : h.rec \in new.allowed,
         q \in McpReaders => new.allowed \subseteq new.visible,
         Ranked(new.hits),
         reader' = [reader EXCEPT ![q] = new]
  PROVE  ReaderInv'
<1>1. ReaderTypes'
  BY DEF ReaderInv, ReaderTypes
<1>2. \A p \in Readers : reader'[p] = IF p = q THEN new ELSE reader[p]
  BY DEF ReaderInv, ReaderTypes
<1>3. ReaderKeeps'
  BY <1>2 DEF ReaderInv, ReaderKeeps
<1>4. \A p \in Readers : Ranked(reader[p].hits)'
  BY <1>2 DEF ReaderInv, Ranked
<1> QED BY <1>1, <1>3, <1>4 DEF ReaderInv

LEMMA BeginReaders == ASSUME ReaderInv, NEW q \in Readers, Begin(q) PROVE ReaderInv'
<1>1. PICK m \in Models :
        reader' = [reader EXCEPT ![q] = [at |-> "asked", model |-> m, allowed |-> Allowed(q),
                                         visible |-> {r \in Recs : archive[r].visible}, hits |-> {}]]
  BY DEF Begin
<1>2. Allowed(q) \in SUBSET Recs
      /\ (q \in McpReaders => Allowed(q) = {r \in Recs : archive[r].visible})
  BY DEF Allowed
<1>3. Ranked({})
  BY DEF Ranked
<1> DEFINE new == [at |-> "asked", model |-> m, allowed |-> Allowed(q),
                   visible |-> {r \in Recs : archive[r].visible}, hits |-> {}]
<1>4. /\ new \in [at : {"idle", "asked", "open", "found"}, model : Models \cup {NoModel},
                  allowed : SUBSET Recs, visible : SUBSET Recs, hits : SUBSET Hits]
      /\ new.at # "idle" /\ new.hits = {}
      /\ q \in McpReaders => new.allowed \subseteq new.visible
  BY <1>2
<1> HIDE DEF new
<1>5. reader' = [reader EXCEPT ![q] = new]
  BY <1>1 DEF new
<1> QED BY <1>3, <1>4, <1>5, OneReader

LEMMA OpenReaders == ASSUME ReaderInv, NEW q \in Readers, OpenReadonly(q) PROVE ReaderInv'
<1> DEFINE new == [reader[q] EXCEPT !.at = "open"]
<1>1. reader' = [reader EXCEPT ![q] = new]
  BY DEF OpenReadonly
<1>2. /\ new \in [at : {"idle", "asked", "open", "found"}, model : Models \cup {NoModel},
                  allowed : SUBSET Recs, visible : SUBSET Recs, hits : SUBSET Hits]
      /\ new.at = "open" /\ new.hits = reader[q].hits
      /\ new.allowed = reader[q].allowed /\ new.visible = reader[q].visible
  BY DEF ReaderInv, ReaderTypes
<1>3. /\ \A h \in reader[q].hits : h.rec \in reader[q].allowed
      /\ q \in McpReaders => reader[q].allowed \subseteq reader[q].visible
      /\ Ranked(reader[q].hits)
  BY DEF ReaderInv, ReaderKeeps
<1> HIDE DEF new
<1> QED BY <1>1, <1>2, <1>3, OneReader

LEMMA RankReaders ==
  ASSUME ReaderInv, IndexSound, NEW q \in Readers, iter_candidates(q)
  PROVE  ReaderInv'
<1> DEFINE H   == Found(reader[q].allowed)
           new == [reader[q] EXCEPT !.at = "found", !.hits = H]
<1>0. Readable /\ reader[q].allowed \in SUBSET Recs
  BY DEF iter_candidates, ReaderInv, ReaderTypes
<1>1. reader' = [reader EXCEPT ![q] = new]
  BY DEF iter_candidates, Found, ReaderInv, ReaderTypes
<1>2. H \in SUBSET Hits /\ (\A h \in H : h.rec \in reader[q].allowed) /\ Ranked(H)
  BY <1>0, FoundRanked
<1> HIDE DEF H
<1>3. /\ new \in [at : {"idle", "asked", "open", "found"}, model : Models \cup {NoModel},
                  allowed : SUBSET Recs, visible : SUBSET Recs, hits : SUBSET Hits]
      /\ new.at = "found" /\ new.hits = H
      /\ new.allowed = reader[q].allowed /\ new.visible = reader[q].visible
  BY <1>2 DEF ReaderInv, ReaderTypes
<1>4. q \in McpReaders => reader[q].allowed \subseteq reader[q].visible
  BY DEF ReaderInv, ReaderKeeps
<1> HIDE DEF new
<1> QED BY <1>1, <1>2, <1>3, <1>4, OneReader

LEMMA FallBackReaders == ASSUME ReaderInv, NEW q \in Readers, FallBack(q) PROVE ReaderInv'
<1>1. reader' = [reader EXCEPT ![q] = NoSearch]
  BY DEF FallBack
<1>2. /\ NoSearch \in [at : {"idle", "asked", "open", "found"}, model : Models \cup {NoModel},
                       allowed : SUBSET Recs, visible : SUBSET Recs, hits : SUBSET Hits]
      /\ NoSearch.hits = {} /\ NoSearch.allowed = {}
  BY DEF NoSearch
<1>3. Ranked({})
  BY DEF Ranked
<1> QED BY <1>1, <1>2, <1>3, OneReader

\* A recording that comes into sight is in sight of the searches under way.
LEMMA MoveReaders == ASSUME ReaderInv, NEW r \in Recs, Move(r) PROVE ReaderInv'
<1>1. CASE reader' = reader
  BY <1>1 DEF ReaderInv, ReaderTypes, ReaderKeeps, Ranked
<1>2. CASE reader' = [q \in Readers |-> [reader[q] EXCEPT !.visible =
                                           IF reader[q].at = "idle" THEN {} ELSE @ \cup {r}]]
  <2>1. ASSUME NEW q \in Readers
        PROVE  /\ reader'[q] \in [at : {"idle", "asked", "open", "found"},
                                  model : Models \cup {NoModel}, allowed : SUBSET Recs,
                                  visible : SUBSET Recs, hits : SUBSET Hits]
               /\ reader'[q].at = reader[q].at /\ reader'[q].hits = reader[q].hits
               /\ reader'[q].allowed = reader[q].allowed
               /\ reader[q].at = "idle" => reader'[q] = NoSearch
               /\ reader[q].at # "idle" => reader[q].visible \subseteq reader'[q].visible
    <3>1. reader[q] \in [at : {"idle", "asked", "open", "found"},
                         model : Models \cup {NoModel}, allowed : SUBSET Recs,
                         visible : SUBSET Recs, hits : SUBSET Hits]
      BY DEF ReaderInv, ReaderTypes
    <3>2. reader'[q] = [reader[q] EXCEPT !.visible =
                          IF reader[q].at = "idle" THEN {} ELSE reader[q].visible \cup {r}]
      BY <1>2
    <3>3. reader[q].at = "idle" => reader[q] = NoSearch
      BY DEF ReaderInv, ReaderKeeps
    <3>4. CASE reader[q].at = "idle"
      BY <3>1, <3>2, <3>3, <3>4 DEF NoSearch
    <3>5. CASE reader[q].at # "idle"
      BY <3>1, <3>2, <3>5
    <3> QED BY <3>4, <3>5
  <2>2. ReaderTypes'
    BY <1>2, <2>1 DEF ReaderTypes
  <2>3. ReaderKeeps'
    <3> SUFFICES ASSUME NEW q \in Readers
                 PROVE  /\ reader'[q].at = "idle" => reader'[q] = NoSearch
                        /\ \A h \in reader'[q].hits : h.rec \in reader'[q].allowed
                        /\ q \in McpReaders => reader'[q].allowed \subseteq reader'[q].visible
      BY DEF ReaderKeeps, NoSearch
    <3>1. /\ \A h \in reader[q].hits : h.rec \in reader[q].allowed
          /\ q \in McpReaders => reader[q].allowed \subseteq reader[q].visible
          /\ reader[q].at = "idle" => reader[q] = NoSearch
      BY DEF ReaderInv, ReaderKeeps
    <3>2. CASE reader[q].at = "idle"
      BY <2>1, <3>1, <3>2 DEF NoSearch
    <3>3. CASE reader[q].at # "idle"
      BY <2>1, <3>1, <3>3
    <3> QED BY <3>2, <3>3
  <2>4. \A q \in Readers : Ranked(reader[q].hits)'
    BY <2>1 DEF ReaderInv, Ranked
  <2> QED BY <2>2, <2>3, <2>4 DEF ReaderInv
<1> QED BY <1>1, <1>2 DEF Move

LEMMA RankingWhole == ReaderInv => AnswersWhole
<1> SUFFICES ASSUME ReaderInv, NEW q \in Readers
             PROVE  /\ \A g, h \in reader[q].hits : g.model = h.model
                    /\ \A h \in reader[q].hits :
                         {[ord |-> g.ord, text |-> g.text] : g \in HitsOf(q, h.rec)}
                           = {[ord |-> i, text |-> h.text] : i \in Pieces[h.text]}
                    /\ q \in McpReaders => {h.rec : h \in reader[q].hits} \subseteq reader[q].visible
  BY DEF AnswersWhole
<1>1. Ranked(reader[q].hits)
  BY DEF ReaderInv
<1>2. \A h \in reader[q].hits : HitsOf(q, h.rec) = {g \in reader[q].hits : g.rec = h.rec}
  BY DEF HitsOf
<1>3. q \in McpReaders => {h.rec : h \in reader[q].hits} \subseteq reader[q].visible
  BY DEF ReaderInv, ReaderKeeps
<1> QED BY <1>1, <1>2, <1>3 DEF Ranked

\* Whatever passes, restarts, upgrades and edits go on meanwhile, a search
\* ranks whole versions by one model, and one of the MCP nothing its caller
\* could not see while it ran: SemanticIndex!AnswersWhole.
THEOREM AnswersWholeHolds == Spec => []AnswersWhole
<1>1. IndexSound /\ ReaderInv /\ [Next]_vars => ReaderInv'
  <2> SUFFICES ASSUME IndexSound, ReaderInv, [Next]_vars PROVE ReaderInv'
    OBVIOUS
  <2>1. CASE \E q \in Readers : Begin(q) \/ OpenReadonly(q) \/ iter_candidates(q) \/ FallBack(q)
    BY <2>1, BeginReaders, OpenReaders, RankReaders, FallBackReaders
  <2>2. CASE \E r \in Recs : Move(r)
    BY <2>2, MoveReaders
  <2>3. CASE reader' = reader
    BY <2>3 DEF ReaderInv, ReaderTypes, ReaderKeeps, Ranked
  <2>4. Pass \/ mark_retry \/ Crash \/ Upgrade \/ Corrupt \/ UNCHANGED vars => reader' = reader
    BY DEF Pass, Open, _documents, Purge, Plan, admit, Embed, replace, EndPass, mark_retry, Crash,
           Upgrade, Corrupt, vars
  <2> QED BY <2>1, <2>2, <2>3, <2>4 DEF Next
<1> QED BY <1>1, InitReaders, IndexSoundHolds, RankingWhole, PTL DEF Spec

-----------------------------------------------------------------------------
(* SearchHeap: one pass with a bounded heap finds the best of all *)

\* Numbers have a least one: what induction comes to here.
LEMMA Least ==
  ASSUME NEW T \in SUBSET Nat, T # {}
  PROVE  \E x \in T : \A y \in T : x <= y
<1> DEFINE R == {ss \in Nat \X Nat : ss[1] < ss[2]}
<1>1. IsWellFoundedOn(R, Nat)
  BY NatLessThanWellFounded DEF OpToRel
<1>2. PICK x \in T : \A y \in T : ~ (<<y, x>> \in R)
  <2> HIDE DEF R
  <2> QED BY <1>1, WFMin, Zenon
<1>3. \A y \in T : ~ (y < x)
  BY <1>2
<1> QED BY <1>3

\* Chunks with their scores.
Candidates == [rec : Int, ord : Int, score : Int]

\* rank_key orders them, each one of its own place.
LEMMA RankOrders ==
  ASSUME NEW a \in Candidates, NEW b \in Candidates, NEW c \in Candidates
  PROVE  /\ ~ rank_key(a, a)
         /\ rank_key(a, b) => ~ rank_key(b, a)
         /\ rank_key(a, b) /\ rank_key(b, c) => rank_key(a, c)
         /\ a # b => rank_key(a, b) \/ rank_key(b, a)
<1>1. a # b => a.rec # b.rec \/ a.ord # b.ord \/ a.score # b.score
  BY DEF Candidates
<1> QED BY <1>1 DEF rank_key, Candidates

\* Those of a set ahead of a candidate.
Ahead(all, c) == {d \in all : rank_key(d, c)}

\* Of finitely many, finitely many are ahead.
LEMMA AheadFinite ==
  ASSUME NEW all, IsFiniteSet(all), NEW c
  PROVE  IsFiniteSet(Ahead(all, c)) /\ Cardinality(Ahead(all, c)) \in Nat
BY FS_Subset, FS_CardinalityType DEF Ahead

\* Whoever is ahead of one who is ahead has fewer ahead itself.
LEMMA AheadShrinks ==
  ASSUME NEW all \in SUBSET Candidates, IsFiniteSet(all), NEW c \in Candidates, NEW d \in all,
         rank_key(d, c)
  PROVE  /\ Ahead(all, d) \subseteq Ahead(all, c)
         /\ Cardinality(Ahead(all, d)) < Cardinality(Ahead(all, c))
<1>1. Ahead(all, d) \subseteq Ahead(all, c) /\ d \in Ahead(all, c) /\ d \notin Ahead(all, d)
  BY RankOrders DEF Ahead
<1>2. Ahead(all, d) # Ahead(all, c)
  BY <1>1
<1> QED BY <1>1, <1>2, AheadFinite, FS_Subset, FS_CardinalityType

\* A finite set of candidates has a first.
LEMMA FirstOf ==
  ASSUME NEW all \in SUBSET Candidates, IsFiniteSet(all), all # {}
  PROVE  \E c \in all : \A d \in all : ~ rank_key(d, c)
<1> DEFINE Ranks == {Cardinality(Ahead(all, c)) : c \in all}
<1>1. Ranks \in SUBSET Nat /\ Ranks # {}
  BY AheadFinite
<1>2. PICK n \in Ranks : \A m \in Ranks : n <= m
  <2> HIDE DEF Ranks
  <2> QED BY <1>1, Least
<1>3. PICK c \in all : n = Cardinality(Ahead(all, c))
  BY <1>2
<1>4. ASSUME NEW d \in all, rank_key(d, c) PROVE FALSE
  <2>1. Cardinality(Ahead(all, d)) < n
    BY <1>3, <1>4, AheadShrinks
  <2>2. Cardinality(Ahead(all, d)) \in Ranks /\ n \in Nat /\ Cardinality(Ahead(all, d)) \in Nat
    BY <1>1, <1>2
  <2> HIDE DEF Ranks
  <2> QED BY <1>2, <2>1, <2>2
<1> QED BY <1>4

\* A finite set of candidates has a last.
LEMMA LastOf ==
  ASSUME NEW all \in SUBSET Candidates, IsFiniteSet(all), all # {}
  PROVE  \E c \in all : \A d \in all \ {c} : rank_key(d, c)
<1> DEFINE Behind(c) == {d \in all : rank_key(c, d)}
           Ranks == {Cardinality(Behind(c)) : c \in all}
<1>1. \A c \in all : IsFiniteSet(Behind(c)) /\ Cardinality(Behind(c)) \in Nat
  BY FS_Subset, FS_CardinalityType
<1>2. Ranks \in SUBSET Nat /\ Ranks # {}
  BY <1>1
<1>3. PICK n \in Ranks : \A m \in Ranks : n <= m
  <2> HIDE DEF Ranks
  <2> QED BY <1>2, Least
<1>4. PICK c \in all : n = Cardinality(Behind(c))
  BY <1>3
<1>5. ASSUME NEW d \in all \ {c}, ~ rank_key(d, c) PROVE FALSE
  <2>1. rank_key(c, d)
    BY <1>5, RankOrders
  <2>2. Behind(d) \subseteq Behind(c) /\ d \in Behind(c) /\ d \notin Behind(d)
    BY <2>1, RankOrders
  <2>3. Cardinality(Behind(d)) < Cardinality(Behind(c))
    <3>1. Behind(d) # Behind(c) /\ Behind(d) \subseteq Behind(c)
      BY <2>2
    <3> HIDE DEF Behind
    <3> QED BY <1>1, <3>1, FS_Subset, FS_CardinalityType
  <2>4. Cardinality(Behind(d)) \in Ranks
    OBVIOUS
  <2> HIDE DEF Behind, Ranks
  <2> QED BY <1>1, <1>2, <1>3, <1>4, <2>3, <2>4
<1> QED BY <1>5

\* Top, by those ahead.
LEMMA TopIs ==
  ASSUME NEW all, NEW k
  PROVE  Top(all, k) = {c \in all : Cardinality(Ahead(all, c)) < k}
BY DEF Top, Ahead

\* There are never more of the best than were asked for, and fewer only when
\* there are no more.
LEMMA TopSize ==
  ASSUME NEW all \in SUBSET Candidates, IsFiniteSet(all), NEW k \in Nat
  PROVE  /\ IsFiniteSet(Top(all, k)) /\ Cardinality(Top(all, k)) \in 0 .. k
         /\ Cardinality(Top(all, k)) < k => Top(all, k) = all
<1> DEFINE top == Top(all, k)
<1>1. top \subseteq all /\ IsFiniteSet(top) /\ Cardinality(top) \in Nat
  BY FS_Subset, FS_CardinalityType DEF Top
<1>2. Cardinality(top) <= k
  <2>1. CASE top = {}
    BY <2>1, FS_EmptySet
  <2>2. CASE top # {}
    <3>1. PICK c \in top : \A d \in top \ {c} : rank_key(d, c)
      <4> HIDE DEF top
      <4> QED BY <1>1, <2>2, LastOf
    <3>2. Cardinality(Ahead(all, c)) < k /\ c \in all
      BY <3>1, TopIs
    <3>3. top \ {c} \subseteq Ahead(all, c)
      BY <1>1, <3>1 DEF Ahead
    <3>4. Cardinality(top \ {c}) <= Cardinality(Ahead(all, c))
      BY <3>3, AheadFinite, FS_Subset
    <3>5. Cardinality(top \ {c}) = Cardinality(top) - 1
      <4> HIDE DEF top
      <4> QED BY <1>1, <3>1, FS_RemoveElement
    <3>6. Cardinality(Ahead(all, c)) \in Nat
      BY AheadFinite
    <3> HIDE DEF top
    <3> QED BY <1>1, <3>2, <3>4, <3>5, <3>6
  <2> QED BY <2>1, <2>2
<1>3. ASSUME Cardinality(top) < k, top # all PROVE FALSE
  <2> DEFINE left == all \ top
  <2>1. left \in SUBSET Candidates /\ IsFiniteSet(left) /\ left # {}
    <3> HIDE DEF top
    <3> QED BY <1>1, <1>3, FS_Subset
  <2>2. PICK c \in left : \A d \in left : ~ rank_key(d, c)
    <3> HIDE DEF left
    <3> QED BY <2>1, FirstOf
  <2>3. Ahead(all, c) \subseteq top
    BY <2>2 DEF Ahead
  <2>4. Cardinality(Ahead(all, c)) <= Cardinality(top) /\ Cardinality(Ahead(all, c)) \in Nat
    BY <1>1, <2>3, AheadFinite, FS_Subset
  <2>5. c \in all /\ Cardinality(Ahead(all, c)) < k
    <3> HIDE DEF top
    <3> QED BY <1>1, <1>3, <2>2, <2>4
  <2>6. c \in top
    BY <2>5, TopIs
  <2> QED BY <2>2, <2>6
<1> QED BY <1>1, <1>2, <1>3

\* One more hit than the heap holds: the worst of them all goes, and what stays
\* are the best of all there have been.
LEMMA RetainTop ==
  ASSUME NEW all \in SUBSET Candidates, IsFiniteSet(all), NEW b \in Candidates \ all,
         NEW k \in Nat
  PROVE  retain(Top(all, k), {b}, k) = Top(all \cup {b}, k)
<1> DEFINE top == Top(all, k)
           more == all \cup {b}
           pushed == top \cup {b}
           Worst(h) == \A g \in pushed \ {h} : rank_key(g, h)
<1>1. retain(Top(all, k), {b}, k) = IF Cardinality(pushed) > k THEN {h \in pushed : ~Worst(h)} ELSE pushed
  BY DEF retain
<1>2. /\ more \in SUBSET Candidates /\ IsFiniteSet(more)
      /\ IsFiniteSet(top) /\ Cardinality(top) \in 0 .. k /\ top \subseteq all
      /\ Cardinality(top) < k => top = all
  BY TopSize, FS_AddElement DEF Top
<1>3. /\ IsFiniteSet(pushed) /\ Cardinality(pushed) = Cardinality(top) + 1
      /\ pushed \subseteq more
  <2> HIDE DEF top
  <2> QED BY <1>2, FS_AddElement
<1>4. \A c \in all : c \in top <=> Cardinality(Ahead(all, c)) < k
  BY TopIs
<1>5. \A c \in more : c \in Top(more, k) <=> Cardinality(Ahead(more, c)) < k
  BY TopIs
<1>6. Top(more, k) \subseteq more
  BY DEF Top
<1>7. \A c \in Candidates : /\ IsFiniteSet(Ahead(more, c)) /\ Cardinality(Ahead(more, c)) \in Nat
                            /\ IsFiniteSet(Ahead(all, c)) /\ Cardinality(Ahead(all, c)) \in Nat
  BY <1>2, AheadFinite
<1>8. CASE Cardinality(pushed) <= k
  <2>1. Cardinality(top) < k
    <3> HIDE DEF top, pushed
    <3> QED BY <1>2, <1>3, <1>8
  <2>2. pushed = more
    BY <1>2, <2>1
  <2>3. ASSUME NEW c \in more PROVE c \in Top(more, k)
    <3>1. Ahead(more, c) \subseteq more \ {c}
      BY <1>2, RankOrders DEF Ahead
    <3>2. Cardinality(more \ {c}) = Cardinality(more) - 1 /\ IsFiniteSet(more \ {c})
      <4> HIDE DEF more
      <4> QED BY <1>2, FS_RemoveElement
    <3>3. Cardinality(Ahead(more, c)) <= Cardinality(more \ {c})
      BY <3>1, <3>2, FS_Subset
    <3>4. Cardinality(more) <= k /\ Cardinality(more) \in Nat
      BY <1>2, <1>8, <2>2, FS_CardinalityType
    <3>5. Cardinality(Ahead(more, c)) \in Nat
      BY <1>2, <1>7
    <3> HIDE DEF more
    <3> QED BY <1>5, <3>2, <3>3, <3>4, <3>5
  <2>4. Top(more, k) = more
    BY <1>6, <2>3
  <2>5. ~ (Cardinality(pushed) > k)
    <3> HIDE DEF pushed
    <3> QED BY <1>2, <1>3, <1>8
  <2> QED BY <1>1, <2>2, <2>4, <2>5
<1>9. CASE Cardinality(pushed) > k
  <2>1. Cardinality(top) = k /\ Cardinality(pushed) = k + 1
    <3> HIDE DEF top, pushed
    <3> QED BY <1>2, <1>3, <1>9
  <2>2. ASSUME NEW c \in Top(more, k) PROVE c \in pushed
    <3>1. CASE c = b
      BY <3>1
    <3>2. CASE c # b
      <4>1. c \in all /\ c \in Candidates
        BY <1>6, <3>2
      <4>2. Ahead(all, c) \subseteq Ahead(more, c)
        BY DEF Ahead
      <4>3. Cardinality(Ahead(all, c)) <= Cardinality(Ahead(more, c))
        BY <1>7, <4>1, <4>2, FS_Subset
      <4>4. Cardinality(Ahead(more, c)) < k
        BY <1>5, <1>6
      <4> HIDE DEF top, more
      <4> QED BY <1>4, <1>7, <4>1, <4>3, <4>4
    <3> QED BY <3>1, <3>2
  <2>3. ASSUME NEW c \in pushed, Worst(c) PROVE c \notin Top(more, k)
    <3>1. pushed \ {c} \subseteq Ahead(more, c)
      BY <1>3, <2>3 DEF Ahead
    <3>2. Cardinality(pushed \ {c}) = k
      <4> HIDE DEF pushed
      <4>1. Cardinality(pushed \ {c}) = Cardinality(pushed) - 1
        BY <1>3, FS_RemoveElement
      <4> QED BY <2>1, <4>1
    <3>3. c \in more /\ c \in Candidates
      BY <1>2, <1>3
    <3>4. k <= Cardinality(Ahead(more, c))
      <4> HIDE DEF pushed, more
      <4> QED BY <1>7, <3>1, <3>2, <3>3, FS_Subset
    <3> HIDE DEF more, pushed
    <3> QED BY <1>5, <1>7, <3>3, <3>4
  <2>4. ASSUME NEW t \in top, NEW d \in all, rank_key(d, t) PROVE d \in top
    <3>1. t \in all /\ t \in Candidates /\ d \in Candidates
      BY <1>2
    <3>2. Cardinality(Ahead(all, d)) < Cardinality(Ahead(all, t))
      BY <2>4, <3>1, AheadShrinks
    <3> HIDE DEF top
    <3> QED BY <1>4, <1>7, <2>4, <3>1, <3>2
  <2>5. ASSUME NEW c \in pushed, ~Worst(c) PROVE c \in Top(more, k)
    <3>1. PICK t \in pushed \ {c} : ~ rank_key(t, c)
      BY <2>5
    <3>2. c \in more /\ t \in more /\ c \in Candidates /\ t \in Candidates /\ rank_key(c, t)
      BY <1>2, <1>3, <3>1, RankOrders
    <3>3. ASSUME NEW d \in Ahead(more, c) PROVE d \in pushed \ {c, t}
      <4>1. d \in more /\ d \in Candidates /\ rank_key(d, c)
        BY <1>2 DEF Ahead
      <4>2. d # c /\ d # t
        BY <3>1, <4>1, <3>2, RankOrders
      <4>3. rank_key(d, t)
        BY <3>2, <4>1, RankOrders
      <4>4. d \in pushed
        <5>1. CASE c \in top
          BY <2>4, <4>1, <5>1
        <5>2. CASE c \notin top
          <6>1. t \in top
            BY <3>1, <5>2
          <6> QED BY <2>4, <4>1, <4>3, <6>1
        <5> QED BY <5>1, <5>2
      <4> QED BY <4>2, <4>4
    <3>4. Cardinality(pushed \ {c, t}) = k - 1 /\ IsFiniteSet(pushed \ {c, t})
      <4> HIDE DEF pushed
      <4>0. IsFiniteSet(pushed \ {c}) /\ Cardinality(pushed \ {c}) = Cardinality(pushed) - 1
        BY <1>3, FS_RemoveElement
      <4>1. IsFiniteSet(pushed \ {c}) /\ Cardinality(pushed \ {c}) = k
        BY <2>1, <4>0
      <4>2. IsFiniteSet((pushed \ {c}) \ {t}) /\ Cardinality((pushed \ {c}) \ {t}) = k - 1
        BY <3>1, <4>1, FS_RemoveElement
      <4>3. pushed \ {c, t} = (pushed \ {c}) \ {t}
        OBVIOUS
      <4> QED BY <4>2, <4>3
    <3>5. Cardinality(Ahead(more, c)) <= k - 1
      <4>1. Ahead(more, c) \subseteq pushed \ {c, t}
        BY <3>3
      <4> HIDE DEF pushed, more
      <4> QED BY <3>4, <4>1, FS_Subset
    <3> HIDE DEF more
    <3> QED BY <1>5, <1>7, <3>2, <3>5
  <2>6. Top(more, k) = {h \in pushed : ~Worst(h)}
    <3> HIDE DEF pushed, Worst, more
    <3> QED BY <2>2, <2>3, <2>5
  <2> QED BY <1>1, <1>9, <2>6
<1>10. Cardinality(pushed) <= k \/ Cardinality(pushed) > k
  <2> HIDE DEF pushed
  <2> QED BY <1>2, <1>3
<1> QED BY <1>8, <1>9, <1>10

\* Nothing more: the heap stays.
LEMMA RetainNone ==
  ASSUME NEW all \in SUBSET Candidates, IsFiniteSet(all), NEW k \in Nat
  PROVE  retain(Top(all, k), {}, k) = Top(all, k)
<1> DEFINE top == Top(all, k)
<1>1. Cardinality(top) \in 0 .. k
  BY TopSize
<1>2. retain(top, {}, k) = IF Cardinality(top \cup {}) > k
                           THEN {h \in top \cup {} : ~ \A g \in (top \cup {}) \ {h} : rank_key(g, h)}
                           ELSE top \cup {}
  BY DEF retain
<1> HIDE DEF top
<1>3. top \cup {} = top
  OBVIOUS
<1>4. ~ (Cardinality(top \cup {}) > k)
  BY <1>1, <1>3
<1>5. retain(top, {}, k) = top
  BY <1>2, <1>3, <1>4
<1> QED BY <1>5 DEF top

\* What the pass has of the recording it is in, and of the ones before.
Own(seen, min_score, r)  == {c \in Best(seen, min_score) : c.rec = r}
Past(seen, min_score, r) == {c \in Best(seen, min_score) : c.rec # r}

\* There is at most one best of a recording, and one as soon as a chunk of it
\* is good enough.
LEMMA OwnIs ==
  ASSUME NEW seen \in SUBSET Candidates, IsFiniteSet(seen), NEW min_score \in Int, NEW r
  PROVE  /\ Own(seen, min_score, r) \subseteq seen
         /\ \A a, b \in Own(seen, min_score, r) : a = b
         /\ \A c \in seen : c.rec = r /\ c.score >= min_score =>
              \E h \in Own(seen, min_score, r) : h = c \/ rank_key(h, c)
<1>1. Own(seen, min_score, r) \subseteq seen
  BY DEF Own, Best
<1>2. ASSUME NEW a \in Own(seen, min_score, r), NEW b \in Own(seen, min_score, r) PROVE a = b
  <2>1. a \in seen /\ b \in seen /\ a.rec = b.rec /\ ~ rank_key(a, b) /\ ~ rank_key(b, a)
    BY <1>1 DEF Own, Best
  <2> QED BY <2>1, RankOrders
<1>3. ASSUME NEW c \in seen, c.rec = r, c.score >= min_score
      PROVE  \E h \in Own(seen, min_score, r) : h = c \/ rank_key(h, c)
  <2> DEFINE same == {d \in seen : d.rec = r}
  <2>1. same \in SUBSET Candidates /\ IsFiniteSet(same) /\ c \in same
    BY <1>3, FS_Subset
  <2>2. PICK h \in same : \A d \in same : ~ rank_key(d, h)
    <3> HIDE DEF same
    <3> QED BY <2>1, FirstOf
  <2>3. ~ rank_key(c, h) /\ h \in Candidates /\ c \in Candidates /\ h.rec = r /\ h \in seen
    BY <2>1, <2>2
  <2>4. h = c \/ rank_key(h, c)
    BY <2>3, RankOrders
  <2>5. h.score >= min_score
    <3>1. ~ (c.score > h.score)
      BY <2>3 DEF rank_key
    <3> QED BY <1>3, <2>3, <3>1 DEF Candidates
  <2>6. h \in Own(seen, min_score, r)
    BY <2>2, <2>3, <2>5 DEF Own, Best
  <2> QED BY <2>4, <2>6
<1> QED BY <1>1, <1>2, <1>3

\* One candidate more keeps what the pass has: the best of its own recording so
\* far, and the best of what is over.
LEMMA ScoredStep ==
  ASSUME NEW seen \in SUBSET Candidates, IsFiniteSet(seen), NEW x \in Candidates \ seen,
         NEW k \in Nat, NEW min_score \in Int, NEW y \in Int,
         \A c \in seen : c.rec <= y, y <= x.rec
  PROVE  Scored([hits |-> Top(Past(seen, min_score, y), k), best |-> Own(seen, min_score, y)],
                x, k, min_score)
         = [hits |-> Top(Past(seen \cup {x}, min_score, x.rec), k),
            best |-> Own(seen \cup {x}, min_score, x.rec)]
<1> DEFINE own == Own(seen, min_score, y)
           past == Past(seen, min_score, y)
           now == seen \cup {x}
           changed == own # {} /\ \A h \in own : h.rec # x.rec
           kept == IF changed THEN {} ELSE own
           better == x.score >= min_score /\ \A h \in kept : rank_key(x, h)
<1>1. Scored([hits |-> Top(past, k), best |-> own], x, k, min_score)
        = [hits |-> IF changed THEN retain(Top(past, k), own, k) ELSE Top(past, k),
           best |-> IF better THEN {x} ELSE kept]
  BY DEF Scored
<1>2. /\ own \subseteq seen /\ \A h \in own : h.rec = y
      /\ \A a, b \in own : a = b
      /\ past \subseteq seen /\ IsFiniteSet(past) /\ past \in SUBSET Candidates
      /\ Best(seen, min_score) = past \cup own /\ past \cap own = {}
  BY OwnIs, FS_Subset DEF Own, Past, Best
<1>3. /\ x.rec \in Int /\ x.score \in Int
      /\ \A c \in seen : c.rec \in Int /\ c.score \in Int
  BY DEF Candidates
<1>4. CASE y # x.rec
  <2>1. \A c \in seen : c.rec # x.rec
    BY <1>3, <1>4
  <2>2. ~ rank_key(x, x)
    BY RankOrders
  <2>3. \A c : c \in Best(now, min_score) <=> c \in Best(seen, min_score) \/ (c = x /\ x.score >= min_score)
    BY <2>1, <2>2 DEF Best
  <2>4. Past(now, min_score, x.rec) = past \cup own
    <3>1. Past(now, min_score, x.rec) = Best(seen, min_score)
      BY <2>1, <2>3 DEF Past, Best
    <3> QED BY <1>2, <3>1
  <2>5. Own(now, min_score, x.rec) = IF x.score >= min_score THEN {x} ELSE {}
    <3>1. \A c \in Best(seen, min_score) : c.rec # x.rec
      BY <2>1 DEF Best
    <3>2. \A c : c \in Own(now, min_score, x.rec) <=> c = x /\ x.score >= min_score
      <4> HIDE DEF now
      <4> QED BY <2>3, <3>1 DEF Own
    <3> DEFINE mine == Own(now, min_score, x.rec)
    <3> HIDE DEF mine
    <3>3. CASE x.score >= min_score
      BY <3>2, <3>3 DEF mine
    <3>4. CASE ~ (x.score >= min_score)
      BY <3>2, <3>4 DEF mine
    <3> QED BY <3>3, <3>4
  <2> HIDE DEF own, past, now
  <2>6. kept = {} /\ (changed <=> own # {})
    BY <1>2, <1>4
  <2>7. (IF better THEN {x} ELSE kept) = Own(now, min_score, x.rec)
    BY <2>5, <2>6
  <2>8. (IF changed THEN retain(Top(past, k), own, k) ELSE Top(past, k)) = Top(past \cup own, k)
    <3>1. CASE own = {}
      <4>1. past \cup own = past
        BY <3>1
      <4> QED BY <2>6, <3>1, <4>1
    <3>2. CASE own # {}
      <4>1. PICK b \in own : own = {b}
        BY <1>2, <3>2
      <4>2. b \in Candidates \ past
        BY <1>2
      <4>3. retain(Top(past, k), {b}, k) = Top(past \cup {b}, k)
        BY <1>2, <4>2, RetainTop
      <4> QED BY <2>6, <3>2, <4>1, <4>3
    <3> QED BY <3>1, <3>2
  <2> HIDE DEF changed, better, kept
  <2> QED BY <1>1, <2>4, <2>7, <2>8 DEF own, past, now
<1>5. CASE y = x.rec
  <2>1. ~ changed /\ kept = own
    <3> HIDE DEF own
    <3> QED BY <1>2, <1>5
  <2>2. Past(now, min_score, x.rec) = past
    BY <1>5 DEF Past, Best
  <2>3. Own(now, min_score, x.rec) = IF better THEN {x} ELSE own
    <3>1. CASE better
      <4>1. x.score >= min_score /\ \A h \in own : rank_key(x, h)
        BY <2>1, <3>1
      <4>2. ASSUME NEW d \in seen, d.rec = x.rec PROVE rank_key(x, d) /\ ~ rank_key(d, x)
        <5>1. CASE d.score >= min_score
          <6>1. PICK h \in own : h = d \/ rank_key(h, d)
            BY <1>5, <4>2, <5>1, OwnIs
          <6>2. rank_key(x, h) /\ h \in Candidates
            BY <1>2, <4>1
          <6> QED BY <6>1, <6>2, RankOrders
        <5>2. CASE ~ (d.score >= min_score)
          <6>1. x.score > d.score
            BY <1>3, <4>1, <5>2
          <6>2. rank_key(x, d)
            BY <6>1 DEF rank_key
          <6> QED BY <6>2, RankOrders
        <5> QED BY <5>1, <5>2
      <4>3. x \in Own(now, min_score, x.rec)
        BY <4>1, <4>2, RankOrders DEF Own, Best
      <4>4. ASSUME NEW c \in Own(now, min_score, x.rec) PROVE c = x
        <5>1. c \in now /\ c.rec = x.rec /\ ~ rank_key(x, c)
          BY DEF Own, Best
        <5> QED BY <4>2, <5>1
      <4> QED BY <3>1, <4>3, <4>4
    <3>2. CASE ~ better
      <4>1. x.score >= min_score => \E h \in own : ~ rank_key(x, h)
        BY <2>1, <3>2
      <4>2. ASSUME NEW h \in own PROVE h.score >= min_score /\ ~ rank_key(x, h)
        <5>1. h.score >= min_score /\ h \in seen
          BY DEF Own, Best
        <5>2. x.score >= min_score => ~ rank_key(x, h)
          BY <1>2, <4>1
        <5>3. ~ (x.score >= min_score) => ~ rank_key(x, h)
          BY <1>3, <5>1 DEF rank_key
        <5> QED BY <5>1, <5>2, <5>3
      <4>3. x \notin Own(now, min_score, x.rec)
        <5>1. CASE x.score >= min_score
          <6>1. PICK h \in own : ~ rank_key(x, h)
            BY <4>1, <5>1
          <6>2. h \in seen /\ h # x /\ h.rec = x.rec /\ h \in Candidates
            BY <1>2, <1>5
          <6>3. rank_key(h, x)
            BY <6>1, <6>2, RankOrders
          <6> QED BY <6>2, <6>3 DEF Own, Best
        <5>2. CASE ~ (x.score >= min_score)
          BY <5>2 DEF Own, Best
        <5> QED BY <5>1, <5>2
      <4>4. ASSUME NEW h \in own PROVE h \in Own(now, min_score, x.rec)
        BY <1>5, <4>2 DEF Own, Best
      <4>5. ASSUME NEW c \in Own(now, min_score, x.rec) PROVE c \in own
        <5>1. c # x
          BY <4>3
        <5> QED BY <1>5, <5>1 DEF Own, Best
      <4> QED BY <3>2, <4>4, <4>5
    <3> QED BY <3>1, <3>2
  <2> HIDE DEF changed, better, kept, own, past, now
  <2> QED BY <1>1, <2>1, <2>2, <2>3 DEF own, past, now
<1> QED BY <1>4, <1>5

\* The same for the first candidate of all, whatever recording the pass was in.
LEMMA TurnIs ==
  ASSUME NEW seen \in SUBSET Candidates, IsFiniteSet(seen), NEW x \in Candidates \ seen,
         NEW k \in Nat, NEW min_score \in Int, NEW y \in Int,
         \A c \in seen : c.rec <= y, seen = {} \/ y <= x.rec
  PROVE  Scored([hits |-> Top(Past(seen, min_score, y), k), best |-> Own(seen, min_score, y)],
                x, k, min_score)
         = [hits |-> Top(Past(seen \cup {x}, min_score, x.rec), k),
            best |-> Own(seen \cup {x}, min_score, x.rec)]
<1>1. CASE y <= x.rec
  BY <1>1, ScoredStep
<1>2. CASE seen = {}
  <2>1. /\ Past(seen, min_score, y) = Past(seen, min_score, x.rec)
        /\ Own(seen, min_score, y) = Own(seen, min_score, x.rec)
    BY <1>2 DEF Past, Own, Best
  <2> DEFINE z == x.rec
  <2>2. z \in Int /\ z <= z /\ z <= x.rec
    BY DEF Candidates
  <2>3. \A c \in seen : c.rec <= z
    BY <1>2
  <2> HIDE DEF z
  <2>4. Scored([hits |-> Top(Past(seen, min_score, z), k), best |-> Own(seen, min_score, z)],
               x, k, min_score)
         = [hits |-> Top(Past(seen \cup {x}, min_score, x.rec), k),
            best |-> Own(seen \cup {x}, min_score, x.rec)]
    BY <2>2, <2>3, ScoredStep
  <2> QED BY <2>1, <2>4 DEF z
<1> QED BY <1>1, <1>2

\* A candidate is of a later recording than those before it, or of a later place.
LEMMA Before ==
  ASSUME NEW candidates \in Seq(Candidates), ByRecording(candidates),
         NEW i \in DOMAIN candidates, NEW j \in DOMAIN candidates, j < i
  PROVE  candidates[j].rec <= candidates[i].rec /\ candidates[j] # candidates[i]
<1> DEFINE a == candidates[j]
           b == candidates[i]
<1>1. a \in Candidates /\ b \in Candidates
  OBVIOUS
<1>2. a.rec < b.rec \/ (a.rec = b.rec /\ a.ord < b.ord)
  BY DEF ByRecording
<1> HIDE DEF a, b
<1>3. a.rec \in Int /\ b.rec \in Int /\ a.ord \in Int /\ b.ord \in Int
  BY <1>1 DEF Candidates
<1>4. a.rec <= b.rec /\ a # b
  BY <1>2, <1>3
<1> QED BY <1>4 DEF a, b

\* What has been read after i candidates, and the recording the pass is in.
Seen(candidates, i) == {candidates[j] : j \in 1 .. i}
Now(candidates, i)  == IF i = 0 THEN 0 ELSE candidates[i].rec

\* What has been read is a finite set of candidates, and grows by one at a time.
LEMMA SeenIs ==
  ASSUME NEW candidates \in Seq(Candidates), NEW i \in 0 .. Len(candidates)
  PROVE  /\ Seen(candidates, i) \in SUBSET Candidates /\ IsFiniteSet(Seen(candidates, i))
         /\ Now(candidates, i) \in Int
         /\ i < Len(candidates) => Seen(candidates, i + 1) = Seen(candidates, i) \cup {candidates[i + 1]}
<1>1. \A j \in 1 .. i : candidates[j] \in Candidates
  OBVIOUS
<1>2. IsFiniteSet(Seen(candidates, i))
  <2> DEFINE f == [j \in 1 .. i |-> candidates[j]]
  <2>1. f \in Surjection(1 .. i, Seen(candidates, i))
    BY DEF Surjection, Seen
  <2>2. IsFiniteSet(1 .. i)
    BY FS_Interval
  <2> HIDE DEF f
  <2> QED BY <2>1, <2>2, FS_Surjection
<1>3. Now(candidates, i) \in Int
  <2>1. i # 0 => candidates[i] \in Candidates
    OBVIOUS
  <2> QED BY <2>1 DEF Now, Candidates
<1>4. ASSUME i < Len(candidates)
      PROVE  Seen(candidates, i + 1) = Seen(candidates, i) \cup {candidates[i + 1]}
  <2>1. 1 .. i + 1 = 1 .. i \cup {i + 1}
    OBVIOUS
  <2> QED BY <2>1 DEF Seen
<1> QED BY <1>1, <1>2, <1>3, <1>4 DEF Seen

\* The heap of the pass is what Best and Top say, however many chunks the index
\* holds, whatever their scores and however many were asked for.
THEOREM HeapKeepsBestHolds ==
  ASSUME NEW candidates \in Seq(Candidates), ByRecording(candidates),
         NEW requested \in Nat, NEW min_score \in Int
  PROVE  HeapKeepsBest(candidates, requested, min_score)
<1> DEFINE n == Len(candidates)
           seen(i) == Seen(candidates, i)
           r(i) == Now(candidates, i)
           state(i) == [hits |-> Top(Past(seen(i), min_score, r(i)), requested),
                        best |-> Own(seen(i), min_score, r(i))]
           all == [i \in 0 .. n |-> state(i)]
           Turn(f, i) == IF i = 0 THEN [hits |-> {}, best |-> {}]
                         ELSE Scored(f[i - 1], candidates[i], requested, min_score)
           Fits(f) == f = [i \in 0 .. n |-> Turn(f, i)]
<1>1. n \in Nat /\ \A i \in 1 .. n : candidates[i] \in Candidates
  OBVIOUS
<1>2. state(0) = [hits |-> {}, best |-> {}]
  <2>1. seen(0) = {}
    BY DEF Seen
  <2>2. Past({}, min_score, r(0)) = {} /\ Own({}, min_score, r(0)) = {} /\ Top({}, requested) = {}
    BY DEF Past, Own, Top, Best
  <2> QED BY <2>1, <2>2
<1>3. ASSUME NEW i \in 1 .. n
      PROVE  Scored(state(i - 1), candidates[i], requested, min_score) = state(i)
  <2>1. i - 1 \in 0 .. n /\ i - 1 + 1 = i /\ i \in 0 .. n /\ i # 0 /\ i - 1 < n
    BY <1>1
  <2>2. /\ seen(i - 1) \in SUBSET Candidates /\ IsFiniteSet(seen(i - 1)) /\ r(i - 1) \in Int
        /\ seen(i) = seen(i - 1) \cup {candidates[i]}
    BY <2>1, SeenIs
  <2>3. candidates[i] \in Candidates \ seen(i - 1)
    <3>1. ASSUME NEW j \in 1 .. i - 1 PROVE candidates[j] # candidates[i]
      <4>1. j \in DOMAIN candidates /\ i \in DOMAIN candidates /\ j < i
        BY <1>1
      <4> QED BY <4>1, Before
    <3> QED BY <1>1, <3>1 DEF Seen
  <2>4. \A c \in seen(i - 1) : c.rec <= r(i - 1)
    <3>1. ASSUME NEW j \in 1 .. i - 1 PROVE candidates[j].rec <= r(i - 1)
      <4>1. i - 1 # 0 /\ j \in DOMAIN candidates /\ i - 1 \in DOMAIN candidates /\ (j = i - 1 \/ j < i - 1)
        BY <1>1
      <4>2. candidates[i - 1] \in Candidates /\ r(i - 1) = candidates[i - 1].rec
        BY <1>1, <4>1 DEF Now
      <4>3. candidates[i - 1].rec \in Int
        BY <4>2 DEF Candidates
      <4>4. CASE j = i - 1
        BY <4>2, <4>3, <4>4
      <4>5. CASE j < i - 1
        BY <4>1, <4>2, <4>5, Before
      <4> QED BY <4>1, <4>4, <4>5
    <3> QED BY <3>1 DEF Seen
  <2>5. seen(i - 1) = {} \/ r(i - 1) <= candidates[i].rec
    <3>1. CASE i = 1
      <4>1. 1 .. i - 1 = {}
        BY <3>1
      <4> QED BY <4>1 DEF Seen
    <3>2. CASE i # 1
      <4>1. i - 1 # 0 /\ i - 1 < i /\ i \in DOMAIN candidates /\ i - 1 \in DOMAIN candidates
        BY <1>1, <3>2
      <4>2. r(i - 1) = candidates[i - 1].rec
        BY <4>1 DEF Now
      <4> QED BY <4>1, <4>2, Before
    <3> QED BY <3>1, <3>2
  <2>6. r(i) = candidates[i].rec /\ candidates[i].rec \in Int
    BY <1>1, <2>1 DEF Now, Candidates
  <2> DEFINE x == candidates[i]
             old == seen(i - 1)
             at == r(i - 1)
  <2>7. x \in Candidates \ old /\ old \in SUBSET Candidates /\ IsFiniteSet(old) /\ at \in Int
        /\ (\A c \in old : c.rec <= at) /\ (old = {} \/ at <= x.rec)
    BY <2>2, <2>3, <2>4, <2>5
  <2>8. /\ state(i - 1) = [hits |-> Top(Past(old, min_score, at), requested), best |-> Own(old, min_score, at)]
        /\ state(i) = [hits |-> Top(Past(old \cup {x}, min_score, x.rec), requested),
                       best |-> Own(old \cup {x}, min_score, x.rec)]
    BY <2>2, <2>6
  <2> HIDE DEF x, old, at, state, seen, r
  <2>9. Scored([hits |-> Top(Past(old, min_score, at), requested), best |-> Own(old, min_score, at)],
               x, requested, min_score)
          = [hits |-> Top(Past(old \cup {x}, min_score, x.rec), requested),
             best |-> Own(old \cup {x}, min_score, x.rec)]
    BY <2>7, TurnIs
  <2>10. Scored(state(i - 1), x, requested, min_score) = state(i)
    BY <2>8, <2>9
  <2> QED BY <2>10 DEF x
<1> HIDE DEF state
<1>4. Fits(all)
  <2>1. ASSUME NEW i \in 0 .. n PROVE state(i) = Turn(all, i)
    <3>1. CASE i = 0
      BY <1>2, <3>1
    <3>2. CASE i # 0
      <4>1. i \in 1 .. n /\ i - 1 \in 0 .. n
        BY <1>1, <3>2
      <4> QED BY <1>3, <3>2, <4>1
    <3> QED BY <3>1, <3>2
  <2> QED BY <2>1
<1>5. ASSUME NEW f, Fits(f) PROVE f = all
  <2>1. DOMAIN f = 0 .. n /\ \A i \in 0 .. n : f[i] = Turn(f, i)
    BY <1>5
  <2> DEFINE Wrong == {i \in Nat : i <= n /\ f[i] # all[i]}
  <2> HIDE DEF all
  <2>2. \A i \in 0 .. n : all[i] = Turn(all, i)
    BY <1>4
  <2>3. ASSUME Wrong # {} PROVE FALSE
    <3>1. PICK i \in Wrong : \A j \in Wrong : i <= j
      BY <2>3, Least
    <3>2. i \in 0 .. n /\ f[i] # all[i] /\ i \in Nat
      BY <1>1, <3>1
    <3>3. i # 0
      BY <2>1, <2>2, <3>2
    <3>4. i - 1 \in Nat /\ i - 1 <= n /\ ~ (i <= i - 1)
      BY <3>2, <3>3
    <3>5. f[i - 1] = all[i - 1]
      <4>1. i - 1 \notin Wrong
        <5> HIDE DEF Wrong
        <5> QED BY <3>1, <3>4
      <4> QED BY <3>4, <4>1
    <3> QED BY <2>1, <2>2, <3>2, <3>3, <3>5
  <2>4. \A i \in 0 .. n : f[i] = all[i]
    BY <1>1, <2>3
  <2>5. DOMAIN all = 0 .. n
    BY DEF all
  <2>6. f = [i \in 0 .. n |-> f[i]] /\ all = [i \in 0 .. n |-> all[i]]
    BY <1>5, <2>5 DEF all
  <2> QED BY <2>4, <2>6
<1>6. (CHOOSE f : Fits(f)) = all
  <2> HIDE DEF Fits, all
  <2> QED BY <1>4, <1>5
<1>7. top_hits(candidates, requested, min_score)
        = retain((CHOOSE f : Fits(f))[n].hits, (CHOOSE f : Fits(f))[n].best, requested)
  BY DEF top_hits
<1>8. all[n] = [hits |-> Top(Past(seen(n), min_score, r(n)), requested),
                best |-> Own(seen(n), min_score, r(n))]
  BY <1>1 DEF state
<1>9. seen(n) = {candidates[i] : i \in DOMAIN candidates}
  BY DEF Seen
<1>10. retain(Top(Past(seen(n), min_score, r(n)), requested), Own(seen(n), min_score, r(n)), requested)
         = Top(Best(seen(n), min_score), requested)
  <2> DEFINE own == Own(seen(n), min_score, r(n))
             past == Past(seen(n), min_score, r(n))
  <2>1. seen(n) \in SUBSET Candidates /\ IsFiniteSet(seen(n))
    BY <1>1, SeenIs
  <2>2. /\ own \subseteq seen(n) /\ \A a, b \in own : a = b
        /\ past \in SUBSET Candidates /\ IsFiniteSet(past)
        /\ Best(seen(n), min_score) = past \cup own /\ past \cap own = {}
    <3> DEFINE all_seen == seen(n)
               of == r(n)
    <3> HIDE DEF all_seen, of
    <3>1. own = Own(all_seen, min_score, of) /\ past = Past(all_seen, min_score, of)
          /\ seen(n) = all_seen
      BY DEF all_seen, of
    <3>2. own \subseteq all_seen /\ \A a, b \in own : a = b
      BY <2>1, <3>1, OwnIs
    <3>3. past \subseteq all_seen /\ Best(all_seen, min_score) = past \cup own /\ past \cap own = {}
      BY <3>1 DEF Own, Past, Best
    <3>4. past \in SUBSET Candidates /\ IsFiniteSet(past)
      BY <2>1, <3>1, <3>3, FS_Subset
    <3> QED BY <3>1, <3>2, <3>3, <3>4
  <2> HIDE DEF own, past, seen
  <2>3. CASE own = {}
    <3>1. past \cup own = past
      BY <2>3
    <3> QED BY <2>2, <2>3, <3>1, RetainNone DEF own, past
  <2>4. CASE own # {}
    <3>1. PICK b \in own : own = {b}
      BY <2>2, <2>4
    <3>2. b \in Candidates \ past
      BY <2>1, <2>2
    <3> QED BY <2>2, <3>1, <3>2, RetainTop DEF own, past
  <2> QED BY <2>3, <2>4
<1> HIDE DEF Fits, all, seen, r, n
<1>11. top_hits(candidates, requested, min_score) = retain(all[n].hits, all[n].best, requested)
  BY <1>6, <1>7
<1>12. top_hits(candidates, requested, min_score) = Top(Best(seen(n), min_score), requested)
  BY <1>8, <1>10, <1>11
<1> QED BY <1>9, <1>12 DEF HeapKeepsBest

-----------------------------------------------------------------------------
(* Chunker: no chunk over the limit, no letter lost *)

\* A loop of n steps, its values, and sets they may be kept within.
RunOf(n, base, step, f) == f = [i \in 0 .. n |-> IF i = 0 THEN base ELSE step[<<i, f[i - 1]>>]]
Within(n, I, f) == \A i \in 0 .. n : f[i] \in I[i]
Stays(n, I, base, step) ==
  base \in I[0] /\ \A i \in 1 .. n : \A a \in I[i - 1] : step[<<i, a>>] \in I[i]
Kept(n, I, f) == f[0] \in I[0] /\ \A i \in 1 .. n : f[i - 1] \in I[i - 1] => f[i] \in I[i]

\* A loop whose steps stay within given sets has a run, ...
LEMMA LoopRuns ==
  ASSUME NEW n \in Nat, NEW I, NEW base, NEW step, Stays(n, I, base, step)
  PROVE  \E f : RunOf(n, base, step, f) /\ Within(n, I, f)
<1> DEFINE Run(m, f) == /\ f = [i \in 0 .. m |-> IF i = 0 THEN base ELSE step[<<i, f[i - 1]>>]]
                        /\ \A i \in 0 .. m : f[i] \in I[i]
           Bad == {m \in Nat : m <= n /\ ~ \E f : Run(m, f)}
<1>0. base \in I[0] /\ \A i \in 1 .. n : \A a \in I[i - 1] : step[<<i, a>>] \in I[i]
  BY DEF Stays
<1>1. ASSUME Bad # {} PROVE FALSE
  <2>1. PICK m \in Bad : \A k \in Bad : m <= k
    <3>1. Bad \in SUBSET Nat
      OBVIOUS
    <3> HIDE DEF Bad
    <3> QED BY <1>1, <3>1, Least
  <2>2. m \in Nat /\ m <= n /\ ~ \E f : Run(m, f)
    OBVIOUS
  <2>3. CASE m = 0
    <3> DEFINE f == [i \in 0 .. 0 |-> base]
    <3>1. Run(0, f)
      BY <1>0
    <3> QED BY <2>2, <2>3, <3>1
  <2>4. CASE m # 0
    <3>1. m - 1 \in Nat /\ m - 1 <= n /\ ~ (m <= m - 1) /\ m \in 1 .. n
      BY <2>2, <2>4
    <3>2. PICK g : Run(m - 1, g)
      <4>1. m - 1 \notin Bad
        <5> HIDE DEF Bad
        <5> QED BY <2>1, <3>1
      <4> HIDE DEF Run
      <4> QED BY <3>1, <4>1
    <3> DEFINE f == [i \in 0 .. m |-> IF i = m THEN step[<<m, g[m - 1]>>] ELSE g[i]]
    <3>3. \A i \in 0 .. m - 1 : g[i] \in I[i] /\ g[i] = IF i = 0 THEN base ELSE step[<<i, g[i - 1]>>]
      BY <3>2
    <3>4. \A i \in 0 .. m - 1 : f[i] = g[i]
      BY <3>1
    <3>5. /\ f[m] = step[<<m, g[m - 1]>>] /\ g[m - 1] \in I[m - 1] /\ f[m - 1] = g[m - 1]
          /\ f[m] \in I[m]
      <4>1. m \in 0 .. m /\ m - 1 \in 0 .. m - 1
        BY <3>1
      <4>2. f[m] = step[<<m, g[m - 1]>>]
        BY <4>1
      <4> HIDE DEF f
      <4> QED BY <1>0, <3>1, <3>3, <3>4, <4>1, <4>2
    <3>6. ASSUME NEW i \in 0 .. m
          PROVE  f[i] \in I[i] /\ f[i] = IF i = 0 THEN base ELSE step[<<i, f[i - 1]>>]
      <4>1. CASE i = m
        <5> HIDE DEF f
        <5> QED BY <2>4, <3>5, <4>1
      <4>2. CASE i # m
        <5>1. i \in 0 .. m - 1 /\ (i # 0 => i - 1 \in 0 .. m - 1)
          BY <3>1, <4>2
        <5> HIDE DEF f
        <5> QED BY <3>3, <3>4, <5>1
      <4> QED BY <4>1, <4>2
    <3>7. Run(m, f)
      <4>1. f = [i \in 0 .. m |-> f[i]]
        OBVIOUS
      <4> HIDE DEF f
      <4> QED BY <3>6, <4>1
    <3> QED BY <2>2, <3>7
  <2> QED BY <2>3, <2>4
<1>2. n \notin Bad
  BY <1>1
<1> HIDE DEF Run
<1>3. \E f : Run(n, f)
  BY <1>2
<1> QED BY <1>3 DEF Run, RunOf, Within

\* ... and every run of it stays within them.
LEMMA LoopKeeps ==
  ASSUME NEW n \in Nat, NEW I, NEW f, Kept(n, I, f)
  PROVE  Within(n, I, f)
<1> DEFINE Bad == {m \in Nat : m <= n /\ f[m] \notin I[m]}
<1>1. ASSUME Bad # {} PROVE FALSE
  <2>1. PICK m \in Bad : \A k \in Bad : m <= k
    <3>1. Bad \in SUBSET Nat
      OBVIOUS
    <3> HIDE DEF Bad
    <3> QED BY <1>1, <3>1, Least
  <2>2. m \in Nat /\ m <= n /\ f[m] \notin I[m] /\ m # 0
    BY DEF Kept
  <2>3. m - 1 \in Nat /\ m - 1 <= n /\ ~ (m <= m - 1) /\ m \in 1 .. n
    BY <2>2
  <2>4. m - 1 \notin Bad
    <3> HIDE DEF Bad
    <3> QED BY <2>1, <2>3
  <2>5. f[m - 1] \in I[m - 1]
    BY <2>3, <2>4
  <2> QED BY <2>2, <2>3, <2>5 DEF Kept
<1> QED BY <1>1 DEF Within

\* A sum can be run up.
LEMMA SumRuns ==
  ASSUME NEW n \in Nat, NEW w \in [1 .. n -> Nat]
  PROVE  \E f : f = [i \in 0 .. n |-> IF i = 0 THEN 0 ELSE f[i - 1] + w[i]]
<1> DEFINE I == [i \in 0 .. n |-> Nat]
           step == [p \in (1 .. n) \X Nat |-> p[2] + w[p[1]]]
<1>1. \A i \in 1 .. n : I[i] = Nat /\ I[i - 1] = Nat
  OBVIOUS
<1>2. \A i \in 1 .. n : \A a \in Nat : step[<<i, a>>] = a + w[i] /\ a + w[i] \in Nat
  OBVIOUS
<1>3. Stays(n, I, 0, step)
  <2>1. 0 \in I[0]
    OBVIOUS
  <2> HIDE DEF step
  <2> QED BY <1>2, <2>1 DEF Stays
<1>4. \A i \in 0 .. n : I[i] = Nat
  OBVIOUS
<1> HIDE DEF I, step
<1>5. PICK f : RunOf(n, 0, step, f) /\ Within(n, I, f)
  BY <1>3, LoopRuns
<1>6. \A i \in 0 .. n : i # 0 => f[i - 1] \in Nat
  <2>1. \A i \in 0 .. n : i # 0 => i - 1 \in 0 .. n
    OBVIOUS
  <2> QED BY <1>4, <1>5, <2>1 DEF Within
<1>7. \A i \in 0 .. n : (IF i = 0 THEN 0 ELSE step[<<i, f[i - 1]>>]) = IF i = 0 THEN 0 ELSE f[i - 1] + w[i]
  BY <1>2, <1>6
<1>8. f = [i \in 0 .. n |-> IF i = 0 THEN 0 ELSE f[i - 1] + w[i]]
  <2>1. f = [i \in 0 .. n |-> IF i = 0 THEN 0 ELSE step[<<i, f[i - 1]>>]]
    BY <1>5 DEF RunOf
  <2>2. DOMAIN f = 0 .. n /\ \A i \in 0 .. n : f[i] = IF i = 0 THEN 0 ELSE f[i - 1] + w[i]
    BY <1>7, <2>1
  <2>3. f = [i \in 0 .. n |-> f[i]]
    BY <2>1
  <2> QED BY <2>2, <2>3
<1> QED BY <1>8

\* A sum is a number no smaller than what it adds up.
LEMMA SumIs ==
  ASSUME NEW n \in Nat, NEW w \in [1 .. n -> Nat], NEW f,
         f = [i \in 0 .. n |-> IF i = 0 THEN 0 ELSE f[i - 1] + w[i]]
  PROVE  /\ f[n] \in Nat
         /\ \A i \in 1 .. n : w[i] <= f[n]
         /\ n = 1 => f[n] = w[1]
<1>1. f[0] = 0 /\ \A i \in 1 .. n : f[i] = f[i - 1] + w[i]
  OBVIOUS
<1> DEFINE I == [i \in 0 .. n |-> {s \in Nat : \A j \in 1 .. i : w[j] <= s}]
<1>2. \A i \in 0 .. n : I[i] = {s \in Nat : \A j \in 1 .. i : w[j] <= s}
  OBVIOUS
<1> HIDE DEF I
<1>3. f[0] \in I[0]
  BY <1>1, <1>2
<1>4. ASSUME NEW i \in 1 .. n, f[i - 1] \in I[i - 1] PROVE f[i] \in I[i]
  <2>1. i - 1 \in 0 .. n /\ i \in 0 .. n
    OBVIOUS
  <2>2. f[i - 1] \in Nat /\ \A j \in 1 .. i - 1 : w[j] <= f[i - 1]
    BY <1>2, <1>4, <2>1
  <2>3. f[i] = f[i - 1] + w[i] /\ w[i] \in Nat
    BY <1>1
  <2>4. ASSUME NEW j \in 1 .. i PROVE w[j] <= f[i]
    <3>1. w[j] \in Nat
      OBVIOUS
    <3>2. CASE j = i
      BY <2>2, <2>3, <3>1, <3>2
    <3>3. CASE j # i
      <4>1. j \in 1 .. i - 1
        BY <3>3
      <4>2. w[j] <= f[i - 1]
        BY <2>2, <4>1
      <4> QED BY <2>2, <2>3, <3>1, <4>2
    <3> QED BY <3>2, <3>3
  <2>5. f[i] \in Nat
    BY <2>2, <2>3
  <2> QED BY <1>2, <2>1, <2>4, <2>5
<1>5. f[n] \in I[n]
  <2>1. Kept(n, I, f)
    BY <1>3, <1>4 DEF Kept
  <2> QED BY <2>1, LoopKeeps DEF Within
<1>6. n = 1 => f[n] = w[1]
  BY <1>1
<1>7. f[n] \in Nat /\ \A j \in 1 .. n : w[j] <= f[n]
  BY <1>2, <1>5
<1> QED BY <1>6, <1>7

\* Characters are letters with their sizes.
Letter == Nat \X Nat
Word   == Seq(Letter)

\* Bytes and Count add up sizes.
LEMMA BytesIs ==
  ASSUME NEW word \in Word
  PROVE  Bytes(word) \in Nat /\ (Len(word) = 1 => Bytes(word) = word[1][2])
<1> DEFINE n == Len(word)
           w == [i \in 1 .. n |-> word[i][2]]
           Fits(f) == f = [i \in 0 .. n |-> IF i = 0 THEN 0 ELSE f[i - 1] + word[i][2]]
<1>1. Bytes(word) = (CHOOSE f : Fits(f))[n]
  BY DEF Bytes, Fold
<1>2. n \in Nat /\ w \in [1 .. n -> Nat]
  <2>1. n \in Nat /\ \A i \in 1 .. n : word[i] \in Letter
    BY DEF Word
  <2>2. \A i \in 1 .. n : word[i][2] \in Nat
    BY <2>1 DEF Letter
  <2> QED BY <2>1, <2>2
<1>3. ASSUME NEW f PROVE Fits(f) <=> f = [i \in 0 .. n |-> IF i = 0 THEN 0 ELSE f[i - 1] + w[i]]
  <2>1. \A i \in 0 .. n : (IF i = 0 THEN 0 ELSE f[i - 1] + word[i][2]) = IF i = 0 THEN 0 ELSE f[i - 1] + w[i]
    BY <1>2
  <2> HIDE DEF w
  <2> QED BY <2>1
<1>4. n = 1 => w[1] = word[1][2]
  OBVIOUS
<1> HIDE DEF Fits, w, n
<1>5. \E f : Fits(f)
  <2>1. PICK f : f = [i \in 0 .. n |-> IF i = 0 THEN 0 ELSE f[i - 1] + w[i]]
    BY <1>2, SumRuns
  <2> QED BY <1>3, <2>1
<1> DEFINE g == CHOOSE f : Fits(f)
<1>6. g = [i \in 0 .. n |-> IF i = 0 THEN 0 ELSE g[i - 1] + w[i]]
  <2>1. Fits(g)
    BY <1>5
  <2> HIDE DEF g
  <2> QED BY <1>3, <2>1
<1>7. g[n] \in Nat /\ (n = 1 => g[n] = w[1])
  <2> HIDE DEF g
  <2> QED BY <1>2, <1>6, SumIs
<1> QED BY <1>1, <1>4, <1>7 DEF n

\* A line is no smaller than any word of it.
LEMMA CountIs ==
  ASSUME NEW words \in Seq(Word)
  PROVE  /\ Count(words) \in Nat
         /\ \A i \in 1 .. Len(words) : Bytes(words[i]) <= Count(words)
         /\ Len(words) = 1 => Count(words) = Bytes(words[1])
<1> DEFINE n == Len(words)
           w == [i \in 1 .. n |-> Bytes(words[i])]
           Fits(f) == f = [i \in 0 .. n |-> IF i = 0 THEN 0 ELSE f[i - 1] + Bytes(words[i])]
           g == CHOOSE f : Fits(f)
           gaps == IF words = <<>> THEN 0 ELSE n - 1
<1>1. Count(words) = g[n] + gaps
  BY DEF Count, Fold
<1>2. n \in Nat /\ w \in [1 .. n -> Nat] /\ gaps \in Nat /\ (n = 1 => gaps = 0)
  <2>1. n \in Nat /\ \A i \in 1 .. n : words[i] \in Word
    OBVIOUS
  <2>2. \A i \in 1 .. n : Bytes(words[i]) \in Nat
    BY <2>1, BytesIs
  <2>3. words # <<>> => n # 0
    BY EmptySeq
  <2> QED BY <2>1, <2>2, <2>3
<1>3. ASSUME NEW f PROVE Fits(f) <=> f = [i \in 0 .. n |-> IF i = 0 THEN 0 ELSE f[i - 1] + w[i]]
  <2>1. \A i \in 0 .. n : (IF i = 0 THEN 0 ELSE f[i - 1] + Bytes(words[i])) = IF i = 0 THEN 0 ELSE f[i - 1] + w[i]
    BY <1>2
  <2> HIDE DEF w
  <2> QED BY <2>1
<1>4. \A i \in 1 .. n : w[i] = Bytes(words[i])
  OBVIOUS
<1> HIDE DEF Fits, w, n, g, gaps
<1>5. \E f : Fits(f)
  <2>1. PICK f : f = [i \in 0 .. n |-> IF i = 0 THEN 0 ELSE f[i - 1] + w[i]]
    BY <1>2, SumRuns
  <2> QED BY <1>3, <2>1
<1>6. g = [i \in 0 .. n |-> IF i = 0 THEN 0 ELSE g[i - 1] + w[i]]
  <2>1. Fits(g)
    BY <1>5 DEF g
  <2> QED BY <1>3, <2>1
<1>7. g[n] \in Nat /\ (\A i \in 1 .. n : w[i] <= g[n]) /\ (n = 1 => g[n] = w[1])
  BY <1>2, <1>6, SumIs
<1>8. \A i \in 1 .. n : w[i] \in Nat
  BY <1>2
<1>9. g[n] + gaps \in Nat /\ (\A i \in 1 .. n : w[i] <= g[n] + gaps) /\ (n = 1 => g[n] + gaps = w[1])
  BY <1>2, <1>7, <1>8
<1> QED BY <1>1, <1>2, <1>4, <1>9 DEF n

\* What a sequence consists of, and what the first ones of it do.
Elems(s) == {s[i] : i \in DOMAIN s}
FirstElems(s, n) == {s[i] : i \in 1 .. n}

\* They are read one after another.
LEMMA ElemsIs ==
  ASSUME NEW T, NEW s \in Seq(T)
  PROVE  /\ Elems(s) = FirstElems(s, Len(s)) /\ Elems(s) \subseteq T /\ Elems(<<>>) = {}
         /\ \A n \in 1 .. Len(s) : FirstElems(s, n) = FirstElems(s, n - 1) \cup {s[n]}
         /\ FirstElems(s, 0) = {}
         /\ \A U : Elems(s) \subseteq U => s \in Seq(U)
<1>1. DOMAIN s = 1 .. Len(s) /\ Len(s) \in Nat /\ \A i \in 1 .. Len(s) : s[i] \in T
  OBVIOUS
<1>2. \A n \in 1 .. Len(s) : 1 .. n = 1 .. n - 1 \cup {n}
  OBVIOUS
<1>3. ASSUME NEW n \in 1 .. Len(s) PROVE FirstElems(s, n) = FirstElems(s, n - 1) \cup {s[n]}
  BY <1>2 DEF FirstElems
<1>4. ASSUME NEW U, Elems(s) \subseteq U PROVE s \in Seq(U)
  <2>1. \A i \in 1 .. Len(s) : s[i] \in U
    BY <1>1, <1>4 DEF Elems
  <2>2. s = [i \in 1 .. Len(s) |-> s[i]]
    BY <1>1
  <2>3. s \in [1 .. Len(s) -> U]
    BY <2>1, <2>2
  <2> QED BY <1>1, <2>3, SeqDef
<1>5. FirstElems(s, 0) = {} /\ Elems(<<>>) = {}
  BY DEF FirstElems, Elems
<1>6. Elems(s) = FirstElems(s, Len(s)) /\ Elems(s) \subseteq T
  BY <1>1 DEF Elems, FirstElems
<1> QED BY <1>3, <1>4, <1>5, <1>6

\* What is appended is added.
LEMMA ElemsAppend ==
  ASSUME NEW T, NEW s \in Seq(T), NEW x \in T
  PROVE  Append(s, x) \in Seq(T) /\ Append(s, x) # <<>> /\ Elems(Append(s, x)) = Elems(s) \cup {x}
<1> DEFINE t == Append(s, x)
           n == Len(s)
<1>1. /\ n \in Nat /\ DOMAIN s = 1 .. n /\ t \in Seq(T) /\ t # <<>> /\ Len(t) = n + 1
      /\ (\A i \in 1 .. n : t[i] = s[i]) /\ t[n + 1] = x
  BY AppendProperties
<1>2. DOMAIN t = 1 .. n \cup {n + 1}
  <2>1. DOMAIN t = 1 .. Len(t)
    BY <1>1
  <2> HIDE DEF t, n
  <2> QED BY <1>1, <2>1
<1> HIDE DEF t, n
<1>3. Elems(t) = {t[i] : i \in 1 .. n} \cup {t[n + 1]}
  BY <1>2 DEF Elems
<1>4. {t[i] : i \in 1 .. n} = Elems(s)
  BY <1>1 DEF Elems
<1> QED BY <1>1, <1>3, <1>4 DEF t

\* What is laid behind is added.
LEMMA ElemsConcat ==
  ASSUME NEW T, NEW s \in Seq(T), NEW t \in Seq(T)
  PROVE  s \o t \in Seq(T) /\ Elems(s \o t) = Elems(s) \cup Elems(t)
<1> DEFINE u == s \o t
           n == Len(s)
           m == Len(t)
<1>1. /\ n \in Nat /\ m \in Nat /\ DOMAIN s = 1 .. n /\ DOMAIN t = 1 .. m /\ u \in Seq(T)
      /\ DOMAIN u = 1 .. n + m
      /\ \A i \in 1 .. n + m : u[i] = IF i <= n THEN s[i] ELSE t[i - n]
  BY ConcatProperties
<1> HIDE DEF u, n, m
<1>2. ASSUME NEW i \in DOMAIN u PROVE u[i] \in Elems(s) \cup Elems(t)
  <2>1. CASE i <= n
    <3>1. i \in 1 .. n /\ u[i] = s[i]
      BY <1>1, <2>1
    <3> QED BY <1>1, <3>1 DEF Elems
  <2>2. CASE ~ (i <= n)
    <3>1. i - n \in 1 .. m /\ u[i] = t[i - n]
      BY <1>1, <2>2
    <3> QED BY <1>1, <3>1 DEF Elems
  <2> QED BY <2>1, <2>2
<1>3. ASSUME NEW i \in 1 .. n PROVE s[i] \in Elems(u)
  <2>1. i \in DOMAIN u /\ u[i] = s[i]
    BY <1>1
  <2> QED BY <2>1 DEF Elems
<1>4. ASSUME NEW i \in 1 .. m PROVE t[i] \in Elems(u)
  <2>1. n + i \in DOMAIN u /\ u[n + i] = t[n + i - n] /\ n + i - n = i
    BY <1>1
  <2> QED BY <2>1 DEF Elems
<1>5. Elems(u) \subseteq Elems(s) \cup Elems(t)
  BY <1>2 DEF Elems
<1>6. Elems(s) \subseteq Elems(u) /\ Elems(t) \subseteq Elems(u)
  BY <1>1, <1>3, <1>4 DEF Elems
<1> QED BY <1>1, <1>5, <1>6 DEF u

\* The end of a sequence holds nothing else.
LEMMA ElemsEnd ==
  ASSUME NEW T, NEW s \in Seq(T), NEW m \in 1 .. Len(s) + 1
  PROVE  /\ SubSeq(s, m, Len(s)) \in Seq(T) /\ Elems(SubSeq(s, m, Len(s))) \subseteq Elems(s)
         /\ Len(SubSeq(s, m, Len(s))) = Len(s) - m + 1
<1> DEFINE t == SubSeq(s, m, Len(s))
           n == Len(s)
<1>1. /\ n \in Nat /\ m \in Int /\ DOMAIN s = 1 .. n /\ \A i \in m .. n : s[i] \in T
  OBVIOUS
<1>2. /\ t \in Seq(T) /\ Len(t) = (IF m <= n THEN n - m + 1 ELSE 0)
      /\ \A i \in 1 .. n - m + 1 : t[i] = s[m + i - 1]
  BY <1>1, SubSeqProperties
<1>3. Len(t) = n - m + 1 /\ DOMAIN t = 1 .. n - m + 1
  <2> HIDE DEF t, n
  <2>1. DOMAIN t = 1 .. Len(t)
    BY <1>2
  <2>2. m \in 1 .. n + 1
    BY DEF n
  <2> QED BY <1>1, <1>2, <2>1, <2>2
<1> HIDE DEF t
<1>4. \A i \in DOMAIN t : t[i] \in Elems(s)
  <2>1. ASSUME NEW i \in DOMAIN t PROVE m + i - 1 \in DOMAIN s /\ t[i] = s[m + i - 1]
    BY <1>1, <1>2, <1>3
  <2> QED BY <2>1 DEF Elems
<1>5. Elems(t) \subseteq Elems(s)
  BY <1>4 DEF Elems
<1> QED BY <1>2, <1>3, <1>5 DEF t

\* A sequence is its head and its tail.
LEMMA ElemsHead ==
  ASSUME NEW T, NEW s \in Seq(T), s # <<>>
  PROVE  Head(s) \in T /\ Tail(s) \in Seq(T) /\ Elems(s) = {Head(s)} \cup Elems(Tail(s))
<1> DEFINE t == Tail(s)
           n == Len(s)
<1>1. /\ n \in Nat \ {0} /\ DOMAIN s = 1 .. n /\ Head(s) \in T /\ t \in Seq(T) /\ Len(t) = n - 1
      /\ \A i \in 1 .. Len(t) : t[i] = s[i + 1]
  BY HeadTailProperties, EmptySeq
<1>2. Head(s) = s[1]
  OBVIOUS
<1>3. DOMAIN t = 1 .. n - 1
  BY <1>1
<1> HIDE DEF t, n
<1>4. ASSUME NEW i \in 1 .. n PROVE s[i] \in {s[1]} \cup Elems(t)
  <2>1. CASE i = 1
    BY <2>1
  <2>2. CASE i # 1
    <3>1. i - 1 \in 1 .. n - 1 /\ t[i - 1] = s[i - 1 + 1] /\ i - 1 + 1 = i
      BY <1>1, <2>2
    <3> QED BY <1>3, <3>1 DEF Elems
  <2> QED BY <2>1, <2>2
<1>5. ASSUME NEW i \in 1 .. n - 1 PROVE t[i] \in Elems(s)
  <2>1. i + 1 \in 1 .. n /\ t[i] = s[i + 1]
    BY <1>1
  <2> QED BY <1>1, <2>1 DEF Elems
<1>6. s[1] \in Elems(s)
  BY <1>1 DEF Elems
<1>7. Elems(s) \subseteq {s[1]} \cup Elems(t)
  BY <1>1, <1>4 DEF Elems
<1>8. Elems(t) \subseteq Elems(s)
  BY <1>3, <1>5 DEF Elems
<1> QED BY <1>1, <1>2, <1>6, <1>7, <1>8 DEF t

\* One alone.
LEMMA ElemsOne ==
  ASSUME NEW T, NEW x \in T
  PROVE  <<x>> \in Seq(T) /\ <<x>> # <<>> /\ Elems(<<x>>) = {x} /\ Len(<<x>>) = 1 /\ <<x>>[1] = x
<1>1. <<x>> \in Seq(T) /\ Len(<<x>>) = 1 /\ <<x>>[1] = x /\ DOMAIN <<x>> = {1}
  OBVIOUS
<1>2. <<x>> # <<>>
  BY <1>1, EmptySeq
<1>3. Elems(<<x>>) = {x}
  BY <1>1 DEF Elems
<1> QED BY <1>1, <1>2, <1>3

\* Sequences laid end to end.
LEMMA ExtendedIs ==
  ASSUME NEW T, NEW seqs \in Seq(Seq(T))
  PROVE  Extended(seqs) \in Seq(T) /\ Elems(Extended(seqs)) = UNION {Elems(x) : x \in Elems(seqs)}
<1> DEFINE n == Len(seqs)
           Fits(f) == f = [i \in 0 .. n |-> IF i = 0 THEN <<>> ELSE f[i - 1] \o seqs[i]]
           g == CHOOSE f : Fits(f)
           All(i) == UNION {Elems(x) : x \in FirstElems(seqs, i)}
           I == [i \in 0 .. n |-> {out \in Seq(T) : Elems(out) = All(i)}]
           step == [p \in (1 .. n) \X Seq(T) |-> p[2] \o seqs[p[1]]]
<1>1. Extended(seqs) = g[n]
  BY DEF Extended, Fold
<1>2. n \in Nat /\ \A i \in 1 .. n : seqs[i] \in Seq(T)
  OBVIOUS
<1>3. \A i \in 0 .. n : I[i] = {out \in Seq(T) : Elems(out) = All(i)}
  OBVIOUS
<1>4. \A i \in 1 .. n : \A out \in Seq(T) : step[<<i, out>>] = out \o seqs[i]
  OBVIOUS
<1>5. All(0) = {} /\ \A i \in 1 .. n : All(i) = All(i - 1) \cup Elems(seqs[i])
  <2>1. FirstElems(seqs, 0) = {} /\ \A i \in 1 .. n : FirstElems(seqs, i) = FirstElems(seqs, i - 1) \cup {seqs[i]}
    BY ElemsIs
  <2> QED BY <2>1
<1>6. All(n) = UNION {Elems(x) : x \in Elems(seqs)}
  BY ElemsIs
<1>7. \A i \in 1 .. n : i \in 0 .. n /\ i - 1 \in 0 .. n
  BY <1>2
<1>8. 0 \in 0 .. n /\ n \in 0 .. n
  BY <1>2
<1>9. \A f : Fits(f) <=> f = [i \in 0 .. n |-> IF i = 0 THEN <<>> ELSE f[i - 1] \o seqs[i]]
  OBVIOUS
<1> HIDE DEF Fits, g, I, step, n, All
<1>10. <<>> \in I[0]
  <2>1. <<>> \in Seq(T) /\ Elems(<<>>) = {}
    BY EmptySeq DEF Elems
  <2>2. I[0] = {out \in Seq(T) : Elems(out) = {}}
    BY <1>3, <1>5, <1>8
  <2> QED BY <2>1, <2>2
<1>11. ASSUME NEW i \in 1 .. n, NEW out \in I[i - 1] PROVE out \in Seq(T) /\ out \o seqs[i] \in I[i]
  <2>1. out \in Seq(T) /\ Elems(out) = All(i - 1)
    BY <1>3, <1>7
  <2>2. out \o seqs[i] \in Seq(T) /\ Elems(out \o seqs[i]) = Elems(out) \cup Elems(seqs[i])
    BY <1>2, <2>1, ElemsConcat
  <2>3. Elems(out \o seqs[i]) = All(i)
    BY <1>5, <2>1, <2>2
  <2>4. I[i] = {made \in Seq(T) : Elems(made) = All(i)}
    BY <1>3, <1>7
  <2> QED BY <2>1, <2>2, <2>3, <2>4
<1>12. \E f : Fits(f)
  <2>1. Stays(n, I, <<>>, step)
    BY <1>4, <1>10, <1>11 DEF Stays
  <2>2. PICK f : RunOf(n, <<>>, step, f) /\ Within(n, I, f)
    BY <1>2, <2>1, LoopRuns
  <2>3. f = [i \in 0 .. n |-> IF i = 0 THEN <<>> ELSE step[<<i, f[i - 1]>>]]
    BY <2>2 DEF RunOf
  <2>4. ASSUME NEW i \in 0 .. n, i # 0 PROVE step[<<i, f[i - 1]>>] = f[i - 1] \o seqs[i]
    <3>1. i \in 1 .. n
      BY <1>2, <2>4
    <3>2. f[i - 1] \in I[i - 1]
      BY <1>7, <2>2, <3>1 DEF Within
    <3> QED BY <1>4, <1>11, <3>1, <3>2
  <2>5. f = [i \in 0 .. n |-> IF i = 0 THEN <<>> ELSE f[i - 1] \o seqs[i]]
    <3>1. \A i \in 0 .. n : (IF i = 0 THEN <<>> ELSE step[<<i, f[i - 1]>>])
                             = IF i = 0 THEN <<>> ELSE f[i - 1] \o seqs[i]
      BY <2>4
    <3>2. DOMAIN f = 0 .. n /\ \A i \in 0 .. n : f[i] = IF i = 0 THEN <<>> ELSE f[i - 1] \o seqs[i]
      BY <2>3, <3>1
    <3>3. f = [i \in 0 .. n |-> f[i]]
      BY <2>3
    <3> QED BY <3>2, <3>3
  <2> QED BY <1>9, <2>5
<1>13. g = [i \in 0 .. n |-> IF i = 0 THEN <<>> ELSE g[i - 1] \o seqs[i]]
  BY <1>9, <1>12 DEF g
<1>14. g[n] \in I[n]
  <2>1. g[0] = <<>> /\ \A i \in 1 .. n : g[i] = g[i - 1] \o seqs[i]
    BY <1>7, <1>8, <1>13
  <2>2. Kept(n, I, g)
    BY <1>10, <1>11, <2>1 DEF Kept
  <2> QED BY <1>2, <1>8, <2>2, LoopKeeps DEF Within
<1> QED BY <1>1, <1>3, <1>6, <1>8, <1>14

\* The letters of a word, and a text's letters by its parts.
Of(word) == {word[j][1] : j \in DOMAIN word}

\* Letters are told by what a sequence consists of.
LEMMA PlacesIs ==
  ASSUME NEW words
  PROVE  /\ Places(words) = UNION {Of(x) : x \in Elems(words)}
         /\ Letters(words) = UNION {Places(x) : x \in Elems(words)}
BY DEF Places, Letters, Of, Elems

\* Words that a chunk can hold, and sequences of them that do not exceed it.
Small(max) == {w \in Word : Bytes(w) <= max}
Line(max)  == {words \in Seq(Small(max)) : words # <<>> /\ Count(words) <= max}

\* Words that fit are words.
LEMMA SmallWords ==
  ASSUME NEW max, NEW words \in Seq(Small(max))
  PROVE  words \in Seq(Word)
<1>1. Small(max) \subseteq Word
  BY DEF Small
<1> QED BY <1>1, SeqMonotonic

\* A chunk that overlaps the one before holds the next word, at most words of
\* the chunk before besides, and is not too large.
LEMMA OverlapIs ==
  ASSUME NEW max \in Nat, NEW overlap \in Nat, NEW previous \in Seq(Small(max)), NEW word \in Small(max)
  PROVE  /\ _start_with_overlap(previous, word, max, overlap) \in Line(max)
         /\ word \in Elems(_start_with_overlap(previous, word, max, overlap))
         /\ Elems(_start_with_overlap(previous, word, max, overlap)) \subseteq Elems(previous) \cup {word}
<1> DEFINE kept == IF overlap < Len(previous) THEN overlap ELSE Len(previous)
           m == Len(previous) - kept + 1
           last == SubSeq(previous, m, Len(previous))
           n == Len(last)
           From(i) == Append(SubSeq(last, i, n), word)
           Fits(i) == /\ Count(From(i)) <= max \/ i > n
                      /\ \A j \in 1 .. i - 1 : Count(From(j)) > max
           k == CHOOSE i \in 1 .. n + 1 : Fits(i)
<1>1. _start_with_overlap(previous, word, max, overlap) = From(k)
  BY DEF _start_with_overlap
<1>2. last \in Seq(Small(max)) /\ n \in Nat /\ Elems(last) \subseteq Elems(previous)
  <2>1. m \in 1 .. Len(previous) + 1
    <3>1. Len(previous) \in Nat
      OBVIOUS
    <3>2. kept \in 0 .. Len(previous)
      BY <3>1
    <3> HIDE DEF kept
    <3> QED BY <3>1, <3>2
  <2> HIDE DEF m
  <2> QED BY <2>1, ElemsEnd
<1> HIDE DEF last, n
<1>3. ASSUME NEW i \in 1 .. n + 1
      PROVE  /\ From(i) \in Seq(Small(max)) /\ From(i) # <<>> /\ Count(From(i)) \in Nat
             /\ word \in Elems(From(i)) /\ Elems(From(i)) \subseteq Elems(previous) \cup {word}
  <2> DEFINE end == SubSeq(last, i, n)
  <2>1. end \in Seq(Small(max)) /\ Elems(end) \subseteq Elems(last)
    BY <1>2, ElemsEnd DEF n
  <2> HIDE DEF end
  <2>2. /\ Append(end, word) \in Seq(Small(max)) /\ Append(end, word) # <<>>
        /\ Elems(Append(end, word)) = Elems(end) \cup {word}
    BY <2>1, ElemsAppend
  <2>3. Append(end, word) \in Seq(Word)
    BY <2>2, SmallWords
  <2>4. Count(Append(end, word)) \in Nat
    BY <2>3, CountIs
  <2>5. Elems(Append(end, word)) \subseteq Elems(previous) \cup {word}
    BY <1>2, <2>1, <2>2
  <2> QED BY <2>2, <2>4, <2>5 DEF end
<1>4. Count(From(n + 1)) <= max
  <2>1. SubSeq(last, n + 1, n) = <<>>
    BY <1>2, SubSeqEmpty
  <2> DEFINE one == Append(<<>>, word)
  <2>2. From(n + 1) = one
    BY <2>1
  <2>3. word \in Word /\ Bytes(word) <= max
    BY DEF Small
  <2>4. Count(one) = Bytes(word)
    <3>1. one \in Seq(Word) /\ Len(one) = 0 + 1 /\ one[0 + 1] = word
      BY <2>3, AppendProperties, EmptySeq
    <3> HIDE DEF one
    <3> QED BY <3>1, CountIs
  <2> QED BY <2>2, <2>3, <2>4
<1> HIDE DEF From
<1>5. \E i \in 1 .. n + 1 : Fits(i)
  <2> DEFINE Good == {i \in 1 .. n + 1 : Count(From(i)) <= max \/ i > n}
  <2>1. n + 1 \in Good /\ Good \in SUBSET Nat
    BY <1>2
  <2>2. PICK i \in Good : \A j \in Good : i <= j
    <3> HIDE DEF Good
    <3> QED BY <2>1, Least
  <2>3. ASSUME NEW j \in 1 .. i - 1 PROVE Count(From(j)) > max
    <3>1. j \in 1 .. n + 1 /\ ~ (i <= j)
      BY <1>2
    <3>2. j \notin Good
      <4> HIDE DEF Good
      <4> QED BY <2>2, <3>1
    <3>3. Count(From(j)) \in Nat
      BY <1>3, <3>1
    <3> QED BY <3>1, <3>2, <3>3
  <2> QED BY <2>3
<1>6. k \in 1 .. n + 1 /\ Fits(k)
  <2> HIDE DEF Fits
  <2> QED BY <1>5
<1> HIDE DEF k
<1>7. Count(From(k)) <= max
  <2>1. k > n => k = n + 1
    BY <1>2, <1>6
  <2> QED BY <1>4, <1>6, <2>1
<1>8. From(k) \in Line(max) /\ word \in Elems(From(k)) /\ Elems(From(k)) \subseteq Elems(previous) \cup {word}
  BY <1>3, <1>6, <1>7 DEF Line
<1> QED BY <1>1, <1>8

\* The letters of a sequence that has grown by one.
LEMMA LettersAppend ==
  ASSUME NEW T, NEW s \in Seq(T), NEW x \in T
  PROVE  /\ Places(Append(s, x)) = Places(s) \cup Of(x)
         /\ Letters(Append(s, x)) = Letters(s) \cup Places(x)
<1>1. Elems(Append(s, x)) = Elems(s) \cup {x}
  BY ElemsAppend
<1> QED BY <1>1, PlacesIs

\* The letters of one alone.
LEMMA LettersOne ==
  ASSUME NEW T, NEW x \in T
  PROVE  Places(<<x>>) = Of(x) /\ Letters(<<x>>) = Places(x)
<1>1. Elems(<<x>>) = {x}
  BY ElemsOne
<1>2. Places(<<x>>) = UNION {Of(y) : y \in {x}} /\ Letters(<<x>>) = UNION {Places(y) : y \in {x}}
  BY <1>1, PlacesIs
<1>3. UNION {Of(y) : y \in {x}} = Of(x) /\ UNION {Places(y) : y \in {x}} = Places(x)
  OBVIOUS
<1> QED BY <1>2, <1>3

\* Chunks that are finished and one being gathered, with the letters they show.
Holding(max, shown) ==
  {acc \in [out : Seq(Line(max)), cur : Line(max) \cup {<<>>}] :
     Letters(acc.out) \cup Places(acc.cur) = shown}

\* What is finished is whole, and what is gathered is whole or nothing yet.
LEMMA HoldingIs ==
  ASSUME NEW max, NEW shown, NEW acc \in Holding(max, shown)
  PROVE  /\ acc.out \in Seq(Line(max)) /\ acc.cur \in Seq(Small(max))
         /\ acc.cur # <<>> => acc.cur \in Line(max)
         /\ Letters(acc.out) \cup Places(acc.cur) = shown
         /\ acc = [out |-> acc.out, cur |-> acc.cur]
BY EmptySeq DEF Holding, Line

\* At the beginning there is nothing.
LEMMA NoneHeld == ASSUME NEW max PROVE Gathered \in Holding(max, {})
<1>1. <<>> \in Seq(Line(max)) /\ Elems(<<>>) = {}
  BY EmptySeq DEF Elems
<1>2. Letters(<<>>) = {} /\ Places(<<>>) = {}
  BY <1>1, PlacesIs
<1> QED BY <1>1, <1>2 DEF Gathered, Holding

\* At the end what was being gathered is a chunk like the others.
LEMMA ClosedIs ==
  ASSUME NEW max, NEW shown, NEW acc \in Holding(max, shown)
  PROVE  Closed(acc) \in Seq(Line(max)) /\ Letters(Closed(acc)) = shown
<1>1. CASE acc.cur = <<>>
  <2>1. Places(<<>>) = {}
    <3>1. Elems(<<>>) = {}
      BY DEF Elems
    <3> QED BY <3>1, PlacesIs
  <2>2. acc.out \in Seq(Line(max)) /\ Letters(acc.out) \cup Places(acc.cur) = shown
    BY HoldingIs
  <2>3. Letters(acc.out) = shown
    BY <1>1, <2>1, <2>2
  <2>4. Closed(acc) = acc.out
    BY <1>1 DEF Closed
  <2> QED BY <2>2, <2>3, <2>4
<1>2. CASE acc.cur # <<>>
  <2>1. Closed(acc) = Append(acc.out, acc.cur)
    BY <1>2 DEF Closed
  <2>2. acc.out \in Seq(Line(max)) /\ acc.cur \in Line(max) /\ Letters(acc.out) \cup Places(acc.cur) = shown
    BY <1>2, HoldingIs
  <2>3. Append(acc.out, acc.cur) \in Seq(Line(max))
    BY <2>2, ElemsAppend
  <2>4. Letters(Append(acc.out, acc.cur)) = shown
    <3>1. Letters(Append(acc.out, acc.cur)) = Letters(acc.out) \cup Places(acc.cur)
      BY <2>2, LettersAppend
    <3> QED BY <2>2, <3>1
  <2> QED BY <2>1, <2>3, <2>4
<1> QED BY <1>1, <1>2

\* A chunk that is full is finished, and the next begins with the word that did
\* not fit.
LEMMA CutIs ==
  ASSUME NEW max \in Nat, NEW overlap \in Nat, NEW shown, NEW acc \in Holding(max, shown),
         acc.cur # <<>>, NEW word \in Small(max)
  PROVE  Cut(acc, word, max, overlap) \in Holding(max, shown \cup Of(word))
<1> DEFINE out == Append(acc.out, acc.cur)
           cur == _start_with_overlap(acc.cur, word, max, overlap)
<1>1. /\ acc.out \in Seq(Line(max)) /\ acc.cur \in Line(max) /\ acc.cur \in Seq(Small(max))
      /\ Letters(acc.out) \cup Places(acc.cur) = shown
  BY HoldingIs
<1>2. out \in Seq(Line(max)) /\ Letters(out) = shown
  <2>1. Letters(out) = Letters(acc.out) \cup Places(acc.cur)
    BY <1>1, LettersAppend
  <2>2. out \in Seq(Line(max))
    BY <1>1, ElemsAppend
  <2> QED BY <1>1, <2>1, <2>2
<1>3. cur \in Line(max) /\ word \in Elems(cur) /\ Elems(cur) \subseteq Elems(acc.cur) \cup {word}
  BY <1>1, OverlapIs
<1> HIDE DEF cur, out
<1>4. Of(word) \subseteq Places(cur) /\ Places(cur) \subseteq Places(acc.cur) \cup Of(word)
  BY <1>3, PlacesIs
<1>5. Letters(out) \cup Places(cur) = shown \cup Of(word)
  BY <1>1, <1>2, <1>4
<1>6. [out |-> out, cur |-> cur] \in Holding(max, shown \cup Of(word))
  BY <1>2, <1>3, <1>5 DEF Holding
<1> QED BY <1>6 DEF Cut, out, cur

\* One word more.
LEMMA TakeWordIs ==
  ASSUME NEW max \in Nat, NEW overlap \in Nat, NEW shown, NEW acc \in Holding(max, shown),
         NEW word \in Small(max)
  PROVE  TakeWord(acc, word, max, overlap) \in Holding(max, shown \cup Of(word))
<1> DEFINE cur == Append(acc.cur, word)
<1>1. CASE acc.cur # <<>> /\ Count(cur) > max
  BY <1>1, CutIs DEF TakeWord
<1>2. CASE ~ (acc.cur # <<>> /\ Count(cur) > max)
  <2>1. /\ acc.out \in Seq(Line(max)) /\ acc.cur \in Seq(Small(max))
        /\ Letters(acc.out) \cup Places(acc.cur) = shown
        /\ acc = [out |-> acc.out, cur |-> acc.cur]
    BY HoldingIs
  <2>2. cur \in Seq(Small(max)) /\ cur # <<>> /\ Places(cur) = Places(acc.cur) \cup Of(word)
    BY <2>1, ElemsAppend, LettersAppend
  <2>3. cur \in Seq(Word)
    BY <2>2, SmallWords
  <2>4. Count(cur) <= max
    <3>1. Count(cur) \in Nat
      BY <2>3, CountIs
    <3>2. CASE acc.cur = <<>>
      <4>1. Len(cur) = 1 /\ cur[1] = word
        <5>1. Len(cur) = Len(acc.cur) + 1 /\ cur[Len(acc.cur) + 1] = word /\ Len(acc.cur) = 0
          BY <2>1, <3>2, AppendProperties, EmptySeq
        <5> QED BY <5>1
      <4>2. Count(cur) = Bytes(word)
        BY <2>3, <4>1, CountIs
      <4> QED BY <4>2 DEF Small
    <3>3. CASE acc.cur # <<>>
      <4>1. ~ (Count(cur) > max)
        BY <1>2, <3>3
      <4> QED BY <3>1, <4>1
    <3> QED BY <3>2, <3>3
  <2>5. cur \in Line(max)
    BY <2>2, <2>4 DEF Line
  <2>6. TakeWord(acc, word, max, overlap) = [out |-> acc.out, cur |-> cur]
    <3>1. TakeWord(acc, word, max, overlap) = [acc EXCEPT !.cur = cur]
      BY <1>2 DEF TakeWord
    <3> HIDE DEF cur
    <3> QED BY <2>1, <3>1
  <2> HIDE DEF cur
  <2>7. Letters(acc.out) \cup Places(cur) = shown \cup Of(word)
    BY <2>1, <2>2
  <2> QED BY <2>1, <2>5, <2>6, <2>7 DEF Holding
<1> QED BY <1>1, <1>2

\* Word after word.
LEMMA TakeWordsIs ==
  ASSUME NEW max \in Nat, NEW overlap \in Nat, NEW shown, NEW start \in Holding(max, shown),
         NEW words \in Seq(Small(max))
  PROVE  TakeWords(start, words, max, overlap) \in Holding(max, shown \cup Places(words))
<1> DEFINE n == Len(words)
           Fits(f) == f = [i \in 0 .. n |-> IF i = 0 THEN start ELSE TakeWord(f[i - 1], words[i], max, overlap)]
           g == CHOOSE f : Fits(f)
           ShownTo(i) == shown \cup UNION {Of(x) : x \in FirstElems(words, i)}
           I == [i \in 0 .. n |-> Holding(max, ShownTo(i))]
           U == UNION {I[i] : i \in 0 .. n}
           step == [p \in (1 .. n) \X U |-> TakeWord(p[2], words[p[1]], max, overlap)]
<1>1. TakeWords(start, words, max, overlap) = g[n]
  BY DEF TakeWords, Fold
<1>2. n \in Nat /\ \A i \in 1 .. n : words[i] \in Small(max)
  OBVIOUS
<1>3. \A i \in 0 .. n : I[i] = Holding(max, ShownTo(i))
  OBVIOUS
<1>4. \A i \in 1 .. n : \A acc \in U : step[<<i, acc>>] = TakeWord(acc, words[i], max, overlap)
  OBVIOUS
<1>5. ShownTo(0) = shown /\ \A i \in 1 .. n : ShownTo(i) = ShownTo(i - 1) \cup Of(words[i])
  <2>1. FirstElems(words, 0) = {} /\ \A i \in 1 .. n : FirstElems(words, i) = FirstElems(words, i - 1) \cup {words[i]}
    BY ElemsIs
  <2> QED BY <2>1
<1>6. ShownTo(n) = shown \cup Places(words)
  <2>1. FirstElems(words, n) = Elems(words)
    BY ElemsIs
  <2> QED BY <2>1, PlacesIs
<1>7. \A i \in 1 .. n : i \in 0 .. n /\ i - 1 \in 0 .. n
  BY <1>2
<1>8. 0 \in 0 .. n /\ n \in 0 .. n
  BY <1>2
<1>9. \A f : Fits(f) <=> f = [i \in 0 .. n |-> IF i = 0 THEN start ELSE TakeWord(f[i - 1], words[i], max, overlap)]
  OBVIOUS
<1>0. \A i \in 0 .. n : \A a : a \in I[i] => a \in U
  OBVIOUS
<1> HIDE DEF Fits, g, I, U, step, n, ShownTo
<1>10. start \in I[0]
  BY <1>3, <1>5, <1>8
<1>11. ASSUME NEW i \in 1 .. n, NEW acc \in I[i - 1] PROVE acc \in U /\ TakeWord(acc, words[i], max, overlap) \in I[i]
  <2>1. acc \in Holding(max, ShownTo(i - 1)) /\ words[i] \in Small(max)
    BY <1>2, <1>3, <1>7
  <2>2. TakeWord(acc, words[i], max, overlap) \in Holding(max, ShownTo(i - 1) \cup Of(words[i]))
    BY <2>1, TakeWordIs
  <2>3. TakeWord(acc, words[i], max, overlap) \in Holding(max, ShownTo(i))
    BY <1>5, <2>2
  <2>4. acc \in U
    BY <1>7, <1>0
  <2> QED BY <1>3, <1>7, <2>3, <2>4
<1>12. \E f : Fits(f)
  <2>1. Stays(n, I, start, step)
    BY <1>4, <1>10, <1>11 DEF Stays
  <2>2. PICK f : RunOf(n, start, step, f) /\ Within(n, I, f)
    BY <1>2, <2>1, LoopRuns
  <2>3. f = [i \in 0 .. n |-> IF i = 0 THEN start ELSE step[<<i, f[i - 1]>>]]
    BY <2>2 DEF RunOf
  <2>4. ASSUME NEW i \in 0 .. n, i # 0 PROVE step[<<i, f[i - 1]>>] = TakeWord(f[i - 1], words[i], max, overlap)
    <3>1. i \in 1 .. n
      BY <1>2, <2>4
    <3>2. f[i - 1] \in I[i - 1]
      BY <1>7, <2>2, <3>1 DEF Within
    <3> QED BY <1>4, <1>11, <3>1, <3>2
  <2>5. f = [i \in 0 .. n |-> IF i = 0 THEN start ELSE TakeWord(f[i - 1], words[i], max, overlap)]
    <3>1. \A i \in 0 .. n : (IF i = 0 THEN start ELSE step[<<i, f[i - 1]>>])
                             = IF i = 0 THEN start ELSE TakeWord(f[i - 1], words[i], max, overlap)
      BY <2>4
    <3>2. DOMAIN f = 0 .. n /\ \A i \in 0 .. n : f[i] = IF i = 0 THEN start ELSE TakeWord(f[i - 1], words[i], max, overlap)
      BY <2>3, <3>1
    <3>3. f = [i \in 0 .. n |-> f[i]]
      BY <2>3
    <3> QED BY <3>2, <3>3
  <2> QED BY <1>9, <2>5
<1>13. g = [i \in 0 .. n |-> IF i = 0 THEN start ELSE TakeWord(g[i - 1], words[i], max, overlap)]
  BY <1>9, <1>12 DEF g
<1>14. g[n] \in I[n]
  <2>1. g[0] = start /\ \A i \in 1 .. n : g[i] = TakeWord(g[i - 1], words[i], max, overlap)
    BY <1>7, <1>8, <1>13
  <2>2. Kept(n, I, g)
    BY <1>10, <1>11, <2>1 DEF Kept
  <2> QED BY <1>2, <1>8, <2>2, LoopKeeps DEF Within
<1> QED BY <1>1, <1>3, <1>6, <1>8, <1>14

\* A piece begins a chunk, goes on with one, or is laid over a new one word by word.
LEMMA TakePieceIs ==
  ASSUME NEW max \in Nat, NEW overlap \in Nat, NEW shown, NEW acc \in Holding(max, shown),
         NEW piece \in Line(max)
  PROVE  TakePiece(acc, piece, max, overlap) \in Holding(max, shown \cup Places(piece))
<1>0. piece \in Seq(Small(max)) /\ piece # <<>> /\ Count(piece) <= max
  BY DEF Line
<1>1. CASE acc.cur # <<>> /\ Count(acc.cur \o piece) > max
  <2> DEFINE h == Head(piece)
             t == Tail(piece)
             cut == Cut(acc, h, max, overlap)
  <2>1. h \in Small(max) /\ t \in Seq(Small(max)) /\ Elems(piece) = {h} \cup Elems(t)
    BY <1>0, ElemsHead
  <2>2. cut \in Holding(max, shown \cup Of(h))
    <3> HIDE DEF h
    <3> QED BY <1>1, <2>1, CutIs
  <2>3. TakePiece(acc, piece, max, overlap) = TakeWords(cut, t, max, overlap)
    BY <1>1 DEF TakePiece
  <2> HIDE DEF h, t, cut
  <2>4. TakeWords(cut, t, max, overlap) \in Holding(max, (shown \cup Of(h)) \cup Places(t))
    BY <2>1, <2>2, TakeWordsIs
  <2>5. (shown \cup Of(h)) \cup Places(t) = shown \cup Places(piece)
    <3>1. Places(piece) = Of(h) \cup Places(t)
      BY <2>1, PlacesIs
    <3> QED BY <3>1
  <2> QED BY <2>3, <2>4, <2>5
<1>2. CASE ~ (acc.cur # <<>> /\ Count(acc.cur \o piece) > max)
  <2> DEFINE cur == acc.cur \o piece
  <2>1. /\ acc.out \in Seq(Line(max)) /\ acc.cur \in Seq(Small(max))
        /\ Letters(acc.out) \cup Places(acc.cur) = shown
        /\ acc = [out |-> acc.out, cur |-> acc.cur]
    BY HoldingIs
  <2>2. cur \in Seq(Small(max)) /\ Elems(cur) = Elems(acc.cur) \cup Elems(piece) /\ cur # <<>>
    BY <1>0, <2>1, ElemsConcat, ConcatEqualIffEmpty
  <2>3. Count(cur) <= max
    <3>1. Count(cur) \in Nat
      BY <2>2, SmallWords, CountIs
    <3>2. acc.cur = <<>> => cur = piece
      BY <1>0, ConcatEmptySeq
    <3>3. acc.cur # <<>> => ~ (Count(cur) > max)
      BY <1>2
    <3> HIDE DEF cur
    <3> QED BY <1>0, <3>1, <3>2, <3>3
  <2>4. TakePiece(acc, piece, max, overlap) = [out |-> acc.out, cur |-> cur]
    <3>1. TakePiece(acc, piece, max, overlap) = [acc EXCEPT !.cur = cur]
      BY <1>2 DEF TakePiece
    <3> HIDE DEF cur
    <3> QED BY <2>1, <3>1
  <2> HIDE DEF cur
  <2>5. Places(cur) = Places(acc.cur) \cup Places(piece)
    BY <2>2, PlacesIs
  <2>6. Letters(acc.out) \cup Places(cur) = shown \cup Places(piece)
    BY <2>1, <2>5
  <2>7. cur \in Line(max)
    BY <2>2, <2>3 DEF Line
  <2> QED BY <2>1, <2>4, <2>6, <2>7 DEF Holding
<1> QED BY <1>1, <1>2

\* Characters that fit into a chunk, and what a word is cut into.
Fitting(max) == {char \in Letter : char[2] <= max}
Cutting(max, shown) ==
  {acc \in [out : Seq(Small(max)), cur : Small(max) \cup {<<>>}] :
     Places(acc.out) \cup Of(acc.cur) = shown}

\* The letters of a word by its characters.
LEMMA OfIs == ASSUME NEW word PROVE Of(word) = {x[1] : x \in Elems(word)}
BY DEF Of, Elems

\* One character more of a word that does not fit.
LEMMA TakeCharIs ==
  ASSUME NEW max \in Nat, NEW shown, NEW acc \in Cutting(max, shown), NEW char \in Fitting(max)
  PROVE  TakeChar(acc, char, max) \in Cutting(max, shown \cup {char[1]})
<1>1. /\ acc.out \in Seq(Small(max)) /\ (acc.cur # <<>> => acc.cur \in Small(max))
      /\ Places(acc.out) \cup Of(acc.cur) = shown
      /\ acc = [out |-> acc.out, cur |-> acc.cur]
  BY DEF Cutting
<1>2. acc.cur \in Seq(Letter) /\ char \in Letter /\ char[2] <= max
  BY <1>1, EmptySeq DEF Small, Word, Fitting
<1> DEFINE cur == Append(acc.cur, char)
<1>3. CASE acc.cur # <<>> /\ Bytes(cur) > max
  <2> DEFINE out == Append(acc.out, acc.cur)
             one == <<char>>
  <2>1. out \in Seq(Small(max))
    BY <1>1, <1>3, ElemsAppend
  <2>2. Places(out) = Places(acc.out) \cup Of(acc.cur)
    BY <1>1, <1>3, LettersAppend
  <2>3. one \in Seq(Letter) /\ Elems(one) = {char} /\ Len(one) = 1 /\ one[1] = char
    BY <1>2, ElemsOne
  <2> HIDE DEF out, one
  <2>4. one \in Small(max)
    <3>1. one \in Word /\ Bytes(one) = char[2]
      BY <2>3, BytesIs DEF Word
    <3> QED BY <1>2, <3>1 DEF Small
  <2>5. Of(one) = {char[1]}
    BY <2>3, OfIs
  <2>6. Places(out) \cup Of(one) = shown \cup {char[1]}
    BY <1>1, <2>2, <2>5
  <2>7. TakeChar(acc, char, max) = [out |-> out, cur |-> one]
    BY <1>3 DEF TakeChar, out, one
  <2> QED BY <2>1, <2>4, <2>6, <2>7 DEF Cutting
<1>4. CASE ~ (acc.cur # <<>> /\ Bytes(cur) > max)
  <2>1. cur \in Word /\ Elems(cur) = Elems(acc.cur) \cup {char}
    BY <1>2, ElemsAppend DEF Word
  <2>2. Bytes(cur) <= max
    <3>1. Bytes(cur) \in Nat
      BY <2>1, BytesIs
    <3>2. CASE acc.cur = <<>>
      <4>1. Len(cur) = 1 /\ cur[1] = char
        <5>1. Len(cur) = Len(acc.cur) + 1 /\ cur[Len(acc.cur) + 1] = char /\ Len(acc.cur) = 0
          BY <1>2, <3>2, AppendProperties, EmptySeq
        <5> QED BY <5>1
      <4> HIDE DEF cur
      <4> QED BY <1>2, <2>1, <4>1, BytesIs
    <3>3. CASE acc.cur # <<>>
      BY <1>4, <3>1, <3>3
    <3> QED BY <3>2, <3>3
  <2>3. Of(cur) = Of(acc.cur) \cup {char[1]}
    BY <2>1, OfIs
  <2>4. TakeChar(acc, char, max) = [out |-> acc.out, cur |-> cur]
    <3>1. TakeChar(acc, char, max) = [acc EXCEPT !.cur = cur]
      BY <1>4 DEF TakeChar
    <3> HIDE DEF cur
    <3> QED BY <1>1, <3>1
  <2> HIDE DEF cur
  <2>5. Places(acc.out) \cup Of(cur) = shown \cup {char[1]}
    BY <1>1, <2>3
  <2>6. cur \in Small(max)
    BY <2>1, <2>2 DEF Small
  <2> QED BY <1>1, <2>4, <2>5, <2>6 DEF Cutting
<1> QED BY <1>3, <1>4

\* Such a word becomes words that fit, with its letters and no others.
LEMMA SplitIs ==
  ASSUME NEW max \in Nat, NEW word \in Seq(Fitting(max))
  PROVE  /\ _split_oversized_token(word, max) \in Seq(Small(max))
         /\ Places(_split_oversized_token(word, max)) = Of(word)
<1> DEFINE n == Len(word)
           Fits(f) == f = [i \in 0 .. n |-> IF i = 0 THEN Gathered ELSE TakeChar(f[i - 1], word[i], max)]
           g == CHOOSE f : Fits(f)
           ShownTo(i) == {x[1] : x \in FirstElems(word, i)}
           I == [i \in 0 .. n |-> Cutting(max, ShownTo(i))]
           U == UNION {I[i] : i \in 0 .. n}
           step == [p \in (1 .. n) \X U |-> TakeChar(p[2], word[p[1]], max)]
<1>1. _split_oversized_token(word, max) = Closed(g[n])
  BY DEF _split_oversized_token, Fold
<1>2. n \in Nat /\ \A i \in 1 .. n : word[i] \in Fitting(max)
  OBVIOUS
<1>3. \A i \in 0 .. n : I[i] = Cutting(max, ShownTo(i))
  OBVIOUS
<1>4. \A i \in 1 .. n : \A acc \in U : step[<<i, acc>>] = TakeChar(acc, word[i], max)
  OBVIOUS
<1>5. ShownTo(0) = {} /\ \A i \in 1 .. n : ShownTo(i) = ShownTo(i - 1) \cup {word[i][1]}
  <2>1. FirstElems(word, 0) = {} /\ \A i \in 1 .. n : FirstElems(word, i) = FirstElems(word, i - 1) \cup {word[i]}
    BY ElemsIs
  <2> QED BY <2>1
<1>6. ShownTo(n) = Of(word)
  <2>1. FirstElems(word, n) = Elems(word)
    BY ElemsIs
  <2> QED BY <2>1, OfIs
<1>7. \A i \in 1 .. n : i \in 0 .. n /\ i - 1 \in 0 .. n
  BY <1>2
<1>8. 0 \in 0 .. n /\ n \in 0 .. n
  BY <1>2
<1>9. \A f : Fits(f) <=> f = [i \in 0 .. n |-> IF i = 0 THEN Gathered ELSE TakeChar(f[i - 1], word[i], max)]
  OBVIOUS
<1>0. \A i \in 0 .. n : \A a : a \in I[i] => a \in U
  OBVIOUS
<1> HIDE DEF Fits, g, I, U, step, n, ShownTo
<1>10. Gathered \in I[0]
  <2>1. <<>> \in Seq(Small(max)) /\ Elems(<<>>) = {}
    BY EmptySeq DEF Elems
  <2>2. Places(<<>>) = {} /\ Of(<<>>) = {}
    BY <2>1, PlacesIs, OfIs
  <2>3. Gathered \in Cutting(max, {})
    BY <2>1, <2>2 DEF Gathered, Cutting
  <2> QED BY <1>3, <1>5, <1>8, <2>3
<1>11. ASSUME NEW i \in 1 .. n, NEW acc \in I[i - 1] PROVE acc \in U /\ TakeChar(acc, word[i], max) \in I[i]
  <2>1. acc \in Cutting(max, ShownTo(i - 1)) /\ word[i] \in Fitting(max)
    BY <1>2, <1>3, <1>7
  <2>2. TakeChar(acc, word[i], max) \in Cutting(max, ShownTo(i - 1) \cup {word[i][1]})
    BY <2>1, TakeCharIs
  <2>3. TakeChar(acc, word[i], max) \in Cutting(max, ShownTo(i))
    BY <1>5, <2>2
  <2>4. acc \in U
    BY <1>7, <1>0
  <2> QED BY <1>3, <1>7, <2>3, <2>4
<1>12. \E f : Fits(f)
  <2>1. Stays(n, I, Gathered, step)
    BY <1>4, <1>10, <1>11 DEF Stays
  <2>2. PICK f : RunOf(n, Gathered, step, f) /\ Within(n, I, f)
    BY <1>2, <2>1, LoopRuns
  <2>3. f = [i \in 0 .. n |-> IF i = 0 THEN Gathered ELSE step[<<i, f[i - 1]>>]]
    BY <2>2 DEF RunOf
  <2>4. ASSUME NEW i \in 0 .. n, i # 0 PROVE step[<<i, f[i - 1]>>] = TakeChar(f[i - 1], word[i], max)
    <3>1. i \in 1 .. n
      BY <1>2, <2>4
    <3>2. f[i - 1] \in I[i - 1]
      BY <1>7, <2>2, <3>1 DEF Within
    <3> QED BY <1>4, <1>11, <3>1, <3>2
  <2>5. f = [i \in 0 .. n |-> IF i = 0 THEN Gathered ELSE TakeChar(f[i - 1], word[i], max)]
    <3>1. \A i \in 0 .. n : (IF i = 0 THEN Gathered ELSE step[<<i, f[i - 1]>>])
                             = IF i = 0 THEN Gathered ELSE TakeChar(f[i - 1], word[i], max)
      BY <2>4
    <3>2. DOMAIN f = 0 .. n /\ \A i \in 0 .. n : f[i] = IF i = 0 THEN Gathered ELSE TakeChar(f[i - 1], word[i], max)
      BY <2>3, <3>1
    <3>3. f = [i \in 0 .. n |-> f[i]]
      BY <2>3
    <3> QED BY <3>2, <3>3
  <2> QED BY <1>9, <2>5
<1>13. g = [i \in 0 .. n |-> IF i = 0 THEN Gathered ELSE TakeChar(g[i - 1], word[i], max)]
  BY <1>9, <1>12 DEF g
<1>14. g[n] \in I[n]
  <2>1. g[0] = Gathered /\ \A i \in 1 .. n : g[i] = TakeChar(g[i - 1], word[i], max)
    BY <1>7, <1>8, <1>13
  <2>2. Kept(n, I, g)
    BY <1>10, <1>11, <2>1 DEF Kept
  <2> QED BY <1>2, <1>8, <2>2, LoopKeeps DEF Within
<1> DEFINE last == g[n]
<1>15. last \in Cutting(max, Of(word))
  BY <1>3, <1>6, <1>8, <1>14
<1> HIDE DEF last
<1>16. /\ last.out \in Seq(Small(max)) /\ (last.cur # <<>> => last.cur \in Small(max))
       /\ Places(last.out) \cup Of(last.cur) = Of(word)
  BY <1>15 DEF Cutting
<1>17. Closed(last) \in Seq(Small(max)) /\ Places(Closed(last)) = Of(word)
  <2>1. CASE last.cur = <<>>
    <3>1. Of(<<>>) = {}
      BY DEF Of
    <3>2. Closed(last) = last.out
      BY <2>1 DEF Closed
    <3>3. Places(last.out) = Of(word)
      BY <1>16, <2>1, <3>1
    <3> QED BY <1>16, <3>2, <3>3
  <2>2. CASE last.cur # <<>>
    <3>1. Closed(last) = Append(last.out, last.cur)
      BY <2>2 DEF Closed
    <3>2. Append(last.out, last.cur) \in Seq(Small(max))
      BY <1>16, <2>2, ElemsAppend
    <3>3. Places(Append(last.out, last.cur)) = Places(last.out) \cup Of(last.cur)
      BY <1>16, <2>2, LettersAppend
    <3> QED BY <1>16, <3>1, <3>2, <3>3
  <2> QED BY <2>1, <2>2
<1> QED BY <1>1, <1>17 DEF last

\* The letters of sequences laid end to end.
LEMMA ExtendedLetters ==
  ASSUME NEW T, NEW seqs \in Seq(Seq(T))
  PROVE  /\ Places(Extended(seqs)) = UNION {Places(x) : x \in Elems(seqs)}
         /\ Letters(Extended(seqs)) = UNION {Letters(x) : x \in Elems(seqs)}
<1>1. Elems(Extended(seqs)) = UNION {Elems(x) : x \in Elems(seqs)}
  BY ExtendedIs
<1>2. /\ Places(Extended(seqs)) = UNION {Of(y) : y \in Elems(Extended(seqs))}
      /\ Letters(Extended(seqs)) = UNION {Places(y) : y \in Elems(Extended(seqs))}
      /\ \A x : Places(x) = UNION {Of(y) : y \in Elems(x)} /\ Letters(x) = UNION {Places(y) : y \in Elems(x)}
  BY PlacesIs
<1> QED BY <1>1, <1>2

\* Sentences whose characters fit.
Sentences(max) == {sentence \in Seq(Seq(Fitting(max))) : sentence # <<>>}

\* A sentence becomes pieces that fit, with its letters and no others.
LEMMA PiecedIs ==
  ASSUME NEW max \in Nat, NEW overlap \in Nat, NEW sentence \in Sentences(max)
  PROVE  /\ Pieced(sentence, max, overlap) \in Seq(Line(max))
         /\ Letters(Pieced(sentence, max, overlap)) = Places(sentence)
<1> DEFINE Parts(word) == IF Bytes(word) > max THEN _split_oversized_token(word, max) ELSE <<word>>
           n == Len(sentence)
           parts == [i \in 1 .. n |-> Parts(sentence[i])]
           words == Extended(parts)
<1>1. /\ n \in Nat /\ DOMAIN sentence = 1 .. n /\ (\A i \in 1 .. n : sentence[i] \in Seq(Fitting(max)))
      /\ sentence # <<>> /\ sentence \in Seq(Seq(Fitting(max)))
  BY DEF Sentences
<1>2. Seq(Fitting(max)) \subseteq Word
  <2>1. Fitting(max) \subseteq Letter
    BY DEF Fitting
  <2> QED BY <2>1, SeqMonotonic DEF Word
<1>3. sentence \in Seq(Word)
  BY <1>1, <1>2, SeqMonotonic
<1>4. Pieced(sentence, max, overlap) =
        IF Count(sentence) <= max THEN <<sentence>> ELSE Closed(TakeWords(Gathered, words, max, overlap))
  BY DEF Pieced
<1>5. CASE Count(sentence) <= max
  <2>1. \A i \in 1 .. n : sentence[i] \in Small(max)
    <3>1. \A i \in 1 .. n : sentence[i] \in Word /\ Bytes(sentence[i]) \in Nat
      BY <1>1, <1>2, BytesIs
    <3>2. Count(sentence) \in Nat /\ \A i \in 1 .. n : Bytes(sentence[i]) <= Count(sentence)
      BY <1>3, CountIs
    <3>3. ASSUME NEW i \in 1 .. n PROVE Bytes(sentence[i]) <= max
      BY <1>5, <3>1, <3>2
    <3> QED BY <3>1, <3>3 DEF Small
  <2>2. sentence \in Seq(Small(max))
    <3>1. Elems(sentence) \subseteq Small(max)
      BY <1>1, <2>1 DEF Elems
    <3> QED BY <1>1, <3>1, ElemsIs
  <2>3. sentence \in Line(max)
    BY <1>1, <1>5, <2>2 DEF Line
  <2>4. <<sentence>> \in Seq(Line(max)) /\ Elems(<<sentence>>) = {sentence}
    BY <2>3, ElemsOne
  <2>5. Letters(<<sentence>>) = Places(sentence)
    BY <2>3, LettersOne
  <2> QED BY <1>4, <1>5, <2>4, <2>5
<1>6. CASE ~ (Count(sentence) <= max)
  <2>1. ASSUME NEW i \in 1 .. n
        PROVE  Parts(sentence[i]) \in Seq(Small(max)) /\ Places(Parts(sentence[i])) = Of(sentence[i])
    <3> DEFINE word == sentence[i]
    <3>1. word \in Seq(Fitting(max)) /\ word \in Word /\ Bytes(word) \in Nat
      BY <1>1, <1>2, BytesIs
    <3> HIDE DEF word
    <3>2. Parts(word) \in Seq(Small(max)) /\ Places(Parts(word)) = Of(word)
      <4>1. CASE Bytes(word) > max
        BY <3>1, <4>1, SplitIs
      <4>2. CASE ~ (Bytes(word) > max)
        <5>1. word \in Small(max)
          BY <3>1, <4>2 DEF Small
        <5>2. <<word>> \in Seq(Small(max)) /\ Places(<<word>>) = Of(word)
          BY <5>1, ElemsOne, LettersOne
        <5> QED BY <4>2, <5>2
      <4> QED BY <4>1, <4>2
    <3> HIDE DEF Parts
    <3> QED BY <3>2 DEF word
  <2>2. parts \in Seq(Seq(Small(max))) /\ Elems(parts) = {Parts(sentence[i]) : i \in 1 .. n}
    <3> HIDE DEF Parts
    <3>1. parts \in [1 .. n -> Seq(Small(max))]
      BY <2>1
    <3>2. parts \in Seq(Seq(Small(max)))
      <4>1. n \in Nat
        BY <1>1
      <4> HIDE DEF parts, n
      <4> QED BY <3>1, <4>1, SeqDef
    <3> QED BY <3>2 DEF Elems
  <2> HIDE DEF Parts, parts
  <2>3. words \in Seq(Small(max)) /\ Places(words) = UNION {Places(x) : x \in Elems(parts)}
    BY <2>2, ExtendedIs, ExtendedLetters
  <2>4. UNION {Places(x) : x \in Elems(parts)} = Places(sentence)
    <3>1. UNION {Places(x) : x \in Elems(parts)} = UNION {Of(sentence[i]) : i \in 1 .. n}
      BY <2>1, <2>2
    <3>2. Elems(sentence) = {sentence[i] : i \in 1 .. n}
      BY <1>1 DEF Elems
    <3> QED BY <3>1, <3>2, PlacesIs
  <2> HIDE DEF words
  <2> DEFINE acc == TakeWords(Gathered, words, max, overlap)
  <2>5. acc \in Holding(max, Places(sentence))
    <3>1. acc \in Holding(max, {} \cup Places(words))
      BY <2>3, NoneHeld, TakeWordsIs
    <3>2. {} \cup Places(words) = Places(sentence)
      BY <2>3, <2>4
    <3> HIDE DEF acc
    <3> QED BY <3>1, <3>2
  <2> HIDE DEF acc
  <2>6. Closed(acc) \in Seq(Line(max)) /\ Letters(Closed(acc)) = Places(sentence)
    BY <2>5, ClosedIs
  <2> QED BY <1>4, <1>6, <2>6 DEF acc
<1> QED BY <1>5, <1>6

\* So does a text.
LEMMA PiecesAre ==
  ASSUME NEW max \in Nat, NEW overlap \in Nat, NEW text \in Seq(Sentences(max))
  PROVE  /\ _pieces(text, max, overlap) \in Seq(Line(max))
         /\ Letters(_pieces(text, max, overlap)) = Letters(text)
<1> DEFINE n == Len(text)
           made == [i \in 1 .. n |-> Pieced(text[i], max, overlap)]
<1>1. n \in Nat /\ DOMAIN text = 1 .. n /\ \A i \in 1 .. n : text[i] \in Sentences(max)
  OBVIOUS
<1>2. \A i \in 1 .. n : /\ Pieced(text[i], max, overlap) \in Seq(Line(max))
                        /\ Letters(Pieced(text[i], max, overlap)) = Places(text[i])
  BY <1>1, PiecedIs
<1>3. made \in Seq(Seq(Line(max))) /\ Elems(made) = {Pieced(text[i], max, overlap) : i \in 1 .. n}
  <2>1. made \in [1 .. n -> Seq(Line(max))]
    BY <1>2
  <2>2. made \in Seq(Seq(Line(max)))
    <3> HIDE DEF made
    <3> QED BY <1>1, <2>1, SeqDef
  <2> QED BY <2>2 DEF Elems
<1>4. _pieces(text, max, overlap) = Extended(made)
  BY DEF _pieces
<1> HIDE DEF made
<1>5. Extended(made) \in Seq(Line(max)) /\ Letters(Extended(made)) = UNION {Letters(x) : x \in Elems(made)}
  BY <1>3, ExtendedIs, ExtendedLetters
<1>6. UNION {Letters(x) : x \in Elems(made)} = Letters(text)
  <2>1. UNION {Letters(x) : x \in Elems(made)} = UNION {Places(text[i]) : i \in 1 .. n}
    BY <1>2, <1>3
  <2>2. Elems(text) = {text[i] : i \in 1 .. n}
    BY <1>1 DEF Elems
  <2> QED BY <2>1, <2>2, PlacesIs
<1> QED BY <1>4, <1>5, <1>6

\* The whole text.
LEMMA ChunksAre ==
  ASSUME NEW max \in Nat, NEW overlap \in Nat, NEW text \in Seq(Sentences(max))
  PROVE  /\ chunk(text, max, overlap) \in Seq(Line(max))
         /\ Letters(chunk(text, max, overlap)) = Letters(text)
<1> DEFINE pieces == _pieces(text, max, overlap)
           n == Len(pieces)
           Fits(f) == f = [i \in 0 .. n |-> IF i = 0 THEN Gathered ELSE TakePiece(f[i - 1], pieces[i], max, overlap)]
           g == CHOOSE f : Fits(f)
           ShownTo(i) == UNION {Places(x) : x \in FirstElems(pieces, i)}
           I == [i \in 0 .. n |-> Holding(max, ShownTo(i))]
           U == UNION {I[i] : i \in 0 .. n}
           step == [p \in (1 .. n) \X U |-> TakePiece(p[2], pieces[p[1]], max, overlap)]
<1>1. chunk(text, max, overlap) = Closed(g[n])
  BY DEF chunk, Fold
<1>15. pieces \in Seq(Line(max)) /\ Letters(pieces) = Letters(text)
  BY PiecesAre
<1> HIDE DEF pieces
<1>2. n \in Nat /\ \A i \in 1 .. n : pieces[i] \in Line(max)
  BY <1>15
<1>3. \A i \in 0 .. n : I[i] = Holding(max, ShownTo(i))
  OBVIOUS
<1>4. \A i \in 1 .. n : \A acc \in U : step[<<i, acc>>] = TakePiece(acc, pieces[i], max, overlap)
  OBVIOUS
<1>5. ShownTo(0) = {} /\ \A i \in 1 .. n : ShownTo(i) = ShownTo(i - 1) \cup Places(pieces[i])
  <2>1. FirstElems(pieces, 0) = {} /\ \A i \in 1 .. n : FirstElems(pieces, i) = FirstElems(pieces, i - 1) \cup {pieces[i]}
    BY <1>15, ElemsIs
  <2> QED BY <2>1
<1>6. ShownTo(n) = Letters(text)
  <2>1. FirstElems(pieces, n) = Elems(pieces)
    BY <1>15, ElemsIs
  <2> QED BY <1>15, <2>1, PlacesIs
<1>7. \A i \in 1 .. n : i \in 0 .. n /\ i - 1 \in 0 .. n
  BY <1>2
<1>8. 0 \in 0 .. n /\ n \in 0 .. n
  BY <1>2
<1>9. \A f : Fits(f) <=> f = [i \in 0 .. n |-> IF i = 0 THEN Gathered ELSE TakePiece(f[i - 1], pieces[i], max, overlap)]
  OBVIOUS
<1>0. \A i \in 0 .. n : \A a : a \in I[i] => a \in U
  OBVIOUS
<1> HIDE DEF Fits, g, I, U, step, n, ShownTo
<1>10. Gathered \in I[0]
  <2>1. I[0] = Holding(max, {})
    BY <1>3, <1>5, <1>8
  <2> QED BY <2>1, NoneHeld
<1>11. ASSUME NEW i \in 1 .. n, NEW acc \in I[i - 1] PROVE acc \in U /\ TakePiece(acc, pieces[i], max, overlap) \in I[i]
  <2>1. acc \in Holding(max, ShownTo(i - 1)) /\ pieces[i] \in Line(max)
    BY <1>2, <1>3, <1>7
  <2>2. TakePiece(acc, pieces[i], max, overlap) \in Holding(max, ShownTo(i - 1) \cup Places(pieces[i]))
    BY <2>1, TakePieceIs
  <2>3. TakePiece(acc, pieces[i], max, overlap) \in Holding(max, ShownTo(i))
    BY <1>5, <2>2
  <2>4. acc \in U
    BY <1>7, <1>0
  <2> QED BY <1>3, <1>7, <2>3, <2>4
<1>12. \E f : Fits(f)
  <2>1. Stays(n, I, Gathered, step)
    BY <1>4, <1>10, <1>11 DEF Stays
  <2>2. PICK f : RunOf(n, Gathered, step, f) /\ Within(n, I, f)
    BY <1>2, <2>1, LoopRuns
  <2>3. f = [i \in 0 .. n |-> IF i = 0 THEN Gathered ELSE step[<<i, f[i - 1]>>]]
    BY <2>2 DEF RunOf
  <2>4. ASSUME NEW i \in 0 .. n, i # 0 PROVE step[<<i, f[i - 1]>>] = TakePiece(f[i - 1], pieces[i], max, overlap)
    <3>1. i \in 1 .. n
      BY <1>2, <2>4
    <3>2. f[i - 1] \in I[i - 1]
      BY <1>7, <2>2, <3>1 DEF Within
    <3> QED BY <1>4, <1>11, <3>1, <3>2
  <2>5. f = [i \in 0 .. n |-> IF i = 0 THEN Gathered ELSE TakePiece(f[i - 1], pieces[i], max, overlap)]
    <3>1. \A i \in 0 .. n : (IF i = 0 THEN Gathered ELSE step[<<i, f[i - 1]>>])
                             = IF i = 0 THEN Gathered ELSE TakePiece(f[i - 1], pieces[i], max, overlap)
      BY <2>4
    <3>2. DOMAIN f = 0 .. n /\ \A i \in 0 .. n : f[i] = IF i = 0 THEN Gathered ELSE TakePiece(f[i - 1], pieces[i], max, overlap)
      BY <2>3, <3>1
    <3>3. f = [i \in 0 .. n |-> f[i]]
      BY <2>3
    <3> QED BY <3>2, <3>3
  <2> QED BY <1>9, <2>5
<1>13. g = [i \in 0 .. n |-> IF i = 0 THEN Gathered ELSE TakePiece(g[i - 1], pieces[i], max, overlap)]
  BY <1>9, <1>12 DEF g
<1>14. g[n] \in I[n]
  <2>1. g[0] = Gathered /\ \A i \in 1 .. n : g[i] = TakePiece(g[i - 1], pieces[i], max, overlap)
    BY <1>7, <1>8, <1>13
  <2>2. Kept(n, I, g)
    BY <1>10, <1>11, <2>1 DEF Kept
  <2> QED BY <1>2, <1>8, <2>2, LoopKeeps DEF Within
<1> DEFINE last == g[n]
<1>16. last \in Holding(max, Letters(text))
  BY <1>3, <1>6, <1>8, <1>14
<1> HIDE DEF last
<1>17. Closed(last) \in Seq(Line(max)) /\ Letters(Closed(last)) = Letters(text)
  BY <1>16, ClosedIs
<1> QED BY <1>1, <1>17 DEF last

\* Whatever text, limit and overlap, as long as each character fits: no chunk is
\* over the limit, so that no check of the chunker raises (OverlapIs and
\* TakeCharIs are the two inside it), and no letter of the text is lost.
THEOREM ChunksWhole ==
  ASSUME NEW max \in Nat, NEW overlap \in Nat, NEW text \in Seq(Sentences(max))
  PROVE  /\ WithinLimit(chunk(text, max, overlap), max)
         /\ NothingLost(text, chunk(text, max, overlap))
<1> DEFINE made == chunk(text, max, overlap)
<1>1. made \in Seq(Line(max)) /\ Letters(made) = Letters(text)
  BY ChunksAre
<1> HIDE DEF made
<1>2. \A i \in DOMAIN made : made[i] \in Line(max)
  BY <1>1
<1>3. WithinLimit(made, max) /\ NothingLost(text, made)
  BY <1>1, <1>2 DEF WithinLimit, NothingLost, Line
<1> QED BY <1>3 DEF made
=============================================================================
