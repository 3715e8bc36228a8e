---------------------------- MODULE SemanticIndex ----------------------------
(***************************************************************************)
(* The semantic index of an archive: the connector's bounded passes that   *)
(* reconcile it with the recordings, and the searches of the viewer and of *)
(* the recordings MCP, which only read it.                                 *)
(*                                                                         *)
(* There is one writer, a pass under the connector's lock after its drain. *)
(* It reads the archive once and then works document by document, each     *)
(* index operation a connection and a transaction of its own; the archive  *)
(* is edited, the process dies, the embedder fails and the file is damaged *)
(* between any two of them.  A text is its version; a vector is the model  *)
(* that made it.                                                           *)
(***************************************************************************)
EXTENDS Integers, FiniteSets

CONSTANTS
  Recs,            \* recordings, in id order
  Models,          \* index identities: model, digest, dimension and chunker
  NoModel,
  Pieces,          \* version -> the ordinals of the chunks it is cut into
  Batch,           \* SEMANTIC_REINDEX_BATCH
  McpReaders, ViewerReaders,
  MaxVersion, MaxMoves, MaxFaults, MaxUpgrades, MaxSearches   \* bounds

Readers  == McpReaders \cup ViewerReaders
Versions == 1..MaxVersion

ASSUME SemanticAssumption ==
  /\ Recs \subseteq Int /\ IsFiniteSet(Recs)
  /\ NoModel \notin Models /\ Models # {}
  /\ MaxVersion \in Nat \ {0} /\ Batch \in Nat
  /\ MaxMoves \in Nat /\ MaxFaults \in Nat /\ MaxUpgrades \in Nat /\ MaxSearches \in Nat
  /\ \A v \in Versions : Pieces[v] \subseteq Nat

VARIABLES
  archive,    \* recording -> [version, visible]
  file,       \* the index file: "absent", "ok", "corrupt" where opening it reads
              \* (header, schema, manifest), or "torn" where only its rows are
  identity,   \* its manifest
  records,    \* recording -> [hash, gen]; hash 0: no row
  jobs,       \* recording -> "none", "queued" or "retry"
  chunks,     \* recording -> its chunks, [gen, ord, text, model]
  release,    \* the identity the connector is configured with
  pass,       \* the writer: [at, docs, todo, doc]
  reader,     \* reader -> [at, model, allowed, hits]
  moves, faults, upgrades, searches

store  == <<file, identity, records, jobs, chunks>>
bounds == <<moves, faults, upgrades, searches>>
vars   == <<archive, store, release, pass, reader, bounds>>

Fault == faults < MaxFaults /\ faults' = faults + 1

\* It can be opened: what is damaged, if anything, is a page of the rows.
Readable == file \in {"ok", "torn"}

Source(r) == IF archive[r].visible THEN archive[r].version ELSE 0

NoRow == [hash |-> 0, gen |-> 0]
Idle  == [pass EXCEPT !.at = "idle", !.todo = {}, !.doc = 0]

-----------------------------------------------------------------------------
(* TenantIndex *)

Empty(m) == /\ file' = "ok" /\ identity' = m
            /\ records' = [r \in Recs |-> NoRow]
            /\ jobs' = [r \in Recs |-> "none"]
            /\ chunks' = [r \in Recs |-> {}]

\* Another identity's rows are deleted in the transaction that takes its place;
\* a torn page goes with them, or makes the DELETE fail and the file be put aside.
Invalidated_kept == identity' = release /\ UNCHANGED <<file, records, jobs, chunks>>
                                             \* mutant: only the manifest changes
Invalidated == Empty(release)

\* Opened by the writer: created, kept, cleared for another identity, or, when
\* it is corrupt and never when it is merely locked, put aside and made anew.
\* Nothing here looks at the rows: a torn file of this identity is kept.
Open ==
  /\ pass.at = "idle"
  /\ \/ /\ ~Readable /\ Empty(release) /\ UNCHANGED faults
        /\ pass' = [pass EXCEPT !.at = "open"]
     \/ /\ Readable /\ identity = release /\ UNCHANGED <<store, faults>>
        /\ pass' = [pass EXCEPT !.at = "open"]
     \/ /\ Readable /\ identity # release /\ Invalidated /\ UNCHANGED faults
        /\ pass' = [pass EXCEPT !.at = "open"]
     \/ Fault /\ UNCHANGED <<store, pass>>
  /\ UNCHANGED <<archive, release, reader, moves, upgrades, searches>>

Replaced_regenerated(r, v) ==
  [chunks EXCEPT ![r] = @ \cup {[gen |-> 1, ord |-> i, text |-> v, model |-> release] : i \in Pieces[v]}]
                                             \* mutant: old generations stay, under one number
\* A new generation of chunks in the place of the old ones.
Replaced(r, v) ==
  [chunks EXCEPT ![r] = {[gen |-> records[r].gen + 1, ord |-> i, text |-> v, model |-> release]
                           : i \in Pieces[v]}]

\* What the join of chunks with records lets a reader find.
Joined(r) == {c \in chunks[r] : records[r].hash # 0 /\ c.gen = records[r].gen}

-----------------------------------------------------------------------------
(* reconcile_visible and Lifecycle.reconcile *)

\* The archive is read once; what is archived away is not in the result.
_documents ==
  /\ pass.at = "open"
  /\ pass' = [pass EXCEPT !.at = "seen", !.docs = [r \in Recs |-> Source(r)]]
  /\ UNCHANGED <<archive, store, release, reader, bounds>>

Visible_fresh == {r \in Recs : pass.docs[r] # 0 /\ records[r].hash \in {0, pass.docs[r]}}
                                             \* mutant: what has changed is purged first
Visible == {r \in Recs : pass.docs[r] # 0}

purge_except ==
  /\ records' = [r \in Recs |-> IF r \in Visible THEN records[r] ELSE NoRow]
  /\ jobs' = [r \in Recs |-> IF r \in Visible THEN jobs[r] ELSE "none"]
  /\ chunks' = [r \in Recs |-> IF r \in Visible THEN chunks[r] ELSE {}]
  /\ UNCHANGED <<file, identity>>

Changed_unadmitted == {r \in Visible : records[r].hash # pass.docs[r] /\ jobs[r] = "none"}
                                             \* mutant: an open intent counts as under way
Changed == {r \in Visible : records[r].hash # pass.docs[r]}

\* The batch: the first of them in id order.
First(S) == {r \in S : Cardinality({s \in S : s < r}) < Batch}

Purge ==
  /\ pass.at = "seen" /\ Readable
  /\ purge_except
  /\ pass' = [pass EXCEPT !.at = "purged"]
  /\ UNCHANGED <<archive, release, reader, bounds>>

Plan ==
  /\ pass.at = "purged" /\ Readable
  /\ pass' = [pass EXCEPT !.at = "work", !.todo = First(Changed)]
  /\ UNCHANGED <<archive, store, release, reader, bounds>>

\* The intent is committed before the embedder is called.
admit ==
  /\ pass.at = "work" /\ Readable
  /\ \E r \in pass.todo :
       /\ \A s \in pass.todo : r <= s
       /\ jobs' = [jobs EXCEPT ![r] = "queued"]
       /\ pass' = [pass EXCEPT !.at = "admitted", !.doc = r, !.todo = @ \ {r}]
  /\ UNCHANGED <<archive, file, identity, records, chunks, release, reader, bounds>>

\* embed_passages, outside any transaction.
Embed ==
  /\ pass.at = "admitted"
  /\ pass' = [pass EXCEPT !.at = "embedded"]
  /\ UNCHANGED <<archive, store, release, reader, bounds>>

\* One transaction: the new generation, its row, the old generations, the intent.
replace ==
  /\ pass.at = "embedded" /\ Readable
  /\ chunks' = Replaced(pass.doc, pass.docs[pass.doc])
  /\ records' = [records EXCEPT ![pass.doc] = [hash |-> pass.docs[pass.doc], gen |-> @.gen + 1]]
  /\ jobs' = [jobs EXCEPT ![pass.doc] = "none"]
  /\ pass' = [pass EXCEPT !.at = "work", !.doc = 0]
  /\ UNCHANGED <<archive, file, identity, release, reader, bounds>>

\* The embedder fails, or the commit finds the file locked by a search, or it
\* meets a torn page: the intent is marked, if that commit is not refused as
\* well, and the pass ends.
mark_retry ==
  /\ Readable
  /\ \/ pass.at \in {"admitted", "embedded"} /\ Fault
     \/ pass.at = "embedded" /\ file = "torn" /\ UNCHANGED faults
  /\ jobs' \in {jobs, [jobs EXCEPT ![pass.doc] = "retry"]}
  /\ pass' = Idle
  /\ UNCHANGED <<archive, file, identity, records, chunks, release, reader,
                 moves, upgrades, searches>>

\* The batch is done, the file is corrupt or a torn page is met, or a read, the
\* purge or the chunker raises: the connector logs it and carries on without.
\* Outside Open no error has the file put aside.
EndPass ==
  /\ \/ pass.at = "work" /\ pass.todo = {} /\ UNCHANGED faults
     \/ pass.at \in {"seen", "purged", "work", "embedded"} /\ file # "ok" /\ UNCHANGED faults
     \/ pass.at \in {"open", "seen", "purged", "work"} /\ Fault
  /\ pass' = Idle
  /\ UNCHANGED <<archive, store, release, reader, moves, upgrades, searches>>

Crash ==
  /\ pass.at # "idle" /\ Fault
  /\ pass' = Idle
  /\ UNCHANGED <<archive, store, release, reader, moves, upgrades, searches>>

-----------------------------------------------------------------------------
(* Searches *)

\* The MCP names what its caller may see; the viewer names nothing.
Allowed(q) == IF q \in McpReaders THEN {r \in Recs : archive[r].visible} ELSE Recs

\* "visible" is kept for the properties: what the archive has shown since it began.
NoSearch == [at |-> "idle", model |-> NoModel, allowed |-> {}, visible |-> {}, hits |-> {}]

\* A service of either release is asked; it answers lexically by then.
Begin(q) ==
  /\ reader[q].at = "idle" /\ searches < MaxSearches /\ searches' = searches + 1
  /\ \E m \in Models :
       reader' = [reader EXCEPT ![q] = [at |-> "asked", model |-> m, allowed |-> Allowed(q),
                                        visible |-> {r \in Recs : archive[r].visible}, hits |-> {}]]
  /\ UNCHANGED <<archive, store, release, pass, moves, faults, upgrades>>

\* A reader never repairs: anything but its own identity is an error.
OpenReadonly(q) ==
  /\ reader[q].at = "asked" /\ Readable /\ identity = reader[q].model
  /\ reader' = [reader EXCEPT ![q].at = "open"]
  /\ UNCHANGED <<archive, store, release, pass, bounds>>

\* The query is embedded before this; one SELECT on a connection of its own.
iter_candidates(q) ==
  /\ reader[q].at = "open" /\ Readable
  /\ reader' = [reader EXCEPT ![q].at = "found", ![q].hits =
       UNION {{[rec |-> r, ord |-> c.ord, text |-> c.text, model |-> c.model] : c \in Joined(r)}
                : r \in reader[q].allowed}]
  /\ UNCHANGED <<archive, store, release, pass, bounds>>

\* Missing, of another identity, damaged, locked or slow, or answered.
FallBack(q) ==
  /\ reader[q].at # "idle"
  /\ reader' = [reader EXCEPT ![q] = NoSearch]
  /\ UNCHANGED <<archive, store, release, pass, bounds>>

-----------------------------------------------------------------------------
(* The archive, the operator and the disk *)

Move(r) ==
  /\ moves < MaxMoves /\ moves' = moves + 1
  /\ \/ /\ archive[r].version < MaxVersion /\ UNCHANGED reader
        /\ archive' = [archive EXCEPT ![r].version = @ + 1]
     \/ /\ archive' = [archive EXCEPT ![r].visible = ~@]
        /\ reader' = [q \in Readers |-> [reader[q] EXCEPT !.visible =
                                            IF reader[q].at = "idle" THEN {} ELSE @ \cup {r}]]
  /\ UNCHANGED <<store, release, pass, faults, upgrades, searches>>

\* A release with another manifest: the connector restarts with it.
Upgrade ==
  /\ upgrades < MaxUpgrades /\ upgrades' = upgrades + 1
  /\ \E m \in Models \ {release} : release' = m
  /\ pass' = Idle
  /\ UNCHANGED <<archive, store, reader, moves, faults, searches>>

\* Damage that SQLite can tell.  A step on a torn file goes through or raises,
\* as it meets the page or not.
Corrupt ==
  /\ Readable /\ Fault /\ file' \in {"torn", "corrupt"} \ {file}
  /\ UNCHANGED <<archive, identity, records, jobs, chunks, release, pass, reader,
                 moves, upgrades, searches>>

Init ==
  /\ archive \in [Recs -> [version : {1}, visible : BOOLEAN]]
  /\ file = "absent" /\ identity = NoModel
  /\ records = [r \in Recs |-> NoRow] /\ jobs = [r \in Recs |-> "none"]
  /\ chunks = [r \in Recs |-> {}]
  /\ release \in Models
  /\ pass = [at |-> "idle", docs |-> [r \in Recs |-> 0], todo |-> {}, doc |-> 0]
  /\ reader = [q \in Readers |-> NoSearch]
  /\ moves = 0 /\ faults = 0 /\ upgrades = 0 /\ searches = 0

Pass == Open \/ _documents \/ Purge \/ Plan \/ admit \/ Embed \/ replace \/ EndPass
Next == \/ Pass \/ mark_retry \/ Crash
        \/ \E q \in Readers : Begin(q) \/ OpenReadonly(q) \/ iter_candidates(q) \/ FallBack(q)
        \/ \E r \in Recs : Move(r)
        \/ Upgrade \/ Corrupt

Spec == Init /\ [][Next]_vars

\* The connector's loop is restarted and comes back to the index for ever.
FairSpec == Spec /\ WF_vars(Pass)

-----------------------------------------------------------------------------
(* Properties *)

Shown(r) == IF Readable THEN records[r].hash ELSE 0

TypeOK ==
  /\ archive \in [Recs -> [version : Versions, visible : BOOLEAN]]
  /\ file \in {"absent", "ok", "torn", "corrupt"} /\ identity \in Models \cup {NoModel}
  /\ records \in [Recs -> [hash : 0..MaxVersion, gen : Nat]]
  /\ jobs \in [Recs -> {"none", "queued", "retry"}]
  /\ DOMAIN chunks = Recs
  /\ release \in Models
  /\ pass \in [at : {"idle", "open", "seen", "purged", "work", "admitted", "embedded"},
               docs : [Recs -> 0..MaxVersion], todo : SUBSET Recs, doc : Recs \cup {0}]

Whole(r) == chunks[r] = {[gen |-> records[r].gen, ord |-> i, text |-> records[r].hash,
                          model |-> identity] : i \in Pieces[records[r].hash]}

\* Rows and chunks of a recording always belong together: every chunk of one
\* version and one generation, all by the manifest's model, or nothing.
IndexWhole == \A r \in Recs : IF records[r].hash = 0 THEN chunks[r] = {} ELSE Whole(r)

\* What a pass has in hand is of its snapshot, and it writes to an index that
\* carries its own release's identity.
PassAware ==
  /\ pass.todo \subseteq Visible
  /\ pass.at \in {"idle", "open", "seen", "purged"} => pass.todo = {}
  /\ pass.at \in {"admitted", "embedded"} => pass.doc \in Visible
  /\ pass.at # "idle" /\ Readable => identity = release
  /\ Readable => identity # NoModel

\* The types, and the index in one piece after every transaction, whatever
\* pass, release, crash or damage came before.
IndexSound == TypeOK /\ IndexWhole /\ PassAware

\* The index, as its readers find it, does only what SearchMirror allows:
\* whole versions replace each other, a failed or interrupted pass takes
\* nothing away, and only what was out of sight at the last look is withdrawn.
Mirror == INSTANCE SearchMirror WITH view <- pass.docs, shown <- [r \in Recs |-> Shown(r)]
KeepsMirror == Mirror!Spec

\* Once edits and failures stop, the index comes to show exactly the archive:
\* no crash, refused commit, abandoned intent or file that cannot be opened
\* leaves a document behind.  A torn file may, until another identity clears it:
\* every pass may end at the same page.
CatchesUp == <>[](file = "torn" \/ \A r \in Recs : Shown(r) = Source(r))

HitsOf(q, r) == {h \in reader[q].hits : h.rec = r}

\* What one search ranks is of one model, and of each recording it is every
\* chunk of one version; a search of the MCP ranks only what its caller could
\* see while it ran.  Passes and restarts go on meanwhile.
AnswersWhole ==
  \A q \in Readers :
    /\ \A g, h \in reader[q].hits : g.model = h.model
    /\ \A h \in reader[q].hits :
         {[ord |-> g.ord, text |-> g.text] : g \in HitsOf(q, h.rec)}
           = {[ord |-> i, text |-> h.text] : i \in Pieces[h.text]}
    /\ q \in McpReaders => {h.rec : h \in reader[q].hits} \subseteq reader[q].visible

\* docs/semantic-search.md of every search: with a stale index it falls back to
\* the lexical one, which does not find what was put away before it began.
StaleFallsBack ==
  \A q \in Readers : {h.rec : h \in reader[q].hits} \subseteq reader[q].visible
=============================================================================
