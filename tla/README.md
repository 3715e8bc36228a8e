# Jazzuu archive: TLA+ models, checks and proofs

This directory holds formal models of Jazzuu: the connector that pulls recordings
from a PLAUD account (or takes uploads), transcribes and summarises them, and the
services that show, share, search and hand them out. Every definition is
translated from the code under `src/`; `PROJECT.json` gives, for each, the file
and lines it stands for, and lists the hazards the properties are for.

## 1. The system

### Parts and state

| Part | Code | State it keeps | Operations |
|---|---|---|---|
| Durable job queue | `archive/pipeline.py` | `pipeline_jobs`: one row per recording and stage, with claim (owner, epoch), attempts, tool attempts, revivals, `replace`/`force_local` flags, `available_epoch` | enqueue, claim, heartbeat, complete (with successor), fail, defer, abort; stale recovery; reconcile; the readers' requests; drain |
| Connector loop | `archive/connector.py`, `Waker` of `pipeline.py` | the archive flock, one event, one pending source poll, two deadlines | startup sweep, wait, poll, discovery pass, wake pass, drain |
| ASR stage | `archive/asr_backfill.py`, `archive/stages.py` | `asr_segments` (windows), `plaud_reviews` (verdicts), `asr_transcript` | plan, claim/commit/fail a window, pause, resume, assemble, publish; claim, judge, record and release a review |
| Stage handlers and label catalogue | `archive/stages.py`, `archive/summary_backfill.py`, `archive/control.py` | `summary`, `summary_json`, artifacts (map, card), `label_catalog_state`, `label_catalog_revision` | the four stages, admission of reclassifications, catalogue edits |
| Ingest, codes, deletion | `archive/archive_recording.py`, `recording_codes.py`, `local_import.py`, `control.py` | `recordings`, `recordings_fts`, `recording_tombstones`, the number counter, the audio directory | archive one, allocate, backfill codes, import an upload, archive/restore/delete |
| Control socket | `archive/control.py`, `viewer/app/control_client.py` | per-request | the readers' commands, each in a thread of the connector; most wake the loop afterwards |
| People and speaker identity | `archive/people.py`, `viewer/app/identity_api.py`, `speakers.py` | people, assignments, the log of identity events | create, rename, deactivate, assign, set unknown, undo; names in summaries and pages |
| Diarization, voiceprints | `archive/diarization.py`, `voiceprint.py` | blocks in `asr_meta_json` | normalisation of an engine's segments; numerical work on one file |
| Semantic index | `semantic_search/`, `archive/semantic_reconcile.py` | `records`, `chunks`, `jobs` and the identity in an index file beside the archive | open, purge, plan, admit, embed, replace, mark retry; search |
| Public share and gateway | `viewer/app/public_share.py`, `public_gateway.py` | `shares.db` and the exports directory; device claims in a database of the gateway | create, revoke, reconcile; exchange, authorize, serve |
| Recordings MCP | `recordings_mcp/` | grants and audit tables, the credential file | create, rotate, revoke; authorize, dispatch, audit, answer; paged lists |
| Viewer | `viewer/app/` | a cached snapshot of the archive | queries, progress, rendering |

### How the parts interact

SQLite is the shared memory. The **connector** is one thread under a `flock`: it
waits for an event or a deadline, polls the source, reconciles, drains the queue
(a stage handler runs inside `drain`) and then brings the semantic index up to
date. Its **control threads** write to the same file at any time and wake the
loop. **`local_import`** is a process of its own per upload and takes no lock;
**`archive_recording`**'s command line takes the flock, and so runs only when no
connector does. The **viewer** reads a private copy of the archive and owns the
export store, whose rows and files the **gateway** only reads. The **MCP server**
and the **administrator's command line** share the grants database. The queue's
own protocol (`claim_next`, `heartbeat`, the fenced outcomes) assumes least: any
number of workers on any hosts, told apart by `host:pid` and a lease.

### What is hard

* claims survive their process: a restarted container has the same hostname and
  pid, a replaced one another hostname; a lease can run out under a live worker;
* results and job outcomes are separate transactions, and so are files and rows:
  each crash between two of them must be repaired by somebody (the startup
  sweep, `reconcile`, `init_db`, a purge, the next pass);
* what is read before a network call, a model call or a write transaction is used
  after it: candidates, tombstones, the catalogue, the transcript, the names, the
  assignment to undo, the visible documents, the source of a share;
* a wake must not be lost between the wait, the clearing of the event and the
  drain, and work nobody was waked for must be found all the same;
* a long recording takes many turns, between which the process, its window size
  and the reader's wishes may change;
* four derived stages are four jobs in four transactions, and what the reader is
  told ("ready") relates all of them;
* a link and a credential must stop working with their revocation, across
  databases and processes that share no transaction;
* numbers are given out by two processes and taken out of use by deletions.

## 2. Modules

`PipelineQueue` is the protocol the pipeline relies on. The modules of the stages
keep only the part of a job row they need and say so in their headers. The
modules meet at committed rows: what one treats as an opaque step, another opens.

| Module | Stands for | Composed with |
|---|---|---|
| `PipelineQueue` | the job table and every operation on it | `MCPipelineQueue` |
| `SegmentPlan`, `SegmentLoop` | `plan_segments`, closed and as written | extended by `AsrStage`, `MCAsrStage`; shown equal in `AsrStageProofs` |
| `AsrStage` | windows, review ledger and job row of one recording | `AsrProgress` |
| `AsrProgress`, `ReviewVerdict` | the page about a transcription; the choice a review makes | both in `MCAsrProgress` |
| `Materials` | text, summary, map and card of one recording; the label catalogue | |
| `RecordingLifecycle`, `RecordingCodes` | ingest, numbers, deletion; the codes numbers are written as | both in `MCRecordingLifecycle` |
| `ConnectorLoop` | the main loop, the event, polls and control threads | |
| `People`, `SpeakerModel` | identity of speakers; the speakers a page derives | both in `MCPeople` |
| `SemanticIndex`, `Chunker`, `SearchHeap`, `SearchRanking` | the index, how a text is cut, how the best chunks are found, how an answer is ranked | all in `MCSemanticIndex` |
| `SearchMirror` | what readers of the index may find: abstract, implemented by `SemanticIndex` | |
| `PublicShare` | export store, reconciler and gateway | |
| `ShareContract` | what a link promises: abstract, implemented by `PublicShare` | |
| `RecordingsMcp` | grants, command line, request path, paging | `MCRecordingsMcp` |

**PipelineQueue.** `jobs[<<r, s>>]` is the row of recording `r` and stage `s`;
`avail` its `available_epoch`. A worker is a process incarnation: `Owner` and
`Host` give its `claim_owner()` string, so reused pids and foreign hosts are
values of constants. `cands` holds the rows `claim_next` SELECTed and has not
tried yet, with the values they had - or those a recovery pass read, since
`recover_stale_jobs` reads first and judges and updates afterwards (`ReadClaims`,
then `Repair` or `BeginDrain`), naming neither owner nor epoch; `held` is the job
dict the handler runs with, a copy. One action per operation otherwise. A handler
is opaque: it may publish, renew, and then completes, fails, defers or dies.
`overtaken` and `stranded` are history variables, read by properties only.

**AsrStage.** One recording's ASR turn opened up, through a sequence of connector
incarnations, each with its owner string, host and window size. A window's
content is the number of the request it was heard after. `request_retranscribe`
looks in autocommit and writes afterwards, so it is two steps: a tap that found the
job closed (`Tap`, counted by `taps`) and its transaction, which deletes the windows
whether or not its UPDATE still matched; `reconcile` may reopen the job between the two
(`Revive`). A turn keeps copies of the rows it committed (`done`) and publishes those.
`emptied` is history: a tap came too late and took the windows. `AsrProgress` adds no
state: a page sees one copy of the archive, so its answers are functions of
`AsrStage`'s variables and its property holds in every state of that machine.

**Materials.** Texts are numbers (none, PLAUD's, the local one heard after the
n-th request) and a derivation is the number of the text it was made from, so
"made from what the reader is shown" is an equation. Requests and catalogue edits
interleave with each step of the summary handler, which reads text, catalogue and
revision in separate steps. One assumption is made about the recogniser: the same
audio heard a second time for the same request gives the same text (`Heard`).
Without it, and with three faults, a recording can become summarisable and then
not: a crash between publication and completion of an ASR turn, twice, and texts
that differ in being too short, leave a summary whose map is never drawn.

**RecordingLifecycle.** `pc`, `batch`, `hand` are the thread under the flock (a
pass, or the command line); `importer` is the upload's process; `deleting[r]` is
a control thread between the check, the committed deletion and the unlinking of
files. An ASR job is queued, claimed and ended as in PipelineQueue, without time.

**ConnectorLoop.** Jobs are only queued, waiting or done; what matters is when
somebody looks. Deadlines are counted down. A control thread commits, and wakes
the loop in a later step, if its action does at all; `heard` (answered, not yet
looked at) and `asked` (a poll whose pass has not begun) are history variables.

**People.** A thread reads in autocommit (`Read...`) and writes in a transaction
afterwards, as the code does, so two calls can cross. `HistoryTrue` joins three
statements: the last event of a speaker explains the assignment (`LogExplains`), undo
walks backward and never toggles (`UndoWalksBack`), and a finished summary shows the
present names (`NamesShown`).

**SemanticIndex.** One pass of `reconcile` step by step: open (or recreate), read
the archive, purge, plan, and per document admit, embed, replace or mark retry,
each a transaction. A search is three reads (identity, query vector, rows). A file is
*corrupt* when it cannot be opened as an index, which is what `_initialize` finds and
quarantines, or *torn* when the damage lies on a page only a later read or write
meets: then the pass ends there, and so does each one after it that comes to the
same page. A
text is its version, a vector the model that made it.

**PublicShare.** A share id is drawn afresh by each `create`, so the thread that
creates a share is named by it. `create` is one write transaction that also moves
directories, which no rollback undoes; its steps are the points between which a
crash leaves different remains. `visit` is a request at the gateway between two
of its databases.

**RecordingsMcp.** A command line run draws a token, writes a file, commits,
prints; a bot's request is authorized, dispatched, audited and answered in
separate steps. A listing is the set of recordings a caller may see, newest first: a
row's place is the number of newer ones, a page the rows whose places lie in it. Each
request chooses the size of its page. A walk follows a cursor through the listing while
its head moves.

The pure parts are operators that TLC compares, on every run that extends them,
with what they stand for over small inputs (an `ASSUME`): `SegmentLoop` (the
loop is the closed form; assumed in `MCAsrStage`), `ReviewVerdict` (scores agree, a text is replaced only
for a reason; assumed in `MCAsrProgress`), `RecordingCodes` (reading a code is the
inverse of writing it, no prefix of two tenants, at most one recording per code;
assumed in `MCRecordingLifecycle`), `Chunker` (no chunk over
the limit, nothing lost, everything in order), `SearchHeap` and `SearchRanking` (the
bounded heap keeps the best; the merge loses and repeats nothing) and the chunk
counts the index model uses, which are what the chunker makes of two real texts (all
three assumed in `MCSemanticIndex`), `SpeakerModel` (snippets are real and playable,
names survive, nobody is invented). Most of these comparisons are theorems as well
(section 5).

## 3. Runs

All bounds are constants of the configurations.

| Run | Question |
|---|---|
| `contended` | two workers on two hosts without flock: who may judge, publish, undo, through stale candidates, expired leases, a crash, an aborted completion, a request |
| `settles` | the connector's incarnations under the flock with one reused `host:pid` and unreadable media: does everything come to rest |
| `asr_turns` | pauses, failures, crash, another window size, a replaced host, a request; transcription or review; and each page meanwhile |
| `materials` | chain, requests, catalogue, a fault: does what is shown agree |
| `lifecycle` | ingest, upload, numbering, archive and delete with a crash and a forced command line |
| `loop` | wakes, quiet actions, uploads, polls, discovery and one loop with a drain limit of one: is anything slept through or never served |
| `people` | two calls at once on one speaker and two people, with the summary running: do table, log, undo and shown names agree |
| `semantic` | a pass against edits, faults, a file damaged so that it cannot be opened or only on a page, and a new model, beside a search: is the index in one piece, is an answer of one model, does it catch up |
| `shares` | two links, two browsers, revocation, the reconciler, the clock and a crash: is an honoured link whole, bound to one browser, and does it end |
| `mcp` | two command line runs, a bot, pages of several sizes over a moving archive: can a credential be lost, an answer go unaudited or out under a dead grant, a page skip a recording |
| `asr_reviewed` (violation) | a decided review under an open job never ends |
| `materials_ready` (violation) | "ready" with everything derived from the rejected text |

### Bounds, and why they are enough

* **Queue.** Every fence compares one row with one worker; two workers and one
  recording reach each way in which a row can change between a worker's read and
  its write: expiry, reissue to the other worker, completion by it, a request
  after that. Two attempts distinguish "retry" from "failed"; a lease of one tick
  and a clock of two let a claim expire and its successor too.
* **Windows.** Durations 2, 3 and 6 with a shortest window of 2 give a recording
  that is not segmented, one whose tail is too short to stand alone, and one of
  several windows; window sizes 2 and 9 (clamped to 3) give two plans that share
  a boundary and differ in length. Three incarnations are a restart on the same
  host and a replacement. One window per share makes a pause after each. Two
  requests and one revival let a tap write into a job that `reconcile` or another
  tap reopened after it had looked.
* **Materials.** Two requests let the second overtake the first in every stage;
  two catalogue revisions are "what the model saw" and "what came later"; one
  fault at each point of the chain. The proofs remove all three bounds.
* **Lifecycle.** One listed and one uploaded recording make both processes number
  rows at once, and let a number fall free by deletion before the other is
  numbered. The proofs carry the safety properties to any number.
* **Loop.** One intent of each kind; three requests let a wake or poll fall before,
  into and after a drain that is under way; a drain limit of one leaves work behind.
* **People.** Two threads are a call and its retry; three events are enough for
  undo to walk over one that was itself undone. The proofs remove the bounds.
* **Semantic.** Two recordings put one after the other in a batch of one, so a
  pass is always interrupted by its limit; two versions cut into different numbers
  of chunks make a mixed index visible; two faults cover a fault in the repair of
  the first, or a torn file that is corrupted later. `IndexSound` and the refinement
  are proved for any bounds.
* **Shares.** A store that holds one of two exports makes admission, purge and the
  remains of a failed creation decide about the other. One active share is admitted
  at a time; since every export takes at least one byte, that limit refuses nothing
  here that storage does not refuse too. Two browsers race for one link; one tick is a
  link's whole life.
* **MCP.** Two tokens and two runs on one path are a rotation beside a creation;
  three recordings, pages of one or two and offsets up to one give walks that end
  with a recording arriving between their pages, walks that are refused at
  `MAX_OFFSET`, and walks with pages of different sizes.

`SYMMETRY` is used where only safety is checked: workers in `contended` (a worker
stands for its owner string and host), threads in `people`, tokens and
command line runs in `mcp`. `CHECK_DEADLOCK FALSE` is set where the system
really may stop: the last incarnation of AsrStage may be dead, and readers of
`people`, `mcp`, `shares` and `semantic` owe nothing once their bounded moves are
spent. Elsewhere TLC checks that the system never stops.

### Fairness

* PipelineQueue, AsrStage: `WF` on a worker's start and on its work, and on the
  clock. The connector is restarted (`restart: unless-stopped`,
  `src/archive/docker-compose.yml:29`), its single thread always comes back to
  `drain`, calls to models end or time out. Requests, crashes, failures and
  deferrals are not fair. A drain claims no job twice (`had_a_turn`), so weak
  fairness of "some work" is all that is needed.
* Materials: `WF` on work, and `SF` on the claim of each stage. A failed stage
  waits out a backoff that is not a step of this module; the queue orders jobs by
  sequence number and a drain takes each at most once, so a stage that is
  claimable again and again is claimed. `settles` checks this with the clock.
* RecordingLifecycle: `WF` on the holder's work, a failing handler included.
  Readers, uploads and the import process owe nothing.
* ConnectorLoop: `WF` on the loop, its restart, the clock and each started
  thread's wake. Nobody has to ask anything.
* SemanticIndex: `WF` on the pass, which the connector's loop comes back to.
* PublicShare: `WF` on the reconciler (a loop of the viewer's main process) and on
  each creation and removal under way. Visits, revocations and the clock owe nothing.

### Refinement

`PublicShare` implements `ShareContract` (`KeepsContract`): a share is offered
once and ends once, its link binds one device for good, a visit is granted to that
device alone and only while the share is offered. The mapping forgets rows, files,
transactions and the reconciler. `SemanticIndex` implements `SearchMirror`
(`KeepsMirror`): of each recording readers find nothing or one whole version, and
that is what the indexer saw when it last looked. Both are also proved.

Every property has a mutant in `PROJECT.json`: a plausible slip in the code under
which TLC finds it violated.

## 4. Where code and text disagree

Two of these have a run of their own (`PROJECT.json` quotes the sentences):

1. `asr_reviewed`: a crash between `record_review` and `complete` leaves a job
   that defers on every turn for ever.
2. `materials_ready`: the reclassification admission runs while a review is open;
   the summary of the rejected text survives the review.

The following are stated in the modules and refuted by TLC, but in no run: put the
property into the named configuration, in place of its properties, to see the trace.

| Property | Configuration | What happens |
|---|---|---|
| `PipelineQueue!CopyMatchesRow` | `contended` | `claim_next` compares only `state`, not "the exact row state": without the flock a worker may run with `force_replace = 0` on a row that asks for replacement (under it, `settles` shows it cannot) |
| `AsrStage!StartFreesWindows` | `asr_turns` | the jobs returned by `recover_stale_jobs(reclaim_foreign)` are not handed to the window sweep, so a replaced container's windows stay claimed until their lease ends |
| `Materials!EligibleUntilClassified` | `materials` | `ensure_attempts` marks rows `backfill_one` left unmarked on purpose |
| `RecordingLifecycle!TombstonedAbsent` | `lifecycle` | tombstones are read before a pass's network calls and `archive_one` does not look again: `summary_backfill.py:324` relies on "tombstoned rows are absent" |
| `SemanticIndex!StaleFallsBack` | `semantic` with a reader in `ViewerReaders` and none in `McpReaders` | the viewer does not filter hits by what is visible now, so a search finds what was put away since the last pass (`docs/semantic-search.md:9`) |
| `PublicShare!RevokedFilesGo` | `shares` | a crash between the revocation and the removal leaves the files until another creation purges them (`deploy/public-share/README.md:42`) |
| `People!RevokedUnassigned` | `people` | a call that read the person before the revocation assigns after it |
| `Chunker!EveryChunkNew` | as an assumption beside `semantic` | the overlap is laid twice over a sentence longer than a chunk; a chunk may be nothing else |
| `RecordingCodes!CodesAreShown` | as an assumption beside `lifecycle` | the viewer drops codes whose prefix has more than one character |
| `SpeakerModel!AudibleHaveSnippet` | as an assumption beside `people` | the longest segment is taken for the snippet even when it lies past the end of the audio |

Others met while modelling, which the models contain as behaviour. Without the
exception named, TLC refutes the property:

* without the flock a recovery pass may throw back a claim that is inside its lease:
  `recover_stale_jobs` judges the rows it read and updates `WHERE seq=? AND state=?`
  (`pipeline.py:410-427`), though the row may have been renewed or claimed anew since.
  `LiveClaimUndisturbed` excepts it (`RecoversEarlierClaim`): only an earlier claim
  of the job can have been disbelieved. Under the flock it does not happen;
* `request_retranscribe` deletes the windows "exactly once, in the same transaction as
  the explicit new ASR job" (`pipeline.py:232-233`), but also when there is no new job,
  because its guarded UPDATE found the job reopened meanwhile: the windows of an open
  job go, and the caller is told `False`. `CommittedWindowKept` excepts it
  (`Overtaken`), and so does `PageHonest` (`emptied`) until the next turn lays the plan
  again: the turn whose windows went files the one it is hearing alone. What is
  published is whole all the same (`PublishedWhole`), as the turn holds its copies;
* "a writer quarantines and recreates derived state" for verified corruption
  (`docs/semantic-search.md:51`), but only for what `_initialize` meets
  (`index.py:61-74`). Damage on a page of `records` or `chunks` is raised by
  `purge_except`, `source_hash` or `replace`, in every later pass, and is never
  repaired unless a new model or chunker clears the tables: `CatchesUp` excepts a torn
  file;
* identity changes and label edits commit jobs without `waker.wake()`
  (`control.py:581-588`), although `connector.py:824-827` says an action wakes the
  loop: they are ConnectorLoop's `Quiet` actions and wait for the next pass;
* a loop that is waked again and again does not come to discovery until the wakes
  stop, although the deadline is past: the event wins over it;
* two calls that cross on one speaker break the chain of `before` values, so that
  undo stops there: `UndoWalksBack` excepts them (`crossed`);
* a recording deleted between two pages makes the next page skip one: `WalkComplete`
  leaves such walks out;
* a rename during the generation of a summary is absorbed by the open job, which
  has read the old names: `NamesShown` excepts exactly this.

## 5. Proofs

TLAPS checks the following for every value of the constants the named assumptions
allow. Every safety invariant and every action property that a run checks has a
theorem, the two refinements included, and most of the pure algorithms have one for
any input; what the runs alone show is the liveness, and the operators named at the
end. Each inductive invariant was an invariant of a
TLC run before it was proved.

**PipelineQueueProofs**, from `QueueAssumption` (finitely many recordings; budgets
and lease positive; without the flock, owner strings tell workers apart).
`TypeCorrect` is type correctness, in two steps: `available_epoch` of a failed job is
computed with a power of two, of which the provers know nothing, so that its being a
number is shown by counting the subsets of a finite set (`BackoffTyped`), on top of
the types of everything else (`QueueTyped`). The rest goes in three layers.

* *Claims.* `NoForgottenClaim` is not inductive alone: to show that a start under the
  flock inherits nothing one must know that every claim in the table carries its
  string, and to show that a claim is not resurrected by a second process one must
  know that owner strings of unstarted workers are not in use. `ClaimInv` adds
  exactly that; `NoForgottenClaimHolds` and `NoInheritedClaimHolds` follow.
* *Publication.* `RowStep` lists the ways a row can change in one step and who changes
  it; the action properties are read off it. `OnlyClaimantJudgesHolds` needs besides
  that the transcript in the archive is the claimant's once it has published
  (`StoredIsMine`), and `NoStaleOverwriteHolds` that whoever was overtaken has lost its
  claim (`OvertakenLost`) and does not come by it again while it runs. These hold
  with two connectors and without the flock. `LiveClaimUndisturbedHolds` follows: a
  recovery pass is the one step of another that may take the row of a live claim, and
  what it read is shown to differ from the row (`Repair`, `BeginDrain`).
* *The copy.* `CopyMatchesRowHolds` is stated under `SingleFlight`, because it is false
  without: `claim_next` compares only `state` (section 4). Under the flock the
  candidates are still the rows that were read (`CandsFresh`), so the swap on `state`
  is enough.

The module ends with ConnectorLoop, from `LoopAssumption`. `LoopCorrect` adds to
`NoLostWake` where a wake can be: in a thread that has not set the event, in the
event, or in a drain that has not looked yet; `NoLostWakeHolds` follows.

**AsrStageProofs**, from `AsrAssumption`, in four parts.

* *The plan:* `PlanTiles` (windows start at zero, follow each other without gap or
  overlap, end at the duration) and `PlanWithinBounds`. They are about the closed form;
  `LoopIsPlan` says that the loop of `plan_segments`, as it is written and with its
  repair of a short last window, computes it for every duration and window size.
* *The stage:* `StageInv` says of a turn what it holds (`AttemptInv`: the job, with
  attempts left, each one spent a failure, the one about to be spent included) and what
  it counts as done (`WindowInv`: windows committed on the plan of this incarnation
  and, in a forced run, heard since the request). From it follow
  `OnlyFailuresSpendHolds`, `PublishedWholeHolds`, `FreshAfterRequestHolds` and
  `CommittedWindowKeptHolds`, through any pauses, crashes, changes of the window size,
  replaced hosts and taps that write after the job was reopened.
* *The page:* `PageHonest` is about rows left behind as well, so `BlockInv` says that
  there form one whole plan, unless a late tap emptied the table: `materialize_plan`
  writes it in one transaction, and `PlanTiles` gives the sum. `ReadInv` says that a finished stage
  left something to read. `PageHonestHolds` follows.
* *The review:* `ScoresAgreeHolds` and `VerdictEarnedHolds` state, for every text that
  can be counted, what TLC compares on a few samples. The work is arithmetic with
  products and quotients, brought to two lemmas (`TimesGrows`, `Division`).

**RecordingLifecycleProofs**, from `LifecycleAssumption` (account ids and fresh
upload ids are disjoint). `Places` says what each process has in hand where.
`Numbering` says the counter is above every stored number *and every number ever given
out*, and that a stored number was given to the recording that has it: uniqueness
among stored rows is not inductive, because a deletion lowers the highest stored
number. `Indexing` adds to `SearchAgrees` that a publisher which still holds its claim
still has its recording: that keeps a transcript published after a deletion out of the
index. From it follow `LifecycleTypes`, `NumberNamesOneHolds`, `SearchAgreesHolds` and
the action property `IngestKeepsWorkHolds`. With `RecordingCodes` it gives
`NamesForGoodHolds`: a text that finds a recording finds the only one its number was
ever given to, and a recording that is there is found by its number however the code is
spelt. `RoundTripsHolds` is that reading a code undoes writing it, for every number
that can be written: its digits are bounded by powers of ten, which are shown to exist
and to grow (`PowerIs`, `PowerGrows`). `CodesScoped` adds, for any prefixes the configuration admits, that no
code is accepted for two tenants.

**MaterialsProofs**, from `MaterialsAssumption`. `MaterialsAgree` speaks of ready
recordings only and says nothing of how they get there. The invariant says what is
still *to come*: whenever map or card are not of the summary shown, one of their jobs
is unsettled (open, or failed, which is never "ready"), or an earlier one is that
will reopen them, because it carries the replace flag or because the later row does
not exist (`Carries`). `Latest` says the same of the transcript: a text of an earlier
request stays only while a forced ASR job is under way. `InHand` ties the worker's
program counter to what it has read, which no request can change while its job is
open. From it follow `MaterialsAgreeHolds` and `RequestRefreshesAllHolds`.
`AdmittedMarksTrulyHolds` needs a second, smaller invariant (`Admission`): the summary
job was admitted for no later revision than the catalogue has, a handler has read no
earlier one, and what an admitted handler is about to publish is marked with the
revision it was admitted for.

**PeopleProofs**, from `PeopleAssumption`. That undo restores the assignment before
the event it takes back is a statement about a log that grows: events that were
undone, and their undoings, lie between. The invariant `UndoInv` follows the stack of
events not yet taken back: its top is the event undo will pick, its `after` is the
present assignment, and each one's `before` is the `after` of the one below.
`RegistryCorrect` carries it together with what the running summary has read;
`LogExplainsHolds`, `NamesShownHolds`, `UndoWalksBackHolds` and `HistoryTrueHolds`
follow.

**SemanticIndexProofs**, from `SemanticAssumption`. `IndexSound` is inductive as it
stands (`IndexSoundHolds`); under it each step is one of `SearchMirror` or leaves it
alone (`KeepsMirrorHolds`). `AnswersWholeHolds` is about a search, which reads
identity, query vector and rows at three moments with the index being repaired
between them: it needs what the search has read so far beside what the pass has in
hand. Two theorems are about algorithms. `HeapKeepsBestHolds`: the one pass of a search
over the chunks, in the order of the index and with a heap bounded by what was asked
for, ends with the best chunk of each of the best recordings. Its invariant is that
the heap holds the best of the recordings that are over (`Past`) and the pass the best
of the one it is in (`Own`); that dropping the worst never costs a later answer
(`RetainTop`) is counting who is ahead of whom. `ChunksWhole`: no chunk is over the
limit and no letter is lost, for any text whose characters each fit into a chunk (one
takes at most four bytes). The loops of the chunker carry `Holding` along: what is
finished and what is being gathered fits, and both together show exactly the letters
read so far.

**PublicShareProofs**, from `ShareAssumption`. `ActiveIsWhole` needs to know who may
touch a directory: a row is present only after its creation committed, a placed
directory belongs to the creation that holds the writer lock, and whatever the
revoking threads and the reconciler are about to remove is over and stays over, since
no step revives a row. `SharesCorrect` is that invariant; `ActiveIsWholeHolds` and the
refinement `KeepsContractHolds` follow. `StorageBoundedHolds` needs the reservation
(`Room`): from the check to the commit, the creation past admission fits beside
everything on disk, what crashed and failed creations left included. The bytes on disk
are the cardinality of a set of pairs (share, byte), so that the sums are moved by
facts about finite sets and not by induction.

**RecordingsMcpProofs**, from `McpAssumption`. None of the four promises is inductive.
`Ledger` keeps every credential in one place: drawn once, held by one command until a
grant is committed with it, by one grant afterwards; with `Handoff` it gives
`HandoffReachableHolds`, and with `DeadStopped` (a credential that opens no grant when
the request comes opens none ever after) `RevokedGoUnansweredHolds`. `Owing` counts the
answers to a caller that have their audit row and are still to go out, as the
cardinality of a set, and gives `AnswersAuditedHolds`. `WalkComplete` follows a
recording's place in the listing between requests: `WalkOf` says that what the walk
owes and has not shown is on the page under way or ahead of the cursor, and a row that
arrives at the head only pushes it further back. A walk that stops is told so only when
no row is left behind the page; for that, no place in front of a row may be empty
(`Filled`), which is shown from the well-foundedness of the strict subset order on
finite sets, where an induction would need an operator as parameter.

### Only model-checked

* Liveness: `WorkFinishes`, `EveryRecordingSettles`, `LocalFinishes`, `ReviewDecided`,
  `RequestReachesCard`, `AudioIsWorked`, `EveryRowNumbered`, `SourceArchived`,
  `SourceGoneSharesEnd`, `CatchesUp`, `EveryoneServed`. They need fairness and
  ENABLED, which the prover does not handle.
* The order of chunks (`InOrder`), the merge of an answer (`RankInOrder`) and
  `SpeakerModel`: what the runs compare over small inputs is not proved for all.

Recursive functions (the plan's loop, the powers, the heap's pass, the chunker's loops)
are reasoned about without an induction theorem, whose parameter is an operator that no
prover here instantiates: that the function exists is shown by a closed form or by
finite initial parts of it (`LoopRuns`, `Ladder...`), and what it computes by the least
place where it would be wrong (`Least`).

The bounded comparisons are assumptions of the MC modules (`ClosedFormHolds`,
`CodesHold`, `VerdictHolds`, `RankingHolds`, `ChunksHold`), which no proof module
extends: no theorem rests on them.

## 6. Not modelled, and what could follow

* The viewer's snapshot cache (`main.py:250`): a request may open a snapshot that
  another has just replaced and removed.
* The command line entry points of `asr_backfill` as a second actor on the windows:
  `materialize_plan` reads the windows before its transaction, `record_segment` and
  `fail_segment` are fenced on nothing, and a deletion does not stop a running
  handler, so rows can appear for a recording that is gone.
* `summary_en`: its publication checks the claim in one transaction and writes in
  another. `record_review` writing over the diarization block of `asr_meta_json`.
* Damage to an index file that SQLite does not notice. A recording archived again
  with another start time, which moves it in the MCP's listing between two pages.
* In the public share: `claim`, `verify_device` and `revoke_recording`, which neither
  process calls; the request limiter and headers.

Left out for good: rendering of maps, cards and pages; numerical work (diarization,
voiceprints, embeddings); transport, tenancy and path resolution; read-only queries;
deployment scripts. They keep no state another part depends on. Inside the modelled
parts, wording, logging, comments on recordings and task states are left out.
