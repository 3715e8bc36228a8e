------------------------------- MODULE People -------------------------------
(***************************************************************************)
(* Who a speaker of a recording is (archive/people.py): the directory of   *)
(* people, the current assignment of each speaker and the log of identity  *)
(* events that undo walks back.  Each request is served by a thread of the *)
(* control server on its own connection; the viewer gives a call up after  *)
(* a second (control_client.py) while the thread may wait five for the     *)
(* write lock, so a retry runs beside the call it repeats.                 *)
(*                                                                         *)
(* A thread reads in autocommit and writes in one transaction afterwards.  *)
(***************************************************************************)
EXTENDS Naturals, Sequences, FiniteSets

CONSTANTS
  Persons, Self,    \* the people that may be entered, the ones as "this is me"
  Speakers,         \* the speakers of the recording
  NoPerson,
  Threads,          \* requests served at once
  MaxEvents,        \* bound: identity events
  MaxUpdates        \* bound: changes of the directory

ASSUME PeopleAssumption ==
  /\ NoPerson \notin Persons /\ Self \subseteq Persons
  /\ MaxEvents \in Nat /\ MaxUpdates \in Nat

VARIABLES
  person,     \* people: "absent", "active" or "inactive"
  assigned,   \* speaker_identity_assignments.person_id
  revision,   \* speaker_identity_assignments.revision
  events,     \* speaker_identity_events, in order of event_id
  names,      \* speaker_aliases, by how often they were changed
  summary,    \* the recording's summary job
  read, shown,\* names the running summary has read; names in the one shown
  gone,       \* the recording was deleted
  call,       \* what each thread has read so far
  updates,
  wiped,      \* history: speakers cleared by a revocation since their last event
  crossed,    \* history: speakers two calls were open on when one wrote, or
              \* that a revocation cleared
  absorbed    \* history: a rename was answered "already_queued" by a summary
              \* that had read the names already

directory == <<person, updates>>
material == <<names, summary, read, shown, absorbed>>
identity == <<assigned, revision, events, gone, wiped, crossed>>
vars == <<directory, material, identity, call>>

NoEvent == 0
Idle == [op |-> "idle", speaker |-> "none", who |-> NoPerson, before |-> NoPerson,
         revision |-> 0, undoes |-> NoEvent]

Init ==
  /\ person = [p \in Persons |-> "absent"]
  /\ assigned = [s \in Speakers |-> NoPerson]
  /\ revision = [s \in Speakers |-> 0]
  /\ events = <<>> /\ gone = FALSE
  /\ names = 0 /\ summary = "done" /\ read = 0 /\ shown = 0 /\ absorbed = FALSE
  /\ call = [t \in Threads |-> Idle]
  /\ updates = 0 /\ wiped = {} /\ crossed = {}

(***************************************************************************)
(* The directory.                                                          *)
(***************************************************************************)

\* The unique index people_one_active_self.
MayBeActive(p) == p \in Self => \A q \in Self \ {p} : person[q] # "active"

create(p) ==
  /\ person[p] = "absent" /\ MayBeActive(p) /\ updates < MaxUpdates
  /\ person' = [person EXCEPT ![p] = "active"]
  /\ updates' = updates + 1
  /\ UNCHANGED <<material, identity, call>>

\* update reads the row before it writes both columns: a change of the name
\* alone writes back the activity it read here, whatever came in between.
BeginUpdate(t, p) ==
  /\ call[t] = Idle /\ person[p] # "absent" /\ updates < MaxUpdates
  /\ \E op \in {"enable", "revoke"} :
       call' = [call EXCEPT ![t] = [Idle EXCEPT !.op = op, !.who = p]]
  /\ updates' = updates + 1
  /\ UNCHANGED <<person, material, identity>>

Enable(t) ==
  /\ call[t].op = "enable"
  /\ person' = IF MayBeActive(call[t].who)
               THEN [person EXCEPT ![call[t].who] = "active"] ELSE person
  /\ call' = [call EXCEPT ![t] = Idle]
  /\ UNCHANGED <<material, identity, updates>>

\* Revocation takes the person off every speaker in the same transaction.
Revoke(t) ==
  LET p == call[t].who
      his == {s \in Speakers : assigned[s] = p}
  IN /\ call[t].op = "revoke"
     /\ person' = [person EXCEPT ![p] = "inactive"]
     /\ assigned' = [s \in Speakers |-> IF s \in his THEN NoPerson ELSE assigned[s]]
     /\ revision' = [s \in Speakers |-> IF s \in his THEN revision[s] + 1 ELSE revision[s]]
     /\ wiped' = wiped \cup his /\ crossed' = crossed \cup his
     /\ call' = [call EXCEPT ![t] = Idle]
     /\ UNCHANGED <<events, gone, updates, material>>

(***************************************************************************)
(* Assignments.                                                            *)
(***************************************************************************)

Undone(e) == \E u \in DOMAIN events : events[u].undoes = e

\* Mutant: undone events may be picked again.
Undoable_toggles(s) == {e \in DOMAIN events : events[e].speaker = s /\ events[e].action # "undo"}

Undoable(s) == {e \in DOMAIN events : /\ events[e].speaker = s
                                      /\ events[e].action # "undo" /\ ~Undone(e)}
IsNewest(e, E) == e \in E /\ \A f \in E : f <= e

Known(s) == s \in Speakers /\ ~gone
Admissible(p) == p # NoPerson => person[p] = "active"

\* assign and set_unknown up to the write: _validate_target, the person, then
\* _current.
ReadTarget(t, s, p) ==
  /\ call[t] = Idle /\ Known(s) /\ Admissible(p)
  /\ call' = [call EXCEPT ![t] =
       [op |-> IF p = NoPerson THEN "unknown" ELSE "assign", speaker |-> s, who |-> p,
        before |-> assigned[s], revision |-> revision[s], undoes |-> NoEvent]]
  /\ UNCHANGED <<directory, material, identity>>

\* undo picks the newest event that is neither an undo nor undone.
PickUndo(t, s) ==
  /\ call[t] = Idle /\ Known(s)
  /\ \E e \in Undoable(s) :
       /\ IsNewest(e, Undoable(s))
       /\ call' = [call EXCEPT ![t] =
            [op |-> "pick", speaker |-> s, who |-> events[e].before,
             before |-> assigned[s], revision |-> 0, undoes |-> e]]
  /\ UNCHANGED <<directory, material, identity>>

\* and then goes through the same reads as an assignment.
ReadUndo(t) ==
  LET c == call[t]
      s == c.speaker
  IN /\ c.op = "pick" /\ Known(s) /\ Admissible(c.who)
     /\ call' = [call EXCEPT ![t] =
          [op |-> "undo", speaker |-> s, who |-> c.who,
           before |-> IF c.before = NoPerson THEN assigned[s] ELSE c.before,
           revision |-> revision[s], undoes |-> c.undoes]]
     /\ UNCHANGED <<directory, material, identity>>

\* The recording or the person went meanwhile: "bad identity", nothing written.
RejectUndo(t) ==
  /\ call[t].op = "pick" /\ ~(Known(call[t].speaker) /\ Admissible(call[t].who))
  /\ call' = [call EXCEPT ![t] = Idle]
  /\ UNCHANGED <<directory, material, identity>>

\* Mutant: before and after change places.
EventOf_swapped(c) == [speaker |-> c.speaker, action |-> c.op, before |-> c.who,
                       after |-> c.before, undoes |-> c.undoes]

EventOf(c) == [speaker |-> c.speaker, action |-> c.op, before |-> c.before,
               after |-> c.who, undoes |-> c.undoes]

Open == summary \in {"queued", "processing"}

\* Mutant: only a summary that failed is queued again.
request_regenerate_failed == summary' = IF summary = "done" THEN summary ELSE "queued"

\* pipeline.request_regenerate: an open summary absorbs the request.
request_regenerate == summary' = IF Open THEN summary ELSE "queued"

\* control._rename, one transaction of its own.  A name changes what the next
\* summary calls the speaker and nothing else.
Rename ==
  /\ ~gone /\ updates < MaxUpdates
  /\ names' = names + 1 /\ request_regenerate
  /\ absorbed' = (absorbed \/ summary = "processing")
  /\ updates' = updates + 1
  /\ UNCHANGED <<person, read, shown, identity, call>>

Others(t, s) == {u \in Threads \ {t} : call[u].speaker = s}

\* _set's transaction: assignment, event and the summary's new generation.
\* Nothing read before is looked at again.
Write(t) ==
  LET c == call[t]
      s == c.speaker
  IN /\ c.op \in {"assign", "unknown", "undo"} /\ Len(events) < MaxEvents
     /\ assigned' = [assigned EXCEPT ![s] = c.who]
     /\ revision' = [revision EXCEPT ![s] = c.revision + 1]
     /\ events' = Append(events, EventOf(c))
     /\ request_regenerate
     /\ wiped' = wiped \ {s}
     /\ crossed' = IF Others(t, s) # {} THEN crossed \cup {s} ELSE crossed
     /\ call' = [call EXCEPT ![t] = Idle]
     /\ UNCHANGED <<directory, gone, names, read, shown, absorbed>>

\* The write lock was not free within five seconds, or the process died.
GiveUp(t) ==
  /\ call[t] # Idle /\ call' = [call EXCEPT ![t] = Idle]
  /\ UNCHANGED <<directory, material, identity>>

\* summary_stage reads the aliases before its call and publishes after it.
\* Identity assignments are not read at all.
ReadNames ==
  /\ summary = "queued" /\ summary' = "processing" /\ read' = names
  /\ UNCHANGED <<directory, identity, call, names, shown, absorbed>>

PublishSummary ==
  /\ summary = "processing" /\ summary' = "done" /\ shown' = read
  /\ absorbed' = (absorbed /\ read # names)
  /\ UNCHANGED <<directory, identity, call, names, read>>

\* To be tried again, or for good.
SummaryFails ==
  /\ summary = "processing" /\ summary' \in {"queued", "failed"}
  /\ UNCHANGED <<directory, identity, call, names, read, shown, absorbed>>

\* control._archive_action deletes the recording's identity rows with it.
\* The identifiers of events are never reused (AUTOINCREMENT); the log ends.
Delete ==
  /\ ~gone /\ gone' = TRUE
  /\ assigned' = [s \in Speakers |-> NoPerson]
  /\ revision' = [s \in Speakers |-> 0]
  /\ events' = <<>> /\ summary' = "none"
  /\ wiped' = {} /\ crossed' = {s \in Speakers : \E t \in Threads : call[t].speaker = s}
  /\ UNCHANGED <<directory, call, names, read, shown, absorbed>>

Next ==
  \/ \E p \in Persons : create(p)
  \/ Rename \/ ReadNames \/ PublishSummary \/ SummaryFails \/ Delete
  \/ \E t \in Threads :
       \/ \E p \in Persons : BeginUpdate(t, p)
       \/ \E s \in Speakers : PickUndo(t, s) \/ \E p \in Persons \cup {NoPerson} : ReadTarget(t, s, p)
       \/ Enable(t) \/ Revoke(t) \/ ReadUndo(t) \/ RejectUndo(t) \/ Write(t) \/ GiveUp(t)

Spec == Init /\ [][Next]_vars

(***************************************************************************)
(* Properties.                                                             *)
(***************************************************************************)

People == Persons \cup {NoPerson}

TypeOK ==
  /\ person \in [Persons -> {"absent", "active", "inactive"}]
  /\ assigned \in [Speakers -> People] /\ revision \in [Speakers -> Nat]
  /\ events \in Seq([speaker : Speakers, action : {"assign", "unknown", "undo"},
                     before : People, after : People, undoes : Nat])
  /\ names \in Nat /\ {read, shown} \subseteq 0 .. names
  /\ summary \in {"none", "queued", "processing", "done", "failed"}
  /\ gone \in BOOLEAN /\ absorbed \in BOOLEAN
  /\ wiped \subseteq Speakers /\ crossed \subseteq Speakers

EventsOf(s) == {e \in DOMAIN events : events[e].speaker = s}

\* The assignment is what the last event left, unless its person was revoked
\* since: the log is never behind or ahead of the table, with any number of
\* calls at once.
LogExplains ==
  \A s \in Speakers : \A e \in EventsOf(s) : IsNewest(e, EventsOf(s)) =>
     \/ assigned[s] = events[e].after
     \/ s \in wiped /\ assigned[s] = NoPerson

\* Undo walks backward through the changes and does not toggle: what is
\* assigned is what the newest change that was not taken back had assigned,
\* nobody when all of them were (test_speaker_identity.py "it does not toggle
\* forever").  Calls that crossed on a speaker, and revocations, break the
\* chain: see the README.
UndoWalksBack ==
  \A s \in Speakers \ crossed :
    /\ Undoable(s) = {} => assigned[s] = NoPerson
    /\ \A e \in Undoable(s) : IsNewest(e, Undoable(s)) => assigned[s] = events[e].after

\* A finished summary calls the speakers by their present names, whatever else
\* asked for it in between, but for a rename a running summary absorbed.
NamesShown == summary = "done" /\ ~absorbed => shown = names

\* The log, the table and what the reader sees tell one story (people.py
\* "event-sourced manual cluster identity").
HistoryTrue == TypeOK /\ LogExplains /\ UndoWalksBack /\ NamesShown

\* Not kept by the code: a person who was revoked is nobody's speaker
\* (people.py "it removes current assignments").  A call that read the person
\* before the revocation writes the assignment after it.
RevokedUnassigned == \A s \in Speakers : assigned[s] \in People /\
  (assigned[s] # NoPerson => person[assigned[s]] = "active")

=============================================================================
