---------------------------- MODULE PeopleProofs ----------------------------
(***************************************************************************)
(* The identity log explains the assignments, undo walks back through it,  *)
(* and a finished summary has the present names, for any number of people, *)
(* speakers, threads and events.                                           *)
(***************************************************************************)
EXTENDS People, TLAPS

Writing == {"assign", "unknown", "undo"}
Event == [speaker : Speakers, action : Writing, before : People, after : People, undoes : Nat]

Call == [op : {"idle", "enable", "revoke", "pick"} \cup Writing,
         speaker : Speakers \cup {"none"}, who : People, before : People,
         revision : Nat, undoes : Nat]

\* A thread that will write an assignment knows for whom.
Aimed == \A t \in Threads : call[t].op \in {"pick"} \cup Writing => call[t].speaker \in Speakers

RegistryTypes ==
  /\ call \in [Threads -> Call] /\ Aimed
  /\ person \in [Persons -> {"absent", "active", "inactive"}]
  /\ assigned \in [Speakers -> People] /\ revision \in [Speakers -> Nat]
  /\ events \in Seq(Event)
  /\ wiped \subseteq Speakers
  /\ names \in Nat /\ read \in Nat /\ shown \in Nat
  /\ summary \in {"none", "queued", "processing", "done", "failed"}

\* A running summary that absorbed nothing has read the present names.
NamesRead == ~absorbed =>
  /\ summary = "processing" => read = names
  /\ summary = "done" => shown = names

RegistryInv == RegistryTypes /\ LogExplains /\ NamesRead

LEMMA InitRegistry == Init => RegistryInv
<1> SUFFICES ASSUME Init PROVE RegistryInv
  OBVIOUS
<1> USE DEF Init, Writing, Event, People, Idle, NoEvent
<1>1. RegistryTypes
  BY DEF RegistryTypes, Aimed, Call
<1>2. LogExplains
  BY DEF LogExplains, EventsOf
<1>3. NamesRead
  BY DEF NamesRead
<1> QED
  BY <1>1, <1>2, <1>3 DEF RegistryInv

LEMMA TypesStep == RegistryTypes /\ [Next]_vars => RegistryTypes'
<1> SUFFICES ASSUME RegistryTypes, [Next]_vars PROVE RegistryTypes'
  OBVIOUS
<1> USE DEF RegistryTypes, Aimed, Call, Writing, People, directory, material, identity
<1>0. Idle \in Call /\ Idle.op = "idle"
  BY DEF Idle, NoEvent
<1>1. ASSUME NEW p \in Persons, create(p) PROVE RegistryTypes'
  BY <1>1 DEF create
<1>2. CASE Rename
  BY <1>2 DEF Rename, request_regenerate, Open
<1>3. CASE ReadNames \/ PublishSummary \/ SummaryFails
  BY <1>3 DEF ReadNames, PublishSummary, SummaryFails
<1>4. CASE Delete
  BY <1>4 DEF Delete
<1>5. ASSUME NEW t \in Threads, NEW p \in Persons, BeginUpdate(t, p) PROVE RegistryTypes'
  <2>1. PICK op \in {"enable", "revoke"} :
          call' = [call EXCEPT ![t] = [Idle EXCEPT !.op = op, !.who = p]]
    BY <1>5 DEF BeginUpdate
  <2>2. [Idle EXCEPT !.op = op, !.who = p] \in Call
        /\ [Idle EXCEPT !.op = op, !.who = p].op = op
    BY DEF Idle, NoEvent
  <2> QED
    BY <1>5, <2>1, <2>2 DEF BeginUpdate
<1>6. ASSUME NEW t \in Threads, NEW s \in Speakers, PickUndo(t, s) PROVE RegistryTypes'
  <2>1. PICK e \in Undoable(s) :
          call' = [call EXCEPT ![t] =
            [op |-> "pick", speaker |-> s, who |-> events[e].before,
             before |-> assigned[s], revision |-> 0, undoes |-> e]]
    BY <1>6 DEF PickUndo
  <2>2. e \in Nat /\ events[e] \in Event
    BY DEF Undoable
  <2>3. events[e].before \in People
    BY <2>2 DEF Event
  <2> QED
    BY <1>6, <2>1, <2>2, <2>3 DEF PickUndo
<1>7. ASSUME NEW t \in Threads, NEW s \in Speakers, NEW p \in Persons \cup {NoPerson},
             ReadTarget(t, s, p) PROVE RegistryTypes'
  BY <1>7 DEF ReadTarget, NoEvent
<1>8. ASSUME NEW t \in Threads, Enable(t) \/ Revoke(t) PROVE RegistryTypes'
  <2>1. CASE Enable(t)
    BY <1>0, <2>1 DEF Enable
  <2>2. CASE Revoke(t)
    <3>1. assigned' \in [Speakers -> People] /\ revision' \in [Speakers -> Nat]
      BY <2>2 DEF Revoke
    <3>2. person' \in [Persons -> {"absent", "active", "inactive"}] /\ wiped' \subseteq Speakers
      BY <2>2 DEF Revoke
    <3>3. call' \in [Threads -> Call] /\ Aimed'
      BY <1>0, <2>2 DEF Revoke
    <3> QED
      BY <2>2, <3>1, <3>2, <3>3 DEF Revoke
  <2> QED
    BY <1>8, <2>1, <2>2
<1>9. ASSUME NEW t \in Threads, ReadUndo(t) PROVE RegistryTypes'
  BY <1>9 DEF ReadUndo
<1>10. ASSUME NEW t \in Threads, RejectUndo(t) \/ GiveUp(t) PROVE RegistryTypes'
  BY <1>0, <1>10 DEF RejectUndo, GiveUp
<1>11. ASSUME NEW t \in Threads, Write(t) PROVE RegistryTypes'
  <2>1. EventOf(call[t]) \in Event
    BY <1>11 DEF Write, EventOf, Event
  <2>2. events' \in Seq(Event)
    BY <1>11, <2>1 DEF Write
  <2> QED
    BY <1>0, <1>11, <2>2 DEF Write, request_regenerate, Open
<1>12. CASE UNCHANGED vars
  BY <1>12 DEF vars
<1> QED
  BY <1>1, <1>2, <1>3, <1>4, <1>5, <1>6, <1>7, <1>8, <1>9, <1>10, <1>11, <1>12 DEF Next

\* Every step but the three that change them leaves assignments, log and
\* revocations alone.
LEMMA LogUntouched ==
  ASSUME RegistryTypes, [Next]_vars,
         ~Delete, \A t \in Threads : ~Revoke(t) /\ ~Write(t)
  PROVE  UNCHANGED <<assigned, events, wiped>>
BY DEF Next, vars, identity, create, Rename, ReadNames, PublishSummary, SummaryFails, BeginUpdate,
       Enable, PickUndo, ReadTarget, ReadUndo, RejectUndo, GiveUp

LEMMA LogStep == RegistryTypes /\ LogExplains /\ [Next]_vars => LogExplains'
<1> SUFFICES ASSUME RegistryTypes, LogExplains, [Next]_vars PROVE LogExplains'
  OBVIOUS
<1>1. CASE Delete
  BY <1>1 DEF Delete, LogExplains, EventsOf
<1>2. ASSUME NEW t \in Threads, Revoke(t) PROVE LogExplains'
  BY <1>2 DEF Revoke, LogExplains, EventsOf, RegistryTypes
<1>3. ASSUME NEW t \in Threads, Write(t) PROVE LogExplains'
  <2> DEFINE c == call[t]
             n == Len(events) + 1
  <2>1. c.speaker \in Speakers /\ EventOf(c) \in Event
    BY <1>3 DEF Write, RegistryTypes, Aimed, Call, EventOf, Event, Writing
  <2>2. /\ DOMAIN events' = 1 .. n /\ n \in Nat
        /\ events'[n] = EventOf(c)
        /\ \A i \in DOMAIN events : i \in 1 .. n /\ i # n /\ events'[i] = events[i]
        /\ \A i \in 1 .. n : i = n \/ i \in DOMAIN events
    BY <1>3, <2>1 DEF Write, RegistryTypes
  <2>3. ASSUME NEW s \in Speakers, NEW e \in EventsOf(s)', IsNewest(e, EventsOf(s)')
        PROVE  assigned'[s] = events'[e].after \/ (s \in wiped' /\ assigned'[s] = NoPerson)
    <3>1. CASE s = c.speaker
      <4>1. n \in EventsOf(s)' /\ e \in 1 .. n
        BY <2>2, <3>1 DEF EventsOf, EventOf
      <4>2. e = n
        BY <2>2, <2>3, <4>1 DEF IsNewest
      <4>3. assigned'[s] = c.who /\ EventOf(c).after = c.who
        BY <1>3, <2>1, <3>1 DEF Write, RegistryTypes, EventOf
      <4>4. events'[e].after = c.who
        BY <2>2, <4>2, <4>3
      <4> QED
        BY <4>3, <4>4
    <3>2. CASE s # c.speaker
      <4>1. EventsOf(s)' = EventsOf(s)
        BY <2>2, <3>2 DEF EventsOf, EventOf
      <4>2. assigned'[s] = assigned[s] /\ (s \in wiped => s \in wiped')
        BY <1>3, <3>2 DEF Write, RegistryTypes
      <4>3. e \in EventsOf(s) /\ IsNewest(e, EventsOf(s)) /\ events'[e] = events[e]
        BY <2>2, <2>3, <4>1 DEF EventsOf
      <4>4. assigned[s] = events[e].after \/ (s \in wiped /\ assigned[s] = NoPerson)
        BY <4>3 DEF LogExplains
      <4>5. events'[e].after = events[e].after
        BY <4>3
      <4> QED
        BY <4>2, <4>4, <4>5
    <3> QED
      BY <3>1, <3>2
  <2> QED
    BY <2>3 DEF LogExplains
<1>4. CASE ~Delete /\ \A t \in Threads : ~Revoke(t) /\ ~Write(t)
  BY <1>4, LogUntouched DEF LogExplains, EventsOf
<1> QED
  BY <1>1, <1>2, <1>3, <1>4

LEMMA NamesStep == RegistryTypes /\ NamesRead /\ [Next]_vars => NamesRead'
<1> SUFFICES ASSUME RegistryTypes, NamesRead, [Next]_vars PROVE NamesRead'
  OBVIOUS
<1> USE DEF RegistryTypes, NamesRead, directory, material, identity
<1>1. CASE Rename
  BY <1>1 DEF Rename, request_regenerate, Open
<1>2. CASE ReadNames \/ PublishSummary \/ SummaryFails
  BY <1>2 DEF ReadNames, PublishSummary, SummaryFails
<1>3. CASE Delete
  BY <1>3 DEF Delete
<1>4. ASSUME NEW t \in Threads, Write(t) PROVE NamesRead'
  BY <1>4 DEF Write, request_regenerate, Open
<1>5. CASE UNCHANGED material
  BY <1>5
<1> QED
  BY <1>1, <1>2, <1>3, <1>4, <1>5
  DEF Next, vars, create, BeginUpdate, Enable, Revoke, PickUndo, ReadTarget, ReadUndo,
      RejectUndo, GiveUp

(***************************************************************************)
(* Undo.  Off the speakers calls crossed on, the events that can be undone *)
(* form a stack: each left what the next one found, the newest left what   *)
(* is assigned, the oldest found nobody; and a call that is under way has  *)
(* seen the top of it.                                                     *)
(***************************************************************************)

Stack(s) ==
  /\ Undoable(s) = {} => assigned[s] = NoPerson
  /\ \A e \in Undoable(s) :
       /\ IsNewest(e, Undoable(s)) => assigned[s] = events[e].after
       /\ (\A f \in Undoable(s) : e <= f) => events[e].before = NoPerson
       /\ \A f \in Undoable(s) :
            f < e /\ (\A g \in Undoable(s) : g <= f \/ e <= g) => events[e].before = events[f].after

Assigning(t) == call[t].op \in {"pick"} \cup Writing
TakingBack(t) == call[t].op \in {"pick", "undo"}

SeesTop(t) ==
  LET c == call[t]
      s == call[t].speaker
  IN  /\ c.before = assigned[s]
      /\ TakingBack(t) => IsNewest(c.undoes, Undoable(s)) /\ c.who = events[c.undoes].before

\* An event takes back one of its own speaker, and so will a call; once the
\* recording is gone only calls begun before still write.
Refers ==
  /\ \A t \in Threads : call[t].op \in {"assign", "unknown"} => call[t].undoes = NoEvent
  /\ gone => /\ \A t \in Threads : Assigning(t) => call[t].speaker \in crossed
             /\ \A e \in DOMAIN events : events[e].speaker \in crossed
  /\ ~gone => /\ \A t \in Threads : TakingBack(t) =>
                   /\ call[t].undoes \in DOMAIN events
                   /\ events[call[t].undoes].speaker = call[t].speaker
              /\ \A u \in DOMAIN events : events[u].undoes # NoEvent =>
                   /\ events[u].undoes \in DOMAIN events
                   /\ events[events[u].undoes].speaker = events[u].speaker

UndoInv ==
  /\ Refers
  /\ \A s \in Speakers \ crossed :
       Stack(s) /\ \A t \in Threads : Assigning(t) /\ call[t].speaker = s => SeesTop(t)

LEMMA InitUndo == Init => UndoInv
BY DEF Init, UndoInv, Refers, Stack, SeesTop, Assigning, TakingBack, Undoable, Undone, IsNewest,
       Idle, NoEvent, Writing

\* A thread that reads, or gives up, changes nobody else's view.
LEMMA ReadStep ==
  ASSUME RegistryTypes, UndoInv, UNCHANGED identity, NEW t \in Threads,
         \A u \in Threads \ {t} : call'[u] = call[u],
         call'[t].op \in {"assign", "unknown"} => call'[t].undoes = NoEvent,
         Assigning(t)' => ~gone,
         TakingBack(t)' => /\ call'[t].undoes \in DOMAIN events
                           /\ events[call'[t].undoes].speaker = call'[t].speaker,
         Assigning(t)' /\ call'[t].speaker \notin crossed => SeesTop(t)'
  PROVE  UndoInv'
<1> USE DEF identity
<1>1. \A s : Undoable(s)' = Undoable(s)
  BY DEF Undoable, Undone
<1>2. \A s : Stack(s)' <=> Stack(s)
  BY <1>1 DEF Stack
<1>3. Refers'
  BY DEF UndoInv, Refers, Assigning, TakingBack, Writing
<1>4. ASSUME NEW u \in Threads \ {t}
      PROVE  (Assigning(u)' <=> Assigning(u)) /\ (SeesTop(u)' <=> SeesTop(u))
  BY <1>1, <1>4 DEF Assigning, SeesTop, TakingBack
<1>5. ASSUME NEW s \in Speakers \ crossed', NEW u \in Threads, Assigning(u)', call'[u].speaker = s
      PROVE  SeesTop(u)'
  <2>1. CASE u = t
    BY <1>5, <2>1
  <2>2. CASE u # t
    BY <1>4, <1>5, <2>2 DEF UndoInv
  <2> QED
    BY <2>1, <2>2
<1> QED
  BY <1>2, <1>3, <1>5 DEF UndoInv

\* What a write does to the events that can be undone.
LEMMA WriteUndoable ==
  ASSUME RegistryTypes, Refers, ~gone, NEW t \in Threads, Write(t), NEW s \in Speakers
  PROVE  LET c == call[t]
             n == Len(events) + 1
         IN  /\ n \in Nat /\ DOMAIN events = 1 .. n - 1 /\ events'[n] = EventOf(c)
             /\ \A e \in DOMAIN events : events'[e] = events[e] /\ e < n
             /\ DOMAIN events' = DOMAIN events \cup {n}
             /\ Undoable(s) \subseteq DOMAIN events
             /\ s # c.speaker => Undoable(s)' = Undoable(s)
             /\ s = c.speaker /\ c.op = "undo" => Undoable(s)' = Undoable(s) \ {c.undoes}
             /\ s = c.speaker /\ c.op # "undo" => Undoable(s)' = Undoable(s) \cup {n}
<1> DEFINE c == call[t]
           n == Len(events) + 1
<1>1. c.speaker \in Speakers /\ c.op \in Writing /\ EventOf(c) \in Event
  BY DEF Write, RegistryTypes, Aimed, Call, EventOf, Event, Writing
<1>2. /\ n \in Nat /\ DOMAIN events = 1 .. n - 1 /\ events'[n] = EventOf(c)
      /\ \A e \in DOMAIN events : events'[e] = events[e] /\ e < n
      /\ DOMAIN events' = DOMAIN events \cup {n} /\ n \notin DOMAIN events
  BY <1>1 DEF Write, RegistryTypes
<1>3. EventOf(c).undoes = c.undoes /\ EventOf(c).speaker = c.speaker /\ EventOf(c).action = c.op
  BY DEF EventOf
<1>4. \A e \in DOMAIN events : Undone(e)' <=> Undone(e) \/ c.undoes = e
  BY <1>2, <1>3 DEF Undone
<1>5. c.op # "undo" => c.undoes = NoEvent
  BY <1>1 DEF Refers, Writing
<1>6. c.undoes # n /\ \A u \in DOMAIN events : events[u].undoes # n
  BY <1>1, <1>2, <1>5 DEF Refers, NoEvent, TakingBack, Writing
<1>7. \A e : e = n => ~Undone(e)'
  BY <1>2, <1>3, <1>6 DEF Undone
<1>8. c.op = "undo" => events[c.undoes].speaker = c.speaker
  BY DEF Refers, TakingBack
<1>9. NoEvent \notin DOMAIN events
  BY <1>2 DEF NoEvent
<1>10. \A e : e \in Undoable(s)' <=>
         \/ e \in Undoable(s) /\ c.undoes # e
         \/ e = n /\ c.speaker = s /\ c.op # "undo"
  BY <1>2, <1>3, <1>4, <1>7 DEF Undoable
<1>11. Undoable(s) \subseteq DOMAIN events /\ \A e \in Undoable(s) : events[e].speaker = s
  BY DEF Undoable
<1>12. s # c.speaker => Undoable(s)' = Undoable(s)
  BY <1>5, <1>8, <1>9, <1>10, <1>11
<1>13. s = c.speaker /\ c.op = "undo" => Undoable(s)' = Undoable(s) \ {c.undoes}
  BY <1>10
<1>14. s = c.speaker /\ c.op # "undo" => Undoable(s)' = Undoable(s) \cup {n}
  BY <1>5, <1>9, <1>10, <1>11
<1> QED
  BY <1>2, <1>11, <1>12, <1>13, <1>14

\* A call that saw the top of the stack leaves a stack: an assignment is laid
\* on it, an undo takes the top off.
LEMMA WriteStacks ==
  ASSUME RegistryTypes, Refers, ~gone, NEW t \in Threads, Write(t), NEW s \in Speakers,
         Stack(s), s = call[t].speaker => SeesTop(t)
  PROVE  Stack(s)'
<1> DEFINE c == call[t]
           n == Len(events) + 1
           U == Undoable(s)
<1>1. /\ n \in Nat /\ DOMAIN events = 1 .. n - 1 /\ events'[n] = EventOf(c)
      /\ \A e \in DOMAIN events : events'[e] = events[e] /\ e < n
      /\ U \subseteq DOMAIN events
  BY WriteUndoable
<1>2. \A e \in U : e \in Nat /\ e < n /\ events'[e] = events[e]
  BY <1>1
<1>3. CASE s # c.speaker
  <2>1. U' = U /\ assigned'[s] = assigned[s]
    BY <1>3, WriteUndoable DEF Write, RegistryTypes
  <2> QED
    BY <1>2, <2>1 DEF Stack, IsNewest
<1>4. CASE s = c.speaker /\ c.op # "undo"
  <2>1. U' = U \cup {n}
    BY <1>4, WriteUndoable
  <2>2. /\ assigned'[s] = c.who /\ events'[n].after = c.who
        /\ events'[n].before = assigned[s]
    BY <1>1, <1>4 DEF Write, RegistryTypes, EventOf, SeesTop
  <2>3. ASSUME NEW e \in U' PROVE IsNewest(e, U') => assigned'[s] = events'[e].after
    BY <1>2, <2>1, <2>2 DEF IsNewest
  <2>4. ASSUME NEW e \in U', \A f \in U' : e <= f PROVE events'[e].before = NoPerson
    <3>1. CASE e = n
      <4>1. U = {}
        BY <1>2, <2>1, <2>4, <3>1
      <4> QED
        BY <2>2, <3>1, <4>1 DEF Stack
    <3>2. CASE e \in U
      BY <1>2, <2>1, <2>4, <3>2 DEF Stack
    <3> QED
      BY <2>1, <3>1, <3>2
  <2>5. ASSUME NEW e \in U', NEW f \in U', f < e, \A g \in U' : g <= f \/ e <= g
        PROVE  events'[e].before = events'[f].after
    <3>1. CASE e = n
      <4>1. f \in U /\ IsNewest(f, U)
        BY <1>1, <1>2, <2>1, <2>5, <3>1 DEF IsNewest
      <4>2. assigned[s] = events[f].after
        BY <4>1 DEF Stack
      <4> QED
        BY <1>2, <2>2, <3>1, <4>1, <4>2
    <3>2. CASE e \in U
      <4>1. f \in U
        BY <1>1, <1>2, <2>1, <2>5, <3>2
      <4>2. events[e].before = events[f].after
        BY <2>1, <2>5, <3>2, <4>1 DEF Stack
      <4> QED
        BY <1>2, <3>2, <4>1, <4>2
    <3> QED
      BY <2>1, <3>1, <3>2
  <2>6. U' # {}
    BY <2>1
  <2> HIDE DEF U
  <2> QED
    BY <2>3, <2>4, <2>5, <2>6 DEF Stack, U
<1>5. CASE s = c.speaker /\ c.op = "undo"
  <2> DEFINE top == c.undoes
  <2>1. U' = U \ {top} /\ IsNewest(top, U)
    BY <1>5, WriteUndoable DEF SeesTop, TakingBack
  <2>2. assigned'[s] = events[top].before
    BY <1>5 DEF Write, RegistryTypes, SeesTop, TakingBack
  <2>3. top \in U /\ \A e \in U : e <= top
    BY <2>1 DEF IsNewest
  <2>4. CASE U' = {}
    <3>1. \A e \in U : top <= e
      BY <1>2, <2>1, <2>3, <2>4
    <3> QED
      BY <2>2, <2>3, <2>4, <3>1 DEF Stack
  <2>5. ASSUME NEW e \in U', IsNewest(e, U') PROVE assigned'[s] = events'[e].after
    <3>1. e \in U /\ e < top /\ \A g \in U : g <= e \/ top <= g
      BY <1>2, <2>1, <2>3, <2>5 DEF IsNewest
    <3>2. events[top].before = events[e].after
      BY <2>3, <3>1 DEF Stack
    <3> QED
      BY <1>2, <2>2, <3>1, <3>2
  <2>6. ASSUME NEW e \in U', \A f \in U' : e <= f PROVE events'[e].before = NoPerson
    <3>1. e \in U /\ \A f \in U : e <= f
      BY <2>1, <2>3, <2>6
    <3> QED
      BY <1>2, <3>1 DEF Stack
  <2>7. ASSUME NEW e \in U', NEW f \in U', f < e, \A g \in U' : g <= f \/ e <= g
        PROVE  events'[e].before = events'[f].after
    <3>1. e \in U /\ f \in U /\ \A g \in U : g <= f \/ e <= g
      BY <2>1, <2>3, <2>7
    <3>2. events[e].before = events[f].after
      BY <2>7, <3>1 DEF Stack
    <3> QED
      BY <1>2, <3>1, <3>2
  <2> HIDE DEF U
  <2>8. (U = {})' => assigned'[s] = NoPerson
    BY <2>4 DEF U, Stack
  <2> QED
    BY <2>5, <2>6, <2>7, <2>8 DEF Stack, U
<1> QED
  BY <1>3, <1>4, <1>5

LEMMA UndoWrite ==
  ASSUME RegistryTypes, UndoInv, NEW t \in Threads, Write(t)
  PROVE  UndoInv'
<1> DEFINE c == call[t]
           n == Len(events) + 1
<1>1. c.speaker \in Speakers /\ c.op \in Writing /\ Assigning(t) /\ EventOf(c) \in Event
  BY DEF Write, RegistryTypes, Aimed, Call, EventOf, Event, Writing, Assigning
<1>2. /\ gone' = gone /\ crossed \subseteq crossed'
      /\ \A u \in Threads \ {t} : call'[u] = call[u] /\ (Assigning(u)' <=> Assigning(u))
                                   /\ (TakingBack(u)' <=> TakingBack(u))
      /\ ~Assigning(t)' /\ ~TakingBack(t)' /\ call'[t].op \notin {"assign", "unknown"}
  BY DEF Write, RegistryTypes, Assigning, TakingBack, Idle, Writing
<1>3. \A u \in Threads \ {t} : call[u].speaker = c.speaker => c.speaker \in crossed'
  BY DEF Write, Others
<1>4. EventOf(c).undoes = c.undoes /\ EventOf(c).speaker = c.speaker
  BY DEF EventOf
<1>5. /\ n \in Nat /\ DOMAIN events = 1 .. n - 1 /\ events'[n] = EventOf(c)
      /\ \A e \in DOMAIN events : events'[e] = events[e]
      /\ DOMAIN events' = DOMAIN events \cup {n}
  BY <1>1 DEF Write, RegistryTypes
<1>6. CASE gone
  <2>1. c.speaker \in crossed /\ \A e \in DOMAIN events : events[e].speaker \in crossed
    BY <1>1, <1>6 DEF UndoInv, Refers
  <2>2. \A e \in DOMAIN events' : events'[e].speaker \in crossed'
    BY <1>2, <1>4, <1>5, <2>1
  <2>3. \A u \in Threads : Assigning(u)' => call'[u].speaker \in crossed'
    BY <1>2, <1>6 DEF UndoInv, Refers
  <2>4. Refers'
    BY <1>2, <1>6, <2>2, <2>3 DEF UndoInv, Refers
  <2>5. ASSUME NEW s \in Speakers \ crossed' PROVE Stack(s)'
    <3>1. Undoable(s) = {} /\ Undoable(s)' = {} /\ s # c.speaker
      BY <1>2, <2>1, <2>2 DEF Undoable
    <3>2. assigned'[s] = NoPerson
      BY <1>2, <3>1 DEF Write, UndoInv, Stack, RegistryTypes
    <3> QED
      BY <3>1, <3>2 DEF Stack
  <2> QED
    BY <2>3, <2>4, <2>5 DEF UndoInv
<1>7. CASE ~gone
  <2>1. c.op # "undo" => c.undoes = NoEvent
    BY <1>1 DEF UndoInv, Refers, Writing
  <2>2. c.undoes # NoEvent => c.undoes \in DOMAIN events /\ events[c.undoes].speaker = c.speaker
    BY <1>7, <2>1 DEF UndoInv, Refers, TakingBack
  <2>3. \A u \in DOMAIN events' : events'[u].undoes # NoEvent =>
          /\ events'[u].undoes \in DOMAIN events'
          /\ events'[events'[u].undoes].speaker = events'[u].speaker
    BY <1>4, <1>5, <1>7, <2>2 DEF UndoInv, Refers
  <2>4. \A u \in Threads : TakingBack(u)' =>
          /\ call'[u].undoes \in DOMAIN events'
          /\ events'[call'[u].undoes].speaker = call'[u].speaker
    BY <1>2, <1>5, <1>7 DEF UndoInv, Refers
  <2>5. Refers'
    BY <1>2, <1>7, <2>3, <2>4 DEF UndoInv, Refers
  <2>6. ASSUME NEW s \in Speakers \ crossed' PROVE Stack(s)'
    <3>1. Stack(s) /\ (s = c.speaker => SeesTop(t))
      BY <1>1, <1>2 DEF UndoInv
    <3> QED
      BY <1>7, <3>1, WriteStacks DEF UndoInv
  <2>7. ASSUME NEW s \in Speakers \ crossed', NEW u \in Threads,
               Assigning(u)', call'[u].speaker = s
        PROVE  SeesTop(u)'
    <3>1. u # t /\ call'[u] = call[u] /\ s # c.speaker /\ SeesTop(u)
      BY <1>2, <1>3, <2>7 DEF UndoInv
    <3>2. Undoable(s)' = Undoable(s) /\ assigned'[s] = assigned[s]
      BY <1>7, <3>1, WriteUndoable DEF UndoInv, Write, RegistryTypes
    <3>3. Undoable(s) \subseteq DOMAIN events
      BY DEF Undoable
    <3> QED
      BY <1>2, <1>5, <2>7, <3>1, <3>2, <3>3 DEF SeesTop, IsNewest
  <2> QED
    BY <2>5, <2>6, <2>7 DEF UndoInv
<1> QED
  BY <1>6, <1>7

LEMMA UndoStep == RegistryTypes /\ UndoInv /\ [Next]_vars => UndoInv'
<1> SUFFICES ASSUME RegistryTypes, UndoInv, [Next]_vars PROVE UndoInv'
  OBVIOUS
<1>1. CASE Delete
  <2>1. \A s : Undoable(s)' = {}
    BY <1>1 DEF Delete, Undoable
  <2>2. \A s \in Speakers : Stack(s)'
    BY <1>1, <2>1 DEF Delete, Stack
  <2>3. \A t \in Threads : Assigning(t)' => call'[t].speaker \in crossed'
    BY <1>1 DEF Delete, RegistryTypes, Aimed, Assigning
  <2>4. Refers'
    BY <1>1, <2>3 DEF Delete, UndoInv, Refers
  <2> QED
    BY <2>2, <2>3, <2>4 DEF UndoInv
<1>2. ASSUME NEW t \in Threads, Revoke(t) PROVE UndoInv'
  <2>1. /\ events' = events /\ gone' = gone /\ crossed \subseteq crossed'
        /\ \A s \in Speakers \ crossed' : assigned'[s] = assigned[s]
    BY <1>2 DEF Revoke, RegistryTypes
  <2>2. /\ \A u \in Threads \ {t} : call'[u] = call[u] /\ (Assigning(u)' <=> Assigning(u))
                                     /\ (TakingBack(u)' <=> TakingBack(u))
        /\ ~Assigning(t)' /\ ~TakingBack(t)' /\ call'[t].op \notin {"assign", "unknown"}
    BY <1>2 DEF Revoke, RegistryTypes, Assigning, TakingBack, Idle, Writing
  <2>3. \A s : Undoable(s)' = Undoable(s)
    BY <2>1 DEF Undoable, Undone
  <2>4. \A s \in Speakers \ crossed' : Stack(s)'
    BY <2>1, <2>3 DEF UndoInv, Stack
  <2>5. Refers'
    BY <2>1, <2>2 DEF UndoInv, Refers
  <2>6. ASSUME NEW s \in Speakers \ crossed', NEW u \in Threads,
               Assigning(u)', call'[u].speaker = s
        PROVE  SeesTop(u)'
    <3>1. call'[u] = call[u] /\ SeesTop(u) /\ (TakingBack(u)' <=> TakingBack(u))
      BY <2>1, <2>2, <2>6 DEF UndoInv
    <3> QED
      BY <2>1, <2>3, <2>6, <3>1 DEF SeesTop
  <2> QED
    BY <2>4, <2>5, <2>6 DEF UndoInv
<1>3. ASSUME NEW t \in Threads, Write(t) PROVE UndoInv'
  BY <1>3, UndoWrite
<1>4. ASSUME NEW t \in Threads, NEW s \in Speakers, NEW p \in Persons \cup {NoPerson},
             ReadTarget(t, s, p) PROVE UndoInv'
  <2>1. /\ UNCHANGED identity /\ ~gone /\ \A u \in Threads \ {t} : call'[u] = call[u]
        /\ call'[t].op \in {"assign", "unknown"} /\ call'[t].undoes = NoEvent
        /\ call'[t].speaker = s /\ call'[t].before = assigned[s]
    BY <1>4 DEF ReadTarget, Known, RegistryTypes
  <2>2. ~TakingBack(t)' /\ SeesTop(t)'
    BY <2>1 DEF TakingBack, SeesTop, identity
  <2> QED
    BY <2>1, <2>2, ReadStep
<1>5. ASSUME NEW t \in Threads, NEW s \in Speakers, PickUndo(t, s) PROVE UndoInv'
  <2>1. PICK e \in Undoable(s) :
          /\ IsNewest(e, Undoable(s))
          /\ call' = [call EXCEPT ![t] =
               [op |-> "pick", speaker |-> s, who |-> events[e].before,
                before |-> assigned[s], revision |-> 0, undoes |-> e]]
    BY <1>5 DEF PickUndo
  <2>2. /\ UNCHANGED identity /\ ~gone /\ \A u \in Threads \ {t} : call'[u] = call[u]
        /\ call'[t] = [op |-> "pick", speaker |-> s, who |-> events[e].before,
                       before |-> assigned[s], revision |-> 0, undoes |-> e]
    BY <1>5, <2>1 DEF PickUndo, Known, RegistryTypes
  <2>3. e \in DOMAIN events /\ events[e].speaker = s
    BY DEF Undoable
  <2>4. Undoable(s)' = Undoable(s)
    BY <2>2 DEF Undoable, Undone, identity
  <2>5. SeesTop(t)'
    BY <2>1, <2>2, <2>4 DEF SeesTop, IsNewest, identity
  <2> QED
    BY <2>2, <2>3, <2>5, ReadStep
<1>6. ASSUME NEW t \in Threads, ReadUndo(t) PROVE UndoInv'
  <2> DEFINE c == call[t]
             s == c.speaker
  <2>1. /\ UNCHANGED identity /\ ~gone /\ \A u \in Threads \ {t} : call'[u] = call[u]
        /\ call'[t] = [op |-> "undo", speaker |-> s, who |-> c.who,
                       before |-> IF c.before = NoPerson THEN assigned[s] ELSE c.before,
                       revision |-> revision[s], undoes |-> c.undoes]
        /\ c.op = "pick" /\ s \in Speakers
    BY <1>6 DEF ReadUndo, Known, RegistryTypes
  <2>2. c.undoes \in DOMAIN events /\ events[c.undoes].speaker = s
    BY <2>1 DEF UndoInv, Refers, TakingBack
  <2>3. s \notin crossed => SeesTop(t)
    BY <2>1 DEF UndoInv, Assigning
  <2>4. Undoable(s)' = Undoable(s)
    BY <2>1 DEF Undoable, Undone, identity
  <2>5. s \notin crossed => SeesTop(t)'
    BY <2>1, <2>3, <2>4 DEF SeesTop, TakingBack, IsNewest, identity
  <2> QED
    BY <2>1, <2>2, <2>5, ReadStep
<1>7. ASSUME NEW t \in Threads, NEW p \in Persons,
             BeginUpdate(t, p)
      PROVE  UndoInv'
  <2>1. UNCHANGED identity /\ \A u \in Threads \ {t} : call'[u] = call[u]
    BY <1>7 DEF BeginUpdate, RegistryTypes
  <2>2. call'[t].op \in {"idle", "enable", "revoke"}
    BY <1>7 DEF BeginUpdate, RegistryTypes, Idle
  <2>3. ~Assigning(t)' /\ ~TakingBack(t)'
    BY <2>2 DEF Assigning, TakingBack, Writing
  <2> QED
    BY <2>1, <2>2, <2>3, ReadStep
<1>8. CASE UNCHANGED <<identity, call>>
  <2>1. \A s : Undoable(s)' = Undoable(s)
    BY <1>8 DEF identity, Undoable, Undone
  <2>2. \A s : Stack(s)' <=> Stack(s)
    BY <1>8, <2>1 DEF identity, Stack
  <2>3. \A t : (SeesTop(t)' <=> SeesTop(t)) /\ (Assigning(t)' <=> Assigning(t))
    BY <1>8, <2>1 DEF identity, SeesTop, Assigning, TakingBack
  <2>4. Refers'
    BY <1>8 DEF identity, UndoInv, Refers, Assigning, TakingBack
  <2> QED
    BY <1>8, <2>2, <2>3, <2>4 DEF identity, UndoInv
<1>9. CASE (\E p \in Persons : create(p)) \/ Rename \/ ReadNames \/ PublishSummary \/ SummaryFails
  BY <1>8, <1>9 DEF create, Rename, ReadNames, PublishSummary, SummaryFails
<1>10. ASSUME NEW t \in Threads, Enable(t) \/ RejectUndo(t) \/ GiveUp(t) PROVE UndoInv'
  <2>1. UNCHANGED identity /\ \A u \in Threads \ {t} : call'[u] = call[u]
    BY <1>10 DEF Enable, RejectUndo, GiveUp, RegistryTypes
  <2>2. call'[t].op = "idle"
    BY <1>10 DEF Enable, RejectUndo, GiveUp, RegistryTypes, Idle
  <2>3. ~Assigning(t)' /\ ~TakingBack(t)'
    BY <2>2 DEF Assigning, TakingBack, Writing
  <2> QED
    BY <2>1, <2>2, <2>3, ReadStep
<1> QED
  BY <1>1, <1>2, <1>3, <1>4, <1>5, <1>6, <1>7, <1>8, <1>9, <1>10 DEF Next, vars

\* What TypeOK says beyond RegistryTypes.
Ranges ==
  /\ read <= names /\ shown <= names
  /\ gone \in BOOLEAN /\ absorbed \in BOOLEAN /\ crossed \subseteq Speakers

LEMMA RangesStep == RegistryTypes /\ Ranges /\ [Next]_vars => Ranges'
<1> SUFFICES ASSUME RegistryTypes, Ranges, [Next]_vars PROVE Ranges'
  OBVIOUS
<1> USE DEF directory, material, identity
<1>1. read' <= names' /\ shown' <= names'
  <2>1. CASE Rename
    BY <2>1 DEF Rename, RegistryTypes, Ranges
  <2>2. CASE ReadNames \/ PublishSummary
    BY <2>2 DEF ReadNames, PublishSummary, RegistryTypes, Ranges
  <2>3. CASE UNCHANGED <<read, shown, names>>
    BY <2>3 DEF Ranges
  <2> QED
    BY <2>1, <2>2, <2>3
    DEF Next, vars, create, SummaryFails, Delete, BeginUpdate, PickUndo, ReadTarget, Enable, Revoke,
        ReadUndo, RejectUndo, Write, GiveUp
<1>2. gone' = gone \/ gone' = TRUE
  BY DEF Next, vars, create, Rename, ReadNames, PublishSummary, SummaryFails,
         Delete, BeginUpdate, PickUndo, ReadTarget, Enable, Revoke, ReadUndo, RejectUndo, Write, GiveUp
<1>3. absorbed' = absorbed \/ absorbed' \in BOOLEAN
  BY DEF Next, vars, create, Rename, ReadNames, PublishSummary, SummaryFails,
         Delete, BeginUpdate, PickUndo, ReadTarget, Enable, Revoke, ReadUndo, RejectUndo, Write, GiveUp
<1>4. crossed' \subseteq Speakers
  <2>1. ASSUME NEW t \in Threads, Write(t) PROVE crossed' \subseteq Speakers
    BY <2>1 DEF Write, Ranges, RegistryTypes, Aimed, Writing
  <2>2. ASSUME NEW t \in Threads, Revoke(t) PROVE crossed' \subseteq Speakers
    BY <2>2 DEF Revoke, Ranges
  <2>3. CASE Delete
    BY <2>3 DEF Delete
  <2>4. CASE UNCHANGED crossed
    BY <2>4 DEF Ranges
  <2> QED
    BY <2>1, <2>2, <2>3, <2>4
    DEF Next, vars, create, Rename, ReadNames, PublishSummary, SummaryFails, BeginUpdate, PickUndo,
        ReadTarget, Enable, ReadUndo, RejectUndo, GiveUp
<1> QED
  BY <1>1, <1>2, <1>3, <1>4, Zenon DEF Ranges

\* The registry's inductive invariant.
THEOREM RegistryCorrect == Spec => [](RegistryInv /\ Ranges /\ UndoInv)
<1>1. RegistryInv /\ Ranges /\ UndoInv /\ [Next]_vars => (RegistryInv /\ Ranges /\ UndoInv)'
  BY TypesStep, LogStep, NamesStep, RangesStep, UndoStep DEF RegistryInv
<1>2. Init => Ranges
  <2>1. Init => read <= names /\ shown <= names
    BY DEF Init
  <2> QED
    BY <2>1, Zenon DEF Init, Ranges
<1> QED
  BY <1>1, <1>2, InitRegistry, InitUndo, PTL DEF Spec

\* The table of assignments is what the log says it is, with any number of
\* requests served at once.
THEOREM LogExplainsHolds == Spec => []LogExplains
<1>1. RegistryInv => LogExplains
  BY DEF RegistryInv
<1> QED
  BY <1>1, RegistryCorrect, PTL

\* A finished summary has the present names unless a rename was absorbed.
THEOREM NamesShownHolds == Spec => []NamesShown
<1>1. RegistryInv => NamesShown
  BY DEF RegistryInv, NamesRead, NamesShown
<1> QED
  BY <1>1, RegistryCorrect, PTL

\* Undo walks back through the changes, one by one, on every speaker no two
\* calls crossed on.
THEOREM UndoWalksBackHolds == Spec => []UndoWalksBack
<1>1. UndoInv => UndoWalksBack
  BY DEF UndoInv, Stack, UndoWalksBack
<1> QED
  BY <1>1, RegistryCorrect, PTL

\* The log, the table and what the reader sees tell one story, whatever the
\* number of people, speakers, calls at once, events and changes.
THEOREM HistoryTrueHolds == Spec => []HistoryTrue
<1>1. RegistryInv /\ Ranges => TypeOK
  BY DEF RegistryInv, RegistryTypes, Ranges, TypeOK, Event, Writing, People
<1>2. Spec => []TypeOK
  BY <1>1, RegistryCorrect, PTL
<1> QED
  BY <1>2, LogExplainsHolds, UndoWalksBackHolds, NamesShownHolds, PTL DEF HistoryTrue

=============================================================================
