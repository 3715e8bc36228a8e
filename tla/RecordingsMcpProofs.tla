------------------------- MODULE RecordingsMcpProofs -------------------------
(***************************************************************************)
(* What the recordings MCP promises, for any callers, credentials, runs of *)
(* the command line, requests, recordings, terms and page size: a handed   *)
(* off credential is never lost, no answer goes out without its audit row, *)
(* a credential gone before the request came is not answered, and whoever  *)
(* follows next_cursor to the end misses nothing that was there.           *)
(*                                                                         *)
(* None of the four is inductive.  The first and the third rest on a ledger*)
(* of the credentials: drawn once, owned by one command until a grant is   *)
(* committed with them, and by one grant after that.  The second counts    *)
(* the answers that are audited and still to go out.  The last follows a   *)
(* recording's place in the listing between the requests of a walk.        *)
(***************************************************************************)
EXTENDS RecordingsMcp, FiniteSetTheorems, WellFoundedInduction, TLAPS

\* Each credential is in one place at a time.
Ledger ==
  /\ \A a \in Admins : admin[a].at = "idle" => admin[a].token = NoToken
  /\ \A a \in Admins : admin[a].at # "idle" =>
       admin[a].token \in Tokens /\ ~Fresh(admin[a].token)
  /\ \A a \in Admins : admin[a].at = "drawn" <=> admin[a].at # "idle" /\ admin[a].token \notin issued
  /\ \A a, e \in Admins : admin[a].at # "idle" /\ admin[a].token = admin[e].token => a = e
  /\ \A c \in Callers : Exists(c) => grants[c].token \in issued
  /\ \A c, d \in Callers : Exists(c) /\ grants[c].token = grants[d].token => c = d
  /\ \A t \in issued : ~Fresh(t)
  /\ \A f \in Files : files[f] # NoToken => ~Fresh(files[f])

InFile(t) == \E f \in Files : files[f] = t

\* What a command still has to commit is in the file it wrote; what a grant was
\* committed with is there or in the owner's hands.
Handoff ==
  /\ \A a \in Admins : admin[a].at = "drawn" /\ drawn[admin[a].token] = "file" =>
       InFile(admin[a].token)
  /\ \A c \in Callers : Exists(c) /\ drawn[grants[c].token] = "file" =>
       grants[c].token \in held \/ InFile(grants[c].token)

\* The answers to a caller that have their row and are still to go out.
Audited(c) == {b \in Bots : call[b].at = "audited" /\ call[b].caller = c}
Owing == \A c \in Callers : owed[c] = -Cardinality(Audited(c))

\* A dead request is stopped at the door: its credential was some grant's, is no
\* grant's now and will be no grant's again.
DeadStopped ==
  \A b \in Bots : call[b].dead =>
    call[b].at = "asked" /\ Dead(call[b].token)

\* A page is on its way to the bot.
Turning(b) == call[b].tool = "recordings_list" /\ call[b].at \in {"answer", "audited"}
Last(b) == call[b].tool = "recordings_list" /\ call[b].at = "sent" /\ ~call[b].more

\* A recording the walk owes and has not shown yet is still ahead of it, on the
\* page under way or behind it; and the caller it was authorized for has a grant.
Ahead(b, n, offset) ==
  n \in Listing(walk[b].caller) /\ Place(n, Listing(walk[b].caller)) >= offset
WalkOf(b) ==
  /\ call[b].at # "idle" => call[b].token \in Tokens
  /\ call[b].at = "authorized" => Exists(call[b].caller)
  /\ walk[b].due # {} => Exists(walk[b].caller)
  /\ \A n \in walk[b].due \ walk[b].seen :
       /\ ~Last(b) /\ Ahead(b, n, walk[b].offset)
       /\ Turning(b) => \/ n \in call[b].page
                        \/ call[b].more /\ Ahead(b, n, walk[b].offset + call[b].limit)
Walking == \A b \in Bots : WalkOf(b)

McpInv == TypeOK /\ Ledger /\ Handoff /\ Owing /\ DeadStopped /\ Walking

-----------------------------------------------------------------------------
(* Places in a listing *)

\* A non-empty finite set of numbers has a greatest member.
LEMMA Greatest ==
  ASSUME NEW S \in SUBSET Nat, IsFiniteSet(S), S # {}
  PROVE  \E p \in S : \A m \in S : m <= p
<1> DEFINE Above(x) == {y \in S : y > x}
           Sets == {Above(x) : x \in S}
<1>1. Sets \subseteq FiniteSubsetsOf(S) /\ Sets # {}
  <2>1. \A x \in S : Above(x) \in SUBSET S /\ IsFiniteSet(Above(x))
    BY FS_Subset
  <2> QED
    BY <2>1 DEF FiniteSubsetsOf
<1>2. PICK A \in Sets : \A B \in Sets : ~(<<B, A>> \in StrictSubsetOrdering(S))
  BY <1>1, FS_StrictSubsetOrderingWellFounded, WFMin, Zenon
<1>3. PICK p \in S : A = Above(p)
  OBVIOUS
<1>4. ASSUME NEW y \in S, y > p PROVE FALSE
  <2> y \in Nat /\ p \in Nat /\ \A z \in S : z \in Nat
    OBVIOUS
  <2>1. /\ \A z \in Above(y) : z \in Above(p)
        /\ y \in Above(p) /\ y \notin Above(y)
    BY <1>4
  <2>2. <<Above(y), A>> \in StrictSubsetOrdering(S)
    BY <2>1, <1>3 DEF StrictSubsetOrdering
  <2> QED
    BY <2>2, <1>2, <1>4
<1> QED
  BY <1>4

\* Rows have places, and more rows can only push a row back.
LEMMA PlaceType ==
  ASSUME NEW S, IsFiniteSet(S), NEW n
  PROVE  Place(n, S) \in Nat
<1>1. IsFiniteSet({m \in S : m < n})
  BY FS_Subset
<1> QED
  BY <1>1, FS_CardinalityType DEF Place

LEMMA PlaceGrows ==
  ASSUME NEW T, IsFiniteSet(T), NEW S \in SUBSET T, NEW n
  PROVE  Place(n, S) <= Place(n, T)
<1>1. IsFiniteSet({m \in T : m < n}) /\ {m \in S : m < n} \in SUBSET {m \in T : m < n}
  BY FS_Subset
<1> QED
  BY <1>1, FS_Subset DEF Place

\* No place in front of a row is left empty.
LEMMA Filled ==
  ASSUME NEW S \in SUBSET Nat, IsFiniteSet(S), NEW k \in Nat,
         NEW n \in S, Place(n, S) >= k
  PROVE  \E m \in S : Place(m, S) = k
<1> DEFINE Below(x) == {y \in S : y < x}
           Sets == {Below(x) : x \in {y \in S : Place(y, S) >= k}}
<1>1. \A x \in S : /\ Below(x) \in SUBSET S /\ IsFiniteSet(Below(x))
                   /\ Place(x, S) = Cardinality(Below(x)) /\ Place(x, S) \in Nat
  BY FS_Subset, PlaceType DEF Place
<1>2. Sets \subseteq FiniteSubsetsOf(S) /\ Sets # {}
  BY <1>1 DEF FiniteSubsetsOf
<1>3. PICK A \in Sets : \A B \in Sets : ~(<<B, A>> \in StrictSubsetOrdering(S))
  BY <1>2, FS_StrictSubsetOrderingWellFounded, WFMin, Zenon
<1>4. PICK m \in S : A = Below(m) /\ Place(m, S) >= k
  OBVIOUS
<1>5. CASE Place(m, S) > k
  <2> \A z \in S : z \in Nat
    OBVIOUS
  <2>1. Below(m) # {} /\ Below(m) \in SUBSET Nat /\ IsFiniteSet(Below(m))
    <3>1. Cardinality(Below(m)) # 0
      BY <1>1, <1>5
    <3> QED
      BY <3>1, <1>1, FS_EmptySet
  <2>2. PICK p \in Below(m) : \A x \in Below(m) : x <= p
    BY <2>1, Greatest
  <2>3. Below(m) = Below(p) \cup {p} /\ p \notin Below(p) /\ p \in S
    <3>1. p \in S /\ p < m /\ \A x \in S : x < m => x <= p
      BY <2>2
    <3>2. \A x \in S : x < m <=> x < p \/ x = p
      BY <3>1
    <3>3. p \notin Below(p)
      OBVIOUS
    <3>4. Below(m) \subseteq Below(p) \cup {p}
      BY <3>2
    <3>5. Below(p) \cup {p} \subseteq Below(m)
      BY <3>1, <3>2
    <3> QED
      BY <3>1, <3>3, <3>4, <3>5
  <2>4. Place(m, S) = Place(p, S) + 1
    <3>1. IsFiniteSet(Below(p))
      BY <2>3, <1>1
    <3>2. Cardinality(Below(p) \cup {p}) = Cardinality(Below(p)) + 1
      BY <3>1, <2>3, FS_AddElement
    <3> QED
      BY <3>2, <2>3, <1>1
  <2>5. Below(p) \in Sets
    <3>1. Place(p, S) \in Nat /\ Place(m, S) \in Nat
      BY <2>3, <1>1
    <3>2. Place(p, S) >= k
      BY <3>1, <2>4, <1>5
    <3> QED
      BY <3>2, <2>3
  <2>6. <<Below(p), A>> \in StrictSubsetOrdering(S)
    BY <2>3, <1>1, <1>4 DEF StrictSubsetOrdering
  <2> QED
    BY <2>5, <2>6, <1>3
<1> QED
  BY <1>4, <1>5, <1>1

-----------------------------------------------------------------------------
(* Types *)

LEMMA Nulls == /\ NoGrant \in Grant /\ Resting \in Command
               /\ NoCall \in Request /\ NoWalk \in Walk
<1>1. (CHOOSE c \in Callers : TRUE) \in Callers /\ (CHOOSE o \in Offers : TRUE) \in Offers
  BY McpAssumption, Zenon
<1>2. 1 \in 1 .. MaxLimit
  BY McpAssumption
<1> QED
  BY <1>1, <1>2 DEF NoGrant, Resting, NoCall, NoWalk, Grant, Command, Request, Walk

LEMMA InitTypes == Init => TypeOK
BY Nulls DEF Init, TypeOK

\* What a command does first.
Draws(a, t, f) ==
  /\ Fresh(t)
  /\ f # NoFile => Vacant(f)
  /\ drawn' = [drawn EXCEPT ![t] = IF f = NoFile THEN "stdout" ELSE "file"]
  /\ files' = IF f = NoFile THEN files ELSE [files EXCEPT ![f] = t]
  /\ \E c \in Callers, cmd \in {"create", "rotate"}, o \in Offers :
       admin' = [admin EXCEPT ![a] = [at |-> "drawn", cmd |-> cmd, caller |-> c,
                                      token |-> t, offer |-> o]]

LEMMA Drawing ==
  ASSUME NEW a \in Admins, _write_once(a)
  PROVE  \E t \in Tokens, f \in Files \cup {NoFile} : Draws(a, t, f)
BY DEF _write_once, Draws

\* The commands of the administrator keep the types.
LEMMA AdminTypes ==
  ASSUME TypeOK, Ledger, NEW a \in Admins,
         _write_once(a) \/ _provision(a) \/ ProvisionFails(a) \/ Deliver(a) \/ AdminDies(a)
  PROVE  TypeOK'
<1> USE DEF TypeOK, Fault, bots, bounds
<1>0. /\ admin[a] \in Command /\ Resting \in Command
      /\ admin[a].at # "idle" => admin[a].token \in Tokens
  BY Nulls DEF Ledger
<1>1. CASE _write_once(a)
  <2>1. PICK t \in Tokens, f \in Files \cup {NoFile} : Draws(a, t, f)
    BY <1>1, Drawing
  <2>3. admin' \in [Admins -> Command]
    <3>1. PICK c \in Callers, cmd \in {"create", "rotate"}, o \in Offers :
            admin' = [admin EXCEPT ![a] = [at |-> "drawn", cmd |-> cmd, caller |-> c,
                                           token |-> t, offer |-> o]]
      BY <2>1 DEF Draws
    <3>2. [at |-> "drawn", cmd |-> cmd, caller |-> c, token |-> t, offer |-> o] \in Command
      BY DEF Command
    <3> QED
      BY <3>1, <3>2
  <2>4. files' \in [Files -> Tokens \cup {NoToken}] /\ drawn' \in [Tokens -> {"no", "file", "stdout"}]
    BY <2>1 DEF Draws
  <2> QED
    BY <1>1, <2>3, <2>4 DEF _write_once
<1>2. CASE _provision(a)
  <2>1. admin[a].token \in Tokens /\ admin[a].caller \in Callers
    BY <1>2, <1>0 DEF _provision, Command
  <2>2. Created(a) \in Grant /\ Rotated(a) \in Grant
    <3>1. grants[admin[a].caller] \in Grant /\ admin[a].offer \in Terms
      BY <2>1, <1>0, McpAssumption DEF Command
    <3> QED
      BY <2>1, <3>1 DEF Created, Rotated, Grant, Terms
  <2>3. [admin[a] EXCEPT !.at = "done"] \in Command
    BY <1>0 DEF Command
  <2>4. grants' \in [Callers -> Grant]
    BY <1>2, <2>1, <2>2 DEF _provision, create, rotate
  <2>5. admin' \in [Admins -> Command] /\ issued' \subseteq Tokens
    BY <1>2, <2>1, <2>3 DEF _provision
  <2> QED
    BY <1>2, <2>4, <2>5 DEF _provision
<1>3. CASE ProvisionFails(a)
  <2>1. faults' \in Nat
    BY <1>3 DEF ProvisionFails
  <2>2. admin' \in [Admins -> Command] /\ files' \in [Files -> Tokens \cup {NoToken}]
    BY <1>3, <1>0 DEF ProvisionFails
  <2> QED
    BY <1>3, <2>1, <2>2 DEF ProvisionFails
<1>4. CASE Deliver(a)
  <2>1. admin[a].token \in Tokens
    BY <1>4, <1>0 DEF Deliver
  <2>2. admin' \in [Admins -> Command] /\ held' \subseteq Tokens
    BY <1>4, <1>0, <2>1 DEF Deliver
  <2> QED
    BY <1>4, <2>2 DEF Deliver
<1>5. CASE AdminDies(a)
  <2>1. admin' \in [Admins -> Command] /\ faults' \in Nat
    BY <1>5, <1>0 DEF AdminDies
  <2> QED
    BY <1>5, <2>1 DEF AdminDies
<1> QED
  BY <1>1, <1>2, <1>3, <1>4, <1>5

\* What is written into a request or a walk.
LEMMA RequestRecords ==
  ASSUME NEW q \in Request, NEW c \in Callers, NEW page \in SUBSET Numbers, NEW more \in BOOLEAN
  PROVE  /\ [q EXCEPT !.at = "authorized", !.caller = c] \in Request
         /\ [q EXCEPT !.at = "answer", !.page = page, !.more = more] \in Request
         /\ [q EXCEPT !.at = "answer", !.page = page] \in Request
<1>1. [q EXCEPT !.at = "authorized", !.caller = c] \in Request
  BY DEF Request
<1>2. [q EXCEPT !.at = "answer", !.page = page, !.more = more] \in Request
  BY DEF Request
<1>3. [q EXCEPT !.at = "answer", !.page = page] \in Request
  BY DEF Request
<1> QED BY <1>1, <1>2, <1>3

LEMMA RequestGoesOn ==
  ASSUME NEW q \in Request
  PROVE  /\ \A at \in {"read", "dispatched", "answer", "audited", "sent"} :
              [q EXCEPT !.at = at] \in Request
         /\ q.caller \in Callers /\ q.number \in Numbers \cup {0}
<1>1. ASSUME NEW at \in {"read", "dispatched", "answer", "audited", "sent"}
      PROVE  [q EXCEPT !.at = at] \in Request
  BY DEF Request
<1> QED BY <1>1 DEF Request

LEMMA AskedRecord ==
  ASSUME NEW t \in Tokens \cup {NoToken}, NEW tool \in ToolNames \cup {"ping"},
         NEW n \in Numbers \cup {0}, NEW k \in 1 .. MaxLimit, NEW dead \in BOOLEAN
  PROVE  [NoCall EXCEPT !.at = "asked", !.token = t, !.tool = tool,
                        !.number = n, !.limit = k, !.dead = dead] \in Request
BY Nulls DEF Request

\* What a bot asks for.
LEMMA AskIs ==
  ASSUME NEW b \in Bots, Ask(b)
  PROVE  \E t \in held, tool \in Tools, n \in Numbers \cup {0}, k \in 1 .. MaxLimit :
           call' = [call EXCEPT ![b] = [NoCall EXCEPT !.at = "asked", !.token = t, !.tool = tool,
                                        !.number = n, !.limit = k, !.dead = Dead(t)]]
<1>1. PICK t \in held, tool \in Tools :
        \E n \in (IF tool = "recordings_list" THEN {0} ELSE Numbers),
           k \in (IF tool = "recordings_list" THEN 1 .. MaxLimit ELSE {1}) :
          call' = [call EXCEPT ![b] = [NoCall EXCEPT !.at = "asked", !.token = t, !.tool = tool,
                                       !.number = n, !.limit = k, !.dead = Dead(t)]]
  BY DEF Ask
<1>2. 1 \in 1 .. MaxLimit
  BY McpAssumption
<1> QED
  BY <1>1, <1>2, Zenon

\* So do the steps of a request.
LEMMA RequestTypes ==
  ASSUME TypeOK, NEW b \in Bots,
         Ask(b) \/ Authenticate(b) \/ authorize(b) \/ Handle(b) \/ Audit(b)
           \/ Answer(b) \/ Rest(b)
  PROVE  TypeOK'
<1> USE DEF TypeOK, Fault, Refuse, admins, bounds
<1>0. /\ call[b] \in Request /\ NoCall \in Request /\ walk[b] \in Walk /\ NoWalk \in Walk
      /\ \A at \in {"read", "dispatched", "answer", "audited", "sent"} :
            [call[b] EXCEPT !.at = at] \in Request
  <2>1. call[b] \in Request /\ NoCall \in Request /\ walk[b] \in Walk /\ NoWalk \in Walk
    BY Nulls
  <2>2. \A at \in {"read", "dispatched", "answer", "audited", "sent"} :
            [call[b] EXCEPT !.at = at] \in Request
    BY <2>1, RequestGoesOn, Zenon
  <2> QED BY <2>1, <2>2
<1>1. CASE Ask(b)
  <2>1. PICK t \in held, tool \in Tools, n \in Numbers \cup {0}, k \in 1 .. MaxLimit :
          call' = [call EXCEPT ![b] = [NoCall EXCEPT !.at = "asked", !.token = t, !.tool = tool,
                                      !.number = n, !.limit = k, !.dead = Dead(t)]]
    BY <1>1, AskIs, Zenon
  <2>2. tool \in ToolNames \cup {"ping"} /\ t \in Tokens \cup {NoToken} /\ Dead(t) \in BOOLEAN
    BY McpAssumption DEF Dead
  <2>4. [NoCall EXCEPT !.at = "asked", !.token = t, !.tool = tool,
                       !.number = n, !.limit = k, !.dead = Dead(t)] \in Request
    BY <2>2, AskedRecord
  <2>5. call' \in [Bots -> Request] /\ calls' \in Nat
    <3>1. calls' \in Nat
      <4>1. calls' = calls + 1
        BY <1>1, Zenon DEF Ask
      <4> QED
        BY <4>1
    <3> QED
      BY <2>1, <2>4, <3>1
  <2> QED
    BY <1>1, <2>5 DEF Ask
<1>2. CASE Authenticate(b)
  <2>1. call' \in [Bots -> Request]
    BY <1>2, <1>0 DEF Authenticate
  <2> QED
    BY <1>2, <2>1 DEF Authenticate
<1>3. CASE authorize(b)
  <2>1. \A c \in Callers : [call[b] EXCEPT !.at = "authorized", !.caller = c] \in Request
    BY <1>0, RequestRecords
  <2>2. call' \in [Bots -> Request]
    BY <1>3, <2>1, <1>0 DEF authorize
  <2> QED
    BY <1>3, <2>2 DEF authorize
<1>4. CASE Handle(b)
  <2> DEFINE c == call[b].caller
             offset == walk[b].offset
             limit == call[b].limit
  <2>1. c \in Callers /\ Shown(c, offset, limit) \in SUBSET Numbers /\ HasMore(c, offset, limit) \in BOOLEAN
    <3>1. c \in Callers
      BY <1>0, RequestGoesOn, Zenon
    <3> QED BY <3>1 DEF Shown, HasMore, Listing, Page, Rows
  <2>2. [call[b] EXCEPT !.at = "answer", !.page = Shown(c, offset, limit),
                        !.more = HasMore(c, offset, limit)] \in Request
    BY <1>0, <2>1, RequestRecords
  <2>3. call[b].number \in archive =>
          [call[b] EXCEPT !.at = "answer", !.page = {call[b].number}] \in Request
    <3>1. call[b].number \in archive => {call[b].number} \in SUBSET Numbers
      OBVIOUS
    <3> QED BY <1>0, <2>1, <3>1, RequestRecords, Zenon
  <2>4. call' \in [Bots -> Request]
    BY <1>4, <1>0, <2>2, <2>3 DEF Handle
  <2>5. Due(b, c) \in SUBSET Numbers
    BY <1>0 DEF Due, Listing, Walk
  <2>6. [walk[b] EXCEPT !.caller = c, !.due = Due(b, c)] \in Walk
    BY <1>0, <2>1, <2>5 DEF Walk
  <2>7. walk' \in [Bots -> Walk]
    BY <1>4, <1>0, <2>6 DEF Handle
  <2>8. faults' = faults \/ faults' = faults + 1
    BY <1>4, Zenon DEF Handle
  <2> QED
    BY <1>4, <2>4, <2>7, <2>8 DEF Handle
<1>5. CASE Audit(b)
  <2>1. call[b].caller \in Callers
    BY <1>0 DEF Request
  <2>2. call' \in [Bots -> Request] /\ faults' \in Nat
    BY <1>5, <1>0 DEF Audit, Unaudited
  <2>3. owed' \in [Callers -> Int]
    BY <1>5, <2>1 DEF Audit
  <2> QED
    BY <1>5, <2>2, <2>3 DEF Audit
<1>6. CASE Answer(b)
  <2>1. call[b].caller \in Callers /\ call[b].page \in SUBSET Numbers
    BY <1>0 DEF Request
  <2>2. call' \in [Bots -> Request] /\ owed' \in [Callers -> Int]
    BY <1>6, <1>0, <2>1 DEF Answer
  <2>3. \A seen \in SUBSET Numbers, o \in Nat : [walk[b] EXCEPT !.offset = o, !.seen = seen] \in Walk
    BY <1>0 DEF Walk
  <2>4. walk[b].offset + call[b].limit \in Nat /\ walk[b].seen \cup call[b].page \in SUBSET Numbers
    BY <1>0, <2>1, McpAssumption DEF Walk, Request
  <2>5. walk' \in [Bots -> Walk]
    BY <1>6, <2>3, <2>4 DEF Answer, Walked
  <2> QED
    BY <1>6, <2>2, <2>5 DEF Answer
<1>7. CASE Rest(b)
  <2>1. call' \in [Bots -> Request] /\ walk' \in [Bots -> Walk]
    BY <1>7, <1>0 DEF Rest
  <2> QED
    BY <1>7, <2>1 DEF Rest
<1> QED
  BY <1>1, <1>2, <1>3, <1>4, <1>5, <1>6, <1>7

\* Every step keeps the types, given that a committed credential is a real one.
LEMMA StepTypes == TypeOK /\ Ledger /\ [Next]_vars => TypeOK'
<1> SUFFICES ASSUME TypeOK, Ledger, [Next]_vars PROVE TypeOK'
  OBVIOUS
<1>1. ASSUME NEW c \in Callers, revoke(c) PROVE TypeOK'
  <2>0. grants[c] \in Grant
    BY DEF TypeOK
  <2>1. [grants[c] EXCEPT !.disabled = TRUE] \in Grant
    BY <2>0 DEF Grant
  <2>2. grants' \in [Callers -> Grant]
    BY <1>1, <2>1 DEF TypeOK, revoke
  <2> QED
    BY <1>1, <2>2 DEF TypeOK, revoke, admins, bots, bounds
<1>2. ASSUME NEW f \in Files, Collect(f) PROVE TypeOK'
  BY <1>2 DEF TypeOK, Collect, bots, bounds
<1>3. CASE Move
  <2>1. \A b \in Bots : [walk[b] EXCEPT !.due = {}] \in Walk
    BY DEF TypeOK, Walk
  <2>2. walk' \in [Bots -> Walk] /\ archive' \subseteq Numbers /\ moves' \in Nat
    BY <1>3, <2>1 DEF TypeOK, Move
  <2> QED
    BY <1>3, <2>2 DEF TypeOK, Move, admins
<1>4. CASE Tick
  BY <1>4 DEF TypeOK, Tick, admins, bots, bounds
<1>5. CASE UNCHANGED vars
  BY <1>5 DEF TypeOK, vars, admins, bots, bounds
<1> QED
  BY <1>1, <1>2, <1>3, <1>4, <1>5, AdminTypes, RequestTypes DEF Next
-----------------------------------------------------------------------------
(* The ledger of the credentials *)

\* The steps of a request leave the commands and the grants alone.
Aside == UNCHANGED <<grants, files, held, drawn, issued, admin>>

LEMMA OthersAside ==
  ASSUME \/ \E b \in Bots : \/ Ask(b) \/ Authenticate(b) \/ authorize(b) \/ Handle(b)
                            \/ Audit(b) \/ Answer(b) \/ Rest(b)
         \/ Move \/ Tick \/ UNCHANGED vars
  PROVE  Aside
BY DEF Aside, Ask, Authenticate, authorize, Handle, Audit, Answer, Rest, Move, Tick, vars, admins

\* What a grant is after it was created or rotated.
LEMMA Committing ==
  ASSUME TypeOK, NEW a \in Admins, _provision(a)
  PROVE  /\ admin[a].caller \in Callers
         /\ grants'[admin[a].caller].token = admin[a].token
         /\ \A c \in Callers : c # admin[a].caller => grants'[c] = grants[c]
         /\ \A e \in Admins : admin'[e].token = admin[e].token
         /\ admin'[a].at = "done" /\ \A e \in Admins : e # a => admin'[e] = admin[e]
<1>1. admin[a] \in Command /\ admin[a].caller \in Callers
  BY DEF TypeOK, Command
<1>2. grants[admin[a].caller] \in Grant /\ grants \in [Callers -> Grant]
  BY <1>1 DEF TypeOK
<1>3. Created(a).token = admin[a].token /\ Rotated(a).token = admin[a].token
  BY <1>2 DEF Created, Rotated, Grant
<1>4. grants' = [grants EXCEPT ![admin[a].caller] = Created(a)]
        \/ grants' = [grants EXCEPT ![admin[a].caller] = Rotated(a)]
  BY DEF _provision, create, rotate
<1>5. admin' = [admin EXCEPT ![a].at = "done"]
  BY DEF _provision
<1> QED
  BY <1>1, <1>2, <1>3, <1>4, <1>5 DEF TypeOK, Command

LEMMA InitLedger == Init => Ledger /\ Handoff
BY McpAssumption DEF Init, Ledger, Handoff, Exists, Resting, NoGrant, Fresh, InFile

LEMMA StepLedger == TypeOK /\ Ledger /\ [Next]_vars => Ledger'
<1> SUFFICES ASSUME TypeOK, Ledger, [Next]_vars PROVE Ledger'
  OBVIOUS
<1>a. \A t \in Tokens : t # NoToken
  BY McpAssumption
<1>b. Resting.at = "idle" /\ Resting.token = NoToken
  BY DEF Resting
<1>1. ASSUME NEW c \in Callers, revoke(c) PROVE Ledger'
  <2>1. \A d \in Callers : grants'[d].token = grants[d].token
    BY <1>1 DEF revoke, TypeOK, Grant
  <2> QED
    BY <1>1, <2>1 DEF revoke, Ledger, Exists, Fresh, admins
<1>2. ASSUME NEW a \in Admins, _write_once(a) PROVE Ledger'
  <2>1. PICK t \in Tokens, f \in Files \cup {NoFile} : Draws(a, t, f)
    BY <1>2, Drawing
  <2>2. PICK c \in Callers, cmd \in {"create", "rotate"}, o \in Offers :
          admin' = [admin EXCEPT ![a] = [at |-> "drawn", cmd |-> cmd, caller |-> c,
                                         token |-> t, offer |-> o]]
    BY <2>1 DEF Draws
  <2>3. /\ admin'[a].at = "drawn" /\ admin'[a].token = t
        /\ \A e \in Admins : e # a => admin'[e] = admin[e]
    BY <2>2 DEF TypeOK
  <2>4. /\ t \notin issued /\ t # NoToken
        /\ \A e \in Admins : admin[e].token # t
        /\ UNCHANGED <<issued, grants>>
    <3>1. Fresh(t) /\ t # NoToken
      BY <2>1, <1>a DEF Draws
    <3>2. UNCHANGED <<issued, grants>>
      BY <1>2 DEF _write_once
    <3> QED
      BY <3>1, <3>2 DEF Ledger
  <2>5. \A u \in Tokens : ~Fresh(u) => ~Fresh(u)'
    BY <2>1 DEF Draws, Fresh, TypeOK
  <2>6. ~Fresh(t)'
    BY <2>1 DEF Draws, Fresh, TypeOK
  <2>7. \A g \in Files : files'[g] = files[g] \/ files'[g] = t
    BY <2>1 DEF Draws, TypeOK
  <2>8. \A g \in Files : files[g] # NoToken => files[g] \in Tokens
    BY DEF TypeOK
  <2>9. (\A e \in Admins : admin[e].at = "idle" => admin[e].token = NoToken)'
    BY <2>3 DEF Ledger
  <2>10. (\A e \in Admins : admin[e].at # "idle" => admin[e].token \in Tokens /\ ~Fresh(admin[e].token))'
    BY <2>3, <2>5, <2>6 DEF Ledger
  <2>11. (\A e \in Admins : admin[e].at = "drawn" <=> admin[e].at # "idle" /\ admin[e].token \notin issued)'
    BY <2>3, <2>4 DEF Ledger
  <2>12. (\A d, e \in Admins : admin[d].at # "idle" /\ admin[d].token = admin[e].token => d = e)'
    BY <2>3, <2>4 DEF Ledger
  <2>13. (\A u \in issued : ~Fresh(u))'
    BY <2>4, <2>5 DEF Ledger, TypeOK
  <2>14. (\A g \in Files : files[g] # NoToken => ~Fresh(files[g]))'
    BY <2>5, <2>6, <2>7, <2>8 DEF Ledger
  <2> QED
    BY <2>4, <2>9, <2>10, <2>11, <2>12, <2>13, <2>14 DEF Ledger, Exists
<1>3. ASSUME NEW a \in Admins, _provision(a) PROVE Ledger'
  <2> DEFINE t == admin[a].token
             c == admin[a].caller
  <2>1. /\ UNCHANGED <<files, drawn>> /\ issued' = issued \cup {t} /\ admin[a].at = "drawn"
    BY <1>3 DEF _provision
  <2>2. /\ c \in Callers /\ grants'[c].token = t
        /\ \A d \in Callers : d # c => grants'[d] = grants[d]
        /\ \A e \in Admins : admin'[e].token = admin[e].token
        /\ admin'[a].at = "done" /\ \A e \in Admins : e # a => admin'[e] = admin[e]
    BY <1>3, Committing
  <2>3. t \in Tokens /\ t \notin issued /\ ~Fresh(t) /\ t # NoToken
    BY <2>1, <1>a DEF Ledger
  <2>4. \A d \in Callers : Exists(d) => grants[d].token # t
    BY <2>3 DEF Ledger
  <2>5. \A u : Fresh(u)' <=> Fresh(u)
    BY <2>1 DEF Fresh
  <2>6. (\A e \in Admins : admin[e].at = "idle" => admin[e].token = NoToken)'
    BY <2>2 DEF Ledger
  <2>7. (\A e \in Admins : admin[e].at # "idle" => admin[e].token \in Tokens /\ ~Fresh(admin[e].token))'
    BY <2>1, <2>2, <2>5 DEF Ledger
  <2>8. (\A e \in Admins : admin[e].at = "drawn" <=> admin[e].at # "idle" /\ admin[e].token \notin issued)'
    BY <2>1, <2>2 DEF Ledger
  <2>9. (\A d, e \in Admins : admin[d].at # "idle" /\ admin[d].token = admin[e].token => d = e)'
    BY <2>1, <2>2 DEF Ledger
  <2>10. (\A d \in Callers : Exists(d) => grants[d].token \in issued)'
    BY <2>1, <2>2 DEF Ledger, Exists
  <2>11. (\A d, e \in Callers : Exists(d) /\ grants[d].token = grants[e].token => d = e)'
    BY <2>2, <2>3, <2>4 DEF Ledger, Exists
  <2>12. (\A u \in issued : ~Fresh(u))' /\ (\A g \in Files : files[g] # NoToken => ~Fresh(files[g]))'
    BY <2>1, <2>3, <2>5 DEF Ledger
  <2> QED
    BY <2>6, <2>7, <2>8, <2>9, <2>10, <2>11, <2>12 DEF Ledger
<1>4. ASSUME NEW a \in Admins, ProvisionFails(a) \/ Deliver(a) \/ AdminDies(a) PROVE Ledger'
  <2>1. admin' = [admin EXCEPT ![a] = Resting] /\ UNCHANGED <<grants, drawn, issued>>
    BY <1>4 DEF ProvisionFails, Deliver, AdminDies
  <2>2. \A g \in Files : files'[g] = files[g] \/ files'[g] = NoToken
    BY <1>4 DEF ProvisionFails, Deliver, AdminDies, TypeOK
  <2>3. admin'[a] = Resting /\ \A e \in Admins : e # a => admin'[e] = admin[e]
    BY <2>1 DEF TypeOK
  <2>4. admin[a].token = NoToken \/ admin[a].token \in Tokens
    BY DEF TypeOK, Command
  <2>5. (\A d, e \in Admins : admin[d].at # "idle" /\ admin[d].token = admin[e].token => d = e)'
    BY <2>3, <1>a, <1>b DEF Ledger
  <2> QED
    BY <2>1, <2>2, <2>3, <2>5, <1>b DEF Ledger, Exists, Fresh
<1>5. ASSUME NEW f \in Files, Collect(f) PROVE Ledger'
  <2>1. UNCHANGED <<grants, drawn, issued, admin>> /\ \A g \in Files : files'[g] = files[g] \/ files'[g] = NoToken
    BY <1>5 DEF Collect, TypeOK
  <2> QED
    BY <2>1 DEF Ledger, Exists, Fresh
<1>6. CASE Aside
  BY <1>6 DEF Aside, Ledger, Exists, Fresh
<1> QED
  BY <1>1, <1>2, <1>3, <1>4, <1>5, <1>6, OthersAside DEF Next

\* A credential that is written down stays in reach until its grant is there to
\* be used with it.
LEMMA StepHandoff == TypeOK /\ Ledger /\ Handoff /\ [Next]_vars => Handoff'
<1> SUFFICES ASSUME TypeOK, Ledger, Handoff, [Next]_vars PROVE Handoff'
  OBVIOUS
<1>a. NoToken \notin Tokens /\ NoFile \notin Files
  BY McpAssumption
<1>b. Resting.at = "idle" /\ Resting.token = NoToken
  BY DEF Resting
<1>1. ASSUME NEW c \in Callers, revoke(c) PROVE Handoff'
  <2>1. \A d \in Callers : grants'[d].token = grants[d].token
    BY <1>1 DEF revoke, TypeOK, Grant
  <2> QED
    BY <1>1, <2>1 DEF revoke, Handoff, Exists, InFile, admins
<1>2. ASSUME NEW a \in Admins, _write_once(a) PROVE Handoff'
  <2>1. PICK t \in Tokens, f \in Files \cup {NoFile} : Draws(a, t, f)
    BY <1>2, Drawing
  <2>2. PICK c \in Callers, cmd \in {"create", "rotate"}, o \in Offers :
          admin' = [admin EXCEPT ![a] = [at |-> "drawn", cmd |-> cmd, caller |-> c,
                                         token |-> t, offer |-> o]]
    BY <2>1 DEF Draws
  <2>3. /\ admin'[a].token = t
        /\ \A e \in Admins : e # a => admin'[e] = admin[e]
    BY <2>2 DEF TypeOK
  <2>4. UNCHANGED <<grants, held>>
    BY <1>2 DEF _write_once
  <2>5. drawn'[t] = "file" => InFile(t)'
    BY <2>1 DEF Draws, InFile, TypeOK
  <2>6. \A u \in Tokens : InFile(u) => InFile(u)'
    <3>1. /\ f # NoFile => files[f] = NoToken
          /\ files' = IF f = NoFile THEN files ELSE [files EXCEPT ![f] = t]
      BY <2>1 DEF Draws, Vacant
    <3>2. \A g \in Files : files[g] # NoToken => files'[g] = files[g]
      BY <3>1, <1>a DEF TypeOK
    <3> QED
      BY <3>2, <1>a DEF InFile
  <2>7. \A u \in Tokens : u # t => drawn'[u] = drawn[u]
    BY <2>1 DEF Draws, TypeOK
  <2>8. (\A e \in Admins : admin[e].at = "drawn" /\ drawn[admin[e].token] = "file" =>
           InFile(admin[e].token))'
    BY <2>3, <2>5, <2>6, <2>7 DEF Handoff, Ledger
  <2>9. \A d \in Callers : Exists(d) => grants[d].token \in Tokens /\ grants[d].token # t
    <3>1. Fresh(t) /\ issued \subseteq Tokens
      BY <2>1 DEF Draws, TypeOK
    <3> QED
      BY <3>1 DEF Ledger
  <2>10. (\A d \in Callers : Exists(d) /\ drawn[grants[d].token] = "file" =>
           grants[d].token \in held \/ InFile(grants[d].token))'
    BY <2>4, <2>6, <2>7, <2>9 DEF Handoff, Exists
  <2> QED
    BY <2>8, <2>10 DEF Handoff
<1>3. ASSUME NEW a \in Admins, _provision(a) PROVE Handoff'
  <2>1. /\ UNCHANGED <<files, drawn, held>> /\ admin[a].at = "drawn"
    BY <1>3 DEF _provision
  <2>2. /\ admin[a].caller \in Callers /\ grants'[admin[a].caller].token = admin[a].token
        /\ \A d \in Callers : d # admin[a].caller => grants'[d] = grants[d]
        /\ admin'[a].at = "done" /\ \A e \in Admins : e # a => admin'[e] = admin[e]
    BY <1>3, Committing
  <2>3. (\A e \in Admins : admin[e].at = "drawn" /\ drawn[admin[e].token] = "file" =>
           InFile(admin[e].token))'
    BY <2>1, <2>2 DEF Handoff, InFile
  <2>4. (\A d \in Callers : Exists(d) /\ drawn[grants[d].token] = "file" =>
           grants[d].token \in held \/ InFile(grants[d].token))'
    BY <2>1, <2>2 DEF Handoff, InFile, Exists
  <2> QED
    BY <2>3, <2>4 DEF Handoff
<1>4. ASSUME NEW a \in Admins, ProvisionFails(a) PROVE Handoff'
  <2> DEFINE t == admin[a].token
  <2>1. /\ admin' = [admin EXCEPT ![a] = Resting] /\ UNCHANGED <<grants, drawn, held>>
        /\ admin[a].at = "drawn"
        /\ files' = [f \in Files |-> IF files[f] = t THEN NoToken ELSE files[f]]
    BY <1>4 DEF ProvisionFails
  <2>2. \A u : u # t /\ InFile(u) => InFile(u)'
    BY <2>1 DEF InFile
  <2>3. admin'[a] = Resting /\ \A e \in Admins : e # a => admin'[e] = admin[e] /\ admin[e].token # t
    BY <2>1 DEF TypeOK, Ledger
  <2>4. \A d \in Callers : Exists(d) => grants[d].token # t
    BY <2>1 DEF Ledger
  <2>5. (\A e \in Admins : admin[e].at = "drawn" /\ drawn[admin[e].token] = "file" =>
           InFile(admin[e].token))'
    BY <2>1, <2>2, <2>3, <1>b DEF Handoff
  <2>6. (\A d \in Callers : Exists(d) /\ drawn[grants[d].token] = "file" =>
           grants[d].token \in held \/ InFile(grants[d].token))'
    BY <2>1, <2>2, <2>4 DEF Handoff, Exists
  <2> QED
    BY <2>5, <2>6 DEF Handoff
<1>5. ASSUME NEW a \in Admins, Deliver(a) \/ AdminDies(a) PROVE Handoff'
  <2>1. /\ admin' = [admin EXCEPT ![a] = Resting] /\ UNCHANGED <<grants, drawn, files>>
        /\ held \subseteq held'
    BY <1>5 DEF Deliver, AdminDies
  <2>2. admin'[a] = Resting /\ \A e \in Admins : e # a => admin'[e] = admin[e]
    BY <2>1 DEF TypeOK
  <2> QED
    BY <2>1, <2>2, <1>b DEF Handoff, Exists, InFile
<1>6. ASSUME NEW f \in Files, Collect(f) PROVE Handoff'
  <2>1. /\ UNCHANGED <<grants, drawn, admin>> /\ held' = held \cup {files[f]}
        /\ \A g \in Files : g # f => files'[g] = files[g]
        /\ \A a \in Admins : admin[a].at = "drawn" => admin[a].token # files[f]
    BY <1>6 DEF Collect, TypeOK
  <2>2. \A u : InFile(u) => u = files[f] \/ InFile(u)'
    BY <2>1 DEF InFile
  <2> QED
    BY <2>1, <2>2 DEF Handoff, Exists
<1>7. CASE Aside
  BY <1>7 DEF Aside, Handoff, Exists, InFile
<1> QED
  BY <1>1, <1>2, <1>3, <1>4, <1>5, <1>6, <1>7, OthersAside DEF Next
-----------------------------------------------------------------------------
(* A request and the requests beside it *)

Handles(b) == \/ Ask(b) \/ Authenticate(b) \/ authorize(b) \/ Handle(b) \/ Audit(b)
              \/ Answer(b) \/ Rest(b)

\* A request changes its own call and walk, and nothing of the grants.
LEMMA OwnRequest ==
  ASSUME TypeOK, NEW b \in Bots, Handles(b)
  PROVE  /\ \A e \in Bots : e # b => call'[e] = call[e] /\ walk'[e] = walk[e]
         /\ UNCHANGED <<grants, issued, archive, clock>>
<1>1. CASE Handle(b)
  <2>1. \A e \in Bots : e # b => call'[e] = call[e]
    BY <1>1 DEF Handle, Refuse, TypeOK
  <2>2. \A e \in Bots : e # b => walk'[e] = walk[e]
    BY <1>1 DEF Handle, Refuse, TypeOK
  <2> QED
    BY <1>1, <2>1, <2>2 DEF Handle, admins
<1>2. CASE Ask(b)
  <2>1. \A e \in Bots : e # b => call'[e] = call[e]
    BY <1>2 DEF Ask, TypeOK
  <2> QED
    BY <1>2, <2>1 DEF Ask, admins
<1>3. CASE Authenticate(b) \/ authorize(b)
  <2>1. \A e \in Bots : e # b => call'[e] = call[e]
    BY <1>3 DEF Authenticate, authorize, Refuse, TypeOK
  <2> QED
    BY <1>3, <2>1 DEF Authenticate, authorize, admins
<1>4. CASE Audit(b) \/ Answer(b) \/ Rest(b)
  <2>1. \A e \in Bots : e # b => call'[e] = call[e]
    BY <1>4 DEF Audit, Unaudited, Answer, Rest, Refuse, TypeOK
  <2>2. \A e \in Bots : e # b => walk'[e] = walk[e]
    BY <1>4 DEF Audit, Answer, Walked, Rest, TypeOK
  <2> QED
    BY <1>4, <2>1, <2>2 DEF Audit, Answer, Rest, admins
<1> QED
  BY <1>1, <1>2, <1>3, <1>4 DEF Handles

\* The commands, the archive and the clock leave the calls alone.
LEMMA CallsAside ==
  ASSUME [Next]_vars
  PROVE  (\E b \in Bots : Handles(b)) \/ UNCHANGED <<owed, call>>
<1>1. ASSUME NEW a \in Admins, _write_once(a) \/ _provision(a) \/ ProvisionFails(a)
                                 \/ Deliver(a) \/ AdminDies(a)
      PROVE  UNCHANGED <<owed, call>>
  BY <1>1 DEF _write_once, _provision, ProvisionFails, Deliver, AdminDies, bots
<1>2. ASSUME NEW c \in Callers, revoke(c) PROVE UNCHANGED <<owed, call>>
  BY <1>2 DEF revoke, bots
<1>3. ASSUME NEW f \in Files, Collect(f) PROVE UNCHANGED <<owed, call>>
  BY <1>3 DEF Collect, bots
<1>4. ASSUME Move \/ Tick \/ UNCHANGED vars PROVE UNCHANGED <<owed, call>>
  BY <1>4 DEF Move, Tick, vars, bots
<1> QED
  BY <1>1, <1>2, <1>3, <1>4 DEF Next, Handles

-----------------------------------------------------------------------------
(* Answers and their audit rows *)

\* A request that is audited neither before nor after its step owes nothing.
LEMMA SameAudited ==
  ASSUME NEW b \in Bots, \A e \in Bots : e # b => call'[e] = call[e],
         call[b].at # "audited", call'[b].at # "audited"
  PROVE  \A c \in Callers : Audited(c)' = Audited(c)
BY DEF Audited

LEMMA AuditedFinite == \A c \in Callers : IsFiniteSet(Audited(c)) /\ Cardinality(Audited(c)) \in Nat
BY McpAssumption, FS_Subset, FS_CardinalityType DEF Audited

LEMMA InitOwing == Init => Owing
<1> SUFFICES ASSUME Init PROVE Owing
  OBVIOUS
<1>1. \A c \in Callers : Audited(c) = {} /\ owed[c] = 0
  BY DEF Init, Audited, NoCall
<1> QED
  BY <1>1, FS_EmptySet DEF Owing

LEMMA StepOwing == TypeOK /\ Owing /\ [Next]_vars => Owing'
<1> SUFFICES ASSUME TypeOK, Owing, [Next]_vars PROVE Owing'
  OBVIOUS
<1>1. CASE UNCHANGED <<owed, call>>
  <2>1. \A c \in Callers : Audited(c)' = Audited(c)
    BY <1>1 DEF Audited
  <2> QED
    BY <1>1, <2>1 DEF Owing
<1>2. ASSUME NEW b \in Bots, Handles(b) PROVE Owing'
  <2>1. \A e \in Bots : e # b => call'[e] = call[e]
    BY <1>2, OwnRequest
  <2>2. PICK o \in Callers : o = call[b].caller /\ owed \in [Callers -> Int]
    BY DEF TypeOK, Request
  <2>3. ASSUME UNCHANGED owed, call[b].at # "audited", call'[b].at # "audited" PROVE Owing'
    BY <2>1, <2>3, SameAudited DEF Owing
  <2>a. NoCall.at = "idle" /\ call \in [Bots -> Request]
    BY DEF NoCall, TypeOK
  <2>4. CASE Ask(b)
    <3>1. UNCHANGED owed /\ call[b].at = "idle" /\ call'[b].at = "asked"
      <4>1. UNCHANGED owed /\ call[b].at = "idle"
        BY <2>4 DEF Ask
      <4>2. \E t \in held, tool \in Tools, n \in Numbers \cup {0}, k \in 1 .. MaxLimit :
              call' = [call EXCEPT ![b] = [NoCall EXCEPT !.at = "asked", !.token = t,
                                             !.tool = tool, !.number = n, !.limit = k, !.dead = Dead(t)]]
        BY <2>4, AskIs, Zenon
      <4> QED
        BY <4>1, <4>2, <2>a DEF NoCall
    <3> QED
      BY <3>1, <2>3
  <2>5. CASE Authenticate(b) \/ authorize(b)
    <3>1. UNCHANGED owed /\ call[b].at # "audited" /\ call'[b].at # "audited"
      BY <2>5, <2>a DEF Authenticate, authorize, Refuse, Request
    <3> QED
      BY <3>1, <2>3
  <2>6. CASE Handle(b)
    <3>1. UNCHANGED owed /\ call[b].at # "audited" /\ call'[b].at # "audited"
      BY <2>6, <2>a DEF Handle, Refuse, Request
    <3> QED
      BY <3>1, <2>3
  <2>7. CASE Rest(b)
    <3>1. UNCHANGED owed /\ call[b].at # "audited" /\ call'[b].at # "audited"
      BY <2>7, <2>a DEF Rest
    <3> QED
      BY <3>1, <2>3
  <2>8. CASE Audit(b)
    <3>1. CASE call' = [call EXCEPT ![b] = NoCall] /\ UNCHANGED owed
      <4>1. call[b].at # "audited" /\ call'[b].at # "audited"
        BY <3>1, <2>8, <2>a DEF Audit
      <4> QED
        BY <4>1, <3>1, <2>3
    <3>2. CASE call' = [call EXCEPT ![b].at = "audited"]
                 /\ owed' = [owed EXCEPT ![o] = @ - 1]
      <4>1. /\ b \notin Audited(o)
            /\ Audited(o)' = Audited(o) \cup {b}
            /\ \A c \in Callers : c # o => Audited(c)' = Audited(c)
        <5>1. call[b].at = "answer"
          BY <2>8 DEF Audit
        <5>2. call'[b].at = "audited" /\ call'[b].caller = o
          BY <3>2, <2>2, <2>a DEF Request
        <5> QED
          BY <5>1, <5>2, <2>1, <2>2 DEF Audited
      <4>2. Cardinality(Audited(o)') = Cardinality(Audited(o)) + 1
        BY <4>1, <2>2, AuditedFinite, FS_AddElement
      <4>3. owed'[o] = owed[o] - 1
              /\ \A c \in Callers : c # o => owed'[c] = owed[c]
        BY <3>2, <2>2
      <4>4. owed'[o] = -Cardinality(Audited(o)')
        BY <4>2, <4>3, <2>2, AuditedFinite DEF Owing
      <4>5. ASSUME NEW c \in Callers, c # o PROVE owed'[c] = -Cardinality(Audited(c)')
        BY <4>1, <4>3, <4>5 DEF Owing
      <4> QED
        BY <4>4, <4>5 DEF Owing
    <3> QED
      BY <2>8, <2>2, <3>1, <3>2 DEF Audit, Unaudited, Refuse
  <2>9. CASE Answer(b)
    <3>1. /\ call' = [call EXCEPT ![b].at = "sent"] /\ call[b].at = "audited"
          /\ owed' = [owed EXCEPT ![o] = @ + 1]
      BY <2>9, <2>2 DEF Answer
    <3>2. /\ b \in Audited(o)
          /\ Audited(o)' = Audited(o) \ {b}
          /\ \A c \in Callers : c # o => Audited(c)' = Audited(c)
      <4>1. call'[b].at = "sent"
        BY <3>1, <2>a DEF Request
      <4> QED
        BY <3>1, <4>1, <2>1, <2>2 DEF Audited
    <3>3. Cardinality(Audited(o)') = Cardinality(Audited(o)) - 1
      <4>1. IsFiniteSet(Audited(o))
        BY <2>2, AuditedFinite
      <4>2. Cardinality(Audited(o) \ {b}) = Cardinality(Audited(o)) - 1
        BY <4>1, <3>2, FS_RemoveElement
      <4> QED
        BY <4>2, <3>2
    <3>4. owed'[o] = owed[o] + 1
            /\ \A c \in Callers : c # o => owed'[c] = owed[c]
      BY <3>1, <2>2
    <3>5. owed'[o] = -Cardinality(Audited(o)')
      BY <3>3, <3>4, <2>2, AuditedFinite DEF Owing
    <3>6. ASSUME NEW c \in Callers, c # o PROVE owed'[c] = -Cardinality(Audited(c)')
      BY <3>2, <3>4, <3>6 DEF Owing
    <3> QED
      BY <3>5, <3>6 DEF Owing
  <2> QED
    BY <1>2, <2>4, <2>5, <2>6, <2>7, <2>8, <2>9 DEF Handles
<1> QED
  BY <1>1, <1>2, CallsAside
-----------------------------------------------------------------------------
(* Dead requests *)

\* What is left of the grants by any step: enabled ones keep their terms, and a
\* credential comes to a grant only from a command that drew it.
LEMMA GrantsStep ==
  ASSUME TypeOK, Ledger, [Next]_vars, NEW c \in Callers
  PROVE  /\ Exists(c) => Exists(c)' /\ grants'[c].recordings = grants[c].recordings
         /\ \/ /\ grants'[c].token = grants[c].token /\ grants'[c].expires = grants[c].expires
               /\ grants[c].disabled => grants'[c].disabled
            \/ grants'[c].token \notin issued
         /\ issued \subseteq issued' /\ clock <= clock' /\ clock' \in Nat
<1>0. grants[c] \in Grant /\ clock \in Nat
  BY DEF TypeOK
<1>1. ASSUME NEW d \in Callers, revoke(d)
      PROVE  /\ grants'[c].token = grants[c].token /\ grants'[c].expires = grants[c].expires
             /\ grants'[c].recordings = grants[c].recordings
             /\ grants[c].disabled => grants'[c].disabled
             /\ UNCHANGED <<issued, clock>>
  <2>1. grants' = [grants EXCEPT ![d].disabled = TRUE] /\ UNCHANGED <<issued, clock>>
    BY <1>1 DEF revoke, admins
  <2> QED
    BY <2>1, <1>0 DEF TypeOK, Grant
<1>2. ASSUME NEW a \in Admins, _provision(a)
      PROVE  /\ c # admin[a].caller => grants'[c] = grants[c]
             /\ c = admin[a].caller => /\ grants'[c].token = admin[a].token
                                       /\ grants'[c].token \notin issued /\ grants'[c].token # NoToken
                                       /\ Exists(c) => grants'[c].recordings = grants[c].recordings
             /\ issued \subseteq issued' /\ UNCHANGED clock
  <2>1. admin[a].token \notin issued /\ admin[a].token # NoToken
    BY <1>2, McpAssumption DEF _provision, Ledger
  <2>2. ASSUME c = admin[a].caller, Exists(c) PROVE grants'[c].recordings = grants[c].recordings
    <3>1. grants' = [grants EXCEPT ![c] = Rotated(a)]
      BY <1>2, <2>2 DEF _provision, create, rotate
    <3>2. Rotated(a).recordings = grants[c].recordings
      BY <2>2, <1>0 DEF Rotated, Grant
    <3> QED
      BY <3>1, <3>2 DEF TypeOK
  <2>3. issued \subseteq issued' /\ UNCHANGED clock
    BY <1>2 DEF _provision
  <2> QED
    BY <1>2, <2>1, <2>2, <2>3, Committing
<1>3. ASSUME UNCHANGED <<grants, issued>>, clock' = clock \/ clock' = clock + 1
      PROVE  /\ UNCHANGED <<grants, issued>> /\ clock <= clock' /\ clock' \in Nat
  BY <1>3, <1>0
<1>4. ASSUME NEW a \in Admins, _write_once(a) \/ ProvisionFails(a) \/ Deliver(a) \/ AdminDies(a)
      PROVE  UNCHANGED <<grants, issued, clock>>
  BY <1>4 DEF _write_once, ProvisionFails, Deliver, AdminDies
<1>5. ASSUME NEW f \in Files, Collect(f) PROVE UNCHANGED <<grants, issued, clock>>
  BY <1>5 DEF Collect
<1>6. ASSUME NEW b \in Bots, Handles(b) PROVE UNCHANGED <<grants, issued, clock>>
  BY <1>6, OwnRequest
<1>7. ASSUME Move \/ Tick \/ UNCHANGED vars
      PROVE  UNCHANGED <<grants, issued>> /\ (clock' = clock \/ clock' = clock + 1)
  BY <1>7 DEF Move, Tick, vars, admins
<1>8. ASSUME UNCHANGED <<grants, issued>>, clock <= clock', clock' \in Nat
      PROVE  /\ Exists(c) => Exists(c)' /\ grants'[c].recordings = grants[c].recordings
             /\ \/ /\ grants'[c].token = grants[c].token /\ grants'[c].expires = grants[c].expires
                   /\ grants[c].disabled => grants'[c].disabled
                \/ grants'[c].token \notin issued
             /\ issued \subseteq issued' /\ clock <= clock' /\ clock' \in Nat
  BY <1>8 DEF Exists
<1>9. CASE \E d \in Callers : revoke(d)
  BY <1>9, <1>1, <1>0 DEF Exists
<1>10. CASE \E a \in Admins : _provision(a)
  BY <1>10, <1>2, <1>0 DEF Exists
<1> QED
  BY <1>3, <1>4, <1>5, <1>6, <1>7, <1>8, <1>9, <1>10, <1>0 DEF Next, Handles

\* A credential that opens no grant opens none ever after.
LEMMA StaysDead ==
  ASSUME TypeOK, Ledger, [Next]_vars, NEW t, Dead(t)
  PROVE  Dead(t)'
<1>1. t \in issued /\ t \in issued' /\ clock <= clock' /\ clock \in Nat /\ clock' \in Nat
  <2>1. PICK c \in Callers : TRUE
    BY McpAssumption
  <2> QED
    BY <2>1, GrantsStep DEF Dead, TypeOK
<1>2. ASSUME NEW c \in Callers, grants'[c].token = t, ~grants'[c].disabled,
             ~(grants'[c].expires # 0 /\ grants'[c].expires <= clock')
      PROVE  FALSE
  <2>1. /\ grants[c].token = t /\ grants'[c].expires = grants[c].expires
        /\ grants[c].disabled => grants'[c].disabled
    BY <1>1, <1>2, GrantsStep
  <2>2. grants[c].expires \in Nat
    BY DEF TypeOK, Grant
  <2>3. ~Expired(grants[c])
    BY <1>1, <1>2, <2>1, <2>2 DEF Expired
  <2> QED
    BY <2>1, <2>3, <1>2 DEF Dead, Live
<1> QED
  BY <1>1, <1>2 DEF Dead, Live, Expired

LEMMA InitDead == Init => DeadStopped
BY DEF Init, DeadStopped, NoCall

LEMMA StepDead == TypeOK /\ Ledger /\ DeadStopped /\ [Next]_vars => DeadStopped'
<1> SUFFICES ASSUME TypeOK, Ledger, DeadStopped, [Next]_vars PROVE DeadStopped'
  OBVIOUS
<1>1. CASE UNCHANGED <<owed, call>>
  BY <1>1, StaysDead DEF DeadStopped
<1>2. ASSUME NEW b \in Bots, Handles(b) PROVE DeadStopped'
  <2>1. \A e \in Bots : e # b => call'[e] = call[e]
    BY <1>2, OwnRequest
  <2>2. call \in [Bots -> Request] /\ NoCall.dead = FALSE
    BY DEF TypeOK, NoCall
  <2>3. ASSUME ~call'[b].dead PROVE DeadStopped'
    BY <2>1, <2>3, StaysDead DEF DeadStopped
  <2>4. CASE Ask(b)
    <3>1. PICK t \in held, tool \in Tools, n \in Numbers \cup {0}, k \in 1 .. MaxLimit :
            call' = [call EXCEPT ![b] = [NoCall EXCEPT !.at = "asked", !.token = t, !.tool = tool,
                                        !.number = n, !.limit = k, !.dead = Dead(t)]]
      BY <2>4, AskIs, Zenon
    <3>2. call'[b].at = "asked" /\ call'[b].token = t /\ call'[b].dead = Dead(t)
      BY <3>1, <2>2 DEF NoCall
    <3>3. Dead(t) => Dead(t)'
      BY StaysDead
    <3> QED
      BY <2>1, <3>2, <3>3, StaysDead DEF DeadStopped
  <2>5. CASE Authenticate(b)
    <3>1. Accepts(call[b].token) # {} => ~call[b].dead
      BY DEF DeadStopped, Dead, Live, Accepts
    <3>2. ~call'[b].dead
      BY <3>1, <2>5, <2>2 DEF Authenticate, Refuse, Request
    <3> QED
      BY <3>2, <2>3
  <2>6. CASE authorize(b) \/ Audit(b) \/ Answer(b) \/ Rest(b)
    <3>1. ~call[b].dead
      BY <2>6 DEF authorize, Audit, Answer, Rest, DeadStopped
    <3>2. ~call'[b].dead
      BY <3>1, <2>6, <2>2 DEF authorize, Audit, Unaudited, Answer, Rest, Refuse, Request
    <3> QED
      BY <3>2, <2>3
  <2>7. CASE Handle(b)
    <3>1. ~call[b].dead
      BY <2>7 DEF Handle, DeadStopped
    <3>2. ~call'[b].dead
      BY <3>1, <2>7, <2>2 DEF Handle, Refuse, Request
    <3> QED
      BY <3>2, <2>3
  <2> QED
    BY <1>2, <2>4, <2>5, <2>6, <2>7 DEF Handles
<1> QED
  BY <1>1, <1>2, CallsAside
-----------------------------------------------------------------------------
(* Walks *)

\* The listing of a caller who has a grant only grows while nothing is deleted.
LEMMA ListingGrows ==
  ASSUME TypeOK, Ledger, [Next]_vars, NEW c \in Callers, Exists(c), archive \subseteq archive'
  PROVE  Exists(c)' /\ Listing(c) \subseteq Listing(c)'
<1>1. Exists(c)' /\ grants'[c].recordings = grants[c].recordings
  BY GrantsStep
<1> QED
  BY <1>1 DEF Listing, Allowed

LEMMA ListingFinite ==
  ASSUME TypeOK, NEW c
  PROVE  Listing(c) \in SUBSET Nat /\ IsFiniteSet(Listing(c))
<1>1. Listing(c) \in SUBSET Numbers
  BY DEF Listing, TypeOK
<1> QED
  BY <1>1, McpAssumption, FS_Subset

\* So a recording that is ahead of a walk stays ahead of it.
LEMMA StaysAhead ==
  ASSUME TypeOK, TypeOK', Ledger, [Next]_vars, NEW b \in Bots, walk'[b] = walk[b],
         Exists(walk[b].caller), archive \subseteq archive',
         NEW n, NEW offset \in Nat, Ahead(b, n, offset)
  PROVE  Ahead(b, n, offset)'
<1> DEFINE S == Listing(walk[b].caller)
<1>1. walk[b].caller \in Callers
  BY DEF TypeOK, Walk
<1>2. S \subseteq S'
  <2>1. PICK c \in Callers : c = walk[b].caller
    BY <1>1
  <2>2. Exists(c)' /\ Listing(c) \subseteq Listing(c)'
    BY <2>1, ListingGrows
  <2>3. S = Listing(c) /\ S' = Listing(c)'
    BY <2>1 DEF Listing
  <2> QED
    BY <2>2, <2>3
<1>3. IsFiniteSet(S) /\ IsFiniteSet(S')
  BY McpAssumption, FS_Subset DEF Listing, TypeOK
<1>4. Place(n, S) <= Place(n, S') /\ Place(n, S) \in Nat /\ Place(n, S') \in Nat
  BY <1>2, <1>3, PlaceGrows, PlaceType
<1>5. n \in S /\ Place(n, S) >= offset
  BY DEF Ahead
<1> HIDE DEF S
<1>6. n \in S' /\ Place(n, S') >= offset
  BY <1>2, <1>4, <1>5
<1> QED
  BY <1>6 DEF Ahead, S

\* The page a caller is shown, and whether it says there is another.
LEMMA Paging ==
  ASSUME TypeOK, NEW c, NEW offset \in Nat, NEW limit \in Nat \ {0}, NEW n \in Listing(c),
         Place(n, Listing(c)) >= offset, n \notin Shown(c, offset, limit)
  PROVE  HasMore(c, offset, limit) /\ Place(n, Listing(c)) >= offset + limit
<1> DEFINE S == Listing(c)
<1>1. S \in SUBSET Nat /\ IsFiniteSet(S)
  BY ListingFinite
<1>2. Place(n, S) \in Nat
  BY <1>1, PlaceType
<1>3. Place(n, S) >= offset + limit
  BY <1>1, <1>2 DEF Shown, Page, Rows
<1>4. PICK m \in S : Place(m, S) = offset + limit
  BY <1>1, <1>3, Filled
<1>5. m \in Page(c, offset, limit) /\ m \notin Shown(c, offset, limit)
  BY <1>1, <1>4 DEF Page, Rows, Shown
<1> QED
  BY <1>3, <1>5 DEF HasMore

LEMMA InitWalking == Init => Walking
<1> SUFFICES ASSUME Init, NEW b \in Bots PROVE WalkOf(b)
  BY DEF Walking
<1>1. call[b] = NoCall /\ walk[b] = NoWalk
  BY DEF Init
<1>2. call[b].at = "idle" /\ walk[b].due = {}
  BY <1>1 DEF NoCall, NoWalk
<1> QED BY <1>2 DEF WalkOf
\* Nothing of request b changes.
LEMMA SameWalk ==
  ASSUME TypeOK, TypeOK', Ledger, [Next]_vars, NEW b \in Bots, WalkOf(b),
         call'[b] = call[b], walk'[b] = walk[b], archive \subseteq archive'
  PROVE  WalkOf(b)'
<1>1. walk[b].caller \in Callers /\ call[b].caller \in Callers
        /\ walk[b].offset \in Nat /\ walk[b].offset + call[b].limit \in Nat
  BY McpAssumption DEF TypeOK, Walk, Request
<1>2. ASSUME NEW c \in Callers, Exists(c) PROVE Exists(c)'
  BY <1>2, GrantsStep
<1>3. /\ Exists(walk[b].caller) => Exists(walk[b].caller)'
      /\ Exists(call[b].caller) => Exists(call[b].caller)'
  <2>1. PICK c \in Callers, d \in Callers : c = walk[b].caller /\ d = call[b].caller
    BY <1>1
  <2>2. (Exists(c) => Exists(c)') /\ (Exists(d) => Exists(d)')
    BY <1>2
  <2> QED
    BY <2>1, <2>2 DEF Exists
<1>4. Turning(b)' = Turning(b) /\ Last(b)' = Last(b)
  BY DEF Turning, Last
<1>5. ASSUME NEW n \in walk[b].due \ walk[b].seen
      PROVE  /\ Ahead(b, n, walk[b].offset)'
             /\ Ahead(b, n, walk[b].offset + call[b].limit) =>
                  Ahead(b, n, walk[b].offset + call[b].limit)'
  <2>1. PICK o \in Nat, p \in Nat : o = walk[b].offset /\ p = walk[b].offset + call[b].limit
    BY <1>1
  <2>2. Exists(walk[b].caller) /\ Ahead(b, n, o)
    BY <2>1 DEF WalkOf
  <2>3. Ahead(b, n, o)' /\ (Ahead(b, n, p) => Ahead(b, n, p)')
    BY <2>2, StaysAhead
  <2>4. /\ Ahead(b, n, o)' <=> Ahead(b, n, walk[b].offset)'
        /\ Ahead(b, n, p)' <=> Ahead(b, n, walk[b].offset + call[b].limit)'
    BY <2>1 DEF Ahead
  <2> QED
    BY <2>1, <2>3, <2>4
<1> QED
  BY <1>3, <1>4, <1>5 DEF WalkOf

\* The steps of request b itself.
LEMMA OwnWalk ==
  ASSUME TypeOK, Ledger, NEW b \in Bots, WalkOf(b), Handles(b)
  PROVE  WalkOf(b)'
<1>0. UNCHANGED <<grants, archive>> /\ call \in [Bots -> Request] /\ walk \in [Bots -> Walk]
  BY OwnRequest DEF TypeOK
<1>a. /\ call[b] \in Request /\ walk[b] \in Walk
      /\ walk[b].caller \in Callers /\ walk[b].offset \in Nat /\ call[b].limit \in Nat \ {0}
  BY <1>0, McpAssumption DEF Walk, Request
<1>b. NoCall.at = "idle" /\ NoWalk.due = {}
  BY DEF NoCall, NoWalk
<1>c. \A c : Listing(c)' = Listing(c) /\ (Exists(c)' <=> Exists(c))
  BY <1>0 DEF Listing, Exists
<1>d. \A n : walk'[b] = walk[b] =>
        /\ Ahead(b, n, walk[b].offset)' <=> Ahead(b, n, walk[b].offset)
        /\ Exists(walk[b].caller)' <=> Exists(walk[b].caller)
  BY <1>0, <1>c DEF Ahead, Exists
\* The request neither carries a page after its step nor has sent the last one.
<1>1. ASSUME walk'[b] = walk[b], ~Turning(b)', ~Last(b)',
             call'[b].at # "idle" => call'[b].token \in Tokens,
             call'[b].at = "authorized" => Exists(call'[b].caller)
      PROVE  WalkOf(b)'
  BY <1>1, <1>c, <1>d DEF WalkOf
<1>2. ASSUME call'[b] = NoCall, walk'[b] = walk[b] \/ walk'[b].due = {} PROVE WalkOf(b)'
  <2>1. ~Turning(b)' /\ ~Last(b)'
    BY <1>2, <1>b DEF Turning, Last
  <2>2. CASE walk'[b] = walk[b]
    BY <1>1, <1>2, <1>b, <2>1, <2>2
  <2>3. CASE walk'[b].due = {}
    BY <1>2, <1>b, <2>3 DEF WalkOf
  <2> QED
    BY <1>2, <2>2, <2>3
<1>3. CASE Ask(b)
  <2>1. PICK t \in held, tool \in Tools, n \in Numbers \cup {0}, k \in 1 .. MaxLimit :
          call' = [call EXCEPT ![b] = [NoCall EXCEPT !.at = "asked", !.token = t, !.tool = tool,
                                      !.number = n, !.limit = k, !.dead = Dead(t)]]
    BY <1>3, AskIs, Zenon
  <2>2. UNCHANGED walk /\ t \in Tokens
    BY <1>3 DEF Ask, TypeOK
  <2>3. call'[b].at = "asked" /\ call'[b].token = t
    BY <2>1, <1>0 DEF NoCall
  <2> QED
    BY <1>1, <2>2, <2>3 DEF Turning, Last
<1>4. CASE Authenticate(b)
  <2>1. call[b].at \in {"asked", "read"} /\ UNCHANGED walk
    BY <1>4 DEF Authenticate
  <2>2. CASE Refuse(b)
    BY <2>1, <2>2, <1>0, <1>2 DEF Refuse
  <2>3. CASE call' = [call EXCEPT ![b].at = IF @ = "asked" THEN "read" ELSE "dispatched"]
    <3>1. call'[b].at \in {"read", "dispatched"} /\ call'[b].token = call[b].token
      BY <2>3, <1>0, <1>a DEF Request
    <3>2. call[b].token \in Tokens
      BY <2>1 DEF WalkOf
    <3> QED
      BY <2>1, <3>1, <3>2, <1>1 DEF Turning, Last
  <2> QED
    BY <1>4, <2>2, <2>3 DEF Authenticate
<1>5. CASE authorize(b)
  <2>1. call[b].at = "dispatched" /\ UNCHANGED walk
    BY <1>5 DEF authorize
  <2>2. CASE Refuse(b)
    BY <2>1, <2>2, <1>0, <1>2 DEF Refuse
  <2>3. ASSUME NEW c \in Callers, Authorizes(c, call[b].token, call[b].tool, call[b].number),
               call' = [call EXCEPT ![b].at = "authorized", ![b].caller = c]
        PROVE  WalkOf(b)'
    <3>1. /\ call'[b].at = "authorized" /\ call'[b].token = call[b].token
          /\ call'[b].caller = c
      BY <2>3, <1>0, <1>a DEF Request
    <3>2. call[b].token \in Tokens
      BY <2>1 DEF WalkOf
    <3>3. Exists(c)
      BY <2>3, <3>2, McpAssumption DEF Authorizes, Accepts, Exists
    <3> QED
      BY <2>1, <3>1, <3>2, <3>3, <1>1 DEF Turning, Last
  <2> QED
    BY <1>5, <2>2, <2>3 DEF authorize
<1>6. CASE Handle(b)
  <2> DEFINE c == call[b].caller
             offset == walk[b].offset
             limit == call[b].limit
  <2>0. call[b].at = "authorized" /\ call[b].token \in Tokens /\ Exists(c)
    BY <1>6 DEF Handle, WalkOf
  <2>1. CASE Refuse(b) /\ UNCHANGED walk
    BY <2>1, <1>0, <1>2 DEF Refuse
  <2>2. CASE Refuse(b) /\ walk' = [walk EXCEPT ![b] = NoWalk]
    BY <2>2, <1>2, <1>0, <1>b DEF Refuse
  <2>3. CASE call[b].tool # "recordings_list" /\ UNCHANGED walk
               /\ call' = [call EXCEPT ![b].at = "answer", ![b].page = {call[b].number}]
    <3>1. /\ call'[b].tool = call[b].tool /\ call'[b].token = call[b].token
          /\ call'[b].at = "answer"
      BY <2>3, <1>0, <1>a DEF Request
    <3> QED
      BY <1>1, <2>0, <2>3, <3>1 DEF Turning, Last
  <2>4. CASE /\ call[b].tool = "recordings_list"
             /\ call' = [call EXCEPT ![b].at = "answer", ![b].page = Shown(c, offset, limit),
                                     ![b].more = HasMore(c, offset, limit)]
             /\ walk' = [walk EXCEPT ![b].caller = c, ![b].due = Due(b, c)]
    <3>1. /\ call'[b].at = "answer" /\ call'[b].token = call[b].token
          /\ call'[b].page = Shown(c, offset, limit) /\ call'[b].more = HasMore(c, offset, limit)
          /\ call'[b].limit = limit
      BY <2>4, <1>0, <1>a DEF Request
    <3>2. /\ walk'[b].caller = c /\ walk'[b].due = Due(b, c)
          /\ walk'[b].offset = offset /\ walk'[b].seen = walk[b].seen
      BY <2>4, <1>0, <1>a DEF Walk
    <3>3. ~Last(b)'
      BY <3>1 DEF Last
    <3>4. ASSUME NEW n \in Due(b, c) \ walk[b].seen
          PROVE  n \in Listing(c) /\ Place(n, Listing(c)) >= offset
      <4>1. CASE offset = 0
        <5>1. n \in Listing(c)
          BY <4>1 DEF Due
        <5>2. Place(n, Listing(c)) \in Nat
          BY ListingFinite, PlaceType
        <5> QED
          BY <4>1, <5>1, <5>2
      <4>2. CASE offset # 0
        <5>1. walk[b].caller = c /\ n \in walk[b].due \ walk[b].seen
          BY <4>2 DEF Due
        <5>2. Ahead(b, n, offset)
          BY <5>1 DEF WalkOf
        <5> QED
          BY <5>1, <5>2 DEF Ahead
      <4> QED
        BY <4>1, <4>2
    <3>5. ASSUME NEW n \in Due(b, c) \ walk[b].seen, n \notin Shown(c, offset, limit)
          PROVE  HasMore(c, offset, limit) /\ Place(n, Listing(c)) >= offset + call[b].limit
      BY <3>4, <3>5, <1>a, Paging
    <3>6. ASSUME NEW n PROVE
            /\ n \in Listing(c) /\ Place(n, Listing(c)) >= offset => Ahead(b, n, walk[b].offset)'
            /\ n \in Listing(c) /\ Place(n, Listing(c)) >= offset + call[b].limit
                 => Ahead(b, n, walk[b].offset + call[b].limit)'
      BY <3>1, <3>2, <1>c DEF Ahead
    <3>7. ASSUME NEW n \in Due(b, c) \ walk[b].seen
          PROVE  /\ Ahead(b, n, walk[b].offset)'
                 /\ \/ n \in Shown(c, offset, limit)
                    \/ HasMore(c, offset, limit) /\ Ahead(b, n, walk[b].offset + call[b].limit)'
      <4>1. n \in Listing(c) /\ Place(n, Listing(c)) >= offset
        BY <3>4
      <4>2. Ahead(b, n, walk[b].offset)'
        BY <4>1, <3>6
      <4>3. CASE n \notin Shown(c, offset, limit)
        <5>1. HasMore(c, offset, limit) /\ Place(n, Listing(c)) >= offset + call[b].limit
          BY <4>3, <3>5
        <5>2. Ahead(b, n, walk[b].offset + call[b].limit)'
          BY <4>1, <5>1, <3>6
        <5> QED
          BY <4>2, <5>1, <5>2
      <4> QED
        BY <4>2, <4>3
    <3>8. Exists(walk[b].caller)'
      BY <3>2, <2>0, <1>0 DEF Exists
    <3> QED
      BY <3>1, <3>2, <3>3, <3>7, <3>8, <2>0 DEF WalkOf
  <2> QED
    BY <1>6, <2>1, <2>2, <2>3, <2>4, Zenon DEF Handle
<1>7. CASE Audit(b)
  <2>1. call[b].at = "answer" /\ UNCHANGED walk
    BY <1>7 DEF Audit
  <2>2. CASE call' = [call EXCEPT ![b] = NoCall]
    BY <2>1, <2>2, <1>0, <1>2
  <2>3. CASE call' = [call EXCEPT ![b].at = "audited"]
    <3>1. /\ call'[b].at = "audited" /\ call'[b].token = call[b].token
          /\ call'[b].tool = call[b].tool /\ call'[b].page = call[b].page
          /\ call'[b].more = call[b].more /\ call'[b].limit = call[b].limit
      BY <2>3, <1>0, <1>a DEF Request
    <3>2. (Turning(b)' <=> Turning(b)) /\ ~Last(b)'
      BY <2>1, <3>1 DEF Turning, Last
    <3>3. \A n : Ahead(b, n, walk[b].offset + call[b].limit)' <=> Ahead(b, n, walk[b].offset + call[b].limit)
      BY <2>1, <3>1, <1>c DEF Ahead
    <3> QED
      BY <2>1, <3>1, <3>2, <3>3, <1>c, <1>d DEF WalkOf
  <2> QED
    BY <1>7, <2>2, <2>3 DEF Audit, Unaudited, Refuse
<1>8. CASE Answer(b)
  <2>1. /\ call[b].at = "audited" /\ call' = [call EXCEPT ![b].at = "sent"]
        /\ walk' = IF call[b].tool = "recordings_list" THEN Walked(b) ELSE walk
    BY <1>8 DEF Answer
  <2>2. /\ call'[b].at = "sent" /\ call'[b].token = call[b].token
        /\ call'[b].tool = call[b].tool /\ call'[b].more = call[b].more
    BY <2>1, <1>0, <1>a DEF Request
  <2>3. ~Turning(b)' /\ call[b].token \in Tokens
    BY <2>1, <2>2 DEF Turning, WalkOf
  <2>4. CASE call[b].tool # "recordings_list"
    <3>1. ~Last(b)'
      BY <2>2, <2>4 DEF Last
    <3> QED
      BY <2>1, <2>2, <2>3, <2>4, <3>1, <1>1
  <2>5. CASE call[b].tool = "recordings_list"
    <3>1. Turning(b)
      BY <2>1, <2>5 DEF Turning
    <3>2. /\ walk'[b].caller = walk[b].caller /\ walk'[b].due = walk[b].due
          /\ walk'[b].seen = walk[b].seen \cup call[b].page
          /\ call[b].more => walk'[b].offset = walk[b].offset + call[b].limit
      BY <2>1, <2>5, <1>0, <1>a DEF Walked, Walk
    <3>3. Exists(walk[b].caller)' <=> Exists(walk[b].caller)
      BY <3>2, <1>0 DEF Exists
    <3>4. ASSUME NEW n \in walk'[b].due \ walk'[b].seen
          PROVE  ~Last(b)' /\ Ahead(b, n, walk[b].offset)'
      <4>1. call[b].more /\ Ahead(b, n, walk[b].offset + call[b].limit)
        BY <3>1, <3>2 DEF WalkOf
      <4>2. Ahead(b, n, walk[b].offset)'
        BY <4>1, <3>2, <1>c DEF Ahead
      <4> QED
        BY <4>1, <4>2, <2>2 DEF Last
    <3> QED
      BY <2>2, <2>3, <3>2, <3>3, <3>4 DEF WalkOf
  <2> QED
    BY <2>4, <2>5
<1>9. CASE Rest(b)
  <2>1. call'[b] = NoCall /\ (walk' = walk \/ walk' = [walk EXCEPT ![b] = NoWalk])
    BY <1>9, <1>0 DEF Rest
  <2> QED
    BY <2>1, <1>0, <1>b, <1>2
<1> QED
  BY <1>3, <1>4, <1>5, <1>6, <1>7, <1>8, <1>9 DEF Handles

LEMMA StepWalking == TypeOK /\ TypeOK' /\ Ledger /\ Walking /\ [Next]_vars => Walking'
<1> SUFFICES ASSUME TypeOK, TypeOK', Ledger, Walking, [Next]_vars, NEW b \in Bots
             PROVE  WalkOf(b)'
  BY DEF Walking
<1>0. WalkOf(b)
  BY DEF Walking
<1>1. CASE Handles(b)
  BY <1>0, <1>1, OwnWalk
<1>2. ASSUME NEW e \in Bots, e # b, Handles(e) PROVE WalkOf(b)'
  <2>1. call'[b] = call[b] /\ walk'[b] = walk[b] /\ archive' = archive
    BY <1>2, OwnRequest
  <2> QED
    BY <1>0, <2>1, SameWalk
<1>3. CASE UNCHANGED <<call, walk, archive>>
  BY <1>0, <1>3, SameWalk
<1>4. CASE Move
  <2>1. UNCHANGED <<call, grants>>
    BY <1>4 DEF Move
  <2>2. CASE UNCHANGED walk /\ archive \subseteq archive'
    BY <1>0, <2>1, <2>2, SameWalk
  <2>3. CASE walk' = [e \in Bots |-> [walk[e] EXCEPT !.due = {}]]
    <3>1. walk'[b].due = {}
      BY <2>3 DEF TypeOK, Walk
    <3> QED
      BY <1>0, <2>1, <3>1 DEF WalkOf, Exists
  <2> QED
    BY <1>4, <2>2, <2>3 DEF Move
<1>5. ASSUME NEW a \in Admins, _write_once(a) \/ _provision(a) \/ ProvisionFails(a)
                                 \/ Deliver(a) \/ AdminDies(a)
      PROVE  UNCHANGED <<call, walk, archive>>
  BY <1>5 DEF _write_once, _provision, ProvisionFails, Deliver, AdminDies, bots
<1>6. ASSUME (\E c \in Callers : revoke(c)) \/ (\E f \in Files : Collect(f)) \/ Tick \/ UNCHANGED vars
      PROVE  UNCHANGED <<call, walk, archive>>
  BY <1>6 DEF revoke, Collect, Tick, vars, bots
<1> QED
  BY <1>1, <1>2, <1>3, <1>4, <1>5, <1>6 DEF Next, Handles

-----------------------------------------------------------------------------
(* The promises *)

\* Every behaviour of the server and its administrators keeps the types, the
\* ledger of the credentials, what is owed and where each walk has got to.
THEOREM McpCorrect == Spec => []McpInv
<1>1. Init => McpInv
  BY InitTypes, InitLedger, InitOwing, InitDead, InitWalking DEF McpInv
<1>2. McpInv /\ [Next]_vars => McpInv'
  BY StepTypes, StepLedger, StepHandoff, StepOwing, StepDead, StepWalking DEF McpInv
<1> QED
  BY <1>1, <1>2, PTL DEF Spec

\* A grant made or rotated with a handoff file never ends up with a credential
\* nobody has: the file is removed by no other command, and its own command
\* removes it only when nothing was committed (admin.py _provision).
THEOREM HandoffReachableHolds == Spec => []HandoffReachable
<1>1. McpInv => HandoffReachable
  BY DEF McpInv, Handoff, HandoffReachable, InFile
<1> QED
  BY <1>1, McpCorrect, PTL

\* The audit trail never holds fewer rows of a caller than answers went out to
\* him, under a credential that was his alone (grants.py audit, _audit_mutation).
THEOREM AnswersAuditedHolds == Spec => []AnswersAudited
<1>1. McpInv => AnswersAudited
  <2> SUFFICES ASSUME McpInv PROVE AnswersAudited
    OBVIOUS
  <2>1. HeldApart
    BY DEF McpInv, Ledger, HeldApart
  <2>2. ASSUME NEW c \in Callers PROVE owed[c] <= 0
    BY AuditedFinite DEF McpInv, Owing
  <2> QED
    BY <2>1, <2>2 DEF McpInv, AnswersAudited
<1> QED
  BY <1>1, McpCorrect, PTL

\* A request whose credential was revoked, replaced or expired before it came is
\* never answered, whatever is committed while it is under way (grants.py
\* authorize).
THEOREM RevokedGoUnansweredHolds == Spec => []RevokedGoUnanswered
<1>1. McpInv => RevokedGoUnanswered
  BY DEF McpInv, DeadStopped, RevokedGoUnanswered
<1> QED
  BY <1>1, McpCorrect, PTL

\* A caller who follows next_cursor to the end has met every recording he may
\* see that was there from the beginning and was not deleted meanwhile, for any
\* page size and any arrivals (store.py list_recordings).
THEOREM WalkCompleteHolds == Spec => []WalkComplete
<1>1. McpInv => WalkComplete
  BY DEF McpInv, Walking, WalkOf, WalkComplete, Last
<1> QED
  BY <1>1, McpCorrect, PTL

==============================================================================
