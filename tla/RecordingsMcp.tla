---------------------------- MODULE RecordingsMcp ----------------------------
(***************************************************************************)
(* The recordings MCP: grants and their audit trail, the administrator's   *)
(* command line that provisions credentials, and the request path of the   *)
(* server with its paged listing.                                          *)
(*                                                                         *)
(* The server is threaded and keeps nothing between requests: every check  *)
(* reads the grant state again, the archive is read after the check, and   *)
(* the audit row is written after the read.  The administrator's commands, *)
(* the owner's archive and the clock move between any two of those steps.  *)
(* A recording is its place in the listing's order; texts are left out.    *)
(***************************************************************************)
EXTENDS Integers, FiniteSets

CONSTANTS
  Callers,
  Tokens, NoToken,     \* credentials the command line may draw
  Files, NoFile,       \* --token-out paths; NoFile: printed instead
  Admins,              \* runs of the command line
  Bots,                \* requests under way at the server
  Numbers,             \* recordings, the newest first
  Offers,              \* what create may grant: [scopes, recordings, expires]
  Tools,               \* tools a caller asks for
  MaxLimit, MaxOffset, \* MAX_LIMIT, MAX_OFFSET
  MaxTime, MaxFaults, MaxCalls, MaxMoves   \* bounds on clock, faults, calls, archive changes

\* What _validate_scopes, _validate_recordings and _parse_expiry let through; no
\* recordings stand for "*", no time for a grant that does not run out.
Terms == [scopes : SUBSET {"metadata", "mindmap"}, recordings : SUBSET Numbers, expires : Nat]
ToolNames == {"recordings_list", "recording_get", "recording_mindmap_get"}

ASSUME McpAssumption ==
  /\ Callers # {} /\ IsFiniteSet(Bots)
  /\ NoToken \notin Tokens /\ NoFile \notin Files
  /\ Numbers \subseteq Nat \ {0} /\ IsFiniteSet(Numbers)
  /\ Offers # {} /\ Offers \subseteq Terms
  /\ MaxLimit \in Nat \ {0} /\ MaxOffset \in Nat /\ MaxTime \in Nat
  /\ Tools \subseteq ToolNames

VARIABLES
  grants,    \* caller -> its row
  owed,      \* caller -> answers that went out less its rows in the audit log
  files,     \* path -> the credential in it
  held,      \* credentials the owner has handed to bots
  drawn,     \* credential -> where its command puts it
  issued,    \* credentials some grant was committed with
  admin,     \* run of the command line -> what it is doing
  call,      \* request -> how far it has come and what it carries
  walk,      \* request -> the listing its bot is paging through
  archive,   \* the recordings there are
  clock, faults, calls, moves

admins == <<files, held, drawn, issued, admin>>
bots   == <<call, walk, calls>>
bounds == <<faults, moves>>
vars   == <<grants, owed, admins, bots, archive, clock, bounds>>

NoGrant == [token |-> NoToken, scopes |-> {}, recordings |-> {}, expires |-> 0,
            disabled |-> FALSE]
Resting == [at |-> "idle", cmd |-> "none", caller |-> CHOOSE c \in Callers : TRUE,
            token |-> NoToken, offer |-> CHOOSE o \in Offers : TRUE]
NoCall  == [at |-> "idle", token |-> NoToken, tool |-> "ping", number |-> 0,
            limit |-> 1, caller |-> CHOOSE c \in Callers : TRUE, page |-> {}, more |-> FALSE,
            dead |-> FALSE]
NoWalk  == [offset |-> 0, caller |-> CHOOSE c \in Callers : TRUE, seen |-> {}, due |-> {}]

Fault == faults < MaxFaults /\ faults' = faults + 1

-----------------------------------------------------------------------------
(* The registry *)

Exists(c) == grants[c].token # NoToken
Expired(g) == g.expires # 0 /\ g.expires <= clock

Accepts_issued(t) == {c \in Callers : grants[c].token = t}
                                             \* mutant: disabled_at is not looked at
\* authorize's first part: the row of the credential, enabled and not expired.
Accepts(t) == {c \in Callers : /\ grants[c].token = t
                               /\ ~grants[c].disabled /\ ~Expired(grants[c])}

TOOL_SCOPE == [recordings_list |-> "metadata", recording_get |-> "metadata",
               recording_mindmap_get |-> "mindmap"]

\* authorize for a tool: scope, then the allowlist when one recording is named.
\* An empty allowlist stands for "*".
Allowed(g) == IF g.recordings = {} THEN Numbers ELSE g.recordings
Authorizes(c, t, tool, n) ==
  /\ c \in Accepts(t)
  /\ TOOL_SCOPE[tool] \in grants[c].scopes
  /\ n # 0 => n \in Allowed(grants[c])

revoke(c) ==
  /\ Exists(c) /\ ~grants[c].disabled
  /\ grants' = [grants EXCEPT ![c].disabled = TRUE]
  /\ UNCHANGED <<owed, admins, bots, archive, clock, bounds>>

-----------------------------------------------------------------------------
(* The command line *)

Vacant_any(f) == TRUE                        \* mutant: without O_EXCL
Vacant(f) == files[f] = NoToken

Fresh(t) == drawn[t] = "no"

\* A credential is drawn; with --token-out it is written first, and only into
\* a path nothing is at.
_write_once(a) ==
  /\ admin[a].at = "idle"
  /\ \E t \in {u \in Tokens : Fresh(u)}, f \in Files \cup {NoFile}, c \in Callers,
        cmd \in {"create", "rotate"}, o \in Offers :
       /\ f # NoFile => Vacant(f)
       /\ drawn' = [drawn EXCEPT ![t] = IF f = NoFile THEN "stdout" ELSE "file"]
       /\ files' = IF f = NoFile THEN files ELSE [files EXCEPT ![f] = t]
       /\ admin' = [admin EXCEPT ![a] = [at |-> "drawn", cmd |-> cmd, caller |-> c,
                                         token |-> t, offer |-> o]]
  /\ UNCHANGED <<grants, owed, held, issued, bots, archive, clock, bounds>>

Created(a) == [token |-> admin[a].token, scopes |-> admin[a].offer.scopes,
               recordings |-> admin[a].offer.recordings,
               expires |-> admin[a].offer.expires, disabled |-> FALSE]

Rotated_reenabled(a) == [grants[admin[a].caller] EXCEPT !.disabled = FALSE]
                                             \* mutant: the token hash is kept
Rotated(a) == [grants[admin[a].caller] EXCEPT !.token = admin[a].token, !.disabled = FALSE]

\* One transaction: look the caller up, write the row and its audit row.
create(a) == /\ admin[a].cmd = "create" /\ ~Exists(admin[a].caller)
             /\ grants' = [grants EXCEPT ![admin[a].caller] = Created(a)]
rotate(a) == /\ admin[a].cmd = "rotate" /\ Exists(admin[a].caller)
             /\ grants' = [grants EXCEPT ![admin[a].caller] = Rotated(a)]

_provision(a) ==
  /\ admin[a].at = "drawn"
  /\ create(a) \/ rotate(a)
  /\ issued' = issued \cup {admin[a].token}
  /\ admin' = [admin EXCEPT ![a].at = "done"]
  /\ UNCHANGED <<owed, files, held, drawn, bots, archive, clock, bounds>>

\* The registry refuses the caller, or its state is locked: the file goes (it
\* is the command's own, as nobody collects it before).
ProvisionFails(a) ==
  /\ admin[a].at = "drawn"
  /\ \/ admin[a].cmd = "create" /\ Exists(admin[a].caller) /\ UNCHANGED faults
     \/ admin[a].cmd = "rotate" /\ ~Exists(admin[a].caller) /\ UNCHANGED faults
     \/ Fault
  /\ files' = [f \in Files |-> IF files[f] = admin[a].token THEN NoToken ELSE files[f]]
  /\ admin' = [admin EXCEPT ![a] = Resting]
  /\ UNCHANGED <<grants, owed, held, drawn, issued, bots, archive, clock, moves>>

\* Without a file the credential is printed, once.
Deliver(a) ==
  /\ admin[a].at = "done"
  /\ held' = IF drawn[admin[a].token] = "stdout" THEN held \cup {admin[a].token} ELSE held
  /\ admin' = [admin EXCEPT ![a] = Resting]
  /\ UNCHANGED <<grants, owed, files, drawn, issued, bots, archive, clock, bounds>>

AdminDies(a) ==
  /\ admin[a].at # "idle" /\ Fault
  /\ admin' = [admin EXCEPT ![a] = Resting]
  /\ UNCHANGED <<grants, owed, files, held, drawn, issued, bots, archive, clock, moves>>

\* The owner moves a credential to the bot's secret store, once the command
\* that wrote it is over.
Collect(f) ==
  /\ files[f] # NoToken
  /\ \A a \in Admins : admin[a].at = "drawn" => admin[a].token # files[f]
  /\ held' = held \cup {files[f]}
  /\ files' = [files EXCEPT ![f] = NoToken]
  /\ UNCHANGED <<grants, owed, drawn, issued, admin, bots, archive, clock, bounds>>

-----------------------------------------------------------------------------
(* The request path *)

Live(t) == \E c \in Callers : grants[c].token = t /\ ~grants[c].disabled
                                /\ ~Expired(grants[c])

\* A credential that was some grant's and opens none.
Dead(t) == t \in issued /\ ~Live(t)

\* A bot asks for a tool, for a recording or for the next page of its walk, as
\* long as it likes (clamp_limit: a greedy limit is MAX_LIMIT).
Ask(b) ==
  /\ call[b].at = "idle" /\ calls < MaxCalls /\ calls' = calls + 1
  /\ \E t \in held, tool \in Tools :
       \E n \in (IF tool = "recordings_list" THEN {0} ELSE Numbers),
          k \in (IF tool = "recordings_list" THEN 1 .. MaxLimit ELSE {1}) :
         call' = [call EXCEPT ![b] = [NoCall EXCEPT !.at = "asked", !.token = t, !.tool = tool,
                                      !.number = n, !.limit = k, !.dead = Dead(t)]]
  /\ UNCHANGED <<grants, owed, admins, walk, archive, clock, bounds>>

Refuse(b) == call' = [call EXCEPT ![b] = NoCall]

\* do_POST: before the body is read, and again before it is dispatched.
Authenticate(b) ==
  /\ call[b].at \in {"asked", "read"}
  /\ IF Accepts(call[b].token) # {}
     THEN call' = [call EXCEPT ![b].at = IF @ = "asked" THEN "read" ELSE "dispatched"]
     ELSE Refuse(b)
  /\ UNCHANGED <<grants, owed, admins, walk, calls, archive, clock, bounds>>

\* call_tool: authorize for this tool and recording.  A refusal is audited as
\* denied, and refused whether or not that row can be written.
authorize(b) ==
  /\ call[b].at = "dispatched"
  /\ \/ \E c \in Callers :
          /\ Authorizes(c, call[b].token, call[b].tool, call[b].number)
          /\ call' = [call EXCEPT ![b].at = "authorized", ![b].caller = c]
     \/ /\ \A c \in Callers : ~Authorizes(c, call[b].token, call[b].tool, call[b].number)
        /\ Refuse(b)
  /\ UNCHANGED <<grants, owed, admins, walk, calls, archive, clock, bounds>>

\* The recordings the caller may see; a row's place is how many come before it
\* in the order of the listing, the newest first.
Listing(c) == archive \cap Allowed(grants[c])
Place(n, all) == Cardinality({m \in all : m < n})

\* LIMIT k OFFSET offset
Rows(c, offset, k) == {n \in Listing(c) : Place(n, Listing(c)) \in offset .. offset + k - 1}

Page_exact(c, offset, limit) == Rows(c, offset, limit)
                                             \* mutant: LIMIT limit, not limit + 1
\* One row more than the page holds, to know whether there is another page.
Page(c, offset, limit) == Rows(c, offset, limit + 1)

Shown(c, offset, limit) == {n \in Page(c, offset, limit) : Place(n, Listing(c)) < offset + limit}
HasMore(c, offset, limit) == Page(c, offset, limit) # Shown(c, offset, limit)

\* What a walk owes its bot: all there is when it begins, and nothing when the
\* cursor is another caller's.
Due(b, c) == IF walk[b].offset = 0 THEN Listing(c)
             ELSE IF walk[b].caller = c THEN walk[b].due ELSE {}

\* The handler reads the archive.  What is not there, an unreadable archive or
\* a cursor beyond MAX_OFFSET is an error, and leaves no audit row.
Handle(b) ==
  LET c == call[b].caller
      offset == walk[b].offset
      limit == call[b].limit
  IN /\ call[b].at = "authorized"
     /\ \/ /\ call[b].tool = "recordings_list" /\ offset <= MaxOffset
           /\ call' = [call EXCEPT ![b].at = "answer", ![b].page = Shown(c, offset, limit),
                                   ![b].more = HasMore(c, offset, limit)]
           /\ walk' = [walk EXCEPT ![b].caller = c, ![b].due = Due(b, c)]
           /\ UNCHANGED faults
        \/ /\ call[b].tool = "recordings_list" /\ offset > MaxOffset
           /\ Refuse(b) /\ walk' = [walk EXCEPT ![b] = NoWalk] /\ UNCHANGED faults
        \/ /\ call[b].tool # "recordings_list" /\ UNCHANGED <<walk, faults>>
           /\ IF call[b].number \in archive
              THEN call' = [call EXCEPT ![b].at = "answer", ![b].page = {call[b].number}]
              ELSE Refuse(b)
        \/ Refuse(b) /\ Fault /\ UNCHANGED walk
     /\ UNCHANGED <<grants, owed, admins, calls, archive, clock, moves>>

Unaudited_answered(b) == call' = [call EXCEPT ![b].at = "audited"]
                                             \* mutant: a failed audit is logged only
Unaudited(b) == Refuse(b)

\* The row of an allowed call, or no answer.
Audit(b) ==
  /\ call[b].at = "answer"
  /\ \/ /\ owed' = [owed EXCEPT ![call[b].caller] = @ - 1]
        /\ call' = [call EXCEPT ![b].at = "audited"] /\ UNCHANGED faults
     \/ Fault /\ Unaudited(b) /\ UNCHANGED owed
  /\ UNCHANGED <<grants, admins, walk, calls, archive, clock, moves>>

Walked(b) ==
  LET seen == walk[b].seen \cup call[b].page
  IN IF call[b].more
     THEN [walk EXCEPT ![b].offset = @ + call[b].limit, ![b].seen = seen]
     ELSE [walk EXCEPT ![b].offset = 0, ![b].seen = seen]

\* The answer goes out, scoped; a bot follows next_cursor or has finished.
Answer(b) ==
  /\ call[b].at = "audited"
  /\ owed' = [owed EXCEPT ![call[b].caller] = @ + 1]
  /\ call' = [call EXCEPT ![b].at = "sent"]
  /\ walk' = IF call[b].tool = "recordings_list" THEN Walked(b) ELSE walk
  /\ UNCHANGED <<grants, admins, calls, archive, clock, bounds>>

Rest(b) ==
  /\ call[b].at = "sent"
  /\ call' = [call EXCEPT ![b] = NoCall]
  /\ walk' = IF call[b].tool = "recordings_list" /\ ~call[b].more
             THEN [walk EXCEPT ![b] = NoWalk] ELSE walk
  /\ UNCHANGED <<grants, owed, admins, calls, archive, clock, bounds>>

-----------------------------------------------------------------------------
(* The archive, the clock *)

\* The connector: a recording is ingested anywhere in the order, or deleted; a
\* walk owes nothing of what was deleted, nor of what a deletion shifted.  A
\* recording that is archived again keeps its place: that PLAUD gives it another
\* start time, the one the listing sorts by, is left out.
Move ==
  /\ moves < MaxMoves /\ moves' = moves + 1
  /\ \E n \in Numbers :
       \/ /\ n \notin archive /\ archive' = archive \cup {n} /\ UNCHANGED walk
       \/ /\ n \in archive /\ archive' = archive \ {n}
          /\ walk' = [b \in Bots |-> [walk[b] EXCEPT !.due = {}]]
  /\ UNCHANGED <<grants, owed, admins, call, calls, clock, faults>>

Tick ==
  /\ clock < MaxTime /\ clock' = clock + 1
  /\ UNCHANGED <<grants, owed, admins, bots, archive, bounds>>

Init ==
  /\ grants = [c \in Callers |-> NoGrant]
  /\ owed = [c \in Callers |-> 0]
  /\ files = [f \in Files |-> NoToken] /\ held = {}
  /\ drawn = [t \in Tokens |-> "no"] /\ issued = {}
  /\ admin = [a \in Admins |-> Resting]
  /\ call = [b \in Bots |-> NoCall] /\ walk = [b \in Bots |-> NoWalk]
  /\ archive \in SUBSET Numbers
  /\ clock = 0 /\ faults = 0 /\ calls = 0 /\ moves = 0

Next == \/ \E c \in Callers : revoke(c)
        \/ \E a \in Admins : \/ _write_once(a) \/ _provision(a) \/ ProvisionFails(a)
                             \/ Deliver(a) \/ AdminDies(a)
        \/ \E f \in Files : Collect(f)
        \/ \E b \in Bots : \/ Ask(b) \/ Authenticate(b) \/ authorize(b) \/ Handle(b)
                           \/ Audit(b) \/ Answer(b) \/ Rest(b)
        \/ Move \/ Tick

Spec == Init /\ [][Next]_vars

-----------------------------------------------------------------------------
(* Properties *)

Grant   == [token : Tokens \cup {NoToken}, scopes : SUBSET {"metadata", "mindmap"},
            recordings : SUBSET Numbers, expires : Nat, disabled : BOOLEAN]
Command == [at : {"idle", "drawn", "done"}, cmd : {"none", "create", "rotate"},
            caller : Callers, token : Tokens \cup {NoToken}, offer : Offers]
Request == [at : {"idle", "asked", "read", "dispatched", "authorized", "answer",
                  "audited", "sent"},
            token : Tokens \cup {NoToken}, tool : ToolNames \cup {"ping"},
            number : Numbers \cup {0}, limit : 1 .. MaxLimit, caller : Callers,
            page : SUBSET Numbers, more : BOOLEAN, dead : BOOLEAN]
Walk    == [offset : Nat, caller : Callers, seen : SUBSET Numbers, due : SUBSET Numbers]

\* The types.
TypeOK ==
  /\ grants \in [Callers -> Grant] /\ owed \in [Callers -> Int]
  /\ files \in [Files -> Tokens \cup {NoToken}] /\ held \subseteq Tokens
  /\ drawn \in [Tokens -> {"no", "file", "stdout"}] /\ issued \subseteq Tokens
  /\ admin \in [Admins -> Command]
  /\ call \in [Bots -> Request] /\ walk \in [Bots -> Walk]
  /\ archive \subseteq Numbers
  /\ clock \in Nat /\ faults \in Nat /\ calls \in Nat /\ moves \in Nat

\* No credential opens two grants or is in the hands of two commands.
HeldApart ==
  /\ \A c, d \in Callers : Exists(c) /\ grants[c].token = grants[d].token => c = d
  /\ \A a, e \in Admins : admin[a].at = "drawn" /\ admin[a].token = admin[e].token => a = e

\* A grant made or rotated with a handoff file never ends up with a credential
\* nobody has, whatever other commands do and whenever a command dies.
HandoffReachable ==
  \A c \in Callers : Exists(c) /\ drawn[grants[c].token] = "file" =>
    grants[c].token \in held \cup {files[f] : f \in Files}

\* No caller ever got more answers than the trail accounts for, and the trail
\* names the right one: the types hold and credentials stay apart.
AnswersAudited == TypeOK /\ HeldApart /\ \A c \in Callers : owed[c] <= 0

\* A request that presents a credential already revoked, replaced or expired is
\* never answered, whatever the administrator does while it is under way.
RevokedGoUnanswered == \A b \in Bots : call[b].at = "sent" => ~call[b].dead

\* Who follows next_cursor to the end, with pages of any size, has seen every
\* allowed recording that was there from the beginning, although recordings
\* arrive between the pages.  A walk during which a recording was deleted is
\* excepted (Move empties what is due): the rows behind it move up by one, and
\* the next page may skip one.  So are the pages of a cursor another caller got.
WalkComplete ==
  \A b \in Bots : call[b].at = "sent" /\ call[b].tool = "recordings_list" /\ ~call[b].more
                    => walk[b].due \subseteq walk[b].seen
=============================================================================
