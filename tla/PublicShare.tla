----------------------------- MODULE PublicShare -----------------------------
(***************************************************************************)
(* Public links: the viewer's export store (shares.db and the exports      *)
(* directory), the reconciler that follows the archive, and the gateway,   *)
(* which only reads the store and keeps device claims in a database of its *)
(* own.                                                                    *)
(*                                                                         *)
(* A share id is fresh in every call of create, so the thread that creates *)
(* a share is named by it.  create is one write transaction that also      *)
(* moves directories, which no rollback undoes; a step here is what        *)
(* happens between two points where a crash leaves different remains.      *)
(* What a share shows and how it is rendered is left out; its size is not. *)
(***************************************************************************)
EXTENDS Integers, FiniteSets

CONSTANTS
  Shares,       \* ids create may draw
  Recordings,
  Devices, NoDevice,
  NoShare,      \* nobody holds the writer lock, no request in hand
  Sizes,        \* bytes an export may have
  Ttl,
  MaxActive, MaxStorage,   \* max_active, max_storage_bytes
  MaxTime, MaxFaults, MaxMoves   \* bounds on clock, faults, archive changes

ASSUME ShareAssumption ==
  /\ NoDevice \notin Devices /\ NoShare \notin Shares
  /\ IsFiniteSet(Shares) /\ Recordings # {}
  /\ Sizes \subseteq Nat \ {0}
  /\ Ttl \in Nat \ {0} /\ MaxStorage \in Nat /\ MaxActive \in Nat
  /\ MaxTime \in Nat /\ MaxFaults \in Nat /\ MaxMoves \in Nat

VARIABLES
  library,   \* recording -> active, archived (locally) or deleted
  pc,        \* share -> how far its creation has come
  asked,     \* share -> source, bytes and the time its creator read
  writer,    \* the creation that holds shares.db's writer lock
  purged,    \* the rows its open transaction has deleted
  shares,    \* share -> its committed row
  exports,   \* share -> bytes in its export directory, 0: there is none
  staging,   \* share -> bytes in its .share- directory
  revoking,  \* shares a reader revoked whose files are still to be removed
  tick,      \* the reconciler: where it is, ids it listed, shares it revoked
  device_claims,  \* share -> the device that consumed its link
  cookies,   \* device -> the shares it holds a cookie for
  visit,     \* device -> its request at the gateway
  clock, faults, moves

store   == <<pc, asked, writer, purged, shares, exports, staging>>
gateway == <<device_claims, cookies, visit>>
bounds  == <<clock, faults, moves>>
vars    == <<library, store, revoking, tick, gateway, bounds>>

Writing == {"admitted", "staged", "placed"}  \* inside create's transaction

NoRow  == [present |-> FALSE, revoked |-> FALSE, expires |-> 0, bytes |-> 0]
Unborn == [source |-> CHOOSE r \in Recordings : TRUE, bytes |-> 0, now |-> 0]
Away   == [at |-> "away", share |-> NoShare]
Idle   == [at |-> "idle", ids |-> {}, missing |-> {}]

\* The bytes of all shares together, each byte counted as a pair of its own.
BytesOf(f) == UNION {{s} \X (1 .. f[s]) : s \in Shares}
Bytes(f) == Cardinality(BytesOf(f))
Fault == faults < MaxFaults /\ faults' = faults + 1

\* The condition of every read: not revoked, and later than now.
Live(row, now) == row.present /\ ~row.revoked /\ row.expires > now
Active(s) == Live(shares[s], clock)

-----------------------------------------------------------------------------
(* create *)

\* The endpoint reads the recording, archived or not, and the clock; then it
\* waits for the writer lock.
Ask(s) ==
  /\ pc[s] = "unborn"
  /\ \E r \in Recordings, b \in Sizes :
       /\ library[r] # "deleted" /\ b <= MaxStorage
       /\ asked' = [asked EXCEPT ![s] = [source |-> r, bytes |-> b, now |-> clock]]
  /\ pc' = [pc EXCEPT ![s] = "asked"]
  /\ UNCHANGED <<library, writer, purged, shares, exports, staging, revoking, tick,
                 gateway, bounds>>

Stale(now) == {x \in Shares : shares[x].present /\ ~Live(shares[x], now)}

\* What the rows of live shares say.
Used(now) == Bytes([x \in Shares |-> IF Live(shares[x], now) THEN shares[x].bytes ELSE 0])

HasRoom_rows(dirs, now, bytes) == Used(now) + bytes <= MaxStorage
                                             \* mutant: directories are not counted
\* Both limits on bytes: what the directories hold and what the rows say.
HasRoom(dirs, now, bytes) ==
  Bytes(dirs) + bytes <= MaxStorage /\ Used(now) + bytes <= MaxStorage

Without(f, gone) == [x \in Shares |-> IF x \in gone THEN 0 ELSE f[x]]
Purged(gone) == [x \in Shares |-> IF x \in gone THEN NoRow ELSE shares[x]]

WriterFree == writer = NoShare

\* BEGIN IMMEDIATE: stale rows and their exports, orphaned staging, then the
\* limits.  A refusal commits the purge; otherwise the transaction stays open.
Admit(s) ==
  LET now   == asked[s].now
      stale == Stale(now)
      dirs  == Without(exports, stale)
      fits  == /\ Cardinality({x \in Shares : Live(shares[x], now)}) < MaxActive
               /\ HasRoom(dirs, now, asked[s].bytes)
  IN /\ pc[s] = "asked" /\ WriterFree
     /\ exports' = dirs
     /\ staging' = Without(staging, Shares)
     /\ IF fits
        THEN /\ writer' = s /\ purged' = stale
             /\ pc' = [pc EXCEPT ![s] = "admitted"]
             /\ UNCHANGED shares
        ELSE /\ shares' = Purged(stale)
             /\ pc' = [pc EXCEPT ![s] = "refused"]
             /\ UNCHANGED <<writer, purged>>
     /\ UNCHANGED <<library, asked, revoking, tick, gateway, bounds>>

Stage(s) ==
  /\ pc[s] = "admitted"
  /\ staging' = [staging EXCEPT ![s] = asked[s].bytes]
  /\ pc' = [pc EXCEPT ![s] = "staged"]
  /\ UNCHANGED <<library, asked, writer, purged, shares, exports, revoking, tick,
                 gateway, bounds>>

Placed(s) == [staging EXCEPT ![s] = 0]

\* temporary.rename(final): visible at once, whatever becomes of the row.
Place(s) ==
  /\ pc[s] = "staged"
  /\ exports' = [exports EXCEPT ![s] = asked[s].bytes]
  /\ staging' = Placed(s)
  /\ pc' = [pc EXCEPT ![s] = "placed"]
  /\ UNCHANGED <<library, asked, writer, purged, shares, revoking, tick, gateway, bounds>>

Row(s) == [present |-> TRUE, revoked |-> FALSE, bytes |-> asked[s].bytes,
           expires |-> asked[s].now + Ttl]

Insertable_admitted(s) == pc[s] \in {"admitted", "placed"}
                                             \* mutant: the row before the files
Insertable(s) == pc[s] = "placed"

\* INSERT and commit; the reader gets the link.
Commit(s) ==
  /\ Insertable(s)
  /\ shares' = [Purged(purged) EXCEPT ![s] = Row(s)]
  /\ writer' = NoShare /\ purged' = {}
  /\ pc' = [pc EXCEPT ![s] = "shared"]
  /\ UNCHANGED <<library, asked, exports, staging, revoking, tick, gateway, bounds>>

\* A full disk, a lost source file: roll back and remove both directories.  The
\* stale rows come back, without the exports removed for them.
CreateFails(s) ==
  /\ pc[s] \in Writing
  /\ Fault
  /\ exports' = [exports EXCEPT ![s] = 0]
  /\ staging' = [staging EXCEPT ![s] = 0]
  /\ writer' = NoShare /\ purged' = {}
  /\ pc' = [pc EXCEPT ![s] = "refused"]
  /\ UNCHANGED <<library, asked, shares, revoking, tick, gateway, clock, moves>>

-----------------------------------------------------------------------------
(* Revocation, by a reader and by the reconciler *)

Revoked(gone) == [x \in Shares |-> IF x \in gone /\ shares[x].present
                                   THEN [shares[x] EXCEPT !.revoked = TRUE] ELSE shares[x]]

\* Only a request that changed a row goes on to remove its files.
Revoke(s) ==
  /\ WriterFree /\ shares[s].present /\ ~shares[s].revoked
  /\ shares' = Revoked({s})
  /\ revoking' = revoking \cup {s}
  /\ UNCHANGED <<library, pc, asked, writer, purged, exports, staging, tick, gateway, bounds>>

_remove_exports(s) ==
  /\ s \in revoking
  /\ exports' = [exports EXCEPT ![s] = 0]
  /\ revoking' = revoking \ {s}
  /\ UNCHANGED <<library, pc, asked, writer, purged, shares, staging, tick, gateway, bounds>>

Kept_in_table == {r \in Recordings : library[r] # "deleted"}
                                             \* mutant: archived ones count as there
Kept == {r \in Recordings : library[r] = "active"}

\* _reconcile_public_shares: the ids come from a copy of the archive ...
ListSources ==
  /\ tick.at = "idle" /\ \E s \in Shares : shares[s].present
  /\ tick' = [at |-> "listed", ids |-> Kept, missing |-> {}]
  /\ UNCHANGED <<library, store, revoking, gateway, bounds>>

Missing(ids) == {s \in Shares : Active(s) /\ asked[s].source \notin ids}

\* ... reconcile_sources compares them with the rows some time later, outside
\* a transaction, and revokes the shares it has found.
SelectMissing ==
  /\ tick.at = "listed"
  /\ tick' = [at |-> "selected", ids |-> {}, missing |-> Missing(tick.ids)]
  /\ UNCHANGED <<library, store, revoking, gateway, bounds>>

RevokeMissing ==
  /\ tick.at = "selected" /\ (tick.missing # {} => WriterFree)
  /\ shares' = Revoked(tick.missing)
  /\ tick' = [tick EXCEPT !.at = "revoked"]
  /\ UNCHANGED <<library, pc, asked, writer, purged, exports, staging, revoking, gateway,
                 bounds>>

RemoveMissing ==
  /\ tick.at = "revoked"
  /\ exports' = Without(exports, tick.missing)
  /\ tick' = Idle
  /\ UNCHANGED <<library, pc, asked, writer, purged, shares, staging, revoking, gateway,
                 bounds>>

\* The viewer dies and is started again: threads and the open transaction are
\* gone, directories stay as they are.
ViewerCrash ==
  /\ Fault
  /\ pc' = [s \in Shares |-> IF pc[s] \in {"asked"} \cup Writing
                             THEN "lost" ELSE pc[s]]
  /\ writer' = NoShare /\ purged' = {}
  /\ revoking' = {} /\ tick' = Idle
  /\ UNCHANGED <<library, asked, shares, exports, staging, gateway, clock, moves>>

-----------------------------------------------------------------------------
(* The gateway *)

\* exchange: the link is checked in the export store ...
verify(d, s) ==
  /\ visit[d].at = "away" /\ pc[s] = "shared" /\ Active(s)
  /\ visit' = [visit EXCEPT ![d] = [at |-> "verified", share |-> s]]
  /\ UNCHANGED <<library, store, revoking, tick, device_claims, cookies, bounds>>

Unclaimed_any(s) == TRUE                     \* mutant: INSERT OR REPLACE
Unclaimed(s) == device_claims[s] = NoDevice

\* ... and consumed in the gateway's own database.  The answer may get lost.
_claim_device(d) ==
  LET s == visit[d].share
  IN /\ visit[d].at = "verified"
     /\ IF Unclaimed(s)
        THEN /\ device_claims' = [device_claims EXCEPT ![s] = d]
             /\ \/ cookies' = [cookies EXCEPT ![d] = @ \cup {s}] /\ UNCHANGED faults
                \/ UNCHANGED cookies /\ Fault
        ELSE UNCHANGED <<device_claims, cookies, faults>>
     /\ visit' = [visit EXCEPT ![d] = Away]
     /\ UNCHANGED <<library, store, revoking, tick, clock, moves>>

\* verify_active: the row and the export, on every request.
Admissible(d, s) == Active(s) /\ exports[s] > 0

_authorized(d, s) ==
  /\ visit[d].at = "away" /\ s \in cookies[d] /\ device_claims[s] = d
  /\ Admissible(d, s)
  /\ visit' = [visit EXCEPT ![d] = [at |-> "granted", share |-> s]]
  /\ UNCHANGED <<library, store, revoking, tick, device_claims, cookies, bounds>>

\* The files are read afterwards: there, or gone by now.
content(d) ==
  /\ visit[d].at = "granted"
  /\ visit' = [visit EXCEPT ![d] = Away]
  /\ UNCHANGED <<library, store, revoking, tick, device_claims, cookies, bounds>>

-----------------------------------------------------------------------------
(* The archive, the clock *)

\* Archive, restore and delete, by the connector's control threads.
Archive(r) ==
  /\ moves < MaxMoves /\ moves' = moves + 1
  /\ \E to \in {"active", "archived", "deleted"} \ {library[r]} :
       /\ library[r] # "deleted" /\ (to = "deleted" => library[r] = "archived")
       /\ library' = [library EXCEPT ![r] = to]
  /\ UNCHANGED <<store, revoking, tick, gateway, clock, faults>>

Tick ==
  /\ clock < MaxTime /\ clock' = clock + 1
  /\ UNCHANGED <<library, store, revoking, tick, gateway, faults, moves>>

Init ==
  /\ library = [r \in Recordings |-> "active"]
  /\ pc = [s \in Shares |-> "unborn"]
  /\ asked = [s \in Shares |-> Unborn]
  /\ writer = NoShare /\ purged = {}
  /\ shares = [s \in Shares |-> NoRow]
  /\ exports = [s \in Shares |-> 0] /\ staging = [s \in Shares |-> 0]
  /\ revoking = {} /\ tick = Idle
  /\ device_claims = [s \in Shares |-> NoDevice]
  /\ cookies = [d \in Devices |-> {}]
  /\ visit = [d \in Devices |-> Away]
  /\ clock = 0 /\ faults = 0 /\ moves = 0

Create(s) == Admit(s) \/ Stage(s) \/ Place(s) \/ Commit(s)
Reconcile == ListSources \/ SelectMissing \/ RevokeMissing \/ RemoveMissing

Next == \/ \E s \in Shares : \/ Ask(s) \/ Create(s) \/ CreateFails(s)
                             \/ Revoke(s) \/ _remove_exports(s)
        \/ \E d \in Devices : \/ _claim_device(d) \/ content(d)
                              \/ \E s \in Shares : verify(d, s) \/ _authorized(d, s)
        \/ Reconcile \/ ViewerCrash \/ Tick
        \/ \E r \in Recordings : Archive(r)

Spec == Init /\ [][Next]_vars

\* Threads of the viewer run on, the reconciler comes round every minute; links,
\* visits, revocations and the clock owe nothing.
Fairness == /\ WF_vars(Reconcile)
            /\ \A s \in Shares : WF_vars(Create(s)) /\ WF_vars(_remove_exports(s))

FairSpec == Spec /\ Fairness

-----------------------------------------------------------------------------
(* Properties *)

\* Types; and the one writer of shares.db is the creation whose transaction is
\* open.
TypeOK ==
  /\ library \in [Recordings -> {"active", "archived", "deleted"}]
  /\ pc \in [Shares -> {"unborn", "asked", "admitted", "staged", "placed", "shared",
                        "refused", "lost"}]
  /\ asked \in [Shares -> [source : Recordings, bytes : Nat, now : Nat]]
  /\ writer \in Shares \cup {NoShare} /\ purged \subseteq Shares
  /\ \A s \in Shares : pc[s] \in Writing <=> writer = s
  /\ shares \in [Shares -> [present : BOOLEAN, revoked : BOOLEAN, expires : Nat, bytes : Nat]]
  /\ exports \in [Shares -> Nat] /\ staging \in [Shares -> Nat]
  /\ revoking \subseteq Shares
  /\ tick \in [at : {"idle", "listed", "selected", "revoked"}, ids : SUBSET Recordings,
               missing : SUBSET Shares]
  /\ device_claims \in [Shares -> Devices \cup {NoDevice}]
  /\ cookies \in [Devices -> SUBSET Shares]
  /\ visit \in [Devices -> [at : {"away", "verified", "granted"},
                            share : Shares \cup {NoShare}]]
  /\ clock \in Nat /\ faults \in Nat /\ moves \in Nat

\* A link that would be honoured has all its files: the row appears after the
\* directory and is revoked before it goes, at every point a crash can hit.
ActiveIsWhole == \A s \in Shares : Active(s) => exports[s] = shares[s].bytes

\* The exports directory never holds more than it may, the remains of crashed
\* and failed creations included (checked together with the types).
StorageBounded == TypeOK /\ Bytes(exports) + Bytes(staging) <= MaxStorage

\* A recording that stays archived or deleted is in the end shared by no link,
\* also not by one whose creation was under way when it was put away.
SourceGoneSharesEnd ==
  \A r \in Recordings :
    []<>(library[r] = "active")
      \/ <>[](\A s \in Shares : asked[s].source = r => ~Active(s))

\* deploy/public-share/README.md: "Revocation removes the exported files."
RevokedFilesGo == \A s \in Shares : shares[s].revoked ~> exports[s] = 0

Status(s) == IF pc[s] # "shared" THEN "none" ELSE IF Active(s) THEN "offered" ELSE "ended"

\* The store and the gateway together keep the contract of a public link.
Contract == INSTANCE ShareContract WITH
  status <- [s \in Shares |-> Status(s)],
  bound  <- device_claims,
  grants <- {<<visit[d].share, d>> : d \in {e \in Devices : visit[e].at = "granted"}}
KeepsContract == Contract!Spec
==============================================================================
