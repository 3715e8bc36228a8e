-------------------------- MODULE PublicShareProofs --------------------------
(***************************************************************************)
(* Proofs about PublicShare: a link that would be honoured has its files,  *)
(* exports and leftovers stay within the storage limit, and store and      *)
(* gateway together implement ShareContract, for any number of shares,     *)
(* recordings and devices, crashes, failures and moves.                    *)
(***************************************************************************)
EXTENDS PublicShare, FiniteSetTheorems, TLAPS

ShareRow == [present : BOOLEAN, revoked : BOOLEAN, expires : Nat, bytes : Nat]

\* A row outlives its creation's end only; nobody removes files but of rows
\* that are over, or of the creation that still owns them.
Owned == \A s \in Shares :
  /\ shares[s].present => pc[s] = "shared"
  /\ pc[s] = "placed" => exports[s] = asked[s].bytes
  /\ asked[s].now <= clock
Over(s) == pc[s] = "shared" /\ (shares[s].present => shares[s].revoked)
Ending == /\ \A s \in revoking : Over(s)
          /\ \A s \in tick.missing : pc[s] = "shared"
          /\ tick.at = "revoked" => \A s \in tick.missing : Over(s)
\* A device in front of the door has a link that was handed out.
Visiting == \A d \in Devices : visit[d].at = "verified" =>
                                 visit[d].share \in Shares /\ pc[visit[d].share] = "shared"

ShareInv == TypeOK /\ Owned /\ Ending /\ Visiting /\ ActiveIsWhole

-----------------------------------------------------------------------------
(* Rows *)

LEMMA NoRowIs == NoRow \in ShareRow /\ NoRow.present = FALSE
BY DEF NoRow, ShareRow

LEMMA NewRowIs ==
  ASSUME TypeOK, NEW s \in Shares
  PROVE  /\ Row(s) \in ShareRow /\ Row(s).present /\ Row(s).bytes = asked[s].bytes
BY ShareAssumption DEF Row, ShareRow, TypeOK

LEMMA RevokedRowIs ==
  ASSUME NEW row \in ShareRow
  PROVE  /\ [row EXCEPT !.revoked = TRUE] \in ShareRow
         /\ [row EXCEPT !.revoked = TRUE].present = row.present
         /\ [row EXCEPT !.revoked = TRUE].revoked
         /\ [row EXCEPT !.revoked = TRUE].bytes = row.bytes
BY DEF ShareRow

LEMMA RevokedIs ==
  ASSUME TypeOK, NEW gone \in SUBSET Shares, shares' = Revoked(gone)
  PROVE  /\ shares' \in [Shares -> ShareRow]
         /\ \A s \in Shares : /\ shares'[s].present = shares[s].present
                              /\ s \in gone /\ shares[s].present => shares'[s].revoked
                              /\ s \notin gone => shares'[s] = shares[s]
                              /\ ~shares[s].present => shares'[s] = shares[s]
<1> DEFINE again(s) == [shares[s] EXCEPT !.revoked = TRUE]
<1>1. shares \in [Shares -> ShareRow]
  BY DEF TypeOK, ShareRow
<1>2. \A s \in Shares : again(s) \in ShareRow /\ again(s).present = shares[s].present
                        /\ again(s).revoked
  BY <1>1, RevokedRowIs
<1>3. shares' = [x \in Shares |-> IF x \in gone /\ shares[x].present THEN again(x) ELSE shares[x]]
  BY DEF Revoked
<1> HIDE DEF again
<1> QED
  BY <1>1, <1>2, <1>3

LEMMA PurgedIs ==
  ASSUME TypeOK, NEW gone \in SUBSET Shares
  PROVE  /\ Purged(gone) \in [Shares -> ShareRow]
         /\ \A s \in Shares : Purged(gone)[s] = IF s \in gone THEN NoRow ELSE shares[s]
<1>1. shares \in [Shares -> ShareRow]
  BY DEF TypeOK, ShareRow
<1> QED
  BY <1>1, NoRowIs DEF Purged

LEMMA CommittedIs ==
  ASSUME TypeOK, NEW s \in Shares, Commit(s)
  PROVE  /\ shares' \in [Shares -> ShareRow]
         /\ shares'[s] = Row(s)
         /\ \A x \in Shares \ {s} : shares'[x] = IF x \in purged THEN NoRow ELSE shares[x]
<1>1. purged \in SUBSET Shares
  BY DEF TypeOK
<1> DEFINE row == Row(s)
           rest == Purged(purged)
<1>2. row \in ShareRow /\ rest \in [Shares -> ShareRow]
      /\ \A x \in Shares : rest[x] = IF x \in purged THEN NoRow ELSE shares[x]
  BY <1>1, PurgedIs, NewRowIs
<1>3. shares' = [rest EXCEPT ![s] = row]
  BY DEF Commit
<1> HIDE DEF rest
<1> QED
  BY <1>2, <1>3

\* A row stays what it is, goes, is revoked, or is made by its creation.
LEMMA RowsStep ==
  ASSUME TypeOK, [Next]_vars
  PROVE  /\ shares' \in [Shares -> ShareRow]
         /\ \A s \in Shares :
              \/ shares'[s] = shares[s] \/ shares'[s] = NoRow
              \/ /\ shares[s].present /\ shares'[s].present
                 /\ shares'[s].revoked
              \/ /\ pc[s] = "placed" /\ pc'[s] = "shared" /\ shares'[s] = Row(s)
                 /\ exports' = exports /\ asked' = asked
<1>0. shares \in [Shares -> ShareRow] /\ DOMAIN pc = Shares
  BY DEF TypeOK, ShareRow
<1>1. ASSUME NEW s \in Shares, Admit(s), shares' # shares
      PROVE  /\ shares' \in [Shares -> ShareRow]
             /\ \A x \in Shares : shares'[x] \in {NoRow, shares[x]}
  <2>1. Stale(asked[s].now) \in SUBSET Shares
    BY DEF Stale
  <2>2. shares' = Purged(Stale(asked[s].now))
    BY <1>1 DEF Admit
  <2> QED
    BY <2>1, <2>2, PurgedIs
<1>2. ASSUME NEW s \in Shares, Commit(s)
      PROVE  /\ shares' \in [Shares -> ShareRow]
             /\ \A x \in Shares : \/ shares'[x] \in {NoRow, shares[x]}
                                  \/ /\ pc[x] = "placed" /\ pc'[x] = "shared"
                                     /\ shares'[x] = Row(x) /\ exports' = exports
                                     /\ asked' = asked
  <2>1. pc[s] = "placed" /\ pc'[s] = "shared" /\ exports' = exports /\ asked' = asked
    BY <1>0, <1>2 DEF Commit, Insertable
  <2> QED
    BY <1>2, <2>1, CommittedIs
<1>3. ASSUME (\E s \in Shares : Revoke(s)) \/ RevokeMissing
      PROVE  /\ shares' \in [Shares -> ShareRow]
             /\ \A x \in Shares : \/ shares'[x] = shares[x]
                                  \/ shares[x].present /\ shares'[x].present
                                     /\ shares'[x].revoked
  <2>1. PICK gone \in SUBSET Shares : shares' = Revoked(gone)
    BY <1>3 DEF Revoke, RevokeMissing, TypeOK
  <2> QED
    BY <2>1, RevokedIs
<1>4. CASE UNCHANGED shares
  BY <1>0, <1>4
<1> QED
  BY <1>1, <1>2, <1>3, <1>4
  DEF Next, vars, store, Create, Reconcile, Ask, Stage, Place, CreateFails, _remove_exports,
      ListSources, SelectMissing, RemoveMissing, ViewerCrash, verify, _claim_device,
      _authorized, content, Archive, Tick

-----------------------------------------------------------------------------
(* Types *)

\* The record fields a step may leave.
LEMMA TickIs ==
  ASSUME TypeOK, Reconcile \/ ViewerCrash \/ UNCHANGED tick
  PROVE  tick' \in [at : {"idle", "listed", "selected", "revoked"}, ids : SUBSET Recordings,
                    missing : SUBSET Shares]
<1>1. CASE ListSources
  BY <1>1 DEF ListSources, Kept
<1>2. CASE SelectMissing
  BY <1>2 DEF SelectMissing, Missing
<1>3. CASE RevokeMissing
  BY <1>3 DEF RevokeMissing, TypeOK
<1>4. CASE tick' = Idle
  BY <1>4 DEF Idle
<1>5. CASE UNCHANGED tick
  BY <1>5 DEF TypeOK
<1> QED
  BY <1>1, <1>2, <1>3, <1>4, <1>5 DEF Reconcile, RemoveMissing, ViewerCrash

LEMMA VisitIs ==
  ASSUME TypeOK, [Next]_vars
  PROVE  visit' \in [Devices -> [at : {"away", "verified", "granted"},
                                 share : Shares \cup {NoShare}]]
<1>1. ASSUME NEW d \in Devices, NEW s \in Shares, verify(d, s) \/ _authorized(d, s)
      PROVE  visit' \in [Devices -> [at : {"away", "verified", "granted"},
                                     share : Shares \cup {NoShare}]]
  <2>1. \A at \in {"verified", "granted"} :
          [at |-> at, share |-> s] \in [at : {"away", "verified", "granted"},
                                       share : Shares \cup {NoShare}]
    OBVIOUS
  <2>2. PICK at \in {"verified", "granted"} : visit' = [visit EXCEPT ![d] = [at |-> at, share |-> s]]
    BY <1>1 DEF verify, _authorized
  <2> QED
    BY <2>1, <2>2 DEF TypeOK
<1>2. ASSUME NEW d \in Devices, visit' = [visit EXCEPT ![d] = Away]
      PROVE  visit' \in [Devices -> [at : {"away", "verified", "granted"},
                                     share : Shares \cup {NoShare}]]
  BY <1>2 DEF Away, TypeOK
<1>3. CASE UNCHANGED visit
  BY <1>3 DEF TypeOK
<1> QED
  BY <1>1, <1>2, <1>3
  DEF Next, vars, gateway, Create, Reconcile, Ask, Admit, Stage, Place, Commit, CreateFails, Revoke,
      _remove_exports, ListSources, SelectMissing, RevokeMissing, RemoveMissing, ViewerCrash,
      _claim_device, content, Archive, Tick

LEMMA DirectoriesAre ==
  ASSUME TypeOK, [Next]_vars
  PROVE  exports' \in [Shares -> Nat] /\ staging' \in [Shares -> Nat]
<1>1. \A gone : Without(exports, gone) \in [Shares -> Nat] /\ Without(staging, gone) \in [Shares -> Nat]
  BY DEF Without, TypeOK
<1>2. ASSUME NEW s \in Shares, Admit(s) PROVE exports' \in [Shares -> Nat] /\ staging' \in [Shares -> Nat]
  BY <1>1, <1>2 DEF Admit
<1>3. ASSUME NEW s \in Shares, Stage(s) \/ Place(s) \/ CreateFails(s) \/ _remove_exports(s)
      PROVE  exports' \in [Shares -> Nat] /\ staging' \in [Shares -> Nat]
  <2>1. exports \in [Shares -> Nat] /\ staging \in [Shares -> Nat] /\ asked[s].bytes \in Nat
    BY DEF TypeOK
  <2> QED
    BY <1>3, <2>1 DEF Stage, Place, Placed, CreateFails, _remove_exports
<1>4. CASE RemoveMissing
  BY <1>1, <1>4 DEF RemoveMissing, TypeOK
<1>5. CASE UNCHANGED <<exports, staging>>
  BY <1>5 DEF TypeOK
<1> QED
  BY <1>2, <1>3, <1>4, <1>5
  DEF Next, vars, store, Create, Reconcile, Ask, Commit, Revoke, ListSources, SelectMissing,
      RevokeMissing, ViewerCrash, verify, _claim_device, _authorized, content, Archive, Tick

LEMMA AskedIs ==
  ASSUME TypeOK, [Next]_vars
  PROVE  asked' \in [Shares -> [source : Recordings, bytes : Nat, now : Nat]]
<1>1. ASSUME NEW s \in Shares, Ask(s)
      PROVE  asked' \in [Shares -> [source : Recordings, bytes : Nat, now : Nat]]
  <2>1. PICK r \in Recordings, b \in Sizes :
          asked' = [asked EXCEPT ![s] = [source |-> r, bytes |-> b, now |-> clock]]
    BY <1>1 DEF Ask
  <2>2. [source |-> r, bytes |-> b, now |-> clock] \in [source : Recordings, bytes : Nat, now : Nat]
    BY ShareAssumption DEF TypeOK
  <2> QED
    BY <2>1, <2>2 DEF TypeOK
<1>2. CASE UNCHANGED asked
  BY <1>2 DEF TypeOK
<1> QED
  BY <1>1, <1>2
  DEF Next, vars, store, Create, Reconcile, Admit, Stage, Place, Commit, CreateFails, Revoke,
      _remove_exports, ListSources, SelectMissing, RevokeMissing, RemoveMissing, ViewerCrash,
      verify, _claim_device, _authorized, content, Archive, Tick

\* Where the creations are, and who holds the lock.
PcTypes == /\ pc \in [Shares -> {"unborn", "asked", "admitted", "staged", "placed", "shared",
                                 "refused", "lost"}]
           /\ writer \in Shares \cup {NoShare} /\ purged \subseteq Shares
           /\ \A s \in Shares : pc[s] \in Writing <=> writer = s

LEMMA PcIs ==
  ASSUME TypeOK, [Next]_vars
  PROVE  PcTypes' /\ \A s \in Shares : pc[s] = "shared" => pc'[s] = "shared"
<1> USE DEF PcTypes
<1>0. PcTypes /\ NoShare \notin Shares
  BY ShareAssumption DEF TypeOK
<1>1. ASSUME NEW s \in Shares, Ask(s)
      PROVE  PcTypes' /\ \A x \in Shares : pc[x] = "shared" => pc'[x] = "shared"
  BY <1>0, <1>1 DEF Ask, Writing
<1>2. ASSUME NEW s \in Shares, Admit(s)
      PROVE  PcTypes' /\ \A x \in Shares : pc[x] = "shared" => pc'[x] = "shared"
  BY <1>0, <1>2 DEF Admit, Writing, WriterFree, Stale
<1>3. ASSUME NEW s \in Shares, Stage(s) \/ Place(s)
      PROVE  PcTypes' /\ \A x \in Shares : pc[x] = "shared" => pc'[x] = "shared"
  BY <1>0, <1>3 DEF Stage, Place, Writing
<1>4. ASSUME NEW s \in Shares, Commit(s) \/ CreateFails(s)
      PROVE  PcTypes' /\ \A x \in Shares : pc[x] = "shared" => pc'[x] = "shared"
  BY <1>0, <1>4 DEF Commit, Insertable, CreateFails, Writing
<1>5. CASE ViewerCrash
  BY <1>0, <1>5 DEF ViewerCrash, Writing
<1>6. CASE UNCHANGED <<pc, writer, purged>>
  BY <1>0, <1>6
<1> QED
  BY <1>1, <1>2, <1>3, <1>4, <1>5, <1>6
  DEF Next, vars, store, Create, Reconcile, Revoke, _remove_exports, ListSources, SelectMissing,
      RevokeMissing, RemoveMissing, verify, _claim_device, _authorized, content, Archive, Tick

LEMMA ClockIs ==
  ASSUME TypeOK, [Next]_vars
  PROVE  clock' \in Nat /\ clock <= clock'
<1>1. CASE Tick
  BY <1>1 DEF Tick, TypeOK
<1>2. CASE UNCHANGED clock
  BY <1>2 DEF TypeOK
<1> QED
  BY <1>1, <1>2
  DEF Next, vars, bounds, Create, Reconcile, Ask, Admit, Stage, Place, Commit, CreateFails, Revoke,
      _remove_exports, ListSources, SelectMissing, RevokeMissing, RemoveMissing, ViewerCrash,
      verify, _claim_device, _authorized, content, Archive

LEMMA RestIs ==
  ASSUME TypeOK, Visiting, [Next]_vars
  PROVE  /\ library' \in [Recordings -> {"active", "archived", "deleted"}]
         /\ revoking' \subseteq Shares
         /\ device_claims' \in [Shares -> Devices \cup {NoDevice}]
         /\ cookies' \in [Devices -> SUBSET Shares]
         /\ faults' \in Nat /\ moves' \in Nat
<1>1. library' \in [Recordings -> {"active", "archived", "deleted"}] /\ moves' \in Nat
  <2>1. ASSUME NEW r \in Recordings, Archive(r)
        PROVE  library' \in [Recordings -> {"active", "archived", "deleted"}] /\ moves' \in Nat
    BY <2>1 DEF Archive, TypeOK
  <2>2. CASE UNCHANGED <<library, moves>>
    BY <2>2 DEF TypeOK
  <2> QED
    BY <2>1, <2>2
    DEF Next, vars, bounds, Create, Reconcile, Ask, Admit, Stage, Place, Commit, CreateFails,
        Revoke, _remove_exports, ListSources, SelectMissing, RevokeMissing, RemoveMissing,
        ViewerCrash, verify, _claim_device, _authorized, content, Tick
<1>2. revoking' \subseteq Shares
  BY DEF Next, vars, TypeOK, Create, Reconcile, Ask, Admit, Stage, Place, Commit, CreateFails,
     Revoke, _remove_exports, ListSources, SelectMissing, RevokeMissing, RemoveMissing,
     ViewerCrash, verify, _claim_device, _authorized, content, Archive, Tick
<1>3. /\ device_claims' \in [Shares -> Devices \cup {NoDevice}]
      /\ cookies' \in [Devices -> SUBSET Shares] /\ faults' \in Nat
  <2>1. ASSUME NEW d \in Devices, _claim_device(d)
        PROVE  /\ device_claims' \in [Shares -> Devices \cup {NoDevice}]
               /\ cookies' \in [Devices -> SUBSET Shares] /\ faults' \in Nat
    <3> DEFINE s == visit[d].share
    <3>1. s \in Shares
      BY <2>1 DEF Visiting, _claim_device
    <3>2. device_claims' \in [Shares -> Devices \cup {NoDevice}]
      BY <2>1 DEF _claim_device, TypeOK
    <3>3. faults' \in Nat
      BY <2>1 DEF _claim_device, Fault, TypeOK
    <3>4. cookies' \in [Devices -> SUBSET Shares]
      BY <2>1, <3>1 DEF _claim_device, TypeOK
    <3> QED
      BY <3>2, <3>3, <3>4
  <2>2. CASE UNCHANGED <<device_claims, cookies>> /\ (faults' = faults \/ Fault)
    BY <2>2 DEF TypeOK, Fault
  <2> QED
    BY <2>1, <2>2
    DEF Next, vars, bounds, gateway, Create, Reconcile, Ask, Admit, Stage, Place, Commit,
        CreateFails, Revoke, _remove_exports, ListSources, SelectMissing, RevokeMissing,
        RemoveMissing, ViewerCrash, verify, _authorized, content, Archive, Tick
<1> QED
  BY <1>1, <1>2, <1>3

LEMMA TypesStep == ShareInv /\ [Next]_vars => TypeOK'
<1> SUFFICES ASSUME ShareInv, [Next]_vars PROVE TypeOK'
  OBVIOUS
<1>0. TypeOK /\ Visiting
  BY DEF ShareInv
<1>1. shares' \in [Shares -> ShareRow]
  BY <1>0, RowsStep
<1>2. tick' \in [at : {"idle", "listed", "selected", "revoked"}, ids : SUBSET Recordings,
                 missing : SUBSET Shares]
  <2>1. Reconcile \/ ViewerCrash \/ UNCHANGED tick
    BY DEF Next, vars, Create, Ask, Admit, Stage, Place, Commit, CreateFails, Revoke,
       _remove_exports, verify, _claim_device, _authorized, content, Archive, Tick
  <2> QED
    BY <1>0, <2>1, TickIs
<1> QED
  BY <1>0, <1>1, <1>2, VisitIs, DirectoriesAre, AskedIs, PcIs, ClockIs, RestIs
  DEF TypeOK, PcTypes, ShareRow

-----------------------------------------------------------------------------
(* The other parts of ShareInv *)

\* What a step may do to the directory of a creation that has placed it.
LEMMA PlacedKept ==
  ASSUME ShareInv, [Next]_vars, NEW s \in Shares, pc'[s] = "placed"
  PROVE  exports'[s] = asked'[s].bytes
<1>0. TypeOK /\ Owned /\ Ending /\ NoShare \notin Shares
      /\ \A x \in Shares : pc[x] \in Writing <=> writer = x
  BY ShareAssumption DEF ShareInv, TypeOK
<1>1. CASE pc[s] = "placed"
  <2>1. exports[s] = asked[s].bytes /\ writer = s
        /\ \A x \in Shares \ {s} : pc[x] \notin Writing
    BY <1>0, <1>1 DEF Owned, Writing
  <2>2. s \notin revoking /\ (tick.at = "revoked" => s \notin tick.missing)
    BY <1>0, <1>1 DEF Ending, Over
  <2>3. asked'[s] = asked[s]
    <3>1. ASSUME NEW x \in Shares, Ask(x) PROVE asked'[s] = asked[s]
      BY <1>0, <1>1, <3>1 DEF Ask, TypeOK
    <3>2. CASE UNCHANGED asked
      BY <3>2
    <3> QED
      BY <3>1, <3>2
      DEF Next, vars, store, Create, Reconcile, Admit, Stage, Place, Commit, CreateFails, Revoke,
          _remove_exports, ListSources, SelectMissing, RevokeMissing, RemoveMissing, ViewerCrash,
          verify, _claim_device, _authorized, content, Archive, Tick
  <2>4. exports'[s] = exports[s]
    <3>1. ASSUME NEW x \in Shares, Admit(x) PROVE exports'[s] = exports[s]
      BY <1>0, <2>1, <3>1 DEF Admit, WriterFree
    <3>2. ASSUME NEW x \in Shares, Place(x) \/ CreateFails(x) PROVE exports'[s] = exports[s]
      <4>1. x # s
        BY <1>0, <1>1, <3>2 DEF Place, CreateFails, TypeOK
      <4> QED
        BY <1>0, <2>1, <3>2, <4>1 DEF Place, CreateFails, Writing
    <3>3. ASSUME NEW x \in Shares, _remove_exports(x) PROVE exports'[s] = exports[s]
      BY <1>0, <2>2, <3>3 DEF _remove_exports, TypeOK
    <3>4. CASE RemoveMissing
      BY <1>0, <2>2, <3>4 DEF RemoveMissing, Without
    <3>5. CASE UNCHANGED exports
      BY <3>5
    <3> QED
      BY <3>1, <3>2, <3>3, <3>4, <3>5
      DEF Next, vars, store, Create, Reconcile, Ask, Stage, Commit, Revoke, ListSources,
          SelectMissing, RevokeMissing, ViewerCrash, verify, _claim_device, _authorized, content,
          Archive, Tick
  <2> QED
    BY <2>1, <2>3, <2>4
<1>2. CASE pc[s] # "placed"
  <2>1. Place(s)
    <3>1. ASSUME NEW x \in Shares, Ask(x) \/ Admit(x) \/ Stage(x) \/ Commit(x) \/ CreateFails(x)
          PROVE  pc'[s] # "placed"
      BY <1>0, <1>2, <3>1 DEF Ask, Admit, Stage, Commit, CreateFails, TypeOK
    <3>2. ASSUME NEW x \in Shares, Place(x), x # s PROVE pc'[s] # "placed"
      BY <1>0, <1>2, <3>2 DEF Place, TypeOK
    <3>3. CASE ViewerCrash
      BY <1>0, <1>2, <3>3 DEF ViewerCrash
    <3>4. CASE UNCHANGED pc
      BY <1>2, <3>4
    <3> QED
      BY <3>1, <3>2, <3>3, <3>4
      DEF Next, vars, store, Create, Reconcile, Revoke, _remove_exports, ListSources,
          SelectMissing, RevokeMissing, RemoveMissing, verify, _claim_device, _authorized, content,
          Archive, Tick
  <2> QED
    BY <1>0, <2>1 DEF Place, TypeOK
<1> QED
  BY <1>1, <1>2

LEMMA OwnedStep == ShareInv /\ [Next]_vars => Owned'
<1> SUFFICES ASSUME ShareInv, [Next]_vars, NEW s \in Shares
    PROVE  /\ shares'[s].present => pc'[s] = "shared"
           /\ pc'[s] = "placed" => exports'[s] = asked'[s].bytes
           /\ asked'[s].now <= clock'
  BY DEF Owned
<1>0. TypeOK /\ Owned
  BY DEF ShareInv
<1>1. shares'[s].present => pc'[s] = "shared"
  BY <1>0, RowsStep, PcIs, NoRowIs DEF Owned
<1>2. asked'[s].now <= clock'
  <2>1. asked[s].now <= clock /\ clock <= clock' /\ clock \in Nat /\ clock' \in Nat
        /\ asked[s].now \in Nat
    BY <1>0, ClockIs DEF Owned, TypeOK
  <2>2. asked'[s] = asked[s] \/ asked'[s].now = clock
    <3>1. ASSUME NEW x \in Shares, Ask(x) PROVE asked'[s] = asked[s] \/ asked'[s].now = clock
      BY <1>0, <3>1 DEF Ask, TypeOK
    <3>2. CASE UNCHANGED asked
      BY <3>2
    <3> QED
      BY <3>1, <3>2
      DEF Next, vars, store, Create, Reconcile, Admit, Stage, Place, Commit, CreateFails, Revoke,
          _remove_exports, ListSources, SelectMissing, RevokeMissing, RemoveMissing, ViewerCrash,
          verify, _claim_device, _authorized, content, Archive, Tick
  <2> QED
    BY <2>1, <2>2
<1> QED
  BY <1>1, <1>2, PlacedKept

\* What is over stays so.
LEMMA OverStays ==
  ASSUME ShareInv, [Next]_vars, NEW s \in Shares, Over(s)
  PROVE  Over(s)'
<1>1. TypeOK
  BY DEF ShareInv
<1>2. pc[s] = "shared" /\ pc'[s] = "shared"
  BY <1>1, PcIs DEF Over
<1> QED
  BY <1>1, <1>2, RowsStep, NoRowIs DEF Over

LEMMA EndingStep == ShareInv /\ [Next]_vars => Ending'
<1> SUFFICES ASSUME ShareInv, [Next]_vars PROVE Ending'
  OBVIOUS
<1>0. TypeOK /\ Owned /\ Ending
  BY DEF ShareInv
<1>1. ASSUME NEW s \in revoking' PROVE Over(s)'
  <2>0. s \in Shares
    BY RestIs DEF ShareInv
  <2>1. CASE s \in revoking
    BY <2>0, <2>1, OverStays DEF ShareInv, Ending
  <2>2. CASE Revoke(s)
    <3>1. pc[s] = "shared" /\ pc'[s] = "shared"
      BY <1>0, <2>0, <2>2, PcIs DEF Owned, Revoke
    <3>2. shares'[s].present => shares'[s].revoked
      BY <1>0, <2>0, <2>2, RevokedIs DEF Revoke
    <3> QED
      BY <3>1, <3>2 DEF Over
  <2> QED
    BY <1>1, <2>1, <2>2
    DEF Next, vars, Create, Reconcile, Ask, Admit, Stage, Place, Commit, CreateFails, Revoke,
        _remove_exports, ListSources, SelectMissing, RevokeMissing, RemoveMissing, ViewerCrash,
        verify, _claim_device, _authorized, content, Archive, Tick
<1>2. \A s \in tick.missing : s \in Shares /\ pc[s] = "shared" /\ pc'[s] = "shared"
  BY <1>0, PcIs DEF Ending, TypeOK
<1>3. CASE UNCHANGED tick
  <2>1. ASSUME tick'.at = "revoked", NEW s \in tick'.missing PROVE Over(s)'
    <3>1. s \in Shares /\ Over(s)
      BY <1>0, <1>3, <2>1 DEF Ending, TypeOK
    <3> QED
      BY <3>1, OverStays
  <2> QED
    BY <1>1, <1>2, <1>3, <2>1 DEF Ending
<1>4. CASE ListSources \/ RemoveMissing \/ ViewerCrash
  BY <1>1, <1>4 DEF ListSources, RemoveMissing, ViewerCrash, Idle, Ending, TypeOK
<1>5. CASE SelectMissing
  <2>1. tick'.at = "selected" /\ tick'.missing = Missing(tick.ids) /\ pc' = pc
    BY <1>5 DEF SelectMissing, store
  <2>2. \A s \in Missing(tick.ids) : pc[s] = "shared"
    BY <1>0 DEF Missing, Active, Live, Owned
  <2> QED
    BY <1>1, <2>1, <2>2 DEF Ending
<1>6. CASE RevokeMissing
  <2>1. tick'.missing = tick.missing /\ tick.missing \in SUBSET Shares
        /\ shares' = Revoked(tick.missing)
    BY <1>0, <1>6 DEF RevokeMissing, TypeOK
  <2>2. \A s \in tick.missing : shares'[s].present => shares'[s].revoked
    BY <1>0, <2>1, RevokedIs
  <2> QED
    BY <1>1, <1>2, <2>1, <2>2 DEF Ending, Over
<1> QED
  BY <1>3, <1>4, <1>5, <1>6
  DEF Next, vars, Create, Reconcile, Ask, Admit, Stage, Place, Commit, CreateFails, Revoke,
      _remove_exports, verify, _claim_device, _authorized, content, Archive, Tick

LEMMA VisitingStep == ShareInv /\ [Next]_vars => Visiting'
<1> SUFFICES ASSUME ShareInv, [Next]_vars, NEW d \in Devices, visit'[d].at = "verified"
    PROVE  visit'[d].share \in Shares /\ pc'[visit'[d].share] = "shared"
  BY DEF Visiting
<1>0. TypeOK /\ Visiting
  BY DEF ShareInv
<1>1. CASE visit'[d] = visit[d]
  BY <1>0, <1>1, PcIs DEF Visiting
<1>2. ASSUME NEW s \in Shares, verify(d, s) PROVE visit'[d].share = s /\ pc[s] = "shared"
  BY <1>0, <1>2 DEF verify, TypeOK
<1>3. visit'[d] = visit[d] \/ \E s \in Shares : verify(d, s)
  <2>1. ASSUME NEW e \in Devices, NEW s \in Shares, verify(e, s), e # d PROVE visit'[d] = visit[d]
    BY <1>0, <2>1 DEF verify, TypeOK
  <2>2. ASSUME NEW e \in Devices, NEW s \in Shares, _authorized(e, s) PROVE visit'[d] = visit[d]
    BY <1>0, <2>2 DEF _authorized, TypeOK
  <2>3. ASSUME NEW e \in Devices, _claim_device(e) \/ content(e) PROVE visit'[d] = visit[d]
    BY <1>0, <2>3 DEF _claim_device, content, Away, TypeOK
  <2>4. UNCHANGED visit => visit'[d] = visit[d]
    OBVIOUS
  <2> QED
    BY <2>1, <2>2, <2>3, <2>4
    DEF Next, vars, gateway, Create, Reconcile, Ask, Admit, Stage, Place, Commit, CreateFails,
        Revoke, _remove_exports, ListSources, SelectMissing, RevokeMissing, RemoveMissing,
        ViewerCrash, Archive, Tick
<1> QED
  BY <1>0, <1>1, <1>2, <1>3, PcIs

\* A share that was handed out and is over is never offered again.
LEMMA NoRevival ==
  ASSUME ShareInv, [Next]_vars, NEW s \in Shares, Active(s)',
         pc[s] = "shared" \/ shares'[s] = shares[s]
  PROVE  Active(s) /\ shares'[s] = shares[s]
<1>1. TypeOK
  BY DEF ShareInv
<1>2. shares'[s].present /\ ~shares'[s].revoked /\ shares'[s].expires > clock'
  BY DEF Active, Live
<1>3. shares'[s] = shares[s]
  BY <1>1, <1>2, RowsStep, NoRowIs
<1>4. clock \in Nat /\ clock' \in Nat /\ clock <= clock' /\ shares[s].expires \in Nat
  BY <1>1, ClockIs DEF TypeOK
<1> QED
  BY <1>2, <1>3, <1>4 DEF Active, Live

LEMMA WholeStep == ShareInv /\ [Next]_vars => ActiveIsWhole'
<1> SUFFICES ASSUME ShareInv, [Next]_vars, NEW s \in Shares, Active(s)'
    PROVE  exports'[s] = shares'[s].bytes
  BY DEF ActiveIsWhole
<1>0. TypeOK /\ Owned /\ Ending /\ ActiveIsWhole
  BY DEF ShareInv
<1>1. shares'[s].present /\ ~shares'[s].revoked
  BY DEF Active, Live
<1>2. CASE shares'[s] # shares[s]
  <2>1. pc[s] = "placed" /\ shares'[s] = Row(s) /\ exports' = exports
    BY <1>0, <1>1, <1>2, RowsStep, NoRowIs
  <2> QED
    BY <1>0, <2>1, NewRowIs DEF Owned
<1>3. CASE shares'[s] = shares[s]
  <2>1. Active(s) /\ shares[s].present /\ ~shares[s].revoked /\ pc[s] = "shared"
    BY <1>0, <1>3, NoRevival DEF Active, Live, Owned
  <2>2. exports[s] = shares[s].bytes
    BY <1>0, <2>1 DEF ActiveIsWhole
  <2>3. ~Over(s)
    BY <2>1 DEF Over
  <2>4. exports'[s] = exports[s]
    <3>1. ASSUME NEW x \in Shares, Admit(x) PROVE exports'[s] = exports[s]
      <4>1. /\ asked[x].now <= clock /\ shares[s].expires > clock
            /\ asked[x].now \in Nat /\ clock \in Nat /\ shares[s].expires \in Nat
        BY <1>0, <2>1 DEF Owned, TypeOK, Active, Live
      <4>2. s \notin Stale(asked[x].now)
        BY <2>1, <4>1 DEF Stale, Live
      <4> QED
        BY <1>0, <3>1, <4>2 DEF Admit, Without
    <3>2. ASSUME NEW x \in Shares, Place(x) \/ CreateFails(x) PROVE exports'[s] = exports[s]
      <4>1. x # s
        BY <2>1, <3>2 DEF Place, CreateFails, Writing
      <4> QED
        BY <1>0, <3>2, <4>1 DEF Place, CreateFails, TypeOK
    <3>3. ASSUME NEW x \in Shares, _remove_exports(x) PROVE exports'[s] = exports[s]
      <4>1. x # s
        BY <1>0, <2>3, <3>3 DEF _remove_exports, Ending
      <4> QED
        BY <1>0, <3>3, <4>1 DEF _remove_exports, TypeOK
    <3>4. CASE RemoveMissing
      <4>1. s \notin tick.missing
        BY <1>0, <2>3, <3>4 DEF RemoveMissing, Ending
      <4> QED
        BY <3>4, <4>1 DEF RemoveMissing, Without
    <3>5. CASE UNCHANGED exports
      BY <3>5
    <3> QED
      BY <3>1, <3>2, <3>3, <3>4, <3>5
      DEF Next, vars, store, Create, Reconcile, Ask, Stage, Commit, Revoke, ListSources,
          SelectMissing, RevokeMissing, ViewerCrash, verify, _claim_device, _authorized, content,
          Archive, Tick
  <2> QED
    BY <1>3, <2>2, <2>4
<1> QED
  BY <1>2, <1>3

LEMMA InitShares == Init => ShareInv
<1> SUFFICES ASSUME Init PROVE ShareInv
  OBVIOUS
<1>1. \A s \in Shares : shares[s] = NoRow /\ pc[s] = "unborn" /\ asked[s] = Unborn
  BY DEF Init
<1>2. TypeOK
  <2>1. shares \in [Shares -> ShareRow]
    BY NoRowIs DEF Init
  <2>2. asked \in [Shares -> [source : Recordings, bytes : Nat, now : Nat]]
    <3>1. (CHOOSE r \in Recordings : TRUE) \in Recordings
      BY ShareAssumption
    <3>2. Unborn \in [source : Recordings, bytes : Nat, now : Nat]
      BY <3>1 DEF Unborn
    <3> QED
      BY <3>2 DEF Init
  <2> QED
    BY <2>1, <2>2, ShareAssumption DEF Init, TypeOK, ShareRow, Writing, Idle, Away
<1>3. Owned
  BY <1>1, NoRowIs DEF Owned, Unborn, Init
<1>4. Ending /\ Visiting
  BY DEF Init, Ending, Visiting, Idle, Away
<1>5. ActiveIsWhole
  BY <1>1, NoRowIs DEF ActiveIsWhole, Active, Live
<1> QED
  BY <1>2, <1>3, <1>4, <1>5 DEF ShareInv

-----------------------------------------------------------------------------
(* Sizes *)

Sized == [Shares -> Nat]

\* The bytes of one directory.
LEMMA BytesOfOne ==
  ASSUME NEW s, NEW n \in Nat
  PROVE  IsFiniteSet({s} \X (1 .. n)) /\ Cardinality({s} \X (1 .. n)) = n
<1> DEFINE one == {s}
           upTo == 1 .. n
<1>1. IsFiniteSet(one) /\ Cardinality(one) = 1
  BY FS_Singleton
<1>2. 1 \in Int /\ n \in Int
  OBVIOUS
<1>3. IsFiniteSet(upTo) /\ Cardinality(upTo) = IF 1 > n THEN 0 ELSE n - 1 + 1
  BY <1>2, FS_Interval
<1>4. Cardinality(upTo) = n
  BY <1>3
<1> HIDE DEF one, upTo
<1>5. IsFiniteSet(one \X upTo) /\ Cardinality(one \X upTo) = Cardinality(one) * Cardinality(upTo)
  BY <1>1, <1>3, FS_Product
<1>6. Cardinality(one \X upTo) = n
  BY <1>1, <1>4, <1>5
<1> QED
  BY <1>5, <1>6 DEF one, upTo

LEMMA BytesType ==
  ASSUME NEW f \in Sized
  PROVE  IsFiniteSet(BytesOf(f)) /\ Bytes(f) \in Nat
<1> DEFINE of(s) == {s} \X (1 .. f[s])
           all == {of(s) : s \in Shares}
           g == [s \in Shares |-> of(s)]
<1>1. \A s \in Shares : IsFiniteSet(of(s))
  BY BytesOfOne DEF Sized
<1>2. g \in Surjection(Shares, all)
  <2> HIDE DEF of
  <2> QED
    BY DEF Surjection
<1>3. IsFiniteSet(all)
  BY <1>2, FS_Surjection, ShareAssumption
<1>4. \A T \in all : IsFiniteSet(T)
  BY <1>1
<1>5. IsFiniteSet(UNION all)
  <2> HIDE DEF all
  <2> QED
    BY <1>3, <1>4, FS_UNION
<1>6. BytesOf(f) = UNION all
  BY DEF BytesOf
<1> QED
  BY <1>5, <1>6, FS_CardinalityType DEF Bytes

LEMMA BytesIn ==
  ASSUME NEW f \in Sized, NEW s, NEW b
  PROVE  <<s, b>> \in BytesOf(f) <=> s \in Shares /\ b \in 1 .. f[s]
BY DEF BytesOf

LEMMA BytesPairs ==
  ASSUME NEW f \in Sized, NEW p \in BytesOf(f)
  PROVE  p = <<p[1], p[2]>> /\ p[1] \in Shares /\ p[2] \in 1 .. f[p[1]]
BY DEF BytesOf

LEMMA BytesZero ==
  ASSUME NEW f \in Sized, \A s \in Shares : f[s] = 0
  PROVE  Bytes(f) = 0
<1>1. BytesOf(f) = {}
  BY BytesPairs
<1> QED
  BY <1>1, FS_EmptySet DEF Bytes

LEMMA BytesMonotone ==
  ASSUME NEW f \in Sized, NEW g \in Sized, \A s \in Shares : f[s] <= g[s]
  PROVE  Bytes(f) <= Bytes(g)
<1>1. BytesOf(f) \subseteq BytesOf(g)
  <2> SUFFICES ASSUME NEW p \in BytesOf(f) PROVE p \in BytesOf(g)
    OBVIOUS
  <2>1. p = <<p[1], p[2]>> /\ p[1] \in Shares /\ p[2] \in 1 .. f[p[1]]
    BY BytesPairs
  <2>2. p[2] \in 1 .. g[p[1]]
    BY <2>1 DEF Sized
  <2> QED
    BY <2>1, <2>2, BytesIn
<1> QED
  BY <1>1, BytesType, FS_Subset DEF Bytes

\* Adding to the directory of one share.
LEMMA BytesWritten ==
  ASSUME NEW f \in Sized, NEW s \in Shares, NEW n \in Nat
  PROVE  /\ [f EXCEPT ![s] = n] \in Sized
         /\ Bytes([f EXCEPT ![s] = n]) <= Bytes(f) + n
<1> DEFINE g == [f EXCEPT ![s] = n]
           new == {s} \X (1 .. n)
<1>1. g \in Sized /\ g[s] = n /\ \A x \in Shares \ {s} : g[x] = f[x]
  BY DEF Sized
<1>2. IsFiniteSet(new) /\ Cardinality(new) = n
  BY BytesOfOne
<1>3. BytesOf(g) \subseteq BytesOf(f) \cup new
  <2> HIDE DEF g
  <2> SUFFICES ASSUME NEW p \in BytesOf(g) PROVE p \in BytesOf(f) \cup new
    OBVIOUS
  <2>1. p = <<p[1], p[2]>> /\ p[1] \in Shares /\ p[2] \in 1 .. g[p[1]]
    BY <1>1, BytesPairs
  <2>2. CASE p[1] = s
    BY <1>1, <2>1, <2>2
  <2>3. CASE p[1] # s
    BY <1>1, <2>1, <2>3, BytesIn
  <2> QED
    BY <2>2, <2>3
<1> HIDE DEF g, new
<1>4. IsFiniteSet(BytesOf(f)) /\ Cardinality(BytesOf(f)) \in Nat
  BY BytesType DEF Bytes
<1>5. /\ IsFiniteSet(BytesOf(f) \cup new)
      /\ Cardinality(BytesOf(f) \cup new)
           = Cardinality(BytesOf(f)) + n - Cardinality(BytesOf(f) \cap new)
  BY <1>2, <1>4, FS_Union
<1>6. Cardinality(BytesOf(f) \cap new) \in Nat
  BY <1>2, FS_Subset, FS_CardinalityType
<1>7. Cardinality(BytesOf(g)) <= Cardinality(BytesOf(f) \cup new)
      /\ Cardinality(BytesOf(g)) \in Nat
  BY <1>3, <1>5, FS_Subset, FS_CardinalityType
<1>8. Bytes(g) <= Bytes(f) + n
  BY <1>4, <1>5, <1>6, <1>7 DEF Bytes
<1> QED
  BY <1>1, <1>8 DEF g

\* Emptying the directory of one share frees all it held.
LEMMA BytesRemoved ==
  ASSUME NEW f \in Sized, NEW s \in Shares
  PROVE  /\ [f EXCEPT ![s] = 0] \in Sized
         /\ Bytes([f EXCEPT ![s] = 0]) + f[s] <= Bytes(f)
<1> DEFINE g == [f EXCEPT ![s] = 0]
           old == {s} \X (1 .. f[s])
<1>1. g \in Sized /\ g[s] = 0 /\ \A x \in Shares \ {s} : g[x] = f[x]
  BY DEF Sized
<1>2. f[s] \in Nat
  BY DEF Sized
<1>3. IsFiniteSet(old) /\ Cardinality(old) = f[s]
  BY <1>2, BytesOfOne
<1>4. BytesOf(g) \cup old \subseteq BytesOf(f)
  <2> HIDE DEF g
  <2>1. ASSUME NEW p \in BytesOf(g) PROVE p \in BytesOf(f)
    <3>1. p = <<p[1], p[2]>> /\ p[1] \in Shares /\ p[2] \in 1 .. g[p[1]]
      BY <1>1, <2>1, BytesPairs
    <3>2. p[1] # s
      BY <1>1, <3>1
    <3> QED
      BY <1>1, <3>1, <3>2, BytesIn
  <2>2. old \subseteq BytesOf(f)
    BY DEF BytesOf
  <2> QED
    BY <2>1, <2>2
<1>5. BytesOf(g) \cap old = {}
  <2> HIDE DEF g
  <2>1. ASSUME NEW p \in BytesOf(g) PROVE p \notin old
    <3>1. p[1] \in Shares /\ p[2] \in 1 .. g[p[1]]
      BY <1>1, <2>1, BytesPairs
    <3> QED
      BY <1>1, <3>1
  <2> QED
    BY <2>1
<1> HIDE DEF g, old
<1>6. IsFiniteSet(BytesOf(g)) /\ Cardinality(BytesOf(g)) \in Nat
  BY <1>1, BytesType DEF Bytes
<1>7. Cardinality(BytesOf(g) \cup old) = Cardinality(BytesOf(g)) + f[s]
  <2>1. Cardinality(BytesOf(g) \cup old)
          = Cardinality(BytesOf(g)) + Cardinality(old) - Cardinality(BytesOf(g) \cap old)
    BY <1>3, <1>6, FS_Union
  <2>2. Cardinality(BytesOf(g) \cap old) = 0
    BY <1>5, FS_EmptySet
  <2> QED
    BY <1>2, <1>3, <1>6, <2>1, <2>2
<1>8. Cardinality(BytesOf(g) \cup old) <= Cardinality(BytesOf(f))
  BY <1>4, BytesType, FS_Subset
<1>9. Bytes(g) + f[s] <= Bytes(f)
  BY <1>7, <1>8 DEF Bytes
<1> QED
  BY <1>1, <1>9 DEF g

-----------------------------------------------------------------------------
(* The storage limit *)

\* An admitted creation has its room reserved, and staged files are as large as
\* it asked: a rename moves bytes and makes none.
Room ==
  /\ Bytes(exports) + Bytes(staging) <= MaxStorage
  /\ \A s \in Shares :
       /\ pc[s] = "admitted" => Bytes(exports) + Bytes(staging) + asked[s].bytes <= MaxStorage
       /\ pc[s] = "staged" => staging[s] = asked[s].bytes

LEMMA RoomTypes ==
  ASSUME TypeOK
  PROVE  /\ exports \in Sized /\ staging \in Sized
         /\ Bytes(exports) \in Nat /\ Bytes(staging) \in Nat
         /\ \A s \in Shares : asked[s].bytes \in Nat
<1>1. exports \in Sized /\ staging \in Sized
  BY DEF TypeOK, Sized
<1>2. \A s \in Shares : asked[s].bytes \in Nat
  BY DEF TypeOK
<1> QED
  BY <1>1, <1>2, BytesType

LEMMA WithoutIs ==
  ASSUME NEW f \in Sized, NEW gone
  PROVE  /\ Without(f, gone) \in Sized
         /\ \A x \in Shares : Without(f, gone)[x] = IF x \in gone THEN 0 ELSE f[x]
         /\ Bytes(Without(f, gone)) \in Nat /\ Bytes(Without(f, gone)) <= Bytes(f)
<1>1. /\ Without(f, gone) \in Sized
      /\ \A x \in Shares : Without(f, gone)[x] = IF x \in gone THEN 0 ELSE f[x]
  BY DEF Without, Sized
<1>2. \A x \in Shares : Without(f, gone)[x] <= f[x]
  BY <1>1 DEF Sized
<1> QED
  BY <1>1, <1>2, BytesType, BytesMonotone

\* Purging and removing only makes room, whoever still holds a reservation.
LEMMA LessKeepsRoom ==
  ASSUME TypeOK, TypeOK', Room,
         Bytes(exports') <= Bytes(exports), Bytes(staging') <= Bytes(staging),
         \A s \in Shares : pc'[s] \in {"admitted", "staged"} =>
                             pc'[s] = pc[s] /\ asked'[s] = asked[s] /\ staging'[s] = staging[s]
  PROVE  Room'
<1>1. /\ Bytes(exports) \in Nat /\ Bytes(staging) \in Nat
      /\ \A s \in Shares : asked[s].bytes \in Nat
  BY RoomTypes
<1>2. Bytes(exports') \in Nat /\ Bytes(staging') \in Nat
  <2>1. exports' \in Sized /\ staging' \in Sized
    BY DEF TypeOK, Sized
  <2> QED
    BY <2>1, BytesType
<1>3. Bytes(exports') + Bytes(staging') <= Bytes(exports) + Bytes(staging)
  BY <1>1, <1>2
<1>4. Bytes(exports') + Bytes(staging') <= MaxStorage
  BY <1>1, <1>2, <1>3, ShareAssumption DEF Room
<1>5. ASSUME NEW s \in Shares, pc'[s] = "admitted"
      PROVE  Bytes(exports') + Bytes(staging') + asked'[s].bytes <= MaxStorage
  <2>1. asked'[s].bytes = asked[s].bytes /\ pc[s] = "admitted"
    BY <1>5
  <2>2. Bytes(exports) + Bytes(staging) + asked[s].bytes <= MaxStorage
    BY <2>1 DEF Room
  <2> QED
    BY <1>1, <1>2, <1>3, <2>1, <2>2, ShareAssumption
<1>6. \A s \in Shares : pc'[s] = "staged" => staging'[s] = asked'[s].bytes
  BY DEF Room
<1> QED
  BY <1>4, <1>5, <1>6 DEF Room

LEMMA AdmitKeepsRoom ==
  ASSUME TypeOK, TypeOK', Room, NEW s \in Shares, Admit(s)
  PROVE  Room'
<1> DEFINE dirs == Without(exports, Stale(asked[s].now))
<1>1. /\ exports' = dirs /\ staging' = Without(staging, Shares) /\ asked' = asked
      /\ \A x \in Shares : pc[x] \notin Writing
      /\ \A x \in Shares \ {s} : pc'[x] = pc[x]
      /\ \/ pc'[s] = "refused"
         \/ pc'[s] = "admitted" /\ Bytes(dirs) + asked[s].bytes <= MaxStorage
  <2>1. writer = NoShare
    BY DEF Admit, WriterFree
  <2>2. \A x \in Shares : pc[x] \notin Writing
    BY <2>1, ShareAssumption DEF TypeOK
  <2>3. DOMAIN pc = Shares
    BY DEF TypeOK
  <2> QED
    BY <2>2, <2>3 DEF Admit, HasRoom
<1>2. exports \in Sized /\ staging \in Sized
  BY RoomTypes
<1>3. Bytes(dirs) \in Nat /\ Bytes(dirs) <= Bytes(exports)
  BY <1>2, WithoutIs
<1>4. Bytes(staging') = 0
  <2>1. staging' \in Sized /\ \A x \in Shares : staging'[x] = 0
    BY <1>1, <1>2, WithoutIs
  <2> QED
    BY <2>1, BytesZero
<1>5. /\ Bytes(exports) \in Nat /\ Bytes(staging) \in Nat
      /\ \A x \in Shares : asked[x].bytes \in Nat
  BY RoomTypes
<1> HIDE DEF dirs
<1>6. Bytes(exports') + Bytes(staging') <= MaxStorage
  BY <1>1, <1>3, <1>4, <1>5, ShareAssumption DEF Room
<1>7. ASSUME NEW x \in Shares, pc'[x] = "admitted"
      PROVE  Bytes(exports') + Bytes(staging') + asked'[x].bytes <= MaxStorage
  <2>1. x = s
    BY <1>1, <1>7 DEF Writing
  <2> QED
    BY <1>1, <1>3, <1>4, <1>5, <1>7, <2>1, ShareAssumption
<1>8. \A x \in Shares : pc'[x] # "staged"
  BY <1>1 DEF Writing
<1> QED
  BY <1>6, <1>7, <1>8 DEF Room

\* Only the writer is past admission.
LEMMA OneWriter ==
  ASSUME TypeOK, NEW s \in Shares, pc[s] \in Writing
  PROVE  \A x \in Shares \ {s} : pc[x] \notin Writing
BY DEF TypeOK

LEMMA StageKeepsRoom ==
  ASSUME TypeOK, Room, NEW s \in Shares, Stage(s)
  PROVE  Room'
<1>1. /\ pc[s] = "admitted" /\ pc'[s] = "staged" /\ \A x \in Shares \ {s} : pc'[x] = pc[x]
      /\ exports' = exports /\ asked' = asked
      /\ staging' = [staging EXCEPT ![s] = asked[s].bytes]
  BY DEF Stage, TypeOK
<1>2. /\ staging \in Sized /\ Bytes(exports) \in Nat /\ Bytes(staging) \in Nat
      /\ asked[s].bytes \in Nat
  BY RoomTypes
<1>3. staging' \in Sized /\ Bytes(staging') <= Bytes(staging) + asked[s].bytes
      /\ Bytes(staging') \in Nat
  BY <1>1, <1>2, BytesWritten, BytesType
<1>4. Bytes(exports) + Bytes(staging) + asked[s].bytes <= MaxStorage
  BY <1>1 DEF Room
<1>5. Bytes(exports') + Bytes(staging') <= MaxStorage
  BY <1>1, <1>2, <1>3, <1>4, ShareAssumption
<1>6. \A x \in Shares \ {s} : pc'[x] \notin Writing
  BY <1>1, OneWriter DEF Writing
<1>7. staging'[s] = asked'[s].bytes
  BY <1>1, <1>2 DEF Sized
<1> QED
  BY <1>1, <1>5, <1>6, <1>7 DEF Room, Writing

LEMMA PlaceKeepsRoom ==
  ASSUME TypeOK, Room, NEW s \in Shares, Place(s)
  PROVE  Room'
<1>1. /\ pc[s] = "staged" /\ pc'[s] = "placed" /\ \A x \in Shares \ {s} : pc'[x] = pc[x]
      /\ exports' = [exports EXCEPT ![s] = asked[s].bytes]
      /\ staging' = [staging EXCEPT ![s] = 0]
  BY DEF Place, Placed, TypeOK
<1>2. /\ exports \in Sized /\ staging \in Sized
      /\ Bytes(exports) \in Nat /\ Bytes(staging) \in Nat /\ asked[s].bytes \in Nat
  BY RoomTypes
<1>3. staging[s] = asked[s].bytes /\ Bytes(exports) + Bytes(staging) <= MaxStorage
  BY <1>1 DEF Room
<1>4. Bytes(exports') <= Bytes(exports) + asked[s].bytes /\ Bytes(exports') \in Nat
  BY <1>1, <1>2, BytesWritten, BytesType
<1>5. Bytes(staging') + staging[s] <= Bytes(staging) /\ Bytes(staging') \in Nat
  BY <1>1, <1>2, BytesRemoved, BytesType
<1>6. Bytes(exports') + Bytes(staging') <= MaxStorage
  BY <1>2, <1>3, <1>4, <1>5, ShareAssumption
<1>7. \A x \in Shares : pc'[x] \notin {"admitted", "staged"}
  BY <1>1, OneWriter DEF Writing
<1> QED
  BY <1>6, <1>7 DEF Room

LEMMA RoomStep == ShareInv /\ Room /\ [Next]_vars => Room'
<1> SUFFICES ASSUME ShareInv, Room, [Next]_vars PROVE Room'
  OBVIOUS
<1>0. TypeOK /\ TypeOK'
  BY TypesStep DEF ShareInv
<1>1. /\ exports \in Sized /\ staging \in Sized
      /\ Bytes(exports) \in Nat /\ Bytes(staging) \in Nat
  BY <1>0, RoomTypes
<1>2. \A f \in Sized, s \in Shares : Bytes([f EXCEPT ![s] = 0]) <= Bytes(f)
  <2> SUFFICES ASSUME NEW f \in Sized, NEW s \in Shares
      PROVE  Bytes([f EXCEPT ![s] = 0]) <= Bytes(f)
    OBVIOUS
  <2>1. /\ [f EXCEPT ![s] = 0] \in Sized /\ Bytes([f EXCEPT ![s] = 0]) + f[s] <= Bytes(f)
        /\ f[s] \in Nat /\ Bytes(f) \in Nat
    BY BytesRemoved, BytesType DEF Sized
  <2>2. Bytes([f EXCEPT ![s] = 0]) \in Nat
    BY <2>1, BytesType
  <2> QED
    BY <2>1, <2>2
<1>3. ASSUME NEW s \in Shares, Admit(s) \/ Stage(s) \/ Place(s) PROVE Room'
  BY <1>0, <1>3, AdmitKeepsRoom, StageKeepsRoom, PlaceKeepsRoom
<1>4. ASSUME NEW s \in Shares, Ask(s) \/ Commit(s) PROVE Room'
  <2>1. exports' = exports /\ staging' = staging
    BY <1>4 DEF Ask, Commit
  <2>2. \A x \in Shares : pc'[x] \in {"admitted", "staged"} => pc'[x] = pc[x] /\ asked'[x] = asked[x]
    BY <1>0, <1>4 DEF Ask, Commit, TypeOK
  <2>3. Bytes(exports') <= Bytes(exports) /\ Bytes(staging') <= Bytes(staging)
    BY <1>1, <2>1
  <2> QED
    BY <1>0, <2>1, <2>2, <2>3, LessKeepsRoom
<1>5. ASSUME NEW s \in Shares, CreateFails(s) PROVE Room'
  <2>1. Bytes(exports') <= Bytes(exports) /\ Bytes(staging') <= Bytes(staging)
    BY <1>1, <1>2, <1>5 DEF CreateFails
  <2>2. \A x \in Shares : pc'[x] \in {"admitted", "staged"} =>
          pc'[x] = pc[x] /\ asked'[x] = asked[x] /\ staging'[x] = staging[x]
    BY <1>0, <1>5 DEF CreateFails, TypeOK
  <2> QED
    BY <1>0, <2>1, <2>2, LessKeepsRoom
<1>6. ASSUME NEW s \in Shares, _remove_exports(s) PROVE Room'
  <2>1. exports' = [exports EXCEPT ![s] = 0] /\ pc' = pc /\ asked' = asked /\ staging' = staging
    BY <1>6 DEF _remove_exports
  <2>2. Bytes(exports') <= Bytes(exports) /\ Bytes(staging') <= Bytes(staging)
    <3>1. Bytes([exports EXCEPT ![s] = 0]) <= Bytes(exports)
      BY <1>1, <1>2
    <3> QED
      BY <1>1, <2>1, <3>1
  <2> QED
    BY <1>0, <2>1, <2>2, LessKeepsRoom
<1>7. CASE RemoveMissing
  <2>1. exports' = Without(exports, tick.missing) /\ UNCHANGED <<pc, asked, staging>>
    BY <1>7 DEF RemoveMissing
  <2>2. Bytes(exports') <= Bytes(exports) /\ Bytes(staging') <= Bytes(staging)
    BY <1>1, <2>1, WithoutIs
  <2> QED
    BY <1>0, <2>1, <2>2, LessKeepsRoom
<1>8. CASE UNCHANGED <<asked, exports, staging>> /\ (UNCHANGED pc \/ ViewerCrash)
  <2>1. \A x \in Shares : pc'[x] \in {"admitted", "staged"} => pc'[x] = pc[x]
    BY <1>0, <1>8 DEF ViewerCrash, Writing, TypeOK
  <2>2. Bytes(exports') <= Bytes(exports) /\ Bytes(staging') <= Bytes(staging)
    BY <1>1, <1>8
  <2> QED
    BY <1>0, <1>8, <2>1, <2>2, LessKeepsRoom
<1> QED
  BY <1>3, <1>4, <1>5, <1>6, <1>7, <1>8
  DEF Next, vars, store, Create, Reconcile, Revoke, ListSources, SelectMissing, RevokeMissing,
      ViewerCrash, verify, _claim_device, _authorized, content, Archive, Tick

-----------------------------------------------------------------------------
(* Theorems *)

\* The inductive invariant: types, who owns which directory, what is over, and
\* that an offered share is whole.
THEOREM SharesCorrect == Spec => []ShareInv
<1>1. Init => ShareInv
  BY InitShares
<1>2. ShareInv /\ [Next]_vars => ShareInv'
  BY TypesStep, OwnedStep, EndingStep, VisitingStep, WholeStep DEF ShareInv
<1> QED
  BY <1>1, <1>2, PTL DEF Spec

\* PublicShare!ActiveIsWhole, for any constants: create's rename and INSERT, the
\* purge, both revocations and a crash anywhere leave no link without its files.
THEOREM ActiveIsWholeHolds == Spec => []ActiveIsWhole
<1>1. ShareInv => ActiveIsWhole
  BY DEF ShareInv
<1> QED
  BY <1>1, SharesCorrect, PTL

\* PublicShare!StorageBounded, for any constants: the exports and what crashed
\* and failed creations left behind never hold more than max_storage_bytes.
THEOREM StorageBoundedHolds == Spec => []StorageBounded
<1>1. Init => Room
  <2> SUFFICES ASSUME Init PROVE Room
    OBVIOUS
  <2>1. Bytes(exports) = 0 /\ Bytes(staging) = 0
    BY BytesZero DEF Init, Sized
  <2> QED
    BY <2>1, ShareAssumption DEF Init, Room
<1>2. ShareInv /\ Room /\ [Next]_vars => Room'
  BY RoomStep
<1>3. ShareInv /\ Room => StorageBounded
  BY DEF ShareInv, Room, StorageBounded
<1> QED
  BY <1>1, <1>2, <1>3, SharesCorrect, PTL DEF Spec

Granted == {<<visit[d].share, d>> : d \in {e \in Devices : visit[e].at = "granted"}}

LEMMA StatusStep ==
  ASSUME ShareInv, [Next]_vars, UNCHANGED <<device_claims, visit>>
  PROVE  Contract!Move
<1>0. TypeOK /\ Owned
  BY DEF ShareInv
<1>1. ASSUME NEW s \in Shares, pc[s] = "shared", ~Active(s) PROVE Status(s)' = Status(s)
  <2>1. pc'[s] = "shared"
    BY <1>0, <1>1, PcIs
  <2>2. ~Active(s)'
    BY <1>1, NoRevival
  <2> QED
    BY <1>1, <2>1, <2>2 DEF Status
<1>2. ASSUME NEW s \in Shares, pc[s] = "shared", Active(s)
      PROVE  Status(s) = "offered" /\ Status(s)' \in {"offered", "ended"}
  <2>1. pc'[s] = "shared"
    BY <1>0, <1>2, PcIs
  <2> QED
    BY <1>2, <2>1 DEF Status
<1>3. \A s \in Shares : pc[s] # "shared" => Status(s) = "none"
  BY DEF Status
<1>4. \A s \in Shares : Status(s)' \in {"none", "offered", "ended"}
  BY DEF Status
<1> DEFINE status == [s \in Shares |-> Status(s)]
<1>5. status' \in [Shares -> {"none", "offered", "ended"}]
  BY <1>4
<1>6. \A s \in Shares : status'[s] # status[s] =>
        status[s] = "none" \/ (status[s] = "offered" /\ status'[s] = "ended")
  BY <1>1, <1>2, <1>3
<1>7. Granted' = Granted
  BY DEF Granted
<1> QED
  BY <1>5, <1>6, <1>7 DEF Contract!Move, Granted

\* A step of the gateway does not touch the store.
LEMMA StatusSame ==
  ASSUME UNCHANGED <<store, clock>>
  PROVE  [s \in Shares |-> Status(s)]' = [s \in Shares |-> Status(s)]
BY DEF store, Status, Active, Live

LEMMA VerifyKeeps ==
  ASSUME ShareInv, NEW d \in Devices, NEW s \in Shares, verify(d, s)
  PROVE  UNCHANGED Contract!vars
<1>1. visit \in [Devices -> [at : {"away", "verified", "granted"}, share : Shares \cup {NoShare}]]
  BY DEF ShareInv, TypeOK
<1>2. /\ visit' = [visit EXCEPT ![d] = [at |-> "verified", share |-> s]]
      /\ visit[d].at = "away" /\ device_claims' = device_claims
      /\ UNCHANGED <<store, clock>>
  BY DEF verify, bounds
<1>3. \A e \in Devices : /\ visit'[e].at = "granted" <=> visit[e].at = "granted"
                         /\ e # d => visit'[e] = visit[e]
  BY <1>1, <1>2
<1>4. Granted' = Granted
  BY <1>2, <1>3 DEF Granted
<1> QED
  BY <1>2, <1>4, StatusSame DEF Contract!vars, Granted

LEMMA ClaimBinds ==
  ASSUME ShareInv, NEW d \in Devices, _claim_device(d)
  PROVE  Contract!Bind \/ UNCHANGED Contract!vars
<1> DEFINE s == visit[d].share
<1>1. visit \in [Devices -> [at : {"away", "verified", "granted"}, share : Shares \cup {NoShare}]]
  BY DEF ShareInv, TypeOK
<1>2. /\ visit' = [visit EXCEPT ![d] = Away] /\ visit[d].at = "verified"
      /\ s \in Shares /\ pc[s] = "shared" /\ UNCHANGED <<store, clock>>
      /\ \/ device_claims' = device_claims
         \/ device_claims[s] = NoDevice /\ device_claims' = [device_claims EXCEPT ![s] = d]
  BY DEF _claim_device, Unclaimed, ShareInv, Visiting
<1>3. \A e \in Devices : /\ visit'[e].at = "granted" <=> visit[e].at = "granted"
                         /\ e # d => visit'[e] = visit[e]
  BY <1>1, <1>2 DEF Away
<1>4. Granted' = Granted
  BY <1>2, <1>3 DEF Granted
<1>5. Status(s) # "none"
  BY <1>2 DEF Status
<1>6. [x \in Shares |-> Status(x)][s] # "none"
  BY <1>2, <1>5
<1> QED
  BY <1>2, <1>4, <1>6, StatusSame DEF Contract!vars, Contract!Bind, Granted

LEMMA AuthorizedGrants ==
  ASSUME ShareInv, NEW d \in Devices, NEW s \in Shares, _authorized(d, s)
  PROVE  Contract!Grant
<1>1. visit \in [Devices -> [at : {"away", "verified", "granted"}, share : Shares \cup {NoShare}]]
  BY DEF ShareInv, TypeOK
<1>2. /\ visit' = [visit EXCEPT ![d] = [at |-> "granted", share |-> s]]
      /\ visit[d].at = "away" /\ device_claims[s] = d /\ device_claims' = device_claims
      /\ Active(s) /\ UNCHANGED <<store, clock>>
  BY DEF _authorized, Admissible, bounds
<1>3. visit'[d].at = "granted" /\ visit'[d].share = s
      /\ \A e \in Devices \ {d} : visit'[e] = visit[e]
  BY <1>1, <1>2
<1>4. Granted' = Granted \cup {<<s, d>>}
  BY <1>2, <1>3 DEF Granted
<1>5. Status(s) = "offered"
  BY <1>2 DEF Status, ShareInv, Owned, Active, Live
<1>6. [x \in Shares |-> Status(x)][s] = "offered"
  BY <1>5
<1> QED
  BY <1>2, <1>4, <1>6, StatusSame DEF Contract!Grant, Granted

LEMMA ContentFinishes ==
  ASSUME ShareInv, NEW d \in Devices, content(d)
  PROVE  Contract!Finish
<1>1. visit \in [Devices -> [at : {"away", "verified", "granted"}, share : Shares \cup {NoShare}]]
  BY DEF ShareInv, TypeOK
<1>2. /\ visit' = [visit EXCEPT ![d] = Away] /\ device_claims' = device_claims
      /\ UNCHANGED <<store, clock>>
  BY DEF content, bounds
<1>3. visit'[d].at # "granted" /\ \A e \in Devices \ {d} : visit'[e] = visit[e]
  BY <1>1, <1>2 DEF Away
<1> DEFINE gone == Granted \ Granted'
<1>4. Granted' \subseteq Granted
  BY <1>3 DEF Granted
<1>5. gone \in SUBSET Granted /\ Granted' = Granted \ gone
  BY <1>4
<1> HIDE DEF gone
<1> QED
  BY <1>2, <1>5, StatusSame DEF Contract!Finish, Granted

\* Store, reconciler and gateway together implement ShareContract:
\* PublicShare!KeepsContract, for any constants.
THEOREM KeepsContractHolds == Spec => KeepsContract
<1>1. Init => Contract!Init
  <2> SUFFICES ASSUME Init PROVE Contract!Init
    OBVIOUS
  <2>1. \A s \in Shares : Status(s) = "none"
    BY DEF Init, Status
  <2>2. Granted = {}
    BY DEF Init, Away, Granted
  <2> QED
    BY <2>1, <2>2 DEF Init, Contract!Init, Granted
<1>2. ShareInv /\ [Next]_vars => [Contract!Next]_Contract!vars
  <2> SUFFICES ASSUME ShareInv, [Next]_vars PROVE [Contract!Next]_Contract!vars
    OBVIOUS
  <2>1. ASSUME NEW d \in Devices, NEW s \in Shares, verify(d, s)
        PROVE  [Contract!Next]_Contract!vars
    BY <2>1, VerifyKeeps
  <2>2. ASSUME NEW d \in Devices, NEW s \in Shares, _authorized(d, s)
        PROVE  [Contract!Next]_Contract!vars
    BY <2>2, AuthorizedGrants DEF Contract!Next
  <2>3. ASSUME NEW d \in Devices, _claim_device(d) PROVE [Contract!Next]_Contract!vars
    BY <2>3, ClaimBinds DEF Contract!Next
  <2>4. ASSUME NEW d \in Devices, content(d) PROVE [Contract!Next]_Contract!vars
    BY <2>4, ContentFinishes DEF Contract!Next
  <2>5. CASE UNCHANGED <<device_claims, visit>>
    BY <2>5, StatusStep DEF Contract!Next
  <2> QED
    BY <2>1, <2>2, <2>3, <2>4, <2>5
    DEF Next, vars, gateway, Create, Reconcile, Ask, Admit, Stage, Place, Commit, CreateFails,
        Revoke, _remove_exports, ListSources, SelectMissing, RevokeMissing, RemoveMissing,
        ViewerCrash, Archive, Tick
<1> QED
  BY <1>1, <1>2, SharesCorrect, PTL DEF Spec, KeepsContract, Contract!Spec
=============================================================================
