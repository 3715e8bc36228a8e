---------------------------- MODULE SearchMirror ----------------------------
(***************************************************************************)
(* What the semantic index promises its readers, without tables, jobs,     *)
(* generations or files: of each recording they find nothing, or the whole *)
(* of one version of its text, and that version is what the indexer saw    *)
(* when it last looked at the archive.                                     *)
(***************************************************************************)
EXTENDS Naturals

CONSTANT Recs

VARIABLES
  archive,   \* recording -> [version, visible]
  view,      \* recording -> the version the indexer last saw; 0: not visible
  shown      \* recording -> the version readers find; 0: none

vars == <<archive, view, shown>>

Source(r) == IF archive[r].visible THEN archive[r].version ELSE 0

Init == /\ archive \in [Recs -> [version : {1}, visible : BOOLEAN]]
        /\ view = [r \in Recs |-> 0] /\ shown = [r \in Recs |-> 0]

\* The archive moves on: a text is replaced, or a recording comes or goes.
Move(r) ==
  /\ \/ archive' = [archive EXCEPT ![r].version = @ + 1]
     \/ archive' = [archive EXCEPT ![r].visible = ~@]
  /\ UNCHANGED <<view, shown>>

Look == view' = [r \in Recs |-> Source(r)] /\ UNCHANGED <<archive, shown>>

\* A whole version takes the place of the one before it.
Publish(r) == /\ view[r] # 0
              /\ shown' = [shown EXCEPT ![r] = view[r]]
              /\ UNCHANGED <<archive, view>>

\* What was out of sight at the last look goes, and nothing else.
Withdraw == /\ shown' = [r \in Recs |-> IF view[r] = 0 THEN 0 ELSE shown[r]]
            /\ UNCHANGED <<archive, view>>

\* Another model, or a file that cannot be opened: derived state only, built anew.
Rebuild == shown' = [r \in Recs |-> 0] /\ UNCHANGED <<archive, view>>

Next == (\E r \in Recs : Move(r) \/ Publish(r)) \/ Look \/ Withdraw \/ Rebuild

Spec == Init /\ [][Next]_vars
=============================================================================
