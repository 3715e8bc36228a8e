-------------------------- MODULE MCRecordingsMcp --------------------------
(* Instances of RecordingsMcp for TLC. *)
EXTENDS RecordingsMcp, TLC

\* One grant for two recordings that runs out, or one for all of them that
\* does not.
AllOffers == {[scopes |-> {"metadata"}, recordings |-> {2, 3}, expires |-> 1],
              [scopes |-> {"metadata"}, recordings |-> {}, expires |-> 0]}

\* Credentials are drawn at random and commands are alike: only safety is checked.
Alike == Permutations(Tokens) \cup Permutations(Admins)
=============================================================================
