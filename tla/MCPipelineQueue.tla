-------------------------- MODULE MCPipelineQueue --------------------------
(* Instances of PipelineQueue for TLC. *)
EXTENDS PipelineQueue, TLC
CONSTANTS r1, r2, w1, w2, o1, h1

\* Connector incarnations in one restarted container: always the same pid.
SamePid  == [w \in {w1, w2} |-> o1]
OneHost  == [o \in {o1} |-> h1]

\* Two workers in containers of their own; a worker stands for its owner
\* string and its host, so exchanging the workers exchanges everything.
OwnPid    == [w \in {w1, w2} |-> w]
OwnHost   == [o \in {w1, w2} |-> o]
Exchange  == Permutations({w1, w2})

\* Two workers of one host.
SharedHost == [o \in {w1, w2} |-> h1]
=============================================================================
