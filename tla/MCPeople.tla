------------------------------- MODULE MCPeople -------------------------------
\* People with two threads that differ in nothing, and the page's speakers.
EXTENDS People, SpeakerModel, TLC

Alike == Permutations(Threads)

=============================================================================
