---------------------------- MODULE MCOperations ----------------------------
\* The instance of Operations for TLC.
EXTENDS Operations, TLC

\* Daemons are told apart by nothing but what they do, names by nothing but their use.
Symmetry == Permutations(Daemons) \cup Permutations(Names)
=============================================================================
