------------------------- MODULE MCDbOperationMngr -------------------------
EXTENDS DbOperationMngr, TLC

\* Types and threads are interchangeable in the safety runs.
Symmetry == Permutations(Kinds) \cup Permutations(Callbacks)
=============================================================================
