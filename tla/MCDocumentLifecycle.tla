------------------------ MODULE MCDocumentLifecycle ------------------------
EXTENDS DocumentLifecycle, TLC

Symmetry == Permutations(Docs) \cup Permutations(Runs) \cup Permutations(Clients) \cup Permutations(Directs)
            \cup Permutations(Updates)
=============================================================================
