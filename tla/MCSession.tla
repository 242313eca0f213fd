----------------------------- MODULE MCSession -----------------------------
EXTENDS Session

CONSTANTS k1, k2

\* Every raw key is a plain document name.
OwnName == [k \in Keys |-> k]
\* k1 is the document name, k2 the same name with a session id.
FirstName == [k \in Keys |-> k1]
=============================================================================
