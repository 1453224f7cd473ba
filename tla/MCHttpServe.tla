----------------------------- MODULE MCHttpServe -----------------------------
EXTENDS HttpServe
MCTarget == [r \in Request |-> CHOOSE i \in Instance : TRUE]
=============================================================================
