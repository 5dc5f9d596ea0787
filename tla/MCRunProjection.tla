-------------------------- MODULE MCRunProjection --------------------------
EXTENDS RunProjection, TLC
=============================================================================
