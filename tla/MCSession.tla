------------------------------ MODULE MCSession ------------------------------
\* Instances of Session for TLC.
EXTENDS Session
CONSTANTS p1, p2
=============================================================================
