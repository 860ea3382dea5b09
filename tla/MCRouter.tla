------------------------------ MODULE MCRouter ------------------------------
EXTENDS RouterSpec

MCMessage == {[len |-> 1], [len |-> 2]}
=============================================================================
