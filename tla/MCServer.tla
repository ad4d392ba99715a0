------------------------------ MODULE MCServer ------------------------------
EXTENDS Server

CONSTANTS w1, w2, n1, n2

MCWorkers == {w1, w2}
MCNodes == {n1, n2}

=============================================================================
