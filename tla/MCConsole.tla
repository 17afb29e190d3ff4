------------------------------ MODULE MCConsole ------------------------------
EXTENDS Console, TLC

CONSTANTS r1, w1, w2, c1, c2

MCCasts == {[users |-> {r1, c1}, keys |-> 3],
            [users |-> {c1, c2}, keys |-> 4],
            [users |-> {w1, w2, c1}, keys |-> 1]}
=============================================================================
