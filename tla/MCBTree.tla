------------------------------ MODULE MCBTree -------------------------------
(* BTree for TLC: small trees with every order of calls, and tall ones.    *)
EXTENDS BTree

\* All calls on a few keys, with an even and an odd number of slots, and a few
\* calls on trees of three levels that were filled upwards or downwards.
Small(p) == [pairs |-> p, seed |-> <<>>, keys |-> 0 .. 6, second |-> 1, calls |-> -1]

Up(n) == [pairs |-> 4, seed |-> [i \in 1 .. n |-> i], keys |-> 3 .. 8 \cup {n + 1},
          second |-> 1, calls |-> 3]
Down(n) == [pairs |-> 4, seed |-> [i \in 1 .. n |-> n + 1 - i], keys |-> n - 7 .. n - 2 \cup {0},
            second |-> 1, calls |-> 3]

Programs == {Small(4), Small(5), Up(13), Up(16), Down(16)}

Vals == [k \in 0 .. 20 |-> 100 + k]
=============================================================================
