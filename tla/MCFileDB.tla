----------------------------- MODULE MCFileDB -------------------------------
(* FileDB for TLC: small databases from the start, and taller ones.        *)
EXTENDS FileDB

\* Blocks with an even and an odd number of children; in the odd case a split
\* leaves one half with ceil(M) - 1 entries. The seeds give trees of two and
\* three levels, filled upwards or downwards.
Program(m, seed, keys, n) == [M |-> m, seed |-> seed, keys |-> keys, calls |-> n]

Up(n) == [i \in 1 .. n |-> 2 * i]
Down(n) == [i \in 1 .. n |-> 2 * (n + 1 - i)]

Programs == {Program(4, <<>>, 1 .. 3, 4), Program(4, Up(3), {1, 2, 5, 6}, 3),
             Program(4, Up(5), 2 .. 8, 3), Program(5, Down(6), {2, 6, 7, 8, 12}, 3),
             Program(4, Append(Up(11), 15), {6, 7, 8, 10, 12, 14, 15, 20}, 2),
             Program(4, Append(Down(11), 9), {1, 8, 9, 10, 14, 16, 18, 20}, 2),
             Program(5, Up(16), {2, 3, 6, 8, 9, 18, 20, 24, 32}, 2)}

\* Values of two sizes and one that no block can hold.
Sizes == 1 :> 1 @@ 2 :> 2 @@ 3 :> 9
=============================================================================
