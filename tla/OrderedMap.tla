----------------------------- MODULE OrderedMap -----------------------------
(***************************************************************************)
(* What the B+tree of lib_btree promises: every tree is a finite map, and  *)
(* a call that runs out of memory has lost nothing. Nodes, their filling   *)
(* and the search do not show. A call returns a sequence: a code, the      *)
(* value removed, or all values.                                           *)
(***************************************************************************)
EXTENDS Integers, SequencesExt

CONSTANTS Trees,    \* the maps
          Keys,     \* their keys, numbers
          ValOf,    \* the value a key is stored with
          NULL,     \* what a search returns for a key that is not there
          OK,       \* what a call returns that did its work
          ENOMEM    \* what a call returns that ran out of memory

VARIABLES dict,   \* per tree, a partial function from keys to values
          ret     \* what the last call returned

mapVars == <<dict, ret>>

Without(f, K) == Restrict(f, DOMAIN f \ K)

MapInit == /\ \A t \in Trees : DOMAIN dict[t] \subseteq Keys /\ IsRestriction(dict[t], ValOf)
           /\ ret = OK

Put(t, k) ==
  /\ k \notin DOMAIN dict[t]
  /\ \/ ret' = OK /\ dict' = [dict EXCEPT ![t] = @ @@ (k :> ValOf[k])]
     \/ ret' = ENOMEM /\ UNCHANGED dict

\* A key that is there is taken out and its value returned.
Take(t, k) ==
  /\ ret' = <<IF k \in DOMAIN dict[t] THEN dict[t][k] ELSE NULL>>
  /\ dict' = [dict EXCEPT ![t] = Without(@, {k})]

\* All entries change sides, or, without memory, only those above some key.
Join(t, u) ==
  \E K \in {{k \in DOMAIN dict[u] : k >= b} : b \in Keys \cup {Max(Keys) + 1}} :
    /\ dict' = [dict EXCEPT ![t] = @ @@ Restrict(dict[u], K), ![u] = Without(@, K)]
    /\ ret' = ENOMEM \/ (ret' = OK /\ K = DOMAIN dict[u])

\* The values are handed out from the largest key down, and the tree is emptied.
Drain(t) ==
  LET Larger(k) == Cardinality({l \in DOMAIN dict[t] : l > k})
      Nth(i) == CHOOSE k \in DOMAIN dict[t] : Larger(k) = i - 1
  IN  /\ ret' = [i \in 1 .. Cardinality(DOMAIN dict[t]) |-> dict[t][Nth(i)]]
      /\ dict' = [dict EXCEPT ![t] = <<>>]

MapNext ==
  \/ \E t \in Trees, k \in Keys : Put(t, k) \/ Take(t, k)
  \/ \E t, u \in Trees : t # u /\ Join(t, u)
  \/ \E t \in Trees : Drain(t)

MapSpec == MapInit /\ [][MapNext]_mapVars
=============================================================================
