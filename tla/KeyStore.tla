------------------------------ MODULE KeyStore ------------------------------
(***************************************************************************)
(* What a caller of filedb may rely on: a map from keys to values that     *)
(* outlives the program. A call that is cut off by the end of the program  *)
(* has happened or not happened, or the database cannot be opened again;   *)
(* only a deletion that is cut off may leave a database that opens and is  *)
(* wrong.                                                                  *)
(***************************************************************************)
EXTENDS Integers, Functions, TLC

CONSTANTS Keys, Values

VARIABLES map,      \* a partial function from keys to values
          status,   \* absent, open, closed, refused or damaged
          ret       \* what the last call returned

storeVars == <<map, status, ret>>

With(k, v) == map @@ (k :> v)
Without(k) == Restrict(map, DOMAIN map \ {k})

StoreInit == /\ DOMAIN map \subseteq Keys /\ ret = 0
             /\ status = "open" \/ (status = "absent" /\ map = <<>>)

\* A file that is not finished is refused later; one that is there stays.
Create ==
  /\ \/ status = "absent" /\ status' \in {"closed", "refused"} /\ ret' = 0
     \/ status = "closed" /\ status' = "closed" /\ ret' = -1
  /\ UNCHANGED map

\* 1 when the pair is new and stored, 0 when the key is there, -1 on an error.
Put(k, v) ==
  /\ status = "open" /\ status' = "open"
  /\ \/ k \notin DOMAIN map /\ ret' = 1 /\ map' = With(k, v)
     \/ k \in DOMAIN map /\ ret' = 0 /\ UNCHANGED map
     \/ ret' = -1 /\ UNCHANGED map

\* 1 when the pair was there and is gone, 0 when it was not there.
Remove(k) ==
  /\ status = "open" /\ status' = "open"
  /\ map' = Without(k)
  /\ ret' = IF k \in DOMAIN map THEN 1 ELSE 0

\* The program ends, in the middle of a call or between two.
PutCutOff(k, v) ==
  /\ status = "open"
  /\ \/ status' = "closed" /\ (map' = map \/ (k \notin DOMAIN map /\ map' = With(k, v)))
     \/ status' = "refused" /\ map' = <<>>
  /\ ret' = 0

RemoveCutOff(k) ==
  /\ status = "open"
  /\ \/ status' = "closed" /\ (map' = map \/ map' = Without(k))
     \/ status' \in {"refused", "damaged"} /\ map' = <<>>
  /\ ret' = 0

Open == status = "closed" /\ status' = "open" /\ ret' = 0 /\ UNCHANGED map

Close == status = "open" /\ status' = "closed" /\ ret' = 0 /\ UNCHANGED map

StoreNext ==
  \/ \E k \in Keys : Remove(k) \/ RemoveCutOff(k)
  \/ \E k \in Keys, v \in Values : Put(k, v) \/ PutCutOff(k, v)
  \/ Create \/ Open \/ Close

StoreSpec == StoreInit /\ [][StoreNext]_storeVars
=============================================================================
