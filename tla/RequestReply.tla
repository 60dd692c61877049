---------------------------- MODULE RequestReply ----------------------------
(***************************************************************************)
(* What TF_Query promises its caller ("send with a listener waiting for a  *)
(* reply"): a query is refused or becomes open; while it is open it may    *)
(* get answers; it ends once, and after that nothing more is heard of it.  *)
(***************************************************************************)
EXTENDS Naturals

CONSTANT MaxQueries  \* bound: queries

VARIABLES asked,  \* how many queries have been made
          open,   \* those that have been accepted and are not over
          heard   \* per query, the answers its listener has been called with

rrVars == <<asked, open, heard>>

Queries == 1 .. MaxQueries

RRInit == asked = 0 /\ open = {} /\ heard = [q \in Queries |-> {}]

Ask ==
  /\ asked' = asked + 1
  /\ open' = open \/ open' = open \cup {asked'}
  /\ UNCHANGED heard

Answer(q, a) ==
  /\ q \in open
  /\ heard' = [heard EXCEPT ![q] = @ \cup {a}]
  /\ UNCHANGED <<asked, open>>

\* Closed by its listener, or taken back after its timeout.
Over(q) ==
  /\ q \in open
  /\ open' = open \ {q}
  /\ UNCHANGED <<asked, heard>>

RRNext == Ask \/ \E q \in Queries : Over(q) \/ \E a \in Queries : Answer(q, a)

RRSpec == RRInit /\ [][RRNext]_rrVars
=============================================================================
