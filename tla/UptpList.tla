------------------------------ MODULE UptpList ------------------------------
(***************************************************************************)
(* The response list of usbpipe/ (zw_usbpipe_util.c) with its pointers,    *)
(* as the listener thread (zw_uptp_list_push) and the application thread   *)
(* (zw_uptp_list_pop_by_seq, zw_uptp_list_destroy) use it, one memory      *)
(* access at a time. None of the three takes list->mtxLock, so the threads *)
(* overlap anywhere; clash records that a node was being unlinked while    *)
(* another was being pushed.                                               *)
(* Memory accesses happen in program order, as the unoptimised build does.  *)
(*                                                                         *)
(* The list macros are those of <sys/queue.h>, of which queue.h of this    *)
(* repository is a copy.                                                   *)
(*                                                                         *)
(* Addresses: 0 is NULL, n is node n or its le_next field, HeadAddr is     *)
(* &lh_first. A node that has been freed is not allocated again.           *)
(***************************************************************************)
EXTENDS Naturals, Sequences

CONSTANTS
  NumNodes,  \* bound: nodes a run allocates
  Seqs       \* sequence numbers

ASSUME ListAssumption == NumNodes \in Nat /\ Seqs # {}

Nodes == 1 .. NumNodes
HeadAddr == NumNodes + 1

VARIABLES
  first,      \* lh_first
  nxt, prv,   \* le_next, le_prev
  seq,        \* the node's seq
  mem,        \* "unused", "live" or "freed"
  push,       \* the listener: where it is in LIST_INSERT_HEAD, and its node
  pop,        \* the application: where it is in pop or destroy, np, next
  wild,       \* history: a NULL or freed node was accessed
  abs,        \* history: the nodes in the order the finished calls imply
  clash       \* history: a push and an unlinking have overlapped

listVars == <<first, nxt, prv, seq, mem, push, pop, wild, abs, clash>>

IdlePush == [pc |-> "idle", n |-> 0]
IdlePop == [pc |-> "idle", all |-> FALSE, seq |-> 0, np |-> 0, nx |-> 0]

ListInit ==
  /\ first = 0 /\ nxt = [n \in Nodes |-> 0] /\ prv = [n \in Nodes |-> 0]
  /\ seq = [n \in Nodes |-> 0] /\ mem = [n \in Nodes |-> "unused"]
  /\ push = IdlePush /\ pop = IdlePop /\ wild = FALSE /\ abs = <<>> /\ clash = FALSE

Bad(n) == n = 0 \/ (n \in Nodes /\ mem[n] = "freed")

\* The store *a = v through a le_prev address.
Store(a, v) ==
  /\ first' = IF a = HeadAddr THEN v ELSE first
  /\ nxt' = IF a \in Nodes THEN [nxt EXCEPT ![a] = v] ELSE nxt
  /\ wild' = (wild \/ Bad(a))

-----------------------------------------------------------------------------
(* The listener: malloc a node and zw_uptp_list_push it. *)

PushStart(n, s) ==
  /\ push.pc = "idle"
  /\ mem[n] = "unused" /\ \A m \in Nodes : m < n => mem[m] # "unused"
  /\ mem' = [mem EXCEPT ![n] = "live"] /\ seq' = [seq EXCEPT ![n] = s]
  /\ push' = [pc |-> "next", n |-> n]
  /\ UNCHANGED <<first, nxt, prv, pop, wild, abs>>

\* if ((elm->le_next = head->lh_first) != NULL)
InsertNext ==
  /\ push.pc = "next"
  /\ nxt' = [nxt EXCEPT ![push.n] = first]
  /\ push' = [push EXCEPT !.pc = IF first # 0 THEN "back" ELSE "first"]
  /\ UNCHANGED <<first, prv, seq, mem, pop, wild, abs>>

\* head->lh_first->le_prev = &elm->le_next
InsertBack ==
  /\ push.pc = "back"
  /\ prv' = IF first \in Nodes THEN [prv EXCEPT ![first] = push.n] ELSE prv
  /\ wild' = (wild \/ Bad(first))
  /\ push' = [push EXCEPT !.pc = "first"]
  /\ UNCHANGED <<first, nxt, seq, mem, pop, abs>>

\* head->lh_first = elm
InsertFirst ==
  /\ push.pc = "first"
  /\ first' = push.n
  /\ push' = [push EXCEPT !.pc = "prev"]
  /\ UNCHANGED <<nxt, prv, seq, mem, pop, wild, abs>>

\* Mutant: the last store of LIST_INSERT_HEAD is missing.
PrevForgotten(n) == prv

\* elm->le_prev = &head->lh_first
PrevSet(n) == [prv EXCEPT ![n] = HeadAddr]

InsertPrev ==
  /\ push.pc = "prev"
  /\ prv' = PrevSet(push.n)
  /\ push' = IdlePush
  /\ abs' = <<push.n>> \o abs
  /\ UNCHANGED <<first, nxt, seq, mem, pop, wild>>

-----------------------------------------------------------------------------
(* The application: zw_uptp_list_pop_by_seq(s) and free, or destroy (all).  *)

PopStart(s, all) ==
  /\ pop.pc = "idle"
  /\ pop' = [pc |-> "look", all |-> all, seq |-> s, np |-> first, nx |-> 0]
  /\ first # 0
  /\ UNCHANGED <<first, nxt, prv, seq, mem, push, wild, abs>>

\* next = np->le_next; if (seq == np->seq)
Look ==
  /\ pop.pc = "look" /\ pop.np # 0
  /\ wild' = (wild \/ Bad(pop.np))
  /\ pop' = [pop EXCEPT
               !.nx = nxt[pop.np],
               !.pc = IF pop.all \/ seq[pop.np] = pop.seq THEN "unback" ELSE "look",
               !.np = IF pop.all \/ seq[pop.np] = pop.seq THEN @ ELSE nxt[pop.np]]
  /\ UNCHANGED <<first, nxt, prv, seq, mem, push, abs>>

\* The end of the list.
NotFound ==
  /\ pop.pc = "look" /\ pop.np = 0
  /\ pop' = IdlePop
  /\ UNCHANGED <<first, nxt, prv, seq, mem, push, wild, abs>>

\* LIST_REMOVE: if (np->le_next) np->le_next->le_prev = np->le_prev
RemoveBack ==
  /\ pop.pc = "unback"
  /\ LET m == nxt[pop.np]
     IN /\ prv' = IF m = 0 THEN prv ELSE [prv EXCEPT ![m] = prv[pop.np]]
        /\ wild' = (wild \/ (m # 0 /\ Bad(m)))
  /\ pop' = [pop EXCEPT !.pc = "unlink"]
  /\ UNCHANGED <<first, nxt, seq, mem, push, abs>>

\* *np->le_prev = np->le_next
RemoveLink ==
  /\ pop.pc = "unlink"
  /\ Store(prv[pop.np], nxt[pop.np])
  /\ pop' = [pop EXCEPT !.pc = "free"]
  /\ UNCHANGED <<prv, seq, mem, push, abs>>

\* Mutant: destroy goes on from the node it has just freed.
RestFromFreed == pop.np

\* for (...; np = next)
Rest == pop.nx

\* The nodes of s but n, which is in it at most once.
Without(s, n) ==
  IF \A i \in DOMAIN s : s[i] # n THEN s
  ELSE LET i == CHOOSE i \in DOMAIN s : s[i] = n
       IN SubSeq(s, 1, i - 1) \o SubSeq(s, i + 1, Len(s))

\* free(np->data), free(np); destroy goes on with the next node.
FreeNode ==
  /\ pop.pc = "free"
  /\ mem' = [mem EXCEPT ![pop.np] = "freed"]
  /\ abs' = Without(abs, pop.np)
  /\ pop' = IF pop.all THEN [pop EXCEPT !.pc = "look", !.np = Rest] ELSE IdlePop
  /\ UNCHANGED <<first, nxt, prv, seq, push, wild>>

Listener == InsertNext \/ InsertBack \/ InsertFirst \/ InsertPrev
Application == Look \/ NotFound \/ RemoveBack \/ RemoveLink \/ FreeNode

\* A call that changes the list is in the middle of it.
Pushing == push.pc # "idle"
Unlinking == pop.pc \in {"unback", "unlink", "free"}

ListNext ==
  /\ ~wild
  /\ \/ \E n \in Nodes, s \in Seqs : PushStart(n, s)
     \/ \E s \in Seqs : PopStart(s, FALSE)
     \/ \E s \in Seqs : PopStart(s, TRUE)
     \/ Listener \/ Application
  /\ clash' = (clash \/ (Pushing /\ Unlinking)')

ListSpec == ListInit /\ [][ListNext]_listVars

-----------------------------------------------------------------------------
\* The loop of call_sync searches the list while the listener pushes, without
\* the mutex: no search is led to a node that is NULL or freed, whatever it
\* overlaps with; only unlinking during a push can be.
NoWildAccess == wild => clash

\* Between calls the pointers form the list of the pushed and not yet popped
\* nodes, newest first, linked in both directions, and no node of it is free.
PointersFormList ==
  (push.pc = "idle" /\ pop.pc = "idle" /\ ~clash) =>
    /\ first = IF abs = <<>> THEN 0 ELSE abs[1]
    /\ \A i \in DOMAIN abs :
         /\ mem[abs[i]] = "live"
         /\ nxt[abs[i]] = IF i = Len(abs) THEN 0 ELSE abs[i + 1]
         /\ prv[abs[i]] = IF i = 1 THEN HeadAddr ELSE abs[i - 1]
=============================================================================
