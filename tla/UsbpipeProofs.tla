--------------------------- MODULE UsbpipeProofs ---------------------------
(***************************************************************************)
(* What is proved of usbpipe/.                                             *)
(*                                                                         *)
(* The pointers of UptpList, for any number of nodes and any overlapping   *)
(* of a search with pushes: as long as no unlinking overlaps with a push,  *)
(* they form the list, and nothing that is NULL or freed is accessed.      *)
(*                                                                         *)
(* The protocol of Uptp, which takes the list's operations as atomic:      *)
(* call_sync never returns the answer to an earlier call, for any number   *)
(* of calls, initialisations, device and sender runs and any message type. *)
(***************************************************************************)
EXTENDS Uptp, UptpList, SequenceTheorems, TLAPS

\* The list as lh_first leads to it: a node is in it from the store to lh_first
\* on, before its push is finished, and out of it before it is freed.
Chain == CASE push.pc = "prev" -> <<push.n>> \o abs
           [] push.pc # "prev" /\ pop.pc = "free" -> Without(abs, pop.np)
           [] OTHER -> abs

Nth(s, i) == IF i <= Len(s) THEN s[i] ELSE 0
InChain(n) == \E i \in DOMAIN Chain : Chain[i] = n

PointerTypes ==
  /\ first \in 0 .. NumNodes
  /\ nxt \in [Nodes -> 0 .. NumNodes] /\ prv \in [Nodes -> 0 .. HeadAddr]
  /\ mem \in [Nodes -> {"unused", "live", "freed"}]
  /\ push \in [pc : {"idle", "next", "back", "first", "prev"}, n : 0 .. NumNodes]
  /\ pop \in [pc : {"idle", "look", "unback", "unlink", "free"}, all : BOOLEAN,
              seq : Seqs \cup {0}, np : 0 .. NumNodes, nx : 0 .. NumNodes]
  /\ abs \in Seq(Nodes)

\* No node is in the list twice, and none that is free.
NodesLive ==
  /\ \A i, j \in DOMAIN Chain : Chain[i] = Chain[j] => i = j
  /\ \A i \in DOMAIN Chain : mem[Chain[i]] = "live"

Forward ==
  /\ first = Nth(Chain, 1)
  /\ \A i \in DOMAIN Chain : nxt[Chain[i]] = Nth(Chain, i + 1)

\* The le_prev fields, but for those a call is about to set.
Backward ==
  \A i \in DOMAIN Chain :
    prv[Chain[i]] = IF i = 1
                    THEN CASE push.pc = "first" -> push.n
                           [] push.pc = "prev" -> prv[Chain[i]]
                           [] OTHER -> HeadAddr
                    ELSE IF pop.pc = "unlink" /\ Chain[i - 1] = pop.np THEN prv[pop.np]
                         ELSE Chain[i - 1]

\* The node that is pushed is not yet in the list.
PushedNode ==
  push.pc # "idle" =>
    /\ push.n \in Nodes /\ mem[push.n] = "live"
    /\ push.pc # "prev" => ~InChain(push.n)
    /\ push.pc = "back" => first # 0
    /\ push.pc \in {"back", "first"} => nxt[push.n] = first

\* Where a search is, and where it goes on.
Search ==
  /\ pop.pc = "look" => pop.np = 0 \/ InChain(pop.np)
  /\ pop.pc \in {"unback", "unlink"} => InChain(pop.np) /\ pop.nx = nxt[pop.np]
  /\ pop.pc = "free" => /\ pop.np \in Nodes /\ ~InChain(pop.np)
                        /\ pop.nx = 0 \/ InChain(pop.nx)

Intact == /\ PointerTypes /\ ~wild /\ ~(Pushing /\ Unlinking)
          /\ NodesLive /\ Forward /\ Backward /\ PushedNode /\ Search

ListInv == clash \/ Intact

\* The list without its i-th node.
LEMMA WithoutNth ==
  ASSUME NEW s \in Seq(Nodes), \A j, k \in DOMAIN s : s[j] = s[k] => j = k, NEW i \in DOMAIN s
  PROVE  /\ Without(s, s[i]) \in Seq(Nodes)
         /\ Len(Without(s, s[i])) = Len(s) - 1
         /\ \A k \in 1 .. Len(s) - 1 :
              Without(s, s[i])[k] = IF k < i THEN s[k] ELSE s[k + 1]
<1> DEFINE l == SubSeq(s, 1, i - 1)
           r == SubSeq(s, i + 1, Len(s))
<1>1. Without(s, s[i]) = l \o r
  <2>1. i = CHOOSE j \in DOMAIN s : s[j] = s[i]
    OBVIOUS
  <2> QED BY <2>1 DEF Without
<1>2. i \in 1 .. Len(s) /\ Len(s) \in Nat /\ \A j \in 1 .. Len(s) : s[j] \in Nodes
  OBVIOUS
<1>3. /\ l \in Seq(Nodes) /\ Len(l) = i - 1
      /\ \A k \in 1 .. i - 1 : l[k] = s[k]
  BY <1>2
<1>4. /\ r \in Seq(Nodes) /\ Len(r) = Len(s) - i
      /\ \A k \in 1 .. Len(s) - i : r[k] = s[i + k]
  BY <1>2
<1> HIDE DEF l, r
<1>5. /\ l \o r \in Seq(Nodes) /\ Len(l \o r) = Len(s) - 1
      /\ \A k \in 1 .. Len(s) - 1 : (l \o r)[k] = IF k <= i - 1 THEN l[k] ELSE r[k - (i - 1)]
  <2>1. /\ l \o r \in Seq(Nodes) /\ Len(l \o r) = Len(l) + Len(r)
        /\ \A k \in 1 .. Len(l) + Len(r) : (l \o r)[k] = IF k <= Len(l) THEN l[k] ELSE r[k - Len(l)]
    <3>1. l \in Seq(Nodes) /\ r \in Seq(Nodes)
      BY <1>3, <1>4
    <3> QED BY ONLY <3>1, ConcatProperties
  <2>2. Len(l) + Len(r) = Len(s) - 1
    BY <1>2, <1>3, <1>4
  <2> QED BY <1>3, <2>1, <2>2
<1>6. ASSUME NEW k \in 1 .. Len(s) - 1
      PROVE  (l \o r)[k] = IF k < i THEN s[k] ELSE s[k + 1]
  <2>1. CASE k < i
    BY <1>2, <1>3, <1>5, <2>1
  <2>2. CASE ~(k < i)
    <3>1. k - (i - 1) \in 1 .. Len(s) - i /\ i + (k - (i - 1)) = k + 1
      BY <1>2, <2>2
    <3>2. (l \o r)[k] = r[k - (i - 1)]
      BY <1>2, <1>5, <2>2
    <3>3. r[k - (i - 1)] = s[k + 1]
      BY <1>4, <3>1
    <3> QED BY <2>2, <3>2, <3>3
  <2> QED BY <2>1, <2>2
<1> QED BY <1>1, <1>5, <1>6

LEMMA WithoutType ==
  ASSUME NEW s \in Seq(Nodes), NEW n
  PROVE  Without(s, n) \in Seq(Nodes)
<1>1. CASE \A i \in DOMAIN s : s[i] # n
  BY <1>1 DEF Without
<1>2. CASE \E i \in DOMAIN s : s[i] = n
  <2> DEFINE i == CHOOSE i \in DOMAIN s : s[i] = n
  <2>1. i \in DOMAIN s
    BY <1>2
  <2>2. Without(s, n) = SubSeq(s, 1, i - 1) \o SubSeq(s, i + 1, Len(s))
    BY <1>2 DEF Without
  <2> HIDE DEF i
  <2>3. SubSeq(s, 1, i - 1) \in Seq(Nodes) /\ SubSeq(s, i + 1, Len(s)) \in Seq(Nodes)
    BY <2>1
  <2> QED BY <2>2, <2>3
<1> QED BY <1>1, <1>2

\* The chain is a list of nodes.
LEMMA ChainType ==
  ASSUME PointerTypes, PushedNode
  PROVE  /\ Chain \in Seq(Nodes) /\ DOMAIN Chain = 1 .. Len(Chain) /\ Len(Chain) \in Nat
         /\ \A i \in DOMAIN Chain : Chain[i] \in Nodes /\ Chain[i] # 0 /\ Chain[i] \in 0 .. NumNodes
         /\ Nodes \subseteq 1 .. NumNodes /\ NumNodes \in Nat
<1>1. Chain \in Seq(Nodes)
  <2>1. CASE push.pc = "prev"
    <3>1. push.n \in Nodes /\ abs \in Seq(Nodes)
      BY <2>1 DEF PointerTypes, PushedNode
    <3> QED BY <2>1, <3>1 DEF Chain
  <2>2. CASE push.pc # "prev" /\ pop.pc = "free"
    BY <2>2, WithoutType DEF PointerTypes, Chain
  <2>3. CASE push.pc # "prev" /\ pop.pc # "free"
    BY <2>3 DEF PointerTypes, Chain
  <2> QED BY <2>1, <2>2, <2>3
<1>2. DOMAIN Chain = 1 .. Len(Chain) /\ Len(Chain) \in Nat /\ \A i \in DOMAIN Chain : Chain[i] \in Nodes
  BY <1>1
<1> QED BY <1>1, <1>2, ListAssumption DEF Nodes

\* Nothing that is in the list is bad to access, nor is &lh_first.
LEMMA NotBad ==
  ASSUME PointerTypes, PushedNode, NodesLive, NEW n, InChain(n) \/ n = HeadAddr
  PROVE  ~Bad(n)
BY ChainType, ListAssumption DEF NodesLive, InChain, Bad, HeadAddr, Nodes

LEMMA InitListInv == ListInit => ListInv
<1> SUFFICES ASSUME ListInit PROVE Intact
  BY DEF ListInv
<1>1. PointerTypes
  BY ListAssumption DEF ListInit, PointerTypes, IdlePush, IdlePop, Nodes, HeadAddr
<1>2. Chain = <<>> /\ push.pc = "idle" /\ pop.pc = "idle"
  BY DEF ListInit, Chain, IdlePush, IdlePop
<1>3. ~wild /\ ~(Pushing /\ Unlinking)
  BY <1>2 DEF ListInit, Pushing
<1>4. NodesLive /\ Forward /\ Backward
  BY <1>2 DEF ListInit, NodesLive, Forward, Backward, Nth
<1>5. PushedNode /\ Search
  BY <1>2 DEF PushedNode, Search
<1> QED BY <1>1, <1>3, <1>4, <1>5 DEF Intact

-----------------------------------------------------------------------------
\* Steps that do not finish anything leave the chain alone.
LEMMA SameChain ==
  ASSUME push.pc # "prev", push'.pc # "prev", abs' = abs,
         \/ pop.pc # "free" /\ pop'.pc # "free"
         \/ pop'.pc = pop.pc /\ pop'.np = pop.np
  PROVE  Chain' = Chain
BY DEF Chain

LEMMA PushStartIntact ==
  ASSUME Intact, NEW n \in Nodes, NEW s \in Seqs, PushStart(n, s), ~(Pushing /\ Unlinking)'
  PROVE  Intact'
<1> USE DEF Intact
<1>1. /\ push.pc = "idle" /\ push' = [pc |-> "next", n |-> n] /\ mem[n] = "unused"
      /\ mem' = [mem EXCEPT ![n] = "live"]
      /\ UNCHANGED <<first, nxt, prv, pop, wild, abs>>
  BY DEF PushStart
<1>2. push'.pc = "next" /\ push'.n = n
  BY <1>1
<1>3. Chain' = Chain
  BY <1>1, <1>2, SameChain
<1>4. PointerTypes'
  <2>1. n \in 0 .. NumNodes
    BY ListAssumption DEF Nodes
  <2> QED BY <1>1, <2>1 DEF PointerTypes
<1>5. ~InChain(n)
  BY <1>1 DEF NodesLive, InChain
<1>6. mem'[n] = "live" /\ \A m \in Nodes : m # n => mem'[m] = mem[m]
  BY <1>1 DEF PointerTypes
<1>7. NodesLive'
  BY <1>3, <1>5, <1>6, ChainType DEF NodesLive, InChain
<1>8. Forward' /\ Backward'
  BY <1>1, <1>2, <1>3 DEF Forward, Backward
<1>9. PushedNode'
  BY <1>1, <1>2, <1>3, <1>5, <1>6 DEF PushedNode, InChain
<1>10. Search'
  BY <1>1, <1>3 DEF Search, InChain
<1> QED BY <1>1, <1>4, <1>7, <1>8, <1>9, <1>10

LEMMA InsertNextIntact ==
  ASSUME Intact, InsertNext, ~(Pushing /\ Unlinking)'
  PROVE  Intact'
<1> USE DEF Intact
<1>1. /\ push.pc = "next" /\ nxt' = [nxt EXCEPT ![push.n] = first]
      /\ push' = [push EXCEPT !.pc = IF first # 0 THEN "back" ELSE "first"]
      /\ UNCHANGED <<first, prv, mem, pop, wild, abs>>
  BY DEF InsertNext
<1>2. push'.pc = (IF first # 0 THEN "back" ELSE "first") /\ push'.n = push.n
  BY <1>1 DEF PointerTypes
<1>3. push.n \in Nodes /\ mem[push.n] = "live" /\ ~InChain(push.n)
  BY <1>1 DEF PushedNode
<1>4. Chain' = Chain
  BY <1>1, <1>2, SameChain
<1>5. PointerTypes'
  BY <1>1, <1>3 DEF PointerTypes
<1>6. nxt'[push.n] = first /\ \A m \in Nodes : m # push.n => nxt'[m] = nxt[m]
  BY <1>1, <1>3 DEF PointerTypes
<1>7. NodesLive'
  BY <1>1, <1>4 DEF NodesLive
<1>8. Forward'
  BY <1>1, <1>3, <1>4, <1>6, ChainType DEF Forward, InChain
<1>9. Backward'
  <2>1. CASE first # 0
    BY <1>1, <1>2, <1>4, <2>1 DEF Backward
  <2>2. CASE first = 0
    <3>1. DOMAIN Chain = {}
      BY <2>2, ChainType DEF Forward, Nth
    <3> QED BY <1>4, <3>1 DEF Backward
  <2> QED BY <2>1, <2>2
<1>10. PushedNode'
  BY <1>1, <1>2, <1>3, <1>4, <1>6 DEF PushedNode, InChain
<1>11. pop.pc \notin {"unback", "unlink", "free"}
  BY <1>1 DEF Pushing, Unlinking
<1>12. Search'
  BY <1>1, <1>4, <1>11 DEF Search, InChain
<1> QED BY <1>1, <1>5, <1>7, <1>8, <1>9, <1>10, <1>12

LEMMA InsertBackIntact ==
  ASSUME Intact, InsertBack, ~(Pushing /\ Unlinking)'
  PROVE  Intact'
<1> USE DEF Intact
<1>1. /\ push.pc = "back" /\ push' = [push EXCEPT !.pc = "first"]
      /\ prv' = IF first \in Nodes THEN [prv EXCEPT ![first] = push.n] ELSE prv
      /\ wild' = (wild \/ Bad(first))
      /\ UNCHANGED <<first, nxt, mem, pop, abs>>
  BY DEF InsertBack
<1>2. push'.pc = "first" /\ push'.n = push.n
  BY <1>1 DEF PointerTypes
<1>3. push.n \in Nodes /\ mem[push.n] = "live" /\ ~InChain(push.n) /\ first # 0 /\ nxt[push.n] = first
  BY <1>1 DEF PushedNode
<1>4. Chain' = Chain
  BY <1>1, <1>2, SameChain
<1>5. 1 \in DOMAIN Chain /\ first = Chain[1] /\ first \in Nodes
  BY <1>3, ChainType DEF Forward, Nth
<1>6. ~wild'
  <2>1. ~Bad(first)
    BY <1>5, NotBad DEF InChain
  <2> QED BY <1>1, <2>1
<1>7. PointerTypes'
  <2>1. push.n \in 0 .. HeadAddr
    BY <1>3, ListAssumption DEF Nodes, HeadAddr
  <2> QED BY <1>1, <2>1 DEF PointerTypes
<1>8. prv'[first] = push.n /\ \A m \in Nodes : m # first => prv'[m] = prv[m]
  BY <1>1, <1>5 DEF PointerTypes
<1>9. NodesLive' /\ Forward'
  BY <1>1, <1>4 DEF NodesLive, Forward
<1>10. pop.pc \notin {"unback", "unlink", "free"}
  BY <1>1 DEF Pushing, Unlinking
<1>11. Backward'
  <2> SUFFICES ASSUME NEW i \in DOMAIN Chain
               PROVE  prv'[Chain[i]] = IF i = 1 THEN push.n ELSE Chain[i - 1]
    BY <1>1, <1>2, <1>4, <1>10 DEF Backward
  <2>1. CASE i = 1
    BY <1>5, <1>8, <2>1
  <2>2. CASE i # 1
    <3>1. Chain[i] # first /\ Chain[i] \in Nodes
      BY <1>5, <2>2, ChainType DEF NodesLive
    <3>2. prv[Chain[i]] = Chain[i - 1]
      BY <1>10, <2>2 DEF Backward
    <3> QED BY <1>8, <2>2, <3>1, <3>2
  <2> QED BY <2>1, <2>2
<1>12. PushedNode'
  BY <1>1, <1>2, <1>3, <1>4 DEF PushedNode, InChain
<1>13. Search'
  BY <1>1, <1>4, <1>10 DEF Search, InChain
<1> QED BY <1>6, <1>7, <1>9, <1>11, <1>12, <1>13

\* From the store to lh_first on, a search finds the new node.
LEMMA InsertFirstIntact ==
  ASSUME Intact, InsertFirst, ~(Pushing /\ Unlinking)'
  PROVE  Intact'
<1> USE DEF Intact
<1>1. /\ push.pc = "first" /\ push' = [push EXCEPT !.pc = "prev"] /\ first' = push.n
      /\ UNCHANGED <<nxt, prv, mem, pop, wild, abs>>
  BY DEF InsertFirst
<1>2. push'.pc = "prev" /\ push'.n = push.n
  BY <1>1 DEF PointerTypes
<1>3. push.n \in Nodes /\ mem[push.n] = "live" /\ ~InChain(push.n) /\ nxt[push.n] = first
  BY <1>1 DEF PushedNode
<1>4. pop.pc \notin {"unback", "unlink", "free"}
  BY <1>1 DEF Pushing, Unlinking
<1>5. Chain' = <<push.n>> \o Chain
  BY <1>1, <1>2, <1>4 DEF Chain
<1>6. PointerTypes'
  BY <1>1, <1>3, ListAssumption DEF PointerTypes, Nodes
<1>7. /\ Len(Chain') = Len(Chain) + 1 /\ DOMAIN Chain' = 1 .. Len(Chain) + 1
      /\ Chain'[1] = push.n /\ \A i \in 2 .. Len(Chain) + 1 : Chain'[i] = Chain[i - 1]
  BY <1>3, <1>5, ChainType
<1>8. \A i \in DOMAIN Chain' : i = 1 \/ (i - 1 \in DOMAIN Chain /\ Chain'[i] = Chain[i - 1])
  BY <1>7, ChainType
<1>9. NodesLive'
  <2>1. \A i \in DOMAIN Chain' : i \in Nat
    BY <1>7, ChainType
  <2>2. \A i \in DOMAIN Chain' : i # 1 => Chain'[i] # push.n
    BY <1>3, <1>8 DEF InChain
  <2>3. ASSUME NEW i \in DOMAIN Chain', NEW j \in DOMAIN Chain', Chain'[i] = Chain'[j]
        PROVE  i = j
    <3>1. CASE i = 1 \/ j = 1
      BY <1>7, <2>2, <2>3, <3>1
    <3>2. CASE i # 1 /\ j # 1
      <4>1. i - 1 = j - 1
        BY <1>8, <2>3, <3>2 DEF NodesLive
      <4> QED BY <2>1, <4>1
    <3> QED BY <3>1, <3>2
  <2>4. \A i \in DOMAIN Chain' : mem'[Chain'[i]] = "live"
    BY <1>1, <1>3, <1>7, <1>8 DEF NodesLive
  <2> QED BY <2>3, <2>4 DEF NodesLive
<1>10. Forward'
  <2>1. first' = Nth(Chain, 1)' /\ first' = Chain'[1]
    BY <1>1, <1>7, ChainType DEF Nth
  <2>2. ASSUME NEW i \in DOMAIN Chain' PROVE nxt[Chain'[i]] = Nth(Chain', i + 1)
    <3>1. CASE i = 1
      BY <1>3, <1>7, <3>1, ChainType DEF Forward, Nth
    <3>2. CASE i # 1
      <4>1. nxt[Chain[i - 1]] = Nth(Chain, i) /\ i - 1 \in DOMAIN Chain
        <5>1. i - 1 \in DOMAIN Chain
          BY <1>8, <3>2
        <5>2. nxt[Chain[i - 1]] = Nth(Chain, (i - 1) + 1)
          BY <5>1 DEF Forward
        <5>3. (i - 1) + 1 = i
          BY <1>7, ChainType
        <5> QED BY <5>1, <5>2, <5>3
      <4>2. Nth(Chain, i) = Nth(Chain', i + 1)
        BY <1>7, <4>1, ChainType DEF Nth
      <4> QED BY <1>8, <3>2, <4>1, <4>2
    <3> QED BY <3>1, <3>2
  <2> QED BY <1>1, <2>1, <2>2 DEF Forward, Nth
<1>11. Backward'
  <2> SUFFICES ASSUME NEW i \in DOMAIN Chain', i # 1
               PROVE  prv[Chain'[i]] = Chain'[i - 1]
    BY <1>1, <1>2, <1>4 DEF Backward
  <2>1. i - 1 \in DOMAIN Chain /\ Chain'[i] = Chain[i - 1]
    BY <1>8
  <2>2. CASE i - 1 = 1
    BY <1>1, <1>7, <2>1, <2>2 DEF Backward
  <2>3. CASE i - 1 # 1
    <3>1. prv[Chain[i - 1]] = Chain[(i - 1) - 1]
      BY <1>4, <2>1, <2>3 DEF Backward
    <3>2. Chain'[i - 1] = Chain[(i - 1) - 1]
      BY <1>7, <2>1, <2>3, ChainType
    <3> QED BY <2>1, <3>1, <3>2
  <2> QED BY <2>2, <2>3
<1>12. PushedNode'
  BY <1>1, <1>2, <1>3 DEF PushedNode
<1>13. Search'
  <2>1. \A m : InChain(m) => InChain(m)'
    <3> SUFFICES ASSUME NEW i \in DOMAIN Chain PROVE \E k \in DOMAIN Chain' : Chain'[k] = Chain[i]
      BY DEF InChain
    <3>1. i + 1 \in DOMAIN Chain' /\ Chain'[i + 1] = Chain[i]
      BY <1>7, ChainType
    <3> QED BY <3>1
  <2> QED BY <1>1, <1>4, <2>1 DEF Search
<1> QED BY <1>1, <1>6, <1>9, <1>10, <1>11, <1>12, <1>13

LEMMA InsertPrevIntact ==
  ASSUME Intact, InsertPrev, ~(Pushing /\ Unlinking)'
  PROVE  Intact'
<1> USE DEF Intact
<1>1. /\ push.pc = "prev" /\ push' = IdlePush /\ abs' = <<push.n>> \o abs
      /\ prv' = [prv EXCEPT ![push.n] = HeadAddr]
      /\ UNCHANGED <<first, nxt, mem, pop, wild>>
  BY DEF InsertPrev, PrevSet
<1>2. push'.pc = "idle"
  BY <1>1 DEF IdlePush
<1>3. push.n \in Nodes
  BY <1>1 DEF PushedNode
<1>4. pop.pc \notin {"unback", "unlink", "free"}
  BY <1>1 DEF Pushing, Unlinking
<1>5. Chain' = Chain /\ Chain = <<push.n>> \o abs
  BY <1>1, <1>2, <1>4 DEF Chain
<1>6. PointerTypes'
  <2>1. abs' \in Seq(Nodes)
    BY <1>1, <1>3 DEF PointerTypes
  <2>2. HeadAddr \in 0 .. HeadAddr /\ 0 \in 0 .. NumNodes
    BY ListAssumption DEF HeadAddr
  <2> QED BY <1>1, <2>1, <2>2 DEF PointerTypes, IdlePush
<1>7. 1 \in DOMAIN Chain /\ Chain[1] = push.n
  BY <1>3, <1>5 DEF PointerTypes
<1>8. prv'[push.n] = HeadAddr /\ \A m \in Nodes : m # push.n => prv'[m] = prv[m]
  BY <1>1, <1>3 DEF PointerTypes
<1>9. NodesLive' /\ Forward'
  BY <1>1, <1>5 DEF NodesLive, Forward
<1>10. Backward'
  <2> SUFFICES ASSUME NEW i \in DOMAIN Chain
               PROVE  prv'[Chain[i]] = IF i = 1 THEN HeadAddr ELSE Chain[i - 1]
    BY <1>1, <1>2, <1>4, <1>5 DEF Backward
  <2>1. CASE i = 1
    BY <1>7, <1>8, <2>1
  <2>2. CASE i # 1
    <3>1. Chain[i] # push.n /\ Chain[i] \in Nodes
      BY <1>7, <2>2, ChainType DEF NodesLive
    <3>2. prv[Chain[i]] = Chain[i - 1]
      BY <1>4, <2>2 DEF Backward
    <3> QED BY <1>8, <2>2, <3>1, <3>2
  <2> QED BY <2>1, <2>2
<1>11. PushedNode'
  BY <1>2 DEF PushedNode
<1>12. Search'
  BY <1>1, <1>4, <1>5 DEF Search, InChain
<1> QED BY <1>1, <1>6, <1>9, <1>10, <1>11, <1>12

-----------------------------------------------------------------------------
\* What follows a node of the chain is in the chain, or NULL.
LEMMA NextInChain ==
  ASSUME Intact, NEW n, InChain(n)
  PROVE  n \in Nodes /\ (nxt[n] = 0 \/ InChain(nxt[n]))
<1>1. PICK i \in DOMAIN Chain : Chain[i] = n
  BY DEF InChain
<1>2. n \in Nodes /\ DOMAIN Chain = 1 .. Len(Chain) /\ Len(Chain) \in Nat
  BY <1>1, ChainType DEF Intact
<1>3. nxt[n] = Nth(Chain, i + 1)
  BY <1>1 DEF Intact, Forward
<1> QED BY <1>2, <1>3 DEF Nth, InChain

\* The search, whatever is being pushed meanwhile.
LEMMA SearchIntact ==
  ASSUME Intact, (\E s \in Seqs, all \in BOOLEAN : PopStart(s, all)) \/ Look \/ NotFound,
         ~(Pushing /\ Unlinking)'
  PROVE  Intact'
<1> USE DEF Intact
<1>1. pop.pc \in {"idle", "look"} /\ UNCHANGED <<first, nxt, prv, mem, push, abs>>
  BY DEF PopStart, Look, NotFound
<1>2. /\ pop' \in [pc : {"idle", "look", "unback"}, all : BOOLEAN,
                  seq : Seqs \cup {0}, np : 0 .. NumNodes, nx : 0 .. NumNodes]
      /\ pop'.pc = "look" => pop'.np = 0 \/ InChain(pop'.np)
      /\ pop'.pc = "unback" => InChain(pop'.np) /\ pop'.nx = nxt[pop'.np]
      /\ ~wild'
  <2>1. ASSUME NEW s \in Seqs, NEW all \in BOOLEAN, PopStart(s, all)
        PROVE  /\ pop' = [pc |-> "look", all |-> all, seq |-> s, np |-> first, nx |-> 0]
               /\ first = 0 \/ InChain(first)
               /\ ~wild'
    BY <2>1, ChainType DEF PopStart, Forward, Nth, InChain
  <2>2. CASE \E s \in Seqs, all \in BOOLEAN : PopStart(s, all)
    BY <2>1, <2>2, ListAssumption DEF PointerTypes
  <2>3. CASE Look
    <3> DEFINE found == pop.all \/ seq[pop.np] = pop.seq
    <3>1. InChain(pop.np)
      BY <2>3 DEF Look, Search
    <3>2. pop.np \in Nodes /\ (nxt[pop.np] = 0 \/ InChain(nxt[pop.np])) /\ nxt[pop.np] \in 0 .. NumNodes
      BY <3>1, NextInChain DEF PointerTypes
    <3>3. ~wild'
      BY <2>3, <3>1, NotBad DEF Look
    <3>4. CASE found
      <4>1. pop' = [pop EXCEPT !.nx = nxt[pop.np], !.pc = "unback"]
        BY <2>3, <3>4 DEF Look, PointerTypes
      <4> QED BY <3>1, <3>2, <3>3, <4>1 DEF PointerTypes
    <3>5. CASE ~found
      <4>1. pop' = [pop EXCEPT !.nx = nxt[pop.np], !.pc = "look", !.np = nxt[pop.np]]
        BY <2>3, <3>5 DEF Look, PointerTypes
      <4> QED BY <3>2, <3>3, <4>1 DEF PointerTypes
    <3> QED BY <3>4, <3>5
  <2>4. CASE NotFound
    BY <2>4, ListAssumption DEF NotFound, IdlePop
  <2> QED BY <2>2, <2>3, <2>4
<1>3. Chain' = Chain
  BY <1>1, <1>2 DEF Chain
<1>4. PointerTypes'
  BY <1>1, <1>2 DEF PointerTypes
<1>5. NodesLive' /\ Forward' /\ PushedNode'
  BY <1>1, <1>3 DEF NodesLive, Forward, PushedNode, InChain
<1>6. Backward'
  BY <1>1, <1>2, <1>3 DEF Backward
<1>7. Search'
  BY <1>1, <1>2, <1>3 DEF Search, InChain
<1> QED BY <1>2, <1>4, <1>5, <1>6, <1>7

LEMMA RemoveBackIntact ==
  ASSUME Intact, RemoveBack, ~(Pushing /\ Unlinking)'
  PROVE  Intact'
<1> USE DEF Intact
<1> DEFINE m == nxt[pop.np]
<1>1. /\ pop.pc = "unback" /\ pop' = [pop EXCEPT !.pc = "unlink"]
      /\ prv' = IF m = 0 THEN prv ELSE [prv EXCEPT ![m] = prv[pop.np]]
      /\ wild' = (wild \/ (m # 0 /\ Bad(m)))
      /\ UNCHANGED <<first, nxt, mem, push, abs>>
  BY DEF RemoveBack
<1>2. pop'.pc = "unlink" /\ pop'.np = pop.np /\ pop'.nx = pop.nx
  BY <1>1 DEF PointerTypes
<1>3. push.pc = "idle"
  BY <1>1 DEF Pushing, Unlinking
<1>4. Chain' = Chain
  BY <1>1, <1>2, <1>3, SameChain
<1>5. InChain(pop.np) /\ pop.nx = m
  BY <1>1 DEF Search
<1>6. PICK i \in DOMAIN Chain : Chain[i] = pop.np
  BY <1>5 DEF InChain
<1>7. /\ pop.np \in Nodes /\ i \in Nat
      /\ m = IF i + 1 \in DOMAIN Chain THEN Chain[i + 1] ELSE 0
  BY <1>6, ChainType DEF Forward, Nth
<1>8. m # 0 => InChain(m) /\ m \in Nodes
  BY <1>7, ChainType DEF InChain
<1>9. ~wild'
  <2>1. m # 0 => ~Bad(m)
    BY <1>8, NotBad
  <2> QED BY <1>1, <2>1
<1>10. PointerTypes'
  <2>1. prv' \in [Nodes -> 0 .. HeadAddr]
    BY <1>1, <1>7, <1>8 DEF PointerTypes
  <2> QED BY <1>1, <2>1 DEF PointerTypes
<1>11. /\ m # 0 => prv'[m] = prv[pop.np]
       /\ \A n \in Nodes : n # m => prv'[n] = prv[n]
  BY <1>1, <1>8 DEF PointerTypes
<1>12. NodesLive' /\ Forward' /\ PushedNode'
  BY <1>1, <1>4 DEF NodesLive, Forward, PushedNode, InChain
<1> HIDE DEF m
<1>13. pop.np # m
  <2>1. i + 1 \in DOMAIN Chain => Chain[i + 1] # Chain[i]
    BY <1>7 DEF NodesLive
  <2> QED BY <1>6, <1>7, <2>1, ListAssumption DEF Nodes
<1>14. Backward'
  <2> SUFFICES ASSUME NEW k \in DOMAIN Chain
               PROVE  prv'[Chain[k]] = IF k = 1 THEN HeadAddr
                                       ELSE IF Chain[k - 1] = pop.np THEN prv'[pop.np] ELSE Chain[k - 1]
    BY <1>2, <1>3, <1>1, <1>4 DEF Backward
  <2>1. Chain[k] \in Nodes /\ k \in Nat /\ k >= 1 /\ Chain[k] # 0
    BY ChainType
  <2>2. prv[Chain[k]] = IF k = 1 THEN HeadAddr ELSE Chain[k - 1]
    BY <1>1, <1>3 DEF Backward
  <2>3. prv'[pop.np] = prv[pop.np]
    BY <1>7, <1>11, <1>13
  <2>4. CASE k # 1 /\ Chain[k - 1] = pop.np
    <3>1. k - 1 = i
      BY <1>6, <2>1, <2>4, ChainType DEF NodesLive
    <3>2. Chain[k] = m
      BY <1>7, <2>1, <3>1
    <3> QED BY <1>11, <2>1, <2>3, <2>4, <3>2
  <2>5. CASE k = 1 \/ Chain[k - 1] # pop.np
    <3>1. Chain[k] # m
      <4>1. CASE i + 1 \in DOMAIN Chain
        <5>1. k # i + 1
          BY <1>6, <1>7, <2>5, ChainType
        <5> QED BY <1>7, <4>1, <5>1 DEF NodesLive
      <4>2. CASE i + 1 \notin DOMAIN Chain
        BY <1>7, <2>1, <4>2
      <4> QED BY <4>1, <4>2
    <3> QED BY <1>11, <2>1, <2>2, <2>5, <3>1
  <2> QED BY <2>4, <2>5
<1>15. Search'
  BY <1>1, <1>2, <1>4, <1>5 DEF Search, InChain, m
<1> QED BY <1>9, <1>10, <1>12, <1>14, <1>15

\* The node before takes over the link to the node after.
LEMMA RemoveLinkIntact ==
  ASSUME Intact, RemoveLink, ~(Pushing /\ Unlinking)'
  PROVE  Intact'
<1> USE DEF Intact
<1> DEFINE a == prv[pop.np]
           m == nxt[pop.np]
<1>1. /\ pop.pc = "unlink" /\ pop' = [pop EXCEPT !.pc = "free"]
      /\ first' = IF a = HeadAddr THEN m ELSE first
      /\ nxt' = IF a \in Nodes THEN [nxt EXCEPT ![a] = m] ELSE nxt
      /\ wild' = (wild \/ Bad(a))
      /\ UNCHANGED <<prv, mem, push, abs>>
  BY DEF RemoveLink, Store
<1>2. pop'.pc = "free" /\ pop'.np = pop.np /\ pop'.nx = pop.nx
  BY <1>1 DEF PointerTypes
<1>3. push.pc = "idle"
  BY <1>1 DEF Pushing, Unlinking
<1>4. Chain = abs /\ Chain' = Without(Chain, pop.np)
  BY <1>1, <1>2, <1>3 DEF Chain
<1>5. InChain(pop.np) /\ pop.nx = m
  BY <1>1 DEF Search
<1>6. PICK i \in DOMAIN Chain : Chain[i] = pop.np
  BY <1>5 DEF InChain
<1>7. /\ pop.np \in Nodes /\ i \in 1 .. Len(Chain) /\ Len(Chain) \in Nat
      /\ m = IF i < Len(Chain) THEN Chain[i + 1] ELSE 0
      /\ m \in 0 .. NumNodes
  BY <1>6, ChainType DEF Forward, Nth
<1>8. /\ Len(Chain') = Len(Chain) - 1 /\ DOMAIN Chain' = 1 .. Len(Chain) - 1
      /\ \A k \in 1 .. Len(Chain) - 1 : Chain'[k] = IF k < i THEN Chain[k] ELSE Chain[k + 1]
  <2>1. Chain \in Seq(Nodes) /\ \A j, k \in DOMAIN Chain : Chain[j] = Chain[k] => j = k
    BY ChainType DEF NodesLive
  <2> DEFINE w == Without(Chain, Chain[i])
  <2>2. /\ w \in Seq(Nodes) /\ Len(w) = Len(Chain) - 1
        /\ \A k \in 1 .. Len(Chain) - 1 : w[k] = IF k < i THEN Chain[k] ELSE Chain[k + 1]
    BY <2>1, WithoutNth
  <2>3. Chain' = w
    BY <1>4, <1>6
  <2> HIDE DEF w
  <2> QED BY <2>2, <2>3
<1>8a. /\ DOMAIN Chain = 1 .. Len(Chain)
       /\ \A k \in DOMAIN Chain : Chain[k] \in Nodes
       /\ \A k \in DOMAIN Chain' :
            /\ k \in 1 .. Len(Chain) - 1
            /\ IF k < i THEN k \in DOMAIN Chain /\ Chain'[k] = Chain[k]
                        ELSE k + 1 \in DOMAIN Chain /\ Chain'[k] = Chain[k + 1]
  <2>1. DOMAIN Chain = 1 .. Len(Chain) /\ \A k \in DOMAIN Chain : Chain[k] \in Nodes
    BY ChainType
  <2> QED BY <1>7, <1>8, <2>1
<1>9. a = IF i = 1 THEN HeadAddr ELSE Chain[i - 1]
  <2>1. i # 1 => Chain[i - 1] # pop.np
    BY <1>6, <1>7, ChainType DEF NodesLive
  <2> QED BY <1>1, <1>3, <1>6, <2>1 DEF Backward
<1>10. /\ i = 1 => a = HeadAddr /\ a \notin Nodes
       /\ i # 1 => a \in Nodes /\ a # HeadAddr /\ InChain(a)
  <2>1. HeadAddr \notin Nodes
    BY ListAssumption DEF HeadAddr, Nodes
  <2>2. i # 1 => i - 1 \in DOMAIN Chain
    BY <1>7, ChainType
  <2> QED BY <1>9, <2>1, <2>2, ChainType DEF InChain
<1>11. ~wild'
  <2>1. ~Bad(a)
    BY <1>10, NotBad
  <2> QED BY <1>1, <2>1
<1>12. PointerTypes'
  <2>1. first' \in 0 .. NumNodes
    BY <1>1, <1>7 DEF PointerTypes
  <2>2. nxt' \in [Nodes -> 0 .. NumNodes]
    BY <1>1, <1>7 DEF PointerTypes
  <2> QED BY <1>1, <2>1, <2>2 DEF PointerTypes
<1>13. /\ first' = IF i = 1 THEN m ELSE first
       /\ \A n \in Nodes : nxt'[n] = IF i # 1 /\ n = a THEN m ELSE nxt[n]
  BY <1>1, <1>10 DEF PointerTypes
<1>14. NodesLive'
  <2>1. ASSUME NEW j \in DOMAIN Chain', NEW k \in DOMAIN Chain', Chain'[j] = Chain'[k]
        PROVE  j = k
    <3> DEFINE jj == IF j < i THEN j ELSE j + 1
               kk == IF k < i THEN k ELSE k + 1
    <3>1. jj \in DOMAIN Chain /\ kk \in DOMAIN Chain /\ Chain[jj] = Chain[kk]
      BY <1>8a, <2>1
    <3>2. jj = kk
      BY <3>1 DEF NodesLive
    <3> QED BY <1>7, <1>8, <3>2
  <2>2. \A k \in DOMAIN Chain' : mem[Chain'[k]] = "live"
    BY <1>8a DEF NodesLive
  <2> QED BY <1>1, <2>1, <2>2 DEF NodesLive
<1> HIDE DEF a, m
<1>15. Forward'
  <2>1. first' = Nth(Chain', 1)
    <3>1. CASE i = 1
      BY <1>7, <1>8, <1>13, <3>1 DEF Nth
    <3>2. CASE i # 1
      BY <1>7, <1>8, <1>13, <3>2 DEF Nth, Forward
    <3> QED BY <3>1, <3>2
  <2>2. ASSUME NEW k \in DOMAIN Chain' PROVE nxt'[Chain'[k]] = Nth(Chain', k + 1)
    <3>1. k \in 1 .. Len(Chain) - 1 /\ DOMAIN Chain = 1 .. Len(Chain)
      BY <1>8, ChainType
    <3>2. CASE k + 1 < i
      <4>1. Chain'[k] = Chain[k] /\ Chain[k] # a /\ Chain[k] \in Nodes
        <5>1. k \in DOMAIN Chain /\ i - 1 \in DOMAIN Chain /\ k # i - 1 /\ i # 1 /\ k < i
          BY <1>7, <3>1, <3>2
        <5> QED BY <1>8a, <1>9, <5>1 DEF NodesLive
      <4>2. nxt[Chain[k]] = Chain[k + 1] /\ Chain'[k + 1] = Chain[k + 1]
        BY <1>7, <1>8, <3>1, <3>2 DEF Forward, Nth
      <4> QED BY <1>7, <1>8, <1>13, <3>1, <3>2, <4>1, <4>2 DEF Nth
    <3>3. CASE k + 1 = i
      <4>1. Chain'[k] = a /\ a \in Nodes /\ i # 1
        BY <1>7, <1>8, <1>9, <1>10, <3>1, <3>3
      <4>2. nxt'[a] = m
        BY <1>13, <4>1
      <4>3. m = Nth(Chain', i)
        BY <1>7, <1>8 DEF Nth
      <4> QED BY <3>3, <4>1, <4>2, <4>3
    <3>4. CASE k + 1 > i
      <4>1. Chain'[k] = Chain[k + 1] /\ k + 1 \in DOMAIN Chain /\ Chain[k + 1] \in Nodes
        <5>1. ~(k < i)
          BY <1>7, <3>1, <3>4
        <5> QED BY <1>8a, <5>1
      <4>2. i # 1 => Chain[k + 1] # a
        <5>1. i # 1 => i - 1 \in DOMAIN Chain /\ k + 1 # i - 1
          BY <1>7, <3>1, <3>4
        <5> QED BY <1>9, <4>1, <5>1 DEF NodesLive
      <4>3. nxt[Chain[k + 1]] = Nth(Chain, (k + 1) + 1)
        BY <4>1 DEF Forward
      <4>4. Nth(Chain, (k + 1) + 1) = Nth(Chain', k + 1)
        BY <1>7, <1>8, <3>1, <3>4 DEF Nth
      <4> QED BY <1>13, <4>1, <4>2, <4>3, <4>4
    <3> QED BY <1>7, <3>1, <3>2, <3>3, <3>4
  <2> QED BY <2>1, <2>2 DEF Forward, Nth
<1>16. Backward'
  <2> SUFFICES ASSUME NEW k \in DOMAIN Chain'
               PROVE  prv[Chain'[k]] = IF k = 1 THEN HeadAddr ELSE Chain'[k - 1]
    BY <1>1, <1>2, <1>3 DEF Backward
  <2>1. k \in 1 .. Len(Chain) - 1 /\ DOMAIN Chain = 1 .. Len(Chain)
    BY <1>8, ChainType
  <2>2. \A j \in DOMAIN Chain :
          prv[Chain[j]] = IF j = 1 THEN HeadAddr
                          ELSE IF Chain[j - 1] = pop.np THEN prv[pop.np] ELSE Chain[j - 1]
    BY <1>1, <1>3 DEF Backward
  <2>3. \A j \in DOMAIN Chain : Chain[j] = pop.np => j = i
    BY <1>6 DEF NodesLive
  <2>4. CASE k < i
    <3>1. Chain'[k] = Chain[k] /\ k \in DOMAIN Chain
      BY <1>7, <1>8, <2>1, <2>4
    <3>2. k # 1 => /\ Chain'[k - 1] = Chain[k - 1] /\ k - 1 \in DOMAIN Chain
                   /\ Chain[k - 1] # pop.np
      BY <1>7, <1>8, <2>1, <2>3, <2>4
    <3> QED BY <2>2, <3>1, <3>2
  <2>5. CASE k = i
    <3>1. Chain'[k] = Chain[k + 1] /\ k + 1 \in DOMAIN Chain /\ k + 1 # 1 /\ (k + 1) - 1 = i
      BY <1>7, <1>8, <2>1, <2>5
    <3>2. prv[Chain'[k]] = a
      BY <1>6, <2>2, <3>1 DEF a
    <3>3. k # 1 => Chain'[k - 1] = Chain[i - 1]
      BY <1>7, <1>8, <2>1, <2>5
    <3> QED BY <1>9, <2>5, <3>2, <3>3
  <2>6. CASE k > i
    <3>1. /\ Chain'[k] = Chain[k + 1] /\ Chain'[k - 1] = Chain[k] /\ k # 1
          /\ k + 1 \in DOMAIN Chain /\ k + 1 # 1 /\ (k + 1) - 1 = k /\ k \in DOMAIN Chain /\ k # i
      BY <1>7, <1>8, <2>1, <2>6
    <3> QED BY <2>2, <2>3, <3>1
  <2> QED BY <1>7, <2>1, <2>4, <2>5, <2>6
<1>17. Search'
  <2>1. ~InChain(pop.np)'
    <3> SUFFICES ASSUME NEW k \in DOMAIN Chain', Chain'[k] = pop.np PROVE FALSE
      BY <1>2 DEF InChain
    <3> DEFINE kk == IF k < i THEN k ELSE k + 1
    <3>1. kk \in DOMAIN Chain /\ Chain[kk] = pop.np /\ kk # i
      BY <1>8a, <1>7
    <3> QED BY <1>6, <3>1 DEF NodesLive
  <2>2. pop.nx = 0 \/ InChain(pop.nx)'
    <3>1. CASE i < Len(Chain)
      <4>1. i \in DOMAIN Chain' /\ Chain'[i] = m
        BY <1>7, <1>8, <3>1
      <4> QED BY <1>2, <1>5, <4>1 DEF InChain
    <3>2. CASE ~(i < Len(Chain))
      BY <1>5, <1>7, <3>2
    <3> QED BY <3>1, <3>2
  <2> QED BY <1>2, <1>7, <2>1, <2>2 DEF Search, InChain
<1>18. PushedNode'
  BY <1>1, <1>3 DEF PushedNode
<1> QED BY <1>11, <1>12, <1>14, <1>15, <1>16, <1>17, <1>18

LEMMA FreeNodeIntact ==
  ASSUME Intact, FreeNode, ~(Pushing /\ Unlinking)'
  PROVE  Intact'
<1> USE DEF Intact
<1>1. /\ pop.pc = "free" /\ mem' = [mem EXCEPT ![pop.np] = "freed"]
      /\ abs' = Without(abs, pop.np)
      /\ pop' = IF pop.all THEN [pop EXCEPT !.pc = "look", !.np = pop.nx] ELSE IdlePop
      /\ UNCHANGED <<first, nxt, prv, push, wild>>
  BY DEF FreeNode, Rest
<1>2. pop'.pc = "idle" \/ (pop'.pc = "look" /\ pop'.np = pop.nx)
  BY <1>1 DEF PointerTypes, IdlePop
<1>3. push.pc = "idle"
  BY <1>1 DEF Pushing, Unlinking
<1>4. Chain' = Chain /\ abs' = Chain
  BY <1>1, <1>2, <1>3 DEF Chain
<1>5. /\ pop.np \in Nodes /\ ~InChain(pop.np)
      /\ pop.nx = 0 \/ InChain(pop.nx)
  BY <1>1 DEF Search
<1>6. PointerTypes'
  <2>1. pop' \in [pc : {"idle", "look", "unback", "unlink", "free"}, all : BOOLEAN,
                  seq : Seqs \cup {0}, np : 0 .. NumNodes, nx : 0 .. NumNodes]
    <3>1. CASE pop.all
      BY <1>1, <3>1 DEF PointerTypes
    <3>2. CASE ~pop.all
      <4>1. 0 \in 0 .. NumNodes /\ FALSE \in BOOLEAN
        BY ListAssumption
      <4> QED BY <1>1, <3>2, <4>1 DEF IdlePop
    <3> QED BY <3>1, <3>2
  <2>2. abs' \in Seq(Nodes)
    BY <1>4, ChainType
  <2> QED BY <1>1, <2>1, <2>2 DEF PointerTypes
<1>7. NodesLive'
  <2>1. \A k \in DOMAIN Chain : mem'[Chain[k]] = mem[Chain[k]]
    BY <1>1, <1>5, ChainType DEF PointerTypes, InChain
  <2> QED BY <1>4, <2>1 DEF NodesLive
<1>8. Forward'
  BY <1>1, <1>4 DEF Forward
<1>9. Backward'
  BY <1>1, <1>2, <1>3, <1>4 DEF Backward
<1>10. PushedNode'
  BY <1>1, <1>3 DEF PushedNode
<1>11. Search'
  BY <1>2, <1>4, <1>5 DEF Search, InChain
<1> QED BY <1>1, <1>6, <1>7, <1>8, <1>9, <1>10, <1>11

\* As long as nothing is unlinked during a push, every step of either thread
\* leaves the list intact.
LEMMA NextListInv == ListInv /\ [ListNext]_listVars => ListInv'
<1> SUFFICES ASSUME ListInv, [ListNext]_listVars, ~clash' PROVE Intact'
  BY DEF ListInv
<1>1. CASE ListNext
  <2>1. ~clash /\ ~(Pushing /\ Unlinking)'
    BY <1>1 DEF ListNext
  <2>2. Intact
    BY <2>1 DEF ListInv
  <2>3. CASE \E n \in Nodes, s \in Seqs : PushStart(n, s)
    BY <2>1, <2>2, <2>3, PushStartIntact
  <2>4. CASE (\E s \in Seqs : PopStart(s, FALSE)) \/ (\E s \in Seqs : PopStart(s, TRUE))
             \/ Look \/ NotFound
    <3>1. (\E s \in Seqs, all \in BOOLEAN : PopStart(s, all)) \/ Look \/ NotFound
      BY <2>4, Zenon
    <3> QED BY <2>1, <2>2, <3>1, SearchIntact
  <2>5. CASE Listener
    BY <2>1, <2>2, <2>5, InsertNextIntact, InsertBackIntact, InsertFirstIntact, InsertPrevIntact
       DEF Listener
  <2>6. CASE RemoveBack \/ RemoveLink \/ FreeNode
    BY <2>1, <2>2, <2>6, RemoveBackIntact, RemoveLinkIntact, FreeNodeIntact
  <2> QED BY <1>1, <2>3, <2>4, <2>5, <2>6 DEF ListNext, Application
<1>2. CASE UNCHANGED listVars
  <2>1. Intact /\ Chain' = Chain
    BY <1>2 DEF listVars, ListInv, Chain
  <2> QED BY <1>2, <2>1 DEF listVars, Intact, PointerTypes, Pushing, Unlinking, NodesLive, Forward,
             Backward, PushedNode, Search, InChain
<1> QED BY <1>1, <1>2

LEMMA ListInvAlways == ListSpec => []ListInv
BY InitListInv, NextListInv, PTL DEF ListSpec

-----------------------------------------------------------------------------
\* No thread follows a pointer to NULL or to a freed node, however the search
\* overlaps with pushes: only an unlinking during a push can bring that about.
THEOREM SearchIsSafe == ListSpec => []NoWildAccess
<1>1. ListInv => NoWildAccess
  BY DEF ListInv, Intact, NoWildAccess
<1> QED BY <1>1, ListInvAlways, PTL

\* Between calls le_next and le_prev form the list of the nodes that were pushed
\* and not yet popped, unless an unlinking has overlapped with a push.
THEOREM PointersAreList == ListSpec => []PointersFormList
<1>1. ListInv => PointersFormList
  <2> SUFFICES ASSUME Intact, push.pc = "idle", pop.pc = "idle" PROVE
        /\ first = IF abs = <<>> THEN 0 ELSE abs[1]
        /\ \A i \in DOMAIN abs :
             /\ mem[abs[i]] = "live"
             /\ nxt[abs[i]] = IF i = Len(abs) THEN 0 ELSE abs[i + 1]
             /\ prv[abs[i]] = IF i = 1 THEN HeadAddr ELSE abs[i - 1]
    BY DEF ListInv, PointersFormList
  <2>1. Chain = abs
    BY DEF Chain
  <2>2. abs \in Seq(Nodes)
    BY DEF Intact, PointerTypes
  <2>3. first = IF abs = <<>> THEN 0 ELSE abs[1]
    BY <2>1, <2>2 DEF Intact, Forward, Nth
  <2>4. \A i \in DOMAIN abs : nxt[abs[i]] = IF i = Len(abs) THEN 0 ELSE abs[i + 1]
    BY <2>1, <2>2 DEF Intact, Forward, Nth
  <2>5. \A i \in DOMAIN abs : prv[abs[i]] = IF i = 1 THEN HeadAddr ELSE abs[i - 1]
    BY <2>1 DEF Intact, Backward
  <2>6. \A i \in DOMAIN abs : mem[abs[i]] = "live"
    BY <2>1 DEF Intact, NodesLive
  <2> QED BY <2>3, <2>4, <2>5, <2>6
<1> QED BY <1>1, ListInvAlways, PTL

-----------------------------------------------------------------------------
(* The protocol.                                                           *)

Data == [by : {"none", "host", "device", "sender"}, call : Nat]

\* Whatever carries a sequence number carries the data of that call, or data of
\* the sender program, which uses a number of its own.
Message == {m \in [type : Types, seq : Nat, data : Data] : m.data.call \in {m.seq, 0}}
Node == {x \in [seq : Nat, data : Data] : x.data.call \in {x.seq, 0}}

\* In the FIFO, in the hands of a program and in g_list, data and sequence number belong together.
DataFitsSeq ==
  /\ g_seq \in Nat /\ fifo \in Seq(Message) /\ list \in Seq(Node)
  /\ got \in [Listeners -> Message] /\ dev.msg \in Message

LEMMA NoMessageFits == NoMessage \in Message
BY DEF NoMessage, NoData, Message, Data, Types

LEMMA InitDataFitsSeq == Init => DataFitsSeq
<1>1. NoMessage \in Message
  BY NoMessageFits
<1>2. <<>> \in Seq(Message) /\ <<>> \in Seq(Node)
  OBVIOUS
<1> QED BY <1>1, <1>2 DEF Init, DataFitsSeq

\* The first message of a FIFO that is not empty is a message.
LEMMA HeadIsMessage ==
  ASSUME DataFitsSeq, fifo # <<>>
  PROVE  Head(fifo) \in Message
BY DEF DataFitsSeq

\* A request carries the number of the call.
LEMMA CallSendFits ==
  ASSUME DataFitsSeq, NEW type \in MsgTypes, CallSend(type)
  PROVE  DataFitsSeq'
<1>1. g_seq' \in Nat /\ UNCHANGED <<list, got, dev>>
  BY DEF CallSend, DataFitsSeq
<1>2. [type |-> type, seq |-> g_seq', data |-> [by |-> "host", call |-> g_seq']] \in Message
  BY <1>1, MsgTypesAssumption DEF Message, Data
<1>3. fifo' \in Seq(Message)
  BY <1>2 DEF CallSend, DataFitsSeq
<1> QED BY <1>1, <1>3 DEF DataFitsSeq

\* A node is taken out of the list, the others stay as they are.
LEMMA CallReturnFits ==
  ASSUME DataFitsSeq, CallReturn
  PROVE  DataFitsSeq' /\ result'.call \in {g_seq, 0}
<1>1. PICK i \in zw_uptp_list_pop_by_seq(list, g_seq) :
        /\ result' = list[i].data
        /\ list' = SubSeq(list, 1, i - 1) \o SubSeq(list, i + 1, Len(list))
  BY DEF CallReturn
<1>2. i \in 1 .. Len(list) /\ list[i].seq = g_seq /\ list[i] \in Node
  BY DEF zw_uptp_list_pop_by_seq, DataFitsSeq
<1>3. SubSeq(list, 1, i - 1) \in Seq(Node) /\ SubSeq(list, i + 1, Len(list)) \in Seq(Node)
  BY <1>2 DEF DataFitsSeq
<1>4. list' \in Seq(Node)
  BY <1>1, <1>3
<1>5. result'.call \in {g_seq, 0}
  BY <1>1, <1>2 DEF Node
<1> QED BY <1>4, <1>5 DEF CallReturn, DataFitsSeq

\* What a FIFO keeps are messages.
LEMMA LeftFits ==
  ASSUME NEW f \in Seq(Message), NEW held, NEW g \in Left(f, held)
  PROVE  g \in Seq(Message)
<1>1. g = f \/ g = <<>>
  BY Zenon DEF Left
<1>2. <<>> \in Seq(Message)
  OBVIOUS
<1> QED BY <1>1, <1>2

\* The listener takes one message.
LEMMA ReadFits ==
  ASSUME DataFitsSeq, NEW l \in Listeners, Read(l)
  PROVE  DataFitsSeq'
<1>1. fifo' = <<>> /\ <<>> \in Seq(Message)
  BY DEF Read
<1>2. got' = [got EXCEPT ![l] = Head(fifo)] /\ Head(fifo) \in Message
  BY HeadIsMessage DEF Read
<1>3. got' \in [Listeners -> Message]
  BY <1>2 DEF DataFitsSeq
<1>4. UNCHANGED <<g_seq, list, dev>>
  BY DEF Read
<1> QED BY <1>1, <1>3, <1>4 DEF DataFitsSeq

\* It turns the message into a node.
LEMMA HandleFits ==
  ASSUME DataFitsSeq, NEW l \in Listeners, Handle(l)
  PROVE  DataFitsSeq'
<1>1. got[l] \in Message /\ NoMessage \in Message
  BY NoMessageFits DEF DataFitsSeq
<1>2. [seq |-> got[l].seq, data |-> got[l].data] \in Node
  BY <1>1 DEF Message, Node
<1>3. list' \in Seq(Node)
  BY <1>2 DEF Handle, DataFitsSeq
<1>4. got' \in [Listeners -> Message]
  BY <1>1 DEF Handle, DataFitsSeq
<1>5. UNCHANGED <<g_seq, fifo, dev>>
  BY DEF Handle
<1> QED BY <1>3, <1>4, <1>5 DEF DataFitsSeq

\* The device answers under the number of what it has read.
LEMMA DeviceFits ==
  ASSUME DataFitsSeq, DeviceStep
  PROVE  DataFitsSeq'
<1>1. UNCHANGED <<g_seq, list, got>>
  BY DEF DeviceStep, DeviceOpen, DeviceReceive, DeviceSend, host
<1>2. CASE DeviceOpen
  BY <1>1, <1>2, NoMessageFits DEF DeviceOpen, DataFitsSeq
<1>3. CASE DeviceReceive
  <2>1. fifo' = <<>> /\ <<>> \in Seq(Message) /\ dev'.msg \in Message
    BY <1>3, HeadIsMessage DEF DeviceReceive
  <2> QED BY <1>1, <2>1 DEF DataFitsSeq
<1>4. CASE DeviceSend
  <2> DEFINE answer == [type |-> "RESPONSE", seq |-> dev.msg.seq,
                        data |-> [by |-> "device", call |-> dev.msg.data.call]]
  <2>1. answer \in Message
    BY DEF DataFitsSeq, Message, Data, Types
  <2>2. fifo' \in Left(Append(fifo, answer), HostHolds(open)) /\ dev'.msg = NoMessage
    BY <1>4 DEF DeviceSend
  <2> HIDE DEF answer
  <2>3. Append(fifo, answer) \in Seq(Message)
    BY <2>1 DEF DataFitsSeq
  <2>4. fifo' \in Seq(Message)
    BY <2>2, <2>3, LeftFits
  <2> QED BY <1>1, <2>2, <2>4, NoMessageFits DEF DataFitsSeq
<1> QED BY <1>2, <1>3, <1>4 DEF DeviceStep

LEMMA SenderFits ==
  ASSUME DataFitsSeq, Sender
  PROVE  DataFitsSeq'
<1> DEFINE event == [type |-> "REQUEST", seq |-> 1, data |-> [by |-> "sender", call |-> 0]]
<1>1. event \in Message
  BY DEF Message, Data, Types
<1>2. fifo' \in Left(Append(fifo, event), HostHolds(open) \/ DeviceHolds)
      /\ UNCHANGED <<g_seq, list, got, dev>>
  BY DEF Sender, host
<1> HIDE DEF event
<1>3. Append(fifo, event) \in Seq(Message)
  BY <1>1 DEF DataFitsSeq
<1>4. fifo' \in Seq(Message)
  BY <1>2, <1>3, LeftFits
<1> QED BY <1>2, <1>4 DEF DataFitsSeq

LEMMA NextDataFitsSeq == DataFitsSeq /\ [Next]_vars => DataFitsSeq'
<1> SUFFICES ASSUME DataFitsSeq, [Next]_vars PROVE DataFitsSeq'
  OBVIOUS
<1>1. CASE zw_usbpipe_uptp_init \/ zw_usbpipe_uptp_bind_opt \/ zw_usbpipe_uptp_uninit
  <2>1. <<>> \in Seq(Node)
    OBVIOUS
  <2>2. UNCHANGED <<g_seq, got, dev>> /\ (list' = list \/ list' = <<>>)
    BY <1>1, Zenon DEF zw_usbpipe_uptp_init, zw_usbpipe_uptp_bind_opt, zw_usbpipe_uptp_uninit
  <2>3. fifo' = fifo \/ fifo' \in Left(fifo, HostHolds(open \ {fd}) \/ DeviceHolds)
    BY <1>1, Zenon DEF zw_usbpipe_uptp_init, zw_usbpipe_uptp_bind_opt, zw_usbpipe_uptp_uninit
  <2>4. fifo' \in Seq(Message)
    BY <2>3, LeftFits DEF DataFitsSeq
  <2> QED BY <2>1, <2>2, <2>4 DEF DataFitsSeq
<1>2. CASE \E type \in MsgTypes : CallSend(type)
  BY <1>2, CallSendFits
<1>3. CASE CallReturn
  BY <1>3, CallReturnFits
<1>4. ASSUME NEW l \in Listeners, \/ Start(l) \/ Poll(l) \/ ReadFd(l) \/ ReadEnter(l)
                                  \/ ReadFails(l)
      PROVE  DataFitsSeq'
  <2>1. UNCHANGED <<g_seq, list, got, dev>>
    BY <1>4 DEF Start, Poll, ReadFd, ReadEnter, ReadFails
  <2>2. fifo' = fifo \/ fifo' \in Left(fifo, DeviceHolds)
    BY <1>4 DEF Start, Poll, ReadFd, ReadEnter, ReadFails
  <2>3. fifo' \in Seq(Message)
    BY <2>2, LeftFits DEF DataFitsSeq
  <2> QED BY <2>1, <2>3 DEF DataFitsSeq
<1>5. ASSUME NEW l \in Listeners, Read(l) \/ Handle(l) PROVE DataFitsSeq'
  BY <1>5, ReadFits, HandleFits
<1>6. CASE DeviceStep \/ Sender
  BY <1>6, DeviceFits, SenderFits
<1>7. CASE UNCHANGED vars
  BY <1>7 DEF vars, host, DataFitsSeq
<1> QED BY <1>1, <1>2, <1>3, <1>4, <1>5, <1>6, <1>7 DEF Next, ListenerStep

-----------------------------------------------------------------------------
\* call_sync returns data of its own call or of the sender program, never that
\* of an earlier call, however late, often or by whom that was answered.
THEOREM AnswersAreFresh == Spec => NoStaleAnswer
<1>1. Spec => []DataFitsSeq
  BY InitDataFitsSeq, NextDataFitsSeq, PTL DEF Spec
<1>2. DataFitsSeq /\ [Next]_vars
        => [app = "waiting" /\ app' = "idle" => result'.call \in {g_seq, 0}]_vars
  <2> SUFFICES ASSUME DataFitsSeq, Next, app = "waiting", app' = "idle"
               PROVE  result'.call \in {g_seq, 0}
    OBVIOUS
  <2>1. CallReturn
    BY DEF Next, zw_usbpipe_uptp_init, zw_usbpipe_uptp_bind_opt, zw_usbpipe_uptp_uninit,
           CallSend, ListenerStep, Start, Poll, ReadFd, ReadEnter, ReadFails, Read, Handle,
           DeviceStep, DeviceOpen, DeviceReceive, DeviceSend, Sender, host
  <2> QED BY <2>1, CallReturnFits
<1> QED BY <1>1, <1>2, PTL DEF Spec, NoStaleAnswer
=============================================================================
