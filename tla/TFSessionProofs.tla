-------------------------- MODULE TFSessionProofs --------------------------
(***************************************************************************)
(* What is proved of the listener tables and of queries over a line that   *)
(* loses and delays frames.                                                *)
(*                                                                         *)
(* The first part is about TFListeners, which TFSession extends: it cites  *)
(* no constant, variable, definition or assumption of TFSession, and its   *)
(* theorems hold of TFListeners on its own, for tables of any size and any *)
(* users: the counts and the dispatch in both modes of TF_Tick and of      *)
(* removal from within a callback, the userdata where neither happens.     *)
(*                                                                         *)
(* The second part is about TFSession, for any number of IDs, queries and  *)
(* answers and any timeouts: an answer reaches the query it belongs to or  *)
(* none, timeouts count the ticks, and for its caller a query is refused,  *)
(* or open and then over.                                                  *)
(***************************************************************************)
EXTENDS TFSession, TLAPS

(***************************************************************************)
(* TFListeners.                                                            *)
(***************************************************************************)

IdTable == [IdSlots -> IdListener \cup {Null}]

\* The part of the state that says where a dispatch is and whom it owes the
\* message: the listeners in pend are live, match, and lie behind rx.at.
PendOK ==
  /\ rx.pc = "idle" => pend = {}
  /\ rx.pc = "callback" => pend \subseteq Live(rx.id, rx.type)
  /\ NoListenerSkipped

\* The inductive invariant.
IInv == TypeOK /\ CountsCoverLive /\ PendOK

-----------------------------------------------------------------------------
\* Filling slot i and raising the count as the TF_Add functions do keeps the
\* count in range and above every live slot.
LEMMA FillCovers ==
  ASSUME NEW N \in Nat, NEW V, NEW tbl \in [0 .. N - 1 -> V],
         NEW count \in 0 .. N, NEW i \in 0 .. N - 1, NEW v,
         Covers(tbl, count)
  PROVE  /\ CountFilled(i, count) \in 0 .. N
         /\ Covers([tbl EXCEPT ![i] = v], CountFilled(i, count))
  BY DEF Covers, CountFilled

\* Emptying slot i and lowering the count as the cleanup functions do keeps
\* the count in range and above every live slot.
LEMMA EmptyCovers ==
  ASSUME NEW N \in Nat, NEW V, NEW tbl \in [0 .. N - 1 -> V],
         NEW count \in 0 .. N, NEW i \in 0 .. N - 1,
         Covers(tbl, count)
  PROVE  /\ CountEmptied(i, count) \in 0 .. N
         /\ Covers([tbl EXCEPT ![i] = Null], CountEmptied(i, count))
  BY DEF Covers, CountEmptied

\* A tick that counts timeouts down changes neither which slots are live nor
\* the IDs they wait for.
LEMMA AgedKeepsSlots ==
  ASSUME TypeOK, NEW from \in Nat, NEW to \in Nat
  PROVE  /\ Aged(from, to) \in IdTable
         /\ \A j \in IdSlots : Aged(from, to)[j] = Null <=> idLst[j] = Null
         /\ \A j \in IdSlots : idLst[j] # Null => Aged(from, to)[j].id = idLst[j].id
<1> DEFINE A == Aged(from, to)
<1>1. ASSUME NEW j \in IdSlots
      PROVE  /\ A[j] \in IdListener \cup {Null}
             /\ A[j] = Null <=> idLst[j] = Null
             /\ idLst[j] # Null => A[j].id = idLst[j].id
  <2>1. A[j] = IF from <= j /\ j <= to /\ j < countId /\ idLst[j] # Null
                    /\ idLst[j].timeout # 0
               THEN [idLst[j] EXCEPT !.timeout = idLst[j].timeout - 1]
               ELSE idLst[j]
    BY DEF Aged
  <2>2. idLst[j] \in IdListener \cup {Null}
    BY DEF TypeOK
  <2>3. CASE idLst[j] # Null /\ idLst[j].timeout # 0
    <3>1. [idLst[j] EXCEPT !.timeout = idLst[j].timeout - 1] \in IdListener
      BY <2>2, <2>3, SizeAssumption DEF IdListener
    <3>2. [idLst[j] EXCEPT !.timeout = idLst[j].timeout - 1].id = idLst[j].id
      BY <2>2, <2>3 DEF IdListener
    <3> QED BY <2>1, <2>2, <2>3, <3>1, <3>2, NullAssumption
  <2>4. CASE ~(idLst[j] # Null /\ idLst[j].timeout # 0)
    BY <2>1, <2>2, <2>4
  <2> QED BY <2>3, <2>4
<1>2. A = [j \in IdSlots |-> A[j]]
  BY DEF Aged
<1>3. A \in IdTable
  BY <1>1, <1>2 DEF IdTable
<1> QED BY <1>1, <1>3

\* The table tbl has the same live slots as id_listeners, for the same IDs.
SameSlots(tbl) ==
  /\ tbl \in IdTable
  /\ \A j \in IdSlots : tbl[j] = Null <=> idLst[j] = Null
  /\ \A j \in IdSlots : idLst[j] # Null => tbl[j].id = idLst[j].id

\* What cleanup_id_listener leaves behind, whether it empties the slot at once
\* or stops at the user's callback first.
LEMMA CleanupKeepsTable ==
  ASSUME TypeOK, CountsCoverLive, NEW i \in IdSlots, NEW tbl, SameSlots(tbl),
         NEW h \in SUBSET Userdata, cleanup_id_listener(i, tbl, h)
  PROVE  /\ idLst' \in IdTable /\ countId' \in 0 .. NumId
         /\ Covers(idLst, countId)'
         /\ cl' \in Seq(IdSlots) /\ held' \subseteq Userdata
         /\ \/ /\ pend' = pend
               /\ SameSlots(idLst')
            \/ /\ pend' = pend \ {<<1, i>>}
               /\ \A j \in IdSlots \ {i} :
                    /\ idLst'[j] = Null <=> idLst[j] = Null
                    /\ idLst[j] # Null => idLst'[j].id = idLst[j].id
<1>0. /\ Covers(tbl, countId) /\ NumId \in Nat /\ countId \in 0 .. NumId
      /\ tbl \in [0 .. NumId - 1 -> IdListener \cup {Null}]
      /\ NumId \in 0 .. NumId /\ i \in 0 .. NumId - 1 /\ cl \in Seq(IdSlots)
      /\ <<i>> \o cl \in Seq(IdSlots)
  BY SizeAssumption DEF TypeOK, CountsCoverLive, Covers, SameSlots, IdTable, IdSlots
<1>1. CASE /\ tbl[i] = Null
           /\ idLst' = tbl /\ held' = h
           /\ UNCHANGED <<countId, cl, pend>>
  BY <1>0, <1>1 DEF SameSlots, Covers, IdTable
<1>2. CASE /\ tbl[i] # Null /\ tbl[i].userdata # Null
           /\ idLst' = tbl /\ cl' = <<i>> \o cl /\ held' = h \ {tbl[i].userdata}
           /\ UNCHANGED <<countId, pend>>
  BY <1>0, <1>2 DEF SameSlots, Covers, IdTable
<1>3. CASE /\ tbl[i] # Null /\ tbl[i].userdata = Null
           /\ idLst' = [tbl EXCEPT ![i] = Null]
           /\ countId' = CountEmptied(i, countId)
           /\ pend' = pend \ {<<1, i>>}
           /\ held' = h
           /\ UNCHANGED cl
  <2>1. countId' \in 0 .. NumId /\ Covers(idLst', countId')
    BY <1>0, <1>3, EmptyCovers
  <2>2. idLst' \in IdTable
    BY <1>3 DEF SameSlots, IdTable
  <2> QED BY <1>0, <1>3, <2>1, <2>2 DEF SameSlots, IdTable, Covers
<1> QED BY <1>1, <1>2, <1>3 DEF cleanup_id_listener

-----------------------------------------------------------------------------
\* References to listeners are totally ordered by the order of the loops.
LEMMA BeforeTotal ==
  ASSUME NEW c \in ListenerRef, NEW d \in ListenerRef, c # d, ~Before(d, c)
  PROVE  Before(c, d)
  BY SizeAssumption
     DEF ListenerRef, Before, IdSlots, TypeSlots, GenericSlots

\* With counts above every live slot, the loops reach every live listener.
LEMMA MatchingIsLive ==
  ASSUME TypeOK, CountsCoverLive, NEW id \in Ids, NEW type \in Types
  PROVE  /\ Matching(id, type) = Live(id, type)
         /\ Live(id, type) \subseteq ListenerRef
         /\ \A c \in Live(id, type) :
              c[1] = 1 => c[2] \in IdSlots /\ idLst[c[2]] # Null
  BY NullAssumption
     DEF TypeOK, CountsCoverLive, Covers, Matching, Live, IdFound, ListenerRef

\* Going on to the next listener keeps the debt of the dispatch right.
LEMMA OfferKeepsDebt ==
  ASSUME TypeOK, NEW id \in Ids, NEW type \in Types,
         NEW rest \in SUBSET Live(id, type), Live(id, type) \subseteq ListenerRef,
         \A c \in rest : c[1] = 1 => c[2] \in IdSlots /\ idLst[c[2]] # Null,
         NEW p \in SUBSET rest, Offer(rest, id, type, p)
  PROVE  /\ rx' \in [pc : {"idle", "callback", "unhandled"}, id : Ids \cup {Null},
                     type : Types \cup {Null}, at : ListenerRef \cup {<<0, 0>>},
                     userdata : Userdata \cup {Null}]
         /\ rx'.pc # "idle"
         /\ rx'.pc = "callback" => /\ rx'.id = id /\ rx'.type = type
                                   /\ rx'.at \in ListenerRef
                                   /\ \A c \in pend' : Before(rx'.at, c)
         /\ rx'.pc = "unhandled" => pend' = {}
         /\ pend' \subseteq p
<1>1. CASE rest = {} /\ rx' = [IdleRx EXCEPT !.pc = "unhandled"] /\ pend' = p
  BY <1>1 DEF IdleRx
<1>2. ASSUME NEW c \in rest, \A d \in rest : ~Before(d, c),
             rx' = [pc |-> "callback", id |-> id, type |-> type, at |-> c,
                    userdata |-> IF c[1] = 1 THEN idLst[c[2]].userdata ELSE Null],
             pend' = p \ {c}
      PROVE  /\ rx' \in [pc : {"idle", "callback", "unhandled"}, id : Ids \cup {Null},
                         type : Types \cup {Null}, at : ListenerRef \cup {<<0, 0>>},
                         userdata : Userdata \cup {Null}]
             /\ rx'.pc = "callback" /\ rx'.id = id /\ rx'.type = type
             /\ rx'.at \in ListenerRef
             /\ \A d \in pend' : Before(rx'.at, d)
             /\ pend' \subseteq p
  <2>1. c \in ListenerRef
    BY <1>2
  <2>2. (IF c[1] = 1 THEN idLst[c[2]].userdata ELSE Null) \in Userdata \cup {Null}
    BY <1>2 DEF TypeOK, IdListener
  <2>3. \A d \in pend' : Before(c, d)
    BY <1>2, <2>1, BeforeTotal
  <2> QED BY <1>2, <2>1, <2>2, <2>3
<1> QED BY <1>1, <1>2 DEF Offer

-----------------------------------------------------------------------------
\* A step that leaves the dispatch alone, and removes from its debt at least
\* the listeners that are gone, keeps the debt right.
LEMMA DebtStable ==
  ASSUME TypeOK, PendOK, rx' = rx, pend' \subseteq pend,
         \A c \in pend' :
           /\ c[1] = 1 => idLst'[c[2]] # Null /\ idLst'[c[2]].id = idLst[c[2]].id
           /\ c[1] = 2 => typeLst'[c[2]] = typeLst[c[2]]
           /\ c[1] = 3 => genericLst'[c[2]] = genericLst[c[2]]
  PROVE  PendOK'
<1>1. ASSUME rx.pc = "callback", NEW c \in pend'
      PROVE  c \in Live(rx.id, rx.type)'
  BY <1>1 DEF PendOK, Live
<1> QED BY <1>1 DEF PendOK, NoListenerSkipped

\* A listener that is owed the message is a live one.
LEMMA DebtIsLive ==
  ASSUME TypeOK, PendOK, NEW c \in pend
  PROVE  /\ c \in ListenerRef
         /\ c[1] = 1 => c[2] \in IdSlots /\ idLst[c[2]] # Null
         /\ c[1] = 2 => c[2] \in TypeSlots /\ typeLst[c[2]] # Null
         /\ c[1] = 3 => c[2] \in GenericSlots /\ genericLst[c[2]] # Null
<1>1. rx.pc = "callback"
  BY DEF PendOK, NoListenerSkipped, TypeOK
<1>2. c \in Live(rx.id, rx.type) /\ rx.type \in Types
  BY <1>1 DEF PendOK, TypeOK
<1> QED BY <1>2, NullAssumption DEF Live, TypeOK

\* The parts of TypeOK about the tick in progress.
TickOK == /\ tick \in [pc : {"idle", "scan", "timeout"}, i : 0 .. NumId]
          /\ tick.pc = "timeout" => tick.i \in IdSlots

\* A step that changes neither which ID slots are live nor their IDs.
LEMMA SameSlotsIInv ==
  ASSUME IInv, SameSlots(idLst'), TickOK',
         UNCHANGED <<countId, typeLst, countType, genericLst, countGeneric,
                     rx, cl, held, pend>>
  PROVE  IInv'
<1>1. TypeOK'
  BY DEF IInv, TypeOK, TickOK, SameSlots, IdTable
<1>2. CountsCoverLive'
  BY DEF IInv, TypeOK, CountsCoverLive, Covers, SameSlots, IdTable
<1>3. \A c \in pend : c[1] = 1 => c[2] \in IdSlots /\ idLst[c[2]] # Null
  BY DebtIsLive DEF IInv
<1>4. PendOK'
  BY <1>3, DebtStable DEF IInv, SameSlots
<1> QED BY <1>1, <1>2, <1>4 DEF IInv

\* A step that cleans up an ID listener.
LEMMA CleanupIInv ==
  ASSUME IInv, NEW i \in IdSlots, NEW tbl, SameSlots(tbl),
         NEW h \in SUBSET Userdata, cleanup_id_listener(i, tbl, h), TickOK',
         UNCHANGED <<typeLst, countType, genericLst, countGeneric, rx>>
  PROVE  IInv'
<1>1. /\ idLst' \in IdTable /\ countId' \in 0 .. NumId
      /\ Covers(idLst, countId)'
      /\ cl' \in Seq(IdSlots) /\ held' \subseteq Userdata
      /\ \/ /\ pend' = pend
            /\ SameSlots(idLst')
         \/ /\ pend' = pend \ {<<1, i>>}
            /\ \A j \in IdSlots \ {i} :
                 /\ idLst'[j] = Null <=> idLst[j] = Null
                 /\ idLst[j] # Null => idLst'[j].id = idLst[j].id
  BY CleanupKeepsTable DEF IInv
<1>2. TypeOK'
  BY <1>1 DEF IInv, TypeOK, TickOK, IdTable
<1>3. CountsCoverLive'
  BY <1>1 DEF IInv, CountsCoverLive
<1>4. \A c \in pend : c \in ListenerRef /\ (c[1] = 1 => c[2] \in IdSlots /\ idLst[c[2]] # Null)
  BY DebtIsLive DEF IInv
<1>5. \A c \in pend' : c[1] = 1 => idLst'[c[2]] # Null /\ idLst'[c[2]].id = idLst[c[2]].id
  <2>1. CASE pend' = pend /\ SameSlots(idLst')
    BY <1>4, <2>1 DEF SameSlots
  <2>2. CASE /\ pend' = pend \ {<<1, i>>}
             /\ \A j \in IdSlots \ {i} :
                  /\ idLst'[j] = Null <=> idLst[j] = Null
                  /\ idLst[j] # Null => idLst'[j].id = idLst[j].id
    <3>1. \A c \in pend' : c[1] = 1 => c[2] # i
      BY <1>4, <2>2 DEF ListenerRef
    <3> QED BY <1>4, <2>2, <3>1
  <2> QED BY <1>1, <2>1, <2>2
<1>6. pend' \subseteq pend
  BY <1>1
<1>7. PendOK'
  BY <1>5, <1>6, DebtStable DEF IInv
<1> QED BY <1>2, <1>3, <1>7 DEF IInv

-----------------------------------------------------------------------------
\* The initial state: nothing is registered and nothing is going on.
LEMMA InitIInv == Init => IInv
<1> SUFFICES ASSUME Init PROVE IInv
  OBVIOUS
<1>1. TypeOK
  BY SizeAssumption
     DEF Init, TypeOK, IdleRx, IdleTick, IdSlots, TypeSlots, GenericSlots
<1>2. CountsCoverLive
  BY DEF Init, CountsCoverLive, Covers
<1>3. PendOK
  BY DEF Init, PendOK, NoListenerSkipped, IdleRx
<1> QED BY <1>1, <1>2, <1>3 DEF IInv

\* Every call of the API, from the top level or from a callback, keeps IInv.
LEMMA ApiIInv == IInv /\ ApiCall => IInv'
<1> SUFFICES ASSUME IInv, ApiCall PROVE IInv'
  OBVIOUS
<1> USE DEF IInv
<1>1. CASE TF_InitStatic
  <2>1. TypeOK'
    BY <1>1, SizeAssumption DEF TF_InitStatic, TypeOK
  <2>2. CountsCoverLive'
    BY <1>1 DEF TF_InitStatic, CountsCoverLive, Covers
  <2>3. PendOK'
    BY <1>1 DEF TF_InitStatic, PendOK, NoListenerSkipped, IdleRx
  <2> QED BY <2>1, <2>2, <2>3
<1>2. ASSUME NEW id \in Ids, NEW u \in Userdata \cup {Null},
             NEW t \in 0 .. MaxTimeout, NEW ft \in BOOLEAN,
             TF_AddIdListener(id, u, t, ft)
      PROVE  IInv'
  <2> DEFINE l == [id |-> id, userdata |-> u, timeout |-> t, timeout_max |-> t,
                   fn_timeout |-> ft]
  <2>1. PICK i \in IdSlots :
          /\ IsFirst(i, Free(idLst))
          /\ idLst' = [idLst EXCEPT ![i] = l]
          /\ countId' = CountFilled(i, countId)
    BY <1>2 DEF TF_AddIdListener
  <2>2. idLst[i] = Null
    BY <2>1 DEF IsFirst, Free
  <2>3. l \in IdListener
    BY DEF IdListener
  <2>4. countId' \in 0 .. NumId /\ Covers(idLst, countId)'
    BY <2>1, SizeAssumption, FillCovers DEF TypeOK, CountsCoverLive, IdSlots
  <2>5. TypeOK'
    BY <1>2, <2>1, <2>3, <2>4 DEF TF_AddIdListener, TypeOK
  <2>6. CountsCoverLive'
    BY <1>2, <2>4 DEF TF_AddIdListener, CountsCoverLive
  <2>7. \A c \in pend : c[1] = 1 => c[2] # i /\ c[2] \in IdSlots /\ idLst[c[2]] # Null
    BY <2>2, DebtIsLive
  <2>8. PendOK'
    <3>1. \A c \in pend : c[1] = 1 => idLst'[c[2]] = idLst[c[2]]
      BY <2>1, <2>7 DEF TypeOK
    <3> QED BY <1>2, <2>7, <3>1, DebtStable DEF TF_AddIdListener
  <2> QED BY <2>5, <2>6, <2>8
<1>3. ASSUME NEW id \in Ids, TF_RemoveIdListener(id) PROVE IInv'
  <2>1. PICK i \in IdSlots : cleanup_id_listener(i, idLst, held)
    BY <1>3 DEF TF_RemoveIdListener
  <2>2. SameSlots(idLst)
    BY DEF SameSlots, TypeOK, IdTable
  <2>3. held \in SUBSET Userdata
    BY DEF TypeOK
  <2>4. TickOK'
    BY <1>3 DEF TF_RemoveIdListener, TypeOK, TickOK
  <2> QED BY <1>3, <2>1, <2>2, <2>3, <2>4, CleanupIInv DEF TF_RemoveIdListener
<1>4. ASSUME NEW id \in Ids, TF_RenewIdListener(id) PROVE IInv'
  <2>1. PICK i \in IdSlots :
          /\ idLst[i] # Null
          /\ idLst' = [idLst EXCEPT ![i].timeout = idLst[i].timeout_max]
    BY <1>4 DEF TF_RenewIdListener, IsFirst, IdFound
  <2>2. idLst[i] \in IdListener /\ idLst'[i] = [idLst[i] EXCEPT !.timeout = idLst[i].timeout_max]
    BY <2>1 DEF TypeOK
  <2>3. idLst'[i] \in IdListener /\ idLst'[i].id = idLst[i].id
    BY <2>2 DEF IdListener
  <2>4. SameSlots(idLst')
    BY <2>1, <2>2, <2>3, NullAssumption DEF SameSlots, IdTable, TypeOK
  <2>5. TickOK'
    BY <1>4 DEF TF_RenewIdListener, TypeOK, TickOK
  <2> QED BY <1>4, <2>4, <2>5, SameSlotsIInv DEF TF_RenewIdListener
<1>5. ASSUME NEW type \in Types, TF_AddTypeListener(type) PROVE IInv'
  <2>1. PICK i \in TypeSlots :
          /\ IsFirst(i, Free(typeLst))
          /\ typeLst' = [typeLst EXCEPT ![i] = type]
          /\ countType' = CountFilled(i, countType)
    BY <1>5 DEF TF_AddTypeListener
  <2>2. countType' \in 0 .. NumType /\ Covers(typeLst, countType)'
    BY <2>1, SizeAssumption, FillCovers DEF TypeOK, CountsCoverLive, TypeSlots
  <2>3. TypeOK'
    BY <1>5, <2>1, <2>2 DEF TF_AddTypeListener, TypeOK
  <2>4. CountsCoverLive'
    BY <1>5, <2>2 DEF TF_AddTypeListener, CountsCoverLive
  <2>5. \A c \in pend : /\ c[1] = 1 => idLst[c[2]] # Null
                        /\ c[1] = 2 => c[2] \in TypeSlots /\ typeLst[c[2]] # Null
    BY DebtIsLive
  <2>6. \A c \in pend : c[1] = 2 => typeLst'[c[2]] = typeLst[c[2]]
    BY <2>1, <2>5 DEF TypeOK, IsFirst, Free
  <2>7. PendOK'
    BY <1>5, <2>5, <2>6, DebtStable DEF TF_AddTypeListener
  <2> QED BY <2>3, <2>4, <2>7
<1>6. ASSUME NEW type \in Types, TF_RemoveTypeListener(type) PROVE IInv'
  <2>1. PICK i \in TypeSlots : cleanup_type_listener(i)
    BY <1>6 DEF TF_RemoveTypeListener
  <2>2. countType' \in 0 .. NumType /\ Covers(typeLst, countType)'
    BY <2>1, SizeAssumption, EmptyCovers
       DEF TypeOK, CountsCoverLive, TypeSlots, cleanup_type_listener
  <2>3. TypeOK'
    BY <1>6, <2>1, <2>2 DEF TF_RemoveTypeListener, TypeOK, cleanup_type_listener
  <2>4. CountsCoverLive'
    BY <1>6, <2>2 DEF TF_RemoveTypeListener, CountsCoverLive
  <2>5. \A c \in pend : c \in ListenerRef /\ (c[1] = 1 => idLst[c[2]] # Null)
    BY DebtIsLive
  <2>6. \A c \in pend' : c[1] = 2 => typeLst'[c[2]] = typeLst[c[2]]
    BY <2>1, <2>5 DEF TypeOK, ListenerRef, cleanup_type_listener
  <2>7. PendOK'
    BY <1>6, <2>1, <2>5, <2>6, DebtStable DEF TF_RemoveTypeListener, cleanup_type_listener
  <2> QED BY <2>3, <2>4, <2>7
<1>7. ASSUME NEW cb \in Callbacks, TF_AddGenericListener(cb) PROVE IInv'
  <2>1. PICK i \in GenericSlots :
          /\ IsFirst(i, Free(genericLst))
          /\ genericLst' = [genericLst EXCEPT ![i] = cb]
          /\ countGeneric' = CountFilled(i, countGeneric)
    BY <1>7 DEF TF_AddGenericListener
  <2>2. countGeneric' \in 0 .. NumGeneric /\ Covers(genericLst, countGeneric)'
    BY <2>1, SizeAssumption, FillCovers DEF TypeOK, CountsCoverLive, GenericSlots
  <2>3. TypeOK'
    BY <1>7, <2>1, <2>2 DEF TF_AddGenericListener, TypeOK
  <2>4. CountsCoverLive'
    BY <1>7, <2>2 DEF TF_AddGenericListener, CountsCoverLive
  <2>5. \A c \in pend : /\ c[1] = 1 => idLst[c[2]] # Null
                        /\ c[1] = 3 => c[2] \in GenericSlots /\ genericLst[c[2]] # Null
    BY DebtIsLive
  <2>6. \A c \in pend : c[1] = 3 => genericLst'[c[2]] = genericLst[c[2]]
    BY <2>1, <2>5 DEF TypeOK, IsFirst, Free
  <2>7. PendOK'
    BY <1>7, <2>5, <2>6, DebtStable DEF TF_AddGenericListener
  <2> QED BY <2>3, <2>4, <2>7
<1>8. ASSUME NEW cb \in Callbacks, TF_RemoveGenericListener(cb) PROVE IInv'
  <2>1. PICK i \in GenericSlots : cleanup_generic_listener(i)
    BY <1>8 DEF TF_RemoveGenericListener
  <2>2. countGeneric' \in 0 .. NumGeneric /\ Covers(genericLst, countGeneric)'
    BY <2>1, SizeAssumption, EmptyCovers
       DEF TypeOK, CountsCoverLive, GenericSlots, cleanup_generic_listener
  <2>3. TypeOK'
    BY <1>8, <2>1, <2>2 DEF TF_RemoveGenericListener, TypeOK, cleanup_generic_listener
  <2>4. CountsCoverLive'
    BY <1>8, <2>2 DEF TF_RemoveGenericListener, CountsCoverLive
  <2>5. \A c \in pend : c \in ListenerRef /\ (c[1] = 1 => idLst[c[2]] # Null)
    BY DebtIsLive
  <2>6. \A c \in pend' : c[1] = 3 => genericLst'[c[2]] = genericLst[c[2]]
    BY <2>1, <2>5 DEF TypeOK, ListenerRef, cleanup_generic_listener
  <2>7. PendOK'
    BY <1>8, <2>1, <2>5, <2>6, DebtStable
       DEF TF_RemoveGenericListener, cleanup_generic_listener
  <2> QED BY <2>3, <2>4, <2>7
<1> QED BY <1>1, <1>2, <1>3, <1>4, <1>5, <1>6, <1>7, <1>8 DEF ApiCall

\* The dispatch goes on to its next listener after a callback said TF_NEXT.
LEMMA OfferNextKeepsDebt ==
  ASSUME IInv, rx.pc = "callback", OfferNext,
         SameSlots(idLst'), UNCHANGED <<typeLst, genericLst>>
  PROVE  /\ rx' \in [pc : {"idle", "callback", "unhandled"}, id : Ids \cup {Null},
                     type : Types \cup {Null}, at : ListenerRef \cup {<<0, 0>>},
                     userdata : Userdata \cup {Null}]
         /\ rx'.pc = "callback" => rx'.id \in Ids /\ rx'.type \in Types /\ rx'.at \in ListenerRef
         /\ pend' \subseteq ListenerRef
         /\ PendOK'
<1> DEFINE rest == {c \in Matching(rx.id, rx.type) : Before(rx.at, c)}
<1>1. rx.id \in Ids /\ rx.type \in Types
  BY DEF IInv, TypeOK
<1>2. /\ Matching(rx.id, rx.type) = Live(rx.id, rx.type)
      /\ Live(rx.id, rx.type) \subseteq ListenerRef
      /\ \A c \in Live(rx.id, rx.type) :
           c[1] = 1 => c[2] \in IdSlots /\ idLst[c[2]] # Null
  BY <1>1, MatchingIsLive DEF IInv
<1>3. pend \in SUBSET rest
  BY <1>2 DEF IInv, PendOK, NoListenerSkipped
<1>4. rest \in SUBSET Live(rx.id, rx.type) /\ Offer(rest, rx.id, rx.type, pend)
  BY <1>2 DEF OfferNext
<1>5. /\ rx' \in [pc : {"idle", "callback", "unhandled"}, id : Ids \cup {Null},
                  type : Types \cup {Null}, at : ListenerRef \cup {<<0, 0>>},
                  userdata : Userdata \cup {Null}]
      /\ rx'.pc # "idle"
      /\ rx'.pc = "callback" => /\ rx'.id = rx.id /\ rx'.type = rx.type
                                /\ rx'.at \in ListenerRef
                                /\ \A c \in pend' : Before(rx'.at, c)
      /\ rx'.pc = "unhandled" => pend' = {}
      /\ pend' \subseteq pend
  <2> HIDE DEF rest
  <2>1. TypeOK /\ \A c \in rest : c[1] = 1 => c[2] \in IdSlots /\ idLst[c[2]] # Null
    BY <1>2, <1>4 DEF IInv
  <2> QED BY <1>1, <1>2, <1>3, <1>4, <2>1, OfferKeepsDebt
<1>6. \A c \in Live(rx.id, rx.type) : rx'.pc = "callback" => c \in Live(rx.id, rx.type)'
  BY <1>5 DEF Live, SameSlots
<1>7. PendOK'
  BY <1>5, <1>6 DEF IInv, PendOK, NoListenerSkipped
<1> QED BY <1>1, <1>5, <1>7 DEF IInv, TypeOK

\* A dispatch that ends owes nothing.
LEMMA ConsumedKeepsDebt ==
  ASSUME Consumed
  PROVE  /\ rx' \in [pc : {"idle", "callback", "unhandled"}, id : Ids \cup {Null},
                     type : Types \cup {Null}, at : ListenerRef \cup {<<0, 0>>},
                     userdata : Userdata \cup {Null}]
         /\ rx'.pc = "callback" => rx'.id \in Ids /\ rx'.type \in Types /\ rx'.at \in ListenerRef
         /\ pend' \subseteq ListenerRef
         /\ PendOK'
  BY DEF Consumed, IdleRx, PendOK, NoListenerSkipped

\* The beginning of a dispatch keeps IInv.
LEMMA DispatchIInv ==
  ASSUME IInv, NEW id \in Ids, NEW type \in Types, TF_HandleReceivedMessage(id, type)
  PROVE  IInv'
<1>1. /\ Matching(id, type) = Live(id, type)
      /\ Live(id, type) \subseteq ListenerRef
      /\ \A c \in Live(id, type) : c[1] = 1 => c[2] \in IdSlots /\ idLst[c[2]] # Null
  BY MatchingIsLive DEF IInv
<1>2. /\ rx' \in [pc : {"idle", "callback", "unhandled"}, id : Ids \cup {Null},
                  type : Types \cup {Null}, at : ListenerRef \cup {<<0, 0>>},
                  userdata : Userdata \cup {Null}]
      /\ rx'.pc # "idle"
      /\ rx'.pc = "callback" => /\ rx'.id = id /\ rx'.type = type
                                /\ rx'.at \in ListenerRef
                                /\ \A c \in pend' : Before(rx'.at, c)
      /\ rx'.pc = "unhandled" => pend' = {}
      /\ pend' \subseteq Live(id, type)
  <2>1. TypeOK /\ Offer(Live(id, type), id, type, Live(id, type))
    BY <1>1 DEF IInv, TF_HandleReceivedMessage
  <2> QED BY <1>1, <2>1, OfferKeepsDebt
<1>3. Live(id, type)' = Live(id, type)
  BY DEF TF_HandleReceivedMessage, tables, Live
<1>4. PendOK'
  <2>1. rx'.pc = "callback" => Live(rx.id, rx.type)' = Live(id, type)
    BY <1>2, <1>3
  <2> QED BY <1>2, <2>1 DEF PendOK, NoListenerSkipped
<1>5. TypeOK'
  BY <1>1, <1>2 DEF IInv, TypeOK, TF_HandleReceivedMessage, tables
<1>6. CountsCoverLive'
  BY DEF IInv, CountsCoverLive, Covers, TF_HandleReceivedMessage, tables
<1> QED BY <1>4, <1>5, <1>6 DEF IInv

\* The return of an ID listener keeps IInv, whatever the callback and an
\* interrupting tick have done to its slot meanwhile.
LEMMA IdReturnIInv ==
  ASSUME IInv, NEW res \in Results, NEW u, IdCallbackReturn(res, u)
  PROVE  IInv'
<1> DEFINE i == rx.at[2]
           put == IF idLst[i] = Null THEN idLst ELSE [idLst EXCEPT ![i].userdata = u]
<1>1. /\ rx.pc = "callback" /\ rx.at \in ListenerRef /\ i \in IdSlots
      /\ u \in Userdata \cup {Null} /\ rx.userdata \in Userdata \cup {Null}
  BY DEF IdCallbackReturn, CallbackEnds, IInv, TypeOK, ListenerRef
<1>2. SameSlots(put)
  <2>1. CASE idLst[i] = Null
    BY <2>1 DEF SameSlots, IInv, TypeOK, IdTable
  <2>2. CASE idLst[i] # Null
    <3>1. idLst[i] \in IdListener /\ put[i] = [idLst[i] EXCEPT !.userdata = u]
      BY <1>1, <2>2 DEF IInv, TypeOK
    <3>2. put[i] \in IdListener /\ put[i].id = idLst[i].id
      BY <1>1, <3>1 DEF IdListener
    <3>3. \A j \in IdSlots \ {i} : put[j] = idLst[j]
      BY <2>2 DEF IInv, TypeOK
    <3>4. put \in IdTable
      BY <1>1, <2>2, <3>2, <3>3 DEF IInv, TypeOK, IdTable
    <3> HIDE DEF put
    <3> QED BY <2>2, <3>2, <3>3, <3>4, NullAssumption DEF SameSlots
  <2> QED BY <2>1, <2>2
<1>3. /\ UNCHANGED <<typeLst, countType, genericLst, countGeneric, tick, cl>>
      /\ held' \subseteq Userdata
  BY DEF IdCallbackReturn, IInv, TypeOK
<1>4. CASE SameSlots(idLst') /\ countId' = countId /\ (OfferNext \/ Consumed)
  <2>1. /\ rx' \in [pc : {"idle", "callback", "unhandled"}, id : Ids \cup {Null},
                    type : Types \cup {Null}, at : ListenerRef \cup {<<0, 0>>},
                    userdata : Userdata \cup {Null}]
        /\ rx'.pc = "callback" => rx'.id \in Ids /\ rx'.type \in Types /\ rx'.at \in ListenerRef
        /\ pend' \subseteq ListenerRef
        /\ PendOK'
    BY <1>1, <1>3, <1>4, OfferNextKeepsDebt, ConsumedKeepsDebt
  <2>2. TypeOK'
    BY <1>3, <1>4, <2>1 DEF IInv, TypeOK, SameSlots, IdTable
  <2>3. CountsCoverLive'
    BY <1>3, <1>4 DEF IInv, TypeOK, CountsCoverLive, Covers, SameSlots, IdTable
  <2> QED BY <2>1, <2>2, <2>3 DEF IInv
<1>5. CASE /\ idLst' = [idLst EXCEPT ![i] = Null]
           /\ countId' = CountEmptied(i, countId)
           /\ Consumed
  <2>1. countId' \in 0 .. NumId /\ Covers(idLst, countId)'
    BY <1>1, <1>5, SizeAssumption, EmptyCovers DEF IInv, TypeOK, CountsCoverLive, IdSlots
  <2>2. idLst' \in IdTable
    BY <1>5 DEF IInv, TypeOK, IdTable
  <2>3. TypeOK'
    BY <1>3, <1>5, <2>1, <2>2, ConsumedKeepsDebt DEF IInv, TypeOK, IdTable
  <2>4. CountsCoverLive'
    BY <1>3, <2>1 DEF IInv, CountsCoverLive
  <2> QED BY <1>5, <2>3, <2>4, ConsumedKeepsDebt DEF IInv
<1>6. CASE res \in {"TF_NEXT", "TF_STAY"}
  <2>1. idLst' = put /\ countId' = countId /\ (OfferNext \/ Consumed)
    BY <1>6 DEF IdCallbackReturn
  <2> QED BY <1>2, <1>4, <2>1
<1>7. CASE res = "TF_RENEW"
  <2> HIDE DEF put
  <2>1. /\ idLst' = IF put[i] = Null THEN put
                    ELSE [put EXCEPT ![i].timeout = put[i].timeout_max]
        /\ countId' = countId /\ Consumed
    BY <1>7 DEF IdCallbackReturn, put
  <2>2. CASE put[i] = Null
    BY <1>2, <1>4, <2>1, <2>2
  <2>3. CASE put[i] # Null
    <3>1. /\ put[i] \in IdListener
          /\ idLst'[i] = [put[i] EXCEPT !.timeout = put[i].timeout_max]
      BY <1>1, <1>2, <2>1, <2>3 DEF SameSlots, IdTable
    <3>2. idLst'[i] \in IdListener /\ idLst'[i].id = put[i].id
      BY <3>1 DEF IdListener
    <3>3. SameSlots(idLst')
      BY <1>1, <1>2, <2>1, <2>3, <3>2, NullAssumption DEF SameSlots, IdTable
    <3> QED BY <1>4, <2>1, <3>3
  <2> QED BY <2>2, <2>3
<1>8. CASE res = "TF_CLOSE"
  <2>1. CASE idLst[i] = Null
    <3>1. idLst' = idLst /\ countId' = countId /\ Consumed
      BY <1>8, <2>1 DEF IdCallbackReturn
    <3>2. SameSlots(idLst)
      BY DEF SameSlots, IInv, TypeOK, IdTable
    <3> QED BY <1>4, <3>1, <3>2
  <2>2. CASE idLst[i] # Null
    BY <1>5, <1>8, <2>2 DEF IdCallbackReturn
  <2> QED BY <2>1, <2>2
<1> QED BY <1>6, <1>7, <1>8 DEF Results

\* The return of a type listener keeps IInv.
LEMMA TypeReturnIInv ==
  ASSUME IInv, NEW res \in Results, TypeCallbackReturn(res)
  PROVE  IInv'
<1>1. /\ rx.pc = "callback" /\ rx.at \in ListenerRef /\ rx.at[2] \in TypeSlots
      /\ UNCHANGED <<idLst, countId, genericLst, countGeneric, tick, cl, held>>
  BY DEF TypeCallbackReturn, CallbackEnds, IInv, TypeOK, ListenerRef
<1>2. CASE UNCHANGED <<typeLst, countType>> /\ (OfferNext \/ Consumed)
  <2>1. SameSlots(idLst')
    BY <1>1 DEF SameSlots, IInv, TypeOK, IdTable
  <2>2. /\ rx' \in [pc : {"idle", "callback", "unhandled"}, id : Ids \cup {Null},
                    type : Types \cup {Null}, at : ListenerRef \cup {<<0, 0>>},
                    userdata : Userdata \cup {Null}]
        /\ rx'.pc = "callback" => rx'.id \in Ids /\ rx'.type \in Types /\ rx'.at \in ListenerRef
        /\ pend' \subseteq ListenerRef
        /\ PendOK'
    BY <1>1, <1>2, <2>1, OfferNextKeepsDebt, ConsumedKeepsDebt
  <2>3. TypeOK'
    BY <1>1, <1>2, <2>2 DEF IInv, TypeOK
  <2>4. CountsCoverLive'
    BY <1>1, <1>2 DEF IInv, CountsCoverLive, Covers
  <2> QED BY <2>2, <2>3, <2>4 DEF IInv
<1>3. CASE /\ typeLst' = [typeLst EXCEPT ![rx.at[2]] = Null]
           /\ countType' = CountEmptied(rx.at[2], countType)
           /\ Consumed
  <2>1. countType' \in 0 .. NumType /\ Covers(typeLst, countType)'
    BY <1>1, <1>3, SizeAssumption, EmptyCovers DEF IInv, TypeOK, CountsCoverLive, TypeSlots
  <2>2. TypeOK'
    BY <1>1, <1>3, <2>1, ConsumedKeepsDebt DEF IInv, TypeOK
  <2>3. CountsCoverLive'
    BY <1>1, <2>1 DEF IInv, CountsCoverLive
  <2> QED BY <1>3, <2>2, <2>3, ConsumedKeepsDebt DEF IInv
<1> QED BY <1>2, <1>3 DEF TypeCallbackReturn

\* The return of a generic listener keeps IInv.
LEMMA GenericReturnIInv ==
  ASSUME IInv, NEW res \in Results, GenericCallbackReturn(res)
  PROVE  IInv'
<1>1. /\ rx.pc = "callback" /\ rx.at \in ListenerRef /\ rx.at[2] \in GenericSlots
      /\ UNCHANGED <<idLst, countId, typeLst, countType, tick, cl, held>>
  BY DEF GenericCallbackReturn, CallbackEnds, IInv, TypeOK, ListenerRef
<1>2. CASE UNCHANGED <<genericLst, countGeneric>> /\ (OfferNext \/ Consumed)
  <2>1. SameSlots(idLst')
    BY <1>1 DEF SameSlots, IInv, TypeOK, IdTable
  <2>2. /\ rx' \in [pc : {"idle", "callback", "unhandled"}, id : Ids \cup {Null},
                    type : Types \cup {Null}, at : ListenerRef \cup {<<0, 0>>},
                    userdata : Userdata \cup {Null}]
        /\ rx'.pc = "callback" => rx'.id \in Ids /\ rx'.type \in Types /\ rx'.at \in ListenerRef
        /\ pend' \subseteq ListenerRef
        /\ PendOK'
    BY <1>1, <1>2, <2>1, OfferNextKeepsDebt, ConsumedKeepsDebt
  <2>3. TypeOK'
    BY <1>1, <1>2, <2>2 DEF IInv, TypeOK
  <2>4. CountsCoverLive'
    BY <1>1, <1>2 DEF IInv, CountsCoverLive, Covers
  <2> QED BY <2>2, <2>3, <2>4 DEF IInv
<1>3. CASE /\ genericLst' = [genericLst EXCEPT ![rx.at[2]] = Null]
           /\ countGeneric' = CountEmptied(rx.at[2], countGeneric)
           /\ Consumed
  <2>1. countGeneric' \in 0 .. NumGeneric /\ Covers(genericLst, countGeneric)'
    BY <1>1, <1>3, SizeAssumption, EmptyCovers DEF IInv, TypeOK, CountsCoverLive, GenericSlots
  <2>2. TypeOK'
    BY <1>1, <1>3, <2>1, ConsumedKeepsDebt DEF IInv, TypeOK
  <2>3. CountsCoverLive'
    BY <1>1, <2>1 DEF IInv, CountsCoverLive
  <2> QED BY <1>3, <2>2, <2>3, ConsumedKeepsDebt DEF IInv
<1> QED BY <1>2, <1>3 DEF GenericCallbackReturn

\* The steps of TF_Tick keep IInv.
LEMMA TickIInv ==
  ASSUME IInv, TF_Tick \/ TickExpire \/ TickEnd \/ TimeoutReturn
  PROVE  IInv'
<1>0. /\ SameSlots(idLst) /\ held \in SUBSET Userdata /\ tick.i \in Nat /\ NumId \in Nat
      /\ TickOK
  BY SizeAssumption DEF SameSlots, IInv, TypeOK, IdTable, TickOK
<1>1. CASE TF_Tick
  <2>1. TickOK'
    BY <1>1, SizeAssumption DEF TF_Tick, TickOK
  <2>2. SameSlots(idLst')
    BY <1>0, <1>1 DEF TF_Tick, tables
  <2> QED BY <1>1, <2>1, <2>2, SameSlotsIInv DEF TF_Tick, tables
<1>2. CASE TickExpire
  <2>1. PICK j \in IdSlots :
          IF idLst[j].fn_timeout
          THEN /\ idLst' = Aged(tick.i, j)
               /\ tick' = [pc |-> "timeout", i |-> j]
               /\ UNCHANGED <<countId, cl, held, pend>>
          ELSE /\ cleanup_id_listener(j, Aged(tick.i, j), held)
               /\ tick' = [pc |-> "scan", i |-> j + 1]
    BY <1>2 DEF TickExpire
  <2>2. UNCHANGED <<typeLst, countType, genericLst, countGeneric, rx>>
    BY <1>2 DEF TickExpire
  <2>3. TickOK'
    BY <1>0, <2>1, <2>2, SizeAssumption DEF TickOK, IdSlots
  <2>4. SameSlots(Aged(tick.i, j))
    <3>1. j \in Nat /\ TypeOK
      BY SizeAssumption DEF IdSlots, IInv
    <3> QED BY <1>0, <3>1, AgedKeepsSlots DEF SameSlots
  <2>5. CASE idLst[j].fn_timeout
    BY <2>1, <2>2, <2>3, <2>4, <2>5, SameSlotsIInv
  <2>6. CASE ~idLst[j].fn_timeout
    BY <1>0, <2>1, <2>2, <2>3, <2>4, <2>6, CleanupIInv
  <2> QED BY <2>5, <2>6
<1>3. CASE TickEnd
  <2>1. TickOK'
    BY <1>3, SizeAssumption DEF TickEnd, TickOK, IdleTick
  <2>2. SameSlots(idLst')
    BY <1>0, <1>3, AgedKeepsSlots DEF TickEnd, SameSlots, IInv
  <2> QED BY <1>3, <2>1, <2>2, SameSlotsIInv DEF TickEnd
<1>4. CASE TimeoutReturn
  <2>1. tick.i \in IdSlots
    BY <1>0, <1>4 DEF TimeoutReturn, TickOK
  <2>2. TickOK'
    BY <1>0, <1>4, <2>1, SizeAssumption DEF TimeoutReturn, TickOK, IdSlots
  <2> QED BY <1>0, <1>4, <2>1, <2>2, CleanupIInv DEF TimeoutReturn
<1> QED BY <1>1, <1>2, <1>3, <1>4

\* The return of a cleanup callback keeps IInv.
LEMMA CleanupReturnIInv ==
  ASSUME IInv, CleanupReturn
  PROVE  IInv'
<1>1. cl \in Seq(IdSlots) /\ Head(cl) \in IdSlots /\ Tail(cl) \in Seq(IdSlots)
  BY DEF CleanupReturn, IInv, TypeOK
<1>2. countId' \in 0 .. NumId /\ Covers(idLst, countId)'
  BY <1>1, SizeAssumption, EmptyCovers
     DEF CleanupReturn, IInv, TypeOK, CountsCoverLive, IdSlots
<1>3. TypeOK'
  BY <1>1, <1>2 DEF CleanupReturn, IInv, TypeOK
<1>4. CountsCoverLive'
  BY <1>2 DEF CleanupReturn, IInv, CountsCoverLive
<1>5. \A c \in pend : c \in ListenerRef /\ (c[1] = 1 => c[2] \in IdSlots /\ idLst[c[2]] # Null)
  BY DebtIsLive DEF IInv
<1>6. \A c \in pend' : c[1] = 1 => idLst'[c[2]] = idLst[c[2]] /\ idLst[c[2]] # Null
  <2>1. \A c \in pend' : c \in pend /\ (c[1] = 1 => c[2] # Head(cl))
    BY <1>5 DEF CleanupReturn, ListenerRef
  <2> QED BY <1>1, <1>5, <2>1 DEF CleanupReturn, IInv, TypeOK
<1>7. PendOK'
  BY <1>6, DebtStable DEF CleanupReturn, IInv
<1> QED BY <1>3, <1>4, <1>7 DEF IInv

-----------------------------------------------------------------------------
\* No step of the API, the dispatch or the tick leaves IInv.
LEMMA NextIInv == IInv /\ [Next]_vars => IInv'
<1> SUFFICES ASSUME IInv, [Next]_vars PROVE IInv'
  OBVIOUS
<1>1. CASE ApiCall
  BY <1>1, ApiIInv
<1>2. ASSUME NEW id \in Ids, NEW type \in Types, TF_HandleReceivedMessage(id, type)
      PROVE  IInv'
  BY <1>2, DispatchIInv
<1>3. CASE CallbackReturn
  BY <1>3, IdReturnIInv, TypeReturnIInv, GenericReturnIInv DEF CallbackReturn
<1>4. CASE Unhandled
  <2>1. TypeOK'
    BY <1>4, ConsumedKeepsDebt DEF Unhandled, IInv, TypeOK, tables
  <2>2. CountsCoverLive'
    BY <1>4 DEF Unhandled, IInv, CountsCoverLive, Covers, tables
  <2> QED BY <1>4, <2>1, <2>2, ConsumedKeepsDebt DEF Unhandled, IInv
<1>5. CASE TF_Tick \/ TickExpire \/ TickEnd \/ TimeoutReturn
  BY <1>5, TickIInv
<1>6. CASE CleanupReturn
  BY <1>6, CleanupReturnIInv
<1>7. CASE UNCHANGED vars
  <2>1. TypeOK'
    BY <1>7 DEF vars, tables, IInv, TypeOK
  <2>2. CountsCoverLive'
    BY <1>7 DEF vars, tables, IInv, CountsCoverLive, Covers
  <2>3. PendOK'
    BY <1>7 DEF vars, tables, IInv, PendOK, NoListenerSkipped, Live
  <2> QED BY <2>1, <2>2, <2>3 DEF IInv
<1> QED BY <1>1, <1>2, <1>3, <1>4, <1>5, <1>6, <1>7 DEF Next

\* IInv holds in every reachable state.
THEOREM Invariance == Spec => []IInv
  BY InitIInv, NextIInv, PTL DEF Spec

\* The tables stay within TF_MAX_ID_LST, TF_MAX_TYPE_LST and TF_MAX_GEN_LST and
\* every suspended dispatch, tick or cleanup is at an existing slot.
THEOREM TypeCorrect == Spec => []TypeOK
<1>1. IInv => TypeOK
  BY DEF IInv
<1> QED BY <1>1, Invariance, PTL

\* However additions, removals, expiries, callbacks and an interrupting
\* TF_Tick are interleaved, the loops bounded by count_id_lst, count_type_lst
\* and count_generic_lst see every live listener.
THEOREM CountsCover == Spec => []CountsCoverLive
<1>1. IInv => CountsCoverLive
  BY DEF IInv
<1> QED BY <1>1, Invariance, PTL

\* TF_HandleReceivedMessage never goes past a listener that matched the
\* message when it began and is still registered, although callbacks change
\* the tables between the turns of its loops.
THEOREM NothingSkipped == Spec => []NoListenerSkipped
<1>1. IInv => NoListenerSkipped
  BY DEF IInv, PendOK
<1> QED BY <1>1, Invariance, PTL

-----------------------------------------------------------------------------
(* The userdata. It stays accounted for where TF_Tick is not called from an  *)
(* interrupt handler and no callback removes the listener it runs for; the   *)
(* run listeners_systick shows what becomes of it otherwise.                 *)

Calm == ~TickPreempts /\ ~SelfRemove

\* What slot i owes the user; a slot whose cleanup callback runs, nothing.
Own == [i \in IdSlots |-> IF i \in CleaningUp \/ idLst[i] = Null THEN Null ELSE idLst[i].userdata]

\* The slots owe exactly the userdata in h, each of it once.
Accounts(own, h) ==
  /\ \A i \in IdSlots : own[i] # Null => own[i] \in h
  /\ \A i, j \in IdSlots : own[i] = own[j] /\ own[i] # Null => i = j
  /\ \A u \in h : \E i \in IdSlots : own[i] = u

\* The ID listener that runs is still in its slot, with the userdata it was
\* called with.
CallbackHeld ==
  rx.pc = "callback" /\ rx.at[1] = 1 =>
    /\ rx.at[2] \notin CleaningUp /\ idLst[rx.at[2]] # Null
    /\ idLst[rx.at[2]].userdata = rx.userdata

\* No listener is told to clean up while it is doing so.
NoneTwice == \A j, k \in DOMAIN cl : cl[j] = cl[k] => j = k

\* The inductive invariant, on top of IInv.
AccInv ==
  /\ Accounts(Own, held)
  /\ tick.pc # "idle" => rx.pc = "idle"
  /\ CallbackHeld
  /\ NoneTwice
  /\ \A i \in CleaningUp : idLst[i] # Null

\* No cleanup callback runs, or the same ones as before.
LEMMA NoneCleaning == cl = <<>> => CleaningUp = {}
BY DEF CleaningUp

LEMMA StillCleaning == cl' = cl => CleaningUp' = CleaningUp /\ NoneTwice' = NoneTwice
BY DEF CleaningUp, NoneTwice

LEMMA CleaningType ==
  ASSUME TypeOK
  PROVE  CleaningUp \subseteq IdSlots
BY DEF TypeOK, CleaningUp

\* One more cleanup callback is called, and the one that was called last
\* returns.
LEMMA CleanupCalled ==
  ASSUME TypeOK, NEW i \in IdSlots, cl' = <<i>> \o cl
  PROVE  /\ CleaningUp' = CleaningUp \cup {i}
         /\ NoneTwice /\ i \notin CleaningUp => NoneTwice'
<1>1. cl \in Seq(IdSlots)
  BY DEF TypeOK
<1>2. /\ DOMAIN cl = 1 .. Len(cl) /\ DOMAIN cl' = 1 .. Len(cl) + 1 /\ Len(cl) \in Nat
      /\ cl'[1] = i
      /\ \A k \in 1 .. Len(cl) : cl'[k + 1] = cl[k]
  BY <1>1
<1>3. \A k \in 1 .. Len(cl) + 1 : k = 1 \/ (k - 1 \in 1 .. Len(cl) /\ cl'[k] = cl[k - 1])
  <2> SUFFICES ASSUME NEW k \in 1 .. Len(cl) + 1, k # 1
               PROVE  k - 1 \in 1 .. Len(cl) /\ cl'[k] = cl[k - 1]
    OBVIOUS
  <2>1. k - 1 \in 1 .. Len(cl) /\ (k - 1) + 1 = k
    BY <1>2
  <2> QED BY <1>2, <2>1
<1>4. \A k \in 1 .. Len(cl) : k + 1 \in 1 .. Len(cl) + 1
  BY <1>2
<1>5. 1 \in 1 .. Len(cl) + 1
  BY <1>2
<1>6. CleaningUp' = CleaningUp \cup {i}
  <2>1. ASSUME NEW k \in 1 .. Len(cl) + 1 PROVE cl'[k] \in CleaningUp \cup {i}
    BY <1>2, <1>3 DEF CleaningUp
  <2>2. ASSUME NEW k \in 1 .. Len(cl) PROVE cl[k] \in CleaningUp'
    <3>1. k + 1 \in DOMAIN cl' /\ cl'[k + 1] = cl[k]
      BY <1>2, <1>4
    <3> QED BY <3>1 DEF CleaningUp
  <2>3. i \in CleaningUp'
    BY <1>2, <1>5 DEF CleaningUp
  <2>4. CleaningUp' \subseteq CleaningUp \cup {i}
    BY <1>2, <2>1 DEF CleaningUp
  <2>5. CleaningUp \subseteq CleaningUp'
    BY <1>2, <2>2 DEF CleaningUp
  <2> QED BY <2>3, <2>4, <2>5
<1>7. ASSUME NoneTwice, i \notin CleaningUp PROVE NoneTwice'
  <2> SUFFICES ASSUME NEW j \in 1 .. Len(cl) + 1, NEW k \in 1 .. Len(cl) + 1, cl'[j] = cl'[k]
               PROVE  j = k
    BY <1>2 DEF NoneTwice
  <2>1. \A n \in 1 .. Len(cl) : cl[n] # i
    BY <1>2, <1>7 DEF CleaningUp
  <2>2. j = 1 <=> k = 1
    BY <1>2, <1>3, <2>1
  <2>3. CASE j # 1
    <3>1. /\ j - 1 \in DOMAIN cl /\ k - 1 \in DOMAIN cl
          /\ cl[j - 1] = cl[k - 1]
      BY <1>2, <1>3, <2>2, <2>3
    <3>2. j - 1 = k - 1
      BY <1>7, <3>1 DEF NoneTwice
    <3> QED BY <1>2, <3>2
  <2> QED BY <2>2, <2>3
<1> QED BY <1>6, <1>7

LEMMA CleanupReturns ==
  ASSUME TypeOK, cl # <<>>, cl' = Tail(cl)
  PROVE  /\ Head(cl) \in IdSlots
         /\ CleaningUp = CleaningUp' \cup {Head(cl)}
         /\ NoneTwice => NoneTwice' /\ Head(cl) \notin CleaningUp'
<1>1. cl \in Seq(IdSlots) /\ cl # <<>>
  BY DEF TypeOK
<1>2. /\ DOMAIN cl = 1 .. Len(cl) /\ DOMAIN cl' = 1 .. Len(cl) - 1 /\ Len(cl) \in Nat
      /\ 1 \in 1 .. Len(cl) /\ Head(cl) = cl[1] /\ Head(cl) \in IdSlots
      /\ \A k \in 1 .. Len(cl) - 1 : cl'[k] = cl[k + 1]
  BY <1>1
<1>3. \A k \in 1 .. Len(cl) - 1 : k + 1 \in 1 .. Len(cl) /\ k + 1 # 1
  BY <1>2
<1>4. \A k \in 1 .. Len(cl) : k = 1 \/ (k - 1 \in 1 .. Len(cl) - 1 /\ cl'[k - 1] = cl[k])
  <2> SUFFICES ASSUME NEW k \in 1 .. Len(cl), k # 1
               PROVE  k - 1 \in 1 .. Len(cl) - 1 /\ cl'[k - 1] = cl[k]
    OBVIOUS
  <2>1. k - 1 \in 1 .. Len(cl) - 1 /\ (k - 1) + 1 = k
    BY <1>2
  <2> QED BY <1>2, <2>1
<1>5. CleaningUp = CleaningUp' \cup {Head(cl)}
  <2>1. ASSUME NEW k \in 1 .. Len(cl) PROVE cl[k] \in CleaningUp' \cup {Head(cl)}
    BY <1>2, <1>4 DEF CleaningUp
  <2>2. ASSUME NEW k \in 1 .. Len(cl) - 1 PROVE cl'[k] \in CleaningUp
    <3>1. k + 1 \in DOMAIN cl /\ cl'[k] = cl[k + 1]
      BY <1>2, <1>3
    <3> QED BY <3>1 DEF CleaningUp
  <2>3. Head(cl) \in CleaningUp
    BY <1>2 DEF CleaningUp
  <2>4. CleaningUp \subseteq CleaningUp' \cup {Head(cl)}
    BY <1>2, <2>1 DEF CleaningUp
  <2>5. CleaningUp' \subseteq CleaningUp
    BY <1>2, <2>2 DEF CleaningUp
  <2> QED BY <2>3, <2>4, <2>5
<1>6. ASSUME NoneTwice PROVE NoneTwice' /\ Head(cl) \notin CleaningUp'
  <2>1. \A j, k \in 1 .. Len(cl) - 1 : cl'[j] = cl'[k] => j + 1 = k + 1
    BY <1>2, <1>3, <1>6 DEF NoneTwice
  <2>2. \A j, k \in 1 .. Len(cl) - 1 : cl'[j] = cl'[k] => j = k
    BY <1>2, <2>1
  <2>3. \A k \in 1 .. Len(cl) - 1 : cl'[k] # cl[1]
    BY <1>2, <1>3, <1>6 DEF NoneTwice
  <2> QED BY <1>2, <2>2, <2>3 DEF NoneTwice, CleaningUp
<1> QED BY <1>2, <1>5, <1>6

Owners == [IdSlots -> Userdata \cup {Null}]

LEMMA OwnType ==
  ASSUME TypeOK
  PROVE  Own \in Owners
<1> SUFFICES ASSUME NEW i \in IdSlots, idLst[i] # Null
             PROVE  idLst[i].userdata \in Userdata \cup {Null}
  BY DEF Own, Owners
<1> QED BY DEF TypeOK, IdListener

\* A slot gives its userdata back, if it has any.
LEMMA AccountsGiveBack ==
  ASSUME NEW own \in Owners, NEW h \in SUBSET Userdata, NEW i \in IdSlots, Accounts(own, h)
  PROVE  Accounts([own EXCEPT ![i] = Null], h \ {own[i]})
<1> DEFINE new == [own EXCEPT ![i] = Null]
<1>1. new[i] = Null /\ \A j \in IdSlots : j # i => new[j] = own[j]
  BY DEF Owners
<1> HIDE DEF new
<1>2. \A u \in h : u # Null
  BY NullAssumption
<1>3. \A u \in h \ {own[i]} : \E j \in IdSlots : new[j] = u
  BY <1>1 DEF Accounts
<1>4. \A j \in IdSlots : new[j] # Null => new[j] \in h \ {own[i]}
  BY <1>1 DEF Accounts
<1>5. \A j, k \in IdSlots : new[j] = new[k] /\ new[j] # Null => j = k
  BY <1>1 DEF Accounts
<1> QED BY <1>3, <1>4, <1>5 DEF Accounts, new

\* A free slot takes new userdata, or none.
LEMMA AccountsTake ==
  ASSUME NEW own \in Owners, NEW h \in SUBSET Userdata, NEW i \in IdSlots, Accounts(own, h),
         own[i] = Null, NEW u \in (Userdata \ h) \cup {Null}
  PROVE  Accounts([own EXCEPT ![i] = u], h \cup ({u} \ {Null}))
<1> DEFINE new == [own EXCEPT ![i] = u]
<1>1. new[i] = u /\ \A j \in IdSlots : j # i => new[j] = own[j]
  BY DEF Owners
<1> HIDE DEF new
<1>2. \A v \in h : v # Null
  BY NullAssumption
<1>3. \A v \in h \cup ({u} \ {Null}) : \E j \in IdSlots : new[j] = v
  BY <1>1, <1>2 DEF Accounts
<1>4. \A j \in IdSlots : new[j] # Null => new[j] \in h \cup ({u} \ {Null})
  BY <1>1 DEF Accounts
<1>5. \A j, k \in IdSlots : new[j] = new[k] /\ new[j] # Null => j = k
  BY <1>1 DEF Accounts
<1> QED BY <1>3, <1>4, <1>5 DEF Accounts, new

\* Accounts says what UserdataAccounted says.
LEMMA AccountsIsAccounted ==
  ASSUME TypeOK, Accounts(Own, held)
  PROVE  UserdataAccounted
<1> DEFINE owners(u) == {i \in IdSlots : /\ i \notin CleaningUp /\ idLst[i] # Null
                                    /\ idLst[i].userdata = u}
<1>1. ASSUME NEW u \in Userdata, NEW i \in IdSlots
      PROVE  i \in owners(u) <=> Own[i] = u
  BY <1>1, NullAssumption DEF Own
<1>2. \A u \in Userdata : u # Null
  BY NullAssumption
<1> HIDE DEF owners
<1>3. ASSUME NEW u \in Userdata
      PROVE  IF u \in held THEN \E i \in IdSlots : owners(u) = {i} ELSE owners(u) = {}
  <2>0. owners(u) \subseteq IdSlots
    BY DEF owners
  <2>1. CASE u \in held
    <3>1. PICK i \in IdSlots : Own[i] = u
      BY <2>1 DEF Accounts
    <3>2. \A j \in IdSlots : j \in owners(u) <=> j = i
      BY <1>1, <1>2, <3>1 DEF Accounts
    <3> QED BY <2>0, <2>1, <3>2
  <2>2. CASE u \notin held
    <3>1. \A j \in IdSlots : j \notin owners(u)
      BY <1>1, <1>2, <2>2 DEF Accounts
    <3> QED BY <2>0, <2>2, <3>1
  <2> QED BY <2>1, <2>2
<1> QED BY <1>3 DEF UserdataAccounted, owners

-----------------------------------------------------------------------------
\* The table tbl carries the userdata of id_listeners.
SameData(tbl) ==
  /\ SameSlots(tbl)
  /\ \A j \in IdSlots : idLst[j] # Null => tbl[j].userdata = idLst[j].userdata

LEMMA AgedKeepsData ==
  ASSUME TypeOK, NEW from \in Nat, NEW to \in Nat
  PROVE  SameData(Aged(from, to))
<1>1. ASSUME NEW j \in IdSlots, idLst[j] # Null
      PROVE  Aged(from, to)[j].userdata = idLst[j].userdata
  <2>1. idLst[j] \in IdListener
    BY <1>1 DEF TypeOK
  <2>2. [idLst[j] EXCEPT !.timeout = idLst[j].timeout - 1].userdata = idLst[j].userdata
    BY <2>1 DEF IdListener
  <2> QED BY <2>2 DEF Aged
<1> QED BY <1>1, AgedKeepsSlots DEF SameData, SameSlots

\* The accounts depend on the slots, the userdata in them and cl only.
LEMMA SameDataOwn ==
  ASSUME SameData(idLst'), cl' = cl
  PROVE  Own' = Own
BY StillCleaning DEF SameData, SameSlots, Own

\* cleanup_id_listener gives the userdata of one slot back, and leaves the
\* others as they are.
LEMMA CleanupAccounts ==
  ASSUME TypeOK, Accounts(Own, held), NEW i \in IdSlots, i \notin CleaningUp,
         NEW tbl, SameData(tbl), cleanup_id_listener(i, tbl, held)
  PROVE  /\ Accounts(Own, held)'
         /\ cl' = cl \/ (cl' = <<i>> \o cl /\ idLst'[i] # Null)
         /\ \A j \in IdSlots \ {i} :
              idLst[j] # Null => idLst'[j] # Null /\ idLst'[j].userdata = idLst[j].userdata
<1>1. /\ \A j \in IdSlots : tbl[j] = Null <=> idLst[j] = Null
      /\ \A j \in IdSlots : idLst[j] # Null => tbl[j].userdata = idLst[j].userdata
      /\ tbl \in [IdSlots -> IdListener \cup {Null}]
  BY DEF SameData, SameSlots, IdTable
<1>2. Own \in Owners /\ held \in SUBSET Userdata /\ Null \notin held
  BY OwnType, NullAssumption DEF TypeOK
<1>3. CASE tbl[i] = Null
  <2>1. idLst' = tbl /\ held' = held /\ cl' = cl
    BY <1>3 DEF cleanup_id_listener
  <2>2. Own' = Own
    BY <2>1, SameDataOwn
  <2> QED BY <1>1, <2>1, <2>2 DEF Accounts
<1>4. CASE tbl[i] # Null /\ tbl[i].userdata # Null
  <2>1. idLst' = tbl /\ cl' = <<i>> \o cl /\ held' = held \ {tbl[i].userdata}
    BY <1>4 DEF cleanup_id_listener
  <2>2. Own[i] = tbl[i].userdata
    BY <1>1, <1>4 DEF Own
  <2>3. Own' = [Own EXCEPT ![i] = Null]
    BY <1>1, <2>1, CleanupCalled DEF Own
  <2>4. Accounts(Own', held')
    BY <1>2, <2>1, <2>2, <2>3, AccountsGiveBack
  <2>5. Accounts(Own, held)'
    BY <2>4 DEF Accounts
  <2> QED BY <1>1, <1>4, <2>1, <2>5
<1>5. CASE tbl[i] # Null /\ tbl[i].userdata = Null
  <2>1. idLst' = [tbl EXCEPT ![i] = Null] /\ cl' = cl /\ held' = held
    BY <1>5 DEF cleanup_id_listener
  <2>2. idLst'[i] = Null /\ \A j \in IdSlots : j # i => idLst'[j] = tbl[j]
    BY <1>1, <2>1
  <2>3. Own[i] = Null
    BY <1>1, <1>5 DEF Own
  <2>4. Own' = Own
    BY <1>1, <2>1, <2>2, <2>3, StillCleaning DEF Own
  <2> QED BY <1>1, <2>1, <2>2, <2>4 DEF Accounts
<1> QED BY <1>3, <1>4, <1>5

\* A step that only counts time, or changes no ID listener at all.
LEMMA SameDataAccInv ==
  ASSUME IInv, AccInv, SameData(idLst'), cl' = cl, held' = held, rx' = rx,
         tick'.pc # "idle" => rx.pc = "idle"
  PROVE  AccInv'
<1>1. Accounts(Own, held)'
  BY SameDataOwn DEF AccInv, Accounts
<1>2. CallbackHeld'
  <2>1. rx.pc = "callback" /\ rx.at[1] = 1 => rx.at[2] \in IdSlots
    BY DEF IInv, TypeOK, ListenerRef
  <2> QED BY <2>1, StillCleaning DEF AccInv, CallbackHeld, SameData, SameSlots
<1>3. NoneTwice' /\ \A i \in CleaningUp' : idLst'[i] # Null
  BY StillCleaning, CleaningType DEF IInv, AccInv, SameData, SameSlots
<1> QED BY <1>1, <1>2, <1>3 DEF AccInv

\* A step that cleans up the slot i, for which no dispatch runs.
LEMMA CleanupAccInv ==
  ASSUME IInv, AccInv, NEW i \in IdSlots, i \notin CleaningUp,
         rx.pc = "callback" /\ rx.at[1] = 1 => rx.at[2] # i,
         NEW tbl, SameData(tbl), cleanup_id_listener(i, tbl, held),
         rx' = rx, tick'.pc # "idle" => rx.pc = "idle"
  PROVE  AccInv'
<1>1. /\ Accounts(Own, held)'
      /\ cl' = cl \/ (cl' = <<i>> \o cl /\ idLst'[i] # Null)
      /\ \A j \in IdSlots \ {i} :
           idLst[j] # Null => idLst'[j] # Null /\ idLst'[j].userdata = idLst[j].userdata
  BY CleanupAccounts DEF IInv, AccInv
<1>2. /\ CleaningUp \subseteq IdSlots /\ CleaningUp' \subseteq CleaningUp \cup {i}
      /\ i \in CleaningUp' => idLst'[i] # Null
      /\ NoneTwice'
  BY <1>1, CleaningType, CleanupCalled, StillCleaning DEF IInv, AccInv
<1>3. CallbackHeld'
  <2>1. rx.pc = "callback" /\ rx.at[1] = 1 => rx.at[2] \in IdSlots
    BY DEF IInv, TypeOK, ListenerRef
  <2> QED BY <1>1, <1>2, <2>1 DEF AccInv, CallbackHeld
<1>4. \A k \in CleaningUp' : idLst'[k] # Null
  BY <1>1, <1>2 DEF AccInv
<1> QED BY <1>1, <1>2, <1>3, <1>4 DEF AccInv

-----------------------------------------------------------------------------
LEMMA InitAccInv == Init => AccInv
<1> SUFFICES ASSUME Init PROVE AccInv
  OBVIOUS
<1>1. \A i \in IdSlots : Own[i] = Null
  BY DEF Init, Own
<1>2. Accounts(Own, held)
  BY <1>1 DEF Init, Accounts
<1> QED BY <1>2, NoneCleaning DEF Init, AccInv, CallbackHeld, IdleRx, IdleTick, NoneTwice

\* A call that is not about ID listeners, and a tick that begins.
LEMMA OthersAccInv ==
  ASSUME IInv, AccInv, UNCHANGED <<idLst, cl, held, rx>>, tick'.pc # "idle" => rx.pc = "idle"
  PROVE  AccInv'
<1>1. SameData(idLst')
  BY DEF SameData, SameSlots, IInv, TypeOK, IdTable
<1> QED BY <1>1, SameDataAccInv

LEMMA AddAccInv ==
  ASSUME IInv, AccInv, NEW id \in Ids, NEW u \in (Userdata \ held) \cup {Null},
         NEW t \in 0 .. MaxTimeout, NEW ft \in BOOLEAN, TF_AddIdListener(id, u, t, ft)
  PROVE  AccInv'
<1> DEFINE l == [id |-> id, userdata |-> u, timeout |-> t, timeout_max |-> t,
                 fn_timeout |-> ft]
<1>1. PICK i \in IdSlots : IsFirst(i, Free(idLst)) /\ idLst' = [idLst EXCEPT ![i] = l]
  BY DEF TF_AddIdListener
<1>2. UNCHANGED <<rx, tick, cl>> /\ held' = held \cup ({u} \ {Null})
  BY DEF TF_AddIdListener
<1>3. /\ idLst[i] = Null /\ idLst'[i] = l
      /\ \A j \in IdSlots : j # i => idLst'[j] = idLst[j]
  BY <1>1 DEF IsFirst, Free, IInv, TypeOK
<1>4. l # Null /\ l.userdata = u
  <2>1. l \in IdListener
    BY DEF IdListener
  <2> QED BY <2>1, NullAssumption
<1> HIDE DEF l
<1>5. i \notin CleaningUp
  BY <1>3 DEF AccInv
<1>c. CleaningUp' = CleaningUp /\ NoneTwice'
  BY <1>2, StillCleaning DEF AccInv
<1>6. Own[i] = Null /\ Own' = [Own EXCEPT ![i] = u]
  <2>1. Own[i] = Null /\ Own'[i] = u
    BY <1>3, <1>4, <1>5, <1>c DEF Own
  <2>2. \A j \in IdSlots : j # i => Own'[j] = Own[j]
    BY <1>3, <1>c DEF Own
  <2>3. Own = [j \in IdSlots |-> Own[j]] /\ Own' = [j \in IdSlots |-> Own'[j]]
    BY DEF Own
  <2> QED BY <2>1, <2>2, <2>3
<1>7. Own \in Owners /\ held \in SUBSET Userdata
  BY OwnType DEF IInv, TypeOK
<1>8. Accounts(Own', held')
  BY <1>2, <1>6, <1>7, AccountsTake DEF AccInv
<1>9. CallbackHeld'
  <2>1. rx.pc = "callback" /\ rx.at[1] = 1 => rx.at[2] \in IdSlots
    BY DEF IInv, TypeOK, ListenerRef
  <2> QED BY <1>2, <1>3, <1>c, <2>1 DEF AccInv, CallbackHeld
<1>10. \A k \in CleaningUp' : idLst'[k] # Null
  BY <1>3, <1>5, <1>c, CleaningType DEF IInv, AccInv
<1> QED BY <1>2, <1>8, <1>9, <1>10, <1>c DEF AccInv, Accounts

LEMMA RemoveAccInv ==
  ASSUME Calm, IInv, AccInv, NEW id \in Ids, TF_RemoveIdListener(id)
  PROVE  AccInv'
<1>1. PICK i \in IdSlots : /\ i \notin Running /\ i \notin CleaningUp
                           /\ cleanup_id_listener(i, idLst, held)
  BY DEF TF_RemoveIdListener, Calm
<1>2. rx' = rx /\ tick' = tick
  BY DEF TF_RemoveIdListener
<1>3. SameData(idLst)
  BY DEF SameData, SameSlots, IInv, TypeOK, IdTable
<1>4. rx.pc = "callback" /\ rx.at[1] = 1 => rx.at[2] # i
  BY <1>1 DEF Running
<1> QED BY <1>1, <1>2, <1>3, <1>4, CleanupAccInv DEF AccInv

LEMMA ApiAccInv ==
  ASSUME Calm, IInv, AccInv, ApiCall
  PROVE  AccInv'
<1>1. CASE TF_InitStatic
  <2>1. /\ \A i \in IdSlots : idLst'[i] = Null
        /\ held' = {} /\ UNCHANGED <<rx, tick, cl>> /\ rx = IdleRx /\ cl = <<>>
    BY <1>1 DEF TF_InitStatic
  <2>2. \A i \in IdSlots : Own'[i] = Null
    BY <2>1 DEF Own
  <2>3. Accounts(Own, held)'
    BY <2>1, <2>2 DEF Accounts
  <2>4. CleaningUp' = {} /\ NoneTwice'
    BY <2>1, NoneCleaning, StillCleaning DEF AccInv
  <2> QED BY <2>1, <2>3, <2>4 DEF AccInv, CallbackHeld, IdleRx
<1>2. ASSUME NEW id \in Ids, NEW u \in (Userdata \ held) \cup {Null},
             NEW t \in 0 .. MaxTimeout, NEW ft \in BOOLEAN,
             TF_AddIdListener(id, u, t, ft)
      PROVE  AccInv'
  BY <1>2, AddAccInv
<1>3. ASSUME NEW id \in Ids, TF_RemoveIdListener(id) PROVE AccInv'
  BY <1>3, RemoveAccInv
<1>4. ASSUME NEW id \in Ids, TF_RenewIdListener(id) PROVE AccInv'
  <2>1. PICK i \in IdSlots :
          /\ idLst[i] # Null
          /\ idLst' = [idLst EXCEPT ![i].timeout = idLst[i].timeout_max]
    BY <1>4 DEF TF_RenewIdListener, IsFirst, IdFound
  <2>2. idLst[i] \in IdListener /\ idLst'[i] = [idLst[i] EXCEPT !.timeout = idLst[i].timeout_max]
    BY <2>1 DEF IInv, TypeOK
  <2>3. /\ idLst'[i] \in IdListener /\ idLst'[i].id = idLst[i].id
        /\ idLst'[i].userdata = idLst[i].userdata
    BY <2>2 DEF IdListener
  <2>4. SameData(idLst')
    BY <2>1, <2>2, <2>3, NullAssumption DEF SameData, SameSlots, IdTable, IInv, TypeOK
  <2> QED BY <1>4, <2>4, SameDataAccInv DEF TF_RenewIdListener, AccInv
<1>5. ASSUME NEW type \in Types, TF_AddTypeListener(type) \/ TF_RemoveTypeListener(type)
      PROVE  AccInv'
  <2>1. UNCHANGED <<idLst, cl, held, rx, tick>>
    BY <1>5 DEF TF_AddTypeListener, TF_RemoveTypeListener
  <2> QED BY <2>1, OthersAccInv DEF AccInv
<1>6. ASSUME NEW cb \in Callbacks, TF_AddGenericListener(cb) \/ TF_RemoveGenericListener(cb)
      PROVE  AccInv'
  <2>1. UNCHANGED <<idLst, cl, held, rx, tick>>
    BY <1>6 DEF TF_AddGenericListener, TF_RemoveGenericListener
  <2> QED BY <2>1, OthersAccInv DEF AccInv
<1> QED BY <1>1, <1>2, <1>3, <1>4, <1>5, <1>6 DEF ApiCall

\* A dispatch is at a listener that is in its slot, or at none.
LEMMA OfferHeld ==
  ASSUME IInv, NEW id \in Ids, NEW type \in Types, NEW p,
         NEW rest \in SUBSET Matching(id, type), Offer(rest, id, type, p)
  PROVE  /\ rx'.pc # "idle"
         /\ rx'.pc = "callback" /\ rx'.at[1] = 1 =>
              /\ rx'.at \in rest /\ rx'.at[2] \in IdSlots /\ idLst[rx'.at[2]] # Null
              /\ rx'.userdata = idLst[rx'.at[2]].userdata
<1>1. CASE rx' = [IdleRx EXCEPT !.pc = "unhandled"]
  BY <1>1 DEF IdleRx
<1>2. ASSUME NEW c \in rest,
             rx' = [pc |-> "callback", id |-> id, type |-> type, at |-> c,
                    userdata |-> IF c[1] = 1 THEN idLst[c[2]].userdata ELSE Null]
      PROVE  /\ rx'.pc # "idle"
             /\ rx'.at[1] = 1 =>
                  /\ rx'.at \in rest /\ rx'.at[2] \in IdSlots /\ idLst[rx'.at[2]] # Null
                  /\ rx'.userdata = idLst[rx'.at[2]].userdata
  <2>1. c[1] = 1 => c[2] \in IdSlots /\ idLst[c[2]] # Null
    BY MatchingIsLive DEF IInv
  <2> QED BY <1>2, <2>1
<1> QED BY <1>1, <1>2 DEF Offer

LEMMA DispatchAccInv ==
  ASSUME IInv, AccInv, NEW id \in Ids, NEW type \in Types, TF_HandleReceivedMessage(id, type)
  PROVE  AccInv'
<1>1. /\ UNCHANGED <<idLst, cl, held, tick>> /\ tick.pc = "idle" /\ cl = <<>>
      /\ Offer(Matching(id, type), id, type, Live(id, type))
  BY DEF TF_HandleReceivedMessage, tables
<1>c. CleaningUp' = {} /\ CleaningUp = {} /\ NoneTwice'
  BY <1>1, NoneCleaning, StillCleaning DEF AccInv
<1>2. CallbackHeld'
  BY <1>1, <1>c, OfferHeld DEF CallbackHeld
<1>3. Accounts(Own, held)'
  BY <1>1, <1>c DEF AccInv, Accounts, Own
<1> QED BY <1>1, <1>2, <1>3, <1>c DEF AccInv

\* The dispatch goes on behind the listener it was at.
LEMMA OfferNextHeld ==
  ASSUME IInv, CallbackEnds, rx.at[1] = 1, OfferNext
  PROVE  rx'.pc = "callback" /\ rx'.at[1] = 1 =>
           /\ rx'.at[2] \in IdSlots \ {rx.at[2]} /\ idLst[rx'.at[2]] # Null
           /\ rx'.userdata = idLst[rx'.at[2]].userdata
<1> DEFINE rest == {c \in Matching(rx.id, rx.type) : Before(rx.at, c)}
<1>1. rx.id \in Ids /\ rx.type \in Types /\ rx.at[2] \in IdSlots
  BY DEF CallbackEnds, IInv, TypeOK, ListenerRef
<1>2. rest \in SUBSET Matching(rx.id, rx.type) /\ Offer(rest, rx.id, rx.type, pend)
  BY DEF OfferNext
<1>3. rx'.pc = "callback" /\ rx'.at[1] = 1 =>
        /\ rx'.at \in rest /\ rx'.at[2] \in IdSlots /\ idLst[rx'.at[2]] # Null
        /\ rx'.userdata = idLst[rx'.at[2]].userdata
  <2> HIDE DEF rest
  <2> QED BY <1>1, <1>2, OfferHeld
<1>4. rx'.at \in rest /\ rx'.at[1] = 1 => Before(rx.at, rx'.at)
  OBVIOUS
<1>5. rx'.at \in rest /\ rx'.at[1] = 1 /\ rx'.at[2] \in IdSlots => rx'.at[2] # rx.at[2]
  <2> HIDE DEF rest
  <2> QED BY <1>1, <1>4, SizeAssumption DEF Before, IdSlots
<1> QED BY <1>3, <1>5

\* An ID listener returns: its slot still holds it, so that the userdata it
\* leaves, releases or closes is its own.
LEMMA IdReturnAccInv ==
  ASSUME IInv, AccInv, NEW res \in Results, NEW u, IdCallbackReturn(res, u)
  PROVE  AccInv'
<1> DEFINE i == rx.at[2]
<1>1. /\ CallbackEnds /\ rx.at[1] = 1 /\ u \in (Userdata \ held) \cup {rx.userdata, Null}
      /\ tick' = tick /\ cl' = cl /\ tick.pc = "idle" /\ cl = <<>>
  BY DEF IdCallbackReturn, CallbackEnds
<1>c. CleaningUp = {} /\ CleaningUp' = {} /\ NoneTwice'
  BY <1>1, NoneCleaning, StillCleaning DEF AccInv
<1>2. /\ i \in IdSlots /\ idLst[i] # Null /\ idLst[i].userdata = rx.userdata
      /\ idLst[i] \in IdListener /\ rx.userdata \in Userdata \cup {Null}
      /\ idLst \in [IdSlots -> IdListener \cup {Null}]
  BY <1>1 DEF CallbackEnds, IInv, AccInv, CallbackHeld, TypeOK, ListenerRef
<1>3. Own \in Owners /\ held \in SUBSET Userdata /\ Null \notin held
  BY OwnType, NullAssumption DEF IInv, TypeOK
<1>4. Own[i] = rx.userdata
  BY <1>2, <1>c DEF Own
<1> HIDE DEF i
<1>5. /\ \A j \in IdSlots : j # i => idLst'[j] = idLst[j]
      /\ \/ /\ res # "TF_CLOSE" /\ idLst'[i] \in IdListener /\ idLst'[i].userdata = u
            /\ held' = IF u = rx.userdata THEN held
                       ELSE (held \ {rx.userdata}) \cup ({u} \ {Null})
         \/ res = "TF_CLOSE" /\ idLst'[i] = Null /\ held' = held \ {rx.userdata}
  <2> DEFINE put == [idLst EXCEPT ![i].userdata = u]
  <2>1. /\ put[i] \in IdListener /\ put[i].userdata = u
        /\ \A j \in IdSlots : j # i => put[j] = idLst[j]
        /\ put \in [IdSlots -> IdListener \cup {Null}] /\ put[i] # Null
    <3>1. put[i] = [idLst[i] EXCEPT !.userdata = u]
      BY <1>2
    <3>2. put[i] \in IdListener /\ put[i].userdata = u
      BY <1>1, <1>2, <3>1 DEF IdListener
    <3>3. \A j \in IdSlots : j # i => put[j] = idLst[j]
      BY <1>2
    <3>4. put \in [IdSlots -> IdListener \cup {Null}]
      BY <1>2, <3>2, <3>3
    <3> QED BY <3>2, <3>3, <3>4, NullAssumption
  <2> DEFINE back == IF u = rx.userdata THEN held
                     ELSE (held \ {rx.userdata}) \cup ({u} \ {Null})
  <2>2. CASE res \in {"TF_NEXT", "TF_STAY"}
    <3>1. idLst' = put /\ held' = back
      BY <1>2, <2>2 DEF IdCallbackReturn, i
    <3> HIDE DEF put
    <3> QED BY <2>1, <2>2, <3>1
  <2>3. CASE res = "TF_RENEW"
    <3>1. /\ idLst' = IF put[i] = Null THEN put ELSE [put EXCEPT ![i].timeout = put[i].timeout_max]
          /\ held' = back
      BY <1>2, <2>3 DEF IdCallbackReturn, i
    <3> HIDE DEF put
    <3>2. /\ idLst'[i] = [put[i] EXCEPT !.timeout = put[i].timeout_max]
          /\ \A j \in IdSlots : j # i => idLst'[j] = put[j]
      BY <1>2, <2>1, <3>1
    <3>3. idLst'[i] \in IdListener /\ idLst'[i].userdata = u
      BY <2>1, <3>2 DEF IdListener
    <3> QED BY <2>1, <2>3, <3>1, <3>2, <3>3
  <2>4. CASE res = "TF_CLOSE"
    <3>1. idLst' = [idLst EXCEPT ![i] = Null] /\ held' = held \ {rx.userdata}
      BY <1>2, <2>4 DEF IdCallbackReturn, i
    <3> QED BY <1>2, <2>4, <3>1
  <2> QED BY <2>2, <2>3, <2>4 DEF Results
<1>6. Accounts(Own, held)'
  <2>0. \A j \in IdSlots : j # i => Own'[j] = Own[j]
    BY <1>5, <1>c DEF Own
  <2>1. Own = [j \in IdSlots |-> Own[j]] /\ Own' = [j \in IdSlots |-> Own'[j]]
    BY DEF Own
  <2>2. CASE Own'[i] = Own[i] /\ held' = held
    <3>1. Own' = Own
      BY <2>0, <2>1, <2>2
    <3> QED BY <2>2, <3>1 DEF AccInv, Accounts
  <2>3. CASE Own'[i] = Null /\ held' = held \ {Own[i]}
    <3>1. Own' = [Own EXCEPT ![i] = Null]
      BY <2>0, <2>1, <2>3
    <3>2. i \in IdSlots /\ Accounts(Own, held)
      BY <1>2 DEF AccInv
    <3>3. Accounts([Own EXCEPT ![i] = Null], held \ {Own[i]})
      BY <1>3, <3>2, AccountsGiveBack
    <3>4. Accounts(Own', held')
      BY <2>3, <3>1, <3>3
    <3> QED BY <3>4 DEF Accounts
  <2>4. CASE res = "TF_CLOSE"
    <3>1. Own'[i] = Null
      BY <1>2, <1>5, <1>c, <2>4 DEF Own
    <3> QED BY <1>4, <1>5, <2>3, <2>4, <3>1
  <2>5. CASE res # "TF_CLOSE"
    <3>1. Own'[i] = u
      BY <1>2, <1>5, <1>c, <2>5, NullAssumption DEF Own
    <3>2. CASE u = rx.userdata
      BY <1>4, <1>5, <2>2, <2>5, <3>1, <3>2
    <3>3. CASE u # rx.userdata
      <4> DEFINE own == [Own EXCEPT ![i] = Null]
                 h   == held \ {Own[i]}
      <4>1. i \in IdSlots /\ Accounts(Own, held)
        BY <1>2 DEF AccInv
      <4>2. Accounts(own, h)
        BY <1>3, <4>1, AccountsGiveBack
      <4>3. own \in Owners /\ own[i] = Null /\ h \in SUBSET Userdata
        BY <1>3, <4>1 DEF Owners
      <4>4. u \in (Userdata \ h) \cup {Null}
        BY <1>1, <3>3
      <4>5. Own' = [own EXCEPT ![i] = u]
        BY <2>0, <2>1, <3>1, <4>1
      <4>6. held' = h \cup ({u} \ {Null})
        BY <1>4, <1>5, <2>5, <3>3
      <4> HIDE DEF own, h
      <4>7. Accounts(Own', held')
        BY <4>1, <4>2, <4>3, <4>4, <4>5, <4>6, AccountsTake
      <4> QED BY <4>7 DEF Accounts
    <3> QED BY <3>2, <3>3
  <2> QED BY <2>4, <2>5
<1>7. CallbackHeld'
  <2>1. CASE Consumed
    BY <2>1 DEF Consumed, IdleRx, CallbackHeld
  <2>2. CASE OfferNext
    <3>1. rx'.pc = "callback" /\ rx'.at[1] = 1 =>
            /\ rx'.at[2] \in IdSlots \ {i} /\ idLst[rx'.at[2]] # Null
            /\ rx'.userdata = idLst[rx'.at[2]].userdata
      BY <1>1, <2>2, OfferNextHeld DEF i
    <3> QED BY <1>5, <1>c, <3>1 DEF CallbackHeld
  <2> QED BY <2>1, <2>2 DEF IdCallbackReturn
<1> QED BY <1>1, <1>6, <1>7, <1>c DEF AccInv

LEMMA OtherReturnAccInv ==
  ASSUME IInv, AccInv, NEW res \in Results, TypeCallbackReturn(res) \/ GenericCallbackReturn(res)
  PROVE  AccInv'
<1>1. /\ UNCHANGED <<idLst, cl, held, tick>> /\ tick.pc = "idle" /\ cl = <<>>
      /\ OfferNext \/ Consumed
      /\ rx.pc = "callback"
  BY DEF TypeCallbackReturn, GenericCallbackReturn, CallbackEnds
<1>c. CleaningUp' = {} /\ CleaningUp = {} /\ NoneTwice'
  BY <1>1, NoneCleaning, StillCleaning DEF AccInv
<1>2. CallbackHeld'
  <2>1. CASE Consumed
    BY <2>1 DEF Consumed, IdleRx, CallbackHeld
  <2>2. CASE OfferNext
    <3> DEFINE rest == {c \in Matching(rx.id, rx.type) : Before(rx.at, c)}
    <3>1. rx.id \in Ids /\ rx.type \in Types
      BY <1>1 DEF IInv, TypeOK
    <3>2. rest \in SUBSET Matching(rx.id, rx.type) /\ Offer(rest, rx.id, rx.type, pend)
      BY <2>2 DEF OfferNext
    <3> HIDE DEF rest
    <3>3. rx'.pc = "callback" /\ rx'.at[1] = 1 =>
            /\ rx'.at[2] \in IdSlots /\ idLst[rx'.at[2]] # Null
            /\ rx'.userdata = idLst[rx'.at[2]].userdata
      BY <3>1, <3>2, OfferHeld
    <3> QED BY <1>1, <1>c, <3>3 DEF CallbackHeld
  <2> QED BY <1>1, <2>1, <2>2
<1>3. Accounts(Own, held)'
  BY <1>1, <1>c DEF AccInv, Accounts, Own
<1> QED BY <1>1, <1>2, <1>3, <1>c DEF AccInv

LEMMA TickAccInv ==
  ASSUME Calm, IInv, AccInv, TF_Tick \/ TickExpire \/ TickEnd \/ TimeoutReturn
  PROVE  AccInv'
<1>0. /\ SameData(idLst) /\ tick.i \in Nat /\ NumId \in Nat /\ TypeOK
      /\ tick.pc = "timeout" => tick.i \in IdSlots
  BY SizeAssumption DEF SameData, SameSlots, IInv, TypeOK, IdTable
<1>1. CASE TF_Tick
  <2>1. UNCHANGED <<idLst, cl, held, rx>> /\ rx.pc = "idle"
    BY <1>1 DEF TF_Tick, tables, Calm
  <2> QED BY <2>1, OthersAccInv
<1>2. CASE TickExpire
  <2>1. PICK j \in IdSlots :
          IF idLst[j].fn_timeout
          THEN /\ idLst' = Aged(tick.i, j)
               /\ UNCHANGED <<cl, held>>
          ELSE cleanup_id_listener(j, Aged(tick.i, j), held)
    BY <1>2 DEF TickExpire
  <2>2. rx' = rx /\ rx.pc = "idle" /\ j \notin CleaningUp
    BY <1>2, NoneCleaning DEF TickExpire, AccInv
  <2>3. j \in Nat
    BY SizeAssumption DEF IdSlots
  <2>4. SameData(Aged(tick.i, j))
    BY <1>0, <2>3, AgedKeepsData
  <2>5. CASE idLst[j].fn_timeout
    BY <2>1, <2>2, <2>4, <2>5, SameDataAccInv
  <2>6. CASE ~idLst[j].fn_timeout
    BY <2>1, <2>2, <2>4, <2>6, CleanupAccInv
  <2> QED BY <2>5, <2>6
<1>3. CASE TickEnd
  <2>1. SameData(idLst')
    BY <1>0, <1>3, AgedKeepsData DEF TickEnd
  <2>2. UNCHANGED <<rx, cl, held>> /\ rx.pc = "idle"
    BY <1>3 DEF TickEnd, AccInv
  <2> QED BY <2>1, <2>2, SameDataAccInv
<1>4. CASE TimeoutReturn
  <2>1. rx' = rx /\ rx.pc = "idle" /\ tick.i \in IdSlots /\ tick.i \notin CleaningUp
        /\ cleanup_id_listener(tick.i, idLst, held)
    BY <1>0, <1>4, NoneCleaning DEF TimeoutReturn, AccInv
  <2> QED BY <1>0, <2>1, CleanupAccInv
<1> QED BY <1>1, <1>2, <1>3, <1>4

LEMMA CleanupReturnAccInv ==
  ASSUME IInv, AccInv, CleanupReturn
  PROVE  AccInv'
<1> DEFINE i == Head(cl)
<1>1. /\ i \in IdSlots /\ CleaningUp = CleaningUp' \cup {i} /\ i \notin CleaningUp'
      /\ NoneTwice' /\ CleaningUp \subseteq IdSlots
  BY CleanupReturns, CleaningType DEF CleanupReturn, IInv, AccInv
<1>2. /\ idLst'[i] = Null /\ \A j \in IdSlots : j # i => idLst'[j] = idLst[j]
      /\ UNCHANGED <<rx, tick, held>>
  BY <1>1 DEF CleanupReturn, IInv, TypeOK
<1> HIDE DEF i
<1>3. Own' = Own
  BY <1>1, <1>2 DEF Own
<1>4. CallbackHeld'
  <2>1. rx.pc = "callback" /\ rx.at[1] = 1 => rx.at[2] \in IdSlots
    BY DEF IInv, TypeOK, ListenerRef
  <2> QED BY <1>1, <1>2, <2>1 DEF AccInv, CallbackHeld
<1>5. \A k \in CleaningUp' : idLst'[k] # Null
  BY <1>1, <1>2 DEF AccInv
<1> QED BY <1>1, <1>2, <1>3, <1>4, <1>5 DEF AccInv, Accounts

LEMMA NextAccInv ==
  ASSUME Calm, IInv, AccInv, [Next]_vars
  PROVE  AccInv'
<1>1. CASE ApiCall
  BY <1>1, ApiAccInv
<1>2. ASSUME NEW id \in Ids, NEW type \in Types, TF_HandleReceivedMessage(id, type)
      PROVE  AccInv'
  BY <1>2, DispatchAccInv
<1>3. CASE CallbackReturn
  BY <1>3, IdReturnAccInv, OtherReturnAccInv DEF CallbackReturn
<1>4. CASE Unhandled
  <2>1. Accounts(Own, held)'
    BY <1>4, StillCleaning DEF Unhandled, tables, AccInv, Accounts, Own
  <2>2. CleaningUp' = CleaningUp /\ NoneTwice'
    BY <1>4, StillCleaning DEF Unhandled, AccInv
  <2> QED BY <1>4, <2>1, <2>2 DEF Unhandled, tables, Consumed, IdleRx, AccInv, CallbackHeld
<1>5. CASE TF_Tick \/ TickExpire \/ TickEnd \/ TimeoutReturn
  BY <1>5, TickAccInv
<1>6. CASE CleanupReturn
  BY <1>6, CleanupReturnAccInv
<1>7. CASE UNCHANGED vars
  BY <1>7, OthersAccInv DEF vars, tables, AccInv
<1> QED BY <1>1, <1>2, <1>3, <1>4, <1>5, <1>6, <1>7 DEF Next

\* When TF_Tick is not called from an interrupt handler and no callback removes
\* its own listener, every userdata pointer that was registered is in exactly
\* one listener until it is given back, once, to the user.
THEOREM UserdataKept == ASSUME Calm PROVE Spec => []UserdataAccounted
<1>1. IInv /\ AccInv /\ [Next]_vars => AccInv'
  BY NextAccInv
<1>2. IInv /\ AccInv => UserdataAccounted
  BY AccountsIsAccounted DEF IInv, AccInv
<1> QED BY <1>1, <1>2, InitAccInv, Invariance, PTL DEF Spec

-----------------------------------------------------------------------------
(***************************************************************************)
(* TFSession.                                                              *)
(***************************************************************************)
\* The ID of the frame of query q.
IdOf(q) == (q - 1) % IdMod

\* The frames of the first n queries and of the responses to them.
FramesTo(n) == {f \in [id : Ids, query : 1 .. n] : f.id = IdOf(f.query)}

\* IDs are given in turn, and the line carries frames of queries made.
LineInv ==
  /\ asked \in 0 .. MaxQueries /\ next_id = asked % IdMod
  /\ request \in Seq(FramesTo(asked)) /\ reply \in Seq(FramesTo(asked))
  /\ about \in 0 .. asked
  /\ heard \in [Queries -> SUBSET Queries]

\* The tables hold listeners of queries, each under its query's ID, and no others.
TableInv ==
  /\ \A i \in TypeSlots : typeLst[i] = Null
  /\ \A i \in GenericSlots : genericLst[i] = Null
  /\ \A i \in IdSlots : idLst[i] # Null => /\ idLst[i].userdata \in 1 .. asked
                                           /\ idLst[i].id = IdOf(idLst[i].userdata)

\* The frame in dispatch has the ID of the query it answers.
DispatchInv ==
  rx.pc = "callback" => rx.at[1] = 1 /\ about \in 1 .. asked /\ rx.id = IdOf(about)

\* The listener of the query in question has been called with the frame, or is
\* still owed it.
OwedInv ==
  rx.pc = "callback" =>
    \A i \in IdSlots : i \notin CleaningUp /\ idLst[i] # Null /\ idLst[i].userdata = about =>
                         about \in heard[about] \/ <<1, i>> \in pend

\* The loop of TF_Tick has been at slot i.
Visited(i) == tick.pc = "idle" \/ i < tick.i \/ (tick.pc = "timeout" /\ i = tick.i)

\* In the middle of a tick, the slots the loop has not been at are one behind.
Behind(i) == IF Visited(i) THEN 0 ELSE 1
Gone(i) == idLst[i].timeout_max - idLst[i].timeout

\* The listener whose time is up is about to be cleaned up.
Ending(i) == i \in CleaningUp \/ (tick.pc = "timeout" /\ i = tick.i)

SlotClock(i) ==
  LET q == idLst[i].userdata
  IN  /\ \/ Gone(i) + Behind(i) = waited[q]
         \/ q \in early /\ Gone(i) + Behind(i) = waited[q] + 1
      /\ idLst[i].timeout <= idLst[i].timeout_max
      /\ idLst[i].timeout = 0 => Ending(i)

\* TimeoutCounts, also while TF_Tick runs.
ClockInv ==
  /\ waited \in [Queries -> 0 .. MaxWaited] /\ early \subseteq Queries
  /\ \A q \in Queries : q > asked => waited[q] = 0
  /\ \A i \in IdSlots : idLst[i] # Null => SlotClock(i)

\* The inductive invariant.
SInv == /\ IInv /\ AccInv
        /\ LineInv /\ TableInv /\ DispatchInv /\ AnswerIsOwn
        /\ OwedInv /\ DroppedIsLate
        /\ ClockInv

-----------------------------------------------------------------------------
(* Numbers modulo IdMod. *)

LEMMA ModParts ==
  ASSUME NEW n \in Nat
  PROVE  /\ n = IdMod * (n \div IdMod) + (n % IdMod)
         /\ n \div IdMod \in Nat /\ n % IdMod \in 0 .. IdMod - 1
BY SessionAssumption

\* The ID used up is followed by that of the next query.
LEMMA NextId ==
  ASSUME NEW n \in Nat
  PROVE  ((n % IdMod) + 1) % IdMod = (n + 1) % IdMod
<1> DEFINE d == n \div IdMod
           r == n % IdMod
<1>1. n = IdMod * d + r /\ d \in Nat /\ r \in 0 .. IdMod - 1 /\ IdMod \in Nat /\ IdMod # 0
  BY ModParts, SessionAssumption
<1> HIDE DEF d, r
<1>2. CASE r + 1 < IdMod
  <2>1. (r + 1) % IdMod = r + 1
    BY <1>1, <1>2
  <2>2. n + 1 = IdMod * d + (r + 1) /\ r + 1 \in 0 .. IdMod - 1
    BY <1>1, <1>2
  <2>3. (n + 1) % IdMod = r + 1
    BY <1>1, <2>2
  <2> QED BY <2>1, <2>3 DEF r
<1>3. CASE r + 1 = IdMod
  <2>1. (r + 1) % IdMod = 0
    BY <1>1, <1>3
  <2>2. n + 1 = IdMod * (d + 1) + 0
    BY <1>1, <1>3
  <2>3. (n + 1) % IdMod = 0
    BY <1>1, <2>2
  <2> QED BY <2>1, <2>3 DEF r
<1> QED BY <1>1, <1>2, <1>3 DEF r

LEMMA IdOfType == \A q \in Nat \ {0} : IdOf(q) \in Ids
<1> SUFFICES ASSUME NEW q \in Nat \ {0} PROVE IdOf(q) \in Ids
  OBVIOUS
<1>1. q - 1 \in Nat
  OBVIOUS
<1> QED BY <1>1, ModParts, SessionAssumption DEF IdOf

\* Different queries with the same ID are a round of IDs apart.
LEMMA SameIdLess ==
  ASSUME NEW p \in Nat \ {0}, NEW q \in Nat \ {0}, IdOf(p) = IdOf(q), p < q
  PROVE  p + IdMod <= q
<1> DEFINE dp == (p - 1) \div IdMod
           dq == (q - 1) \div IdMod
           r  == IdOf(p)
<1>1. p - 1 \in Nat /\ q - 1 \in Nat /\ IdMod \in Nat \ {0}
  BY SessionAssumption
<1>2. /\ p - 1 = IdMod * dp + r /\ dp \in Nat /\ r \in 0 .. IdMod - 1
      /\ q - 1 = IdMod * dq + r /\ dq \in Nat
  BY <1>1, ModParts DEF IdOf
<1> HIDE DEF dp, dq, r
<1>3. dp < dq
  <2> SUFFICES ASSUME dq <= dp PROVE FALSE
    BY <1>2
  <2>1. IdMod * dq <= IdMod * dp
    BY <1>1, <1>2
  <2> QED BY <1>1, <1>2, <2>1
<1>4. IdMod * dp + IdMod <= IdMod * dq
  BY <1>1, <1>2, <1>3
<1> QED BY <1>1, <1>2, <1>4

LEMMA SameId ==
  ASSUME NEW p \in Nat \ {0}, NEW q \in Nat \ {0}, IdOf(p) = IdOf(q)
  PROVE  p = q \/ p + IdMod <= q \/ q + IdMod <= p
BY SameIdLess

-----------------------------------------------------------------------------
(* A session is a use of the listener tables. *)

\* Userdata are the numbers of queries that have been made.
LEMMA HeldAsked ==
  ASSUME IInv, AccInv, TableInv
  PROVE  held \subseteq 1 .. asked
<1> SUFFICES ASSUME NEW u \in held PROVE u \in 1 .. asked
  OBVIOUS
<1>1. PICK i \in IdSlots : Own[i] = u
  BY DEF AccInv, Accounts
<1>2. u # Null
  BY NullAssumption DEF IInv, TypeOK
<1> QED BY <1>1, <1>2 DEF Own, TableInv

LEMMA StepIsNext ==
  ASSUME IInv, AccInv, LineInv, TableInv, SNext
  PROVE  [Next]_vars
<1>1. ASSUME NEW t \in 1 .. MaxTimeout, NEW ft \in BOOLEAN, TF_Query(t, ft) PROVE [Next]_vars
  <2>1. CASE TF_AddIdListener(next_id, asked', t, ft)
    <3>1. asked' = asked + 1 /\ asked \in Nat /\ asked' \in Userdata /\ t \in 0 .. MaxTimeout
      BY <1>1, SessionAssumption, SizeAssumption DEF TF_Query, LineInv
    <3>2. asked' \in (Userdata \ held) \cup {Null}
      BY <3>1, HeldAsked
    <3>3. next_id \in Ids
      BY <3>1, ModParts, SessionAssumption DEF LineInv
    <3> QED BY <2>1, <3>1, <3>2, <3>3 DEF Next, ApiCall
  <2>2. CASE UNCHANGED vars
    BY <2>2
  <2> QED BY <1>1, <2>1, <2>2 DEF TF_Query
<1>2. ASSUME NEW last \in BOOLEAN, TF_Respond(last) PROVE [Next]_vars
  BY <1>2 DEF TF_Respond
<1>3. CASE LoseRequest \/ LoseReply
  BY <1>3 DEF LoseRequest, LoseReply
<1>4. ASSUME NEW type \in Types, Receive(type) PROVE [Next]_vars
  <2>1. Head(reply).id \in Ids
    BY <1>4 DEF Receive, LineInv, FramesTo
  <2> QED BY <1>4, <2>1 DEF Receive, Next
<1>5. ASSUME NEW res \in Results, ListenerReturn(res) PROVE [Next]_vars
  <2>1. rx.userdata \in Userdata \cup {Null}
    BY DEF IInv, TypeOK
  <2> QED BY <1>5, <2>1 DEF ListenerReturn, Next, CallbackReturn
<1>6. CASE Dropped \/ Tick \/ TickStep \/ Cleaned
  BY <1>6 DEF Dropped, Tick, TickStep, Cleaned, Next
<1>7. CASE Removed
  BY <1>7 DEF Removed, Next, ApiCall
<1> QED BY <1>1, <1>2, <1>3, <1>4, <1>5, <1>6, <1>7 DEF SNext

\* What a live listener's slot says, unless its cleanup callback runs.
LEMMA LiveIsHeld ==
  ASSUME IInv, AccInv, LineInv, TableInv, NEW i \in IdSlots, i \notin CleaningUp,
         idLst[i] # Null
  PROVE  /\ Own[i] = idLst[i].userdata /\ idLst[i].userdata \in held
         /\ \A j \in IdSlots : /\ j \notin CleaningUp /\ idLst[j] # Null
                                /\ idLst[j].userdata = idLst[i].userdata
                                => j = i
<1>1. idLst[i].userdata \in Userdata /\ idLst[i].userdata # Null
  <2>1. idLst[i] \in IdListener /\ idLst[i].userdata \in 1 .. asked
    BY DEF IInv, TypeOK, TableInv
  <2>2. idLst[i].userdata \in Userdata \cup {Null}
    BY <2>1 DEF IdListener
  <2>3. Null \notin 1 .. asked
    BY NullAssumption, SessionAssumption DEF LineInv
  <2> QED BY <2>1, <2>2, <2>3
<1>2. Own[i] = idLst[i].userdata
  BY DEF Own
<1>3. \A j \in IdSlots : j \notin CleaningUp /\ idLst[j] # Null => Own[j] = idLst[j].userdata
  BY DEF Own
<1> QED BY <1>1, <1>2, <1>3 DEF AccInv, Accounts

\* A dispatch that goes on is at the listener of a query with the frame's ID;
\* a frame is dropped when there is none left.
LEMMA OfferedIsQuery ==
  ASSUME IInv, TableInv, NEW id \in Ids, NEW type \in Types, NEW p,
         NEW rest \in SUBSET Matching(id, type), Offer(rest, id, type, p)
  PROVE  \/ rx'.pc = "unhandled" /\ rest = {} /\ pend' = p
         \/ /\ rx'.pc = "callback" /\ rx'.id = id /\ rx'.at \in rest /\ pend' = p \ {rx'.at}
            /\ \E i \in IdSlots :
                 /\ rx'.at = <<1, i>> /\ idLst[i] # Null /\ idLst[i].id = id
                 /\ rx'.userdata = idLst[i].userdata
<1>1. CASE rest = {} /\ rx' = [IdleRx EXCEPT !.pc = "unhandled"] /\ pend' = p
  BY <1>1 DEF IdleRx
<1>2. ASSUME NEW c \in rest,
             rx' = [pc |-> "callback", id |-> id, type |-> type, at |-> c,
                    userdata |-> IF c[1] = 1 THEN idLst[c[2]].userdata ELSE Null],
             pend' = p \ {c}
      PROVE  /\ rx'.pc = "callback" /\ rx'.id = id /\ rx'.at \in rest /\ pend' = p \ {rx'.at}
             /\ \E i \in IdSlots :
                  /\ rx'.at = <<1, i>> /\ idLst[i] # Null /\ idLst[i].id = id
                  /\ rx'.userdata = idLst[i].userdata
  <2>1. c \in Matching(id, type) /\ type # Null
    BY NullAssumption
  <2>2. c \in {1} \X IdFound(id)
    BY <2>1 DEF Matching, TableInv
  <2>3. PICK i \in IdSlots : c = <<1, i>> /\ idLst[i] # Null /\ idLst[i].id = id
    BY <2>2 DEF IdFound
  <2>4. c[1] = 1 /\ c[2] = i
    BY <2>3
  <2> QED BY <1>2, <2>3, <2>4
<1> QED BY <1>1, <1>2 DEF Offer

\* cleanup_id_listener and the other things a session does to the ID table: a
\* listener stays what it is, or goes and is not owed a frame any more; its
\* userdata goes back if it has not gone before.
SlotKept(i) ==
  idLst'[i] # Null =>
    idLst[i] # Null /\ idLst'[i].id = idLst[i].id /\ idLst'[i].userdata = idLst[i].userdata

TableKept ==
  /\ typeLst' = typeLst /\ genericLst' = genericLst
  /\ \A i \in IdSlots : SlotKept(i)
  /\ pend' = pend \/ \E j \in IdSlots : pend' = pend \ {<<1, j>>} /\ idLst'[j] = Null
  /\ \A i \in IdSlots : i \notin CleaningUp' /\ idLst'[i] # Null => i \notin CleaningUp
  /\ held' = held \/ \E q \in held : held' = held \ {q}

LEMMA CleanupKept ==
  ASSUME IInv, AccInv, LineInv, TableInv, NEW i \in IdSlots, i \notin CleaningUp,
         NEW tbl, SameData(tbl), cleanup_id_listener(i, tbl, held),
         typeLst' = typeLst, genericLst' = genericLst
  PROVE  TableKept
<1>1. \A j \in IdSlots : /\ tbl[j] # Null => idLst[j] # Null
                         /\ tbl[j] # Null => tbl[j].id = idLst[j].id
                         /\ tbl[j] # Null => tbl[j].userdata = idLst[j].userdata
  BY DEF SameData, SameSlots
<1>2. tbl \in [IdSlots -> IdListener \cup {Null}]
  BY DEF SameData, SameSlots, IdTable
<1>3. CASE idLst' = tbl /\ cl' = cl /\ pend' = pend /\ held' = held
  BY <1>1, <1>3, StillCleaning DEF TableKept, SlotKept
<1>4. CASE /\ tbl[i] # Null
           /\ idLst' = tbl /\ cl' = <<i>> \o cl /\ pend' = pend
           /\ held' = held \ {tbl[i].userdata}
  <2>1. tbl[i].userdata \in held
    BY <1>1, <1>4, LiveIsHeld
  <2>2. CleaningUp' = CleaningUp \cup {i}
    BY <1>4, CleanupCalled DEF IInv
  <2> QED BY <1>1, <1>4, <2>1, <2>2 DEF TableKept, SlotKept
<1>5. CASE /\ idLst' = [tbl EXCEPT ![i] = Null] /\ cl' = cl
           /\ pend' = pend \ {<<1, i>>} /\ held' = held
  <2>1. idLst'[i] = Null /\ \A j \in IdSlots : j # i => idLst'[j] = tbl[j]
    BY <1>2, <1>5
  <2> QED BY <1>1, <1>5, <2>1, StillCleaning DEF TableKept, SlotKept
<1> QED BY <1>3, <1>4, <1>5 DEF cleanup_id_listener

LEMMA SameDataKept ==
  ASSUME SameData(idLst'), cl' = cl, pend' = pend, held' = held,
         typeLst' = typeLst, genericLst' = genericLst
  PROVE  TableKept
BY StillCleaning DEF SameData, SameSlots, TableKept, SlotKept

LEMMA QuietKept ==
  ASSUME IInv, AccInv, LineInv, TableInv, Tick \/ TickStep \/ Cleaned \/ Removed
  PROVE  TableKept /\ rx' = rx /\ UNCHANGED quiet
<1>0. /\ SameData(idLst) /\ tick.i \in Nat /\ NumId \in Nat /\ TypeOK
      /\ tick.pc = "timeout" => tick.i \in IdSlots
  BY SizeAssumption DEF SameData, SameSlots, IInv, TypeOK, IdTable
<1>1. UNCHANGED quiet
  BY DEF Tick, TickStep, Cleaned, Removed
<1>2. CASE TF_Tick
  BY <1>0, <1>1, <1>2, SameDataKept DEF TF_Tick, tables
<1>3. CASE TickExpire
  <2>1. PICK j \in IdSlots :
          IF idLst[j].fn_timeout
          THEN /\ idLst' = Aged(tick.i, j)
               /\ UNCHANGED <<cl, held, pend>>
          ELSE cleanup_id_listener(j, Aged(tick.i, j), held)
    BY <1>3 DEF TickExpire
  <2>2. rx' = rx /\ CleaningUp = {} /\ typeLst' = typeLst /\ genericLst' = genericLst
    BY <1>3, NoneCleaning DEF TickExpire
  <2>3. j \in Nat
    BY SizeAssumption DEF IdSlots
  <2>4. SameData(Aged(tick.i, j))
    BY <1>0, <2>3, AgedKeepsData
  <2>5. CASE idLst[j].fn_timeout
    BY <1>1, <2>1, <2>2, <2>4, <2>5, SameDataKept
  <2>6. CASE ~idLst[j].fn_timeout
    BY <1>1, <2>1, <2>2, <2>4, <2>6, CleanupKept
  <2> QED BY <2>5, <2>6
<1>4. CASE TickEnd
  <2>1. SameData(idLst')
    BY <1>0, <1>4, AgedKeepsData DEF TickEnd
  <2> QED BY <1>1, <1>4, <2>1, SameDataKept DEF TickEnd
<1>5. CASE TimeoutReturn
  BY <1>0, <1>1, <1>5, NoneCleaning, CleanupKept DEF TimeoutReturn
<1>6. CASE CleanupReturn
  <2>1. Head(cl) \in IdSlots /\ CleaningUp = CleaningUp' \cup {Head(cl)}
    BY <1>0, <1>6, CleanupReturns DEF CleanupReturn
  <2>2. idLst'[Head(cl)] = Null /\ \A j \in IdSlots : j # Head(cl) => idLst'[j] = idLst[j]
    BY <1>6, <2>1 DEF CleanupReturn, IInv, TypeOK
  <2> QED BY <1>1, <1>6, <2>1, <2>2 DEF CleanupReturn, TableKept, SlotKept
<1>7. CASE Removed
  <2>1. PICK id \in Ids : TF_RemoveIdListener(id)
    BY <1>7 DEF Removed
  <2>2. PICK i \in IdSlots : i \notin CleaningUp /\ cleanup_id_listener(i, idLst, held)
    BY <2>1 DEF TF_RemoveIdListener
  <2> QED BY <1>0, <1>1, <2>1, <2>2, CleanupKept DEF TF_RemoveIdListener
<1> QED BY <1>2, <1>3, <1>4, <1>5, <1>6, <1>7 DEF Tick, TickStep, Cleaned

\* What the return of a query's listener does to its slot.
ReturnDoes(res, i) ==
  /\ rx.pc = "callback" /\ rx.at = <<1, i>> /\ tick.pc = "idle" /\ cl = <<>>
  /\ idLst[i] \in IdListener /\ idLst[i] # Null
  /\ idLst[i].userdata = rx.userdata /\ rx.userdata \in held
  /\ UNCHANGED <<typeLst, genericLst, tick, cl>>
  /\ \A j \in IdSlots : j # i => idLst'[j] = idLst[j]
  /\ \/ res = "TF_NEXT" /\ idLst' = idLst /\ held' = held /\ OfferNext
     \/ res = "TF_STAY" /\ idLst' = idLst /\ held' = held /\ Consumed
     \/ /\ res = "TF_RENEW" /\ idLst'[i] = [idLst[i] EXCEPT !.timeout = idLst[i].timeout_max]
        /\ held' = held /\ Consumed
     \/ res = "TF_CLOSE" /\ idLst'[i] = Null /\ held' = held \ {rx.userdata} /\ Consumed

LEMMA ReturnIs ==
  ASSUME IInv, AccInv, LineInv, TableInv, NEW res \in Results, ListenerReturn(res)
  PROVE  \E i \in IdSlots : ReturnDoes(res, i)
<1> DEFINE i == rx.at[2]
<1>1. /\ CallbackEnds /\ rx.at[1] = 1 /\ IdCallbackReturn(res, rx.userdata)
      /\ UNCHANGED <<typeLst, genericLst, tick, cl>>
  BY DEF ListenerReturn, IdCallbackReturn
<1>2. rx.pc = "callback" /\ tick.pc = "idle" /\ cl = <<>>
  BY <1>1 DEF CallbackEnds
<1>3. i \in IdSlots /\ rx.at = <<1, i>>
  BY <1>1, <1>2 DEF IInv, TypeOK, ListenerRef
<1>4. /\ i \notin CleaningUp /\ idLst[i] # Null /\ idLst[i].userdata = rx.userdata
      /\ idLst[i] \in IdListener /\ idLst \in [IdSlots -> IdListener \cup {Null}]
  BY <1>1, <1>2, <1>3 DEF AccInv, CallbackHeld, IInv, TypeOK
<1>5. rx.userdata \in held
  BY <1>3, <1>4, LiveIsHeld
<1> HIDE DEF i
<1>6. [idLst EXCEPT ![i].userdata = rx.userdata] = idLst
  <2>1. [idLst[i] EXCEPT !.userdata = rx.userdata] = idLst[i]
    BY <1>4 DEF IdListener
  <2> QED BY <1>3, <1>4, <2>1
<1>7. CASE res = "TF_NEXT"
  <2>1. idLst' = idLst /\ held' = held /\ OfferNext
    BY <1>1, <1>4, <1>6, <1>7 DEF IdCallbackReturn, i
  <2> QED BY <1>1, <1>2, <1>3, <1>4, <1>5, <1>7, <2>1 DEF ReturnDoes
<1>8. CASE res = "TF_STAY"
  <2>1. idLst' = idLst /\ held' = held /\ Consumed
    BY <1>1, <1>4, <1>6, <1>8 DEF IdCallbackReturn, i
  <2> QED BY <1>1, <1>2, <1>3, <1>4, <1>5, <1>8, <2>1 DEF ReturnDoes
<1>9. CASE res = "TF_RENEW"
  <2>1. /\ idLst' = [idLst EXCEPT ![i].timeout = idLst[i].timeout_max]
        /\ held' = held /\ Consumed
    BY <1>1, <1>4, <1>6, <1>9 DEF IdCallbackReturn, i
  <2>2. /\ idLst'[i] = [idLst[i] EXCEPT !.timeout = idLst[i].timeout_max]
        /\ \A j \in IdSlots : j # i => idLst'[j] = idLst[j]
    BY <1>3, <1>4, <2>1
  <2> QED BY <1>1, <1>2, <1>3, <1>4, <1>5, <1>9, <2>1, <2>2 DEF ReturnDoes
<1>10. CASE res = "TF_CLOSE"
  <2>1. idLst' = [idLst EXCEPT ![i] = Null] /\ held' = held \ {rx.userdata} /\ Consumed
    BY <1>1, <1>4, <1>10 DEF IdCallbackReturn, i
  <2>2. idLst'[i] = Null /\ \A j \in IdSlots : j # i => idLst'[j] = idLst[j]
    BY <1>3, <1>4, <2>1
  <2> QED BY <1>1, <1>2, <1>3, <1>4, <1>5, <1>10, <2>1, <2>2 DEF ReturnDoes
<1> QED BY <1>7, <1>8, <1>9, <1>10 DEF Results

\* What TF_Query does to the table when it is not full.
QueryDoes(t, i) ==
  /\ idLst[i] = Null /\ i \notin CleaningUp
  /\ \A j \in IdSlots : j # i => idLst'[j] = idLst[j]
  /\ idLst'[i] # Null /\ idLst'[i].id = next_id /\ idLst'[i].userdata = asked + 1
  /\ idLst'[i].timeout = t /\ idLst'[i].timeout_max = t
  /\ held' = held \cup {asked + 1}

LEMMA QueryIs ==
  ASSUME IInv, AccInv, LineInv, TableInv, NEW t \in 1 .. MaxTimeout, NEW ft \in BOOLEAN,
         TF_Query(t, ft)
  PROVE  /\ asked' = asked + 1 /\ asked \in Nat /\ asked + 1 \in Queries
         /\ UNCHANGED <<typeLst, genericLst, rx, tick, cl, pend>>
         /\ \/ \E i \in IdSlots : QueryDoes(t, i)
            \/ idLst' = idLst /\ held' = held
<1>1. asked' = asked + 1 /\ asked \in Nat /\ asked + 1 \in Queries
  BY SessionAssumption DEF TF_Query, LineInv, Queries
<1>2. CASE TF_AddIdListener(next_id, asked', t, ft)
  <2> DEFINE l == [id |-> next_id, userdata |-> asked', timeout |-> t, timeout_max |-> t,
                   fn_timeout |-> ft]
  <2>1. PICK i \in IdSlots : IsFirst(i, Free(idLst)) /\ idLst' = [idLst EXCEPT ![i] = l]
    BY <1>2 DEF TF_AddIdListener
  <2>2. /\ UNCHANGED <<typeLst, genericLst, rx, tick, cl, pend>>
        /\ held' = held \cup ({asked'} \ {Null})
    BY <1>2 DEF TF_AddIdListener
  <2>3. asked' # Null /\ asked' \in Userdata
    BY <1>1, NullAssumption, SessionAssumption DEF Queries
  <2>4. next_id \in Ids
    BY <1>1, ModParts, SessionAssumption DEF LineInv
  <2>5. l \in IdListener
    BY <2>3, <2>4, SizeAssumption DEF IdListener
  <2>6. l # Null
    BY <2>5, NullAssumption
  <2>7. i \notin CleaningUp
    BY <2>1 DEF IsFirst, Free, AccInv
  <2>8. /\ idLst[i] = Null /\ idLst'[i] = l
        /\ \A j \in IdSlots : j # i => idLst'[j] = idLst[j]
    BY <2>1 DEF IsFirst, Free, IInv, TypeOK
  <2>9. QueryDoes(t, i)
    BY <1>1, <2>2, <2>3, <2>6, <2>7, <2>8 DEF QueryDoes
  <2> QED BY <1>1, <2>2, <2>9
<1>3. CASE UNCHANGED vars
  BY <1>1, <1>3 DEF vars, tables
<1> QED BY <1>2, <1>3 DEF TF_Query

\* What a listener is told is what it has heard of afterwards.
LEMMA ToldIs ==
  ASSUME heard \in [Queries -> SUBSET Queries], NEW a \in Queries, Told(a)
  PROVE  /\ heard' \in [Queries -> SUBSET Queries]
         /\ \A q \in Queries : heard[q] \subseteq heard'[q]
         /\ rx'.pc = "callback" /\ rx'.userdata \in Queries => a \in heard'[rx'.userdata]
         /\ \A q \in Queries : \A b \in heard'[q] :
              b \in heard[q] \/ (rx'.pc = "callback" /\ rx'.userdata = q /\ b = a)
BY DEF Told

-----------------------------------------------------------------------------
(* The line, the tables and the dispatch. *)

FlowInv == LineInv /\ TableInv /\ DispatchInv /\ AnswerIsOwn /\ OwedInv /\ DroppedIsLate

LEMMA FramesGrow ==
  ASSUME NEW n \in Nat, NEW s \in Seq(FramesTo(n))
  PROVE  s \in Seq(FramesTo(n + 1))
<1>1. FramesTo(n) \subseteq FramesTo(n + 1)
  BY DEF FramesTo
<1>2. s \in [1 .. Len(s) -> FramesTo(n)] /\ Len(s) \in Nat
  OBVIOUS
<1>3. s \in [1 .. Len(s) -> FramesTo(n + 1)]
  BY <1>1, <1>2
<1> QED BY <1>2, <1>3

LEMMA QueryFlow ==
  ASSUME IInv, AccInv, FlowInv, NEW t \in 1 .. MaxTimeout, NEW ft \in BOOLEAN, TF_Query(t, ft)
  PROVE  FlowInv'
<1> USE DEF FlowInv
<1>1. /\ asked' = asked + 1 /\ asked \in Nat /\ asked + 1 \in Queries
      /\ UNCHANGED <<typeLst, genericLst, rx, tick, cl, pend>>
      /\ \/ \E i \in IdSlots : QueryDoes(t, i)
         \/ idLst' = idLst /\ held' = held
  BY QueryIs
<1>2. /\ next_id' = (next_id + 1) % IdMod /\ next_id = asked % IdMod
      /\ UNCHANGED <<reply, about, heard>>
  BY DEF TF_Query, IdUsed, LineInv
<1>3. next_id = IdOf(asked + 1)
  BY <1>1, <1>2 DEF IdOf
<1>4. LineInv'
  <2>1. next_id' = asked' % IdMod
    BY <1>1, <1>2, NextId
  <2>2. request \in Seq(FramesTo(asked')) /\ reply \in Seq(FramesTo(asked'))
    BY <1>1, FramesGrow DEF LineInv
  <2>3. [id |-> next_id, query |-> asked'] \in FramesTo(asked')
    BY <1>1, <1>3, IdOfType DEF FramesTo
  <2>4. request' \in Seq(FramesTo(asked'))
    <3> DEFINE S == FramesTo(asked')
               r == [id |-> next_id, query |-> asked']
    <3>1. request' = request \/ request' = Append(request, r)
      BY DEF TF_Query
    <3>2. r \in S /\ request \in Seq(S)
      BY <2>2, <2>3
    <3> HIDE DEF S, r, FlowInv
    <3>3. request' \in Seq(S)
      BY <3>1, <3>2
    <3> QED BY <3>3 DEF S
  <2>5. asked' \in 0 .. MaxQueries /\ about' \in 0 .. asked'
    BY <1>1, <1>2 DEF Queries, LineInv
  <2> QED BY <1>2, <2>1, <2>2, <2>4, <2>5 DEF LineInv, FramesTo, IdOf
<1>5. about # asked + 1
  BY <1>1 DEF LineInv
<1>6. \A i \in IdSlots : idLst'[i] # Null =>
        \/ idLst'[i] = idLst[i]
        \/ idLst'[i].userdata = asked + 1 /\ idLst'[i].id = next_id
  BY <1>1 DEF QueryDoes
<1>7. TableInv'
  BY <1>1, <1>3, <1>6 DEF TableInv, IdOf
<1>8. DispatchInv'
  BY <1>1, <1>2 DEF DispatchInv, IdOf
<1>9. AnswerIsOwn'
  BY <1>2 DEF AnswerIsOwn
<1>10. OwedInv'
  BY <1>1, <1>2, <1>5, <1>6, StillCleaning DEF OwedInv
<1>11. DroppedIsLate'
  <2>1. held' \subseteq held \cup {asked + 1}
    BY <1>1 DEF QueryDoes
  <2> QED BY <1>1, <1>2, <1>5, <2>1 DEF DroppedIsLate
<1> QED BY <1>4, <1>7, <1>8, <1>9, <1>10, <1>11

\* What happens on the line and at the other peer, and a frame that is dropped.
LEMMA LineFlow ==
  ASSUME IInv, AccInv, FlowInv,
         \/ \E last \in BOOLEAN : TF_Respond(last)
         \/ LoseRequest \/ LoseReply \/ Dropped
  PROVE  FlowInv'
<1> USE DEF FlowInv
<1>1. /\ UNCHANGED <<typeLst, genericLst, idLst, cl, held, next_id, asked, heard>>
      /\ (UNCHANGED <<rx, pend, about>>) \/ (rx' = IdleRx /\ about' = 0)
  BY DEF TF_Respond, LoseRequest, LoseReply, Dropped, Unhandled, Consumed, vars, tables
<1>2. request' \in Seq(FramesTo(asked)) /\ reply' \in Seq(FramesTo(asked))
  <2>1. request \in Seq(FramesTo(asked)) /\ reply \in Seq(FramesTo(asked))
    BY DEF LineInv
  <2>2. ASSUME NEW last \in BOOLEAN, TF_Respond(last)
        PROVE  request' \in Seq(FramesTo(asked)) /\ reply' \in Seq(FramesTo(asked))
    <3>1. request # <<>> /\ Head(request) \in FramesTo(asked) /\ Tail(request) \in Seq(FramesTo(asked))
      BY <2>1, <2>2 DEF TF_Respond
    <3>2. reply' \in Seq(FramesTo(asked))
      BY <2>1, <2>2, <3>1 DEF TF_Respond
    <3> QED BY <2>1, <2>2, <3>1, <3>2 DEF TF_Respond
  <2>3. CASE LoseRequest
    BY <2>1, <2>3 DEF LoseRequest
  <2>4. CASE LoseReply
    BY <2>1, <2>4 DEF LoseReply
  <2>5. CASE Dropped
    BY <2>1, <2>5 DEF Dropped, line
  <2> QED BY <2>2, <2>3, <2>4, <2>5
<1>3. LineInv'
  BY <1>1, <1>2 DEF LineInv, FramesTo, IdOf
<1>4. TableInv'
  BY <1>1 DEF TableInv, IdOf
<1>5. AnswerIsOwn'
  BY <1>1 DEF AnswerIsOwn
<1>6. DispatchInv' /\ OwedInv' /\ DroppedIsLate'
  <2>1. CASE UNCHANGED <<rx, pend, about>>
    BY <1>1, <2>1, StillCleaning DEF DispatchInv, OwedInv, DroppedIsLate, IdOf
  <2>2. CASE rx' = IdleRx
    BY <2>2 DEF DispatchInv, OwedInv, DroppedIsLate, IdleRx
  <2> QED BY <1>1, <2>1, <2>2
<1> QED BY <1>3, <1>4, <1>5, <1>6

\* A tick, a cleanup, a removal.
LEMMA QuietFlow ==
  ASSUME IInv, AccInv, FlowInv, Tick \/ TickStep \/ Cleaned \/ Removed
  PROVE  FlowInv'
<1> USE DEF FlowInv
<1>1. TableKept /\ rx' = rx /\ UNCHANGED <<next_id, asked, request, reply, about, heard>>
  BY QuietKept DEF quiet, line
<1>2. LineInv'
  BY <1>1 DEF LineInv, FramesTo, IdOf
<1>3. TableInv'
  BY <1>1 DEF TableInv, TableKept, SlotKept, IdOf
<1>4. DispatchInv'
  BY <1>1 DEF DispatchInv, IdOf
<1>5. AnswerIsOwn'
  BY <1>1 DEF AnswerIsOwn
<1>6. OwedInv'
  <2> SUFFICES ASSUME rx.pc = "callback", NEW i \in IdSlots, i \notin CleaningUp', idLst'[i] # Null,
                      idLst'[i].userdata = about, about \notin heard[about]
               PROVE  <<1, i>> \in pend'
    BY <1>1 DEF OwedInv
  <2>1. i \notin CleaningUp /\ idLst[i] # Null /\ idLst[i].userdata = about
    BY <1>1 DEF TableKept, SlotKept
  <2>2. <<1, i>> \in pend
    BY <2>1 DEF OwedInv
  <2>3. \A j \in IdSlots : idLst'[j] = Null => <<1, j>> # <<1, i>>
    OBVIOUS
  <2> QED BY <1>1, <2>2, <2>3 DEF TableKept
<1>7. DroppedIsLate'
  <2>1. held' \subseteq held
    BY <1>1 DEF TableKept
  <2> QED BY <1>1, <2>1 DEF DroppedIsLate
<1> QED BY <1>2, <1>3, <1>4, <1>5, <1>6, <1>7

\* A listener that is called is told of its own query, or of one a round of IDs
\* apart.
LEMMA ToldOwn ==
  ASSUME IInv, LineInv, TableInv, AnswerIsOwn, NEW a \in 1 .. asked, Told(a),
         rx'.pc = "callback" =>
           \E i \in IdSlots : /\ idLst[i] # Null /\ idLst[i].id = IdOf(a)
                              /\ rx'.userdata = idLst[i].userdata
  PROVE  /\ heard' \in [Queries -> SUBSET Queries]
         /\ \A q \in Queries : heard[q] \subseteq heard'[q]
         /\ rx'.pc = "callback" => rx'.userdata \in Queries /\ a \in heard'[rx'.userdata]
         /\ AnswerIsOwn'
<1>1. a \in Queries /\ asked \in Nat /\ 1 .. asked \subseteq Queries
  BY SessionAssumption DEF LineInv, Queries
<1>2. /\ heard' \in [Queries -> SUBSET Queries]
      /\ \A q \in Queries : heard[q] \subseteq heard'[q]
      /\ rx'.pc = "callback" /\ rx'.userdata \in Queries => a \in heard'[rx'.userdata]
      /\ \A q \in Queries : \A b \in heard'[q] :
           b \in heard[q] \/ (rx'.pc = "callback" /\ rx'.userdata = q /\ b = a)
  BY <1>1, ToldIs DEF LineInv
<1>3. rx'.pc = "callback" => rx'.userdata \in 1 .. asked /\ IdOf(rx'.userdata) = IdOf(a)
  BY DEF TableInv
<1>4. ASSUME NEW q \in Queries, NEW b \in heard'[q]
      PROVE  b = q \/ b + IdMod <= q \/ q + IdMod <= b
  <2>1. CASE b \in heard[q]
    BY <2>1 DEF AnswerIsOwn
  <2>2. CASE rx'.pc = "callback" /\ rx'.userdata = q /\ b = a
    <3>1. IdOf(q) = IdOf(b) /\ q \in Nat \ {0} /\ b \in Nat \ {0}
      BY <1>1, <1>3, <2>2
    <3> QED BY <3>1, SameId
  <2> QED BY <1>2, <2>1, <2>2
<1>5. AnswerIsOwn'
  BY <1>4 DEF AnswerIsOwn
<1> QED BY <1>1, <1>2, <1>3, <1>5

LEMMA ReceiveFlow ==
  ASSUME IInv, AccInv, FlowInv, NEW type \in Types, Receive(type)
  PROVE  FlowInv'
<1> USE DEF FlowInv
<1> DEFINE f == Head(reply)
<1>1. f \in FramesTo(asked) /\ Tail(reply) \in Seq(FramesTo(asked))
  BY DEF Receive, LineInv
<1>2. /\ f.id \in Ids /\ f.query \in 1 .. asked /\ f.id = IdOf(f.query)
      /\ about' = f.query /\ reply' = Tail(reply) /\ Told(f.query)
      /\ UNCHANGED <<next_id, asked, request>>
  BY <1>1 DEF FramesTo, Receive
<1>3. /\ UNCHANGED <<typeLst, genericLst, idLst, cl, held>>
      /\ Offer(Matching(f.id, type), f.id, type, Live(f.id, type))
  BY DEF Receive, TF_HandleReceivedMessage, tables
<1> DEFINE id == f.id
           a == f.query
<1>4. id \in Ids /\ a \in 1 .. asked /\ id = IdOf(a)
  BY <1>2
<1> HIDE DEF f
<1>5. \/ rx'.pc = "unhandled" /\ Matching(id, type) = {} /\ pend' = Live(id, type)
      \/ /\ rx'.pc = "callback" /\ rx'.id = id /\ pend' = Live(id, type) \ {rx'.at}
         /\ \E i \in IdSlots :
              /\ rx'.at = <<1, i>> /\ idLst[i] # Null /\ idLst[i].id = id
              /\ rx'.userdata = idLst[i].userdata
  BY <1>3, <1>4, OfferedIsQuery
<1>6. /\ heard' \in [Queries -> SUBSET Queries]
      /\ rx'.pc = "callback" => rx'.userdata \in Queries /\ a \in heard'[rx'.userdata]
      /\ AnswerIsOwn'
  BY <1>2, <1>4, <1>5, ToldOwn
<1>7. LineInv'
  <2>1. about' \in 0 .. asked
    BY <1>2, <1>4 DEF LineInv
  <2> QED BY <1>1, <1>2, <1>6, <2>1 DEF LineInv, FramesTo, IdOf, f
<1>8. TableInv'
  BY <1>2, <1>3 DEF TableInv, IdOf
<1>9. DispatchInv'
  BY <1>2, <1>4, <1>5 DEF DispatchInv, IdOf
<1>10. \A i \in IdSlots : idLst[i] # Null /\ idLst[i].userdata = a => <<1, i>> \in Live(id, type)
  BY <1>4 DEF TableInv, Live
<1>11. OwedInv'
  <2> SUFFICES ASSUME rx'.pc = "callback", NEW i \in IdSlots, idLst[i] # Null,
                      idLst[i].userdata = a
               PROVE  a \in heard'[a] \/ <<1, i>> \in pend'
    BY <1>2, <1>3 DEF OwedInv
  <2>1. CASE rx'.at = <<1, i>>
    <3>1. rx'.userdata = a
      BY <1>5, <2>1
    <3> QED BY <1>6, <3>1
  <2>2. CASE rx'.at # <<1, i>>
    BY <1>5, <1>10, <2>2
  <2> QED BY <2>1, <2>2
<1>12. DroppedIsLate'
  <2> SUFFICES ASSUME rx'.pc = "unhandled", a \in held PROVE FALSE
    BY <1>2, <1>3 DEF DroppedIsLate
  <2>1. PICK i \in IdSlots : Own[i] = a
    BY DEF AccInv, Accounts
  <2>2. a # Null
    BY NullAssumption DEF IInv, TypeOK
  <2>3. idLst[i] # Null /\ idLst[i].userdata = a
    BY <2>1, <2>2 DEF Own
  <2>4. <<1, i>> \in Matching(id, type)
    BY <1>4, <1>10, <2>3, MatchingIsLive DEF IInv
  <2> QED BY <1>5, <2>4
<1> QED BY <1>6, <1>7, <1>8, <1>9, <1>11, <1>12

LEMMA ReturnFlow ==
  ASSUME IInv, AccInv, FlowInv, IInv', NEW res \in Results, ListenerReturn(res)
  PROVE  FlowInv'
<1> USE DEF FlowInv
<1>1. PICK i \in IdSlots : ReturnDoes(res, i)
  BY ReturnIs
<1>2. UNCHANGED <<next_id, asked, request, reply>>
  BY DEF ListenerReturn, line
<1>3. TableInv'
  <2>1. \A j \in IdSlots : SlotKept(j)
    <3>1. [idLst[i] EXCEPT !.timeout = idLst[i].timeout_max].id = idLst[i].id
      BY <1>1 DEF ReturnDoes, IdListener
    <3>2. [idLst[i] EXCEPT !.timeout = idLst[i].timeout_max].userdata = idLst[i].userdata
      BY <1>1 DEF ReturnDoes, IdListener
    <3> QED BY <1>1, <3>1, <3>2 DEF ReturnDoes, SlotKept
  <2> QED BY <1>1, <1>2, <2>1 DEF TableInv, SlotKept, ReturnDoes, IdOf
<1>4. CASE res # "TF_NEXT"
  <2>1. rx' = IdleRx /\ about' = 0 /\ heard' = heard
    BY <1>1, <1>4 DEF ReturnDoes, Consumed, ListenerReturn
  <2>2. LineInv'
    BY <1>2, <2>1 DEF LineInv, FramesTo, IdOf
  <2>3. AnswerIsOwn' /\ DispatchInv' /\ OwedInv' /\ DroppedIsLate'
    BY <2>1 DEF AnswerIsOwn, DispatchInv, OwedInv, DroppedIsLate, IdleRx
  <2> QED BY <1>3, <2>2, <2>3
<1>5. CASE res = "TF_NEXT"
  <2> DEFINE rest == {c \in Matching(rx.id, rx.type) : Before(rx.at, c)}
  <2>1. /\ idLst' = idLst /\ held' = held /\ cl' = cl /\ rx.pc = "callback"
        /\ Told(about) /\ about' = about /\ OfferNext
    BY <1>1, <1>5 DEF ReturnDoes, ListenerReturn
  <2>2. /\ rx.id \in Ids /\ rx.type \in Types /\ about \in 1 .. asked /\ rx.id = IdOf(about)
    BY <2>1 DEF IInv, TypeOK, DispatchInv
  <2>3. rest \in SUBSET Matching(rx.id, rx.type) /\ Offer(rest, rx.id, rx.type, pend)
    BY <2>1 DEF OfferNext
  <2> HIDE DEF rest
  <2>4. \/ rx'.pc = "unhandled" /\ pend' = pend
        \/ /\ rx'.pc = "callback" /\ rx'.id = rx.id /\ pend' = pend \ {rx'.at}
           /\ \E j \in IdSlots :
                /\ rx'.at = <<1, j>> /\ idLst[j] # Null /\ idLst[j].id = rx.id
                /\ rx'.userdata = idLst[j].userdata
    BY <2>2, <2>3, OfferedIsQuery
  <2>5. /\ heard' \in [Queries -> SUBSET Queries]
        /\ \A q \in Queries : heard[q] \subseteq heard'[q]
        /\ rx'.pc = "callback" => rx'.userdata \in Queries /\ about \in heard'[rx'.userdata]
        /\ AnswerIsOwn'
    BY <2>1, <2>2, <2>4, ToldOwn
  <2>6. LineInv'
    BY <1>2, <2>1, <2>5 DEF LineInv, FramesTo, IdOf
  <2>7. DispatchInv'
    BY <1>2, <2>1, <2>2, <2>4 DEF DispatchInv, IdOf
  <2>8. about \in Queries
    BY <2>2, SessionAssumption DEF Queries, LineInv
  <2>9. OwedInv'
    <3> SUFFICES ASSUME rx'.pc = "callback", NEW j \in IdSlots, j \notin CleaningUp,
                        idLst[j] # Null, idLst[j].userdata = about
                 PROVE  about \in heard'[about] \/ <<1, j>> \in pend'
      BY <2>1, StillCleaning DEF OwedInv
    <3>1. about \in heard[about] \/ <<1, j>> \in pend
      BY <2>1 DEF OwedInv
    <3>2. CASE rx'.at = <<1, j>>
      <4>1. rx'.userdata = about
        BY <2>4, <3>2
      <4> QED BY <2>5, <4>1
    <3>3. CASE rx'.at # <<1, j>>
      BY <2>4, <2>5, <2>8, <3>1, <3>3
    <3> QED BY <3>2, <3>3
  <2>10. DroppedIsLate'
    <3> SUFFICES ASSUME rx'.pc = "unhandled", about \in held PROVE about \in heard'[about]
      BY <2>1 DEF DroppedIsLate
    <3>1. PICK j \in IdSlots : Own[j] = about
      BY DEF AccInv, Accounts
    <3>2. about # Null
      BY NullAssumption DEF IInv, TypeOK
    <3>3. j \notin CleaningUp /\ idLst[j] # Null /\ idLst[j].userdata = about
      BY <3>1, <3>2 DEF Own
    <3>4. about \in heard[about] \/ <<1, j>> \in pend
      BY <2>1, <3>3 DEF OwedInv
    <3>5. pend = {}
      BY <2>4 DEF IInv, PendOK, NoListenerSkipped
    <3> QED BY <2>5, <2>8, <3>4, <3>5
  <2> QED BY <1>3, <2>5, <2>6, <2>7, <2>9, <2>10
<1> QED BY <1>4, <1>5

-----------------------------------------------------------------------------
(* The clocks. *)

\* The numbers of a live slot.
LEMMA SlotNumbers ==
  ASSUME IInv, LineInv, TableInv, ClockInv, NEW i \in IdSlots, idLst[i] # Null
  PROVE  /\ idLst[i] \in IdListener
         /\ idLst[i].timeout \in 0 .. MaxTimeout /\ idLst[i].timeout_max \in 0 .. MaxTimeout
         /\ idLst[i].userdata \in Queries /\ idLst[i].userdata \in 1 .. asked /\ asked \in Nat
         /\ waited[idLst[i].userdata] \in 0 .. MaxWaited
         /\ Behind(i) \in {0, 1} /\ i \in Nat /\ tick.i \in Nat
<1>1. idLst[i] \in IdListener /\ tick.i \in Nat
  BY SizeAssumption DEF IInv, TypeOK
<1>2. idLst[i].userdata \in 1 .. asked /\ asked \in 0 .. MaxQueries
  BY DEF TableInv, LineInv
<1>3. idLst[i].userdata \in Queries /\ asked \in Nat
  BY <1>2, SessionAssumption DEF Queries
<1>4. waited[idLst[i].userdata] \in 0 .. MaxWaited
  BY <1>3 DEF ClockInv
<1>5. i \in Nat
  BY SizeAssumption DEF IdSlots
<1> QED BY <1>1, <1>2, <1>3, <1>4, <1>5 DEF IdListener, Behind

\* A slot whose listener and clock do not change.
LEMMA SlotClockKept ==
  ASSUME NEW i \in IdSlots, SlotClock(i), idLst'[i] = idLst[i], Behind(i)' = Behind(i),
         waited'[idLst[i].userdata] = waited[idLst[i].userdata],
         idLst[i].userdata \in early => idLst[i].userdata \in early',
         Ending(i) => Ending(i)'
  PROVE  SlotClock(i)'
<1>1. Gone(i)' = Gone(i)
  BY DEF Gone
<1>2. idLst'[i].userdata = idLst[i].userdata
  OBVIOUS
<1> HIDE DEF Ending
<1> QED BY <1>1, <1>2 DEF SlotClock

\* A step in which no time passes and no listener changes.
LEMMA StillClock ==
  ASSUME ClockInv, UNCHANGED <<idLst, tick, cl, waited, early, asked>>
  PROVE  ClockInv'
<1>1. \A i \in IdSlots : Gone(i)' = Gone(i) /\ Behind(i)' = Behind(i) /\ Ending(i)' = Ending(i)
  BY StillCleaning DEF Gone, Behind, Visited, Ending
<1>2. \A i \in IdSlots : idLst'[i] # Null => SlotClock(i)'
  BY <1>1, SlotClockKept DEF ClockInv
<1> QED BY <1>2 DEF ClockInv

\* The cleanup callback of a query's listener is always called.
LEMMA CleanupStarts ==
  ASSUME IInv, LineInv, TableInv, NEW i \in IdSlots, NEW tbl, SameData(tbl),
         cleanup_id_listener(i, tbl, held)
  PROVE  idLst' = tbl /\ IF idLst[i] = Null THEN cl' = cl ELSE cl' = <<i>> \o cl
<1>1. tbl[i] = Null <=> idLst[i] = Null
  BY DEF SameData, SameSlots
<1>2. idLst[i] # Null => tbl[i].userdata # Null
  <2> SUFFICES ASSUME idLst[i] # Null PROVE tbl[i].userdata # Null
    OBVIOUS
  <2>1. tbl[i].userdata \in 1 .. asked
    BY DEF SameData, TableInv
  <2> QED BY <2>1, NullAssumption, SessionAssumption DEF LineInv
<1> QED BY <1>1, <1>2 DEF cleanup_id_listener

LEMMA QueryClock ==
  ASSUME IInv, AccInv, LineInv, TableInv, ClockInv, NEW t \in 1 .. MaxTimeout,
         NEW ft \in BOOLEAN, TF_Query(t, ft)
  PROVE  ClockInv'
<1>1. /\ asked' = asked + 1 /\ asked \in Nat /\ asked + 1 \in Queries
      /\ UNCHANGED <<typeLst, genericLst, rx, tick, cl, pend>>
      /\ \/ \E i \in IdSlots : QueryDoes(t, i)
         \/ idLst' = idLst /\ held' = held
  BY QueryIs
<1>2. /\ waited' = waited
      /\ early' = IF tick.pc = "idle" THEN early ELSE early \cup {asked + 1}
  BY <1>1 DEF TF_Query
<1>3. early \subseteq early' /\ early' \subseteq Queries
  BY <1>1, <1>2 DEF ClockInv
<1>4. \A q \in Queries : q > asked' => waited'[q] = 0
  BY <1>1, <1>2 DEF ClockInv, Queries
<1>5. \A i \in IdSlots : Behind(i)' = Behind(i) /\ (Ending(i) => Ending(i)')
  BY <1>1, StillCleaning DEF Behind, Visited, Ending
<1>6. ASSUME NEW i \in IdSlots, idLst'[i] # Null, idLst'[i] = idLst[i]
      PROVE  SlotClock(i)'
  <2>1. SlotClock(i)
    BY <1>6 DEF ClockInv
  <2> QED BY <1>2, <1>3, <1>5, <1>6, <2>1, SlotClockKept
<1>7. ASSUME NEW i \in IdSlots, QueryDoes(t, i) PROVE SlotClock(i)'
  <2>1. /\ idLst'[i].userdata = asked + 1 /\ idLst'[i].timeout = t /\ idLst'[i].timeout_max = t
        /\ t \in Nat /\ t # 0
    BY <1>7, SizeAssumption DEF QueryDoes
  <2>2. Gone(i)' = 0
    BY <2>1 DEF Gone
  <2>3. waited'[asked + 1] = 0
    BY <1>1, <1>2 DEF ClockInv
  <2>4. Behind(i)' = 0 \/ (Behind(i)' = 1 /\ asked + 1 \in early')
    BY <1>1, <1>2 DEF Behind, Visited
  <2> QED BY <2>1, <2>2, <2>3, <2>4 DEF SlotClock
<1>8. \A i \in IdSlots : idLst'[i] # Null => SlotClock(i)'
  BY <1>1, <1>6, <1>7 DEF QueryDoes
<1> QED BY <1>2, <1>3, <1>4, <1>8 DEF ClockInv

LEMMA ReturnClock ==
  ASSUME IInv, AccInv, LineInv, TableInv, ClockInv, NEW res \in Results, ListenerReturn(res)
  PROVE  ClockInv'
<1>1. PICK i \in IdSlots : ReturnDoes(res, i)
  BY ReturnIs
<1>2. /\ asked' = asked /\ UNCHANGED <<tick, cl>> /\ CleaningUp = {} /\ tick.pc = "idle"
      /\ idLst[i] # Null /\ idLst[i] \in IdListener
      /\ idLst[i].userdata = rx.userdata
      /\ \A j \in IdSlots : j # i => idLst'[j] = idLst[j]
  BY <1>1, NoneCleaning DEF ReturnDoes, ListenerReturn
<1>3. \A j \in IdSlots : Behind(j)' = Behind(j) /\ (Ending(j) => Ending(j)')
  BY <1>2, StillCleaning DEF Behind, Visited, Ending
<1>4. CASE res # "TF_RENEW"
  <2>1. waited' = waited /\ early' = early
    BY <1>4 DEF ListenerReturn, clock
  <2>2. \A j \in IdSlots : idLst'[j] # Null => idLst'[j] = idLst[j]
    BY <1>1, <1>4 DEF ReturnDoes
  <2>3. ASSUME NEW j \in IdSlots, idLst'[j] # Null PROVE SlotClock(j)'
    <3>1. idLst'[j] = idLst[j] /\ SlotClock(j)
      BY <2>2, <2>3 DEF ClockInv
    <3> QED BY <1>3, <2>1, <3>1, SlotClockKept
  <2> QED BY <1>2, <2>1, <2>3 DEF ClockInv
<1>5. CASE res = "TF_RENEW"
  <2> DEFINE u == rx.userdata
  <2>1. /\ waited' = [waited EXCEPT ![u] = 0] /\ early' = early \ {u}
        /\ idLst'[i] = [idLst[i] EXCEPT !.timeout = idLst[i].timeout_max]
    BY <1>1, <1>5 DEF ListenerReturn, ReturnDoes
  <2>2. /\ idLst[i].timeout \in 0 .. MaxTimeout /\ idLst[i].timeout_max \in 0 .. MaxTimeout
        /\ u \in Queries
    BY <1>2, SlotNumbers
  <2>3. /\ idLst'[i].timeout = idLst[i].timeout_max /\ idLst'[i].timeout_max = idLst[i].timeout_max
        /\ idLst'[i].userdata = u
    BY <1>2, <2>1 DEF IdListener
  <2>4. idLst[i].timeout_max # 0
    <3>1. idLst[i].timeout <= idLst[i].timeout_max /\ idLst[i].timeout # 0
      BY <1>2 DEF ClockInv, SlotClock, Ending
    <3> QED BY <2>2, <3>1, SizeAssumption
  <2>5. waited \in [Queries -> 0 .. MaxWaited] /\ 0 \in 0 .. MaxWaited
    BY SizeAssumption DEF ClockInv, MaxWaited
  <2>6. /\ waited'[u] = 0 /\ waited' \in [Queries -> 0 .. MaxWaited]
        /\ \A q \in Queries : q # u => waited'[q] = waited[q]
    BY <2>1, <2>2, <2>5
  <2>7. SlotClock(i)'
    <3>1. Gone(i)' = 0
      BY <2>2, <2>3, SizeAssumption DEF Gone
    <3>2. Behind(i)' = 0
      BY <1>2 DEF Behind, Visited
    <3> QED BY <2>2, <2>3, <2>4, <2>6, <3>1, <3>2, SizeAssumption DEF SlotClock
  <2>8. ASSUME NEW j \in IdSlots, j # i, idLst'[j] # Null PROVE SlotClock(j)'
    <3>1. idLst'[j] = idLst[j] /\ SlotClock(j) /\ idLst[j].userdata \in Queries
      BY <1>2, <2>8, SlotNumbers DEF ClockInv
    <3>2. idLst[j].userdata # u
      BY <1>2, <2>8, <3>1, LiveIsHeld
    <3>3. /\ waited'[idLst[j].userdata] = waited[idLst[j].userdata]
          /\ idLst[j].userdata \in early => idLst[j].userdata \in early'
      BY <2>1, <2>6, <3>1, <3>2
    <3> QED BY <1>3, <3>1, <3>3, SlotClockKept
  <2>9. \A q \in Queries : q > asked' => waited'[q] = 0
    BY <1>2, <2>6 DEF ClockInv
  <2>10. early' \subseteq Queries
    BY <2>1 DEF ClockInv
  <2> QED BY <2>6, <2>7, <2>8, <2>9, <2>10 DEF ClockInv
<1> QED BY <1>4, <1>5

\* A tick begins: every query has waited for one more, and all slots are behind.
LEMMA TickClock ==
  ASSUME IInv, AccInv, LineInv, TableInv, ClockInv, Tick
  PROVE  ClockInv'
<1>1. /\ UNCHANGED <<idLst, cl, asked, early>> /\ cl = <<>> /\ tick.pc = "idle"
      /\ tick' = [pc |-> "scan", i |-> 0]
      /\ waited' = [q \in Queries |-> IF q \notin held THEN 0
                      ELSE IF waited[q] < MaxWaited THEN waited[q] + 1 ELSE MaxWaited]
  BY DEF Tick, TF_Tick, tables, quiet
<1>2. MaxWaited = MaxTimeout + 1 /\ MaxWaited \in Nat /\ MaxTimeout \in Nat
  BY SizeAssumption DEF MaxWaited
<1>3. waited' \in [Queries -> 0 .. MaxWaited]
  <2>1. \A q \in Queries : waited[q] \in 0 .. MaxWaited
    BY DEF ClockInv
  <2> QED BY <1>1, <1>2, <2>1
<1>4. \A q \in Queries : q > asked' => waited'[q] = 0
  <2>1. held \subseteq 1 .. asked /\ asked \in Nat
    BY HeldAsked, SessionAssumption DEF LineInv
  <2> QED BY <1>1, <2>1 DEF Queries
<1>5. ASSUME NEW i \in IdSlots, idLst'[i] # Null PROVE SlotClock(i)'
  <2> DEFINE q == idLst[i].userdata
  <2>1. /\ idLst[i].timeout \in 0 .. MaxTimeout /\ idLst[i].timeout_max \in 0 .. MaxTimeout
        /\ q \in Queries /\ waited[q] \in 0 .. MaxWaited /\ i \in Nat /\ idLst[i] # Null
    BY <1>1, <1>5, SlotNumbers
  <2>2. i \notin CleaningUp /\ ~Ending(i) /\ Behind(i) = 0
    BY <1>1, NoneCleaning DEF Ending, Behind, Visited
  <2>3. q \in held
    BY <2>1, <2>2, LiveIsHeld
  <2>4. SlotClock(i)
    BY <2>1 DEF ClockInv
  <2>5. Behind(i)' = 1
    BY <1>1, <2>1 DEF Behind, Visited
  <2>6. Gone(i)' = Gone(i) /\ Gone(i) = idLst[i].timeout_max - idLst[i].timeout
    BY <1>1 DEF Gone
  <2>7. /\ Gone(i) = waited[q] \/ (q \in early /\ Gone(i) = waited[q] + 1)
        /\ idLst[i].timeout <= idLst[i].timeout_max /\ idLst[i].timeout # 0
        /\ Gone(i) \in Nat /\ Gone(i) <= MaxTimeout
    BY <1>2, <2>1, <2>2, <2>4, <2>6 DEF SlotClock
  <2>8. waited'[q] = waited[q] + 1
    BY <1>1, <1>2, <2>1, <2>3, <2>7
  <2> HIDE DEF q
  <2>9. Gone(i)' + 1 = waited'[q] \/ (q \in early' /\ Gone(i)' + 1 = waited'[q] + 1)
    BY <1>1, <2>1, <2>6, <2>7, <2>8
  <2>10. idLst'[i] = idLst[i] /\ idLst'[i].userdata = q
    BY <1>1 DEF q
  <2> QED BY <2>5, <2>7, <2>9, <2>10 DEF SlotClock
<1> QED BY <1>1, <1>3, <1>4, <1>5 DEF ClockInv

\* The loop of a tick comes to slot "to": the slots up to it are counted down,
\* and none of those before it expires.
LEMMA AgedClock ==
  ASSUME IInv, AccInv, LineInv, TableInv, ClockInv, UNCHANGED <<waited, early, asked>>,
         tick.pc = "scan", cl = <<>>, NEW to \in Nat, idLst' = Aged(tick.i, to),
         \A j \in Due : to <= j,
         to \in IdSlots => Ending(to)' \/ idLst[to] = Null,
         \A i \in IdSlots : Visited(i)' <=> i < tick.i \/ i <= to
  PROVE  ClockInv'
<1>1. ASSUME NEW i \in IdSlots, idLst'[i] # Null PROVE SlotClock(i)'
  <2> DEFINE a == idLst[i]
             q == a.userdata
  <2>0. a # Null /\ tick.i \in Nat /\ i \in Nat
    <3>1. tick.i \in Nat /\ i \in Nat /\ TypeOK
      BY SizeAssumption DEF IInv, TypeOK, IdSlots
    <3> QED BY <1>1, <3>1, AgedKeepsSlots
  <2>1. /\ a \in IdListener /\ a.timeout \in 0 .. MaxTimeout /\ a.timeout_max \in 0 .. MaxTimeout
        /\ q \in Queries /\ waited[q] \in 0 .. MaxWaited
    BY <2>0, SlotNumbers
  <2>2. ~Ending(i) /\ SlotClock(i) /\ i < countId
    BY <2>0, NoneCleaning DEF Ending, ClockInv, IInv, CountsCoverLive, Covers, TypeOK
  <2>3. /\ Gone(i) + Behind(i) = waited[q] \/ (q \in early /\ Gone(i) + Behind(i) = waited[q] + 1)
        /\ a.timeout <= a.timeout_max /\ a.timeout # 0 /\ Gone(i) = a.timeout_max - a.timeout
    BY <2>2 DEF SlotClock, Gone
  <2>4. Behind(i) = IF i < tick.i THEN 0 ELSE 1
    BY DEF Behind, Visited
  <2>5. Behind(i)' = IF i < tick.i \/ i <= to THEN 0 ELSE 1
    BY DEF Behind
  <2>6. CASE tick.i <= i /\ i <= to
    <3>1. idLst'[i] = [a EXCEPT !.timeout = a.timeout - 1]
      BY <2>0, <2>2, <2>3, <2>6 DEF Aged
    <3>2. /\ idLst'[i].timeout = a.timeout - 1 /\ idLst'[i].timeout_max = a.timeout_max
          /\ idLst'[i].userdata = q
      BY <2>1, <3>1 DEF IdListener
    <3>3. Gone(i)' = Gone(i) + 1
      BY <2>1, <2>3, <3>2, SizeAssumption DEF Gone
    <3>4. Behind(i)' = 0 /\ Behind(i) = 1
      BY <2>0, <2>4, <2>5, <2>6
    <3>5. a.timeout - 1 = 0 => Ending(i)'
      <4> SUFFICES ASSUME a.timeout = 1 PROVE Ending(i)'
        BY <2>1, SizeAssumption
      <4>1. i \in Due
        BY <2>0, <2>2, <2>6 DEF Due
      <4>2. i = to
        BY <2>0, <2>6, <4>1
      <4> QED BY <2>0, <4>2
    <3>6. a.timeout - 1 <= a.timeout_max
      BY <2>1, <2>3, SizeAssumption
    <3>7. Gone(i) \in Nat
      BY <2>1, <2>3, SizeAssumption
    <3>8. Gone(i)' + Behind(i)' = Gone(i) + Behind(i)
      BY <3>3, <3>4, <3>7
    <3> HIDE DEF a, q
    <3> QED BY <2>3, <3>2, <3>5, <3>6, <3>8 DEF SlotClock
  <2>7. CASE ~(tick.i <= i /\ i <= to)
    <3>1. idLst'[i] = idLst[i]
      BY <2>7 DEF Aged
    <3>2. Behind(i)' = Behind(i)
      BY <2>0, <2>4, <2>5, <2>7
    <3> QED BY <2>2, <3>1, <3>2, SlotClockKept
  <2> QED BY <2>6, <2>7
<1> QED BY <1>1 DEF ClockInv

\* A step that only moves the tick or the cleanup on.
LEMMA MovedClock ==
  ASSUME ClockInv, UNCHANGED <<waited, early, asked>>,
         \A i \in IdSlots : idLst'[i] # Null =>
           idLst'[i] = idLst[i] /\ Behind(i)' = Behind(i) /\ (Ending(i) => Ending(i)')
  PROVE  ClockInv'
<1>1. ASSUME NEW i \in IdSlots, idLst'[i] # Null PROVE SlotClock(i)'
  <2>1. /\ idLst'[i] = idLst[i] /\ Behind(i)' = Behind(i) /\ (Ending(i) => Ending(i)')
        /\ SlotClock(i)
    BY <1>1 DEF ClockInv
  <2> QED BY <2>1, SlotClockKept
<1> QED BY <1>1 DEF ClockInv

LEMMA TickStepClock ==
  ASSUME IInv, AccInv, LineInv, TableInv, ClockInv, TickStep
  PROVE  ClockInv'
<1>0. /\ UNCHANGED <<waited, early, asked>> /\ TypeOK /\ tick.i \in Nat /\ NumId \in Nat
      /\ SameData(idLst)
      /\ \A i \in IdSlots : i \in Nat /\ i <= NumId
      /\ tick.pc = "timeout" => tick.i \in IdSlots
  BY SizeAssumption
     DEF TickStep, quiet, clock, IInv, TypeOK, IdSlots, SameData, SameSlots, IdTable
<1>1. CASE TickExpire
  <2>1. PICK j \in IdSlots :
          /\ IsFirst(j, Due)
          /\ IF idLst[j].fn_timeout
             THEN /\ idLst' = Aged(tick.i, j)
                  /\ tick' = [pc |-> "timeout", i |-> j]
             ELSE /\ cleanup_id_listener(j, Aged(tick.i, j), held)
                  /\ tick' = [pc |-> "scan", i |-> j + 1]
    BY <1>1 DEF TickExpire
  <2>2. tick.pc = "scan" /\ cl = <<>> /\ j \in Nat
    BY <1>0, <1>1 DEF TickExpire
  <2>3. j \in Due /\ (\A k \in Due : j <= k) /\ idLst[j] # Null /\ tick.i <= j
    BY <2>1 DEF IsFirst, Due
  <2>4. SameData(Aged(tick.i, j))
    BY <1>0, <2>2, AgedKeepsData
  <2>5. /\ idLst' = Aged(tick.i, j) /\ Ending(j)'
        /\ \A i \in IdSlots : Visited(i)' <=> i < tick.i \/ i <= j
    <3>1. CASE idLst[j].fn_timeout
      <4>1. idLst' = Aged(tick.i, j) /\ tick'.pc = "timeout" /\ tick'.i = j
        BY <2>1, <3>1
      <4> QED BY <1>0, <2>2, <2>3, <4>1 DEF Ending, Visited
    <3>2. CASE ~idLst[j].fn_timeout
      <4>1. idLst' = Aged(tick.i, j) /\ cl' = <<j>> \o cl
        BY <2>1, <2>3, <2>4, <3>2, CleanupStarts
      <4>3. j \in CleaningUp'
        BY <1>0, <4>1, CleanupCalled
      <4>2. tick'.pc = "scan" /\ tick'.i = j + 1
        BY <2>1, <3>2
      <4> QED BY <1>0, <2>2, <2>3, <4>1, <4>2, <4>3 DEF Ending, Visited
    <3> QED BY <3>1, <3>2
  <2> QED BY <1>0, <2>2, <2>3, <2>5, AgedClock
<1>2. CASE TickEnd
  <2>1. /\ tick.pc = "scan" /\ cl = <<>> /\ Due = {} /\ idLst' = Aged(tick.i, NumId)
        /\ tick'.pc = "idle"
    BY <1>2 DEF TickEnd, IdleTick
  <2>2. \A i \in IdSlots : Visited(i)' <=> i < tick.i \/ i <= NumId
    BY <1>0, <2>1 DEF Visited
  <2>3. NumId \notin IdSlots
    BY SizeAssumption DEF IdSlots
  <2> QED BY <1>0, <2>1, <2>2, <2>3, AgedClock
<1>3. CASE TimeoutReturn
  <2>1. /\ tick.pc = "timeout" /\ tick.i \in IdSlots /\ CleaningUp = {}
        /\ cleanup_id_listener(tick.i, idLst, held)
        /\ tick'.pc = "scan" /\ tick'.i = tick.i + 1
    BY <1>0, <1>3, NoneCleaning DEF TimeoutReturn
  <2>2. idLst' = idLst /\ (idLst[tick.i] # Null => tick.i \in CleaningUp')
    BY <1>0, <2>1, CleanupStarts, CleanupCalled
  <2>3. \A i \in IdSlots : Behind(i)' = Behind(i)
    BY <1>0, <2>1 DEF Behind, Visited
  <2>4. \A i \in IdSlots : idLst'[i] # Null => (Ending(i) => Ending(i)')
    BY <1>0, <2>1, <2>2 DEF Ending
  <2> QED BY <1>0, <2>2, <2>3, <2>4, MovedClock
<1> QED BY <1>1, <1>2, <1>3 DEF TickStep

LEMMA CleanedClock ==
  ASSUME IInv, AccInv, LineInv, TableInv, ClockInv, Cleaned \/ Removed
  PROVE  ClockInv'
<1>0. UNCHANGED <<waited, early, asked>> /\ SameData(idLst) /\ TypeOK
  BY DEF Cleaned, Removed, quiet, clock, IInv, TypeOK, SameData, SameSlots, IdTable
<1>1. CASE Cleaned
  <2>1. Head(cl) \in IdSlots /\ CleaningUp = CleaningUp' \cup {Head(cl)}
    BY <1>0, <1>1, CleanupReturns DEF Cleaned, CleanupReturn
  <2>2. /\ idLst'[Head(cl)] = Null
        /\ \A j \in IdSlots : j # Head(cl) => idLst'[j] = idLst[j]
        /\ tick' = tick
    BY <1>1, <2>1 DEF Cleaned, CleanupReturn, IInv, TypeOK
  <2>3. \A i \in IdSlots :
          Behind(i)' = Behind(i) /\ (i # Head(cl) => (Ending(i) => Ending(i)'))
    BY <2>1, <2>2 DEF Behind, Visited, Ending
  <2> QED BY <1>0, <2>2, <2>3, MovedClock
<1>2. CASE Removed
  <2>1. PICK id \in Ids : TF_RemoveIdListener(id)
    BY <1>2 DEF Removed
  <2>2. PICK i \in IdSlots : cleanup_id_listener(i, idLst, held)
    BY <2>1 DEF TF_RemoveIdListener
  <2>3. tick' = tick
    BY <2>1 DEF TF_RemoveIdListener
  <2>4. idLst' = idLst /\ CleaningUp \subseteq CleaningUp'
    BY <1>0, <2>2, CleanupStarts, CleanupCalled, StillCleaning
  <2>5. \A j \in IdSlots : Behind(j)' = Behind(j) /\ (Ending(j) => Ending(j)')
    BY <2>3, <2>4 DEF Behind, Visited, Ending
  <2> QED BY <1>0, <2>4, <2>5, MovedClock
<1> QED BY <1>1, <1>2

-----------------------------------------------------------------------------
(* The session as a whole. *)

LEMMA InitSInv == SInit => SInv
<1> SUFFICES ASSUME SInit PROVE SInv
  OBVIOUS
<1>1. IInv /\ AccInv
  BY InitIInv, InitAccInv DEF SInit
<1>2. LineInv
  <2>1. 0 % IdMod = 0
    BY SessionAssumption
  <2> QED BY <2>1, SessionAssumption DEF SInit, LineInv
<1>3. TableInv /\ \A i \in IdSlots : idLst[i] = Null
  BY DEF SInit, Init, TableInv
<1>4. rx.pc = "idle"
  BY DEF SInit, Init, IdleRx
<1>5. DispatchInv /\ OwedInv /\ DroppedIsLate
  BY <1>4 DEF DispatchInv, OwedInv, DroppedIsLate
<1>6. AnswerIsOwn
  BY DEF SInit, AnswerIsOwn
<1>7. ClockInv
  <2>1. 0 \in 0 .. MaxWaited
    BY SizeAssumption DEF MaxWaited
  <2> QED BY <1>3, <2>1 DEF SInit, ClockInv
<1> QED BY <1>1, <1>2, <1>3, <1>5, <1>6, <1>7 DEF SInv

LEMMA NextFlow ==
  ASSUME IInv, AccInv, FlowInv, IInv', SNext
  PROVE  FlowInv'
<1>1. ASSUME NEW t \in 1 .. MaxTimeout, NEW ft \in BOOLEAN, TF_Query(t, ft) PROVE FlowInv'
  BY <1>1, QueryFlow
<1>2. CASE (\E last \in BOOLEAN : TF_Respond(last)) \/ LoseRequest \/ LoseReply \/ Dropped
  BY <1>2, LineFlow
<1>3. ASSUME NEW type \in Types, Receive(type) PROVE FlowInv'
  BY <1>3, ReceiveFlow
<1>4. ASSUME NEW res \in Results, ListenerReturn(res) PROVE FlowInv'
  BY <1>4, ReturnFlow
<1>5. CASE Tick \/ TickStep \/ Cleaned \/ Removed
  BY <1>5, QuietFlow
<1> QED BY <1>1, <1>2, <1>3, <1>4, <1>5 DEF SNext

LEMMA NextClock ==
  ASSUME IInv, AccInv, LineInv, TableInv, ClockInv, SNext
  PROVE  ClockInv'
<1>1. ASSUME NEW t \in 1 .. MaxTimeout, NEW ft \in BOOLEAN, TF_Query(t, ft) PROVE ClockInv'
  BY <1>1, QueryClock
<1>2. CASE \/ \E last \in BOOLEAN : TF_Respond(last)
           \/ LoseRequest \/ LoseReply \/ Dropped
           \/ \E type \in Types : Receive(type)
  <2>1. UNCHANGED <<idLst, tick, cl, waited, early, asked>>
    BY <1>2 DEF TF_Respond, LoseRequest, LoseReply, Dropped, Unhandled, Receive,
                TF_HandleReceivedMessage, vars, tables, clock
  <2> QED BY <2>1, StillClock
<1>3. ASSUME NEW res \in Results, ListenerReturn(res) PROVE ClockInv'
  BY <1>3, ReturnClock
<1>4. CASE Tick
  BY <1>4, TickClock
<1>5. CASE TickStep
  BY <1>5, TickStepClock
<1>6. CASE Cleaned \/ Removed
  BY <1>6, CleanedClock
<1> QED BY <1>1, <1>2, <1>3, <1>4, <1>5, <1>6 DEF SNext

LEMMA NextSInv ==
  ASSUME Calm, SInv, [SNext]_sVars
  PROVE  SInv'
<1>1. CASE SNext
  <2>1. IInv /\ AccInv /\ FlowInv /\ ClockInv /\ LineInv /\ TableInv
    BY DEF SInv, FlowInv
  <2>2. [Next]_vars
    BY <1>1, <2>1, StepIsNext
  <2>3. IInv'
    BY <2>1, <2>2, NextIInv
  <2>4. AccInv'
    BY <2>1, <2>2, NextAccInv
  <2>5. FlowInv'
    BY <1>1, <2>1, <2>3, NextFlow
  <2>6. ClockInv'
    BY <1>1, <2>1, NextClock
  <2> QED BY <2>3, <2>4, <2>5, <2>6 DEF SInv, FlowInv
<1>2. CASE UNCHANGED sVars
  <2>1. UNCHANGED <<vars, next_id, asked, request, reply, about, heard, waited, early>>
    BY <1>2 DEF sVars, line, clock
  <2>2. IInv' /\ AccInv'
    <3>1. UNCHANGED vars
      BY <2>1
    <3>2. IInv /\ AccInv
      BY DEF SInv
    <3> QED BY <3>1, <3>2, NextIInv, NextAccInv
  <2>3. UNCHANGED <<idLst, typeLst, genericLst, rx, tick, cl, held, pend>>
    BY <2>1 DEF vars, tables
  <2>4. LineInv' /\ TableInv' /\ DispatchInv' /\ AnswerIsOwn' /\ OwedInv' /\ DroppedIsLate'
    BY <2>1, <2>3, StillCleaning
       DEF SInv, LineInv, TableInv, DispatchInv, AnswerIsOwn, OwedInv, DroppedIsLate,
           FramesTo, IdOf
  <2>5. ClockInv'
    BY <2>1, <2>3, StillClock DEF SInv
  <2> QED BY <2>2, <2>4, <2>5 DEF SInv
<1> QED BY <1>1, <1>2

LEMMA SessionInvariance == ASSUME Calm PROVE SSpec => []SInv
<1>1. SInv /\ [SNext]_sVars => SInv'
  BY NextSInv
<1> QED BY <1>1, InitSInv, PTL DEF SSpec

\* Whatever is lost, delayed or sent twice, and whatever its callbacks and the
\* ticks do to the tables meanwhile, a query's listener is called with answers
\* to that query only, or to one that is at least a full round of IDs away.
THEOREM AnswersAreOwn == ASSUME Calm PROVE SSpec => []AnswerIsOwn
<1>1. SInv => AnswerIsOwn
  BY DEF SInv
<1> QED BY <1>1, SessionInvariance, PTL

\* An answer ends in "Unhandled message" only when its query is over or its
\* listener has been called with it and has passed it on.
THEOREM DropsAreLate == ASSUME Calm PROVE SSpec => []DroppedIsLate
<1>1. SInv => DroppedIsLate
  BY DEF SInv
<1> QED BY <1>1, SessionInvariance, PTL

\* TF_Tick counts every query down once in every tick from the one after it was
\* made or renewed, although the loop is suspended at callbacks that fill and
\* empty slots on either side of it.
THEOREM TimeoutsCount == ASSUME Calm PROVE SSpec => []TimeoutCounts
<1>1. SInv => TimeoutCounts
  <2> SUFFICES ASSUME SInv, tick.pc = "idle", NEW i \in IdSlots, idLst[i] # Null
               PROVE  LET q == idLst[i].userdata
                          gone == idLst[i].timeout_max - idLst[i].timeout
                      IN  gone = waited[q] \/ (q \in early /\ gone = waited[q] + 1)
    BY DEF TimeoutCounts
  <2>1. SlotClock(i) /\ Behind(i) = 0
    BY DEF SInv, ClockInv, Behind, Visited
  <2>2. idLst[i].timeout \in Nat /\ idLst[i].timeout_max \in Nat
    BY SlotNumbers, SizeAssumption DEF SInv
  <2> QED BY <2>1, <2>2 DEF SlotClock, Gone
<1> QED BY <1>1, SessionInvariance, PTL

-----------------------------------------------------------------------------
(* Every step of a session is a step of RequestReply or none. *)

\* A query that has been accepted has not been asked before.
LEMMA QueryAsks ==
  ASSUME SInv, NEW t \in 1 .. MaxTimeout, NEW ft \in BOOLEAN, TF_Query(t, ft)
  PROVE  RR!Ask
<1>1. /\ asked' = asked + 1
      /\ \/ \E i \in IdSlots : QueryDoes(t, i)
         \/ idLst' = idLst /\ held' = held
  BY QueryIs DEF SInv
<1>2. heard' = heard
  BY DEF TF_Query
<1>3. held' = held \/ held' = held \cup {asked'}
  BY <1>1 DEF QueryDoes
<1> QED BY <1>1, <1>2, <1>3 DEF RR!Ask

\* The listener that is called next is that of an open query.
LEMMA ToldAnswers ==
  ASSUME SInv, cl = <<>>, NEW a \in 1 .. asked, Told(a), UNCHANGED <<asked, held>>,
         \/ rx'.pc = "unhandled"
         \/ \E i \in IdSlots : idLst[i] # Null /\ rx'.userdata = idLst[i].userdata
  PROVE  RR!RRNext \/ UNCHANGED RR!rrVars
<1>1. CASE rx'.pc # "callback"
  BY <1>1 DEF Told, RR!rrVars
<1>2. CASE rx'.pc = "callback"
  <2>1. PICK i \in IdSlots : idLst[i] # Null /\ rx'.userdata = idLst[i].userdata
    BY <1>2
  <2>2. i \notin CleaningUp
    BY NoneCleaning
  <2>3. rx'.userdata \in held
    BY <2>1, <2>2, LiveIsHeld DEF SInv
  <2>4. rx'.userdata \in 1 .. asked /\ asked \in 0 .. MaxQueries
    BY <2>1 DEF SInv, TableInv, LineInv
  <2>5. rx'.userdata \in RR!Queries /\ a \in RR!Queries
    BY <2>4, SessionAssumption DEF RR!Queries
  <2>6. RR!Answer(rx'.userdata, a)
    BY <1>2, <2>3 DEF RR!Answer, Told
  <2> QED BY <2>5, <2>6 DEF RR!RRNext
<1> QED BY <1>1, <1>2

LEMMA EndsOver ==
  ASSUME SInv, NEW q \in held, held' = held \ {q}, UNCHANGED <<asked, heard>>
  PROVE  RR!RRNext
<1>1. q \in 1 .. asked /\ asked \in 0 .. MaxQueries
  BY HeldAsked DEF SInv, LineInv
<1>2. q \in RR!Queries
  BY <1>1, SessionAssumption DEF RR!Queries
<1>3. RR!Over(q)
  BY DEF RR!Over
<1> QED BY <1>2, <1>3 DEF RR!RRNext

LEMMA ReturnSteps ==
  ASSUME SInv, NEW res \in Results, ListenerReturn(res)
  PROVE  RR!RRNext \/ UNCHANGED RR!rrVars
<1>1. PICK i \in IdSlots : ReturnDoes(res, i)
  BY ReturnIs DEF SInv
<1>2. asked' = asked /\ cl = <<>>
  BY <1>1 DEF ListenerReturn, ReturnDoes
<1>3. CASE res = "TF_NEXT"
  <2>1. Told(about) /\ held' = held /\ OfferNext /\ rx.pc = "callback"
    BY <1>1, <1>3 DEF ReturnDoes, ListenerReturn
  <2>2. about \in 1 .. asked
    BY <2>1 DEF SInv, DispatchInv
  <2>3. /\ rx.id \in Ids /\ rx.type \in Types
    BY <2>1 DEF SInv, IInv, TypeOK
  <2>4. \/ rx'.pc = "unhandled"
        \/ \E j \in IdSlots : idLst[j] # Null /\ rx'.userdata = idLst[j].userdata
    <3> DEFINE rest == {c \in Matching(rx.id, rx.type) : Before(rx.at, c)}
    <3>1. rest \in SUBSET Matching(rx.id, rx.type) /\ Offer(rest, rx.id, rx.type, pend)
      BY <2>1 DEF OfferNext
    <3> HIDE DEF rest
    <3>2. IInv /\ TableInv
      BY DEF SInv
    <3> QED BY <2>3, <3>1, <3>2, OfferedIsQuery
  <2> QED BY <1>2, <2>1, <2>2, <2>4, ToldAnswers
<1>4. CASE res # "TF_NEXT" /\ res # "TF_CLOSE"
  BY <1>1, <1>2, <1>4 DEF ReturnDoes, ListenerReturn, RR!rrVars
<1>5. CASE res = "TF_CLOSE"
  <2>1. rx.userdata \in held /\ held' = held \ {rx.userdata} /\ heard' = heard
    BY <1>1, <1>5 DEF ReturnDoes, ListenerReturn
  <2> QED BY <1>2, <2>1, EndsOver
<1> QED BY <1>3, <1>4, <1>5

LEMMA ReceiveSteps ==
  ASSUME SInv, NEW type \in Types, Receive(type)
  PROVE  RR!RRNext \/ UNCHANGED RR!rrVars
<1> DEFINE f == Head(reply)
<1>1. f.id \in Ids /\ f.query \in 1 .. asked
  BY DEF Receive, SInv, LineInv, FramesTo
<1>2. /\ Told(f.query) /\ UNCHANGED <<asked, held>> /\ cl = <<>>
      /\ Offer(Matching(f.id, type), f.id, type, Live(f.id, type))
  BY DEF Receive, TF_HandleReceivedMessage
<1> HIDE DEF f
<1>3. \/ rx'.pc = "unhandled"
      \/ \E j \in IdSlots : idLst[j] # Null /\ rx'.userdata = idLst[j].userdata
  <2>1. IInv /\ TableInv
    BY DEF SInv
  <2> QED BY <1>1, <1>2, <2>1, OfferedIsQuery
<1> QED BY <1>1, <1>2, <1>3, ToldAnswers

LEMMA SessionSteps ==
  ASSUME SInv, [SNext]_sVars
  PROVE  RR!RRNext \/ UNCHANGED RR!rrVars
<1>1. ASSUME NEW t \in 1 .. MaxTimeout, NEW ft \in BOOLEAN, TF_Query(t, ft) PROVE RR!RRNext
  BY <1>1, QueryAsks DEF RR!RRNext
<1>2. CASE \/ \E last \in BOOLEAN : TF_Respond(last)
           \/ LoseRequest \/ LoseReply \/ Dropped \/ UNCHANGED sVars
  BY <1>2 DEF TF_Respond, LoseRequest, LoseReply, Dropped, Unhandled, sVars, vars, RR!rrVars
<1>3. ASSUME NEW type \in Types, Receive(type) PROVE RR!RRNext \/ UNCHANGED RR!rrVars
  BY <1>3, ReceiveSteps
<1>4. ASSUME NEW res \in Results, ListenerReturn(res) PROVE RR!RRNext \/ UNCHANGED RR!rrVars
  BY <1>4, ReturnSteps
<1>5. CASE Tick \/ TickStep \/ Cleaned \/ Removed
  <2>1. TableKept /\ UNCHANGED <<asked, heard>>
    BY <1>5, QuietKept DEF SInv, quiet
  <2>2. CASE held' = held
    BY <2>1, <2>2 DEF RR!rrVars
  <2>3. ASSUME NEW q \in held, held' = held \ {q} PROVE RR!RRNext
    BY <2>1, <2>3, EndsOver
  <2> QED BY <2>1, <2>2, <2>3 DEF TableKept
<1> QED BY <1>1, <1>2, <1>3, <1>4, <1>5 DEF SNext

\* TF_Query with its listener, timeout and cleanup implements RequestReply: a
\* query is refused or becomes open, is answered only while it is open, and
\* ends once.
THEOREM SessionIsRequestReply == ASSUME Calm PROVE SSpec => ImplementsRequestReply
<1>1. SInit => RR!RRInit
  BY DEF SInit, Init, RR!RRInit, RR!Queries, Queries
<1>2. SInv /\ [SNext]_sVars => [RR!RRNext]_RR!rrVars
  BY SessionSteps
<1> QED BY <1>1, <1>2, SessionInvariance, PTL DEF SSpec, ImplementsRequestReply, RR!RRSpec
=============================================================================
