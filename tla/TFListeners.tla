---------------------------- MODULE TFListeners ----------------------------
(***************************************************************************)
(* The listener tables of TinyFrame (tf_demo/TinyFrame.c): the ID, type    *)
(* and generic listeners, the dispatch of a received message over them     *)
(* (TF_HandleReceivedMessage) and the expiry of ID listeners (TF_Tick).    *)
(*                                                                         *)
(* Listeners are user callbacks and may call back into the API, so a       *)
(* dispatch or a tick is not atomic: it is suspended at every callback     *)
(* (rx, tick and cl record where) and the user's calls happen there.       *)
(* Callbacks do not ask for their own end: no listener is removed while it *)
(* is told to clean up, which would tell it again without end, and, unless *)
(* SelfRemove, none while it handles a message or its timeout.             *)
(*                                                                         *)
(* Abstractions: a slot whose fn is NULL is Null, because no other field   *)
(* of such a slot is read before TF_AddIdListener has overwritten it; the  *)
(* pair userdata/userdata2 is one token; a failing call (table full,       *)
(* nothing found) changes nothing and is no step.                          *)
(***************************************************************************)
EXTENDS Naturals, Sequences

CONSTANTS
  NumId, NumType, NumGeneric,  \* TF_MAX_ID_LST, TF_MAX_TYPE_LST, TF_MAX_GEN_LST
  Ids, Types, Callbacks,       \* frame IDs, frame types, generic callbacks
  Userdata,                    \* the objects a user can hang on an ID listener
  Null,                        \* the NULL pointer
  MaxTimeout,                  \* the largest timeout a listener is given
  TickPreempts,                \* TF_Tick runs in an interrupt handler
  SelfRemove                   \* a callback may remove the listener it runs for

ASSUME SizeAssumption == /\ NumId \in Nat
                         /\ NumType \in Nat
                         /\ NumGeneric \in Nat
                         /\ MaxTimeout \in Nat
ASSUME ModeAssumption == TickPreempts \in BOOLEAN /\ SelfRemove \in BOOLEAN

IdSlots == 0 .. NumId - 1
TypeSlots == 0 .. NumType - 1
GenericSlots == 0 .. NumGeneric - 1

\* A used slot of id_listeners.
IdListener == [id : Ids, userdata : Userdata \cup {Null},
               timeout : 0 .. MaxTimeout, timeout_max : 0 .. MaxTimeout,
               fn_timeout : BOOLEAN]

ASSUME NullAssumption == Null \notin IdListener \cup Types \cup Callbacks \cup Userdata

\* TF_Result, what a listener returns.
Results == {"TF_NEXT", "TF_STAY", "TF_RENEW", "TF_CLOSE"}

VARIABLES
  idLst, countId,            \* id_listeners, count_id_lst
  typeLst, countType,        \* type_listeners, count_type_lst
  genericLst, countGeneric,  \* generic_listeners, count_generic_lst
  rx,    \* the dispatch in progress: the message, and the listener it is at
  tick,  \* the TF_Tick in progress: the slot it is at
  cl,    \* the slots whose callbacks run with data == NULL, each called from
         \* within the next
  held,  \* history: userdata registered and not yet given back to the user
  pend   \* history: listeners that matched the message when its dispatch
         \* began, are still there, and have not been offered it

tables == <<idLst, countId, typeLst, countType, genericLst, countGeneric>>
vars == <<tables, rx, tick, cl, held, pend>>

IdleRx == [pc |-> "idle", id |-> Null, type |-> Null, at |-> <<0, 0>>,
           userdata |-> Null]
IdleTick == [pc |-> "idle", i |-> 0]

Init ==
  /\ idLst = [i \in IdSlots |-> Null] /\ countId = 0
  /\ typeLst = [i \in TypeSlots |-> Null] /\ countType = 0
  /\ genericLst = [i \in GenericSlots |-> Null] /\ countGeneric = 0
  /\ rx = IdleRx /\ tick = IdleTick /\ cl = <<>>
  /\ held = {} /\ pend = {}

-----------------------------------------------------------------------------
\* i is the slot a "for (i = 0; ...)" loop stops at when it looks for S.
IsFirst(i, S) == i \in S /\ \A j \in S : i <= j

Free(tbl) == {i \in DOMAIN tbl : tbl[i] = Null}

\* Mutant: the count shrinks whatever slot went.
CountAlwaysEmptied(i, count) == IF count > 0 THEN count - 1 ELSE 0

\* count_*_lst after slot i was filled, and after it was emptied.
CountFilled(i, count) == IF i >= count THEN i + 1 ELSE count
CountEmptied(i, count) == IF i + 1 = count THEN i ELSE count

\* ID listeners the bounded loops of Remove and Renew find.
IdFound(id) == {i \in IdSlots : i < countId /\ idLst[i] # Null /\ idLst[i].id = id}

\* User code is running: at top level, or in a callback.
UserRuns == \/ cl # <<>>
            \/ tick.pc = "timeout"
            \/ tick.pc = "idle" /\ rx.pc \in {"idle", "callback"}

\* The ID slots a callback is running for.
Running == (IF rx.pc = "callback" /\ rx.at[1] = 1 THEN {rx.at[2]} ELSE {})
             \cup (IF tick.pc = "timeout" THEN {tick.i} ELSE {})

\* The ID slots whose callbacks have been told to clean up.
CleaningUp == {cl[k] : k \in DOMAIN cl}

\* Mutant: the slot is emptied and its callback never told.
CleanupUntold(i, tbl, h) ==
  /\ idLst' = [tbl EXCEPT ![i] = Null]
  /\ countId' = CountEmptied(i, countId)
  /\ pend' = pend \ {<<1, i>>}
  /\ held' = h
  /\ UNCHANGED cl

\* cleanup_id_listener on slot i of the table tbl, with h registered. A
\* listener with userdata is first called with data == NULL (cl): the user
\* takes the userdata back, and the slot is emptied when it returns.
cleanup_id_listener(i, tbl, h) ==
  \/ /\ tbl[i] = Null
     /\ idLst' = tbl /\ held' = h
     /\ UNCHANGED <<countId, cl, pend>>
  \/ /\ tbl[i] # Null /\ tbl[i].userdata # Null
     /\ idLst' = tbl /\ cl' = <<i>> \o cl /\ held' = h \ {tbl[i].userdata}
     /\ UNCHANGED <<countId, pend>>
  \/ /\ tbl[i] # Null /\ tbl[i].userdata = Null
     /\ idLst' = [tbl EXCEPT ![i] = Null]
     /\ countId' = CountEmptied(i, countId)
     /\ pend' = pend \ {<<1, i>>}
     /\ held' = h
     /\ UNCHANGED cl

\* Mutant: fn is not set to NULL.
CleanupReturnKeeps ==
  /\ cl # <<>>
  /\ cl' = Tail(cl)
  /\ UNCHANGED <<tables, rx, tick, held, pend>>

\* The last cleanup callback returns: fn = NULL, fn_timeout = NULL, count.
CleanupReturn ==
  /\ cl # <<>>
  /\ idLst' = [idLst EXCEPT ![Head(cl)] = Null]
  /\ countId' = CountEmptied(Head(cl), countId)
  /\ pend' = pend \ {<<1, Head(cl)>>}
  /\ cl' = Tail(cl)
  /\ UNCHANGED <<typeLst, countType, genericLst, countGeneric, rx, tick, held>>

-----------------------------------------------------------------------------
(* The API, called by user code. *)

\* A complete reset, by a user that has taken its userdata back: no listener
\* is told.
TF_InitStatic ==
  /\ rx = IdleRx /\ tick = IdleTick /\ cl = <<>>
  /\ idLst' = [i \in IdSlots |-> Null] /\ countId' = 0
  /\ typeLst' = [i \in TypeSlots |-> Null] /\ countType' = 0
  /\ genericLst' = [i \in GenericSlots |-> Null] /\ countGeneric' = 0
  /\ held' = {}
  /\ UNCHANGED <<rx, tick, cl, pend>>

TF_AddIdListener(id, u, t, ft) ==
  /\ UserRuns
  /\ \E i \in IdSlots :
       /\ IsFirst(i, Free(idLst))
       /\ idLst' = [idLst EXCEPT ![i] =
            [id |-> id, userdata |-> u, timeout |-> t, timeout_max |-> t,
             fn_timeout |-> ft]]
       /\ countId' = CountFilled(i, countId)
  /\ held' = held \cup ({u} \ {Null})
  /\ UNCHANGED <<typeLst, countType, genericLst, countGeneric, rx, tick, cl, pend>>

TF_RemoveIdListener(id) ==
  /\ UserRuns
  /\ \E i \in IdSlots :
       /\ IsFirst(i, IdFound(id))
       /\ i \notin CleaningUp
       /\ SelfRemove \/ i \notin Running
       /\ cleanup_id_listener(i, idLst, held)
  /\ UNCHANGED <<typeLst, countType, genericLst, countGeneric, rx, tick>>

TF_RenewIdListener(id) ==
  /\ UserRuns
  /\ \E i \in IdSlots :
       /\ IsFirst(i, IdFound(id))
       /\ idLst' = [idLst EXCEPT ![i].timeout = idLst[i].timeout_max]
  /\ UNCHANGED <<countId, typeLst, countType, genericLst, countGeneric,
                 rx, tick, cl, held, pend>>

TF_AddTypeListener(type) ==
  /\ UserRuns
  /\ \E i \in TypeSlots :
       /\ IsFirst(i, Free(typeLst))
       /\ typeLst' = [typeLst EXCEPT ![i] = type]
       /\ countType' = CountFilled(i, countType)
  /\ UNCHANGED <<idLst, countId, genericLst, countGeneric, rx, tick, cl, held, pend>>

cleanup_type_listener(i) ==
  /\ typeLst' = [typeLst EXCEPT ![i] = Null]
  /\ countType' = CountEmptied(i, countType)
  /\ pend' = pend \ {<<2, i>>}

TF_RemoveTypeListener(type) ==
  /\ UserRuns
  /\ \E i \in TypeSlots :
       /\ IsFirst(i, {j \in TypeSlots : j < countType /\ typeLst[j] = type})
       /\ cleanup_type_listener(i)
  /\ UNCHANGED <<idLst, countId, genericLst, countGeneric, rx, tick, cl, held>>

TF_AddGenericListener(cb) ==
  /\ UserRuns
  /\ \E i \in GenericSlots :
       /\ IsFirst(i, Free(genericLst))
       /\ genericLst' = [genericLst EXCEPT ![i] = cb]
       /\ countGeneric' = CountFilled(i, countGeneric)
  /\ UNCHANGED <<idLst, countId, typeLst, countType, rx, tick, cl, held, pend>>

cleanup_generic_listener(i) ==
  /\ genericLst' = [genericLst EXCEPT ![i] = Null]
  /\ countGeneric' = CountEmptied(i, countGeneric)
  /\ pend' = pend \ {<<3, i>>}

TF_RemoveGenericListener(cb) ==
  /\ UserRuns
  /\ \E i \in GenericSlots :
       /\ IsFirst(i, {j \in GenericSlots : j < countGeneric /\ genericLst[j] = cb})
       /\ cleanup_generic_listener(i)
  /\ UNCHANGED <<idLst, countId, typeLst, countType, rx, tick, cl, held>>

-----------------------------------------------------------------------------
(* TF_HandleReceivedMessage: ID listeners, then type, then generic ones. A  *)
(* listener is <<1, i>>, <<2, i>> or <<3, i>>.                              *)

Before(a, b) == a[1] < b[1] \/ (a[1] = b[1] /\ a[2] < b[2])

\* The listeners of the message that the three loops can still reach.
Matching(id, type) ==
  ({1} \X IdFound(id))
    \cup ({2} \X {i \in TypeSlots : i < countType /\ typeLst[i] = type})
    \cup ({3} \X {i \in GenericSlots : i < countGeneric /\ genericLst[i] # Null})

\* Every live listener of the message, whatever the counts say.
Live(id, type) ==
  ({1} \X {i \in IdSlots : idLst[i] # Null /\ idLst[i].id = id})
    \cup ({2} \X {i \in TypeSlots : typeLst[i] = type})
    \cup ({3} \X {i \in GenericSlots : genericLst[i] # Null})

\* The loops go on to the first listener of rest, or fall off their end.
Offer(rest, id, type, p) ==
  \/ /\ rest = {}
     /\ rx' = [IdleRx EXCEPT !.pc = "unhandled"]
     /\ pend' = p
  \/ \E c \in rest :
       /\ \A d \in rest : ~Before(d, c)
       /\ rx' = [pc |-> "callback", id |-> id, type |-> type, at |-> c,
                 userdata |-> IF c[1] = 1 THEN idLst[c[2]].userdata ELSE Null]
       /\ pend' = p \ {c}

TF_HandleReceivedMessage(id, type) ==
  /\ rx.pc = "idle" /\ tick.pc = "idle" /\ cl = <<>>
  /\ Offer(Matching(id, type), id, type, Live(id, type))
  /\ UNCHANGED <<tables, tick, cl, held>>

\* The callback is done; no interrupt handler or cleanup runs on top of it.
CallbackEnds == rx.pc = "callback" /\ tick.pc = "idle" /\ cl = <<>>

\* TF_NEXT: look for another listener behind this one.
OfferNext == Offer({c \in Matching(rx.id, rx.type) : Before(rx.at, c)},
                   rx.id, rx.type, pend)
Consumed == rx' = IdleRx /\ pend' = {}

\* An ID listener returns. It has left msg.userdata as it was, or has
\* released it and put NULL or another object of its own there; with TF_CLOSE
\* it has released what it had, and what it left does not matter.
IdCallbackReturn(res, u) ==
  /\ CallbackEnds /\ rx.at[1] = 1
  /\ u \in (Userdata \ held) \cup {rx.userdata, Null}
  /\ LET i == rx.at[2]
         back == IF u = rx.userdata THEN held
                 ELSE (held \ {rx.userdata}) \cup ({u} \ {Null})
         put == IF idLst[i] = Null THEN idLst
                ELSE [idLst EXCEPT ![i].userdata = u]
     IN \/ /\ res = "TF_NEXT"
           /\ idLst' = put /\ held' = back
           /\ OfferNext
           /\ UNCHANGED <<countId, cl>>
        \/ /\ res = "TF_STAY"
           /\ idLst' = put /\ held' = back
           /\ Consumed
           /\ UNCHANGED <<countId, cl>>
        \/ /\ res = "TF_RENEW"
           /\ idLst' = IF put[i] = Null THEN put
                       ELSE [put EXCEPT ![i].timeout = put[i].timeout_max]
           /\ held' = back
           /\ Consumed
           /\ UNCHANGED <<countId, cl>>
        \/ /\ res = "TF_CLOSE" /\ u = rx.userdata
           /\ IF idLst[i] = Null
              THEN UNCHANGED <<idLst, countId>>
              ELSE /\ idLst' = [idLst EXCEPT ![i] = Null]
                   /\ countId' = CountEmptied(i, countId)
           /\ held' = held \ {rx.userdata}
           /\ Consumed
           /\ UNCHANGED cl
  /\ UNCHANGED <<typeLst, countType, genericLst, countGeneric, tick>>

TypeCallbackReturn(res) ==
  /\ CallbackEnds /\ rx.at[1] = 2
  /\ \/ /\ res = "TF_NEXT"
        /\ OfferNext
        /\ UNCHANGED <<typeLst, countType>>
     \/ /\ res \in {"TF_STAY", "TF_RENEW"}
        /\ Consumed
        /\ UNCHANGED <<typeLst, countType>>
     \/ /\ res = "TF_CLOSE"
        /\ typeLst' = [typeLst EXCEPT ![rx.at[2]] = Null]
        /\ countType' = CountEmptied(rx.at[2], countType)
        /\ Consumed
  /\ UNCHANGED <<idLst, countId, genericLst, countGeneric, tick, cl, held>>

GenericCallbackReturn(res) ==
  /\ CallbackEnds /\ rx.at[1] = 3
  /\ \/ /\ res = "TF_NEXT"
        /\ OfferNext
        /\ UNCHANGED <<genericLst, countGeneric>>
     \/ /\ res \in {"TF_STAY", "TF_RENEW"}
        /\ Consumed
        /\ UNCHANGED <<genericLst, countGeneric>>
     \/ /\ res = "TF_CLOSE"
        /\ genericLst' = [genericLst EXCEPT ![rx.at[2]] = Null]
        /\ countGeneric' = CountEmptied(rx.at[2], countGeneric)
        /\ Consumed
  /\ UNCHANGED <<idLst, countId, typeLst, countType, tick, cl, held>>

\* TF_Error("Unhandled message") and return.
Unhandled ==
  /\ rx.pc = "unhandled"
  /\ Consumed
  /\ UNCHANGED <<tables, tick, cl, held>>

-----------------------------------------------------------------------------
(* TF_Tick. *)

TF_Tick ==
  /\ tick.pc = "idle" /\ cl = <<>>
  /\ rx.pc = "idle" \/ (TickPreempts /\ rx.pc = "callback")
  /\ tick' = [pc |-> "scan", i |-> 0]
  /\ UNCHANGED <<tables, rx, cl, held, pend>>

\* Mutant: after a callback the loop starts from the first slot again.
AgedFromStart(from, to) ==
  [j \in IdSlots |->
     IF j <= to /\ j < countId /\ idLst[j] # Null /\ idLst[j].timeout # 0
     THEN [idLst[j] EXCEPT !.timeout = idLst[j].timeout - 1]
     ELSE idLst[j]]

\* Slots from .. to of id_listeners counted down by one, where they count.
Aged(from, to) ==
  [j \in IdSlots |->
     IF from <= j /\ j <= to /\ j < countId /\ idLst[j] # Null
          /\ idLst[j].timeout # 0
     THEN [idLst[j] EXCEPT !.timeout = idLst[j].timeout - 1]
     ELSE idLst[j]]

\* Mutant: the loop stops one slot short when it looks for expired listeners.
DueShort == {j \in IdSlots : /\ tick.i <= j /\ j + 1 < countId
                             /\ idLst[j] # Null /\ idLst[j].timeout = 1}

\* The slots the loop still has to visit and whose last tick this is.
Due == {j \in IdSlots : /\ tick.i <= j /\ j < countId
                        /\ idLst[j] # Null /\ idLst[j].timeout = 1}

\* The loop runs to the next listener that expires, or to its end.
TickExpire ==
  /\ tick.pc = "scan" /\ cl = <<>>
  /\ \E j \in IdSlots :
       /\ IsFirst(j, Due)
       /\ IF idLst[j].fn_timeout
          THEN /\ idLst' = Aged(tick.i, j)
               /\ tick' = [pc |-> "timeout", i |-> j]
               /\ UNCHANGED <<countId, cl, held, pend>>
          ELSE /\ cleanup_id_listener(j, Aged(tick.i, j), held)
               /\ tick' = [pc |-> "scan", i |-> j + 1]
  /\ UNCHANGED <<typeLst, countType, genericLst, countGeneric, rx>>

TickEnd ==
  /\ tick.pc = "scan" /\ cl = <<>>
  /\ Due = {}
  /\ idLst' = Aged(tick.i, NumId)
  /\ tick' = IdleTick
  /\ UNCHANGED <<countId, typeLst, countType, genericLst, countGeneric, rx, cl, held, pend>>

\* fn_timeout returns; the slot is cleaned up whatever it did.
TimeoutReturn ==
  /\ tick.pc = "timeout" /\ cl = <<>>
  /\ cleanup_id_listener(tick.i, idLst, held)
  /\ tick' = [pc |-> "scan", i |-> tick.i + 1]
  /\ UNCHANGED <<typeLst, countType, genericLst, countGeneric, rx>>

-----------------------------------------------------------------------------
ApiCall ==
  \/ TF_InitStatic
  \/ \E id \in Ids, u \in (Userdata \ held) \cup {Null},
        t \in 0 .. MaxTimeout, ft \in BOOLEAN :
       /\ t = 0 => ~ft  \* without a timeout fn_timeout is not called
       /\ TF_AddIdListener(id, u, t, ft)
  \/ \E id \in Ids : TF_RemoveIdListener(id) \/ TF_RenewIdListener(id)
  \/ \E type \in Types : TF_AddTypeListener(type) \/ TF_RemoveTypeListener(type)
  \/ \E cb \in Callbacks : TF_AddGenericListener(cb) \/ TF_RemoveGenericListener(cb)

CallbackReturn ==
  \E res \in Results : \/ \E u \in Userdata \cup {Null} : IdCallbackReturn(res, u)
                       \/ TypeCallbackReturn(res)
                       \/ GenericCallbackReturn(res)

Next ==
  \/ ApiCall
  \/ \E id \in Ids, type \in Types : TF_HandleReceivedMessage(id, type)
  \/ CallbackReturn \/ Unhandled
  \/ TF_Tick \/ TickExpire \/ TickEnd \/ TimeoutReturn
  \/ CleanupReturn

Spec == Init /\ [][Next]_vars

\* TF_Tick is called periodically, its loop and that of a dispatch go on, and
\* callbacks return: while one runs it may call the API any number of times and
\* so make cleanup callbacks run, hence its return is enabled again and again
\* without being enabled for good. So it is with a cleanup callback.
Fairness ==
  /\ SF_vars(TF_Tick)
  /\ WF_vars(TickExpire \/ TickEnd \/ Unhandled)
  /\ SF_vars(TimeoutReturn \/ CallbackReturn)
  /\ \A n \in 1 .. NumId : SF_vars(CleanupReturn /\ Len(cl) = n)

FairSpec == Spec /\ Fairness

-----------------------------------------------------------------------------
\* A listener a message can be at.
ListenerRef == ({1} \X IdSlots) \cup ({2} \X TypeSlots) \cup ({3} \X GenericSlots)

\* The tables hold listeners within their bounds, and a suspended dispatch,
\* tick or cleanup is at a slot that exists.
TypeOK ==
  /\ idLst \in [IdSlots -> IdListener \cup {Null}] /\ countId \in 0 .. NumId
  /\ typeLst \in [TypeSlots -> Types \cup {Null}] /\ countType \in 0 .. NumType
  /\ genericLst \in [GenericSlots -> Callbacks \cup {Null}]
  /\ countGeneric \in 0 .. NumGeneric
  /\ rx \in [pc : {"idle", "callback", "unhandled"}, id : Ids \cup {Null},
             type : Types \cup {Null}, at : ListenerRef \cup {<<0, 0>>},
             userdata : Userdata \cup {Null}]
  /\ rx.pc = "callback" => rx.id \in Ids /\ rx.type \in Types /\ rx.at \in ListenerRef
  /\ tick \in [pc : {"idle", "scan", "timeout"}, i : 0 .. NumId]
  /\ tick.pc = "timeout" => tick.i \in IdSlots
  /\ cl \in Seq(IdSlots)
  /\ held \subseteq Userdata
  /\ pend \subseteq ListenerRef

\* Every live slot of a table lies below its count, so that the loops, which
\* stop at the count, see it: whatever the order of additions and removals,
\* and whatever a callback or an interrupting tick does to the tables while a
\* loop is suspended.
Covers(tbl, count) == \A i \in DOMAIN tbl : tbl[i] # Null => i < count

CountsCoverLive ==
  /\ Covers(idLst, countId)
  /\ Covers(typeLst, countType)
  /\ Covers(genericLst, countGeneric)

\* A message goes past a listener only by offering it: a listener that
\* matched when TF_HandleReceivedMessage began and has not been removed since
\* has been called before any later one is, and before the message is dropped
\* as unhandled.
NoListenerSkipped ==
  /\ rx.pc = "unhandled" => pend = {}
  /\ rx.pc = "callback" => \A c \in pend : Before(rx.at, c)

\* cleanup_id_listener lets the user "free any resources in userdata": the
\* live ID listeners carry exactly the userdata the user has registered and
\* not had back, each one once. None is lost, none is handed back twice.
UserdataAccounted ==
  LET owners(u) == {i \in IdSlots : /\ i \notin CleaningUp /\ idLst[i] # Null
                                    /\ idLst[i].userdata = u}
  IN \A u \in Userdata :
       IF u \in held THEN \E i \in IdSlots : owners(u) = {i} ELSE owners(u) = {}

\* A listener with a timeout does not outlive it: it is gone after finitely
\* many ticks unless it is renewed again and again.
TimedListenerExpires ==
  \A i \in IdSlots :
    \/ []<>(idLst[i] = Null \/ idLst[i].timeout_max = 0)
    \/ []<><<idLst[i] # Null /\ idLst'[i] # Null
               /\ idLst'[i].timeout > idLst[i].timeout>>_vars
=============================================================================
