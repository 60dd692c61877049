----------------------------- MODULE TFSession ------------------------------
(***************************************************************************)
(* Queries over a line: TF_Query of one peer, with the listener tables and *)
(* the ticks of TFListeners, a line on which frames are lost or late, and  *)
(* a peer whose listeners answer with TF_Respond.                          *)
(*                                                                         *)
(* A frame arrives whole or not at all: TFTransmit and TFParser are about  *)
(* its bytes. TF_Query is one step, since no interrupt handler sends here. *)
(* The peer that asks does so with timeouts and hangs the query's number   *)
(* on the listener as userdata; its callbacks keep it there until they     *)
(* return TF_CLOSE. The other peer is user code around TF_Respond.         *)
(***************************************************************************)
EXTENDS TFListeners, Sequences

CONSTANTS
  IdMod,       \* the number of IDs one peer can give to its frames
  MaxQueries,  \* bound: queries
  MaxAnswers   \* bound: responses sent

ASSUME SessionAssumption ==
  /\ IdMod \in Nat \ {0} /\ MaxQueries \in Nat /\ MaxAnswers \in Nat
  /\ Ids = 0 .. IdMod - 1 /\ Userdata = 1 .. MaxQueries

VARIABLES
  next_id,  \* next_id
  asked,    \* history: queries made so far
  request,  \* the line to the other peer: frames with an ID and the query's number
  reply,    \* the line back: frames with an ID and the query they answer
  answers,  \* responses sent so far
  about,    \* history: the query the frame in dispatch answers
  heard,    \* history: per query, the answers its listener was called with
  waited,   \* history: ticks begun since the query was made or renewed
  early     \* history: queries made from a callback of a tick and not renewed

line == <<request, reply, answers>>
clock == <<waited, early>>
sVars == <<vars, next_id, asked, line, about, heard, clock>>

Queries == 1 .. MaxQueries

SInit ==
  /\ Init
  /\ next_id = 0 /\ asked = 0
  /\ request = <<>> /\ reply = <<>> /\ answers = 0
  /\ about = 0 /\ heard = [q \in Queries |-> {}]
  /\ waited = [q \in Queries |-> 0] /\ early = {}

-----------------------------------------------------------------------------
\* Mutant: the ID is not used up.
IdKept == next_id

\* (tf->next_id++) & TF_ID_MASK
IdUsed == (next_id + 1) % IdMod

\* TF_Query with a timeout of t: TF_ComposeHead takes an ID, TF_AddIdListener
\* fails when the table is full, and then nothing is sent.
TF_Query(t, ft) ==
  /\ asked < MaxQueries
  /\ asked' = asked + 1
  /\ next_id' = IdUsed
  /\ \/ /\ TF_AddIdListener(next_id, asked', t, ft)
        /\ request' = Append(request, [id |-> next_id, query |-> asked'])
     \/ /\ UserRuns /\ Free(idLst) = {}
        /\ UNCHANGED <<vars, request>>
  /\ early' = IF tick.pc = "idle" THEN early ELSE early \cup {asked'}
  /\ UNCHANGED <<reply, answers, about, heard, waited>>

\* The other peer has the request and responds under its ID; it may do so again.
TF_Respond(last) ==
  /\ request # <<>> /\ answers < MaxAnswers
  /\ reply' = Append(reply, Head(request))
  /\ answers' = answers + 1
  /\ request' = IF last THEN Tail(request) ELSE request
  /\ UNCHANGED <<vars, next_id, asked, about, heard, clock>>

\* A frame is lost, or, in this direction, not responded to.
LoseRequest ==
  /\ request # <<>>
  /\ request' = Tail(request)
  /\ UNCHANGED <<vars, next_id, asked, reply, answers, about, heard, clock>>

LoseReply ==
  /\ reply # <<>>
  /\ reply' = Tail(reply)
  /\ UNCHANGED <<vars, next_id, asked, request, answers, about, heard, clock>>

\* What the listener that is called next is told.
Told(a) == heard' = IF rx'.pc = "callback" THEN [heard EXCEPT ![rx'.userdata] = @ \cup {a}]
                    ELSE heard

\* TF_AcceptChar completes a frame.
Receive(type) ==
  /\ reply # <<>>
  /\ TF_HandleReceivedMessage(Head(reply).id, type)
  /\ about' = Head(reply).query
  /\ reply' = Tail(reply)
  /\ Told(about')
  /\ UNCHANGED <<next_id, asked, request, answers, clock>>

\* The listener of a query returns; with TF_NEXT the frame goes on to others.
ListenerReturn(res) ==
  /\ IdCallbackReturn(res, rx.userdata)
  /\ IF res = "TF_NEXT" THEN Told(about) /\ UNCHANGED about
                        ELSE UNCHANGED heard /\ about' = 0
  /\ IF res = "TF_RENEW" THEN waited' = [waited EXCEPT ![rx.userdata] = 0] /\ early' = early \ {rx.userdata}
                         ELSE UNCHANGED clock
  /\ UNCHANGED <<next_id, asked, line>>

Dropped ==
  /\ Unhandled
  /\ about' = 0
  /\ UNCHANGED <<next_id, asked, line, heard, clock>>

\* Steps of the listener tables alone.
quiet == <<next_id, asked, line, about, heard>>
TickStep == (TickExpire \/ TickEnd \/ TimeoutReturn) /\ UNCHANGED <<quiet, clock>>
Cleaned == CleanupReturn /\ UNCHANGED <<quiet, clock>>
Removed == \E id \in Ids : TF_RemoveIdListener(id) /\ UNCHANGED <<quiet, clock>>

\* Bound: past its timeout, the ticks of a query are no longer counted.
MaxWaited == MaxTimeout + 1

Tick == /\ TF_Tick
        /\ waited' = [q \in Queries |-> IF q \notin held THEN 0
                                       ELSE IF waited[q] < MaxWaited THEN waited[q] + 1 ELSE MaxWaited]
        /\ UNCHANGED <<quiet, early>>

SNext ==
  \/ \E t \in 1 .. MaxTimeout, ft \in BOOLEAN : TF_Query(t, ft)
  \/ \E last \in BOOLEAN : TF_Respond(last)
  \/ LoseRequest \/ LoseReply
  \/ \E type \in Types : Receive(type)
  \/ \E res \in Results : ListenerReturn(res)
  \/ Dropped \/ Tick \/ TickStep \/ Cleaned \/ Removed

SSpec == SInit /\ [][SNext]_sVars

\* TF_Tick is called periodically and callbacks return.
SFairness ==
  /\ SF_sVars(Tick) /\ WF_sVars(TickStep) /\ WF_sVars(Cleaned)
  /\ WF_sVars(\E res \in Results : ListenerReturn(res)) /\ WF_sVars(Dropped)

SFairSpec == SSpec /\ SFairness

-----------------------------------------------------------------------------
\* A query's listener hears only of its own query, however late, lost or
\* repeated the answers are, until the masked ID has come round again.
AnswerIsOwn ==
  \A q \in Queries : \A a \in heard[q] : a = q \/ a + IdMod <= q \/ q + IdMod <= a

\* An answer is dropped as unhandled only when its query is over or has heard
\* it and passed it on.
DroppedIsLate == rx.pc = "unhandled" => about \notin held \/ about \in heard[about]

\* Between ticks, the time a query's listener has left is its timeout less the
\* ticks since it was made or renewed, whatever the callbacks in the middle of
\* a tick did to the table. The tick in which a query is made may count or not:
\* TF_Tick's loop runs up to the current count_id_lst.
TimeoutCounts ==
  tick.pc = "idle" =>
    \A i \in IdSlots :
      idLst[i] # Null =>
        LET q == idLst[i].userdata
            gone == idLst[i].timeout_max - idLst[i].timeout
        IN  gone = waited[q] \/ (q \in early /\ gone = waited[q] + 1)

RR == INSTANCE RequestReply WITH open <- held

\* For its caller, a query is refused, or open and then over, once and for all.
ImplementsRequestReply == RR!RRSpec

\* Every query that was accepted comes to an end.
QueryEnds == \A q \in Queries : q \in held ~> q \notin held
=============================================================================
