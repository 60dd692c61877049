-------------------------------- MODULE Uptp --------------------------------
(***************************************************************************)
(* The UPTP request/response protocol of usbpipe/ in its PIPE_TEST build:  *)
(* the host's application thread (zw_usbpipe_uptp_init, call_sync, uninit), *)
(* its listener thread(s), the device program and the sender program, all  *)
(* reading and writing one FIFO that each of them opens O_RDWR.            *)
(*                                                                         *)
(* A read() takes everything that is in the FIFO, and zw_uptp_recive looks *)
(* at the first message of it only: the others are lost. So are all of     *)
(* them once no program has the FIFO open; when none of those here has it, *)
(* another may. call_sync never sets msgType, so its value is any of       *)
(* MsgTypes. The operations on g_list are atomic here; what happens when   *)
(* they overlap is UptpList's subject. One device program runs at a time.  *)
(***************************************************************************)
EXTENDS Naturals, Sequences, FiniteSets

CONSTANTS
  MsgTypes,    \* the values the uninitialised msgType of a request can have
  MaxCalls,    \* bound: calls of zw_usbpipe_uptp_call_sync
  MaxInits,    \* bound: calls of zw_usbpipe_uptp_init
  MaxReplies,  \* bound: runs of the device program
  MaxEvents    \* bound: runs of the sender program

Types == {"REQUEST", "RESPONSE", "other"}

ASSUME MsgTypesAssumption == MsgTypes \subseteq Types
ASSUME BoundAssumption == /\ MaxCalls \in Nat /\ MaxInits \in Nat
                          /\ MaxReplies \in Nat /\ MaxEvents \in Nat

Listeners == 1 .. MaxInits

\* A message has a type, a seq and data: who wrote it, and the call of the host
\* it belongs to (0: a message of the sender program).
NoData == [by |-> "none", call |-> 0]
NoMessage == [type |-> "other", seq |-> 0, data |-> NoData]

VARIABLES
  fifo,    \* the messages in /tmp/usbpipe0
  status,  \* g_stInfo.status
  fd,      \* g_stInfo.fd, 0 for -1
  open,    \* the open descriptors of the host
  bound,   \* g_stInfo.cbEventHandler is set
  list,    \* g_list, head first
  g_seq,   \* g_seq
  app,     \* the application thread: "idle" or "waiting" in call_sync
  result,  \* what the last call_sync returned
  lis,     \* the listener threads: where they are, the descriptors they poll
           \* and read
  got,     \* the messages the listener threads have in hand
  dev,     \* the device program: where it is, the message it has in hand
  inits, replies, events,  \* how often init, the device, the sender have run
  told,    \* the data last passed to cbEventHandler
  crashed  \* the host process has died

host == <<status, fd, open, bound, list, g_seq, app, result, lis, got, inits, told,
          crashed>>
vars == <<fifo, dev, host, replies, events>>

Init ==
  /\ fifo = <<>> /\ status = "UNINIT" /\ fd = 0 /\ open = {} /\ bound = FALSE
  /\ list = <<>> /\ g_seq = 0 /\ app = "idle" /\ result = NoData
  /\ lis = [l \in Listeners |-> [pc |-> "none", fd |-> 0, rfd |-> 0]]
  /\ got = [l \in Listeners |-> NoMessage]
  /\ dev = [pc |-> "closed", msg |-> NoMessage]
  /\ inits = 0 /\ replies = 0 /\ events = 0 /\ told = NoData /\ crashed = FALSE

-----------------------------------------------------------------------------
\* as_usbpipe_open returns the lowest descriptor that is free.
Lowest(S) == CHOOSE n \in S : \A m \in S : n <= m

as_usbpipe_open == Lowest(1 .. (MaxInits + 1) \ open)

\* A program that is modelled has the FIFO open: the host, with the open
\* descriptors o or a listener that is in read(), or the device.
HostHolds(o) == ~crashed /\ (o # {} \/ \E l \in Listeners : lis[l].pc = "read")
DeviceHolds == dev.pc # "closed"

\* What a FIFO with the messages f still has after a close(): all of them, or
\* none when nobody else holds it.
Left(f, held) == IF held THEN {f} ELSE {f, <<>>}

\* zw_usbpipe_uptp_init, which asks for no particular status.
zw_usbpipe_uptp_init ==
  /\ ~crashed /\ app = "idle" /\ inits < MaxInits
  /\ inits' = inits + 1
  /\ \/ \* mkfifo or open fails
        /\ fd' = 0
        /\ UNCHANGED <<open, status, list, lis>>
     \/ /\ fd' = as_usbpipe_open
        /\ open' = open \cup {fd'}
        /\ status' = "INITED"
        /\ list' = <<>>
        /\ lis' = [lis EXCEPT ![inits'].pc = "start"]
  /\ UNCHANGED <<fifo, bound, g_seq, app, result, told, got, crashed, dev, replies, events>>

zw_usbpipe_uptp_bind_opt ==
  /\ ~crashed /\ app = "idle" /\ ~bound
  /\ bound' = TRUE
  /\ UNCHANGED <<fifo, status, fd, open, list, g_seq, app, result, lis, inits,
                 told, got, crashed, dev, replies, events>>

\* zw_usbpipe_uptp_call_sync up to its waiting loop. A write to descriptor -1
\* fails and nobody looks.
CallSend(type) ==
  /\ ~crashed /\ app = "idle" /\ status = "INITED" /\ g_seq < MaxCalls
  /\ g_seq' = g_seq + 1
  /\ fifo' = IF fd = 0 THEN fifo
             ELSE Append(fifo, [type |-> type, seq |-> g_seq',
                                data |-> [by |-> "host", call |-> g_seq']])
  /\ app' = "waiting"
  /\ UNCHANGED <<status, fd, open, bound, list, result, lis, inits, told, got,
                 crashed, dev, replies, events>>

\* Mutant: the first node is taken, whatever its seq.
PopFirst(l, seq) == IF l = <<>> THEN {} ELSE {1}

\* Mutant: only the newest node is looked at.
PopNewest(l, seq) == {i \in DOMAIN l : i = 1 /\ l[i].seq = seq}

\* zw_uptp_list_pop_by_seq: the position it finds, if any.
zw_uptp_list_pop_by_seq(l, seq) ==
  {i \in DOMAIN l : l[i].seq = seq /\ \A j \in 1 .. i - 1 : l[j].seq # seq}

\* The waiting loop of call_sync finds a node with its seq.
CallReturn ==
  /\ ~crashed /\ app = "waiting"
  /\ \E i \in zw_uptp_list_pop_by_seq(list, g_seq) :
       /\ result' = list[i].data
       /\ list' = SubSeq(list, 1, i - 1) \o SubSeq(list, i + 1, Len(list))
  /\ app' = "idle"
  /\ UNCHANGED <<fifo, status, fd, open, bound, g_seq, lis, inits, told, got,
                 crashed, dev, replies, events>>

\* zw_usbpipe_uptp_uninit: bListemThreadExit is not touched.
zw_usbpipe_uptp_uninit ==
  /\ ~crashed /\ app = "idle" /\ status # "DESTROYED"
  /\ open' = open \ {fd} /\ fd' = 0
  /\ fifo' \in Left(fifo, HostHolds(open \ {fd}) \/ DeviceHolds)
  /\ status' = "DESTROYED"
  /\ list' = <<>>
  /\ UNCHANGED <<dev, bound, g_seq, app, result, lis, got, inits, told, crashed,
                 replies, events>>

-----------------------------------------------------------------------------
\* fxn_listen_thread begins: it looks up the descriptor it is to poll.
Start(l) ==
  /\ ~crashed /\ lis[l].pc = "start"
  /\ lis' = [lis EXCEPT ![l].pc = "poll", ![l].fd = fd]
  /\ UNCHANGED <<fifo, dev, status, fd, open, bound, list, g_seq, app, result, inits,
                 told, got, crashed, replies, events>>

\* poll() returns with POLLIN. On a closed descriptor it returns POLLNVAL
\* again and again, which changes nothing.
Poll(l) ==
  /\ ~crashed /\ lis[l].pc = "poll"
  /\ lis[l].fd \in open /\ fifo # <<>>
  /\ lis' = [lis EXCEPT ![l].pc = "pollin"]
  /\ UNCHANGED <<fifo, dev, status, fd, open, bound, list, g_seq, app, result, inits,
                 told, got, crashed, replies, events>>

\* pInfo->fd is evaluated, for zw_uptp_recive.
ReadFd(l) ==
  /\ ~crashed /\ lis[l].pc = "pollin"
  /\ lis' = [lis EXCEPT ![l].pc = "recv", ![l].rfd = fd]
  /\ UNCHANGED <<fifo, dev, status, fd, open, bound, list, g_seq, app, result, inits,
                 told, got, crashed, replies, events>>

\* read() is entered; from here on it holds the file, closed or not.
ReadEnter(l) ==
  /\ ~crashed /\ lis[l].pc = "recv" /\ lis[l].rfd \in open
  /\ lis' = [lis EXCEPT ![l].pc = "read"]
  /\ UNCHANGED <<fifo, dev, status, fd, open, bound, list, g_seq, app, result, inits,
                 told, got, crashed, replies, events>>

\* read() of -1 or of a descriptor closed meanwhile returns -1, and memcpy is
\* asked for that many bytes.
ReadFails(l) ==
  /\ ~crashed /\ lis[l].pc = "recv" /\ lis[l].rfd \notin open
  /\ crashed' = TRUE
  /\ fifo' \in Left(fifo, DeviceHolds)
  /\ UNCHANGED <<dev, status, fd, open, bound, list, g_seq, app, result, lis, inits,
                 told, got, replies, events>>

\* read() waits until there is something, and takes all of it.
Read(l) ==
  /\ ~crashed /\ lis[l].pc = "read" /\ fifo # <<>>
  /\ fifo' = <<>>
  /\ lis' = [lis EXCEPT ![l].pc = "got"]
  /\ got' = [got EXCEPT ![l] = Head(fifo)]
  /\ UNCHANGED <<dev, status, fd, open, bound, list, g_seq, app, result, inits,
                 told, crashed, replies, events>>

\* A response is pushed on g_list, a request is given to cbEventHandler.
Handle(l) ==
  /\ ~crashed /\ lis[l].pc = "got"
  /\ LET msg == got[l]
     IN /\ list' = IF msg.type = "RESPONSE"
                   THEN <<[seq |-> msg.seq, data |-> msg.data]>> \o list
                   ELSE list
        /\ told' = IF msg.type = "REQUEST" /\ bound THEN msg.data ELSE told
  /\ lis' = [lis EXCEPT ![l] = [pc |-> "poll", fd |-> lis[l].fd, rfd |-> 0]]
  /\ got' = [got EXCEPT ![l] = NoMessage]
  /\ UNCHANGED <<fifo, dev, status, fd, open, bound, g_seq, app, result, inits,
                 crashed, replies, events>>

-----------------------------------------------------------------------------
\* The device program opens the FIFO, receives a message of any type, answers
\* it and ends.
DeviceOpen ==
  /\ dev.pc = "closed" /\ replies < MaxReplies
  /\ replies' = replies + 1
  /\ dev' = [pc |-> "recv", msg |-> NoMessage]
  /\ UNCHANGED <<fifo, host, events>>

DeviceReceive ==
  /\ dev.pc = "recv" /\ fifo # <<>>
  /\ dev' = [pc |-> "send", msg |-> Head(fifo)]
  /\ fifo' = <<>>
  /\ UNCHANGED <<host, replies, events>>

DeviceSend ==
  /\ dev.pc = "send"
  /\ fifo' \in Left(Append(fifo, [type |-> "RESPONSE", seq |-> dev.msg.seq,
                       data |-> [by |-> "device", call |-> dev.msg.data.call]]),
                  HostHolds(open))
  /\ dev' = [pc |-> "closed", msg |-> NoMessage]
  /\ UNCHANGED <<host, replies, events>>

\* The sender program: a request with seq 1.
Sender ==
  /\ events < MaxEvents
  /\ events' = events + 1
  /\ fifo' \in Left(Append(fifo, [type |-> "REQUEST", seq |-> 1,
                       data |-> [by |-> "sender", call |-> 0]]),
                  HostHolds(open) \/ DeviceHolds)
  /\ UNCHANGED <<host, dev, replies>>

ListenerStep == \E l \in Listeners : \/ Start(l) \/ Poll(l) \/ ReadFd(l)
                                    \/ ReadEnter(l) \/ ReadFails(l) \/ Read(l)
                                    \/ Handle(l)

DeviceStep == DeviceOpen \/ DeviceReceive \/ DeviceSend

Next ==
  \/ zw_usbpipe_uptp_init \/ zw_usbpipe_uptp_bind_opt \/ zw_usbpipe_uptp_uninit
  \/ \E type \in MsgTypes : CallSend(type)
  \/ CallReturn
  \/ ListenerStep
  \/ DeviceStep \/ Sender

Spec == Init /\ [][Next]_vars

\* Threads and programs that can go on do so.
FairSpec == Spec /\ WF_vars(ListenerStep) /\ WF_vars(CallReturn) /\ WF_vars(DeviceStep)

-----------------------------------------------------------------------------
\* Whatever message types and senders there are, a call never returns what
\* belongs to an earlier call: a late, repeated or forgotten answer stays in
\* g_list, because g_seq has moved on.
NoStaleAnswer ==
  [][app = "waiting" /\ app' = "idle" => result'.call \in {g_seq, 0}]_vars

\* The request or an answer of the call that is waiting is still on its way.
UnderWay ==
  \/ \E i \in DOMAIN fifo : fifo[i].data.call = g_seq
  \/ \E i \in DOMAIN list : list[i].seq = g_seq
  \/ dev.pc = "send" /\ dev.msg.data.call = g_seq
  \/ \E l \in Listeners : /\ lis[l].pc = "got" /\ got[l].type = "RESPONSE"
                          /\ got[l].seq = g_seq

\* The waiting loop of call_sync has no timeout, and these are the only ways in
\* which it does not end: a read() has dropped the request or its answer (the
\* host's own listener took the request, or it was not the first message), it
\* was written to descriptor -1, the listener has crashed, or no device runs.
CallReturnsUnlessLost ==
  app = "waiting" ~> \/ app = "idle"
                     \/ ~UnderWay
                     \/ crashed \/ (replies = MaxReplies /\ dev.pc = "closed")
=============================================================================
