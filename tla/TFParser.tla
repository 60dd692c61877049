------------------------------ MODULE TFParser ------------------------------
(***************************************************************************)
(* The receive side of TinyFrame (tf_demo/TinyFrame.c): the byte by byte   *)
(* parser TF_AcceptChar, fed from a line on which a peer's frames arrive   *)
(* among noise, with bytes changed or lost and with pauses (TF_Tick).      *)
(*                                                                         *)
(* Abstraction: TF_ResetParser clears every field here, and only state in  *)
(* the code; each of the others is overwritten by the next frame before it *)
(* is read (Collect shifts the old number out of its field).               *)
(***************************************************************************)
EXTENDS TFFrame

CONSTANTS
  Frames,  \* the messages the peer sends: records of id, type, data
  Fork     \* the parser is the modified one of tinyframe/TinyFrame.c

\* The values a message's fields can have in their C types.
Message == [id : 0 .. Pow(IdBytes) - 1, type : 0 .. Pow(TypeBytes) - 1, data : Seq(Byte)]

ASSUME FramesAssumption == \A m \in Frames : m \in Message /\ Len(m.data) < Pow(LenBytes)
ASSUME ForkAssumption == Fork \in BOOLEAN

VARIABLES
  p,      \* the parser part of struct TinyFrame_
  out,    \* the message the last byte passed to TF_HandleReceivedMessage
  feed,   \* the bytes of the peer's frame that have not arrived yet
  cur,    \* history: the message of that frame
  ready,  \* history: the parser was free for the frame, and no pause in it
          \* was as long as the parser timeout
  flaw,   \* history: what happened to the frame on the line
  hist    \* history: the bytes of the frame the parser is in, or just ended

vars == <<p, out, feed, cur, ready, flaw, hist>>

NoMsg == [id |-> -1, type |-> -1, data |-> <<>>]

\* TF_ResetParser.
TF_ResetParser == [state |-> "SOF", rxi |-> 0, id |-> 0, len |-> 0, type |-> 0,
                   cksum |-> 0, data |-> <<>>, discard |-> FALSE, ticks |-> 0]

Init == /\ p = TF_ResetParser /\ out = NoMsg
        /\ feed = <<>> /\ cur = NoMsg /\ ready = FALSE /\ flaw = "none" /\ hist = <<>>

-----------------------------------------------------------------------------
TimedOut(q) == q.ticks >= TimeoutTicks

\* Mutant: an expired parser goes on with its frame.
SwitchKeepsState(q) == [q EXCEPT !.ticks = 0]

\* The state TF_AcceptChar switches on: a parser left in a frame for
\* TimeoutTicks ticks starts over.
Switch(q) == IF TimedOut(q) THEN TF_ResetParser ELSE [q EXCEPT !.ticks = 0]

pars_begin_frame ==
  [TF_ResetParser EXCEPT !.state = "ID", !.cksum = TF_CksumAdd(TF_CksumStart, SOF)]

\* The three number fields of the head: field f of w bytes, then state next.
AcceptNumber(q, c, f, w, next) ==
  LET full == q.rxi + 1 = w
  IN [q EXCEPT ![f] = Collect(q[f], c, w),
               !.cksum = TF_CksumAdd(q.cksum, c),
               !.state = IF full THEN next ELSE q.state,
               !.rxi = IF full THEN 0 ELSE q.rxi + 1]

\* What a step of the parser yields: its new state and the message handled.
Goes(q) == [p |-> q, out |-> NoMsg]
Delivers(q) == [p |-> TF_ResetParser,
                out |-> [id |-> q.id, type |-> q.type, data |-> q.data]]

\* Mutant: the tinyframe/ fork, where a bad head does not end the frame.
HeadUnchecked(q, c) ==
  IF q.len = 0 THEN Delivers(q)
  ELSE Goes([q EXCEPT !.state = "DATA", !.cksum = TF_CksumStart,
                      !.discard = q.len > MaxPayload])

\* Mutant: a payload one byte longer than the buffer is stored.
DiscardLate(q, c) ==
  IF TF_CksumEnd(q.cksum) # c THEN Goes(TF_ResetParser)
  ELSE IF q.len = 0 THEN Delivers(q)
  ELSE Goes([q EXCEPT !.state = "DATA", !.cksum = TF_CksumStart,
                      !.discard = q.len > MaxPayload + 1])

AcceptHeadCksum(q, c) ==
  IF TF_CksumEnd(q.cksum) # c THEN Goes(TF_ResetParser)
  ELSE IF q.len = 0 THEN Delivers(q)
  ELSE Goes([q EXCEPT !.state = "DATA", !.cksum = TF_CksumStart,
                      !.discard = q.len > MaxPayload])

AcceptData(q, c) ==
  LET full == q.rxi + 1 = q.len
  IN [q EXCEPT !.cksum = IF q.discard THEN q.cksum ELSE TF_CksumAdd(q.cksum, c),
               !.data = IF q.discard THEN q.data ELSE Append(q.data, c),
               !.state = IF full THEN "DATA_CKSUM" ELSE "DATA",
               !.rxi = IF full THEN 0 ELSE q.rxi + 1]

\* Mutant: the payload's checksum is not compared.
DataUnchecked(q, c) == IF q.discard THEN Goes(TF_ResetParser) ELSE Delivers(q)

AcceptDataCksum(q, c) ==
  IF ~q.discard /\ TF_CksumEnd(q.cksum) = c THEN Delivers(q) ELSE Goes(TF_ResetParser)

\* The fork in tinyframe/ reports a received frame by returning 0 (out here).
\* It does so for an empty frame before the head's checksum has arrived;
ForkAcceptType(q, c) ==
  LET next == AcceptNumber(q, c, "type", TypeBytes, "HEAD_CKSUM")
  IN IF next.state = "HEAD_CKSUM" /\ q.len = 0 THEN Delivers(next) ELSE Goes(next)

\* after a bad head, TF_ResetParser is undone by the code that follows it;
ForkAcceptHeadCksum(q, c) ==
  Goes([q EXCEPT !.state = "DATA", !.cksum = TF_CksumStart,
                 !.discard = q.len > MaxPayload])

\* and the 0 that result starts with is returned for a payload that was not
\* stored (the data buffer holds that of an earlier frame, empty here).
ForkAcceptDataCksum(q, c) ==
  IF q.discard \/ TF_CksumEnd(q.cksum) = c THEN Delivers(q) ELSE Goes(TF_ResetParser)

TF_AcceptChar(r, c) ==
  LET q == Switch(r)
  IN CASE q.state = "SOF" ->
            Goes(IF c = SOF THEN pars_begin_frame ELSE TF_ResetParser)
       [] q.state = "ID" -> Goes(AcceptNumber(q, c, "id", IdBytes, "LEN"))
       [] q.state = "LEN" -> Goes(AcceptNumber(q, c, "len", LenBytes, "TYPE"))
       [] q.state = "TYPE" ->
            IF Fork THEN ForkAcceptType(q, c)
            ELSE Goes(AcceptNumber(q, c, "type", TypeBytes, "HEAD_CKSUM"))
       [] q.state = "HEAD_CKSUM" ->
            IF Fork THEN ForkAcceptHeadCksum(q, c) ELSE AcceptHeadCksum(q, c)
       [] q.state = "DATA" -> Goes(AcceptData(q, c))
       [] q.state = "DATA_CKSUM" ->
            IF Fork THEN ForkAcceptDataCksum(q, c) ELSE AcceptDataCksum(q, c)

-----------------------------------------------------------------------------
\* The byte c arrives: TF_Accept passes it to TF_AcceptChar.
TF_Accept(c) ==
  LET step == TF_AcceptChar(p, c)
      begins == p.state = "SOF" \/ TimedOut(p)
  IN /\ p' = step.p /\ out' = step.out
     /\ hist' = IF step.p.state = "SOF" /\ step.out = NoMsg THEN <<>>
                ELSE IF begins THEN <<c>> ELSE Append(hist, c)

\* A byte between frames.
Noise(c) ==
  /\ feed = <<>>
  /\ TF_Accept(c)
  /\ cur' = NoMsg /\ ready' = FALSE /\ flaw' = "none"
  /\ UNCHANGED feed

\* The peer writes a frame.
Send(m) ==
  /\ feed = <<>>
  /\ feed' = Compose(m) /\ cur' = m
  /\ ready' = FALSE /\ flaw' = "none" /\ out' = NoMsg
  /\ UNCHANGED <<p, hist>>

\* Bytes of the frame that have left the peer.
Gone == Len(Compose(cur)) - Len(feed)

\* The parser stays free of earlier bytes and pauses with the byte to come.
StillReady == IF Gone = 0 THEN p.state = "SOF" \/ TimedOut(p)
                          ELSE ready /\ ~TimedOut(p)

Receive ==
  /\ feed # <<>>
  /\ TF_Accept(Head(feed))
  /\ feed' = Tail(feed) /\ ready' = StillReady
  /\ UNCHANGED <<cur, flaw>>

\* The next byte, not the SOF, arrives as c.
Corrupt(c) ==
  /\ feed # <<>> /\ Gone > 0 /\ flaw = "none" /\ c # Head(feed)
  /\ TF_Accept(c)
  /\ feed' = Tail(feed) /\ ready' = StillReady
  /\ flaw' = IF Gone < HeadLen THEN "head" ELSE "body"
  /\ UNCHANGED cur

\* The next byte is lost.
Lose ==
  /\ feed # <<>> /\ flaw = "none"
  /\ feed' = Tail(feed) /\ flaw' = "lost"
  /\ out' = NoMsg
  /\ UNCHANGED <<p, cur, ready, hist>>

\* The part of TF_Tick that concerns the parser.
TF_Tick ==
  /\ ~TimedOut(p)
  /\ p' = [p EXCEPT !.ticks = p.ticks + 1]
  /\ UNCHANGED <<out, feed, cur, ready, flaw, hist>>

Next == \/ \E c \in Byte : Noise(c) \/ Corrupt(c)
        \/ \E m \in Frames : Send(m)
        \/ Receive \/ Lose \/ TF_Tick

Spec == Init /\ [][Next]_vars

-----------------------------------------------------------------------------
\* The parser's fields stay within their widths and data within its buffer.
TypeOK ==
  /\ p.state \in {"SOF", "ID", "LEN", "TYPE", "HEAD_CKSUM", "DATA", "DATA_CKSUM"}
  /\ p.id \in 0 .. Pow(IdBytes) - 1 /\ p.len \in 0 .. Pow(LenBytes) - 1
  /\ p.type \in 0 .. Pow(TypeBytes) - 1 /\ p.rxi \in 0 .. Pow(LenBytes) - 1
  /\ p.cksum \in Byte /\ p.discard \in BOOLEAN /\ p.ticks \in 0 .. TimeoutTicks
  /\ p.data \in Seq(Byte) /\ Len(p.data) <= MaxPayload

\* Nothing is made up: whatever the line does, a message passed to
\* TF_HandleReceivedMessage is the content of a well-formed frame, both
\* checksums included, that arrived byte after byte without a pause of
\* TimeoutTicks ticks.
DeliveredIsFrame == out # NoMsg => hist = Compose(out)

\* "Check the header checksum against the computed value": the head of a
\* frame with a payload that is reported as received is a correct head.
HeadVerified ==
  (out # NoMsg /\ Len(hist) > HeadLen) =>
    SubSeq(hist, 1, HeadLen) =
      ComposeHead(out.id, Len(hist) - HeadLen - 1, out.type)

\* Nothing is missed: a frame that arrives unharmed while the parser waits for
\* one, or after it has timed out inside an earlier one, is delivered with its
\* last byte and only then, unless it is too long; the parser waits for the
\* next frame after it.
FrameDelivered ==
  (cur # NoMsg /\ ready /\ flaw = "none") =>
    IF feed = <<>>
    THEN /\ out = IF Len(cur.data) <= MaxPayload THEN cur ELSE NoMsg
         /\ p.state = "SOF"
    ELSE Gone > 0 => out = NoMsg

\* One changed byte is caught: in the head, by the end of the head; in the
\* payload or its checksum, by the end of the frame; the frame is dropped.
SingleErrorCaught ==
  (cur # NoMsg /\ ready) =>
    /\ (flaw = "head" /\ Gone = HeadLen) => out = NoMsg /\ p.state = "SOF"
    /\ flaw = "body" => out = NoMsg /\ (feed = <<>> => p.state = "SOF")
=============================================================================
