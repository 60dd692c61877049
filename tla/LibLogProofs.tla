---------------------------- MODULE LibLogProofs ----------------------------
(***************************************************************************)
(* What LibLog promises of the lines in the files holds for any queue, any *)
(* number of lines, days, runs and calls of init_log: they are in order,   *)
(* they are of the run that wrote them, init_log leaves the files of the   *)
(* last days only, and a file passes the size limit by no more than the    *)
(* lines of the writers that have found room in it.                        *)
(***************************************************************************)
EXTENDS LibLog, FiniteSetTheorems, WellFoundedInduction, TLAPS

\* Lines and writers, without their bounds.
Item == [n : Nat, len : Nat, run : Nat, by : Nat]
Thread == [pc : {"none", "begin", "rcv", "open", "size", "write"}, line : Item, day : Nat]

Types ==
  /\ day \in Nat \ {0} /\ exists \subseteq 1 .. day
  /\ files \in [Days -> Seq(Item)] /\ queue \in Seq(Item)
  /\ run \in Nat /\ s_msg_id \in BOOLEAN /\ r_msg_id \in BOOLEAN /\ init \in {"idle", "remove", "create"}
  /\ inits \in Nat /\ writer \in [Writers -> Thread]
  /\ lines \in Nat /\ single \in BOOLEAN

\* A writer that has a line in hand.
Holding(w) == writer[w].pc \in {"open", "size", "write"}

\* The process sends to no queue that it does not receive from, and what it can
\* still get at is of its own run: the lines in the queue as soon as it has
\* opened or emptied it, and those the writers hold.
OwnLines ==
  /\ s_msg_id => r_msg_id
  /\ r_msg_id \/ init = "create" => \A i \in DOMAIN queue : queue[i].run = run
  /\ \A w \in Writers : Holding(w) => writer[w].line.run = run

\* With one call of init_log there is one writer.
OneWriter == inits <= 1 /\ \A w \in Writers : w # 1 => writer[w].pc = "none"

\* Lines move from the queue to the writer and on to the files, and keep their
\* order: those behind have higher numbers.
QueueInOrder ==
  \A j \in DOMAIN queue : /\ queue[j].n <= lines
                          /\ \A k \in DOMAIN queue : k < j => queue[k].n < queue[j].n

HeldInOrder ==
  \A w \in Writers : Holding(w) =>
    /\ writer[w].line.n <= lines
    /\ \A j \in DOMAIN queue : writer[w].line.n < queue[j].n

WrittenInOrder ==
  \A d \in Days : \A i \in DOMAIN files[d] :
    /\ files[d][i].n <= lines
    /\ \A j \in DOMAIN queue : files[d][i].n < queue[j].n
    /\ \A w \in Writers : Holding(w) => files[d][i].n < writer[w].line.n

\* No file is of a later day than today, nor than the one the writer has opened.
DaysInOrder ==
  \A d \in Days : files[d] # <<>> =>
    /\ d <= day
    /\ \A w \in Writers : writer[w].pc \in {"size", "write"} => d <= writer[w].day

Order == /\ OneWriter /\ QueueInOrder /\ HeldInOrder /\ WrittenInOrder
         /\ DaysInOrder /\ InOrder

LogInv == Types /\ OwnLines /\ NoStaleLines /\ (single => Order)

LEMMA InitLogInv == Init => LogInv
<1> SUFFICES ASSUME Init PROVE LogInv
  OBVIOUS
<1>1. Types
  <2>1. NoThread \in Thread
    BY DEF NoThread, NoLine, Thread, Item
  <2>2. files \in [Days -> Seq(Item)] /\ writer \in [Writers -> Thread]
    BY <2>1 DEF Init
  <2>3. s_msg_id \in BOOLEAN /\ r_msg_id \in BOOLEAN /\ single \in BOOLEAN
    BY Zenon DEF Init
  <2> QED BY <2>2, <2>3 DEF Init, Types
<1>2. OwnLines /\ NoStaleLines
  BY DEF Init, OwnLines, NoStaleLines, Holding, NoThread
<1>3. Order
  BY DEF Init, Order, OneWriter, QueueInOrder, HeldInOrder, WrittenInOrder, DaysInOrder,
         InOrder, Holding, NoThread
<1> QED BY <1>1, <1>2, <1>3 DEF LogInv

\* A step in which lines and files may be lost, but nothing is logged, received
\* or written.
LEMMA LosingKeepsOrder ==
  ASSUME LogInv, Types', lines' = lines, day <= day',
         \A d \in Days : files'[d] = files[d] \/ files'[d] = <<>>,
         queue' = queue \/ queue' = <<>>,
         single' => single /\ OneWriter',
         \A w \in Writers :
           /\ Holding(w)' => Holding(w) /\ writer'[w].line = writer[w].line
           /\ writer'[w].pc \in {"size", "write"} =>
                \/ writer[w].pc \in {"size", "write"} /\ writer'[w].day = writer[w].day
                \/ writer'[w].day = day
  PROVE  NoStaleLines' /\ (single' => Order')
<1>1. NoStaleLines'
  BY DEF LogInv, NoStaleLines
<1>2. ASSUME single' PROVE Order'
  <2>1. Order
    BY <1>2 DEF LogInv
  <2>2. QueueInOrder'
    BY <2>1 DEF Order, QueueInOrder
  <2>3. HeldInOrder'
    BY <2>1 DEF Order, HeldInOrder
  <2>4. WrittenInOrder'
    BY <2>1 DEF Order, WrittenInOrder
  <2>5. DaysInOrder'
    BY <2>1 DEF Order, DaysInOrder, LogInv, Types, Days
  <2>6. InOrder'
    BY <1>2, <2>1 DEF Order, InOrder, LogInv
  <2> QED BY <1>2, <2>2, <2>3, <2>4, <2>5, <2>6 DEF Order
<1> QED BY <1>1, <1>2

\* init_log removes files.
LEMMA InitLogStep ==
  ASSUME LogInv, init_log
  PROVE  LogInv'
<1>1. PICK gone :
        /\ exists' = exists \ gone
        /\ files' = [d \in Days |-> IF d \in gone THEN <<>> ELSE files[d]]
  BY DEF init_log
<1>2. /\ inits' = inits + 1 /\ single' = (single /\ inits = 0) /\ init' = "remove" /\ init = "idle"
      /\ UNCHANGED <<day, queue, run, s_msg_id, r_msg_id, writer, lines>>
  BY DEF init_log
<1>3. Types'
  <2>1. files' \in [Days -> Seq(Item)]
    BY <1>1 DEF LogInv, Types
  <2>2. single' \in BOOLEAN /\ s_msg_id' \in BOOLEAN /\ r_msg_id' \in BOOLEAN
    BY <1>2, Zenon DEF LogInv, Types
  <2>3. inits' \in Nat
    BY <1>2 DEF LogInv, Types
  <2> QED BY <1>1, <1>2, <2>1, <2>2, <2>3 DEF LogInv, Types
<1>4. OwnLines'
  BY <1>2 DEF LogInv, OwnLines, Holding
<1>5. single' => single /\ OneWriter'
  <2>1. single' => single /\ inits = 0
    BY <1>2, Zenon
  <2> QED BY <1>2, <2>1 DEF LogInv, Order, OneWriter
<1>6. NoStaleLines' /\ (single' => Order')
  BY <1>1, <1>2, <1>3, <1>5, LosingKeepsOrder DEF Holding, LogInv, Types
<1> QED BY <1>3, <1>4, <1>6 DEF LogInv

\* open_msg removes the queue and what is in it.
LEMMA RemoveStep ==
  ASSUME LogInv, open_msg_remove
  PROVE  LogInv'
<1>1. UNCHANGED <<day, exists, files, run, inits, writer, single, lines>>
  BY DEF open_msg_remove
<1>2. \/ queue' = <<>> /\ r_msg_id' = FALSE /\ init' = "create"
      \/ queue' = queue /\ r_msg_id' = r_msg_id /\ init' = "idle"
  BY DEF open_msg_remove, QueueRemoved
<1>ids. s_msg_id' \in BOOLEAN /\ (s_msg_id' => r_msg_id')
  <2>1. \/ s_msg_id' = FALSE
        \/ s_msg_id' = s_msg_id /\ r_msg_id' = r_msg_id
    BY Zenon DEF open_msg_remove
  <2>2. s_msg_id \in BOOLEAN /\ (s_msg_id => r_msg_id)
    BY DEF LogInv, Types, OwnLines
  <2>3. CASE s_msg_id' = FALSE
    BY <2>3
  <2>4. CASE s_msg_id' = s_msg_id /\ r_msg_id' = r_msg_id
    BY <2>2, <2>4
  <2> QED BY <2>1, <2>3, <2>4
<1>3. Types'
  <2>1. r_msg_id' \in BOOLEAN /\ s_msg_id' \in BOOLEAN
    BY <1>2, <1>ids, Zenon DEF LogInv, Types
  <2>2. queue' \in Seq(Item)
    <3>1. queue' = <<>> \/ queue' = queue
      BY <1>2, Zenon
    <3>2. queue \in Seq(Item)
      BY DEF LogInv, Types
    <3>3. <<>> \in Seq(Item)
      OBVIOUS
    <3> QED BY <3>1, <3>2, <3>3
  <2> QED BY <1>1, <1>2, <2>1, <2>2 DEF LogInv, Types
<1>4. OwnLines'
  BY <1>1, <1>2, <1>ids DEF LogInv, OwnLines, Holding
<1>5. single' => single /\ OneWriter'
  BY <1>1 DEF LogInv, Order, OneWriter
<1>6. NoStaleLines' /\ (single' => Order')
  BY <1>1, <1>2, <1>3, <1>5, LosingKeepsOrder DEF Holding, LogInv, Types
<1> QED BY <1>3, <1>4, <1>6 DEF LogInv

\* The queue that is created anew is empty, and one writer is started.
LEMMA CreateStep ==
  ASSUME LogInv, open_msg_create
  PROVE  LogInv'
<1>1. /\ init = "create" /\ init' = "idle"
      /\ UNCHANGED <<day, exists, files, queue, run, inits, single, lines>>
      /\ r_msg_id' \in BOOLEAN /\ s_msg_id' \in BOOLEAN
      /\ \/ s_msg_id' = TRUE /\ r_msg_id' = TRUE
         \/ UNCHANGED <<s_msg_id, r_msg_id>>
      /\ writer' = writer \/ writer' = [writer EXCEPT ![inits].pc = "begin"]
  BY DEF open_msg_create, LogInv, Types
<1>2. writer' \in [Writers -> Thread]
  BY <1>1 DEF LogInv, Types, Thread
<1>3. Types'
  BY <1>1, <1>2 DEF LogInv, Types
<1>4. \A w \in Writers : \/ writer'[w] = writer[w]
                         \/ w = inits /\ writer'[w].pc = "begin"
  <2>1. CASE writer' = writer
    BY <2>1
  <2>2. CASE writer' = [writer EXCEPT ![inits].pc = "begin"]
    BY <2>2 DEF LogInv, Types, Thread
  <2> QED BY <1>1, <2>1, <2>2
<1>5. OwnLines'
  BY <1>1, <1>4 DEF LogInv, OwnLines, Holding
<1>6. single' => single /\ OneWriter'
  BY <1>1, <1>4 DEF LogInv, Types, Order, OneWriter, Writers
<1>7. NoStaleLines' /\ (single' => Order')
  BY <1>1, <1>3, <1>4, <1>6, LosingKeepsOrder DEF Holding, LogInv, Types
<1> QED BY <1>3, <1>5, <1>7 DEF LogInv

-----------------------------------------------------------------------------
LEMMA SendTypes ==
  ASSUME LogInv, NEW len \in Lens, send_msg(len), writer' \in [Writers -> Thread],
         UNCHANGED <<day, exists, files, run, s_msg_id, r_msg_id, init, inits, single>>
  PROVE  Types'
<1>1. lines' = lines + 1 /\ lines' \in Nat
  BY DEF send_msg, LogInv, Types
<1>2. [n |-> lines', len |-> len, run |-> run, by |-> 0] \in Item /\ queue \in Seq(Item)
  BY <1>1, LogAssumption DEF LogInv, Types, Item
<1>3. queue' \in Seq(Item)
  BY <1>2 DEF send_msg
<1> QED BY <1>1, <1>3 DEF LogInv, Types

\* send_msg queues a line with a number of its own, or loses it.
LEMMA SendStep ==
  ASSUME LogInv, NEW len \in Lens, send_msg(len), Types',
         UNCHANGED <<day, files, run, s_msg_id, r_msg_id, init, inits, single>>,
         \A w \in Writers : \/ writer'[w] = writer[w]
                            \/ /\ writer[w].pc = "begin" /\ writer'[w].pc = "rcv"
  PROVE  LogInv'
<1> DEFINE new == [n |-> lines + 1, len |-> len, run |-> run, by |-> 0]
<1>1. lines' = lines + 1 /\ lines \in Nat
  BY DEF send_msg, LogInv, Types
<1>2. queue' = queue \/ (r_msg_id /\ queue' = Append(queue, new))
  BY <1>1 DEF send_msg, LogInv, OwnLines
<1>3. new \in Item /\ queue \in Seq(Item)
  BY LogAssumption DEF LogInv, Types, Item
<1>4. \A j \in DOMAIN queue' : \/ j \in DOMAIN queue /\ queue'[j] = queue[j]
                              \/ /\ r_msg_id /\ j = Len(queue) + 1 /\ queue'[j] = new
                                 /\ \A k \in DOMAIN queue : k < j
  BY <1>2, <1>3
<1>5. \A w \in Writers : /\ Holding(w)' => Holding(w) /\ writer'[w].line = writer[w].line
                         /\ writer'[w].pc \in {"size", "write"}
                              => writer[w].pc \in {"size", "write"} /\ writer'[w].day = writer[w].day
  BY DEF Holding
<1> HIDE DEF new
<1>6. new.n = lines + 1 /\ new.run = run
  BY DEF new
<1>7. OwnLines'
  BY <1>4, <1>5, <1>6 DEF LogInv, OwnLines
<1>8. NoStaleLines'
  BY DEF LogInv, NoStaleLines
<1>9. ASSUME single' PROVE Order'
  <2>1. Order
    BY <1>9 DEF LogInv
  <2>2. OneWriter'
    BY <2>1 DEF Order, OneWriter
  <2>3. QueueInOrder'
    <3> SUFFICES ASSUME NEW j \in DOMAIN queue'
                 PROVE  /\ queue'[j].n <= lines'
                        /\ \A k \in DOMAIN queue' : k < j => queue'[k].n < queue'[j].n
      BY DEF QueueInOrder
    <3>1. \A k \in DOMAIN queue : queue[k].n \in Nat /\ queue[k].n <= lines
      <4>1. \A k \in DOMAIN queue : queue[k] \in Item
        BY <1>3
      <4> QED BY <2>1, <4>1 DEF Order, QueueInOrder, Item
    <3>2. CASE j \in DOMAIN queue /\ queue'[j] = queue[j]
      <4>1. \A k \in DOMAIN queue' : k < j => k \in DOMAIN queue /\ queue'[k] = queue[k]
        BY <1>3, <1>4, <3>2
      <4> QED BY <1>1, <2>1, <3>1, <3>2, <4>1 DEF Order, QueueInOrder
    <3>3. CASE queue'[j] = new /\ j = Len(queue) + 1
      <4>1. \A k \in DOMAIN queue' : k < j => k \in DOMAIN queue /\ queue'[k] = queue[k]
        BY <1>3, <1>4, <3>3
      <4> QED BY <1>1, <1>6, <3>1, <3>3, <4>1
    <3> QED BY <1>4, <3>2, <3>3
  <2>4. HeldInOrder'
    <3> SUFFICES ASSUME NEW w \in Writers, Holding(w)'
                 PROVE  /\ writer'[w].line.n <= lines'
                        /\ \A j \in DOMAIN queue' : writer'[w].line.n < queue'[j].n
      BY DEF HeldInOrder
    <3>1. /\ writer'[w].line = writer[w].line
          /\ writer[w].line.n \in Nat /\ writer[w].line.n <= lines
          /\ \A j \in DOMAIN queue : writer[w].line.n < queue[j].n
      BY <1>5, <2>1 DEF Order, HeldInOrder, LogInv, Types, Thread, Item
    <3> QED BY <1>1, <1>4, <1>6, <3>1
  <2>5. WrittenInOrder'
    <3> SUFFICES ASSUME NEW d \in Days, NEW i \in DOMAIN files[d]
                 PROVE  /\ files[d][i].n <= lines'
                        /\ \A j \in DOMAIN queue' : files[d][i].n < queue'[j].n
                        /\ \A w \in Writers : Holding(w)' => files[d][i].n < writer'[w].line.n
      BY DEF WrittenInOrder
    <3>1. /\ files[d][i].n \in Nat /\ files[d][i].n <= lines
          /\ \A j \in DOMAIN queue : files[d][i].n < queue[j].n
          /\ \A w \in Writers : Holding(w) => files[d][i].n < writer[w].line.n
      <4>1. files[d] \in Seq(Item)
        BY DEF LogInv, Types
      <4>2. files[d][i] \in Item
        BY <4>1
      <4> QED BY <2>1, <4>2 DEF Order, WrittenInOrder, Item
    <3> QED BY <1>1, <1>4, <1>5, <1>6, <3>1
  <2>6. DaysInOrder'
    BY <1>5, <2>1 DEF Order, DaysInOrder
  <2>7. InOrder'
    BY <1>9, <2>1 DEF Order, InOrder
  <2> QED BY <2>2, <2>3, <2>4, <2>5, <2>6, <2>7 DEF Order
<1> QED BY <1>7, <1>8, <1>9 DEF LogInv

\* The writer takes the line with the lowest number.
LEMMA ReceiveStep ==
  ASSUME LogInv, NEW w \in Writers, Receive(w)
  PROVE  LogInv'
<1>1. /\ r_msg_id /\ queue # <<>> /\ writer[w].pc = "rcv"
      /\ writer' = [writer EXCEPT ![w].pc = "open", ![w].line = Head(queue)]
      /\ queue' = Tail(queue)
      /\ UNCHANGED <<day, exists, files, run, s_msg_id, r_msg_id, init, inits, single, lines>>
  BY DEF Receive, Taken
<1>2. queue \in Seq(Item) /\ Head(queue) = queue[1] /\ queue[1] \in Item /\ 1 \in DOMAIN queue
  BY <1>1 DEF LogInv, Types
<1>3. Types'
  <2>1. queue' \in Seq(Item)
    BY <1>1, <1>2
  <2>2. writer' \in [Writers -> Thread]
    BY <1>1, <1>2 DEF LogInv, Types, Thread
  <2> QED BY <1>1, <2>1, <2>2 DEF LogInv, Types
<1>4. \A j \in DOMAIN queue' : j + 1 \in DOMAIN queue /\ queue'[j] = queue[j + 1] /\ j \in Nat /\ 1 <= j
  BY <1>1, <1>2
<1>5. /\ writer'[w].pc = "open" /\ writer'[w].line = queue[1]
      /\ \A v \in Writers : v # w => writer'[v] = writer[v]
  BY <1>1, <1>2 DEF LogInv, Types, Thread
<1>6. OwnLines'
  <2>1. r_msg_id /\ queue[1].run = run /\ \A j \in DOMAIN queue : queue[j].run = run
    BY <1>1, <1>2 DEF LogInv, OwnLines
  <2>2. \A j \in DOMAIN queue' : queue'[j].run = run
    BY <1>4, <2>1
  <2>3. \A v \in Writers : Holding(v)' => writer'[v].line.run = run
    BY <1>5, <2>1 DEF LogInv, OwnLines, Holding
  <2> QED BY <1>1, <2>2, <2>3 DEF OwnLines
<1>7. NoStaleLines'
  BY <1>1 DEF LogInv, NoStaleLines
<1>8. ASSUME single' PROVE Order'
  <2>1. Order
    BY <1>1, <1>8 DEF LogInv
  <2>2. OneWriter' /\ \A v \in Writers : Holding(v)' => v = w
    BY <1>1, <1>5, <2>1 DEF Order, OneWriter, Holding
  <2>3. QueueInOrder'
    BY <1>1, <1>4, <2>1 DEF Order, QueueInOrder
  <2>4. HeldInOrder'
    <3>1. queue[1].n <= lines /\ \A j \in DOMAIN queue' : queue[1].n < queue'[j].n
      <4>1. \A j \in DOMAIN queue' : 1 < j + 1 /\ j + 1 \in DOMAIN queue
        BY <1>4
      <4> QED BY <1>2, <1>4, <2>1, <4>1 DEF Order, QueueInOrder
    <3> QED BY <1>1, <1>5, <2>2, <3>1 DEF HeldInOrder
  <2>5. WrittenInOrder'
    <3> SUFFICES ASSUME NEW d \in Days, NEW i \in DOMAIN files[d]
                 PROVE  /\ files[d][i].n <= lines
                        /\ \A j \in DOMAIN queue' : files[d][i].n < queue'[j].n
                        /\ \A v \in Writers : Holding(v)' => files[d][i].n < writer'[v].line.n
      BY <1>1 DEF WrittenInOrder
    <3>1. files[d][i].n <= lines /\ \A j \in DOMAIN queue : files[d][i].n < queue[j].n
      BY <2>1 DEF Order, WrittenInOrder
    <3>2. files[d][i].n < writer'[w].line.n
      BY <1>2, <1>5, <3>1
    <3> QED BY <1>4, <2>2, <3>1, <3>2
  <2>6. DaysInOrder'
    BY <1>1, <1>5, <2>1 DEF Order, DaysInOrder
  <2>7. InOrder'
    BY <1>1, <1>8, <2>1 DEF Order, InOrder
  <2> QED BY <2>2, <2>3, <2>4, <2>5, <2>6, <2>7 DEF Order
<1> QED BY <1>3, <1>6, <1>7, <1>8 DEF LogInv

\* The writer opens today's file, or gives the line up before or after that.
LEMMA OpenOrCheckStep ==
  ASSUME LogInv, NEW w \in Writers, OpenFile(w) \/ CheckSize(w)
  PROVE  LogInv'
<1>1. UNCHANGED <<day, files, queue, run, s_msg_id, r_msg_id, init, inits, single, lines>>
  BY DEF OpenFile, CheckSize
<1>2. exists' = exists \/ exists' = exists \cup {day}
  BY DEF OpenFile, CheckSize
<1>3. /\ writer[w].pc \in {"open", "size"}
      /\ \/ writer' = [writer EXCEPT ![w].pc = "rcv", ![w].line = NoLine]
         \/ writer' = [writer EXCEPT ![w].pc = "size", ![w].day = day]
         \/ writer[w].pc = "size" /\ writer' = [writer EXCEPT ![w].pc = "write"]
  BY DEF OpenFile, CheckSize
<1>4. day \in 1 .. day /\ writer \in [Writers -> Thread] /\ NoLine \in Item
  BY DEF LogInv, Types, NoLine, Item
<1>5. /\ \A v \in Writers : v # w => writer'[v] = writer[v]
      /\ \/ writer'[w].pc = "rcv"
         \/ /\ writer'[w].pc = "size" /\ writer'[w].line = writer[w].line
            /\ writer'[w].day = day
         \/ /\ writer'[w].pc = "write" /\ writer'[w].line = writer[w].line
            /\ writer[w].pc = "size" /\ writer'[w].day = writer[w].day
  BY <1>3, <1>4 DEF Thread
<1>6. Types'
  <2>1. writer' \in [Writers -> Thread]
    BY <1>3, <1>4 DEF Thread
  <2> QED BY <1>1, <1>2, <1>4, <2>1 DEF LogInv, Types
<1>7. OwnLines'
  BY <1>1, <1>3, <1>5 DEF LogInv, OwnLines, Holding
<1>8. single' => single /\ OneWriter'
  BY <1>1, <1>3, <1>5 DEF LogInv, Order, OneWriter
<1>9. \A v \in Writers :
        /\ Holding(v)' => Holding(v) /\ writer'[v].line = writer[v].line
        /\ writer'[v].pc \in {"size", "write"} =>
             \/ writer[v].pc \in {"size", "write"} /\ writer'[v].day = writer[v].day
             \/ writer'[v].day = day
  BY <1>3, <1>5 DEF Holding
<1>10. NoStaleLines' /\ (single' => Order')
  BY <1>1, <1>4, <1>6, <1>8, <1>9, LosingKeepsOrder
<1> QED BY <1>6, <1>7, <1>10 DEF LogInv

\* The line goes to the end of its file, which is the last one.
LEMMA WriteStep ==
  ASSUME LogInv, NEW w \in Writers, WriteLine(w)
  PROVE  LogInv'
<1> DEFINE d == writer[w].day
           new == [writer[w].line EXCEPT !.by = run]
<1>1. /\ writer[w].pc = "write"
      /\ writer' = [writer EXCEPT ![w].pc = "rcv", ![w].line = NoLine]
      /\ UNCHANGED <<day, exists, queue, run, s_msg_id, r_msg_id, init, inits, single, lines>>
      /\ \/ files' = files
         \/ d \in exists /\ files' = [files EXCEPT ![d] = Append(files[d], new)]
  BY DEF WriteLine
<1>2. /\ writer \in [Writers -> Thread] /\ files \in [Days -> Seq(Item)] /\ NoLine \in Item
      /\ day \in Nat /\ exists \subseteq 1 .. day /\ run \in Nat
  BY DEF LogInv, Types, NoLine, Item
<1>3. writer[w].line \in Item /\ writer[w].line.run = run
  BY <1>1, <1>2 DEF Thread, LogInv, OwnLines, Holding
<1>4. new \in Item /\ new.n = writer[w].line.n /\ new.by = new.run
  BY <1>2, <1>3 DEF Item
<1>5. /\ writer'[w].pc = "rcv"
      /\ \A v \in Writers : v # w => writer'[v] = writer[v]
  BY <1>1, <1>2 DEF Thread
<1> HIDE DEF new
<1>6. Types'
  <2>1. writer' \in [Writers -> Thread]
    <3>1. NoLine \in Item /\ writer \in [Writers -> Thread]
      BY <1>2
    <3>2. writer' = [writer EXCEPT ![w].pc = "rcv", ![w].line = NoLine]
      BY <1>1
    <3> QED BY <3>1, <3>2 DEF Thread
  <2>2. files' \in [Days -> Seq(Item)]
    <3>1. CASE d \in Days
      <4>1. Append(files[d], new) \in Seq(Item)
        BY <1>2, <1>4, <3>1
      <4> QED BY <1>1, <1>2, <4>1
    <3>2. CASE d \notin Days
      BY <1>1, <1>2, <3>2
    <3> QED BY <3>1, <3>2
  <2> QED BY <1>1, <2>1, <2>2 DEF LogInv, Types
<1>7. \A e \in Days : \A i \in DOMAIN files'[e] :
        \/ i \in DOMAIN files[e] /\ files'[e][i] = files[e][i]
        \/ /\ e = d /\ d \in exists /\ files'[e][i] = new
           /\ \A j \in DOMAIN files'[e] : j <= i
  <2> SUFFICES ASSUME NEW e \in Days, NEW i \in DOMAIN files'[e]
               PROVE  \/ i \in DOMAIN files[e] /\ files'[e][i] = files[e][i]
                      \/ /\ e = d /\ d \in exists /\ files'[e][i] = new
                         /\ \A j \in DOMAIN files'[e] : j <= i
    OBVIOUS
  <2>1. CASE files'[e] = files[e]
    BY <2>1
  <2>2. CASE e = d /\ d \in exists /\ files'[e] = Append(files[e], new)
    <3>1. files[e] \in Seq(Item)
      BY <1>2
    <3> QED BY <1>4, <2>2, <3>1
  <2> QED BY <1>1, <1>2, <2>1, <2>2
<1>8. OwnLines'
  BY <1>1, <1>5 DEF LogInv, OwnLines, Holding
<1>9. NoStaleLines'
  BY <1>4, <1>7 DEF LogInv, NoStaleLines
<1>10. ASSUME single' PROVE Order'
  <2>1. Order /\ Holding(w)
    BY <1>1, <1>10 DEF LogInv, Holding
  <2>2. OneWriter' /\ \A v \in Writers : ~Holding(v)'
    BY <1>1, <1>5, <2>1 DEF Order, OneWriter, Holding
  <2>3. QueueInOrder' /\ HeldInOrder'
    BY <1>1, <2>1, <2>2 DEF Order, QueueInOrder, HeldInOrder
  <2>4. WrittenInOrder'
    BY <1>1, <1>4, <1>7, <2>1, <2>2 DEF Order, WrittenInOrder, HeldInOrder
  <2>5. DaysInOrder'
    <3> SUFFICES ASSUME NEW e \in Days, files'[e] # <<>>
                 PROVE  e <= day
      BY <1>1, <2>2 DEF DaysInOrder, Holding
    <3>1. CASE files'[e] = files[e]
      BY <2>1, <3>1 DEF Order, DaysInOrder
    <3>2. CASE files'[e] # files[e]
      <4>1. e = d /\ d \in exists
        BY <1>1, <1>2, <3>2
      <4>2. e \in 1 .. day
        BY <1>2, <4>1, Zenon
      <4> QED BY <4>2
    <3> QED BY <3>1, <3>2
  <2>6. InOrder'
    <3> SUFFICES ASSUME NEW a \in Days, NEW b \in Days,
                        NEW i \in DOMAIN files'[a], NEW j \in DOMAIN files'[b],
                        a < b \/ (a = b /\ i < j)
                 PROVE  files'[a][i].n < files'[b][j].n
      BY DEF InOrder
    <3>1. files \in [Days -> Seq(Item)] /\ a \in Nat /\ b \in Nat /\ files' \in [Days -> Seq(Item)]
      BY <1>6, LogAssumption DEF Days, LogInv, Types
    <3>2. CASE ~(i \in DOMAIN files[a] /\ files'[a][i] = files[a][i])
      <4>1. a = d /\ \A k \in DOMAIN files'[a] : k <= i
        BY <1>7, <3>2
      <4>2. a < b
        <5>1. files'[a] \in Seq(Item)
          BY <3>1
        <5>2. DOMAIN files'[a] \subseteq Nat
          BY <5>1
        <5> QED BY <4>1, <5>2
      <4>3. b # d /\ j \in DOMAIN files[b]
        BY <1>7, <3>1, <4>1, <4>2
      <4>4. files[b] # <<>>
        <5>1. DOMAIN <<>> = {}
          OBVIOUS
        <5> QED BY <4>3, <5>1
      <4>5. b <= d
        BY <1>1, <2>1, <4>4 DEF Order, DaysInOrder
      <4> QED BY <3>1, <4>1, <4>2, <4>5
    <3>3. CASE i \in DOMAIN files[a] /\ files'[a][i] = files[a][i]
      <4>1. CASE j \in DOMAIN files[b] /\ files'[b][j] = files[b][j]
        BY <1>1, <1>10, <2>1, <3>3, <4>1 DEF Order, InOrder
      <4>2. CASE files'[b][j] = new
        BY <1>4, <2>1, <3>3, <4>2 DEF Order, WrittenInOrder
      <4> QED BY <1>7, <4>1, <4>2
    <3> QED BY <3>2, <3>3
  <2> QED BY <2>2, <2>3, <2>4, <2>5, <2>6 DEF Order
<1> QED BY <1>6, <1>8, <1>9, <1>10 DEF LogInv

LEMMA MidnightStep ==
  ASSUME LogInv, Midnight
  PROVE  LogInv'
<1>1. day' = day + 1 /\ UNCHANGED <<exists, files, queue, process, lines>>
  BY DEF Midnight
<1>2. UNCHANGED <<run, s_msg_id, r_msg_id, init, inits, writer, single>>
  BY <1>1 DEF process
<1>3. Types'
  BY <1>1, <1>2 DEF LogInv, Types
<1>4. OwnLines'
  BY <1>1, <1>2 DEF LogInv, OwnLines, Holding
<1>5. single' => single /\ OneWriter'
  BY <1>2 DEF LogInv, Order, OneWriter
<1>6. day <= day'
  BY <1>1 DEF LogInv, Types
<1>7. NoStaleLines' /\ (single' => Order')
  BY <1>1, <1>2, <1>3, <1>5, <1>6, LosingKeepsOrder DEF Holding
<1> QED BY <1>3, <1>4, <1>7 DEF LogInv

\* A new run has not opened the queue.
LEMMA RestartStep ==
  ASSUME LogInv, Restart
  PROVE  LogInv'
<1>1. /\ run' = run + 1 /\ s_msg_id' = FALSE /\ r_msg_id' = FALSE /\ init' = "idle" /\ inits' = 0
      /\ writer' = [w \in Writers |-> NoThread]
      /\ UNCHANGED <<day, exists, files, queue, single, lines>>
  BY DEF Restart
<1>2. NoThread \in Thread /\ NoThread.pc = "none"
  BY DEF NoThread, NoLine, Thread, Item
<1>3. Types'
  <2>1. writer' \in [Writers -> Thread]
    BY <1>1, <1>2
  <2>2. run' \in Nat
    BY <1>1 DEF LogInv, Types
  <2>3. s_msg_id' \in BOOLEAN /\ r_msg_id' \in BOOLEAN
    BY <1>1, Zenon
  <2> QED BY <1>1, <2>1, <2>2, <2>3 DEF LogInv, Types
<1>4. \A w \in Writers : writer'[w].pc = "none"
  BY <1>1, <1>2
<1>5. OwnLines'
  BY <1>1, <1>4 DEF OwnLines, Holding
<1>6. single' => single /\ OneWriter'
  BY <1>1, <1>4 DEF OneWriter
<1>7. NoStaleLines' /\ (single' => Order')
  BY <1>1, <1>3, <1>4, <1>6, LosingKeepsOrder DEF Holding, LogInv, Types
<1> QED BY <1>3, <1>5, <1>7 DEF LogInv

LEMMA NextLogInv == LogInv /\ [Next]_vars => LogInv'
<1> SUFFICES ASSUME LogInv, [Next]_vars PROVE LogInv'
  OBVIOUS
<1>1. CASE init_log \/ open_msg_remove \/ open_msg_create \/ Midnight \/ Restart
  BY <1>1, InitLogStep, RemoveStep, CreateStep, MidnightStep, RestartStep
<1>2. ASSUME NEW len \in Lens, mylog1(len) PROVE LogInv'
  <2>1. /\ send_msg(len)
        /\ UNCHANGED <<day, exists, files, run, s_msg_id, r_msg_id, init, inits, writer, single>>
    BY <1>2 DEF mylog1, process
  <2>2. Types'
    BY <2>1, SendTypes DEF LogInv, Types
  <2> QED BY <2>1, <2>2, SendStep
<1>3. ASSUME NEW w \in Writers, NEW len \in Lens, thread_writelog(w, len) PROVE LogInv'
  <2>1. /\ send_msg(len) /\ writer[w].pc = "begin"
        /\ writer' = [writer EXCEPT ![w].pc = "rcv"]
        /\ UNCHANGED <<day, exists, files, run, s_msg_id, r_msg_id, init, inits, single>>
    BY <1>3 DEF thread_writelog
  <2>2. writer' \in [Writers -> Thread]
    BY <2>1 DEF LogInv, Types, Thread
  <2>3. \A v \in Writers : \/ writer'[v] = writer[v]
                           \/ /\ writer[v].pc = "begin" /\ writer'[v].pc = "rcv"
    BY <2>1 DEF LogInv, Types, Thread
  <2>4. Types'
    BY <2>1, <2>2, SendTypes
  <2> QED BY <2>1, <2>3, <2>4, SendStep
<1>4. ASSUME NEW w \in Writers, Receive(w) \/ OpenFile(w) \/ CheckSize(w) \/ WriteLine(w)
      PROVE  LogInv'
  BY <1>4, ReceiveStep, OpenOrCheckStep, WriteStep
<1>5. CASE UNCHANGED vars
  BY <1>5 DEF vars, process, LogInv, Types, OwnLines, NoStaleLines, Order, OneWriter,
          QueueInOrder, HeldInOrder, WrittenInOrder, DaysInOrder, InOrder, Holding
<1> QED BY <1>1, <1>2, <1>3, <1>4, <1>5 DEF Next, WriterStep

LEMMA LogInvAlways == Spec => []LogInv
BY InitLogInv, NextLogInv, PTL DEF Spec

-----------------------------------------------------------------------------
\* With one call of init_log per run, lines are written in the order in which
\* they were logged, each at most once, whatever is lost and wherever midnight
\* and restarts fall.
THEOREM LinesInOrder == Spec => []InOrder
<1>1. LogInv => InOrder
  BY DEF LogInv, Order, InOrder
<1> QED BY <1>1, LogInvAlways, PTL

\* The queue outlives the process, but no line of an earlier run is written by
\* a later one: open_msg has removed it before anybody reads from the queue.
THEOREM NothingStaleWritten == Spec => []NoStaleLines
<1>1. LogInv => NoStaleLines
  BY DEF LogInv
<1> QED BY <1>1, LogInvAlways, PTL

\* init_log leaves at most AliveDays files, one more east of UTC, and as many as
\* there are more than it can list.
THEOREM OldFilesGo == Spec => CleanupBounds
<1>1. LogInv /\ [Next]_vars =>
        [init = "idle" /\ init' = "remove"
            => Cardinality(exists') <= AliveDays + East + Unlisted(Cardinality(exists))]_vars
  <2> SUFFICES ASSUME LogInv, Next, init = "idle", init' = "remove"
               PROVE  Cardinality(exists') <= AliveDays + East + Unlisted(Cardinality(exists))
    BY Zenon
  <2>1. init_log
    BY DEF Next, open_msg_remove, open_msg_create, mylog1, process, WriterStep, Midnight,
           Restart, thread_writelog, Receive, OpenFile, CheckSize, WriteLine
  <2>2. PICK listed \in Listings : exists' = exists \ {d \in listed : Dead(d)}
    BY <2>1 DEF init_log
  <2>3. day \in Nat /\ exists \subseteq 1 .. day
    BY DEF LogInv, Types
  <2>4. IsFiniteSet(exists) /\ Cardinality(exists) \in Nat
    <3>1. 1 \in Int /\ day \in Int
      BY <2>3
    <3>2. IsFiniteSet(1 .. day)
      BY <3>1, FS_Interval, Zenon
    <3>3. IsFiniteSet(exists)
      BY <2>3, <3>2, FS_Subset
    <3> QED BY <3>3, FS_CardinalityType
  <2> DEFINE last == (day + 1) - (AliveDays + East)
             rest == exists \ listed
  <2>5. IsFiniteSet(rest) /\ Cardinality(rest) \in Nat /\ Cardinality(rest) <= Unlisted(Cardinality(exists))
    <3>1. listed \subseteq exists
      BY DEF Listings
    <3>2. IsFiniteSet(rest) /\ IsFiniteSet(listed)
      BY <2>4, <3>1, FS_Subset
    <3>3. Cardinality(rest) \in Nat /\ Cardinality(listed) \in Nat
      BY <3>2, FS_CardinalityType
    <3>4. CASE listed = exists
      <4>1. Cardinality(rest) = 0
        BY <3>4, FS_EmptySet
      <4> QED BY <2>4, <3>2, <3>3, <4>1, LogAssumption DEF Unlisted
    <3>5. CASE Cardinality(listed) = MaxCount
      <4>1. Cardinality(rest) = Cardinality(exists) - Cardinality(exists \cap listed)
        BY <2>4, FS_Difference
      <4>2. exists \cap listed = listed
        BY <3>1
      <4>3. Cardinality(rest) = Cardinality(exists) - MaxCount
        BY <3>5, <4>1, <4>2
      <4> HIDE DEF rest
      <4> QED BY <2>4, <3>2, <3>3, <4>3, LogAssumption DEF Unlisted
    <3> QED BY <3>4, <3>5 DEF Listings
  <2>6. exists' \subseteq (last .. day) \cup rest
    <3> SUFFICES ASSUME NEW d \in exists', d \in listed PROVE d \in last .. day
      BY <2>2
    <3>1. d \in 1 .. day /\ ~Dead(d)
      BY <2>2, <2>3, Zenon
    <3> QED BY <2>3, <3>1, LogAssumption DEF Dead
  <2>7. /\ IsFiniteSet(last .. day) /\ Cardinality(last .. day) \in Nat
        /\ Cardinality(last .. day) <= AliveDays + East
    <3>1. last \in Int /\ day \in Int
      BY <2>3, LogAssumption
    <3>2. /\ IsFiniteSet(last .. day)
          /\ Cardinality(last .. day) = IF last > day THEN 0 ELSE day - last + 1
      BY <3>1, FS_Interval
    <3> QED BY <2>3, <3>2, LogAssumption
  <2> HIDE DEF last, rest
  <2>8. /\ IsFiniteSet((last .. day) \cup rest)
        /\ Cardinality((last .. day) \cup rest)
             = Cardinality(last .. day) + Cardinality(rest) - Cardinality((last .. day) \cap rest)
    BY <2>5, <2>7, FS_Union
  <2>9. Cardinality((last .. day) \cap rest) \in Nat
    <3>1. IsFiniteSet((last .. day) \cap rest)
      BY <2>5, FS_Intersection
    <3> QED BY <3>1, FS_CardinalityType
  <2>10. /\ Cardinality(exists') \in Nat
         /\ Cardinality(exists') <= Cardinality((last .. day) \cup rest)
    BY <2>6, <2>8, FS_Subset, FS_CardinalityType
  <2>11. Unlisted(Cardinality(exists)) \in Nat
    BY <2>4, LogAssumption DEF Unlisted
  <2> QED BY <2>5, <2>7, <2>8, <2>9, <2>10, <2>11, LogAssumption
<1> QED BY <1>1, LogInvAlways, PTL DEF Spec, CleanupBounds

-----------------------------------------------------------------------------
(* The size of a file is a sum over its lines: what is true of it is proved *)
(* by induction, with sets of numbers in the place of predicates.           *)

LEMMA LeastNumber ==
  ASSUME NEW S, S \subseteq Nat, S # {}
  PROVE  \E x \in S : \A y \in S : x <= y
<1> DEFINE R == OpToRel(<, Nat)
<1>1. IsWellFoundedOn(R, Nat)
  BY NatLessThanWellFounded
<1>2. \A x, y \in Nat : <<y, x>> \in R <=> y < x
  BY DEF OpToRel
<1> HIDE DEF R
<1>3. PICK x \in S : \A y \in S : <<y, x>> \notin R
  BY <1>1, WFMin
<1>4. ASSUME NEW y \in S PROVE x <= y
  <2>1. x \in Nat /\ y \in Nat /\ ~(y < x)
    BY <1>2, <1>3
  <2> QED BY <2>1
<1> QED BY <1>4

LEMMA SetInduction ==
  ASSUME NEW S, 0 \in S, \A n \in Nat : n \in S => n + 1 \in S
  PROVE  Nat \subseteq S
<1> SUFFICES ASSUME Nat \ S # {} PROVE FALSE
  OBVIOUS
<1>1. PICK x \in Nat \ S : \A y \in Nat \ S : x <= y
  BY LeastNumber
<1>2. x - 1 \in Nat /\ x - 1 \notin S
  BY <1>1
<1> QED BY <1>1, <1>2

\* f[i] is the size of the first i of the lines s, for i up to n.
Sums(s, n, f) == f = [i \in 0 .. n |-> IF i = 0 THEN 0 ELSE f[i - 1] + s[i].len]

LEMMA SumsStep ==
  ASSUME NEW s \in Seq(Item), NEW n \in Nat, n <= Len(s), NEW f, Sums(s, n, f),
         NEW m \in Nat, m + 1 <= n
  PROVE  f[m + 1] = f[m] + s[m + 1].len
<1>1. m + 1 \in 0 .. n /\ m + 1 # 0 /\ (m + 1) - 1 = m
  OBVIOUS
<1> QED BY <1>1 DEF Sums

LEMMA SumsExist ==
  ASSUME NEW s \in Seq(Item)
  PROVE  \E f : Sums(s, Len(s), f)
<1> DEFINE S == {m \in Nat : m <= Len(s) => \E f : Sums(s, m, f)}
<1>1. 0 \in S
  <2>1. Sums(s, 0, [i \in 0 .. 0 |-> 0])
    BY DEF Sums
  <2> QED BY <2>1
<1>2. ASSUME NEW m \in Nat, m \in S, m + 1 <= Len(s) PROVE \E f : Sums(s, m + 1, f)
  <2>1. PICK f : Sums(s, m, f)
    BY <1>2
  <2> DEFINE g == [i \in 0 .. m + 1 |-> IF i = m + 1 THEN f[m] + s[m + 1].len ELSE f[i]]
  <2>2. Sums(s, m + 1, g)
    BY <2>1 DEF Sums
  <2> QED BY <2>2
<1>3. Nat \subseteq S
  <2>1. \A m \in Nat : m \in S => m + 1 \in S
    <3> HIDE DEF S
    <3> QED BY <1>2 DEF S
  <2> HIDE DEF S
  <2> QED BY <1>1, <2>1, SetInduction
<1> QED BY <1>3

LEMMA SumsAgree ==
  ASSUME NEW s \in Seq(Item), NEW t \in Seq(Item), Len(s) <= Len(t),
         \A i \in 1 .. Len(s) : s[i] = t[i],
         NEW f, Sums(s, Len(s), f), NEW g, Sums(t, Len(t), g)
  PROVE  f[Len(s)] = g[Len(s)] /\ f[Len(s)] \in Nat
<1> DEFINE S == {m \in Nat : m <= Len(s) => f[m] = g[m] /\ f[m] \in Nat}
<1>1. 0 \in S
  BY DEF Sums
<1>2. ASSUME NEW m \in Nat, m \in S, m + 1 <= Len(s)
      PROVE  f[m + 1] = g[m + 1] /\ f[m + 1] \in Nat
  <2>1. f[m] = g[m] /\ f[m] \in Nat /\ s[m + 1] \in Item /\ s[m + 1] = t[m + 1]
    BY <1>2
  <2>2. f[m + 1] = f[m] + s[m + 1].len
    BY <1>2, SumsStep
  <2>3. g[m + 1] = g[m] + t[m + 1].len
    BY <1>2, SumsStep
  <2>4. s[m + 1].len \in Nat
    BY <2>1 DEF Item
  <2> QED BY <2>1, <2>2, <2>3, <2>4
<1>3. Nat \subseteq S
  <2>1. \A m \in Nat : m \in S => m + 1 \in S
    BY <1>2
  <2> HIDE DEF S
  <2> QED BY <1>1, <2>1, SetInduction
<1> QED BY <1>3

LEMMA SizeIsSum ==
  ASSUME NEW s \in Seq(Item)
  PROVE  \E f : Sums(s, Len(s), f) /\ Size(s) = f[Len(s)]
<1>1. PICK f : Sums(s, Len(s), f)
  BY SumsExist
<1> QED BY <1>1 DEF Sums, Size

LEMMA SizeType ==
  ASSUME NEW s \in Seq(Item)
  PROVE  Size(s) \in Nat
<1>1. PICK f : Sums(s, Len(s), f) /\ Size(s) = f[Len(s)]
  BY SizeIsSum
<1> QED BY <1>1, SumsAgree

LEMMA SizeEmpty == Size(<<>>) = 0
<1>1. <<>> \in Seq(Item) /\ Len(<<>>) = 0
  OBVIOUS
<1>2. PICK f : Sums(<<>>, 0, f) /\ Size(<<>>) = f[0]
  BY <1>1, SizeIsSum
<1> QED BY <1>2 DEF Sums

LEMMA SizeAppend ==
  ASSUME NEW s \in Seq(Item), NEW e \in Item
  PROVE  Size(Append(s, e)) = Size(s) + e.len
<1> DEFINE t == Append(s, e)
<1>1. /\ t \in Seq(Item) /\ Len(t) = Len(s) + 1 /\ Len(s) \in Nat /\ t[Len(s) + 1] = e
      /\ \A i \in 1 .. Len(s) : s[i] = t[i]
  OBVIOUS
<1> HIDE DEF t
<1>2. PICK f : Sums(s, Len(s), f) /\ Size(s) = f[Len(s)]
  BY SizeIsSum
<1>3. PICK g : Sums(t, Len(t), g) /\ Size(t) = g[Len(t)]
  BY <1>1, SizeIsSum
<1>4. f[Len(s)] = g[Len(s)]
  BY <1>1, <1>2, <1>3, SumsAgree
<1>5. g[Len(s) + 1] = g[Len(s)] + t[Len(s) + 1].len
  BY <1>1, <1>3, SumsStep
<1> QED BY <1>1, <1>2, <1>3, <1>4, <1>5 DEF t

-----------------------------------------------------------------------------
(* The size limit. *)

\* The lines that are under way have the lengths of lines.
LinesFit ==
  /\ \A i \in DOMAIN queue : queue[i].len \in Lens
  /\ \A w \in Writers : Holding(w) => writer[w].line.len \in Lens

\* The writers that have found room in the file of day d.
Passed(d) == {w \in Writers : writer[w].pc = "write" /\ writer[w].day = d}

\* A file has room for the lines of those writers within the bound.
RoomLeft(d, len) ==
  Size(files[d]) + Cardinality(Passed(d)) * len < (MaxKb + 1) * Kb + MaxInits * len

Longest(len) == \A k \in Lens : k <= len

SizeInv == LinesFit /\ \A d \in Days, len \in Lens : Longest(len) => RoomLeft(d, len)

LEMMA FewPass ==
  ASSUME NEW S \in SUBSET Writers
  PROVE  /\ IsFiniteSet(S) /\ Cardinality(S) \in 0 .. MaxInits
         /\ \A T \in SUBSET S : Cardinality(T) \in 0 .. Cardinality(S)
         /\ \A w \in S : Cardinality(S \ {w}) = Cardinality(S) - 1
<1>1. 1 \in Int /\ MaxInits \in Int /\ MaxInits \in Nat
  BY LogAssumption
<1>2. IsFiniteSet(Writers) /\ Cardinality(Writers) = MaxInits
  BY <1>1, FS_Interval DEF Writers
<1>3. IsFiniteSet(S) /\ Cardinality(S) <= MaxInits
  BY <1>2, FS_Subset
<1>4. Cardinality(S) \in Nat
  BY <1>3, FS_CardinalityType
<1>5. ASSUME NEW T \in SUBSET S PROVE Cardinality(T) \in 0 .. Cardinality(S)
  <2>1. IsFiniteSet(T) /\ Cardinality(T) <= Cardinality(S)
    BY <1>3, FS_Subset
  <2>2. Cardinality(T) \in Nat
    BY <2>1, FS_CardinalityType
  <2> QED BY <1>4, <2>1, <2>2
<1>6. ASSUME NEW w \in S PROVE Cardinality(S \ {w}) = Cardinality(S) - 1
  BY <1>3, FS_RemoveElement
<1> QED BY <1>1, <1>3, <1>4, <1>5, <1>6

\* Products with a fixed factor are in the order of the other one.
LEMMA TimesMonotonic ==
  ASSUME NEW a \in Nat, NEW b \in Nat, a <= b, NEW c \in Nat
  PROVE  a * c <= b * c /\ a * c \in Nat /\ b * c \in Nat
<1>1. b - a \in Nat /\ b = a + (b - a)
  OBVIOUS
<1>2. b * c = a * c + (b - a) * c
  BY <1>1
<1>3. (b - a) * c \in Nat /\ a * c \in Nat
  BY <1>1
<1> QED BY <1>2, <1>3

\* A file that is below the limit has room for a line of every writer.
LEMMA BelowLimit ==
  ASSUME NEW n \in Nat, n < (MaxKb + 1) * Kb, NEW S \in SUBSET Writers, NEW len \in Lens
  PROVE  n + Cardinality(S) * len < (MaxKb + 1) * Kb + MaxInits * len
<1>1. len \in Nat /\ MaxInits \in Nat /\ (MaxKb + 1) * Kb \in Nat
  BY LogAssumption
<1>2. Cardinality(S) \in Nat /\ Cardinality(S) <= MaxInits
  BY <1>1, FewPass
<1>3. Cardinality(S) * len <= MaxInits * len /\ Cardinality(S) * len \in Nat
      /\ MaxInits * len \in Nat
  BY <1>1, <1>2, TimesMonotonic
<1> QED BY <1>1, <1>3

LEMMA LimitPositive == (MaxKb + 1) * Kb \in Nat /\ 0 < (MaxKb + 1) * Kb
<1>1. MaxKb \in Nat /\ Kb \in Nat /\ 1 <= Kb
  BY LogAssumption
<1>2. (MaxKb + 1) * Kb = MaxKb * Kb + Kb /\ MaxKb * Kb \in Nat
  BY <1>1
<1> QED BY <1>1, <1>2

\* Nothing is written and no writer finds room.
LEMMA RoomKept ==
  ASSUME Types, NEW d \in Days, NEW len \in Lens, RoomLeft(d, len),
         files'[d] = files[d] \/ files'[d] = <<>>, Passed(d)' \subseteq Passed(d)
  PROVE  RoomLeft(d, len)'
<1>1. Passed(d) \in SUBSET Writers /\ Passed(d)' \in SUBSET Writers
  BY DEF Passed
<1>2. CASE files'[d] = <<>>
  <2>1. 0 + Cardinality(Passed(d)') * len < (MaxKb + 1) * Kb + MaxInits * len
    BY <1>1, LimitPositive, BelowLimit
  <2> QED BY <1>2, <2>1, SizeEmpty DEF RoomLeft
<1>3. CASE files'[d] = files[d]
  <2> DEFINE a == Cardinality(Passed(d)')
             b == Cardinality(Passed(d))
             n == Size(files[d])
             lim == (MaxKb + 1) * Kb + MaxInits * len
  <2>1. a \in Nat /\ b \in Nat /\ a <= b
    BY <1>1, FewPass, LogAssumption
  <2>2. n \in Nat /\ len \in Nat /\ lim \in Nat
    <3>1. n \in Nat
      BY SizeType DEF Types
    <3>2. len \in Nat /\ MaxInits \in Nat
      BY LogAssumption
    <3>3. MaxInits * len \in Nat
      BY <3>2
    <3> QED BY <3>1, <3>2, <3>3, LimitPositive
  <2>3. n + b * len < lim
    BY DEF RoomLeft
  <2> HIDE DEF a, b, n, lim
  <2>4. a * len <= b * len /\ a * len \in Nat /\ b * len \in Nat
    BY <2>1, <2>2, TimesMonotonic
  <2>5. n + a * len < lim
    BY <2>2, <2>3, <2>4
  <2> QED BY <1>3, <2>5 DEF RoomLeft, a, n, lim
<1> QED BY <1>2, <1>3

LEMMA StillSizeInv ==
  ASSUME Types, SizeInv, LinesFit',
         \A d \in Days : /\ files'[d] = files[d] \/ files'[d] = <<>>
                         /\ Passed(d)' \subseteq Passed(d)
  PROVE  SizeInv'
BY RoomKept DEF SizeInv, Longest

LEMMA SendFits ==
  ASSUME Types, LinesFit, NEW len \in Lens, send_msg(len),
         \A w \in Writers : Holding(w)' => Holding(w) /\ writer'[w].line = writer[w].line
  PROVE  LinesFit'
<1>1. \A i \in DOMAIN queue' : queue'[i].len \in Lens
  <2> DEFINE e == [n |-> lines', len |-> len, run |-> run, by |-> 0]
  <2>1. CASE queue' = queue
    BY <2>1 DEF LinesFit
  <2>2. CASE queue' = Append(queue, e)
    <3>1. queue \in Seq(Item) /\ e.len = len
      BY DEF Types
    <3>2. /\ DOMAIN queue = 1 .. Len(queue) /\ Len(queue) \in Nat
          /\ DOMAIN queue' = 1 .. Len(queue) + 1
          /\ queue'[Len(queue) + 1] = e
          /\ \A i \in 1 .. Len(queue) : queue'[i] = queue[i]
      <4> HIDE DEF e
      <4> QED BY <2>2, <3>1
    <3> HIDE DEF e
    <3>3. ASSUME NEW i \in DOMAIN queue' PROVE queue'[i].len \in Lens
      <4>1. CASE i = Len(queue) + 1
        BY <3>1, <3>2, <4>1
      <4>2. CASE i \in 1 .. Len(queue)
        BY <3>2, <4>2 DEF LinesFit
      <4> QED BY <3>2, <4>1, <4>2
    <3> QED BY <3>3
  <2> QED BY <2>1, <2>2 DEF send_msg
<1> QED BY <1>1 DEF LinesFit

\* Of the steps of a writer, those between msgrcv and fprintf.
LEMMA ReceiveFits ==
  ASSUME Types, SizeInv, NEW w \in Writers, Receive(w)
  PROVE  SizeInv'
<1>1. /\ queue \in Seq(Item) /\ queue # <<>> /\ queue' = Tail(queue)
      /\ files' = files
      /\ writer' = [writer EXCEPT ![w].pc = "open", ![w].line = Head(queue)]
  BY DEF Receive, Taken, Types
<1>2. /\ writer'[w].pc = "open" /\ writer'[w].line = Head(queue)
      /\ \A v \in Writers : v # w => writer'[v] = writer[v]
  BY <1>1 DEF Types, Thread
<1>3. /\ Head(queue) = queue[1] /\ 1 \in DOMAIN queue
      /\ \A i \in DOMAIN queue' : i + 1 \in DOMAIN queue /\ queue'[i] = queue[i + 1]
  BY <1>1
<1>4. LinesFit'
  BY <1>2, <1>3 DEF SizeInv, LinesFit, Holding
<1>5. \A d \in Days : Passed(d)' \subseteq Passed(d)
  BY <1>2 DEF Passed
<1> QED BY <1>1, <1>4, <1>5, StillSizeInv

LEMMA CheckFits ==
  ASSUME Types, SizeInv, NEW w \in Writers, CheckSize(w)
  PROVE  SizeInv'
<1> DEFINE e == writer[w].day
<1>0. UNCHANGED <<files, queue>> /\ writer[w].pc = "size" /\ writer \in [Writers -> Thread]
  BY DEF CheckSize, Types
<1>1. CASE Full(e)
  <2>1. /\ writer'[w].pc = "rcv" /\ \A v \in Writers : v # w => writer'[v] = writer[v]
    BY <1>0, <1>1 DEF CheckSize, Thread
  <2>2. LinesFit'
    BY <1>0, <2>1 DEF SizeInv, LinesFit, Holding
  <2>3. \A d \in Days : Passed(d)' \subseteq Passed(d)
    BY <2>1 DEF Passed
  <2> QED BY <1>0, <2>2, <2>3, StillSizeInv
<1>2. CASE ~Full(e)
  <2>1. /\ writer'[w] = [writer[w] EXCEPT !.pc = "write"]
        /\ \A v \in Writers : v # w => writer'[v] = writer[v]
    BY <1>0, <1>2 DEF CheckSize
  <2>2. writer'[w].pc = "write" /\ writer'[w].line = writer[w].line /\ writer'[w].day = e
    BY <1>0, <2>1 DEF Thread
  <2>3. LinesFit'
    BY <1>0, <2>1, <2>2 DEF SizeInv, LinesFit, Holding
  <2>4. ASSUME NEW d \in Days, NEW len \in Lens, Longest(len) PROVE RoomLeft(d, len)'
    <3>1. CASE d # e
      <4>1. Passed(d)' \subseteq Passed(d)
        BY <2>1, <2>2, <3>1 DEF Passed
      <4> QED BY <1>0, <2>4, <4>1, RoomKept DEF SizeInv
    <3>2. CASE d = e
      <4>1. Size(files[d]) \in Nat
        BY SizeType DEF Types
      <4>2. Size(files[d]) \div Kb <= MaxKb /\ Kb \in Nat \ {0} /\ MaxKb \in Nat
        BY <1>2, <3>2, <4>1, LogAssumption DEF Full
      <4>3. Size(files[d]) < (MaxKb + 1) * Kb
        <5> DEFINE n == Size(files[d])
                   k == n \div Kb
        <5>1. n < (k + 1) * Kb /\ k \in Nat
          BY <4>1, <4>2
        <5>2. (k + 1) * Kb <= (MaxKb + 1) * Kb /\ (MaxKb + 1) * Kb \in Nat /\ (k + 1) * Kb \in Nat
          <6> HIDE DEF k
          <6>1. k \in Nat /\ k + 1 \in Nat /\ MaxKb + 1 \in Nat /\ k + 1 <= MaxKb + 1 /\ Kb \in Nat
            BY <4>2, <5>1 DEF k
          <6> QED BY <6>1, TimesMonotonic
        <5> HIDE DEF k
        <5> QED BY <4>1, <5>1, <5>2
      <4>4. Passed(d)' \in SUBSET Writers
        BY DEF Passed
      <4> QED BY <1>0, <4>1, <4>3, <4>4, BelowLimit DEF RoomLeft
    <3> QED BY <3>1, <3>2
  <2> QED BY <2>3, <2>4 DEF SizeInv, Longest
<1> QED BY <1>1, <1>2

LEMMA WriteFits ==
  ASSUME Types, SizeInv, NEW w \in Writers, WriteLine(w)
  PROVE  SizeInv'
<1> DEFINE e == writer[w].day
           l == [writer[w].line EXCEPT !.by = run]
<1>0. /\ queue' = queue /\ writer[w].pc = "write" /\ writer \in [Writers -> Thread]
      /\ files' = IF e \notin exists THEN files ELSE [files EXCEPT ![e] = Append(files[e], l)]
      /\ writer'[w].pc = "rcv" /\ \A v \in Writers : v # w => writer'[v] = writer[v]
  BY DEF WriteLine, Types, Thread
<1>1. LinesFit'
  BY <1>0 DEF SizeInv, LinesFit, Holding
<1>2. \A d \in Days : Passed(d)' \subseteq Passed(d)
  BY <1>0 DEF Passed
<1>3. ASSUME NEW d \in Days, NEW len \in Lens, Longest(len), d = e, e \in exists
      PROVE  RoomLeft(d, len)'
  <2>1. l \in Item /\ l.len = writer[w].line.len /\ l.len \in Lens
    <3>1. writer[w].line \in Item /\ run \in Nat
      BY <1>0 DEF Types, Thread
    <3>2. l \in Item /\ l.len = writer[w].line.len
      BY <3>1 DEF Item
    <3>3. writer[w].line.len \in Lens
      BY <1>0 DEF SizeInv, LinesFit, Holding
    <3> QED BY <3>2, <3>3
  <2> HIDE DEF l
  <2>2. files[d] \in Seq(Item) /\ files'[d] = Append(files[d], l)
    BY <1>0, <1>3 DEF Types
  <2>3. Size(files'[d]) = Size(files[d]) + l.len /\ Size(files[d]) \in Nat
    BY <2>1, <2>2, SizeAppend, SizeType
  <2>4. Passed(d) \in SUBSET Writers /\ w \in Passed(d) /\ Passed(d)' = Passed(d) \ {w}
    BY <1>0, <1>3 DEF Passed
  <2> DEFINE c == Cardinality(Passed(d))
             n == Size(files[d])
             lim == (MaxKb + 1) * Kb + MaxInits * len
  <2>5. Cardinality(Passed(d)') = c - 1 /\ c \in Nat
    BY <2>4, FewPass, LogAssumption
  <2>6. n + c * len < lim
    BY <1>3 DEF SizeInv, RoomLeft
  <2>7. l.len <= len /\ len \in Nat /\ l.len \in Nat /\ lim \in Nat
    <3>1. l.len <= len /\ len \in Nat /\ l.len \in Nat /\ MaxInits \in Nat
      BY <1>3, <2>1, LogAssumption DEF Longest
    <3>2. MaxInits * len \in Nat
      BY <3>1
    <3> QED BY <3>1, <3>2, LimitPositive
  <2> HIDE DEF c, n, lim
  <2>8. (c - 1) * len = c * len - len /\ c * len \in Nat
    BY <2>5, <2>7
  <2>9. n \in Nat
    BY <2>3 DEF n
  <2>10. (n + l.len) + (c - 1) * len < lim
    BY <2>6, <2>7, <2>8, <2>9
  <2> QED BY <2>3, <2>5, <2>10 DEF RoomLeft, n, lim
<1>4. ASSUME NEW d \in Days, NEW len \in Lens, Longest(len), ~(d = e /\ e \in exists)
      PROVE  RoomLeft(d, len)'
  <2>1. files'[d] = files[d]
    BY <1>0, <1>4 DEF Types
  <2> QED BY <1>2, <1>4, <2>1, RoomKept DEF SizeInv
<1> QED BY <1>1, <1>3, <1>4 DEF SizeInv, Longest

LEMMA InitSizeInv == Init => SizeInv
<1> SUFFICES ASSUME Init PROVE SizeInv
  OBVIOUS
<1>1. LinesFit
  BY DEF Init, LinesFit, Holding, NoThread
<1>2. ASSUME NEW d \in Days, NEW len \in Lens PROVE RoomLeft(d, len)
  <2>1. files[d] = <<>> /\ Passed(d) \in SUBSET Writers
    BY DEF Init, Passed
  <2>2. 0 + Cardinality(Passed(d)) * len < (MaxKb + 1) * Kb + MaxInits * len
    BY <2>1, LimitPositive, BelowLimit
  <2> QED BY <2>1, <2>2, SizeEmpty DEF RoomLeft
<1> QED BY <1>1, <1>2 DEF SizeInv

LEMMA NextSizeInv ==
  ASSUME LogInv, SizeInv, [Next]_vars
  PROVE  SizeInv'
<1>0. Types /\ LinesFit /\ writer \in [Writers -> Thread] /\ queue \in Seq(Item)
  BY DEF LogInv, Types, SizeInv
<1>1. CASE init_log
  <2>1. UNCHANGED <<queue, writer>> /\ \A d \in Days : files'[d] = files[d] \/ files'[d] = <<>>
    BY <1>1 DEF init_log
  <2>2. LinesFit' /\ \A d \in Days : Passed(d)' \subseteq Passed(d)
    BY <1>0, <2>1 DEF LinesFit, Holding, Passed
  <2> QED BY <1>0, <2>1, <2>2, StillSizeInv
<1>2. CASE open_msg_remove \/ open_msg_create \/ Midnight \/ Restart \/ UNCHANGED vars
  <2>1. /\ files' = files
        /\ queue' = queue \/ queue' = <<>>
        /\ \/ writer' = writer \/ writer' = [w \in Writers |-> NoThread]
           \/ writer' = [writer EXCEPT ![inits].pc = "begin"]
    BY <1>2 DEF open_msg_remove, QueueRemoved, open_msg_create, Midnight, Restart, vars, process
  <2>2. \A w \in Writers : writer'[w] = writer[w] \/ writer'[w].pc \in {"none", "begin"}
    BY <1>0, <2>1 DEF NoThread, Thread
  <2>3. \A i \in DOMAIN queue' : queue'[i].len \in Lens
    BY <1>0, <2>1 DEF LinesFit
  <2>4. LinesFit' /\ \A d \in Days : Passed(d)' \subseteq Passed(d)
    BY <1>0, <2>2, <2>3 DEF LinesFit, Holding, Passed
  <2> QED BY <1>0, <2>1, <2>4, StillSizeInv
<1>3. ASSUME NEW len \in Lens, mylog1(len) PROVE SizeInv'
  <2>1. UNCHANGED <<files, writer>> /\ send_msg(len)
    BY <1>3 DEF mylog1, process
  <2>2. LinesFit' /\ \A d \in Days : Passed(d)' \subseteq Passed(d)
    BY <1>0, <2>1, SendFits DEF Holding, Passed
  <2> QED BY <1>0, <2>1, <2>2, StillSizeInv
<1>4. ASSUME NEW w \in Writers, NEW len \in Lens, thread_writelog(w, len) PROVE SizeInv'
  <2>1. /\ files' = files /\ send_msg(len) /\ writer'[w].pc = "rcv"
        /\ \A v \in Writers : v # w => writer'[v] = writer[v]
    BY <1>0, <1>4 DEF thread_writelog, Thread
  <2>2. LinesFit' /\ \A d \in Days : Passed(d)' \subseteq Passed(d)
    BY <1>0, <2>1, SendFits DEF Holding, Passed
  <2> QED BY <1>0, <2>1, <2>2, StillSizeInv
<1>5. ASSUME NEW w \in Writers, OpenFile(w) PROVE SizeInv'
  <2>1. /\ UNCHANGED <<files, queue>> /\ writer[w].pc = "open"
        /\ \A v \in Writers : v # w => writer'[v] = writer[v]
        /\ \/ writer'[w].pc = "size" /\ writer'[w].line = writer[w].line
           \/ writer'[w].pc = "rcv"
    BY <1>0, <1>5 DEF OpenFile, Thread
  <2>2. LinesFit' /\ \A d \in Days : Passed(d)' \subseteq Passed(d)
    BY <1>0, <2>1 DEF LinesFit, Holding, Passed
  <2> QED BY <1>0, <2>1, <2>2, StillSizeInv
<1>6. ASSUME NEW w \in Writers, Receive(w) \/ CheckSize(w) \/ WriteLine(w) PROVE SizeInv'
  BY <1>0, <1>6, ReceiveFits, CheckFits, WriteFits
<1> QED BY <1>1, <1>2, <1>3, <1>4, <1>5, <1>6 DEF Next, WriterStep

\* The size of a file is checked before the line is written, by every writer for
\* itself; the file passes LOGFILE_MAXSIZE by less than a kilobyte and a line of
\* every writer, for any number of writers and lines of any lengths.
THEOREM FilesAreBounded == Spec => []FileBounded
<1>1. LogInv /\ SizeInv /\ [Next]_vars => SizeInv'
  BY NextSizeInv
<1>2. LogInv /\ SizeInv => FileBounded
  <2> SUFFICES ASSUME LogInv, SizeInv, NEW d \in Days, NEW len \in Lens, Longest(len)
               PROVE  Size(files[d]) < (MaxKb + 1) * Kb + MaxInits * len
    BY DEF FileBounded, Longest
  <2> DEFINE c == Cardinality(Passed(d))
             n == Size(files[d])
             lim == (MaxKb + 1) * Kb + MaxInits * len
  <2>1. Passed(d) \in SUBSET Writers
    BY DEF Passed
  <2>2. c \in Nat /\ len \in Nat /\ lim \in Nat
    BY <2>1, FewPass, LimitPositive, LogAssumption
  <2>3. n \in Nat /\ n + c * len < lim
    BY SizeType DEF SizeInv, RoomLeft, LogInv, Types
  <2> HIDE DEF c, n, lim
  <2>4. c * len \in Nat
    BY <2>2
  <2>5. n < lim
    BY <2>2, <2>3, <2>4
  <2> QED BY <2>5 DEF n, lim
<1> QED BY <1>1, <1>2, InitSizeInv, LogInvAlways, PTL DEF Spec
=============================================================================
