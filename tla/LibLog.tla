------------------------------- MODULE LibLog -------------------------------
(***************************************************************************)
(* The asynchronous logger lib_log/log.c: mylog hands lines to a bounded   *)
(* System V message queue, a writer thread appends them to the file of the *)
(* day, and init_log removes old files, replaces the queue, which outlives *)
(* the process, and starts a writer.                                       *)
(*                                                                         *)
(* The process can end at any moment and be started again; midnight comes  *)
(* between any two steps. Lines are numbered in the order of the calls of  *)
(* mylog. Not modelled: the formatting of a line, its echo on stdout, and  *)
(* the level filter, which drops a line before anything happens to it.     *)
(*                                                                         *)
(* Assumed: the runs belong to one user, so that msgctl(IPC_RMID), whose   *)
(* result nobody looks at, removes the queue (log.c:284), and the          *)
(* directory that init_log has just made or found can be read (log.c:157). *)
(***************************************************************************)
EXTENDS Naturals, Sequences, FiniteSets

CONSTANTS
  QueueCap,   \* lines the kernel lets wait in the queue
  Lens,       \* the lengths of lines
  Kb,         \* length units in a kilobyte
  MaxKb,      \* LOGFILE_MAXSIZE
  MaxCount,   \* LOGFILE_MAXCOUNT
  AliveDays,  \* LOGFILE_ALIVEDAYS
  East,       \* 1 in a time zone east of UTC, where midnight is still
              \* yesterday for gmtime(); 0 elsewhere
  MaxLines, MaxDay, MaxRuns,  \* bounds: lines, days, runs of the program
  MaxInits    \* bound: calls of init_log in a run

ASSUME LogAssumption ==
  /\ QueueCap \in Nat /\ Lens \subseteq Nat /\ Kb \in Nat \ {0} /\ MaxKb \in Nat
  /\ MaxCount \in Nat /\ AliveDays \in Nat /\ East \in {0, 1}
  /\ MaxLines \in Nat /\ MaxDay \in Nat /\ MaxRuns \in Nat /\ MaxInits \in Nat

Days == 1 .. MaxDay
Writers == 1 .. MaxInits

\* A line, as it lies in the queue and in a file; by is the run that wrote it.
\* Each writer logs a line of its own.
Numbers == 1 .. MaxLines + MaxRuns * MaxInits
Line == [n : Numbers, len : Lens, run : 1 .. MaxRuns, by : 0 .. MaxRuns]
NoLine == [n |-> 0, len |-> 0, run |-> 0, by |-> 0]

VARIABLES
  day,      \* today
  exists,   \* the days that have a log file
  files,    \* the lines in the file of each day
  hasQueue, \* there is a queue with the key of ftok("/tmp", 'a')
  queue,    \* the lines in it
  run,      \* the run of the program
  s_msg_id, \* s_msg_id, to which lines are sent, is that of the queue
  r_msg_id, \* r_msg_id, from which they are received, is that of the queue
  init,     \* where the call of init_log is
  inits,    \* calls of init_log in this run
  writer,   \* the writer threads: where they are, their line and their file
  lines,    \* lines passed to mylog so far
  single    \* history: no run has called init_log twice

process == <<run, s_msg_id, r_msg_id, init, inits, writer, single>>
vars == <<day, exists, files, hasQueue, queue, process, lines>>

NoThread == [pc |-> "none", line |-> NoLine, day |-> 1]

Init ==
  /\ day = 1 /\ exists = {} /\ files = [d \in Days |-> <<>>]
  /\ hasQueue = FALSE /\ queue = <<>>
  /\ run = 1 /\ s_msg_id = FALSE /\ r_msg_id = FALSE /\ init = "idle" /\ inits = 0
  /\ writer = [w \in Writers |-> NoThread] /\ lines = 0 /\ single = TRUE

-----------------------------------------------------------------------------
\* What read_filelist stores: at most MaxCount of the files.
Listings == {S \in SUBSET exists : \/ S = exists /\ Cardinality(S) <= MaxCount
                                   \/ Cardinality(S) = MaxCount}

\* Mutant: a file of the last day to go is kept.
DeadLate(d) == d + AliveDays + East < day

\* file_alives_proc: the files that are not later than deadtime.
Dead(d) == d + AliveDays + East <= day

\* init_log up to open_msg.
init_log ==
  /\ init = "idle" /\ inits < MaxInits
  /\ \E listed \in Listings :
       LET gone == {d \in listed : Dead(d)}
       IN /\ exists' = exists \ gone
          /\ files' = [d \in Days |-> IF d \in gone THEN <<>> ELSE files[d]]
  /\ init' = "remove" /\ inits' = inits + 1
  /\ single' = (single /\ inits = 0)
  /\ UNCHANGED <<day, hasQueue, queue, run, s_msg_id, r_msg_id, writer, lines>>

\* Mutant: the queue that is found is used.
QueueKept == /\ hasQueue' = TRUE
             /\ UNCHANGED queue

\* msgctl(s_msg_id, IPC_RMID): the queue goes, and what is in it.
QueueRemoved == hasQueue' = FALSE /\ queue' = <<>>

\* open_msg: get the queue of the key and remove it. Without a key nothing
\* changes; a msgget that fails sets s_msg_id to -1 and leaves r_msg_id alone.
open_msg_remove ==
  /\ init = "remove"
  /\ \/ /\ QueueRemoved
        /\ s_msg_id' = FALSE /\ r_msg_id' = FALSE /\ init' = "create"
     \/ /\ init' = "idle"
        /\ s_msg_id' \in {s_msg_id, FALSE}
        /\ UNCHANGED <<hasQueue, queue, r_msg_id>>
  /\ UNCHANGED <<day, exists, files, run, inits, writer, single, lines>>

\* Then it is created anew. init_log starts a writer, if it can.
open_msg_create ==
  /\ init = "create"
  /\ init' = "idle"
  /\ \/ /\ hasQueue' = TRUE /\ s_msg_id' = TRUE /\ r_msg_id' = TRUE
        /\ \/ writer' = [writer EXCEPT ![inits].pc = "begin"]
           \/ UNCHANGED writer
     \/ UNCHANGED <<hasQueue, s_msg_id, r_msg_id, writer>>
  /\ UNCHANGED <<day, exists, files, queue, run, inits, single, lines>>

\* send_msg with IPC_NOWAIT: the line is queued, or it is lost.
send_msg(len) ==
  /\ lines' = lines + 1
  /\ queue' = IF s_msg_id /\ Len(queue) < QueueCap
              THEN Append(queue, [n |-> lines', len |-> len, run |-> run, by |-> 0])
              ELSE queue

mylog1(len) ==
  /\ lines < MaxLines
  /\ send_msg(len)
  /\ UNCHANGED <<day, exists, files, hasQueue, process>>

-----------------------------------------------------------------------------
\* thread_writelog begins with a line of its own.
thread_writelog(w, len) ==
  /\ writer[w].pc = "begin"
  /\ send_msg(len)
  /\ writer' = [writer EXCEPT ![w].pc = "rcv"]
  /\ UNCHANGED <<day, exists, files, hasQueue, run, s_msg_id, r_msg_id, init, inits, single>>

\* Mutant: a line is read without being taken from the queue.
TakenKept(q) == q

\* What msgrcv leaves in the queue.
Taken(q) == Tail(q)

\* recv_msg: msgrcv returns with the first line.
Receive(w) ==
  /\ writer[w].pc = "rcv" /\ r_msg_id /\ queue # <<>>
  /\ writer' = [writer EXCEPT ![w].pc = "open", ![w].line = Head(queue)]
  /\ queue' = Taken(queue)
  /\ UNCHANGED <<day, exists, files, hasQueue, run, s_msg_id, r_msg_id, init, inits, single,
                 lines>>

\* fopen(..., "a") of today's file. A line that cannot be written is lost.
OpenFile(w) ==
  /\ writer[w].pc = "open"
  /\ \/ /\ exists' = exists \cup {day}
        /\ writer' = [writer EXCEPT ![w].pc = "size", ![w].day = day]
     \/ /\ writer' = [writer EXCEPT ![w].pc = "rcv", ![w].line = NoLine]
        /\ UNCHANGED exists
  /\ UNCHANGED <<day, files, hasQueue, queue, run, s_msg_id, r_msg_id, init, inits,
                 single, lines>>

\* The size of a file with the lines s, summed up line after line.
Size(s) == LET upTo[n \in 0 .. Len(s)] == IF n = 0 THEN 0 ELSE upTo[n - 1] + s[n].len
           IN  upTo[Len(s)]

\* Mutant: the size of the file is not looked at.
NeverFull(d) == d \notin exists

\* get_size(tmpfname)/1024 > LOGFILE_MAXSIZE, also when the file is gone.
Full(d) == d \notin exists \/ Size(files[d]) \div Kb > MaxKb

\* The size is read before the line is written, and a line for a full file is
\* lost.
CheckSize(w) ==
  /\ writer[w].pc = "size"
  /\ writer' = IF Full(writer[w].day)
               THEN [writer EXCEPT ![w].pc = "rcv", ![w].line = NoLine]
               ELSE [writer EXCEPT ![w].pc = "write"]
  /\ UNCHANGED <<day, exists, files, hasQueue, queue, run, s_msg_id, r_msg_id, init, inits,
                 single, lines>>

\* fprintf and fclose. What is written to a file that has been removed in the
\* meantime goes with it.
WriteLine(w) ==
  LET d == writer[w].day
  IN /\ writer[w].pc = "write"
     /\ files' = IF d \notin exists THEN files
                 ELSE [files EXCEPT ![d] = Append(@, [writer[w].line EXCEPT !.by = run])]
     /\ writer' = [writer EXCEPT ![w].pc = "rcv", ![w].line = NoLine]
     /\ UNCHANGED <<day, exists, hasQueue, queue, run, s_msg_id, r_msg_id, init, inits,
                 single, lines>>

-----------------------------------------------------------------------------
Midnight ==
  /\ day < MaxDay /\ day' = day + 1
  /\ UNCHANGED <<exists, files, hasQueue, queue, process, lines>>

\* The process ends somehow and is started again; the queue stays.
Restart ==
  /\ run < MaxRuns /\ run' = run + 1
  /\ s_msg_id' = FALSE /\ r_msg_id' = FALSE /\ init' = "idle" /\ inits' = 0
  /\ writer' = [w \in Writers |-> NoThread]
  /\ UNCHANGED <<day, exists, files, hasQueue, queue, single, lines>>

WriterStep(w) == \/ \E len \in Lens : thread_writelog(w, len)
                 \/ Receive(w) \/ OpenFile(w) \/ CheckSize(w) \/ WriteLine(w)

Next ==
  \/ init_log \/ open_msg_remove \/ open_msg_create
  \/ \E len \in Lens : mylog1(len)
  \/ \E w \in Writers : WriterStep(w)
  \/ Midnight \/ Restart

Spec == Init /\ [][Next]_vars

\* A writer thread that can go on does.
FairSpec == Spec /\ \A w \in Writers : WF_vars(WriterStep(w))

-----------------------------------------------------------------------------
\* As long as no run calls init_log twice, which makes two writers, the lines
\* are in the files in the order in which they were logged, each at most once,
\* and those of one day before those of the next: whatever is lost on the way,
\* and wherever midnight or a restart falls.
InOrder ==
  single =>
    \A d, e \in Days : \A i \in DOMAIN files[d], j \in DOMAIN files[e] :
      d < e \/ (d = e /\ i < j) => files[d][i].n < files[e][j].n

\* "Delete it first": what an earlier run left in the queue, which lives as
\* long as the kernel, never gets into a file of this run.
NoStaleLines == \A d \in Days : \A i \in DOMAIN files[d] : files[d][i].by = files[d][i].run

\* The size of a file is checked before the line is written, and several
\* writers may have checked it before any of them writes: it passes
\* LOGFILE_MAXSIZE by less than a kilobyte and a line of every writer.
FileBounded ==
  \A d \in Days, len \in Lens :
    (\A k \in Lens : k <= len) => Size(files[d]) < (MaxKb + 1) * Kb + MaxInits * len

\* Of n files, those read_filelist has no room for.
Unlisted(n) == IF n > MaxCount THEN n - MaxCount ELSE 0

\* init_log leaves the files of the last days, and of the older ones at most
\* as many as there are files more than it can list.
CleanupBounds ==
  [][init = "idle" /\ init' = "remove"
       => Cardinality(exists') <= AliveDays + East + Unlisted(Cardinality(exists))]_vars

\* A line that is in the queue leaves it, written, refused or removed with the
\* queue, as long as there is a writer.
Waits(n) == \E i \in DOMAIN queue : queue[i].n = n
LineLeavesQueue ==
  \A n \in Numbers :
    (Waits(n) /\ \E w \in Writers : writer[w].pc # "none") ~>
      (~Waits(n) \/ \A w \in Writers : writer[w].pc = "none")
=============================================================================
