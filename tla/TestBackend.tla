---------------------------- MODULE TestBackend -----------------------------
(***************************************************************************)
(* backend/test.c: devices whose image a reader task sends through a pipe, *)
(* with the reader as a process or as a thread (SaneiThread), a frontend   *)
(* that calls the SANE API one call at a time on any device, pipes that    *)
(* fill, calls that fail, and reads in blocking and non-blocking mode.     *)
(*                                                                         *)
(* Left out: options, which are refused in mid-scan; the count of scans     *)
(* and of the three passes, which decide the colour only; parameters that  *)
(* make the image empty, with which sane_start fails before it has a pipe. *)
(*                                                                         *)
(* Task, pipe and its two descriptors have one identifier.  The image of a *)
(* device d is the blocks <<d, 1>> .. <<d, Image>>.                        *)
(***************************************************************************)
EXTENDS SaneiThread, Sequences, FiniteSets

CONSTANTS Image,      \* bytes_per_line * lines, in blocks
          PipeCap,    \* blocks a pipe holds
          MaxRead,    \* bound: the largest max_length
          Color,      \* devices in one-pass colour; the others are in gray
          SizeMod,    \* size_t is 0 .. SizeMod - 1
          MaxTrouble  \* bound: kinds of trouble up to which more is chosen

Dev == Arg
ASSUME TestAssumption ==
  /\ Image \in Nat \ {0} /\ PipeCap \in Nat \ {0} /\ MaxRead \in Nat \ {0}
  /\ SizeMod \in Nat /\ SizeMod > Image + MaxRead /\ MaxTrouble \in Nat
  /\ Color \subseteq Arg

VARIABLES
  dev,      \* Test_Device: flags, bytes_total, reader_pid, pipe, reader_fds
  buf,      \* content of each pipe
  rd, wr,   \* processes with the read end, the write end of a pipe open
  nonblock, \* pipes whose read end is O_NONBLOCK
  reader,   \* [out, sent] of each task: the descriptor it writes to, its progress
  call,     \* the API call under way
  dead,     \* SIGPIPE has ended the frontend
  got,      \* blocks each device has delivered since sane_start
  trouble   \* what has gone wrong or been done against the API so far

pipes == <<buf, rd, wr, nonblock>>
vars  == <<thread, dev, pipes, reader, call, dead, got, trouble>>

None     == 0     \* -1 as a descriptor or SANE_Pid
Stdin    == -1    \* descriptor 0: calloc's value of reader_fds
Frontend == 0     \* the frontend among the holders of a descriptor
Ids      == Task
Block    == Dev \X (1..Image)
NoCall   == [op |-> "none", pc |-> "idle", d |-> None, n |-> 0]
NoReader == [out |-> None, sent |-> 0]

Kinds == {"raced",      \* a thread begun before the last one had read td
          "unguarded",  \* SIGPIPE turned back on while a thread runs
          "again",      \* a read without data before the first block
          "restart",    \* sane_start in mid-scan
          "close",      \* sane_close in mid-scan
          "nonblock",   \* sane_set_io_mode asked for non-blocking reads
          "nopipe",     \* pipe() failed
          "stale",      \* and the device still has the pipe of an earlier scan
          "notask",     \* sanei_thread_begin failed
          "nopicture",  \* init_picture_buffer failed in the reader
          "deaf"}       \* SIGTERM came to a child not ready for it

\* What the frontend or the system chooses; the rest follows by itself.  A choice is
\* made only if it leaves no more than MaxTrouble kinds of trouble.
Chosen == {"raced", "restart", "close", "nonblock", "nopipe", "notask", "nopicture"}
Meet(kinds) ==
  /\ trouble' = trouble \union kinds
  /\ \/ kinds \intersect Chosen \subseteq trouble
     \/ Cardinality(trouble \union (kinds \intersect Chosen)) <= MaxTrouble
Met(kinds) == trouble \intersect kinds # {}
If(b, kind) == IF b THEN {kind} ELSE {}

Init ==
  /\ ThreadInit
  /\ dev = [d \in Dev |-> [scanning |-> FALSE, cancelled |-> FALSE,
                           eof |-> FALSE, total |-> 0,
                           pid |-> None, pipe |-> None, fds |-> Stdin]]
  /\ buf = [i \in Ids |-> <<>>] /\ rd = [i \in Ids |-> {}] /\ wr = [i \in Ids |-> {}]
  /\ nonblock = {}
  /\ reader = [t \in Task |-> NoReader]
  /\ call = NoCall /\ dead = FALSE
  /\ got = [d \in Dev |-> <<>>]
  /\ trouble = {}

Idle  == call = NoCall /\ ~dead
Alive(t) == task[t].st \in {"created", "running"}
Unused(i) == task[i].st = "none" /\ rd[i] = {} /\ wr[i] = {}

-----------------------------------------------------------------------------
(* The API calls that only set flags                                       *)

\* sane_close and the next sane_open of the device, between which nobody else looks at
\* it.  A scan is left as it is: its task and descriptors stay, only the flag goes.
Reopen(d) ==
  /\ Idle
  /\ dev' = [dev EXCEPT ![d].scanning = FALSE, ![d].cancelled = FALSE,
                        ![d].eof = FALSE, ![d].total = 0]
  /\ got' = [got EXCEPT ![d] = <<>>]
  /\ Meet(If(dev[d].scanning, "close"))
  /\ UNCHANGED <<thread, pipes, reader, call, dead>>

SetIoMode(d, on) ==
  /\ Idle /\ dev[d].scanning /\ dev[d].pipe # None
  /\ nonblock' = IF on THEN nonblock \union {dev[d].pipe} ELSE nonblock \ {dev[d].pipe}
  /\ Meet(If(on, "nonblock"))
  /\ UNCHANGED <<thread, dev, buf, rd, wr, reader, call, dead, got>>

-----------------------------------------------------------------------------
(* sane_start                                                              *)

\* Of a device in mid-scan only one-pass colour is refused.
MayStart(d) == ~(dev[d].scanning /\ d \in Color)

Started(d, pid, pipe, fds) ==
  dev' = [dev EXCEPT ![d].scanning = TRUE, ![d].cancelled = FALSE, ![d].eof = FALSE,
                     ![d].total = 0, ![d].pid = pid, ![d].pipe = pipe, ![d].fds = fds]

\* A forked child gets every descriptor the frontend has open.
Inherit(ends, t) ==
  [i \in Ids |-> IF Frontend \in ends[i] THEN ends[i] \union {t} ELSE ends[i]]
OpenEnds(ends, i) == [ends EXCEPT ![i] = {Frontend}]

\* The frontend closes the write end after a fork.  (Kept: it does not.)
WriteEndsKept(ends, i) == Inherit(ends, i)
WriteEnds(ends, i) == [Inherit(ends, i) EXCEPT ![i] = {i}]

Start(d, i) ==
  /\ Idle /\ MayStart(d)
  /\ Unused(i) /\ \A j \in Ids : j < i => ~Unused(j)
  /\ Begin(i, d)
  /\ Started(d, i, i, IF forked THEN None ELSE i)
  /\ buf' = [buf EXCEPT ![i] = <<>>] /\ nonblock' = nonblock \ {i}
  /\ IF forked THEN /\ rd' = Inherit(OpenEnds(rd, i), i)
                    /\ wr' = WriteEnds(OpenEnds(wr, i), i)
               ELSE rd' = OpenEnds(rd, i) /\ wr' = OpenEnds(wr, i)
  /\ reader' = [reader EXCEPT ![i] = NoReader]
  /\ got' = [got EXCEPT ![d] = <<>>]
  /\ Meet(If(dev[d].scanning, "restart") \union
          If(~forked /\ \E t \in Task : task[t].st = "created", "raced"))
  /\ UNCHANGED <<call, dead>>

StartNoPipe(d) ==
  /\ Idle /\ MayStart(d)
  /\ Started(d, dev[d].pid, dev[d].pipe, dev[d].fds)
  /\ got' = [got EXCEPT ![d] = <<>>]
  /\ Meet({"nopipe"} \union If(dev[d].scanning, "restart") \union
          If(dev[d].pipe # None, "stale"))
  /\ UNCHANGED <<thread, pipes, reader, call, dead>>

StartNoTask(d, i) ==
  /\ Idle /\ MayStart(d)
  /\ Unused(i) /\ \A j \in Ids : j < i => ~Unused(j)
  /\ BeginFails(d)
  /\ Started(d, None, i, i)
  /\ buf' = [buf EXCEPT ![i] = <<>>] /\ nonblock' = nonblock \ {i}
  /\ rd' = OpenEnds(rd, i) /\ wr' = OpenEnds(wr, i)
  /\ got' = [got EXCEPT ![d] = <<>>]
  /\ Meet({"notask"} \union If(dev[d].scanning, "restart") \union
          If(~forked /\ \E t \in Task : task[t].st = "created", "raced"))
  /\ UNCHANGED <<reader, call, dead>>

-----------------------------------------------------------------------------
(* sane_read, sane_cancel and finish_pass, which both call                 *)

\* Calls that return at once (cancelled, end of file, not scanning) change nothing.
Read(d, n) ==
  /\ Idle /\ ~dev[d].cancelled /\ ~dev[d].eof /\ dev[d].scanning
  /\ call' = [op |-> "read", pc |-> "read", d |-> d, n |-> n]
  /\ UNCHANGED <<thread, dev, pipes, reader, dead, got, trouble>>

Cancel(d) ==
  /\ Idle /\ ~dev[d].cancelled /\ dev[d].scanning
  /\ call' = [op |-> "cancel", pc |-> "close", d |-> d, n |-> 0]
  /\ UNCHANGED <<thread, dev, pipes, reader, dead, got, trouble>>

Me      == dev[call.d]
At(pc)  == call.pc = pc /\ ~dead
Goto(pc) == call' = [call EXCEPT !.pc = pc]

\* What read() returns, -1 for a failure; it blocks for data while there are writers.
Least(a, b) == IF a < b THEN a ELSE b
Result(r) ==
  \/ Me.pipe = None /\ r = -1
  \/ /\ Me.pipe # None
     /\ \/ buf[Me.pipe] # <<>> /\ r = Least(call.n, Len(buf[Me.pipe]))
        \/ /\ buf[Me.pipe] = <<>>
           /\ \/ wr[Me.pipe] = {} /\ r = 0
              \/ wr[Me.pipe] # {} /\ Me.pipe \in nonblock /\ r = -1

\* The test for the end of the image, in size_t arithmetic.  (Early: off by one.)
LooksCompleteEarly(r) == r = 0 \/ ((r % SizeMod) + Me.total) % SizeMod >= Image - 1
LooksComplete(r) == r = 0 \/ ((r % SizeMod) + Me.total) % SizeMod >= Image

ReadPipe ==
  /\ At("read")
  /\ \E r \in -1..MaxRead :
       /\ Result(r)
       /\ IF r > 0
          THEN /\ buf' = [buf EXCEPT ![Me.pipe] = SubSeq(@, r + 1, Len(@))]
               /\ got' = [got EXCEPT ![call.d] = @ \o SubSeq(buf[Me.pipe], 1, r)]
          ELSE UNCHANGED <<buf, got>>
       /\ IF LooksComplete(r)
          THEN call' = [call EXCEPT !.pc = "close", !.n = r] /\ UNCHANGED dev
          ELSE /\ call' = NoCall
               /\ IF r > 0 THEN dev' = [dev EXCEPT ![call.d].total = @ + r]
                           ELSE UNCHANGED dev
       /\ Meet(If(r = -1 /\ Me.pipe # None /\ Me.total = 0, "again"))
  /\ UNCHANGED <<thread, rd, wr, nonblock, reader, dead>>

FinishClose ==
  /\ At("close")
  /\ dev' = [dev EXCEPT ![call.d].scanning = FALSE, ![call.d].pipe = None]
  /\ rd' = IF Me.pipe = None THEN rd ELSE [rd EXCEPT ![Me.pipe] = @ \ {Frontend}]
  /\ buf' = IF Me.pipe = None \/ rd'[Me.pipe] # {} THEN buf ELSE [buf EXCEPT ![Me.pipe] = <<>>]
  /\ nonblock' = nonblock \ {Me.pipe}
  /\ Goto(IF Me.pid = None THEN "fds" ELSE "kill")
  /\ UNCHANGED <<thread, wr, reader, dead, got, trouble>>

FinishKill ==
  /\ At("kill")
  /\ \E heard \in BOOLEAN : Kill(Me.pid, heard) /\ Meet(If(~heard, "deaf"))
  /\ Goto("wait")
  /\ UNCHANGED <<dev, pipes, reader, dead, got>>

FinishWait ==
  /\ At("wait")
  /\ Waitpid(Me.pid)
  /\ dev' = [dev EXCEPT ![call.d].pid = None]
  /\ reader' = [reader EXCEPT ![Me.pid] = NoReader]
  /\ Meet(If(~forked /\ \E t \in Task \ {Me.pid} : Alive(t), "unguarded"))
  /\ Goto("fds")
  /\ UNCHANGED <<pipes, dead, got>>

\* The rest of sane_read after finish_pass; n is what read() returned.  (NoWrap: a signed
\* bytes_total.)
EndOfReadNoWrap(m) ==
  [m EXCEPT !.eof = TRUE, !.fds = None, !.total = @ + call.n]
EndOfRead(m) ==
  [m EXCEPT !.eof = TRUE, !.fds = None,
            !.total = (@ + call.n) % SizeMod]
EndOfCancel(m) ==
  [m EXCEPT !.cancelled = TRUE, !.eof = FALSE, !.fds = None]

\* (Forgotten: finish_pass as it would be without threads.)
CloseFdsForgotten == wr
CloseFds == IF Me.fds \in Ids THEN [wr EXCEPT ![Me.fds] = @ \ {Frontend}] ELSE wr

FinishFds ==
  /\ At("fds")
  /\ wr' = CloseFds
  /\ dev' = [dev EXCEPT ![call.d] = IF call.op = "read" THEN EndOfRead(@) ELSE EndOfCancel(@)]
  /\ call' = NoCall
  /\ got' = IF call.op = "cancel" THEN [got EXCEPT ![call.d] = <<>>] ELSE got
  /\ UNCHANGED <<thread, buf, rd, nonblock, reader, dead, trouble>>

-----------------------------------------------------------------------------
(* The reader task                                                         *)

\* A child closes its copy of the pipe's read end.  (Kept: it does not.)
ClosePipeKept(t) == rd
ClosePipe(t) == IF forked THEN [rd EXCEPT ![t] = @ \ {t}] ELSE rd

\* reader_task.  A thread takes reader_fds from the Test_Device it was handed, whatever
\* it holds by now.
ReaderEnter(t) ==
  /\ ~dead
  /\ Enter(t)
  /\ reader' = [reader EXCEPT ![t].out = IF forked THEN t ELSE dev[td].fds]
  /\ rd' = ClosePipe(t)
  /\ UNCHANGED <<dev, buf, wr, nonblock, call, dead, got, trouble>>

\* A task ends; the kernel closes what a process had open.
ReaderEnds(t) ==
  /\ End(t)
  /\ IF forked THEN /\ rd' = [i \in Ids |-> rd[i] \ {t}]
                    /\ wr' = [i \in Ids |-> wr[i] \ {t}]
               ELSE UNCHANGED <<rd, wr>>
  /\ UNCHANGED <<dev, buf, nonblock, reader, call, got>>

NoPicture(t) ==
  /\ ~dead /\ task[t].st = "running" /\ reader[t].sent = 0
  /\ ReaderEnds(t) /\ Meet({"nopicture"})
  /\ UNCHANGED dead

Sending(t) == ~dead /\ task[t].st = "running" /\ reader[t].sent < Image
Out(t) == reader[t].out
HasReader(t) == Out(t) \in Ids /\ rd[Out(t)] # {}

Write(t) ==
  /\ Sending(t) /\ HasReader(t)
  /\ Len(buf[Out(t)]) < PipeCap
  /\ buf' = [buf EXCEPT ![Out(t)] = Append(@, <<task[t].arg, reader[t].sent + 1>>)]
  /\ reader' = [reader EXCEPT ![t].sent = @ + 1]
  /\ UNCHANGED <<thread, dev, rd, wr, nonblock, call, dead, got, trouble>>

\* EBADF, or EPIPE with the signal ignored: the reader returns IO_ERROR.  Otherwise
\* SIGPIPE ends the process, a child or the frontend itself.
WriteFails(t) ==
  /\ Sending(t) /\ ~HasReader(t)
  /\ ReaderEnds(t)
  /\ dead' = (~forked /\ Out(t) \in Ids /\ sigpipe = "dfl")
  /\ UNCHANGED trouble

\* A thread returns; a process waits to be killed.
ReaderDone(t) ==
  /\ ~dead /\ ~forked /\ task[t].st = "running" /\ reader[t].sent = Image
  /\ ReaderEnds(t)
  /\ UNCHANGED <<dead, trouble>>

\* A thread's cancellation points are its writes.
ReaderKilled(t) ==
  /\ ~dead /\ Alive(t) /\ KillActs(t)
  /\ forked \/ reader[t].sent < Image
  /\ ReaderEnds(t)
  /\ UNCHANGED <<dead, trouble>>

Finish == FinishClose \/ FinishKill \/ FinishWait \/ FinishFds
Reader(t) ==
  ReaderEnter(t) \/ Write(t) \/ WriteFails(t) \/ ReaderDone(t) \/ ReaderKilled(t)

Next ==
  \/ \E d \in Dev :
       \/ Reopen(d) \/ StartNoPipe(d) \/ Cancel(d)
       \/ \E on \in BOOLEAN : SetIoMode(d, on)
       \/ \E i \in Ids : Start(d, i) \/ StartNoTask(d, i)
       \/ \E n \in 1..MaxRead : Read(d, n)
  \/ ReadPipe \/ Finish
  \/ \E t \in Task : Reader(t) \/ NoPicture(t)

\* Calls under way go on and tasks run; the frontend owes no call.
Fairness ==
  /\ WF_vars(ReadPipe) /\ WF_vars(Finish)
  /\ \A t \in Task : WF_vars(Reader(t))

Spec == Init /\ [][Next]_vars /\ Fairness
-----------------------------------------------------------------------------
TypeOK ==
  /\ ThreadTypeOK
  /\ dev \in [Dev -> [scanning : BOOLEAN, cancelled : BOOLEAN,
                      eof : BOOLEAN, total : 0..(SizeMod - 1), pid : Ids \union {None},
                      pipe : Ids \union {None}, fds : Ids \union {None, Stdin}]]
  /\ buf \in [Ids -> Seq(Block)] /\ \A i \in Ids : Len(buf[i]) <= PipeCap
  /\ rd \in [Ids -> SUBSET (Ids \union {Frontend})]
  /\ wr \in [Ids -> SUBSET (Ids \union {Frontend})]
  /\ nonblock \subseteq Ids
  /\ reader \in [Task -> [out : Ids \union {None, Stdin}, sent : 0..Image]]
  /\ call \in [op : {"none", "read", "cancel"}, d : Dev \union {None},
               pc : {"idle", "read", "close", "kill", "wait", "fds"}, n : -1..MaxRead]
  /\ dead \in BOOLEAN
  /\ got \in [Dev -> Seq(Block)]
  /\ trouble \subseteq Kinds

\* sane_read delivers the image of the device it is called for, each block once and in
\* order, unless a second sanei_thread_begin overtook the first thread's look at td, or a
\* sane_start without a pipe leaves the device reading on in that of an earlier scan.
ImageInOrder ==
  ~Met({"raced", "stale"}) => \A d \in Dev : \A k \in 1..Len(got[d]) : got[d][k] = <<d, k>>

\* A device that reports the end of the image (test_device->eof) has delivered as many
\* bytes, unless it took the failure of a call for the end.
EofIsComplete ==
  ~Met({"again", "nopipe", "nopicture"}) =>
     \A d \in Dev : dev[d].eof => Len(got[d]) >= Image

\* After the end or a cancel nothing of the pass is left by finish_pass: no task and no
\* descriptor of the frontend's, unless sane_start or sane_close came in mid-scan.
NothingLeft ==
  Idle /\ ~Met({"restart", "close"}) =>
     \A i \in Ids : task[i].st # "none" \/ Frontend \in rd[i] \union wr[i] =>
                      \E d \in Dev : dev[d].scanning /\ i \in {dev[d].pid, dev[d].pipe}

\* SIGPIPE does not end the frontend though finish_pass closes the pipe under a running
\* thread, unless sanei_thread_waitpid for another task has turned it back on.
FrontendSurvives == ~Met({"unguarded"}) => ~dead

\* The child missed the kill and will not meet EPIPE either: it has written all and
\* sleeps, or another device's child inherited the read end of its pipe.
Stranded ==
  /\ call.pc = "wait" /\ Met({"deaf"}) /\ ~task[Me.pid].killed
  /\ reader[Me.pid].sent = Image \/ rd[Me.pid] \ {Me.pid} # {}

\* sane_read returns (test.c:3003 blocks in read, 1590 in waitpid), unless a reader that is
\* a thread never wrote, or has written all to the pipe of an earlier scan: the frontend
\* itself, or the sleeping child, keeps the write end open then.
ReadReturns ==
  call.op = "read" ~>
     \/ call.op # "read" \/ dead \/ Stranded \/ Met({"raced", "notask", "stale"})
     \/ ~forked /\ Met({"nopicture"})

\* sane_cancel returns, whatever the reader is doing: it may not have begun, be blocked in
\* a full pipe, or have ended.
CancelReturns == call.op = "cancel" ~> call.op # "cancel" \/ dead \/ Stranded

-----------------------------------------------------------------------------
\* What TypeOK, ImageInOrder, EofIsComplete, NothingLeft and FrontendSurvives rest on.

\* Where a call under way is in sane_read or finish_pass.
Calls ==
  /\ call # NoCall => call.d \in Dev /\ call.op # "none" /\ call.pc # "idle"
  /\ call.pc \in {"read", "close"} => Me.scanning
  /\ call.pc = "read" => call.n >= 1
  /\ call.pc \in {"kill", "wait", "fds"} => ~Me.scanning /\ Me.pipe = None
  /\ call.pc \in {"kill", "wait"} => Me.pid # None
  /\ call.pc = "fds" => Me.pid = None

\* A task knows its device from the start, or takes it from td.
Tasks ==
  \A t \in Task :
    /\ task[t].st \in {"none", "created"} => reader[t] = NoReader
    /\ task[t].st = "created" => (IF forked THEN task[t].arg ELSE td) \in Dev
    /\ task[t].st = "running" => task[t].arg \in Dev /\ (forked => Out(t) = t)

\* The thread that has yet to read td is the one of the last sanei_thread_begin.
HandedOver ==
  ~Met({"raced"}) /\ ~forked =>
    \A t \in Task : /\ task[t].st = "created" => dev[td].fds = t /\ dev[td].pid = t
                    /\ task[t].st = "running" => Out(t) = t

\* What a device has is open, and no other device's.
Own(d) == {dev[d].pid, dev[d].pipe, dev[d].fds} \intersect Ids
Owned ==
  /\ \A d, e \in Dev : Own(d) \intersect Own(e) # {} => d = e
  /\ \A d \in Dev : /\ dev[d].pid # None => task[dev[d].pid].st # "none"
                    /\ dev[d].pipe # None => Frontend \in rd[dev[d].pipe]
                    /\ dev[d].fds \in Ids => Frontend \in wr[dev[d].fds]

\* A pipe that is read has a writer: the frontend itself, or the live child.
Fed ==
  ~Met({"nopicture"}) =>
    \A d \in Dev : dev[d].pipe # None =>
      \/ dev[d].fds = dev[d].pipe
      \/ /\ forked /\ Alive(dev[d].pipe) /\ ~task[dev[d].pipe].killed
         /\ dev[d].pipe \in wr[dev[d].pipe]

\* What was delivered and what is in the pipe make up what the reader has sent.
Streamed(d, i) ==
  /\ Len(got[d]) + Len(buf[i]) = reader[i].sent
  /\ \A k \in 1..Len(buf[i]) : buf[i][k] = <<d, Len(got[d]) + k>>
  /\ task[i].st = "running" \/ (forked /\ task[i].st = "created") => task[i].arg = d
Streams ==
  ~Met({"raced", "stale"}) =>
    \A d \in Dev : dev[d].scanning /\ dev[d].pipe # None => Streamed(d, dev[d].pipe)

\* bytes_total counts what was delivered, until the read that completes the image.
Counted ==
  \A d \in Dev : dev[d].scanning /\ ~(call.d = d /\ call.pc = "close") =>
                 dev[d].total = Len(got[d]) /\ dev[d].total < Image
Complete ==
  ~Met({"again", "nopipe", "nopicture"}) =>
    /\ \A d \in Dev : dev[d].scanning => dev[d].pipe # None
    /\ call.op = "read" /\ call.pc # "read" => Len(got[call.d]) >= Image

\* A device that is not scanning has nothing.
Tidy ==
  ~Met({"restart", "close"}) =>
    /\ \A i \in Ids : /\ task[i].st # "none" => \E d \in Dev : dev[d].pid = i
                      /\ Frontend \in rd[i] => \E d \in Dev : dev[d].pipe = i
                      /\ Frontend \in wr[i] => \E d \in Dev : dev[d].fds = i
    /\ \A d \in Dev : ~dev[d].scanning /\ call.d # d => Own(d) = {}
    /\ \A d \in Dev : dev[d].scanning /\ dev[d].fds \in Ids => dev[d].pipe = dev[d].fds

\* SIGPIPE is off as long as a thread may write.
Guarded ==
  ~Met({"unguarded"}) /\ ~forked /\ (\E t \in Task : Alive(t)) => sigpipe = "ign"

IInv ==
  /\ TypeOK /\ Calls /\ Tasks /\ HandedOver /\ Owned /\ Fed /\ Streams /\ Counted
  /\ Complete /\ Tidy /\ Guarded
  /\ ImageInOrder /\ EofIsComplete /\ FrontendSurvives
=============================================================================
