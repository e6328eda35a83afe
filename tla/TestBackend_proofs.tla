-------------------------- MODULE TestBackend_proofs --------------------------
(***************************************************************************)
(* Proofs about TestBackend, with readers as processes or as threads, for  *)
(* any devices, images and pipes and with any number of kinds of trouble:  *)
(* the inductive invariant IInv and the safety properties it implies.      *)
(***************************************************************************)
EXTENDS TestBackend, SequenceTheorems, TLAPS

USE DEF Dev, Ids

-----------------------------------------------------------------------------
\* Facts about the state.

Totals == 0..(SizeMod - 1)
Device == [scanning : BOOLEAN, cancelled : BOOLEAN, eof : BOOLEAN, total : Totals,
           pid : Ids \union {None}, pipe : Ids \union {None}, fds : Ids \union {None, Stdin}]

LEMMA Apart ==
  /\ None \notin Ids /\ Stdin \notin Ids /\ Frontend \notin Ids /\ None \notin Dev /\ NoArg \notin Dev
BY TaskAssumption DEF None, Stdin, Frontend, NoArg

LEMMA TotalsFacts ==
  /\ 0 \in Totals /\ Image \in Totals /\ Image \in Nat \ {0} /\ MaxRead \in Nat \ {0}
  /\ SizeMod \in Nat /\ SizeMod > Image + MaxRead
BY TestAssumption DEF Totals

LEMMA Fields ==
  ASSUME TypeOK
  PROVE  /\ dev \in [Dev -> Device] /\ \A d \in Dev : dev[d] \in Device
         /\ \A d \in Dev : /\ dev[d].pid \in Ids \union {None} /\ dev[d].pipe \in Ids \union {None}
                           /\ dev[d].fds \in Ids \union {None, Stdin}
                           /\ dev[d].scanning \in BOOLEAN /\ dev[d].eof \in BOOLEAN
                           /\ dev[d].total \in Nat /\ dev[d].total < SizeMod
         /\ buf \in [Ids -> Seq(Block)] /\ got \in [Dev -> Seq(Block)]
         /\ \A i \in Ids : buf[i] \in Seq(Block) /\ Len(buf[i]) \in Nat
         /\ \A d \in Dev : got[d] \in Seq(Block) /\ Len(got[d]) \in Nat
<1>1. dev \in [Dev -> Device] /\ \A d \in Dev : dev[d] \in Device
  BY DEF TypeOK, Device, Totals
<1>2. \A x \in Totals : x \in Nat /\ x < SizeMod
  BY TotalsFacts DEF Totals
<1>3. buf \in [Ids -> Seq(Block)] /\ got \in [Dev -> Seq(Block)]
  BY DEF TypeOK
<1>4. /\ \A i \in Ids : buf[i] \in Seq(Block) /\ Len(buf[i]) \in Nat
      /\ \A d \in Dev : got[d] \in Seq(Block) /\ Len(got[d]) \in Nat
  BY <1>3, LenProperties
<1> QED BY <1>1, <1>2, <1>3, <1>4 DEF Device

\* The parts of TypeOK, each of which may be proved by itself.
CallType == [op : {"none", "read", "cancel"}, d : Dev \union {None},
             pc : {"idle", "read", "close", "kill", "wait", "fds"}, n : -1..MaxRead]
Ends == [Ids -> SUBSET (Ids \union {Frontend})]
ReaderType == [Task -> [out : Ids \union {None, Stdin}, sent : 0..Image]]

LEMMA Types ==
  TypeOK <=> /\ ThreadTypeOK /\ dev \in [Dev -> Device]
             /\ buf \in [Ids -> Seq(Block)] /\ \A i \in Ids : Len(buf[i]) <= PipeCap
             /\ rd \in Ends /\ wr \in Ends /\ nonblock \subseteq Ids
             /\ reader \in ReaderType /\ call \in CallType /\ dead \in BOOLEAN
             /\ got \in [Dev -> Seq(Block)] /\ trouble \subseteq Kinds
BY DEF TypeOK, Device, Totals, CallType, Ends, ReaderType

LEMMA TypesNext ==
  TypeOK' <=> /\ ThreadTypeOK' /\ dev' \in [Dev -> Device]
              /\ buf' \in [Ids -> Seq(Block)] /\ \A i \in Ids : Len(buf'[i]) <= PipeCap
              /\ rd' \in Ends /\ wr' \in Ends /\ nonblock' \subseteq Ids
              /\ reader' \in ReaderType /\ call' \in CallType /\ dead' \in BOOLEAN
              /\ got' \in [Dev -> Seq(Block)] /\ trouble' \subseteq Kinds
BY DEF TypeOK, Device, Totals, CallType, Ends, ReaderType

\* Trouble is not forgotten.
LEMMA MetStays ==
  ASSUME trouble \subseteq trouble'
  PROVE  /\ Met({"raced"}) => Met({"raced"})'
         /\ Met({"raced", "stale"}) => Met({"raced", "stale"})'
         /\ Met({"raced"}) => Met({"raced", "stale"})
         /\ Met({"nopicture"}) => Met({"nopicture"})'
         /\ Met({"again", "nopipe", "nopicture"}) => Met({"again", "nopipe", "nopicture"})'
         /\ Met({"restart", "close"}) => Met({"restart", "close"})'
         /\ Met({"unguarded"}) => Met({"unguarded"})'
         /\ \A kind \in trouble' :
              /\ kind = "raced" => Met({"raced"})' /\ Met({"raced", "stale"})'
              /\ kind = "stale" => Met({"raced", "stale"})'
              /\ kind = "nopicture" => Met({"nopicture"})'
              /\ kind \in {"again", "nopipe", "nopicture"} => Met({"again", "nopipe", "nopicture"})'
              /\ kind \in {"restart", "close"} => Met({"restart", "close"})'
              /\ kind = "unguarded" => Met({"unguarded"})'
BY DEF Met

\* Streams, of the values of what a device reads.
StreamOf(d, g, b, r, t, f) ==
  /\ Len(g) + Len(b) = r.sent
  /\ \A k \in 1..Len(b) : b[k] = <<d, Len(g) + k>>
  /\ t.st = "running" \/ (f /\ t.st = "created") => t.arg = d

LEMMA StreamsIs ==
  /\ Streams <=>
       (~Met({"raced", "stale"}) =>
          \A d \in Dev : dev[d].scanning /\ dev[d].pipe # None =>
            StreamOf(d, got[d], buf[dev[d].pipe], reader[dev[d].pipe], task[dev[d].pipe], forked))
  /\ Streams' <=>
       (~Met({"raced", "stale"})' =>
          \A d \in Dev : dev'[d].scanning /\ dev'[d].pipe # None =>
            StreamOf(d, got'[d], buf'[dev'[d].pipe], reader'[dev'[d].pipe], task'[dev'[d].pipe],
                     forked'))
BY DEF Streams, Streamed, StreamOf

LEMMA InitIInv == Init => IInv
<1> SUFFICES ASSUME Init PROVE IInv
  OBVIOUS
<1>1. /\ task = [t \in Task |-> NoTask] /\ reader = [t \in Task |-> NoReader]
      /\ forked \in BOOLEAN /\ catches \in BOOLEAN /\ td = NoArg /\ sigpipe = "dfl"
      /\ call = NoCall /\ dead = FALSE /\ trouble = {} /\ nonblock = {}
      /\ buf = [i \in Ids |-> <<>>] /\ rd = [i \in Ids |-> {}] /\ wr = [i \in Ids |-> {}]
      /\ got = [d \in Dev |-> <<>>]
  BY DEF Init, ThreadInit
<1>2. /\ dev \in [Dev -> Device]
      /\ \A d \in Dev : /\ ~dev[d].scanning /\ ~dev[d].eof
                        /\ dev[d].pid = None /\ dev[d].pipe = None /\ dev[d].fds = Stdin
  BY TotalsFacts DEF Init, Device
<1>3. <<>> \in Seq(Block) /\ Len(<<>>) = 0
  BY EmptySeq
<1>4. ThreadTypeOK
  BY <1>1 DEF ThreadTypeOK, NoTask
<1>5. TypeOK
  <2>1. buf \in [Ids -> Seq(Block)] /\ \A i \in Ids : Len(buf[i]) <= PipeCap
    BY <1>1, <1>3, TestAssumption
  <2>2. got \in [Dev -> Seq(Block)]
    BY <1>1, <1>3
  <2>3. call \in CallType
    BY <1>1, TotalsFacts DEF NoCall, CallType
  <2>4. reader \in ReaderType
    BY <1>1, TotalsFacts DEF NoReader, ReaderType
  <2>5. rd \in Ends /\ wr \in Ends
    BY <1>1 DEF Ends
  <2> QED BY <1>1, <1>2, <1>4, <2>1, <2>2, <2>3, <2>4, <2>5, Types
<1>6. \A t \in Task : task[t].st = "none" /\ reader[t] = NoReader
  BY <1>1 DEF NoTask
<1>7. \A d \in Dev : Own(d) = {} /\ call.d # d
  BY <1>1, <1>2, Apart DEF Own, NoCall
<1>8. Calls /\ Tasks /\ HandedOver /\ Guarded
  BY <1>1, <1>6 DEF Calls, Tasks, HandedOver, Guarded, NoCall, Alive
<1>9. Owned /\ Fed
  BY <1>2, <1>7, Apart DEF Owned, Fed
<1>10. Streams /\ Counted /\ Complete
  BY <1>1, <1>2 DEF Streams, Counted, Complete, NoCall
<1>11. Tidy
  BY <1>1, <1>2, <1>6, <1>7 DEF Tidy
<1>12. ImageInOrder /\ EofIsComplete /\ FrontendSurvives
  BY <1>1, <1>2, <1>3 DEF ImageInOrder, EofIsComplete, FrontendSurvives
<1> QED BY <1>5, <1>8, <1>9, <1>10, <1>11, <1>12 DEF IInv

-----------------------------------------------------------------------------
\* What steps leave alone.

\* No device gains or loses a task or descriptor.
KeepsOwn == \A d \in Dev : /\ dev'[d].pid = dev[d].pid /\ dev'[d].pipe = dev[d].pipe
                           /\ dev'[d].fds = dev[d].fds

LEMMA OwnKept ==
  ASSUME IInv, KeepsOwn, UNCHANGED <<thread, rd, wr, reader>>, trouble \subseteq trouble'
  PROVE  /\ Tasks' /\ HandedOver' /\ Owned' /\ Fed' /\ Guarded'
         /\ \A d \in Dev : Own(d)' = Own(d)
<1>i. Tasks /\ HandedOver /\ Owned /\ Fed /\ Guarded
  BY DEF IInv
<1>u. UNCHANGED <<forked, td, sigpipe, task, rd, wr, reader>>
  BY DEF thread
<1>m. /\ ~Met({"raced"})' => ~Met({"raced"})
      /\ ~Met({"nopicture"})' => ~Met({"nopicture"})
      /\ ~Met({"unguarded"})' => ~Met({"unguarded"})
  BY MetStays
<1>k. \A d \in Dev : /\ dev'[d].pid = dev[d].pid /\ dev'[d].pipe = dev[d].pipe
                     /\ dev'[d].fds = dev[d].fds
  BY DEF KeepsOwn
<1>1. \A d \in Dev : Own(d)' = Own(d)
  BY <1>k DEF Own
<1>2. Tasks'
  BY <1>i, <1>u DEF Tasks, Out
<1>3. HandedOver'
  <2>1. \A t \in Task : task[t].st = "created" /\ ~forked => td \in Dev
    BY <1>i DEF Tasks
  <2> QED BY <1>i, <1>u, <1>m, <1>k, <2>1 DEF HandedOver, Out
<1>4. Owned'
  BY <1>i, <1>u, <1>k, <1>1 DEF Owned
<1>5. Fed'
  BY <1>i, <1>u, <1>m, <1>k DEF Fed, Alive
<1>6. Guarded'
  BY <1>i, <1>u, <1>m DEF Guarded, Alive
<1> QED BY <1>1, <1>2, <1>3, <1>4, <1>5, <1>6

LEMMA DevicesKept ==
  ASSUME IInv, UNCHANGED <<dev, call, got>>, trouble \subseteq trouble'
  PROVE  Calls' /\ Counted' /\ Complete' /\ ImageInOrder' /\ EofIsComplete'
<1>i. Calls /\ Counted /\ Complete /\ ImageInOrder /\ EofIsComplete
  BY DEF IInv
<1>m. /\ ~Met({"raced", "stale"})' => ~Met({"raced", "stale"})
      /\ ~Met({"again", "nopipe", "nopicture"})' => ~Met({"again", "nopipe", "nopicture"})
  BY MetStays
<1> QED BY <1>i, <1>m DEF Calls, Counted, Complete, ImageInOrder, EofIsComplete, Me

LEMMA NoCallCalls == call' = NoCall => Calls'
BY DEF Calls, NoCall
LEMMA ThreadTypeKept == TypeOK /\ UNCHANGED thread => ThreadTypeOK'
BY DEF TypeOK, ThreadTypeOK, thread

-----------------------------------------------------------------------------
\* The API calls that only set flags, and the beginnings of the others.

LEMMA ReopenStep ==
  ASSUME IInv, NEW d \in Dev, Reopen(d)
  PROVE  IInv'
<1>i. /\ TypeOK /\ Streams /\ Counted /\ Complete /\ Tidy /\ ImageInOrder /\ EofIsComplete
      /\ FrontendSurvives
  BY DEF IInv
<1>s. /\ call = NoCall /\ call' = NoCall /\ ~dead
      /\ got' = [got EXCEPT ![d] = <<>>]
      /\ UNCHANGED <<thread, buf, rd, wr, nonblock, reader, call, dead>>
  BY DEF Reopen, Idle, pipes
<1>d. /\ dev' \in [Dev -> Device]
      /\ \A e \in Dev : e # d => dev'[e] = dev[e]
      /\ ~dev'[d].scanning /\ ~dev'[d].eof
      /\ dev'[d].pid = dev[d].pid /\ dev'[d].pipe = dev[d].pipe /\ dev'[d].fds = dev[d].fds
  <2>1. dev \in [Dev -> Device]
    BY <1>i, Fields
  <2>2. PICK m : m = [dev[d] EXCEPT !.scanning = FALSE, !.cancelled = FALSE,
                                    !.eof = FALSE, !.total = 0]
    OBVIOUS
  <2>3. dev' = [dev EXCEPT ![d] = m]
    BY <2>1, <2>2 DEF Reopen, Device
  <2>4. /\ m \in Device /\ ~m.scanning /\ ~m.eof
        /\ m.pid = dev[d].pid /\ m.pipe = dev[d].pipe /\ m.fds = dev[d].fds
    <3>1. dev[d] \in Device /\ 0 \in Totals
      BY <2>1, TotalsFacts
    <3> QED BY <2>2, <3>1 DEF Device
  <2> QED BY <2>1, <2>3, <2>4
<1>g. /\ got' \in [Dev -> Seq(Block)] /\ got'[d] = <<>> /\ Len(got'[d]) = 0
      /\ \A e \in Dev : e # d => got'[e] = got[e]
  BY <1>i, <1>s, Fields, EmptySeq
<1>m. /\ trouble \subseteq trouble' /\ trouble' \subseteq Kinds
      /\ dev[d].scanning => "close" \in trouble'
  BY <1>i DEF Reopen, Meet, If, Kinds, TypeOK
<1>n. /\ ~Met({"raced", "stale"})' => ~Met({"raced", "stale"})
      /\ ~Met({"again", "nopipe", "nopicture"})' => ~Met({"again", "nopipe", "nopicture"})
      /\ ~Met({"restart", "close"})' => ~Met({"restart", "close"}) /\ ~dev[d].scanning
      /\ ~Met({"unguarded"})' => ~Met({"unguarded"})
  BY <1>m, MetStays
<1>u. UNCHANGED <<forked, task>>
  BY <1>s DEF thread
<1>1. TypeOK'
  BY <1>i, <1>s, <1>d, <1>g, <1>m, ThreadTypeKept, Types, TypesNext
<1>2. /\ Tasks' /\ HandedOver' /\ Owned' /\ Fed' /\ Guarded'
      /\ \A e \in Dev : Own(e)' = Own(e)
  <2>1. KeepsOwn
    BY <1>d DEF KeepsOwn
  <2> QED BY <1>s, <1>m, <2>1, OwnKept
<1>3. Streams' /\ Counted'
  <2>1. \A e \in Dev : dev'[e].scanning => e # d /\ dev'[e] = dev[e] /\ got'[e] = got[e]
    BY <1>d, <1>g
  <2>2. Streams'
    BY <1>i, <1>s, <1>u, <1>n, <2>1, StreamsIs
  <2>3. Counted'
    BY <1>i, <1>s, <2>1 DEF Counted
  <2> QED BY <2>2, <2>3
<1>4. Complete' /\ Tidy'
  <2>1. call.op = "none" /\ call.d = None
    BY <1>s DEF NoCall
  <2>2. Complete'
    BY <1>i, <1>s, <1>d, <1>n, <2>1 DEF Complete
  <2>3. Tidy'
    BY <1>i, <1>s, <1>d, <1>n, <1>u, <1>2, <2>1, Apart DEF Tidy
  <2> QED BY <2>2, <2>3
<1>5. ImageInOrder' /\ EofIsComplete' /\ FrontendSurvives'
  BY <1>i, <1>s, <1>d, <1>g, <1>n DEF ImageInOrder, EofIsComplete, FrontendSurvives
<1> QED BY <1>1, <1>2, <1>3, <1>4, <1>5, <1>s, NoCallCalls DEF IInv

\* Steps that change no more than nonblock and call, at the beginning of a call.
BeginsCall(c) ==
  /\ call = NoCall /\ ~dead /\ call' = c
  /\ nonblock' \subseteq Ids /\ trouble \subseteq trouble' /\ trouble' \subseteq Kinds
  /\ UNCHANGED <<thread, dev, buf, rd, wr, reader, dead, got>>

LEMMA BeginsCallStep ==
  ASSUME IInv, NEW c, BeginsCall(c),
         c = NoCall \/ /\ c \in [op : {"read", "cancel"}, d : Dev, pc : {"read", "close"}, n : 0..MaxRead]
                       /\ dev[c.d].scanning /\ (c.pc = "read" => c.n >= 1)
                       /\ c.op = "read" <=> c.pc = "read"
  PROVE  IInv'
<1>i. /\ TypeOK /\ Streams /\ Counted /\ Complete /\ Tidy /\ ImageInOrder /\ EofIsComplete
      /\ FrontendSurvives
  BY DEF IInv
<1>s. /\ call = NoCall /\ ~dead /\ call' = c
      /\ nonblock' \subseteq Ids /\ trouble \subseteq trouble' /\ trouble' \subseteq Kinds
      /\ UNCHANGED <<thread, dev, buf, rd, wr, reader, dead, got>>
  BY DEF BeginsCall
<1>c. /\ c \in CallType
      /\ c # NoCall => /\ c.d \in Dev /\ dev[c.d].scanning /\ c.op # "none" /\ c.pc \in {"read", "close"}
                       /\ (c.pc = "read" => c.n >= 1) /\ (c.op = "read" => c.pc = "read")
      /\ c = NoCall => c.op = "none" /\ c.pc = "idle" /\ c.d = None
  BY TotalsFacts DEF NoCall, CallType
<1>n. /\ ~Met({"raced", "stale"})' => ~Met({"raced", "stale"})
      /\ ~Met({"again", "nopipe", "nopicture"})' => ~Met({"again", "nopipe", "nopicture"})
      /\ ~Met({"restart", "close"})' => ~Met({"restart", "close"})
      /\ ~Met({"unguarded"})' => ~Met({"unguarded"})
  BY <1>s, MetStays
<1>u. UNCHANGED <<forked, task>>
  BY <1>s DEF thread
<1>1. TypeOK'
  BY <1>i, <1>s, <1>c, ThreadTypeKept, Types, TypesNext
<1>2. /\ Tasks' /\ HandedOver' /\ Owned' /\ Fed' /\ Guarded'
      /\ \A e \in Dev : Own(e)' = Own(e)
  <2>1. KeepsOwn
    BY <1>s DEF KeepsOwn
  <2> QED BY <1>s, <2>1, OwnKept
<1>3. Calls'
  BY <1>s, <1>c DEF Calls, Me
<1>4. Streams' /\ Counted' /\ Complete'
  <2>1. call.d = None /\ call.pc = "idle"
    BY <1>s DEF NoCall
  <2>2. Streams'
    BY <1>i, <1>s, <1>n, <1>u, StreamsIs
  <2>3. Counted'
    BY <1>i, <1>s, <2>1 DEF Counted
  <2>4. Complete'
    BY <1>i, <1>s, <1>c, <1>n DEF Complete
  <2> QED BY <2>2, <2>3, <2>4
<1>5. Tidy'
  <2>1. call.d = None
    BY <1>s DEF NoCall
  <2> QED BY <1>i, <1>s, <1>c, <1>n, <1>u, <1>2, <2>1, Apart DEF Tidy
<1>6. ImageInOrder' /\ EofIsComplete' /\ FrontendSurvives'
  BY <1>i, <1>s, <1>n DEF ImageInOrder, EofIsComplete, FrontendSurvives
<1> QED BY <1>1, <1>2, <1>3, <1>4, <1>5, <1>6 DEF IInv

LEMMA SetIoModeStep ==
  ASSUME IInv, NEW d \in Dev, NEW on \in BOOLEAN, SetIoMode(d, on)
  PROVE  IInv'
<1>i. TypeOK
  BY DEF IInv
<1>1. nonblock' \subseteq Ids
  BY <1>i, Fields DEF SetIoMode, TypeOK
<1>2. trouble \subseteq trouble' /\ trouble' \subseteq Kinds
  BY <1>i DEF SetIoMode, Meet, If, Kinds, TypeOK
<1>3. BeginsCall(NoCall)
  BY <1>1, <1>2 DEF SetIoMode, Idle, BeginsCall
<1> QED BY <1>3, BeginsCallStep

LEMMA ReadStep ==
  ASSUME IInv, NEW d \in Dev, NEW n \in 1..MaxRead, Read(d, n)
  PROVE  IInv'
<1> DEFINE c == [op |-> "read", pc |-> "read", d |-> d, n |-> n]
<1>1. /\ c \in [op : {"read", "cancel"}, d : Dev, pc : {"read", "close"}, n : 0..MaxRead]
      /\ dev[c.d].scanning /\ c.n >= 1 /\ c.op = "read" /\ c.pc = "read"
  BY DEF Read
<1>2. BeginsCall(c)
  BY DEF Read, Idle, BeginsCall, pipes, IInv, TypeOK
<1> HIDE DEF c
<1> QED BY <1>1, <1>2, BeginsCallStep

LEMMA CancelStep ==
  ASSUME IInv, NEW d \in Dev, Cancel(d)
  PROVE  IInv'
<1> DEFINE c == [op |-> "cancel", pc |-> "close", d |-> d, n |-> 0]
<1>1. /\ c \in [op : {"read", "cancel"}, d : Dev, pc : {"read", "close"}, n : 0..MaxRead]
      /\ dev[c.d].scanning /\ c.op = "cancel" /\ c.pc = "close"
  BY TotalsFacts DEF Cancel
<1>2. BeginsCall(c)
  BY DEF Cancel, Idle, BeginsCall, pipes, IInv, TypeOK
<1> HIDE DEF c
<1> QED BY <1>1, <1>2, BeginsCallStep

-----------------------------------------------------------------------------
\* sane_start.

LEMMA StartedFacts ==
  ASSUME dev \in [Dev -> Device], NEW d \in Dev, NEW pid \in Ids \union {None},
         NEW pipe \in Ids \union {None}, NEW fds \in Ids \union {None, Stdin},
         Started(d, pid, pipe, fds)
  PROVE  /\ dev' \in [Dev -> Device] /\ \A e \in Dev : e # d => dev'[e] = dev[e]
         /\ dev'[d].scanning /\ ~dev'[d].eof /\ dev'[d].total = 0
         /\ dev'[d].pid = pid /\ dev'[d].pipe = pipe /\ dev'[d].fds = fds
<1>1. PICK m : m = [dev[d] EXCEPT !.scanning = TRUE, !.cancelled = FALSE, !.eof = FALSE,
                                  !.total = 0, !.pid = pid, !.pipe = pipe, !.fds = fds]
  OBVIOUS
<1>2. dev' = [dev EXCEPT ![d] = m]
  BY <1>1 DEF Started, Device
<1>3. /\ m \in Device /\ m.scanning /\ ~m.eof /\ m.total = 0
      /\ m.pid = pid /\ m.pipe = pipe /\ m.fds = fds
  <2>1. dev[d] \in Device /\ 0 \in Totals
    BY TotalsFacts
  <2> QED BY <1>1, <2>1 DEF Device
<1> QED BY <1>2, <1>3

LEMMA StartNoPipeStep ==
  ASSUME IInv, NEW d \in Dev, StartNoPipe(d)
  PROVE  IInv'
<1>i. /\ TypeOK /\ Streams /\ Counted /\ Complete /\ Tidy /\ ImageInOrder /\ EofIsComplete
      /\ FrontendSurvives
  BY DEF IInv
<1>s. /\ call = NoCall /\ call' = NoCall /\ ~dead
      /\ got' = [got EXCEPT ![d] = <<>>]
      /\ UNCHANGED <<thread, buf, rd, wr, nonblock, reader, call, dead>>
  BY DEF StartNoPipe, Idle, pipes
<1>d. /\ dev' \in [Dev -> Device]
      /\ \A e \in Dev : e # d => dev'[e] = dev[e]
      /\ dev'[d].scanning /\ ~dev'[d].eof /\ dev'[d].total = 0
      /\ dev'[d].pid = dev[d].pid /\ dev'[d].pipe = dev[d].pipe /\ dev'[d].fds = dev[d].fds
  <2>1. /\ dev \in [Dev -> Device] /\ dev[d].pid \in Ids \union {None}
        /\ dev[d].pipe \in Ids \union {None} /\ dev[d].fds \in Ids \union {None, Stdin}
    BY <1>i, Fields
  <2>0. dev \in [Dev -> Device]
    BY <2>1
  <2>2. PICK p \in Ids \union {None}, q \in Ids \union {None}, f \in Ids \union {None, Stdin} :
          p = dev[d].pid /\ q = dev[d].pipe /\ f = dev[d].fds /\ Started(d, p, q, f)
    BY <2>1 DEF StartNoPipe
  <2>3. /\ dev' \in [Dev -> Device] /\ \A e \in Dev : e # d => dev'[e] = dev[e]
        /\ dev'[d].scanning /\ ~dev'[d].eof /\ dev'[d].total = 0
        /\ dev'[d].pid = p /\ dev'[d].pipe = q /\ dev'[d].fds = f
    <3>1. Started(d, p, q, f)
      BY <2>2
    <3> QED BY <2>0, <3>1, StartedFacts
  <2> QED BY <2>2, <2>3
<1>g. /\ got' \in [Dev -> Seq(Block)] /\ got'[d] = <<>> /\ Len(got'[d]) = 0
      /\ \A e \in Dev : e # d => got'[e] = got[e]
  BY <1>i, <1>s, Fields, EmptySeq
<1>m. /\ trouble \subseteq trouble' /\ trouble' \subseteq Kinds
      /\ "nopipe" \in trouble'
      /\ dev[d].scanning => "restart" \in trouble'
      /\ dev[d].pipe # None => "stale" \in trouble'
  BY <1>i DEF StartNoPipe, Meet, If, Kinds, TypeOK
<1>n. /\ ~Met({"raced", "stale"})' => ~Met({"raced", "stale"}) /\ dev[d].pipe = None
      /\ Met({"again", "nopipe", "nopicture"})'
      /\ ~Met({"restart", "close"})' => ~Met({"restart", "close"}) /\ ~dev[d].scanning
      /\ ~Met({"unguarded"})' => ~Met({"unguarded"})
  BY <1>m, MetStays
<1>u. UNCHANGED <<forked, task>>
  BY <1>s DEF thread
<1>c. call.d = None /\ call.pc = "idle"
  BY <1>s DEF NoCall
<1>1. TypeOK'
  BY <1>i, <1>s, <1>d, <1>g, <1>m, ThreadTypeKept, Types, TypesNext
<1>2. /\ Tasks' /\ HandedOver' /\ Owned' /\ Fed' /\ Guarded'
      /\ \A e \in Dev : Own(e)' = Own(e)
  <2>1. KeepsOwn
    BY <1>d DEF KeepsOwn
  <2> QED BY <1>s, <1>m, <2>1, OwnKept
<1>3. Streams'
  BY <1>i, <1>s, <1>u, <1>n, <1>d, <1>g, StreamsIs
<1>4. Counted'
  <2>1. dev'[d].total = Len(got'[d]) /\ dev'[d].total < Image
    BY <1>d, <1>g, TotalsFacts
  <2>2. \A e \in Dev : e # d => dev'[e] = dev[e] /\ got'[e] = got[e]
    BY <1>d, <1>g
  <2> QED BY <1>i, <1>s, <1>c, <2>1, <2>2 DEF Counted
<1>5. Complete'
  BY <1>n DEF Complete
<1>6. Tidy'
  <2> SUFFICES ASSUME ~Met({"restart", "close"})' PROVE Tidy'
    BY DEF Tidy
  <2>1. Own(d) = {}
    BY <1>i, <1>n, <1>c, Apart DEF Tidy
  <2>2. dev[d].fds \notin Ids
    BY <2>1 DEF Own
  <2> QED BY <1>i, <1>s, <1>d, <1>n, <1>u, <1>2, <1>c, <2>2, Apart DEF Tidy
<1>7. ImageInOrder' /\ EofIsComplete' /\ FrontendSurvives'
  BY <1>i, <1>s, <1>d, <1>g, <1>n DEF ImageInOrder, EofIsComplete, FrontendSurvives
<1> QED BY <1>1, <1>2, <1>3, <1>4, <1>5, <1>6, <1>7, <1>s, NoCallCalls DEF IInv

\* An identifier that is not in use is no device's.
LEMMA Fresh ==
  ASSUME IInv, NEW i \in Ids, Unused(i)
  PROVE  /\ \A e \in Dev : i \notin Own(e) /\ dev[e].pid # i /\ dev[e].pipe # i /\ dev[e].fds # i
         /\ reader[i] = NoReader
BY Apart DEF IInv, Owned, Unused, Own, Tasks

\* The ends of a new pipe, and what a child inherits of the others.
OthersKept(ends, new, i) ==
  \A j \in Ids : j # i => /\ ends[j] \subseteq new[j]
                          /\ Frontend \in new[j] <=> Frontend \in ends[j]

LEMMA EndsFacts ==
  ASSUME NEW ends \in Ends, NEW i \in Ids
  PROVE  /\ OpenEnds(ends, i) \in Ends /\ Inherit(OpenEnds(ends, i), i) \in Ends
         /\ WriteEnds(OpenEnds(ends, i), i) \in Ends
         /\ OpenEnds(ends, i)[i] = {Frontend} /\ Frontend \in Inherit(OpenEnds(ends, i), i)[i]
         /\ WriteEnds(OpenEnds(ends, i), i)[i] = {i}
         /\ OthersKept(ends, OpenEnds(ends, i), i)
         /\ OthersKept(ends, Inherit(OpenEnds(ends, i), i), i)
         /\ OthersKept(ends, WriteEnds(OpenEnds(ends, i), i), i)
<1> DEFINE o == OpenEnds(ends, i)
           h == Inherit(o, i)
<1>1. /\ o \in Ends /\ o[i] = {Frontend} /\ \A j \in Ids : j # i => o[j] = ends[j]
  BY DEF OpenEnds, Ends
<1> HIDE DEF o
<1>2. /\ h \in Ends /\ h[i] = {Frontend, i}
      /\ \A j \in Ids : /\ o[j] \subseteq h[j]
                        /\ Frontend \in h[j] <=> Frontend \in o[j]
  BY <1>1, Apart DEF Inherit, Ends
<1>3. WriteEnds(o, i) = [h EXCEPT ![i] = {i}]
  BY DEF WriteEnds
<1> HIDE DEF h
<1>4. WriteEnds(o, i) \in Ends /\ WriteEnds(o, i)[i] = {i} /\ \A j \in Ids : j # i => WriteEnds(o, i)[j] = h[j]
  BY <1>2, <1>3 DEF Ends
<1>5. OthersKept(ends, o, i) /\ OthersKept(ends, h, i) /\ OthersKept(ends, WriteEnds(o, i), i)
  BY <1>1, <1>2, <1>4 DEF OthersKept
<1> QED BY <1>1, <1>2, <1>4, <1>5 DEF h, o

LEMMA OpenStep ==
  ASSUME IInv, NEW d \in Dev, NEW i \in Ids, Start(d, i) \/ StartNoTask(d, i)
  PROVE  IInv'
<1>i. /\ TypeOK /\ Tasks /\ HandedOver /\ Owned /\ Fed /\ Streams /\ Counted /\ Complete /\ Tidy
      /\ ImageInOrder /\ EofIsComplete /\ FrontendSurvives
  BY DEF IInv
<1>t. /\ dev \in [Dev -> Device] /\ buf \in [Ids -> Seq(Block)] /\ got \in [Dev -> Seq(Block)]
      /\ rd \in Ends /\ wr \in Ends /\ nonblock \subseteq Ids /\ reader \in ReaderType
      /\ ThreadTypeOK /\ trouble \subseteq Kinds /\ \A j \in Ids : Len(buf[j]) <= PipeCap
  BY <1>i, Types
<1>f. /\ Unused(i) /\ task[i].st = "none" /\ Frontend \notin rd[i] \union wr[i]
      /\ \A e \in Dev : i \notin Own(e) /\ dev[e].pid # i /\ dev[e].pipe # i /\ dev[e].fds # i
      /\ reader[i] = NoReader
  <2>1. Unused(i)
    BY DEF Start, StartNoTask
  <2> QED BY <2>1, Fresh DEF Unused
<1>s. /\ call = NoCall /\ call' = NoCall /\ ~dead /\ dead' = dead
      /\ got' = [got EXCEPT ![d] = <<>>] /\ buf' = [buf EXCEPT ![i] = <<>>]
      /\ nonblock' = nonblock \ {i}
      /\ reader' = [reader EXCEPT ![i] = NoReader] \/ reader' = reader
  BY DEF Start, StartNoTask, Idle
<1>c. call.d = None /\ call.pc = "idle"
  BY <1>s DEF NoCall
<1>b. \/ /\ task' = [task EXCEPT ![i] = [st |-> "created", killed |-> FALSE,
                                        arg |-> IF forked THEN d ELSE NoArg]]
         /\ Started(d, i, i, IF forked THEN None ELSE i)
         /\ IF forked THEN /\ rd' = Inherit(OpenEnds(rd, i), i)
                           /\ wr' = WriteEnds(OpenEnds(wr, i), i)
                      ELSE rd' = OpenEnds(rd, i) /\ wr' = OpenEnds(wr, i)
      \/ /\ task' = task /\ Started(d, None, i, i)
         /\ rd' = OpenEnds(rd, i) /\ wr' = OpenEnds(wr, i)
  BY DEF Start, StartNoTask, Begin, BeginFails
<1>h. /\ forked' = forked /\ catches' = catches
      /\ IF forked THEN td' = td /\ sigpipe' = sigpipe ELSE td' = d /\ sigpipe' = "ign"
  BY DEF Start, StartNoTask, Begin, BeginFails, HandOver
<1>m. /\ trouble \subseteq trouble' /\ trouble' \subseteq Kinds
      /\ dev[d].scanning => "restart" \in trouble'
      /\ ~forked /\ (\E t \in Task : task[t].st = "created") => "raced" \in trouble'
  BY <1>t DEF Start, StartNoTask, Meet, If, Kinds
<1>n. /\ ~Met({"raced", "stale"})' => ~Met({"raced", "stale"})
      /\ ~Met({"raced"})' => /\ ~Met({"raced"})
                             /\ ~forked => \A t \in Task : task[t].st # "created"
      /\ ~Met({"nopicture"})' => ~Met({"nopicture"})
      /\ ~Met({"again", "nopipe", "nopicture"})' => ~Met({"again", "nopipe", "nopicture"})
      /\ ~Met({"restart", "close"})' => ~Met({"restart", "close"}) /\ ~dev[d].scanning
      /\ ~Met({"unguarded"})' => ~Met({"unguarded"})
  BY <1>m, MetStays
<1>d. /\ dev' \in [Dev -> Device] /\ \A e \in Dev : e # d => dev'[e] = dev[e]
      /\ dev'[d].scanning /\ ~dev'[d].eof /\ dev'[d].total = 0 /\ dev'[d].pipe = i
      /\ \/ dev'[d].pid = i /\ dev'[d].fds = IF forked THEN None ELSE i
         \/ dev'[d].pid = None /\ dev'[d].fds = i
  <2>1. CASE Started(d, i, i, IF forked THEN None ELSE i)
    <3>1. PICK f \in Ids \union {None, Stdin} : f = IF forked THEN None ELSE i
      OBVIOUS
    <3>2. Started(d, i, i, f)
      BY <2>1, <3>1
    <3> QED BY <1>t, <3>1, <3>2, StartedFacts
  <2>2. CASE Started(d, None, i, i)
    BY <1>t, <2>2, StartedFacts
  <2> QED BY <1>b, <2>1, <2>2
<1>g. /\ got' \in [Dev -> Seq(Block)] /\ got'[d] = <<>> /\ Len(got'[d]) = 0
      /\ \A e \in Dev : e # d => got'[e] = got[e]
      /\ buf' \in [Ids -> Seq(Block)] /\ buf'[i] = <<>> /\ Len(buf'[i]) = 0
      /\ \A j \in Ids : j # i => buf'[j] = buf[j]
  BY <1>t, <1>s, EmptySeq
<1>r. /\ reader' \in ReaderType /\ reader'[i] = NoReader
      /\ \A j \in Ids : j # i => reader'[j] = reader[j]
  <2>1. NoReader \in [out : Ids \union {None, Stdin}, sent : 0..Image]
    BY TotalsFacts DEF NoReader
  <2> QED BY <1>t, <1>s, <1>f, <2>1 DEF ReaderType
<1>k. /\ ThreadTypeOK' /\ \A j \in Task : j # i => task'[j] = task[j]
      /\ \/ /\ task'[i].st = "created" /\ ~task'[i].killed /\ (forked => task'[i].arg = d)
            /\ dev'[d].pid = i /\ dev'[d].fds = IF forked THEN None ELSE i
         \/ /\ task'[i].st = "none" /\ dev'[d].fds = i /\ dev'[d].pid = None
  <2>t. task \in [Task -> [st : {"none", "created", "running", "ended"},
                          arg : Arg \union {NoArg}, killed : BOOLEAN]]
    BY <1>t DEF ThreadTypeOK
  <2>h. /\ forked' \in BOOLEAN /\ catches' \in BOOLEAN /\ td' \in Arg \union {NoArg}
        /\ sigpipe' \in {"dfl", "ign"}
    BY <1>t, <1>h DEF ThreadTypeOK
  <2>1. CASE task' = [task EXCEPT ![i] = [st |-> "created", killed |-> FALSE,
                                          arg |-> IF forked THEN d ELSE NoArg]]
             /\ Started(d, i, i, IF forked THEN None ELSE i)
    <3>1. PICK a \in Arg \union {NoArg} : a = IF forked THEN d ELSE NoArg
      OBVIOUS
    <3>2. PICK m : m = [st |-> "created", killed |-> FALSE, arg |-> a]
      OBVIOUS
    <3>3. task' = [task EXCEPT ![i] = m]
      BY <2>1, <3>1, <3>2
    <3>4. /\ m \in [st : {"none", "created", "running", "ended"},
                     arg : Arg \union {NoArg}, killed : BOOLEAN]
          /\ m.st = "created" /\ ~m.killed /\ m.arg = a
      BY <3>2
    <3>5. /\ task' \in [Task -> [st : {"none", "created", "running", "ended"},
                                 arg : Arg \union {NoArg}, killed : BOOLEAN]]
          /\ task'[i] = m /\ \A j \in Task : j # i => task'[j] = task[j]
      BY <2>t, <3>3, <3>4
    <3>6. dev'[d].pid = i /\ dev'[d].fds = IF forked THEN None ELSE i
      <4>1. PICK f \in Ids \union {None, Stdin} : f = IF forked THEN None ELSE i
        OBVIOUS
      <4>2. Started(d, i, i, f)
        BY <2>1, <4>1
      <4> QED BY <1>t, <4>1, <4>2, StartedFacts
    <3> QED BY <2>h, <3>1, <3>4, <3>5, <3>6 DEF ThreadTypeOK
  <2>2. CASE task' = task /\ Started(d, None, i, i)
    <3>1. dev'[d].fds = i /\ dev'[d].pid = None
      BY <1>t, <2>2, StartedFacts
    <3> QED BY <2>h, <2>t, <2>2, <3>1, <1>f DEF ThreadTypeOK
  <2> QED BY <1>b, <2>1, <2>2
<1>e. /\ rd' \in Ends /\ wr' \in Ends /\ Frontend \in rd'[i]
      /\ dev'[d].fds = i => Frontend \in wr'[i]
      /\ dev'[d].fds = None => wr'[i] = {i}
      /\ OthersKept(rd, rd', i) /\ OthersKept(wr, wr', i)
  <2>1. CASE /\ Started(d, i, i, IF forked THEN None ELSE i)
             /\ IF forked THEN /\ rd' = Inherit(OpenEnds(rd, i), i)
                               /\ wr' = WriteEnds(OpenEnds(wr, i), i)
                          ELSE rd' = OpenEnds(rd, i) /\ wr' = OpenEnds(wr, i)
    <3>1. dev'[d].fds = IF forked THEN None ELSE i
      <4>1. PICK f \in Ids \union {None, Stdin} : f = IF forked THEN None ELSE i
        OBVIOUS
      <4>2. Started(d, i, i, f)
        BY <2>1, <4>1
      <4> QED BY <1>t, <4>1, <4>2, StartedFacts
    <3>2. CASE forked
      <4>1. rd' = Inherit(OpenEnds(rd, i), i) /\ wr' = WriteEnds(OpenEnds(wr, i), i)
        BY <2>1, <3>2
      <4>2. rd' \in Ends /\ Frontend \in rd'[i] /\ OthersKept(rd, rd', i)
        BY <1>t, <4>1, EndsFacts
      <4>3. wr' \in Ends /\ wr'[i] = {i} /\ OthersKept(wr, wr', i)
        BY <1>t, <4>1, EndsFacts
      <4> QED BY <3>1, <3>2, <4>2, <4>3, Apart
    <3>3. CASE ~forked
      <4>1. rd' = OpenEnds(rd, i) /\ wr' = OpenEnds(wr, i)
        BY <2>1, <3>3
      <4>2. rd' \in Ends /\ rd'[i] = {Frontend} /\ OthersKept(rd, rd', i)
        BY <1>t, <4>1, EndsFacts
      <4>3. wr' \in Ends /\ wr'[i] = {Frontend} /\ OthersKept(wr, wr', i)
        BY <1>t, <4>1, EndsFacts
      <4> QED BY <3>1, <3>3, <4>2, <4>3, Apart
    <3> QED BY <3>2, <3>3
  <2>2. CASE Started(d, None, i, i) /\ rd' = OpenEnds(rd, i) /\ wr' = OpenEnds(wr, i)
    <3>1. dev'[d].fds = i
      BY <1>t, <2>2, StartedFacts
    <3>2. rd' \in Ends /\ rd'[i] = {Frontend} /\ OthersKept(rd, rd', i)
      BY <1>t, <2>2, EndsFacts
    <3>3. wr' \in Ends /\ wr'[i] = {Frontend} /\ OthersKept(wr, wr', i)
      BY <1>t, <2>2, EndsFacts
    <3> QED BY <3>1, <3>2, <3>3, Apart
  <2> QED BY <1>b, <2>1, <2>2
<1>o. /\ Own(d)' = {i} /\ \A e \in Dev : e # d => Own(e)' = Own(e)
  BY <1>d, Apart DEF Own
<1>q. \A e \in Dev : /\ dev[e].pid \in Ids \union {None} /\ dev[e].pipe \in Ids \union {None}
                     /\ dev[e].fds \in Ids \union {None, Stdin}
  BY <1>i, Fields
<1>w. \A j \in Ids : j # i => /\ wr[j] \subseteq wr'[j]
                              /\ Frontend \in wr'[j] <=> Frontend \in wr[j]
                              /\ Frontend \in rd'[j] <=> Frontend \in rd[j]
  BY <1>e DEF OthersKept
<1>1. TypeOK'
  <2>1. \A j \in Ids : Len(buf'[j]) <= PipeCap
    BY <1>t, <1>g, TestAssumption
  <2> QED BY <1>i, <1>s, <1>t, <1>d, <1>g, <1>r, <1>k, <1>e, <1>m, <2>1, Types, TypesNext
<1>2. Tasks'
  <2> SUFFICES ASSUME NEW t \in Task
               PROVE  /\ task'[t].st \in {"none", "created"} => reader'[t] = NoReader
                      /\ task'[t].st = "created" => (IF forked THEN task'[t].arg ELSE td') \in Dev
                      /\ task'[t].st = "running" => task'[t].arg \in Dev /\ (forked => reader'[t].out = t)
    BY <1>h DEF Tasks, Out
  <2>1. CASE t = i
    BY <1>h, <1>r, <1>k, <2>1
  <2>2. CASE t # i
    BY <1>i, <1>h, <1>r, <1>k, <2>2 DEF Tasks, Out
  <2> QED BY <2>1, <2>2
<1>3. HandedOver'
  <2> SUFFICES ASSUME ~Met({"raced"})', ~forked, NEW t \in Task
               PROVE  /\ task'[t].st = "created" => dev'[td'].fds = t /\ dev'[td'].pid = t
                      /\ task'[t].st = "running" => reader'[t].out = t
    BY <1>h DEF HandedOver, Out
  <2>1. CASE t = i
    BY <1>h, <1>k, <2>1
  <2>2. CASE t # i
    BY <1>i, <1>n, <1>r, <1>k, <2>2 DEF HandedOver, Out
  <2> QED BY <2>1, <2>2
<1>4. Owned'
  <2>1. \A e \in Dev, f \in Dev : Own(e)' \intersect Own(f)' # {} => e = f
    BY <1>i, <1>f, <1>o DEF Owned
  <2>2. ASSUME NEW e \in Dev
        PROVE  /\ dev'[e].pid # None => task'[dev'[e].pid].st # "none"
               /\ dev'[e].pipe # None => Frontend \in rd'[dev'[e].pipe]
               /\ dev'[e].fds \in Ids => Frontend \in wr'[dev'[e].fds]
    <3>1. CASE e = d
      BY <1>d, <1>k, <1>e, <3>1, Apart
    <3>2. CASE e # d
      <4>1. /\ dev'[e] = dev[e] /\ dev[e].pid # i /\ dev[e].pipe # i /\ dev[e].fds # i
            /\ dev[e].pid \in Ids \union {None} /\ dev[e].pipe \in Ids \union {None}
        BY <1>d, <1>f, <1>q, <3>2
      <4>2. /\ dev[e].pid # None => task[dev[e].pid].st # "none"
            /\ dev[e].pipe # None => Frontend \in rd[dev[e].pipe]
            /\ dev[e].fds \in Ids => Frontend \in wr[dev[e].fds]
        BY <1>i DEF Owned
      <4>3. dev'[e].pid # None => task'[dev'[e].pid].st # "none"
        BY <1>k, <4>1, <4>2
      <4>4. dev'[e].pipe # None => Frontend \in rd'[dev'[e].pipe]
        BY <1>w, <4>1, <4>2
      <4>5. dev'[e].fds \in Ids => Frontend \in wr'[dev'[e].fds]
        BY <1>w, <4>1, <4>2
      <4> QED BY <4>3, <4>4, <4>5
    <3> QED BY <3>1, <3>2
  <2> QED BY <2>1, <2>2 DEF Owned
<1>5. Fed'
  <2> SUFFICES ASSUME ~Met({"nopicture"})', NEW e \in Dev, dev'[e].pipe # None
               PROVE  \/ dev'[e].fds = dev'[e].pipe
                      \/ /\ forked /\ task'[dev'[e].pipe].st \in {"created", "running"}
                         /\ ~task'[dev'[e].pipe].killed
                         /\ dev'[e].pipe \in wr'[dev'[e].pipe]
    BY <1>h DEF Fed, Alive
  <2>1. CASE e = d
    BY <1>d, <1>k, <1>e, <2>1
  <2>2. CASE e # d
    <3>1. dev'[e] = dev[e] /\ dev[e].pipe \in Ids /\ dev[e].pipe # i
      BY <1>d, <1>f, <1>q, <2>2
    <3>2. \/ dev[e].fds = dev[e].pipe
          \/ /\ forked /\ task[dev[e].pipe].st \in {"created", "running"}
             /\ ~task[dev[e].pipe].killed
             /\ dev[e].pipe \in wr[dev[e].pipe]
      BY <1>i, <1>n, <3>1, Apart DEF Fed, Alive
    <3>3. task'[dev[e].pipe] = task[dev[e].pipe] /\ wr[dev[e].pipe] \subseteq wr'[dev[e].pipe]
      BY <1>k, <1>w, <3>1
    <3> QED BY <3>1, <3>2, <3>3
  <2> QED BY <2>1, <2>2
<1>6. Streams'
  <2>1. StreamOf(d, got'[d], buf'[i], reader'[i], task'[i], forked')
    BY <1>g, <1>r, <1>k, <1>h DEF StreamOf, NoReader
  <2>2. \A e \in Dev : e # d /\ dev[e].pipe # None =>
          /\ dev'[e] = dev[e] /\ got'[e] = got[e] /\ buf'[dev[e].pipe] = buf[dev[e].pipe]
          /\ reader'[dev[e].pipe] = reader[dev[e].pipe] /\ task'[dev[e].pipe] = task[dev[e].pipe]
    BY <1>d, <1>f, <1>g, <1>q, <1>r, <1>k
  <2> QED BY <1>i, <1>n, <1>d, <1>h, <2>1, <2>2, StreamsIs
<1>7. Counted'
  <2>1. dev'[d].total = Len(got'[d]) /\ dev'[d].total < Image
    BY <1>d, <1>g, TotalsFacts
  <2>2. \A e \in Dev : e # d => dev'[e] = dev[e] /\ got'[e] = got[e]
    BY <1>d, <1>g
  <2> QED BY <1>i, <1>s, <1>c, <2>1, <2>2 DEF Counted
<1>8. Complete'
  <2>1. call'.op = "none"
    BY <1>s DEF NoCall
  <2> QED BY <1>i, <1>n, <1>d, <2>1, Apart DEF Complete
<1>9. Tidy'
  <2> SUFFICES ASSUME ~Met({"restart", "close"})' PROVE Tidy'
    BY DEF Tidy
  <2>1. /\ \A j \in Ids : /\ task[j].st # "none" => \E e \in Dev : dev[e].pid = j
                          /\ Frontend \in rd[j] => \E e \in Dev : dev[e].pipe = j
                          /\ Frontend \in wr[j] => \E e \in Dev : dev[e].fds = j
        /\ \A e \in Dev : ~dev[e].scanning => Own(e) = {}
        /\ \A e \in Dev : dev[e].scanning /\ dev[e].fds \in Ids => dev[e].pipe = dev[e].fds
    BY <1>i, <1>n, <1>c, Apart DEF Tidy
  <2>2. dev[d].pid \notin Ids /\ dev[d].pipe \notin Ids /\ dev[d].fds \notin Ids
    BY <1>n, <2>1 DEF Own
  <2>3. ASSUME NEW j \in Ids
        PROVE  /\ task'[j].st # "none" => \E e \in Dev : dev'[e].pid = j
               /\ Frontend \in rd'[j] => \E e \in Dev : dev'[e].pipe = j
               /\ Frontend \in wr'[j] => \E e \in Dev : dev'[e].fds = j
    <3>1. CASE j = i
      BY <1>d, <1>k, <1>e, <3>1, Apart
    <3>2. CASE j # i
      <4>1. /\ task'[j] = task[j]
            /\ Frontend \in wr'[j] <=> Frontend \in wr[j]
            /\ Frontend \in rd'[j] <=> Frontend \in rd[j]
        BY <1>k, <1>w, <3>2
      <4>2. \A e \in Dev : dev[e].pid = j \/ dev[e].pipe = j \/ dev[e].fds = j =>
                            dev'[e] = dev[e]
        BY <1>d, <2>2
      <4>3. /\ task[j].st # "none" => \E e \in Dev : dev[e].pid = j
            /\ Frontend \in rd[j] => \E e \in Dev : dev[e].pipe = j
            /\ Frontend \in wr[j] => \E e \in Dev : dev[e].fds = j
        BY <2>1
      <4>4. task'[j].st # "none" => \E e \in Dev : dev'[e].pid = j
        BY <4>1, <4>2, <4>3
      <4>5. Frontend \in rd'[j] => \E e \in Dev : dev'[e].pipe = j
        BY <4>1, <4>2, <4>3
      <4>6. Frontend \in wr'[j] => \E e \in Dev : dev'[e].fds = j
        BY <4>1, <4>2, <4>3
      <4> QED BY <4>4, <4>5, <4>6
    <3> QED BY <3>1, <3>2
  <2>4. \A e \in Dev : ~dev'[e].scanning /\ call'.d # e => Own(e)' = {}
    BY <1>d, <1>o, <2>1
  <2>5. \A e \in Dev : dev'[e].scanning /\ dev'[e].fds \in Ids => dev'[e].pipe = dev'[e].fds
    BY <1>d, <2>1, Apart
  <2> QED BY <2>3, <2>4, <2>5 DEF Tidy
<1>10. Guarded'
  <2> SUFFICES ASSUME ~Met({"unguarded"})', ~forked' PROVE sigpipe' = "ign"
    BY DEF Guarded
  <2> QED BY <1>h
<1>11. ImageInOrder' /\ EofIsComplete' /\ FrontendSurvives'
  BY <1>i, <1>s, <1>d, <1>g, <1>n DEF ImageInOrder, EofIsComplete, FrontendSurvives
<1> QED BY <1>1, <1>2, <1>3, <1>4, <1>5, <1>6, <1>7, <1>8, <1>9, <1>10, <1>11, <1>s, NoCallCalls
        DEF IInv

-----------------------------------------------------------------------------
\* sane_read: what read() returns and what becomes of it.

\* Blocks that move from the front of a pipe to what was delivered.
LEMMA Moved ==
  ASSUME NEW S, NEW g \in Seq(S), NEW b \in Seq(S), NEW r \in 1..Len(b)
  PROVE  /\ g \o SubSeq(b, 1, r) \in Seq(S) /\ Len(g \o SubSeq(b, 1, r)) = Len(g) + r
         /\ \A k \in 1..(Len(g) + r) :
              (g \o SubSeq(b, 1, r))[k] = IF k <= Len(g) THEN g[k] ELSE b[k - Len(g)]
         /\ SubSeq(b, r + 1, Len(b)) \in Seq(S) /\ Len(SubSeq(b, r + 1, Len(b))) = Len(b) - r
         /\ \A k \in 1..(Len(b) - r) : SubSeq(b, r + 1, Len(b))[k] = b[k + r]
<1>1. Len(g) \in Nat /\ Len(b) \in Nat /\ r \in Nat /\ r >= 1 /\ r <= Len(b)
  BY LenProperties
<1>2. \A k \in 1..Len(b) : b[k] \in S
  BY ElementOfSeq
<1>3. /\ SubSeq(b, 1, r) \in Seq(S) /\ Len(SubSeq(b, 1, r)) = r
      /\ \A k \in 1..r : SubSeq(b, 1, r)[k] = b[k]
  <2>1. \A k \in 1..r : b[k] \in S
    BY <1>1, <1>2
  <2> QED BY <1>1, <2>1, SubSeqProperties
<1>4. /\ SubSeq(b, r + 1, Len(b)) \in Seq(S) /\ Len(SubSeq(b, r + 1, Len(b))) = Len(b) - r
      /\ \A k \in 1..(Len(b) - r) : SubSeq(b, r + 1, Len(b))[k] = b[k + r]
  <2>1. \A k \in (r + 1)..Len(b) : b[k] \in S
    BY <1>1, <1>2
  <2>2. PICK m \in Nat : m = r + 1
    BY <1>1
  <2>3. /\ SubSeq(b, m, Len(b)) \in Seq(S)
        /\ Len(SubSeq(b, m, Len(b))) = IF m <= Len(b) THEN Len(b) - m + 1 ELSE 0
        /\ \A k \in 1..(Len(b) - m + 1) : SubSeq(b, m, Len(b))[k] = b[m + k - 1]
    BY <1>1, <2>1, <2>2, SubSeqProperties
  <2> QED BY <1>1, <2>2, <2>3
<1>5. /\ g \o SubSeq(b, 1, r) \in Seq(S) /\ Len(g \o SubSeq(b, 1, r)) = Len(g) + r
      /\ \A k \in 1..(Len(g) + r) :
           (g \o SubSeq(b, 1, r))[k] = IF k <= Len(g) THEN g[k] ELSE SubSeq(b, 1, r)[k - Len(g)]
  BY <1>3, ConcatProperties
<1>6. \A k \in 1..(Len(g) + r) :
        (g \o SubSeq(b, 1, r))[k] = IF k <= Len(g) THEN g[k] ELSE b[k - Len(g)]
  BY <1>1, <1>3, <1>5
<1> QED BY <1>4, <1>5, <1>6

LEMMA Sums ==
  \A x, y, z \in Nat : /\ (x + z) + (y - z) = x + y
                       /\ x + (y + z) = (x + z) + y
                       /\ x + (y + 1) = (x + y) + 1
OBVIOUS

\* size_t arithmetic on numbers small enough, and on the -1 of a failure.
LEMMA Remainders ==
  ASSUME NEW m \in Nat, m > 1
  PROVE  /\ (-1) % m = m - 1
         /\ \A a \in 0..(m - 1) : a % m = a /\ (a > 0 => (m - 1 + a) % m = a - 1)
OBVIOUS

\* When the read is taken for the last one.
LEMMA LastRead ==
  ASSUME IInv, call.d \in Dev, NEW r \in -1..MaxRead, Me.total \in Nat, Me.total < Image
  PROVE  LooksComplete(r) <=> \/ r = 0 \/ (r = -1 /\ Me.total = 0)
                              \/ (r > 0 /\ r + Me.total >= Image)
<1> PICK x \in Nat : x = Me.total
  OBVIOUS
<1>1. /\ x < Image /\ SizeMod \in Nat /\ SizeMod > 1 /\ Image \in Nat /\ Image >= 1
      /\ SizeMod > Image + MaxRead /\ MaxRead \in Nat
  BY TotalsFacts
<1>r. /\ (-1) % SizeMod = SizeMod - 1
      /\ \A a \in 0..(SizeMod - 1) : a % SizeMod = a
      /\ \A a \in 0..(SizeMod - 1) : a > 0 => (SizeMod - 1 + a) % SizeMod = a - 1
  BY <1>1, Remainders
<1>2. CASE r = -1
  <2>1. (-1) % SizeMod = SizeMod - 1
    BY <1>r
  <2>2. CASE x = 0
    <3>0. SizeMod - 1 \in 0..(SizeMod - 1)
      BY <1>1
    <3>1. (SizeMod - 1) % SizeMod = SizeMod - 1
      BY <1>r, <3>0
    <3> QED BY <1>1, <1>2, <2>1, <2>2, <3>1 DEF LooksComplete
  <2>3. CASE x > 0
    <3>1. (SizeMod - 1 + x) % SizeMod = x - 1
      <4>1. x \in 0..(SizeMod - 1)
        BY <1>1
      <4> QED BY <1>r, <2>3, <4>1
    <3> QED BY <1>1, <1>2, <2>1, <2>3, <3>1 DEF LooksComplete
  <2> QED BY <2>2, <2>3
<1>3. CASE r >= 0
  <2>1. r % SizeMod = r
    <3>1. r \in 0..(SizeMod - 1)
      BY <1>1, <1>3
    <3> QED BY <1>r, <3>1
  <2>2. (r + x) % SizeMod = r + x
    <3>1. r + x \in 0..(SizeMod - 1)
      BY <1>1, <1>3
    <3> QED BY <1>r, <3>1
  <2> QED BY <1>1, <1>3, <2>1, <2>2 DEF LooksComplete
<1> QED BY <1>2, <1>3

LEMMA InCall ==
  ASSUME IInv, call.pc # "idle"
  PROVE  /\ call # NoCall /\ call.d \in Dev /\ call.op # "none"
         /\ call \in CallType
         /\ dev[call.d] \in Device /\ Me = dev[call.d]
         /\ Me.pid \in Ids \union {None} /\ Me.pipe \in Ids \union {None}
         /\ Me.fds \in Ids \union {None, Stdin}
         /\ Me.total \in Nat /\ Me.total < SizeMod
         /\ Len(got[call.d]) \in Nat
<1>1. TypeOK /\ call # NoCall
  BY DEF IInv, NoCall
<1>2. call.d \in Dev /\ call.op # "none"
  BY <1>1 DEF IInv, Calls
<1> QED BY <1>1, <1>2, Types, Fields DEF Me

LEMMA ReadPipeStep ==
  ASSUME IInv, ReadPipe
  PROVE  IInv'
<1>i. /\ TypeOK /\ Calls /\ Owned /\ Fed /\ Streams /\ Counted /\ Complete /\ Tidy
      /\ ImageInOrder /\ EofIsComplete /\ FrontendSurvives
  BY DEF IInv
<1>a. call.pc = "read" /\ ~dead /\ UNCHANGED <<thread, rd, wr, nonblock, reader, dead>>
  BY DEF ReadPipe, At
<1>b. PICK d \in Dev, p \in Ids \union {None} : d = call.d /\ p = dev[d].pipe
  BY <1>a, InCall
<1>t. /\ dev \in [Dev -> Device] /\ buf \in [Ids -> Seq(Block)] /\ got \in [Dev -> Seq(Block)]
      /\ call \in CallType /\ \A j \in Ids : Len(buf[j]) <= PipeCap /\ buf[j] \in Seq(Block)
      /\ got[d] \in Seq(Block) /\ Len(got[d]) \in Nat
  BY <1>i, Types, Fields
<1>c. /\ dev[d].scanning /\ dev[d].total = Len(got[d]) /\ dev[d].total < Image
      /\ dev[d].total \in Nat /\ call.n \in 1..MaxRead /\ call.op # "none" /\ Me = dev[d]
  <2>1. dev[d].scanning /\ call.n >= 1 /\ call.n \in Int /\ call.n <= MaxRead
    BY <1>a, <1>b, <1>i, <1>t, TotalsFacts DEF Calls, Me, CallType
  <2> QED BY <2>1, <1>a, <1>b, <1>i, TotalsFacts, InCall DEF Counted
<1>r. PICK r \in -1..MaxRead :
        /\ Result(r)
        /\ IF r > 0
           THEN /\ buf' = [buf EXCEPT ![p] = SubSeq(@, r + 1, Len(@))]
                /\ got' = [got EXCEPT ![d] = @ \o SubSeq(buf[p], 1, r)]
           ELSE UNCHANGED <<buf, got>>
        /\ IF LooksComplete(r)
           THEN call' = [call EXCEPT !.pc = "close", !.n = r] /\ UNCHANGED dev
           ELSE /\ call' = NoCall
                /\ IF r > 0 THEN dev' = [dev EXCEPT ![d].total = @ + r]
                            ELSE UNCHANGED dev
        /\ Meet(If(r = -1 /\ p # None /\ dev[d].total = 0, "again"))
  BY <1>b, <1>c DEF ReadPipe
<1>q. /\ r \in -1..MaxRead
      /\ r > 0 => p \in Ids /\ r \in 1..Len(buf[p])
      /\ r = 0 => p \in Ids /\ wr[p] = {}
  <2>1. \/ r = -1
        \/ r = 0 /\ p # None /\ wr[p] = {}
        \/ p # None /\ buf[p] # <<>> /\ r = Least(call.n, Len(buf[p]))
    <3>1. Result(r) /\ Me.pipe = p
      BY <1>r, <1>b, <1>c
    <3> QED BY <3>1 DEF Result
  <2>2. MaxRead \in Nat
    BY TotalsFacts
  <2>3. ASSUME p # None, buf[p] # <<>>, r = Least(call.n, Len(buf[p]))
        PROVE  p \in Ids /\ r \in 1..MaxRead /\ r \in 1..Len(buf[p])
    <3>1. p \in Ids /\ Len(buf[p]) \in Nat \ {0}
      BY <1>t, <2>3, EmptySeq
    <3> QED BY <1>c, <2>2, <2>3, <3>1 DEF Least
  <2> QED BY <2>1, <2>2, <2>3
<1>l. LooksComplete(r) <=> \/ r = 0 \/ (r = -1 /\ dev[d].total = 0)
                           \/ (r > 0 /\ r + dev[d].total >= Image)
  <2>1. call.d \in Dev /\ Me.total \in Nat /\ Me.total < Image
    BY <1>b, <1>c
  <2>2. LooksComplete(r) <=> \/ r = 0 \/ (r = -1 /\ Me.total = 0)
                              \/ (r > 0 /\ r + Me.total >= Image)
    BY <1>q, <2>1, LastRead
  <2> QED BY <1>c, <2>2
<1>m. /\ trouble \subseteq trouble' /\ trouble' \subseteq Kinds
      /\ r = -1 /\ p # None /\ dev[d].total = 0 => "again" \in trouble'
  BY <1>i, <1>r DEF Meet, If, Kinds, TypeOK
<1>n. /\ ~Met({"raced", "stale"})' => ~Met({"raced", "stale"})
      /\ ~Met({"nopicture"})' => ~Met({"nopicture"})
      /\ ~Met({"again", "nopipe", "nopicture"})' =>
           /\ ~Met({"again", "nopipe", "nopicture"}) /\ ~Met({"nopicture"})
           /\ ~(r = -1 /\ p # None /\ dev[d].total = 0)
      /\ ~Met({"restart", "close"})' => ~Met({"restart", "close"})
      /\ ~Met({"unguarded"})' => ~Met({"unguarded"})
  BY <1>m, MetStays DEF Met
<1>u. UNCHANGED <<forked, task>>
  BY <1>a DEF thread
<1>e. /\ dev' \in [Dev -> Device]
      /\ \A e \in Dev : /\ dev'[e].pid = dev[e].pid /\ dev'[e].pipe = dev[e].pipe
                        /\ dev'[e].fds = dev[e].fds /\ dev'[e].scanning = dev[e].scanning
                        /\ dev'[e].eof = dev[e].eof
      /\ \A e \in Dev : e # d => dev'[e] = dev[e]
      /\ \/ /\ LooksComplete(r) /\ call' \in CallType /\ call'.d = d /\ call'.pc = "close"
            /\ call'.op = call.op
         \/ /\ ~LooksComplete(r) /\ call' = NoCall
            /\ IF r > 0 THEN dev'[d].total = dev[d].total + r ELSE dev'[d].total = dev[d].total
  <2>1. CASE LooksComplete(r)
    <3>1. dev' = dev /\ call' = [call EXCEPT !.pc = "close", !.n = r]
      BY <1>r, <2>1
    <3> QED BY <1>t, <1>b, <1>q, <2>1, <3>1 DEF CallType
  <2>2. CASE ~LooksComplete(r) /\ r > 0
    <3>1. dev' = [dev EXCEPT ![d].total = @ + r] /\ call' = NoCall
      BY <1>r, <2>2
    <3>2. dev[d].total + r \in Totals
      BY <1>c, <1>q, <1>l, <2>2, TotalsFacts DEF Totals
    <3>3. PICK x \in Totals : x = dev[d].total + r
      BY <3>2
    <3>4. PICK m : m = [dev[d] EXCEPT !.total = x]
      OBVIOUS
    <3>5. dev' = [dev EXCEPT ![d] = m]
      BY <1>t, <3>1, <3>3, <3>4 DEF Device
    <3>6. /\ m \in Device /\ m.total = x /\ m.pid = dev[d].pid /\ m.pipe = dev[d].pipe
          /\ m.fds = dev[d].fds /\ m.scanning = dev[d].scanning /\ m.eof = dev[d].eof
      <4>1. dev[d] \in Device
        BY <1>t
      <4> QED BY <3>4, <4>1 DEF Device
    <3> QED BY <1>t, <2>2, <3>1, <3>3, <3>5, <3>6
  <2>3. CASE ~LooksComplete(r) /\ ~(r > 0)
    BY <1>r, <1>t, <2>3
  <2> QED BY <2>1, <2>2, <2>3
<1>g. /\ r > 0 => /\ p \in Ids /\ r \in 1..Len(buf[p])
                  /\ got'[d] = got[d] \o SubSeq(buf[p], 1, r)
                  /\ buf'[p] = SubSeq(buf[p], r + 1, Len(buf[p]))
                  /\ got' = [got EXCEPT ![d] = got'[d]] /\ buf' = [buf EXCEPT ![p] = buf'[p]]
      /\ ~(r > 0) => got' = got /\ buf' = buf
  BY <1>r, <1>q, <1>t
<1>v. r > 0 =>
        /\ got'[d] \in Seq(Block) /\ Len(got'[d]) = Len(got[d]) + r
        /\ \A k \in 1..(Len(got[d]) + r) :
             got'[d][k] = IF k <= Len(got[d]) THEN got[d][k] ELSE buf[p][k - Len(got[d])]
        /\ buf'[p] \in Seq(Block) /\ Len(buf'[p]) = Len(buf[p]) - r
        /\ \A k \in 1..(Len(buf[p]) - r) : buf'[p][k] = buf[p][k + r]
  <2> SUFFICES ASSUME r > 0
               PROVE  /\ got'[d] \in Seq(Block) /\ Len(got'[d]) = Len(got[d]) + r
                      /\ \A k \in 1..(Len(got[d]) + r) :
                           got'[d][k] = IF k <= Len(got[d]) THEN got[d][k]
                                                            ELSE buf[p][k - Len(got[d])]
                      /\ buf'[p] \in Seq(Block) /\ Len(buf'[p]) = Len(buf[p]) - r
                      /\ \A k \in 1..(Len(buf[p]) - r) : buf'[p][k] = buf[p][k + r]
    OBVIOUS
  <2>1. PICK g \in Seq(Block), b \in Seq(Block) : g = got[d] /\ b = buf[p]
    BY <1>g, <1>t
  <2>2. r \in 1..Len(b) /\ got'[d] = g \o SubSeq(b, 1, r) /\ buf'[p] = SubSeq(b, r + 1, Len(b))
    BY <1>g, <2>1
  <2> QED BY <2>1, <2>2, Moved
<1>w. /\ got' \in [Dev -> Seq(Block)] /\ buf' \in [Ids -> Seq(Block)]
      /\ \A j \in Ids : Len(buf'[j]) <= PipeCap
      /\ \A e \in Dev : e # d => got'[e] = got[e]
      /\ \A j \in Ids : j # p => buf'[j] = buf[j]
      /\ r > 0 => Len(got'[d]) = Len(got[d]) + r
      /\ ~(r > 0) => got'[d] = got[d]
  <2>1. CASE r > 0
    <3>1. PipeCap \in Nat
      BY TestAssumption
    <3>2. got' \in [Dev -> Seq(Block)] /\ buf' \in [Ids -> Seq(Block)]
      BY <1>g, <1>v, <1>t, <2>1
    <3>3. \A j \in Ids : Len(buf'[j]) <= PipeCap
      <4>1. Len(buf'[p]) <= PipeCap
        <5>1. Len(buf[p]) \in Nat /\ Len(buf[p]) <= PipeCap /\ r \in Nat
          BY <1>g, <1>t, <1>q, <2>1, LenProperties
        <5> QED BY <1>v, <2>1, <3>1, <5>1
      <4>2. \A j \in Ids : j # p => buf'[j] = buf[j]
        BY <1>g, <1>t, <2>1
      <4> QED BY <1>t, <4>1, <4>2
    <3> QED BY <1>g, <1>v, <1>t, <2>1, <3>2, <3>3
  <2>2. CASE ~(r > 0)
    BY <1>g, <1>t, <2>2
  <2> QED BY <2>1, <2>2
<1>1. TypeOK'
  <2>1. call' \in CallType
    BY <1>e, TotalsFacts DEF NoCall, CallType
  <2> QED BY <1>a, <1>i, <1>e, <1>w, <1>m, <2>1, ThreadTypeKept, Types, TypesNext
<1>2. /\ Tasks' /\ HandedOver' /\ Owned' /\ Fed' /\ Guarded'
      /\ \A e \in Dev : Own(e)' = Own(e)
  <2>1. KeepsOwn
    BY <1>e DEF KeepsOwn
  <2> QED BY <1>a, <1>m, <2>1, OwnKept
<1>3. Calls'
  <2>1. CASE call' = NoCall
    BY <2>1, NoCallCalls
  <2>2. CASE call'.d = d /\ call'.pc = "close" /\ call'.op = call.op
    BY <1>c, <1>e, <2>2 DEF Calls, Me
  <2> QED BY <1>e, <2>1, <2>2
<1>4. Streams' /\ ImageInOrder'
  <2> SUFFICES ASSUME ~Met({"raced", "stale"})' PROVE Streams' /\ ImageInOrder'
    BY DEF Streams, ImageInOrder
  <2>1. /\ \A e \in Dev : dev[e].scanning /\ dev[e].pipe # None =>
             StreamOf(e, got[e], buf[dev[e].pipe], reader[dev[e].pipe], task[dev[e].pipe], forked)
        /\ \A e \in Dev : \A k \in 1..Len(got[e]) : got[e][k] = <<e, k>>
    BY <1>i, <1>n, StreamsIs DEF ImageInOrder
  <2>2. \A e \in Dev : e # d /\ dev[e].pipe # None => dev[e].pipe # p
    BY <1>b, <1>i, Apart, Fields DEF Owned, Own
  <2>3. CASE r > 0
    <3>0. /\ Len(got[d]) \in Nat /\ Len(got'[d]) = Len(got[d]) + r
          /\ Len(buf'[p]) = Len(buf[p]) - r
      BY <1>t, <1>v, <2>3
    <3>1. /\ Len(got[d]) + Len(buf[p]) = reader[p].sent
          /\ \A k \in 1..Len(buf[p]) : buf[p][k] = <<d, Len(got[d]) + k>>
          /\ task[p].st = "running" \/ (forked /\ task[p].st = "created") => task[p].arg = d
      <4>1. p \in Ids /\ p # None
        BY <1>g, <2>3, Apart
      <4> QED BY <1>b, <1>c, <2>1, <4>1 DEF StreamOf
    <3>2. Len(buf[p]) \in Nat /\ r \in 1..Len(buf[p]) /\ p \in Ids
      BY <1>g, <1>t, <2>3, LenProperties
    <3>3. StreamOf(d, got'[d], buf'[p], reader[p], task[p], forked)
      <4>1. Len(got'[d]) + Len(buf'[p]) = reader[p].sent
        <5>1. Len(got[d]) \in Nat /\ Len(buf[p]) \in Nat /\ r \in Nat
          BY <3>0, <3>2
        <5>2. (Len(got[d]) + r) + (Len(buf[p]) - r) = Len(got[d]) + Len(buf[p])
          BY <5>1, Sums, Zenon
        <5> QED BY <3>0, <3>1, <5>2
      <4>2. \A k \in 1..Len(buf'[p]) : buf'[p][k] = <<d, Len(got'[d]) + k>>
        <5> TAKE k \in 1..Len(buf'[p])
        <5>1. k \in Nat /\ k \in 1..(Len(buf[p]) - r) /\ k + r \in 1..Len(buf[p])
          BY <1>v, <2>3, <3>2
        <5>2. buf'[p][k] = buf[p][k + r] /\ buf[p][k + r] = <<d, Len(got[d]) + (k + r)>>
          BY <1>v, <2>3, <3>1, <5>1
        <5>3. Len(got[d]) + (k + r) = Len(got'[d]) + k
          <6>1. Len(got[d]) \in Nat /\ k \in Nat /\ r \in Nat
            BY <3>0, <3>2, <5>1
          <6>2. Len(got[d]) + (k + r) = (Len(got[d]) + r) + k
            BY <6>1, Sums, Zenon
          <6> QED BY <3>0, <6>2
        <5> QED BY <5>2, <5>3
      <4> QED BY <3>1, <4>1, <4>2 DEF StreamOf
    <3>4. \A k \in 1..Len(got'[d]) : got'[d][k] = <<d, k>>
      <4> TAKE k \in 1..Len(got'[d])
      <4>1. k \in 1..(Len(got[d]) + r) /\ k \in Nat
        BY <1>t, <1>v, <2>3, <3>2
      <4>2. CASE k <= Len(got[d])
        <5>1. got'[d][k] = got[d][k]
          BY <1>v, <2>3, <4>1, <4>2
        <5>2. k \in 1..Len(got[d])
          BY <1>t, <4>1, <4>2
        <5> QED BY <2>1, <5>1, <5>2
      <4>3. CASE ~(k <= Len(got[d]))
        <5>1. k - Len(got[d]) \in 1..Len(buf[p]) /\ Len(got[d]) + (k - Len(got[d])) = k
          BY <1>t, <3>2, <4>1, <4>3
        <5>2. got'[d][k] = buf[p][k - Len(got[d])]
          BY <1>v, <2>3, <4>1, <4>3
        <5>3. buf[p][k - Len(got[d])] = <<d, Len(got[d]) + (k - Len(got[d]))>>
          BY <3>1, <5>1
        <5> QED BY <5>1, <5>2, <5>3
      <4> QED BY <4>2, <4>3
    <3>5. Streams'
      <4>1. \A e \in Dev : e # d /\ dev[e].pipe # None =>
              got'[e] = got[e] /\ buf'[dev[e].pipe] = buf[dev[e].pipe]
        <5>1. \A e \in Dev : dev[e].pipe \in Ids \union {None}
          BY <1>i, Fields
        <5> QED BY <1>w, <2>2, <5>1
      <4> QED BY <1>a, <1>b, <1>e, <1>u, <2>1, <3>3, <4>1, StreamsIs
    <3>6. ImageInOrder'
      BY <1>w, <2>1, <3>4 DEF ImageInOrder
    <3> QED BY <3>5, <3>6
  <2>4. CASE ~(r > 0)
    <3>1. got' = got /\ buf' = buf
      BY <1>g, <2>4
    <3>2. Streams'
      BY <1>a, <1>e, <1>u, <2>1, <3>1, StreamsIs
    <3> QED BY <2>1, <3>1, <3>2 DEF ImageInOrder
  <2> QED BY <2>3, <2>4
<1>5. Counted'
  <2>1. \A e \in Dev : e # d /\ dev[e].scanning => dev[e].total = Len(got[e]) /\ dev[e].total < Image
    BY <1>b, <1>i DEF Counted
  <2>2. \/ call'.d = d /\ call'.pc = "close"
        \/ dev'[d].total = Len(got'[d]) /\ dev'[d].total < Image
    BY <1>c, <1>e, <1>l, <1>q, <1>t, <1>w, TotalsFacts
  <2> QED BY <1>e, <1>w, <2>1, <2>2 DEF Counted
<1>6. Complete' /\ EofIsComplete'
  <2> SUFFICES ASSUME ~Met({"again", "nopipe", "nopicture"})' PROVE Complete' /\ EofIsComplete'
    BY DEF Complete, EofIsComplete
  <2>0. \A e \in Dev : Len(got[e]) \in Nat
    BY <1>i, Fields
  <2>1. /\ \A e \in Dev : dev[e].scanning => dev[e].pipe # None
        /\ \A e \in Dev : dev[e].eof => Len(got[e]) >= Image
    BY <1>i, <1>n DEF Complete, EofIsComplete
  <2>2. p # None /\ wr[p] # {}
    BY <1>b, <1>c, <1>i, <1>n, <2>1 DEF Fed, Owned
  <2>3. call'.pc = "close" => r > 0 /\ r + dev[d].total >= Image
    BY <1>e, <1>l, <1>n, <1>q, <2>2 DEF NoCall
  <2>4. call'.pc = "close" => Len(got'[d]) >= Image
    BY <1>c, <1>t, <1>q, <1>w, <2>3, TotalsFacts
  <2>5. Complete'
    BY <1>e, <2>1, <2>4 DEF Complete, NoCall
  <2>6. EofIsComplete'
    <3>1. Len(got'[d]) >= Len(got[d]) /\ Len(got'[d]) \in Nat
      <4>1. CASE r > 0
        <5>1. Len(got[d]) \in Nat /\ r \in Nat /\ Len(got'[d]) = Len(got[d]) + r
          BY <1>t, <1>w, <4>1
        <5> QED BY <5>1
      <4>2. CASE ~(r > 0)
        <5>1. Len(got[d]) \in Nat /\ got'[d] = got[d]
          BY <1>t, <1>w, <4>2
        <5> QED BY <5>1
      <4> QED BY <4>1, <4>2
    <3>2. \A e \in Dev : Len(got'[e]) >= Len(got[e]) /\ Len(got'[e]) \in Nat
      <4>1. \A e \in Dev : e # d => got'[e] = got[e]
        BY <1>w
      <4>2. \A e \in Dev : Len(got[e]) >= Len(got[e])
        BY <2>0
      <4> QED BY <2>0, <3>1, <4>1, <4>2
    <3>3. Image \in Nat
      BY TotalsFacts
    <3> QED BY <1>e, <2>0, <2>1, <3>2, <3>3 DEF EofIsComplete
  <2> QED BY <2>5, <2>6
<1>7. Tidy'
  <2>1. call'.d = None \/ call'.d = d
    BY <1>e DEF NoCall
  <2> QED BY <1>a, <1>b, <1>c, <1>e, <1>i, <1>n, <1>u, <1>2, <2>1 DEF Tidy
<1>8. FrontendSurvives'
  BY <1>a, <1>i, <1>n DEF FrontendSurvives
<1> QED BY <1>1, <1>2, <1>3, <1>4, <1>5, <1>6, <1>7, <1>8 DEF IInv

-----------------------------------------------------------------------------
\* finish_pass.

LEMMA FinishCloseStep ==
  ASSUME IInv, FinishClose
  PROVE  IInv'
<1>i. /\ TypeOK /\ Calls /\ Tasks /\ HandedOver /\ Owned /\ Fed /\ Streams /\ Counted /\ Complete
      /\ Tidy /\ Guarded /\ ImageInOrder /\ EofIsComplete /\ FrontendSurvives
  BY DEF IInv
<1>a. /\ call.pc = "close" /\ ~dead /\ UNCHANGED <<thread, wr, reader, dead, got, trouble>>
      /\ call' = [call EXCEPT !.pc = IF Me.pid = None THEN "fds" ELSE "kill"]
  BY DEF FinishClose, At, Goto
<1>b. PICK d \in Dev, p \in Ids \union {None} : d = call.d /\ p = dev[d].pipe
  BY <1>a, InCall
<1>t. /\ dev \in [Dev -> Device] /\ buf \in [Ids -> Seq(Block)] /\ call \in CallType
      /\ \A j \in Ids : Len(buf[j]) <= PipeCap
      /\ rd \in Ends /\ nonblock \subseteq Ids
  BY <1>i, Types
<1>c. dev[d].scanning /\ call.op # "none" /\ Me = dev[d]
  BY <1>a, <1>b, <1>i, InCall DEF Calls
<1>u. UNCHANGED <<forked, td, sigpipe, task>> /\ (\A kinds : Met(kinds)' = Met(kinds))
  BY <1>a DEF thread, Met
<1>d. /\ dev' \in [Dev -> Device] /\ \A e \in Dev : e # d => dev'[e] = dev[e]
      /\ ~dev'[d].scanning /\ dev'[d].pipe = None
      /\ dev'[d].pid = dev[d].pid /\ dev'[d].fds = dev[d].fds /\ dev'[d].eof = dev[d].eof
  <2>1. PICK m : m = [dev[d] EXCEPT !.scanning = FALSE, !.pipe = None]
    OBVIOUS
  <2>2. dev' = [dev EXCEPT ![d] = m]
    BY <1>b, <1>t, <2>1 DEF FinishClose, Device
  <2>3. /\ m \in Device /\ ~m.scanning /\ m.pipe = None
        /\ m.pid = dev[d].pid /\ m.fds = dev[d].fds /\ m.eof = dev[d].eof
    <3>1. dev[d] \in Device
      BY <1>t
    <3> QED BY <2>1, <3>1 DEF Device
  <2> QED BY <1>t, <2>2, <2>3
<1>e. /\ call' \in CallType /\ call'.d = d /\ call'.op = call.op
      /\ \/ call'.pc = "fds" /\ dev[d].pid = None
         \/ call'.pc = "kill" /\ dev[d].pid # None
  BY <1>a, <1>b, <1>c, <1>t DEF CallType
<1>r. /\ rd' \in Ends /\ \A j \in Ids : j # p => rd'[j] = rd[j]
      /\ p # None => Frontend \notin rd'[p]
  <2>1. CASE p = None
    BY <1>b, <1>c, <1>t, <2>1, Apart DEF FinishClose
  <2>2. CASE p # None
    <3>1. rd' = [rd EXCEPT ![p] = @ \ {Frontend}] /\ p \in Ids
      BY <1>b, <1>c, <2>2 DEF FinishClose
    <3> QED BY <1>t, <3>1 DEF Ends
  <2> QED BY <2>1, <2>2
<1>g. /\ buf' \in [Ids -> Seq(Block)] /\ \A j \in Ids : Len(buf'[j]) <= PipeCap
      /\ \A j \in Ids : j # p => buf'[j] = buf[j]
  <2>1. CASE buf' = buf
    BY <1>t, <2>1
  <2>2. CASE p \in Ids /\ buf' = [buf EXCEPT ![p] = <<>>]
    <3>1. <<>> \in Seq(Block) /\ Len(<<>>) = 0 /\ 0 <= PipeCap
      BY EmptySeq, TestAssumption
    <3> QED BY <1>t, <2>2, <3>1
  <2> QED BY <1>b, <1>c, <2>1, <2>2 DEF FinishClose
<1>o. /\ \A e \in Dev : Own(e)' \subseteq Own(e)
      /\ \A e \in Dev : e # d => /\ Own(e)' = Own(e)
                                 /\ dev[e].pipe # None => dev[e].pipe \in Ids /\ dev[e].pipe # p
  <2>1. \A e \in Dev : Own(e)' \subseteq Own(e)
    BY <1>d, Apart DEF Own
  <2>2. \A e \in Dev : dev[e].pipe \in Ids \union {None}
    BY <1>i, Fields
  <2> QED BY <1>b, <1>d, <1>i, <2>1, <2>2 DEF Owned, Own
<1>1. TypeOK'
  <2>1. nonblock' \subseteq Ids
    BY <1>t DEF FinishClose
  <2> QED BY <1>a, <1>i, <1>d, <1>e, <1>r, <1>g, <2>1, ThreadTypeKept, Types, TypesNext
<1>2. Calls'
  BY <1>c, <1>d, <1>e DEF Calls, Me
<1>3. Tasks' /\ HandedOver' /\ Guarded'
  <2>1. \A t \in Task : task[t].st = "created" /\ ~forked => td \in Dev
    BY <1>i DEF Tasks
  <2>2. HandedOver'
    BY <1>a, <1>d, <1>i, <1>u, <2>1 DEF HandedOver, Out
  <2> QED BY <1>a, <1>i, <1>u, <2>2 DEF Tasks, Guarded, Out, Alive
<1>4. Owned'
  <2>1. \A e, f \in Dev : Own(e)' \intersect Own(f)' # {} => e = f
    BY <1>i, <1>o DEF Owned
  <2>2. ASSUME NEW e \in Dev
        PROVE  /\ dev'[e].pid # None => task'[dev'[e].pid].st # "none"
               /\ dev'[e].pipe # None => Frontend \in rd'[dev'[e].pipe]
               /\ dev'[e].fds \in Ids => Frontend \in wr'[dev'[e].fds]
    BY <1>a, <1>d, <1>i, <1>o, <1>r, <1>u DEF Owned
  <2> QED BY <2>1, <2>2 DEF Owned
<1>5. Fed'
  BY <1>a, <1>d, <1>i, <1>u DEF Fed, Alive
<1>6. Streams'
  BY <1>a, <1>d, <1>g, <1>i, <1>o, <1>u, StreamsIs
<1>7. Counted' /\ Complete'
  BY <1>a, <1>b, <1>d, <1>e, <1>i, <1>u DEF Counted, Complete
<1>8. Tidy'
  <2> SUFFICES ASSUME ~Met({"restart", "close"})' PROVE Tidy'
    BY DEF Tidy
  <2>1. ASSUME NEW j \in Ids, Frontend \in rd'[j] PROVE \E e \in Dev : dev'[e].pipe = j
    <3>1. Frontend \in rd[j] /\ j # p
      BY <1>r, <2>1, Apart
    <3>2. PICK e \in Dev : dev[e].pipe = j
      BY <1>i, <1>u, <3>1 DEF Tidy
    <3> QED BY <1>b, <1>d, <3>1, <3>2
  <2>2. \A j \in Ids : /\ task'[j].st # "none" => \E e \in Dev : dev'[e].pid = j
                       /\ Frontend \in wr'[j] => \E e \in Dev : dev'[e].fds = j
    <3>1. \A e \in Dev : dev'[e].pid = dev[e].pid /\ dev'[e].fds = dev[e].fds
      BY <1>d
    <3> QED BY <1>a, <1>i, <1>u, <3>1 DEF Tidy
  <2>3. /\ \A e \in Dev : ~dev'[e].scanning /\ call'.d # e => Own(e)' = {}
        /\ \A e \in Dev : dev'[e].scanning /\ dev'[e].fds \in Ids => dev'[e].pipe = dev'[e].fds
    BY <1>b, <1>d, <1>e, <1>i, <1>o, <1>u DEF Tidy
  <2> QED BY <2>1, <2>2, <2>3 DEF Tidy
<1>9. ImageInOrder' /\ EofIsComplete' /\ FrontendSurvives'
  BY <1>a, <1>d, <1>i, <1>u DEF ImageInOrder, EofIsComplete, FrontendSurvives
<1> QED BY <1>1, <1>2, <1>3, <1>4, <1>5, <1>6, <1>7, <1>8, <1>9 DEF IInv

LEMMA FinishKillStep ==
  ASSUME IInv, FinishKill
  PROVE  IInv'
<1>i. /\ TypeOK /\ Calls /\ Tasks /\ HandedOver /\ Owned /\ Fed /\ Streams /\ Counted /\ Complete
      /\ Tidy /\ Guarded /\ ImageInOrder /\ EofIsComplete /\ FrontendSurvives
  BY DEF IInv
<1>a. /\ call.pc = "kill" /\ ~dead
      /\ UNCHANGED <<forked, catches, td, sigpipe, dev, buf, rd, wr, nonblock, reader, dead, got>>
      /\ call' = [call EXCEPT !.pc = "wait"]
  BY DEF FinishKill, At, Goto, Kill, pipes
<1>b. PICK d \in Dev, m \in Ids \union {None} : d = call.d /\ m = dev[d].pid
  BY <1>a, InCall
<1>t. task \in [Task -> [st : {"none", "created", "running", "ended"},
                         arg : Arg \union {NoArg}, killed : BOOLEAN]]
  BY <1>i DEF TypeOK, ThreadTypeOK
<1>c. /\ ~dev[d].scanning /\ dev[d].pipe = None /\ m \in Ids /\ Me = dev[d] /\ call.op # "none"
      /\ call \in CallType
  BY <1>a, <1>b, <1>i, InCall DEF Calls
<1>e. call' \in CallType /\ call'.d = d /\ call'.op = call.op /\ call'.pc = "wait"
  BY <1>a, <1>b, <1>c DEF CallType
<1>m. trouble \subseteq trouble' /\ trouble' \subseteq Kinds
  BY <1>i DEF FinishKill, Meet, If, Kinds, TypeOK
<1>n. /\ ~Met({"raced", "stale"})' => ~Met({"raced", "stale"})
      /\ ~Met({"raced"})' => ~Met({"raced"})
      /\ ~Met({"nopicture"})' => ~Met({"nopicture"})
      /\ ~Met({"again", "nopipe", "nopicture"})' => ~Met({"again", "nopipe", "nopicture"})
      /\ ~Met({"restart", "close"})' => ~Met({"restart", "close"})
      /\ ~Met({"unguarded"})' => ~Met({"unguarded"})
  BY <1>m, MetStays
<1>k. /\ task' \in [Task -> [st : {"none", "created", "running", "ended"},
                             arg : Arg \union {NoArg}, killed : BOOLEAN]]
      /\ \A j \in Task : task'[j].st = task[j].st /\ task'[j].arg = task[j].arg
      /\ \A j \in Task : j # m => task'[j] = task[j]
  <2>1. PICK heard \in BOOLEAN : task' = [task EXCEPT ![m].killed = @ \/ heard]
    BY <1>b, <1>c DEF FinishKill, Kill
  <2>2. PICK k \in BOOLEAN : k = (task[m].killed \/ heard)
    OBVIOUS
  <2>3. task' = [task EXCEPT ![m].killed = k]
    BY <1>c, <1>t, <2>1, <2>2
  <2> QED BY <1>c, <1>t, <2>3
<1>1. TypeOK'
  <2>1. ThreadTypeOK'
    BY <1>a, <1>i, <1>k DEF TypeOK, ThreadTypeOK
  <2> QED BY <1>a, <1>i, <1>e, <1>m, <2>1, Types, TypesNext
<1>2. Calls'
  BY <1>a, <1>b, <1>c, <1>e, Apart DEF Calls, Me
<1>3. Tasks' /\ HandedOver' /\ Guarded'
  <2>1. Tasks'
    BY <1>a, <1>i, <1>k DEF Tasks, Out
  <2>2. HandedOver'
    BY <1>a, <1>i, <1>k, <1>n DEF HandedOver, Out
  <2>3. Guarded'
    BY <1>a, <1>i, <1>k, <1>n DEF Guarded, Alive
  <2> QED BY <2>1, <2>2, <2>3
<1>q. \A e \in Dev : dev[e].pid \in Ids \union {None} /\ dev[e].pipe \in Ids \union {None}
  BY <1>i, Fields
<1>o. \A e \in Dev : dev[e].pipe # None => dev[e].pipe \in Ids /\ dev[e].pipe # m
  BY <1>b, <1>c, <1>i, <1>q DEF Owned, Own
<1>4. Owned' /\ (\A e \in Dev : Own(e)' = Own(e))
  <2>1. \A e \in Dev : Own(e)' = Own(e)
    BY <1>a DEF Own
  <2> QED BY <1>a, <1>i, <1>k, <1>q, <2>1 DEF Owned
<1>5. Fed'
  BY <1>a, <1>i, <1>k, <1>n, <1>o DEF Fed, Alive
<1>6. Streams'
  BY <1>a, <1>i, <1>k, <1>n, <1>o, StreamsIs
<1>7. Counted' /\ Complete'
  <2>1. Counted'
    BY <1>a, <1>b, <1>c, <1>e, <1>i DEF Counted
  <2> QED BY <1>a, <1>b, <1>e, <1>i, <1>n, <2>1 DEF Complete
<1>8. Tidy'
  BY <1>a, <1>b, <1>e, <1>i, <1>k, <1>n, <1>4 DEF Tidy
<1>9. ImageInOrder' /\ EofIsComplete' /\ FrontendSurvives'
  BY <1>a, <1>i, <1>n DEF ImageInOrder, EofIsComplete, FrontendSurvives
<1> QED BY <1>1, <1>2, <1>3, <1>4, <1>5, <1>6, <1>7, <1>8, <1>9 DEF IInv

LEMMA FinishWaitStep ==
  ASSUME IInv, FinishWait
  PROVE  IInv'
<1>i. /\ TypeOK /\ Calls /\ Tasks /\ HandedOver /\ Owned /\ Fed /\ Streams /\ Counted /\ Complete
      /\ Tidy /\ Guarded /\ ImageInOrder /\ EofIsComplete /\ FrontendSurvives
  BY DEF IInv
<1>a. /\ call.pc = "wait" /\ ~dead
      /\ UNCHANGED <<forked, catches, td, buf, rd, wr, nonblock, dead, got>>
      /\ call' = [call EXCEPT !.pc = "fds"]
      /\ sigpipe' = IF forked THEN sigpipe ELSE "dfl"
  BY DEF FinishWait, At, Goto, Waitpid, pipes
<1>b. PICK d \in Dev, m \in Ids \union {None} : d = call.d /\ m = dev[d].pid
  BY <1>a, InCall
<1>t. /\ dev \in [Dev -> Device] /\ reader \in ReaderType
      /\ task \in [Task -> [st : {"none", "created", "running", "ended"},
                            arg : Arg \union {NoArg}, killed : BOOLEAN]]
  BY <1>i, Types DEF ThreadTypeOK
<1>c. /\ ~dev[d].scanning /\ dev[d].pipe = None /\ m \in Ids /\ Me = dev[d] /\ call.op # "none"
      /\ call \in CallType
  BY <1>a, <1>b, <1>i, InCall DEF Calls
<1>e. call' \in CallType /\ call'.d = d /\ call'.op = call.op /\ call'.pc = "fds"
  BY <1>a, <1>b, <1>c DEF CallType
<1>m. /\ trouble \subseteq trouble' /\ trouble' \subseteq Kinds
      /\ ~forked /\ (\E t \in Task \ {m} : Alive(t)) => "unguarded" \in trouble'
  BY <1>b, <1>c, <1>i DEF FinishWait, Meet, If, Kinds, TypeOK
<1>n. /\ ~Met({"raced", "stale"})' => ~Met({"raced", "stale"})
      /\ ~Met({"raced"})' => ~Met({"raced"})
      /\ ~Met({"nopicture"})' => ~Met({"nopicture"})
      /\ ~Met({"again", "nopipe", "nopicture"})' => ~Met({"again", "nopipe", "nopicture"})
      /\ ~Met({"restart", "close"})' => ~Met({"restart", "close"})
      /\ ~Met({"unguarded"})' => /\ ~Met({"unguarded"})
                                 /\ ~forked => \A t \in Task \ {m} : ~Alive(t)
  BY <1>m, MetStays
<1>k. /\ task[m].st = "ended" /\ task'[m].st = "none"
      /\ task' \in [Task -> [st : {"none", "created", "running", "ended"},
                             arg : Arg \union {NoArg}, killed : BOOLEAN]]
      /\ reader' \in ReaderType /\ reader'[m] = NoReader
      /\ \A j \in Task : j # m => task'[j] = task[j] /\ reader'[j] = reader[j]
  <2>1. /\ task[m].st = "ended" /\ task' = [task EXCEPT ![m] = NoTask]
        /\ reader' = [reader EXCEPT ![m] = NoReader]
    BY <1>b, <1>c DEF FinishWait, Waitpid
  <2>2. /\ NoTask \in [st : {"none", "created", "running", "ended"},
                       arg : Arg \union {NoArg}, killed : BOOLEAN] /\ NoTask.st = "none"
        /\ NoReader \in [out : Ids \union {None, Stdin}, sent : 0..Image]
    BY TotalsFacts DEF NoTask, NoReader
  <2> QED BY <1>c, <1>t, <2>1, <2>2 DEF ReaderType
<1>d. /\ dev' \in [Dev -> Device] /\ \A e \in Dev : e # d => dev'[e] = dev[e]
      /\ dev'[d].pid = None /\ dev'[d].scanning = dev[d].scanning /\ dev'[d].pipe = dev[d].pipe
      /\ dev'[d].fds = dev[d].fds /\ dev'[d].eof = dev[d].eof
  <2>1. PICK x : x = [dev[d] EXCEPT !.pid = None]
    OBVIOUS
  <2>2. dev' = [dev EXCEPT ![d] = x]
    BY <1>b, <1>t, <2>1 DEF FinishWait, Device
  <2>3. /\ x \in Device /\ x.pid = None /\ x.scanning = dev[d].scanning /\ x.pipe = dev[d].pipe
        /\ x.fds = dev[d].fds /\ x.eof = dev[d].eof
    <3>1. dev[d] \in Device
      BY <1>t
    <3> QED BY <2>1, <3>1 DEF Device
  <2> QED BY <1>t, <2>2, <2>3
<1>q. \A e \in Dev : dev[e].pid \in Ids \union {None} /\ dev[e].pipe \in Ids \union {None}
  BY <1>i, Fields
<1>o. \A e \in Dev : e # d => /\ dev[e].pipe # m /\ dev[e].pid # m /\ dev[e].fds # m
                              /\ dev[e].pipe # None => dev[e].pipe \in Ids
  BY <1>b, <1>c, <1>i, <1>q DEF Owned, Own
<1>p. /\ \A e \in Dev : Own(e)' \subseteq Own(e)
      /\ \A e \in Dev : e # d => Own(e)' = Own(e)
  BY <1>d, Apart DEF Own
<1>1. TypeOK'
  <2>1. ThreadTypeOK'
    BY <1>a, <1>i, <1>k DEF TypeOK, ThreadTypeOK
  <2> QED BY <1>a, <1>i, <1>d, <1>e, <1>k, <1>m, <2>1, Types, TypesNext
<1>2. Calls'
  BY <1>c, <1>d, <1>e DEF Calls, Me
<1>3. Tasks'
  BY <1>a, <1>i, <1>k DEF Tasks, Out
<1>4. HandedOver'
  <2> SUFFICES ASSUME ~Met({"raced"})', ~forked, NEW t \in Task
               PROVE  /\ task'[t].st = "created" => dev'[td].fds = t /\ dev'[td].pid = t
                      /\ task'[t].st = "running" => reader'[t].out = t
    BY <1>a DEF HandedOver, Out
  <2>1. CASE t = m
    BY <1>k, <2>1
  <2>2. CASE t # m
    <3>1. task[t].st = "created" => td \in Dev /\ dev[td].fds = t /\ dev[td].pid = t
      BY <1>i, <1>n DEF Tasks, HandedOver
    <3>2. task[t].st = "running" => reader[t].out = t
      BY <1>i, <1>n DEF HandedOver, Out
    <3> QED BY <1>b, <1>d, <1>k, <2>2, <3>1, <3>2
  <2> QED BY <2>1, <2>2
<1>5. Owned'
  <2>1. \A e, f \in Dev : Own(e)' \intersect Own(f)' # {} => e = f
    BY <1>i, <1>p DEF Owned
  <2>2. ASSUME NEW e \in Dev
        PROVE  /\ dev'[e].pid # None => task'[dev'[e].pid].st # "none"
               /\ dev'[e].pipe # None => Frontend \in rd'[dev'[e].pipe]
               /\ dev'[e].fds \in Ids => Frontend \in wr'[dev'[e].fds]
    BY <1>a, <1>d, <1>i, <1>k, <1>o, <1>q DEF Owned
  <2> QED BY <2>1, <2>2 DEF Owned
<1>6. Fed'
  BY <1>a, <1>c, <1>d, <1>i, <1>k, <1>n, <1>o DEF Fed, Alive
<1>7. Streams'
  BY <1>a, <1>c, <1>d, <1>i, <1>k, <1>n, <1>o, StreamsIs
<1>8. Counted' /\ Complete'
  <2>1. Counted'
    BY <1>a, <1>b, <1>c, <1>d, <1>e, <1>i DEF Counted
  <2> QED BY <1>a, <1>b, <1>d, <1>e, <1>i, <1>n, <2>1 DEF Complete
<1>9. Tidy'
  <2> SUFFICES ASSUME ~Met({"restart", "close"})' PROVE Tidy'
    BY DEF Tidy
  <2>1. ASSUME NEW j \in Ids, task'[j].st # "none" PROVE \E e \in Dev : dev'[e].pid = j
    <3>1. task[j].st # "none" /\ j # m
      BY <1>k, <2>1
    <3>2. PICK e \in Dev : dev[e].pid = j
      BY <1>i, <1>n, <3>1 DEF Tidy
    <3> QED BY <1>b, <1>d, <3>1, <3>2
  <2>2. \A j \in Ids : /\ Frontend \in rd'[j] => \E e \in Dev : dev'[e].pipe = j
                       /\ Frontend \in wr'[j] => \E e \in Dev : dev'[e].fds = j
    <3>1. \A e \in Dev : dev'[e].pipe = dev[e].pipe /\ dev'[e].fds = dev[e].fds
      BY <1>d
    <3> QED BY <1>a, <1>i, <1>n, <3>1 DEF Tidy
  <2>3. /\ \A e \in Dev : ~dev'[e].scanning /\ call'.d # e => Own(e)' = {}
        /\ \A e \in Dev : dev'[e].scanning /\ dev'[e].fds \in Ids => dev'[e].pipe = dev'[e].fds
    BY <1>b, <1>c, <1>d, <1>e, <1>i, <1>n, <1>p DEF Tidy
  <2> QED BY <2>1, <2>2, <2>3 DEF Tidy
<1>10. Guarded'
  <2> SUFFICES ASSUME ~Met({"unguarded"})', ~forked, NEW t \in Task, Alive(t)' PROVE FALSE
    BY <1>a DEF Guarded
  <2>1. t # m /\ Alive(t)
    BY <1>k DEF Alive
  <2> QED BY <1>n, <2>1
<1>11. ImageInOrder' /\ EofIsComplete' /\ FrontendSurvives'
  BY <1>a, <1>d, <1>i, <1>n DEF ImageInOrder, EofIsComplete, FrontendSurvives
<1> QED BY <1>1, <1>2, <1>3, <1>4, <1>5, <1>6, <1>7, <1>8, <1>9, <1>10, <1>11 DEF IInv

LEMMA FinishFdsStep ==
  ASSUME IInv, FinishFds
  PROVE  IInv'
<1>i. /\ TypeOK /\ Calls /\ Tasks /\ HandedOver /\ Owned /\ Fed /\ Streams /\ Counted /\ Complete
      /\ Tidy /\ Guarded /\ ImageInOrder /\ EofIsComplete /\ FrontendSurvives
  BY DEF IInv
<1>a. /\ call.pc = "fds" /\ ~dead /\ call' = NoCall
      /\ UNCHANGED <<thread, buf, rd, nonblock, reader, dead, trouble>>
  BY DEF FinishFds, At
<1>b. PICK d \in Dev, f \in Ids \union {None, Stdin} : d = call.d /\ f = dev[d].fds
  BY <1>a, InCall
<1>t. /\ dev \in [Dev -> Device] /\ wr \in Ends /\ got \in [Dev -> Seq(Block)]
      /\ call \in CallType
  BY <1>i, Types
<1>c. /\ ~dev[d].scanning /\ dev[d].pipe = None /\ dev[d].pid = None /\ Me = dev[d]
      /\ call.op \in {"read", "cancel"} /\ call.n \in Int
  <2>1. call.op # "none" /\ Me = dev[d]
    BY <1>a, <1>b, InCall
  <2> QED BY <1>a, <1>i, <1>t, <2>1, TotalsFacts DEF Calls, CallType
<1>u. UNCHANGED <<forked, td, sigpipe, task>> /\ (\A kinds : Met(kinds)' = Met(kinds))
  BY <1>a DEF thread, Met
<1>d. /\ dev' \in [Dev -> Device] /\ \A e \in Dev : e # d => dev'[e] = dev[e]
      /\ dev'[d].fds = None /\ dev'[d].scanning = dev[d].scanning /\ dev'[d].pipe = dev[d].pipe
      /\ dev'[d].pid = dev[d].pid
      /\ dev'[d].eof => call.op = "read"
  <2>1. PICK x : x = IF call.op = "read" THEN EndOfRead(dev[d]) ELSE EndOfCancel(dev[d])
    OBVIOUS
  <2>2. dev' = [dev EXCEPT ![d] = x]
    BY <1>b, <1>t, <2>1 DEF FinishFds
  <2>3. dev[d] \in Device /\ dev[d].total \in Nat
    BY <1>i, Fields
  <2>4. /\ x \in Device /\ x.fds = None /\ x.scanning = dev[d].scanning /\ x.pipe = dev[d].pipe
        /\ x.pid = dev[d].pid /\ (x.eof => call.op = "read")
    <3>1. CASE call.op = "read"
      <4>1. (dev[d].total + call.n) % SizeMod \in Totals
        <5>1. dev[d].total + call.n \in Int
          BY <1>c, <2>3
        <5> QED BY <5>1, TotalsFacts DEF Totals
      <4>2. PICK y \in Totals : y = (dev[d].total + call.n) % SizeMod
        BY <4>1
      <4>3. x = [dev[d] EXCEPT !.eof = TRUE, !.fds = None, !.total = y]
        BY <2>1, <2>3, <3>1, <4>2 DEF EndOfRead, Device
      <4> QED BY <2>3, <3>1, <4>3 DEF Device
    <3>2. CASE call.op # "read"
      <4>1. x = [dev[d] EXCEPT !.cancelled = TRUE, !.eof = FALSE, !.fds = None]
        BY <2>1, <3>2 DEF EndOfCancel
      <4> QED BY <2>3, <4>1 DEF Device
    <3> QED BY <3>1, <3>2
  <2> QED BY <1>t, <2>2, <2>4
<1>g. /\ got' \in [Dev -> Seq(Block)] /\ \A e \in Dev : e # d => got'[e] = got[e]
      /\ got'[d] = got[d] \/ (got'[d] = <<>> /\ Len(got'[d]) = 0)
      /\ call.op = "read" => got' = got
  <2>1. CASE call.op = "cancel"
    <3>1. got' = [got EXCEPT ![d] = <<>>]
      BY <1>b, <2>1 DEF FinishFds
    <3>2. <<>> \in Seq(Block) /\ Len(<<>>) = 0
      BY EmptySeq
    <3> QED BY <1>t, <2>1, <3>1, <3>2
  <2>2. CASE call.op # "cancel"
    BY <1>t, <2>2 DEF FinishFds
  <2> QED BY <2>1, <2>2
<1>w. /\ wr' \in Ends
      /\ \A j \in Ids : /\ j # f => wr'[j] = wr[j]
                        /\ \A x \in Ids : x \in wr[j] => x \in wr'[j]
                        /\ Frontend \in wr'[j] => Frontend \in wr[j]
      /\ f \in Ids => Frontend \notin wr'[f]
  <2>1. CASE f \in Ids
    <3>1. wr' = [wr EXCEPT ![f] = @ \ {Frontend}]
      BY <1>b, <1>c, <2>1 DEF FinishFds, CloseFds
    <3> QED BY <1>t, <2>1, <3>1, Apart DEF Ends
  <2>2. CASE f \notin Ids
    BY <1>b, <1>c, <1>t, <2>2 DEF FinishFds, CloseFds
  <2> QED BY <2>1, <2>2
<1>q. \A e \in Dev : /\ dev[e].pid \in Ids \union {None} /\ dev[e].pipe \in Ids \union {None}
                     /\ dev[e].fds \in Ids \union {None, Stdin}
  BY <1>i, Fields
<1>o. /\ Own(d)' = {} /\ \A e \in Dev : e # d => Own(e)' = Own(e)
      /\ \A e \in Dev : e # d /\ dev[e].fds \in Ids => dev[e].fds # f
  <2>1. Own(d)' = {}
    BY <1>c, <1>d, Apart DEF Own
  <2>2. \A e \in Dev : e # d => Own(e)' = Own(e)
    BY <1>d DEF Own
  <2> QED BY <1>b, <1>i, <2>1, <2>2 DEF Owned, Own
<1>1. TypeOK'
  <2>1. call' \in CallType
    BY <1>a, TotalsFacts DEF NoCall, CallType
  <2> QED BY <1>a, <1>i, <1>d, <1>g, <1>w, <2>1, ThreadTypeKept, Types, TypesNext
<1>2. Tasks' /\ HandedOver' /\ Guarded'
  <2>1. Tasks'
    BY <1>a, <1>i, <1>u DEF Tasks, Out
  <2>2. HandedOver'
    <3> SUFFICES ASSUME ~Met({"raced"}), ~forked, NEW t \in Task
                 PROVE  /\ task[t].st = "created" => dev'[td].fds = t /\ dev'[td].pid = t
                        /\ task[t].st = "running" => reader[t].out = t
      BY <1>a, <1>u DEF HandedOver, Out
    <3>1. task[t].st = "created" => td \in Dev /\ dev[td].fds = t /\ dev[td].pid = t
      BY <1>i DEF Tasks, HandedOver
    <3>2. task[t].st = "running" => reader[t].out = t
      BY <1>i DEF HandedOver, Out
    <3> QED BY <1>c, <1>d, <3>1, <3>2, Apart
  <2>3. Guarded'
    BY <1>i, <1>u DEF Guarded, Alive
  <2> QED BY <2>1, <2>2, <2>3
<1>3. Owned'
  <2>1. \A e, x \in Dev : Own(e)' \intersect Own(x)' # {} => e = x
    BY <1>i, <1>o DEF Owned
  <2>2. ASSUME NEW e \in Dev
        PROVE  /\ dev'[e].pid # None => task'[dev'[e].pid].st # "none"
               /\ dev'[e].pipe # None => Frontend \in rd'[dev'[e].pipe]
               /\ dev'[e].fds \in Ids => Frontend \in wr'[dev'[e].fds]
    <3>1. CASE e = d
      BY <1>c, <1>d, <3>1, Apart
    <3>2. CASE e # d
      BY <1>a, <1>d, <1>i, <1>o, <1>u, <1>w, <3>2 DEF Owned
    <3> QED BY <3>1, <3>2
  <2> QED BY <2>1, <2>2 DEF Owned
<1>4. Fed'
  <2> SUFFICES ASSUME ~Met({"nopicture"}), NEW e \in Dev, dev'[e].pipe # None
               PROVE  \/ dev'[e].fds = dev'[e].pipe
                      \/ /\ forked /\ Alive(dev'[e].pipe) /\ ~task[dev'[e].pipe].killed
                         /\ dev'[e].pipe \in wr'[dev'[e].pipe]
    BY <1>a, <1>u DEF Fed, Alive
  <2>1. e # d /\ dev'[e] = dev[e] /\ dev[e].pipe \in Ids
    BY <1>c, <1>d, <1>q
  <2> QED BY <1>i, <1>w, <2>1 DEF Fed
<1>5. Streams'
  BY <1>a, <1>c, <1>d, <1>g, <1>i, <1>u, StreamsIs
<1>6. Counted' /\ Complete'
  <2>1. Counted'
    BY <1>a, <1>b, <1>c, <1>d, <1>g, <1>i DEF Counted
  <2> QED BY <1>a, <1>d, <1>i, <1>u, <2>1 DEF Complete, NoCall
<1>7. Tidy'
  <2> SUFFICES ASSUME ~Met({"restart", "close"}) PROVE Tidy'
    BY <1>u DEF Tidy
  <2>1. ASSUME NEW j \in Ids, Frontend \in wr'[j] PROVE \E e \in Dev : dev'[e].fds = j
    <3>1. Frontend \in wr[j] /\ j # f
      BY <1>w, <2>1
    <3>2. PICK e \in Dev : dev[e].fds = j
      BY <1>i, <3>1 DEF Tidy
    <3> QED BY <1>b, <1>d, <3>1, <3>2
  <2>2. \A j \in Ids : /\ task'[j].st # "none" => \E e \in Dev : dev'[e].pid = j
                       /\ Frontend \in rd'[j] => \E e \in Dev : dev'[e].pipe = j
    <3>1. \A e \in Dev : dev'[e].pid = dev[e].pid /\ dev'[e].pipe = dev[e].pipe
      BY <1>d
    <3> QED BY <1>a, <1>i, <1>u, <3>1 DEF Tidy
  <2>3. /\ \A e \in Dev : ~dev'[e].scanning /\ call'.d # e => Own(e)' = {}
        /\ \A e \in Dev : dev'[e].scanning /\ dev'[e].fds \in Ids => dev'[e].pipe = dev'[e].fds
    BY <1>b, <1>c, <1>d, <1>i, <1>o DEF Tidy
  <2> QED BY <2>1, <2>2, <2>3 DEF Tidy
<1>8. ImageInOrder' /\ FrontendSurvives'
  BY <1>a, <1>g, <1>i, <1>u DEF ImageInOrder, FrontendSurvives
<1>9. EofIsComplete'
  <2> SUFFICES ASSUME ~Met({"again", "nopipe", "nopicture"}), NEW e \in Dev, dev'[e].eof
               PROVE  Len(got'[e]) >= Image
    BY <1>u DEF EofIsComplete
  <2>1. CASE e = d
    BY <1>a, <1>b, <1>d, <1>g, <1>i, <2>1 DEF Complete
  <2>2. CASE e # d
    BY <1>d, <1>g, <1>i, <2>2 DEF EofIsComplete
  <2> QED BY <2>1, <2>2
<1> QED BY <1>1, <1>2, <1>3, <1>4, <1>5, <1>6, <1>7, <1>8, <1>9, <1>a, NoCallCalls DEF IInv

-----------------------------------------------------------------------------
\* The reader task.

LEMMA ReaderEnterStep ==
  ASSUME IInv, NEW t \in Task, ReaderEnter(t)
  PROVE  IInv'
<1>i. /\ TypeOK /\ Tasks /\ HandedOver /\ Owned /\ Fed /\ Streams /\ Tidy /\ Guarded
      /\ FrontendSurvives
  BY DEF IInv
<1>a. /\ UNCHANGED <<forked, catches, td, sigpipe, dev, buf, wr, nonblock, call, dead, got, trouble>>
      /\ task[t].st = "created"
  BY DEF ReaderEnter, Enter
<1>t. /\ task \in [Task -> [st : {"none", "created", "running", "ended"},
                            arg : Arg \union {NoArg}, killed : BOOLEAN]]
      /\ reader \in ReaderType /\ rd \in Ends
  BY <1>i, Types DEF ThreadTypeOK
<1>m. \A kinds : Met(kinds)' = Met(kinds)
  BY <1>a DEF Met
<1>b. PICK a \in Dev, o \in Ids \union {None, Stdin} :
        /\ a = IF forked THEN task[t].arg ELSE td
        /\ o = IF forked THEN t ELSE dev[td].fds
  <2>1. (IF forked THEN task[t].arg ELSE td) \in Dev
    BY <1>a, <1>i DEF Tasks
  <2>2. (IF forked THEN t ELSE dev[td].fds) \in Ids \union {None, Stdin}
    BY <1>i, <2>1, Fields
  <2> QED BY <2>1, <2>2
<1>k. /\ task' \in [Task -> [st : {"none", "created", "running", "ended"},
                             arg : Arg \union {NoArg}, killed : BOOLEAN]]
      /\ task'[t].st = "running" /\ task'[t].arg = a /\ task'[t].killed = task[t].killed
      /\ \A j \in Task : j # t => task'[j] = task[j]
  <2>1. task' = [task EXCEPT ![t].st = "running", ![t].arg = a]
    BY <1>b DEF ReaderEnter, Enter, Argument
  <2>2. PICK m : m = [task[t] EXCEPT !.st = "running", !.arg = a]
    OBVIOUS
  <2>3. task' = [task EXCEPT ![t] = m]
    BY <1>t, <2>1, <2>2
  <2>4. /\ m \in [st : {"none", "created", "running", "ended"}, arg : Arg \union {NoArg},
                  killed : BOOLEAN]
        /\ m.st = "running" /\ m.arg = a /\ m.killed = task[t].killed
    BY <1>t, <2>2
  <2> QED BY <1>t, <2>3, <2>4
<1>r. /\ reader' \in ReaderType /\ reader'[t].out = o /\ reader'[t].sent = reader[t].sent
      /\ \A j \in Task : j # t => reader'[j] = reader[j]
  <2>1. reader' = [reader EXCEPT ![t].out = o]
    BY <1>b DEF ReaderEnter
  <2>2. PICK m : m = [reader[t] EXCEPT !.out = o]
    OBVIOUS
  <2>3. reader' = [reader EXCEPT ![t] = m]
    BY <1>t, <2>1, <2>2 DEF ReaderType
  <2>4. /\ m \in [out : Ids \union {None, Stdin}, sent : 0..Image]
        /\ m.out = o /\ m.sent = reader[t].sent
    BY <1>t, <2>2 DEF ReaderType
  <2> QED BY <1>t, <2>3, <2>4 DEF ReaderType
<1>e. /\ rd' \in Ends
      /\ \A j \in Ids : Frontend \in rd'[j] <=> Frontend \in rd[j]
  <2>1. rd' = rd \/ rd' = [rd EXCEPT ![t] = @ \ {t}]
    BY DEF ReaderEnter, ClosePipe
  <2> QED BY <1>t, <2>1, Apart DEF Ends
<1>q. \A e \in Dev : dev[e].pid \in Ids \union {None} /\ dev[e].pipe \in Ids \union {None}
  BY <1>i, Fields
<1>1. TypeOK'
  <2>1. ThreadTypeOK'
    BY <1>a, <1>i, <1>k DEF TypeOK, ThreadTypeOK
  <2> QED BY <1>a, <1>i, <1>e, <1>k, <1>r, <2>1, Types, TypesNext
<1>2. Calls' /\ Counted' /\ Complete' /\ ImageInOrder' /\ EofIsComplete'
  BY <1>a, DevicesKept
<1>3. Tasks' /\ HandedOver' /\ Guarded'
  <2>1. Tasks'
    BY <1>a, <1>b, <1>i, <1>k, <1>r DEF Tasks, Out
  <2>2. HandedOver'
    BY <1>a, <1>b, <1>i, <1>k, <1>m, <1>r DEF HandedOver, Out
  <2>3. Guarded'
    BY <1>a, <1>i, <1>k, <1>m DEF Guarded, Alive
  <2> QED BY <2>1, <2>2, <2>3
<1>4. Owned' /\ (\A e \in Dev : Own(e)' = Own(e))
  <2>1. \A e \in Dev : Own(e)' = Own(e)
    BY <1>a DEF Own
  <2>2. \A j \in Task : task'[j].st # "none" <=> task[j].st # "none"
    BY <1>a, <1>k
  <2> QED BY <1>a, <1>e, <1>i, <1>q, <2>1, <2>2 DEF Owned
<1>5. Fed'
  <2>1. \A j \in Task : Alive(j) => Alive(j)'
    BY <1>k DEF Alive
  <2>2. \A j \in Task : task'[j].killed = task[j].killed
    BY <1>k
  <2> QED BY <1>a, <1>i, <1>m, <1>q, <2>1, <2>2 DEF Fed
<1>6. Streams'
  <2> SUFFICES ASSUME ~Met({"raced", "stale"}), NEW d \in Dev, dev[d].scanning, dev[d].pipe # None
               PROVE  StreamOf(d, got[d], buf[dev[d].pipe], reader'[dev[d].pipe],
                               task'[dev[d].pipe], forked)
    BY <1>a, <1>m, StreamsIs
  <2>1. /\ dev[d].pipe \in Ids
        /\ StreamOf(d, got[d], buf[dev[d].pipe], reader[dev[d].pipe], task[dev[d].pipe], forked)
    BY <1>i, <1>q, StreamsIs
  <2>2. CASE dev[d].pipe = t
    <3>1. a = d
      <4>1. CASE forked
        BY <1>a, <1>b, <2>1, <2>2, <4>1 DEF StreamOf
      <4>2. CASE ~forked
        <5>1. td \in Dev /\ a = td /\ dev[td].pid = t
          BY <1>a, <1>b, <1>i, <4>2 DEF HandedOver, Met
        <5> QED BY <1>i, <2>2, <5>1 DEF Owned, Own
      <4> QED BY <4>1, <4>2
    <3> QED BY <1>k, <1>r, <2>1, <2>2, <3>1 DEF StreamOf
  <2>3. CASE dev[d].pipe # t
    BY <1>k, <1>r, <2>1, <2>3
  <2> QED BY <2>2, <2>3
<1>7. Tidy'
  <2>1. \A j \in Task : task'[j].st # "none" <=> task[j].st # "none"
    BY <1>a, <1>k
  <2> QED BY <1>a, <1>e, <1>i, <1>m, <1>4, <2>1 DEF Tidy
<1>8. FrontendSurvives'
  BY <1>a, <1>i, <1>m DEF FrontendSurvives
<1> QED BY <1>1, <1>2, <1>3, <1>4, <1>5, <1>6, <1>7, <1>8 DEF IInv

LEMMA WriteStep ==
  ASSUME IInv, NEW t \in Task, Write(t)
  PROVE  IInv'
<1>i. /\ TypeOK /\ Tasks /\ HandedOver /\ Owned /\ Fed /\ Streams /\ Tidy /\ Guarded
      /\ FrontendSurvives
  BY DEF IInv
<1>a. /\ UNCHANGED <<thread, dev, rd, wr, nonblock, call, dead, got, trouble>>
      /\ task[t].st = "running" /\ reader[t].sent < Image
      /\ Out(t) \in Ids /\ Len(buf[Out(t)]) < PipeCap
  BY DEF Write, Sending, HasReader
<1>t. /\ buf \in [Ids -> Seq(Block)] /\ \A j \in Ids : Len(buf[j]) <= PipeCap
      /\ reader \in ReaderType
  BY <1>i, Types
<1>u. UNCHANGED <<forked, td, sigpipe, task>> /\ (\A kinds : Met(kinds)' = Met(kinds))
  BY <1>a DEF thread, Met
<1>b. PICK o \in Ids, s \in 0..(Image - 1), a \in Dev :
        o = Out(t) /\ s = reader[t].sent /\ a = task[t].arg
  <2>1. reader[t].sent \in 0..Image /\ reader[t].sent < Image /\ Image \in Nat
    BY <1>a, <1>t, TotalsFacts DEF ReaderType
  <2>2. reader[t].sent \in 0..(Image - 1)
    BY <2>1
  <2> QED BY <1>a, <1>i, <2>2 DEF Tasks
<1>s. s \in Nat /\ s + 1 \in 1..Image /\ s + 1 \in 0..Image
  BY TotalsFacts
<1>c. PICK x \in Block : x = <<a, s + 1>>
  BY <1>s DEF Block
<1>r. /\ reader' \in ReaderType /\ reader'[t].out = reader[t].out /\ reader'[t].sent = s + 1
      /\ \A j \in Task : j # t => reader'[j] = reader[j]
  <2>1. PICK m : m = [reader[t] EXCEPT !.sent = s + 1]
    OBVIOUS
  <2>2. reader' = [reader EXCEPT ![t] = m]
    BY <1>b, <1>t, <2>1 DEF Write, ReaderType
  <2>3. /\ m \in [out : Ids \union {None, Stdin}, sent : 0..Image]
        /\ m.out = reader[t].out /\ m.sent = s + 1
    BY <1>t, <1>s, <2>1 DEF ReaderType
  <2> QED BY <1>t, <2>2, <2>3 DEF ReaderType
<1>g. /\ buf' \in [Ids -> Seq(Block)] /\ \A j \in Ids : Len(buf'[j]) <= PipeCap
      /\ \A j \in Ids : j # o => buf'[j] = buf[j]
      /\ Len(buf'[o]) = Len(buf[o]) + 1 /\ buf'[o][Len(buf[o]) + 1] = x
      /\ \A k \in 1..Len(buf[o]) : buf'[o][k] = buf[o][k]
  <2>1. buf' = [buf EXCEPT ![o] = Append(@, x)]
    BY <1>b, <1>c DEF Write, Out
  <2>2. buf[o] \in Seq(Block) /\ Len(buf[o]) \in Nat /\ Len(buf[o]) < PipeCap /\ PipeCap \in Nat
    BY <1>a, <1>b, <1>t, LenProperties, TestAssumption
  <2>3. /\ Append(buf[o], x) \in Seq(Block) /\ Len(Append(buf[o], x)) = Len(buf[o]) + 1
        /\ Append(buf[o], x)[Len(buf[o]) + 1] = x
        /\ \A k \in 1..Len(buf[o]) : Append(buf[o], x)[k] = buf[o][k]
    BY <2>2, AppendProperties
  <2> QED BY <1>t, <2>1, <2>2, <2>3
<1>q. \A e \in Dev : dev[e].pid \in Ids \union {None} /\ dev[e].pipe \in Ids \union {None}
  BY <1>i, Fields
<1>1. TypeOK'
  BY <1>a, <1>i, <1>g, <1>r, ThreadTypeKept, Types, TypesNext
<1>2. Calls' /\ Counted' /\ Complete' /\ ImageInOrder' /\ EofIsComplete'
  BY <1>a, DevicesKept
<1>3. Tasks' /\ HandedOver' /\ Guarded'
  <2>1. Tasks'
    BY <1>a, <1>i, <1>r, <1>u DEF Tasks, Out
  <2>2. HandedOver'
    BY <1>a, <1>i, <1>r, <1>u DEF HandedOver, Out
  <2>3. Guarded'
    BY <1>i, <1>u DEF Guarded, Alive
  <2> QED BY <2>1, <2>2, <2>3
<1>4. Owned' /\ (\A e \in Dev : Own(e)' = Own(e))
  BY <1>a, <1>i, <1>u DEF Owned, Own
<1>5. Fed'
  BY <1>a, <1>i, <1>u DEF Fed, Alive
<1>6. Streams'
  <2> SUFFICES ASSUME ~Met({"raced", "stale"}), NEW d \in Dev, dev[d].scanning, dev[d].pipe # None
               PROVE  StreamOf(d, got[d], buf'[dev[d].pipe], reader'[dev[d].pipe],
                               task[dev[d].pipe], forked)
    BY <1>a, <1>u, StreamsIs
  <2>1. /\ dev[d].pipe \in Ids
        /\ StreamOf(d, got[d], buf[dev[d].pipe], reader[dev[d].pipe], task[dev[d].pipe], forked)
    BY <1>i, <1>q, StreamsIs
  <2>2. o = t
    BY <1>a, <1>b, <1>i DEF Tasks, HandedOver, Met
  <2>3. CASE dev[d].pipe = t
    <3>1. /\ a = d /\ Len(got[d]) + Len(buf[t]) = s
          /\ \A k \in 1..Len(buf[t]) : buf[t][k] = <<d, Len(got[d]) + k>>
      BY <1>a, <1>b, <2>1, <2>3 DEF StreamOf
    <3>2. Len(got[d]) \in Nat /\ Len(buf[t]) \in Nat
      BY <1>i, Fields
    <3>5. Len(got[d]) + (Len(buf[t]) + 1) = (Len(got[d]) + Len(buf[t])) + 1
      BY <3>2, Sums, Zenon
    <3>3. Len(got[d]) + Len(buf'[t]) = s + 1
      BY <1>g, <2>2, <3>1, <3>5
    <3>4. \A k \in 1..Len(buf'[t]) : buf'[t][k] = <<d, Len(got[d]) + k>>
      <4> TAKE k \in 1..Len(buf'[t])
      <4>1. k \in 1..Len(buf[t]) \/ k = Len(buf[t]) + 1
        BY <1>g, <2>2, <3>2
      <4>2. s + 1 = Len(got[d]) + (Len(buf[t]) + 1)
        BY <3>1, <3>5
      <4> QED BY <1>c, <1>g, <2>2, <3>1, <4>1, <4>2
    <3> QED BY <1>a, <1>b, <1>r, <2>3, <3>1, <3>3, <3>4 DEF StreamOf
  <2>4. CASE dev[d].pipe # t
    BY <1>g, <1>r, <2>1, <2>2, <2>4
  <2> QED BY <2>3, <2>4
<1>7. Tidy'
  BY <1>a, <1>i, <1>u, <1>4 DEF Tidy
<1>8. FrontendSurvives'
  BY <1>a, <1>i, <1>u DEF FrontendSurvives
<1> QED BY <1>1, <1>2, <1>3, <1>4, <1>5, <1>6, <1>7, <1>8 DEF IInv

\* A child that ends by itself, or a thread that kills the frontend, has had a reason.
LEMMA EndStep ==
  ASSUME IInv, NEW t \in Task, ReaderEnds(t), ~dead,
         trouble \subseteq trouble', trouble' \subseteq Kinds, dead' \in BOOLEAN,
         ~Met({"nopicture"})' /\ forked => task[t].killed \/ rd[t] = {},
         ~Met({"unguarded"})' => ~dead'
  PROVE  IInv'
<1>i. /\ TypeOK /\ Tasks /\ HandedOver /\ Owned /\ Fed /\ Streams /\ Tidy /\ Guarded
  BY DEF IInv
<1>a. /\ UNCHANGED <<forked, catches, td, sigpipe, dev, buf, nonblock, reader, call, got>>
      /\ task[t].st \in {"created", "running"} /\ task' = [task EXCEPT ![t].st = "ended"]
      /\ \/ forked /\ rd' = [i \in Ids |-> rd[i] \ {t}] /\ wr' = [i \in Ids |-> wr[i] \ {t}]
         \/ ~forked /\ rd' = rd /\ wr' = wr
  BY DEF ReaderEnds, End
<1>t. /\ task \in [Task -> [st : {"none", "created", "running", "ended"},
                            arg : Arg \union {NoArg}, killed : BOOLEAN]]
      /\ rd \in Ends /\ wr \in Ends
  BY <1>i, Types DEF ThreadTypeOK
<1>n. /\ ~Met({"raced", "stale"})' => ~Met({"raced", "stale"})
      /\ ~Met({"raced"})' => ~Met({"raced"})
      /\ ~Met({"nopicture"})' => ~Met({"nopicture"})
      /\ ~Met({"restart", "close"})' => ~Met({"restart", "close"})
      /\ ~Met({"unguarded"})' => ~Met({"unguarded"})
  BY MetStays
<1>k. /\ task' \in [Task -> [st : {"none", "created", "running", "ended"},
                             arg : Arg \union {NoArg}, killed : BOOLEAN]]
      /\ task'[t].st = "ended" /\ \A j \in Task : j # t => task'[j] = task[j]
  <2>1. PICK m : m = [task[t] EXCEPT !.st = "ended"]
    OBVIOUS
  <2>2. task' = [task EXCEPT ![t] = m]
    BY <1>a, <1>t, <2>1
  <2>3. /\ m \in [st : {"none", "created", "running", "ended"}, arg : Arg \union {NoArg},
                  killed : BOOLEAN]
        /\ m.st = "ended"
    BY <1>t, <2>1
  <2> QED BY <1>t, <2>2, <2>3
<1>e. /\ rd' \in Ends /\ wr' \in Ends
      /\ \A j \in Ids : /\ Frontend \in rd'[j] <=> Frontend \in rd[j]
                        /\ Frontend \in wr'[j] <=> Frontend \in wr[j]
                        /\ \A x \in Ids : x # t /\ x \in wr[j] => x \in wr'[j]
  <2>1. CASE rd' = rd /\ wr' = wr
    BY <1>t, <2>1
  <2>2. CASE rd' = [i \in Ids |-> rd[i] \ {t}] /\ wr' = [i \in Ids |-> wr[i] \ {t}]
    BY <1>t, <2>2, Apart DEF Ends
  <2> QED BY <1>a, <2>1, <2>2
<1>q. \A e \in Dev : /\ dev[e].pid \in Ids \union {None} /\ dev[e].pipe \in Ids \union {None}
                     /\ dev[e].fds \in Ids \union {None, Stdin}
  BY <1>i, Fields
<1>s. \A j \in Task : /\ task'[j].st # "none" <=> task[j].st # "none"
                      /\ task'[j].st \in {"created", "running"} => task'[j] = task[j]
  BY <1>a, <1>k
<1>1. TypeOK'
  <2>1. ThreadTypeOK'
    BY <1>a, <1>i, <1>k DEF TypeOK, ThreadTypeOK
  <2> QED BY <1>a, <1>i, <1>e, <2>1, Types, TypesNext
<1>2. Calls' /\ Counted' /\ Complete' /\ ImageInOrder' /\ EofIsComplete'
  BY <1>a, DevicesKept
<1>3. Tasks' /\ HandedOver' /\ Guarded'
  <2>1. Tasks'
    BY <1>a, <1>i, <1>k, <1>s DEF Tasks, Out
  <2>2. HandedOver'
    BY <1>a, <1>i, <1>k, <1>n DEF HandedOver, Out
  <2>3. Guarded'
    BY <1>a, <1>i, <1>n, <1>s DEF Guarded, Alive
  <2> QED BY <2>1, <2>2, <2>3
<1>4. Owned' /\ (\A e \in Dev : Own(e)' = Own(e))
  <2>1. \A e \in Dev : Own(e)' = Own(e)
    BY <1>a DEF Own
  <2> QED BY <1>a, <1>e, <1>i, <1>q, <1>s, <2>1 DEF Owned
<1>5. Fed'
  <2> SUFFICES ASSUME ~Met({"nopicture"})', NEW d \in Dev, dev[d].pipe # None,
                      dev[d].fds # dev[d].pipe
               PROVE  /\ forked /\ task'[dev[d].pipe].st \in {"created", "running"}
                      /\ ~task'[dev[d].pipe].killed
                      /\ dev[d].pipe \in wr'[dev[d].pipe]
    BY <1>a DEF Fed, Alive
  <2>1. /\ forked /\ task[dev[d].pipe].st \in {"created", "running"}
        /\ ~task[dev[d].pipe].killed /\ dev[d].pipe \in wr[dev[d].pipe]
        /\ Frontend \in rd[dev[d].pipe] /\ dev[d].pipe \in Ids
    BY <1>i, <1>n, <1>q DEF Fed, Alive, Owned
  <2>2. dev[d].pipe # t
    BY <2>1
  <2> QED BY <1>e, <1>k, <2>1, <2>2
<1>6. Streams'
  <2> SUFFICES ASSUME ~Met({"raced", "stale"})', NEW d \in Dev, dev[d].scanning, dev[d].pipe # None
               PROVE  StreamOf(d, got[d], buf[dev[d].pipe], reader[dev[d].pipe],
                               task'[dev[d].pipe], forked)
    BY <1>a, StreamsIs
  <2>1. /\ dev[d].pipe \in Ids
        /\ StreamOf(d, got[d], buf[dev[d].pipe], reader[dev[d].pipe], task[dev[d].pipe], forked)
    BY <1>i, <1>n, <1>q, StreamsIs
  <2> QED BY <1>k, <2>1 DEF StreamOf
<1>7. Tidy'
  BY <1>a, <1>e, <1>i, <1>n, <1>s, <1>4 DEF Tidy
<1>8. FrontendSurvives'
  BY DEF FrontendSurvives
<1> QED BY <1>1, <1>2, <1>3, <1>4, <1>5, <1>6, <1>7, <1>8 DEF IInv

LEMMA ReaderEndsStep ==
  ASSUME IInv, NEW t \in Task,
         NoPicture(t) \/ WriteFails(t) \/ ReaderDone(t) \/ ReaderKilled(t)
  PROVE  IInv'
<1>i. trouble \subseteq Kinds /\ Tasks /\ Guarded
  BY DEF IInv, TypeOK
<1>1. CASE NoPicture(t)
  <2>1. /\ ReaderEnds(t) /\ ~dead /\ dead' = dead
        /\ trouble \subseteq trouble' /\ trouble' \subseteq Kinds /\ "nopicture" \in trouble'
    BY <1>1, <1>i DEF NoPicture, Meet, Kinds
  <2>2. Met({"nopicture"})'
    BY <2>1 DEF Met
  <2>3. dead' \in BOOLEAN /\ ~dead'
    BY <2>1 DEF IInv, TypeOK
  <2> QED BY <2>1, <2>2, <2>3, EndStep
<1>2. CASE WriteFails(t)
  <2>1. /\ ReaderEnds(t) /\ ~dead /\ trouble' = trouble /\ task[t].st = "running" /\ ~HasReader(t)
        /\ dead' = (~forked /\ Out(t) \in Ids /\ sigpipe = "dfl")
    BY <1>2 DEF WriteFails, Sending
  <2>2. dead' \in BOOLEAN
    BY <2>1
  <2>3. forked => rd[t] = {}
    BY <1>i, <2>1 DEF Tasks, HasReader
  <2>4. ~Met({"unguarded"})' => ~dead'
    BY <1>i, <2>1 DEF Guarded, Alive, Met
  <2> QED BY <1>i, <2>1, <2>2, <2>3, <2>4, EndStep
<1>3. CASE ReaderDone(t)
  <2>1. /\ ReaderEnds(t) /\ ~dead /\ ~forked /\ dead' = FALSE
        /\ trouble \subseteq trouble' /\ trouble' \subseteq Kinds
    BY <1>3, <1>i DEF ReaderDone
  <2> QED BY <2>1, EndStep
<1>4. CASE ReaderKilled(t)
  <2>1. /\ ReaderEnds(t) /\ ~dead /\ dead' = FALSE /\ task[t].killed
        /\ trouble \subseteq trouble' /\ trouble' \subseteq Kinds
    BY <1>4, <1>i DEF ReaderKilled, KillActs
  <2> QED BY <2>1, EndStep
<1> QED BY <1>1, <1>2, <1>3, <1>4

-----------------------------------------------------------------------------
\* The theorems.

LEMMA NextKeepsIInv == IInv /\ [Next]_vars => IInv'
<1> SUFFICES ASSUME IInv, [Next]_vars PROVE IInv'
  OBVIOUS
<1>1. ASSUME NEW d \in Dev, NEW i \in Ids, Start(d, i) \/ StartNoTask(d, i) PROVE IInv'
  BY <1>1, OpenStep
<1>2. ASSUME NEW d \in Dev, Reopen(d) \/ StartNoPipe(d) \/ Cancel(d) PROVE IInv'
  BY <1>2, ReopenStep, StartNoPipeStep, CancelStep
<1>3. ASSUME NEW d \in Dev, NEW on \in BOOLEAN, SetIoMode(d, on) PROVE IInv'
  BY <1>3, SetIoModeStep
<1>4. ASSUME NEW d \in Dev, NEW n \in 1..MaxRead, Read(d, n) PROVE IInv'
  BY <1>4, ReadStep
<1>5. CASE ReadPipe
  BY <1>5, ReadPipeStep
<1>6. CASE Finish
  BY <1>6, FinishCloseStep, FinishKillStep, FinishWaitStep, FinishFdsStep DEF Finish
<1>7. ASSUME NEW t \in Task, Reader(t) \/ NoPicture(t) PROVE IInv'
  BY <1>7, ReaderEnterStep, WriteStep, ReaderEndsStep DEF Reader
<1>8. CASE UNCHANGED vars
  <2>1. UNCHANGED <<thread, dev, buf, rd, wr, nonblock, reader, call, dead, got, trouble>>
    BY <1>8 DEF vars, pipes
  <2>2. KeepsOwn /\ trouble \subseteq trouble'
    BY <2>1 DEF KeepsOwn
  <2>3. TypeOK /\ TypeOK'
    BY <2>1, ThreadTypeKept, Types, TypesNext DEF IInv
  <2>4. Tasks' /\ HandedOver' /\ Owned' /\ Fed' /\ Guarded' /\ (\A d \in Dev : Own(d)' = Own(d))
    BY <2>1, <2>2, OwnKept
  <2>5. Calls' /\ Counted' /\ Complete' /\ ImageInOrder' /\ EofIsComplete'
    BY <2>1, DevicesKept
  <2>6. UNCHANGED <<task, forked>> /\ Met({"raced", "stale"})' = Met({"raced", "stale"})
    BY <2>1 DEF thread, Met
  <2>7. Streams'
    BY <2>1, <2>6, StreamsIs DEF IInv
  <2>8. Tidy' /\ FrontendSurvives'
    BY <2>1, <2>4, <2>6 DEF IInv, Tidy, FrontendSurvives, Met
  <2> QED BY <2>3, <2>4, <2>5, <2>7, <2>8 DEF IInv
<1> QED BY <1>1, <1>2, <1>3, <1>4, <1>5, <1>6, <1>7, <1>8 DEF Next

\* IInv holds in every state of the specification.
THEOREM Invariance == Spec => []IInv
<1> QED BY InitIInv, NextKeepsIInv, PTL DEF Spec

\* Every variable has its type, and no pipe holds more than it can.
THEOREM TypeCorrect == Spec => []TypeOK
<1>1. IInv => TypeOK
  BY DEF IInv
<1> QED BY <1>1, Invariance, PTL

\* What sane_read has delivered is the beginning of the image of the device it was called
\* for, through the pipe that sane_start made, whichever tasks run and end meanwhile.
THEOREM ImageDelivered == Spec => []ImageInOrder
<1>1. IInv => ImageInOrder
  BY DEF IInv
<1> QED BY <1>1, Invariance, PTL

\* The end of the image is reported when the image has been delivered.
THEOREM EofTrue == Spec => []EofIsComplete
<1>1. IInv => EofIsComplete
  BY DEF IInv
<1> QED BY <1>1, Invariance, PTL

\* finish_pass leaves neither a task nor a descriptor.
THEOREM NothingLeftOver == Spec => []NothingLeft
<1>1. IInv => NothingLeft
  <2> SUFFICES ASSUME IInv, call = NoCall, ~Met({"restart", "close"}), NEW i \in Ids,
                      task[i].st # "none" \/ Frontend \in rd[i] \union wr[i]
               PROVE  \E d \in Dev : dev[d].scanning /\ i \in {dev[d].pid, dev[d].pipe}
    BY DEF NothingLeft, Idle
  <2>1. PICK d \in Dev : dev[d].pid = i \/ dev[d].pipe = i \/ dev[d].fds = i
    BY DEF IInv, Tidy
  <2>2. call.d # d /\ i \in Own(d)
    BY <2>1, Apart DEF NoCall, Own
  <2>3. dev[d].scanning
    BY <2>2 DEF IInv, Tidy
  <2>4. dev[d].fds = i => dev[d].pipe = i
    BY <2>3 DEF IInv, Tidy
  <2> QED BY <2>1, <2>3, <2>4
<1> QED BY <1>1, Invariance, PTL

\* No writing thread ends the frontend by SIGPIPE.
THEOREM NoSigpipe == Spec => []FrontendSurvives
<1>1. IInv => FrontendSurvives
  BY DEF IInv
<1> QED BY <1>1, Invariance, PTL
=============================================================================
