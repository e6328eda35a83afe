--------------------------- MODULE ScsiQueue_proofs ---------------------------
(***************************************************************************)
(* Proofs about ScsiQueue for every depth of the queue and every number of *)
(* commands: the inductive invariant IInv and the safety properties it     *)
(* implies.                                                                *)
(***************************************************************************)
EXTENDS ScsiQueue, QueueLemmas

USE ScsiAssumption
USE DEF InIssue

Req == [cmd : Cmds, running : BOOLEAN, done : BOOLEAN, status : {"good", "error"}]

-----------------------------------------------------------------------------
\* Increasing sequences of commands.

\* A command above all others can be put at the end.
LEMMA AppendIncreasing ==
  ASSUME NEW s \in Seq(Cmds), NEW e \in Cmds, Increasing(s),
         \A j \in DOMAIN s : s[j] < e
  PROVE  Increasing(Append(s, e))
<1>1. /\ Len(s) \in Nat /\ DOMAIN s = 1..Len(s)
      /\ DOMAIN Append(s, e) = 1..(Len(s) + 1)
      /\ \A i \in 1..Len(s) : Append(s, e)[i] = s[i]
      /\ Append(s, e)[Len(s) + 1] = e
  BY AppendProperties, LenProperties
<1> QED BY <1>1 DEF Increasing

\* The first command is the least, and what follows it is increasing as well.
LEMMA TailIncreasing ==
  ASSUME NEW s \in Seq(Cmds), s # <<>>, Increasing(s)
  PROVE  /\ Increasing(Tail(s)) /\ IsInjective(s)
         /\ Head(s) \in Range(s) /\ \A x \in Range(s) : Head(s) <= x
<1>1. /\ Len(s) \in Nat \ {0} /\ DOMAIN s = 1..Len(s)
      /\ \A i \in 1..Len(s) : s[i] \in Cmds
      /\ Head(s) = s[1] /\ DOMAIN Tail(s) = 1..(Len(s) - 1)
      /\ \A i \in 1..(Len(s) - 1) : Tail(s)[i] = s[i + 1]
  BY HeadTailProperties, LenProperties, EmptySeq, ElementOfSeq
<1>2. Increasing(Tail(s))
  BY <1>1 DEF Increasing
<1>3. IsInjective(s)
  BY <1>1 DEF Increasing, IsInjective, Cmds
<1>4. Head(s) \in Range(s)
  BY <1>1 DEF Range
<1>5. ASSUME NEW x \in Range(s) PROVE Head(s) <= x
  <2>1. PICK i \in 1..Len(s) : x = s[i]
    BY <1>1 DEF Range
  <2> QED BY <2>1, <1>1 DEF Increasing, Cmds
<1> QED BY <1>2, <1>3, <1>4, <1>5

-----------------------------------------------------------------------------
\* The queue and issue().

LEMMA QueueFacts ==
  ASSUME NEW q \in Seq(Req)
  PROVE  /\ Len(q) \in Nat /\ DOMAIN q = 1..Len(q)
         /\ \A k \in 1..Len(q) : q[k] \in Req
         /\ q # <<>> <=> Len(q) >= 1
         /\ q # <<>> => 1 \in DOMAIN q
BY LenProperties, EmptySeq, ElementOfSeq

\* issue() finds the first request that is not running, or the end of the queue.
LEMMA FirstIdleFound ==
  ASSUME NEW q \in Seq(Req), NEW req
  PROVE  /\ FirstIdle(q, req) \in 1..(Len(q) + 1)
         /\ \A j \in 1..(FirstIdle(q, req) - 1) : q[j].running
         /\ FirstIdle(q, req) <= Len(q) => ~q[FirstIdle(q, req)].running
<1> DEFINE Idle(k) == /\ \A j \in 1..(k - 1) : q[j].running
                      /\ k <= Len(q) => ~q[k].running
           T == {k \in 1..Len(q) : ~q[k].running}
<1>1. Len(q) \in Nat
  BY QueueFacts
<1>2. \E k \in 1..(Len(q) + 1) : Idle(k)
  <2>1. CASE T = {}
    BY <1>1, <2>1
  <2>2. CASE T # {}
    <3>1. T \in SUBSET Nat
      BY <1>1
    <3> HIDE DEF T
    <3>2. PICK k \in T : \A y \in T : k <= y
      BY <2>2, <3>1, LeastNumber
    <3> USE DEF T
    <3>3. Idle(k)
      BY <3>2, <1>1
    <3> QED BY <3>2, <3>3, <1>1
  <2> QED BY <2>1, <2>2
<1>3. FirstIdle(q, req) = CHOOSE k \in 1..(Len(q) + 1) : Idle(k)
  BY DEF FirstIdle
<1> HIDE DEF Idle
<1>4. FirstIdle(q, req) \in 1..(Len(q) + 1) /\ Idle(FirstIdle(q, req))
  BY <1>2, <1>3
<1> QED BY <1>4 DEF Idle

\* What issue() starts with: the requests before rp are running and the others
\* are not, when those that run are the first of the queue.
LEMMA CallIssueCases ==
  ASSUME NEW q \in Seq(Req), NEW req \in Nat \ {0}, NEW back, CallIssue(q, req, back),
         \A j, k \in DOMAIN q : j < k /\ q[k].running => q[j].running
  PROVE  \/ req > Len(q) /\ pc' = back /\ UNCHANGED <<then, asked, rp>>
         \/ /\ req \in DOMAIN q /\ pc' = "issue" /\ then' = back /\ asked' = req
            /\ rp' \in 1..(Len(q) + 1)
            /\ \A k \in DOMAIN q : q[k].running <=> k < rp'
<1>1. Len(q) \in Nat /\ DOMAIN q = 1..Len(q)
  BY QueueFacts
<1>2. CASE req > Len(q)
  BY <1>2 DEF CallIssue
<1>3. CASE ~(req > Len(q))
  <2>1. rp' = FirstIdle(q, req) /\ pc' = "issue" /\ then' = back /\ asked' = req
    BY <1>3 DEF CallIssue
  <2>2. /\ rp' \in 1..(Len(q) + 1)
        /\ \A j \in 1..(rp' - 1) : q[j].running
        /\ rp' <= Len(q) => ~q[rp'].running
    BY <2>1, FirstIdleFound
  <2>3. ASSUME NEW k \in DOMAIN q PROVE q[k].running <=> k < rp'
    <3>1. k < rp' => q[k].running
      <4>1. k < rp' => k \in 1..(rp' - 1)
        BY <2>2, <1>1
      <4> QED BY <4>1, <2>2, Zenon
    <3>2. q[k].running => k < rp'
      BY <2>2, <1>1
    <3> QED BY <3>1, <3>2
  <2>4. req \in DOMAIN q
    BY <1>1, <1>3
  <2> QED BY <2>1, <2>2, <2>3, <2>4
<1> QED BY <1>2, <1>3
-----------------------------------------------------------------------------
\* The invariant, initially and step by step.

LEMMA IInvFacts ==
  ASSUME IInv
  PROVE  /\ queue \in Seq(Req) /\ Len(queue) \in Nat /\ DOMAIN queue = 1..Len(queue)
         /\ \A k \in DOMAIN queue : queue[k] \in Req
         /\ queue /= <<>> <=> 1 \in DOMAIN queue
         /\ Len(queue) <= MaxQueue
<1>1. queue \in Seq(Req) /\ Len(queue) <= MaxQueue
  BY DEF IInv, Typed, TypeOK, Req
<1> QED BY <1>1, QueueFacts

\* Outside the gap between a failed write and its mark, and outside a handler that
\* may have found it, the driver holds all that is outstanding.
Agrees ==
  Clean => /\ used = Cardinality(Outstanding)
           /\ IF version = 2 THEN /\ Range(replies \o device) = Outstanding
                                 /\ Increasing(replies \o device)
              ELSE replies \o device = <<>>

LEMMA AllMarked == Sent /\ pc /= "failed" /\ ~handler =>
                     Unmarked = {} /\ (DriverInStep <=> Agrees)
<1> SUFFICES ASSUME Sent, pc /= "failed", ~handler
             PROVE  Unmarked = {} /\ (DriverInStep <=> Agrees)
  OBVIOUS
<1>v. \A k \in DOMAIN queue : queue[k].running /\ ~queue[k].done =>
        queue[k].cmd \in Range(sent)
  BY DEF Sent, Failing
<1>1. Unmarked = {}
  BY <1>v DEF Unmarked, Outstanding
<1>2. Outstanding \ Unmarked = Outstanding
  BY <1>1
<1>3. DriverInStep <=> Agrees
  BY <1>1, <1>2 DEF DriverInStep, Agrees
<1> QED BY <1>1, <1>3

LEMMA AllMarkedNext == Sent' /\ pc' /= "failed" /\ ~handler' =>
                         Unmarked' = {} /\ (DriverInStep' <=> Agrees')
<1> SUFFICES ASSUME Sent', pc' /= "failed", ~handler'
             PROVE  Unmarked' = {} /\ (DriverInStep' <=> Agrees')
  OBVIOUS
<1>v. \A k \in DOMAIN queue' : queue'[k].running /\ ~queue'[k].done =>
        queue'[k].cmd \in Range(sent')
  BY DEF Sent, Failing
<1>1. Unmarked' = {}
  BY <1>v DEF Unmarked, Outstanding
<1>2. (Outstanding \ Unmarked)' = Outstanding'
  BY <1>1
<1>3. DriverInStep' <=> Agrees'
  BY <1>1, <1>2 DEF DriverInStep, Agrees
<1> QED BY <1>1, <1>3

LEMMA InitIInv == Init => IInv
<1> SUFFICES ASSUME Init PROVE IInv
  OBVIOUS
<1> USE DEF Init
<1>1. Typed
  <2>1. /\ queue \in Seq(Req) /\ Len(queue) = 0
        /\ device \in Seq(Cmds) /\ replies \in Seq(Cmds) /\ sent \in Seq(Cmds)
    BY EmptySeq
  <2>2. outcome \in [Cmds -> {"none", "good", "error"}] /\ reply \in [Cmds -> 0..MaxCmds]
    OBVIOUS
  <2>3. TypeOK
    BY <2>1, <2>2 DEF TypeOK, Req
  <2>4. version \in {2, 3} /\ used \in Int
    OBVIOUS
  <2>5. entered \in 0..MaxCmds
    OBVIOUS
  <2>6. handler \in BOOLEAN
    OBVIOUS
  <2> QED BY <2>1, <2>3, <2>4, <2>5, <2>6 DEF Typed
<1>2. Positions /\ Order /\ Sent /\ Outcomes
  <2>1. DOMAIN queue = {} /\ DOMAIN sent = {}
    OBVIOUS
  <2> QED BY <2>1 DEF Positions, Order, Sent, Outcomes, Failing
<1>2a. Stages /\ Results
  BY DEF Stages, Results, Waiting
<1>3. SentInOrder /\ GoodMeansExecuted
  BY DEF SentInOrder, Increasing, GoodMeansExecuted
<1>4. DriverInStep
  <2>1. Outstanding = {}
    BY DEF Outstanding
  <2>2. replies \o device = <<>>
    BY ConcatEmptySeq, EmptySeq
  <2>3. Range(<<>>) = {}
    BY DEF Range
  <2> QED BY <2>1, <2>2, <2>3, FS_EmptySet DEF DriverInStep, Increasing, Unmarked
<1> QED BY <1>1, <1>2, <1>2a, <1>3, <1>4 DEF IInv

\* Trouble does not go away.
LEMMA CleanBefore ==
  ASSUME version' = version, trouble \subseteq trouble'
  PROVE  Clean' => Clean
BY DEF Clean

\* issue() returns without taking a command, to sanei_scsi_req_wait only if with
\* version 3 and nothing spoiled the first request is running.
LEMMA ReturnStep ==
  ASSUME IInv, pc = "issue", Return,
         UNCHANGED <<version, queue, used, driver, caller, handler>>,
         trouble \subseteq trouble' /\ trouble' \subseteq Kinds,
         Clean' /\ version = 3 /\ then = "check" => queue[1].running
  PROVE  IInv'
<1>i. /\ Typed /\ Positions /\ Order /\ Sent /\ Stages /\ Results /\ Outcomes
      /\ DriverInStep /\ SentInOrder /\ GoodMeansExecuted
  BY DEF IInv
<1>s. /\ pc' = then
      /\ UNCHANGED <<version, then, asked, rp, status, queue, used, device, replies, sent,
                     entered, outcome, reply, handler>>
  BY DEF Return, driver, caller
<1>t. then \in {"idle", "check", "finish"}
  BY <1>i DEF Typed, TypeOK
<1>c. Clean' => Clean
  BY <1>s, CleanBefore
<1>o. Outstanding' = Outstanding
  BY <1>s, <1>t DEF Outstanding
<1>1. Typed'
  BY <1>i, <1>s, <1>t, <1>c DEF Typed, TypeOK, Stages, Waiting
<1>2. Positions' /\ Order' /\ Sent' /\ Outcomes'
  BY <1>i, <1>s, <1>t DEF Positions, Order, Sent, Outcomes, Failing
<1>3. Stages'
  BY <1>i, <1>s, <1>t DEF Stages, Waiting
<1>4. Results'
  BY <1>i, <1>s, <1>t, <1>c DEF Results
<1>5. DriverInStep' /\ SentInOrder' /\ GoodMeansExecuted'
  BY <1>i, <1>s, <1>c, <1>o
     DEF DriverInStep, SentInOrder, GoodMeansExecuted, Increasing, Unmarked
<1> QED BY <1>1, <1>2, <1>3, <1>4, <1>5 DEF IInv

\* The driver has room for the first request when nothing is spoiled: as long as
\* that does not run, the driver holds nothing.
LEMMA IssueEndStep == IInv /\ IssueEnd => IInv'
<1> SUFFICES ASSUME IInv, IssueEnd PROVE IInv'
  OBVIOUS
<1>i. Typed /\ Positions /\ Stages /\ DriverInStep
  BY DEF IInv
<1>s. /\ pc = "issue" /\ ~HasRoom /\ Return
      /\ UNCHANGED <<version, queue, used, driver, caller, handler, trouble>>
  BY DEF IssueEnd
<1>1. trouble' \subseteq Kinds /\ (Clean' => Clean)
  BY <1>i, <1>s, CleanBefore DEF Typed, TypeOK
<1>2. ASSUME Clean, then = "check" PROVE queue[1].running
  <2>1. SUFFICES ASSUME ~queue[1].running PROVE FALSE
    OBVIOUS
  <2>2. 1 \in DOMAIN queue /\ rp \in 1..(Len(queue) + 1)
    BY <1>2, <1>i, <1>s, IInvFacts DEF Stages, Waiting, Positions
  <2>3. rp = 1 /\ \A k \in DOMAIN queue : ~queue[k].running
    BY <2>1, <2>2, <1>i, <1>s, IInvFacts DEF Positions
  <2>4. Outstanding = {}
    BY <2>3 DEF Outstanding
  <2>5. ~handler
    BY <1>i, <1>s DEF Stages
  <2>6. used = 0
    BY <2>4, <2>5, <1>2, <1>i, FS_EmptySet DEF DriverInStep, Unmarked
  <2> QED BY <2>2, <2>3, <2>6, <1>s, IInvFacts DEF HasRoom
<1> QED BY <1>s, <1>1, <1>2, ReturnStep

\* A refusal leaves the first request unissued only when it is that one.
LEMMA IssueRefusedStep == IInv /\ IssueRefused => IInv'
<1> SUFFICES ASSUME IInv, IssueRefused PROVE IInv'
  OBVIOUS
<1>i. Typed /\ Positions /\ Stages
  BY DEF IInv
<1>s. /\ pc = "issue" /\ Return
      /\ trouble' = IF rp = 1 THEN trouble \cup {"refused"} ELSE trouble
      /\ UNCHANGED <<version, queue, used, driver, caller, handler>>
  BY DEF IssueRefused, Issuing
<1>1. trouble \subseteq trouble' /\ trouble' \subseteq Kinds
  BY <1>i, <1>s DEF Typed, TypeOK, Kinds
<1>2. ASSUME Clean', version = 3, then = "check" PROVE queue[1].running
  <2>1. rp # 1
    BY <1>2, <1>s DEF Clean
  <2> QED BY <2>1, <1>2, <1>i, <1>s, IInvFacts DEF Positions, Stages, Waiting
<1> QED BY <1>s, <1>1, <1>2, ReturnStep

\* sanei_scsi_req_wait has issue() look at its request first.
LEMMA WaitStep == IInv /\ Wait => IInv'
<1> SUFFICES ASSUME IInv, Wait PROVE IInv'
  OBVIOUS
<1>i. /\ Typed /\ Positions /\ Order /\ Sent /\ Stages /\ Results /\ Outcomes
      /\ DriverInStep /\ SentInOrder /\ GoodMeansExecuted
  BY DEF IInv
<1>s. /\ pc = "idle" /\ queue /= <<>> /\ CallIssue(queue, 1, "check")
      /\ UNCHANGED <<version, status, queue, used, device, replies, sent, entered, outcome,
                     reply, handler, trouble>>
  BY DEF Wait, driver, caller
<1>p. /\ 1 \in DOMAIN queue /\ pc' = "issue" /\ then' = "check" /\ asked' = 1
      /\ rp' \in 1..(Len(queue) + 1)
      /\ \A k \in DOMAIN queue : queue[k].running <=> k < rp'
  BY <1>i, <1>s, IInvFacts, CallIssueCases DEF Positions
<1>c. Clean' <=> Clean
  BY <1>s DEF Clean
<1>o. Outstanding' = Outstanding
  BY <1>s, <1>p DEF Outstanding
<1>1. Typed'
  BY <1>i, <1>s, <1>p, <1>c, IInvFacts DEF Typed, TypeOK
<1>2. Positions' /\ Order' /\ Sent' /\ Outcomes'
  BY <1>i, <1>s, <1>p DEF Positions, Order, Sent, Outcomes, Failing
<1>3. Stages' /\ Results'
  BY <1>i, <1>s, <1>p, <1>c DEF Stages, Results, Waiting
<1>4. DriverInStep' /\ SentInOrder' /\ GoodMeansExecuted'
  BY <1>i, <1>s, <1>c, <1>o
     DEF DriverInStep, SentInOrder, GoodMeansExecuted, Increasing, Unmarked
<1> QED BY <1>1, <1>2, <1>3, <1>4 DEF IInv

\* Then it reads a result, unless the request is done already.
LEMMA WaitCheckStep == IInv /\ WaitCheck => IInv'
<1> SUFFICES ASSUME IInv, WaitCheck PROVE IInv'
  OBVIOUS
<1>i. /\ Typed /\ Positions /\ Order /\ Sent /\ Stages /\ Results /\ Outcomes
      /\ DriverInStep /\ SentInOrder /\ GoodMeansExecuted
  BY DEF IInv
<1>s. /\ pc = "check"
      /\ IF queue[1].done THEN CallIssue(queue, 2, "finish")
         ELSE pc' = "read" /\ UNCHANGED <<then, asked, rp>>
      /\ UNCHANGED <<version, status, queue, used, device, replies, sent, entered, outcome,
                     reply, handler, trouble>>
  BY DEF WaitCheck, driver, caller
<1>p. \/ ~queue[1].done /\ pc' = "read" /\ UNCHANGED <<then, asked, rp>>
      \/ queue[1].done /\ pc' = "finish" /\ UNCHANGED <<then, asked, rp>>
      \/ /\ queue[1].done /\ pc' = "issue" /\ then' = "finish" /\ asked' \in DOMAIN queue
         /\ rp' \in 1..(Len(queue) + 1)
         /\ \A k \in DOMAIN queue : queue[k].running <=> k < rp'
  BY <1>i, <1>s, IInvFacts, CallIssueCases DEF Positions
<1>n. 1 \in DOMAIN queue /\ queue /= <<>> /\ status = "none"
  BY <1>i, <1>s, IInvFacts DEF Stages, Waiting
<1>c. Clean' <=> Clean
  BY <1>s DEF Clean
<1>o. Outstanding' = Outstanding
  BY <1>s, <1>p DEF Outstanding
<1>1. Typed'
  <2>1. asked' \in 0..MaxQueue /\ rp' \in 0..(MaxQueue + 1)
    BY <1>i, <1>p, IInvFacts DEF Typed, TypeOK
  <2>2. pc' \in {"issue", "read", "finish"} /\ then' \in {"idle", "check", "finish"}
    BY <1>i, <1>p DEF Typed, TypeOK
  <2> QED BY <1>i, <1>s, <1>n, <1>c, <2>1, <2>2 DEF Typed, TypeOK
<1>2. Positions' /\ Order' /\ Sent' /\ Outcomes'
  BY <1>i, <1>s, <1>p DEF Positions, Order, Sent, Outcomes, Failing
<1>3. Stages' /\ Results'
  BY <1>i, <1>s, <1>p, <1>n, <1>c DEF Stages, Results, Waiting
<1>4. DriverInStep' /\ SentInOrder' /\ GoodMeansExecuted'
  BY <1>i, <1>s, <1>c, <1>o
     DEF DriverInStep, SentInOrder, GoodMeansExecuted, Increasing, Unmarked
<1> QED BY <1>1, <1>2, <1>3, <1>4 DEF IInv

\* A flush starts at the head, whatever the reader was doing.
LEMMA FlushStartStep == IInv /\ (Flush \/ Sigterm) => IInv'
<1> SUFFICES ASSUME IInv, Flush \/ Sigterm PROVE IInv'
  OBVIOUS
<1>i. /\ Typed /\ Positions /\ Order /\ Sent /\ Stages /\ Results /\ Outcomes
      /\ DriverInStep /\ SentInOrder /\ GoodMeansExecuted
  BY DEF IInv
<1>s. /\ pc \notin {"flush", "exited"} /\ pc' = "flush" /\ rp' = 1
      /\ handler' \/ (pc = "idle" /\ handler' = handler)
      /\ UNCHANGED <<version, then, asked, status, queue, used, device, replies, sent,
                     entered, outcome, reply, trouble>>
  <2>1. CASE Flush
    BY <2>1 DEF Flush, driver, caller
  <2>2. CASE Sigterm
    BY <2>2 DEF Sigterm, driver, caller
  <2> QED BY <2>1, <2>2
<1>c. Clean' <=> Clean
  BY <1>s DEF Clean
<1>o. Outstanding' = Outstanding
  BY <1>s, IInvFacts DEF Outstanding
<1>n. ~handler
  BY <1>i, <1>s DEF Stages
<1>b. handler' \in BOOLEAN
  BY <1>i DEF Flush, Sigterm, Typed
<1>1. Typed'
  BY <1>i, <1>s, <1>n, <1>b, <1>c DEF Typed, TypeOK
<1>2. Positions' /\ Order' /\ Sent' /\ Outcomes'
  BY <1>i, <1>s, IInvFacts DEF Positions, Order, Sent, Outcomes, Failing
<1>3. Stages' /\ Results'
  BY <1>i, <1>s, <1>n, <1>c DEF Stages, Results, Waiting
<1>4. DriverInStep' /\ SentInOrder' /\ GoodMeansExecuted'
  BY <1>i, <1>s, <1>n, <1>c, <1>o
     DEF DriverInStep, SentInOrder, GoodMeansExecuted, Increasing, Unmarked
<1> QED BY <1>1, <1>2, <1>3, <1>4 DEF IInv

\* What the driver finishes moves to its results, in the same row.
LEMMA DriverFinishStep == IInv /\ DriverFinish => IInv'
<1> SUFFICES ASSUME IInv, DriverFinish PROVE IInv'
  OBVIOUS
<1>i. /\ Typed /\ Positions /\ Order /\ Sent /\ Stages /\ Results /\ Outcomes
      /\ DriverInStep /\ SentInOrder /\ GoodMeansExecuted
  BY DEF IInv
<1>s. /\ device /= <<>>
      /\ replies' = Append(replies, Head(device)) /\ device' = Tail(device)
      /\ UNCHANGED <<version, pc, then, asked, rp, status, queue, used, sent, entered,
                     outcome, reply, handler, trouble>>
  BY DEF DriverFinish, library, caller
<1>r. replies \in Seq(Cmds) /\ device \in Seq(Cmds)
  BY <1>i DEF Typed
<1>d. /\ replies' \in Seq(Cmds) /\ device' \in Seq(Cmds)
      /\ replies' \o device' = replies \o device
  BY <1>r, <1>s, HeadTailProperties, AppendProperties, MoveHead
<1>c. Clean' <=> Clean
  BY <1>s DEF Clean
<1>o. Outstanding' = Outstanding
  BY <1>s DEF Outstanding
<1>1. Typed'
  BY <1>i, <1>s, <1>d, <1>c DEF Typed, TypeOK
<1>2. Positions' /\ Order' /\ Sent' /\ Outcomes'
  BY <1>i, <1>s DEF Positions, Order, Sent, Outcomes, Failing
<1>3. Stages' /\ Results'
  BY <1>i, <1>s, <1>c DEF Stages, Results, Waiting
<1>4. DriverInStep'
  BY <1>i, <1>s, <1>c, <1>o, <1>d DEF DriverInStep, Increasing, Unmarked
<1>5. SentInOrder' /\ GoodMeansExecuted'
  BY <1>i, <1>s, <1>c DEF SentInOrder, GoodMeansExecuted, Increasing
<1> QED BY <1>1, <1>2, <1>3, <1>4, <1>5 DEF IInv

-----------------------------------------------------------------------------
\* Taking a result, and the commands outstanding.

LEMMA OutstandingFacts ==
  ASSUME IInv
  PROVE  /\ Outstanding \subseteq Cmds /\ IsFiniteSet(Outstanding)
         /\ Cardinality(Outstanding) \in Nat
<1>1. Outstanding \subseteq Cmds
  BY IInvFacts DEF Outstanding, Req
<1>2. IsFiniteSet(Cmds)
  BY FS_Interval DEF Cmds
<1> QED BY <1>1, <1>2, FS_Subset, FS_CardinalityType

\* The request at which a flush stands, or the head for sanei_scsi_req_wait, is
\* the first of those outstanding.
LEMMA FirstIsLeast ==
  ASSUME IInv, NEW p \in DOMAIN queue, queue[p].running, ~queue[p].done,
         p = IF pc = "flush" THEN rp ELSE 1
  PROVE  /\ queue[p].cmd \in Outstanding
         /\ \A x \in Outstanding : queue[p].cmd <= x
<1>1. queue[p].cmd \in Outstanding
  BY IInvFacts DEF Outstanding
<1>2. ASSUME NEW x \in Outstanding PROVE queue[p].cmd <= x
  <2>1. PICK k \in DOMAIN queue : x = queue[k].cmd /\ (pc = "flush" => k >= rp)
    BY DEF Outstanding
  <2>2. p <= k
    BY <2>1, IInvFacts
  <2>3. p < k => queue[p].cmd < queue[k].cmd
    BY DEF IInv, Order
  <2>4. queue[p].cmd \in Cmds /\ queue[k].cmd \in Cmds
    BY IInvFacts DEF Req
  <2> QED BY <2>1, <2>2, <2>3, <2>4, IInvFacts DEF Cmds
<1> QED BY <1>1, <1>2

\* So the next result that can be read is its own: the command that was not marked,
\* if there is one, is the last of those outstanding.
LEMMA NextReply ==
  ASSUME IInv, Clean, version = 2, replies /= <<>>,
         NEW m \in Outstanding, \A x \in Outstanding : m <= x
  PROVE  /\ Head(replies) = m /\ m \notin Unmarked
         /\ Tail(replies) \in Seq(Cmds)
         /\ Range(Tail(replies) \o device) = (Outstanding \ Unmarked) \ {m}
         /\ Increasing(Tail(replies) \o device)
<1> DEFINE row == replies \o device
           held == Outstanding \ Unmarked
<1>1. replies \in Seq(Cmds) /\ device \in Seq(Cmds) /\ row \in Seq(Cmds)
  BY ConcatProperties DEF IInv, Typed
<1>2. /\ Tail(replies) \o device = Tail(row) /\ Head(replies) = Head(row) /\ row /= <<>>
      /\ Tail(replies) \in Seq(Cmds)
  BY <1>1, RowOfQueues, HeadTailProperties
<1>3. /\ Range(row) = held /\ Increasing(row)
      /\ \A c \in Unmarked : \A d \in Outstanding : d <= c
  BY DEF IInv, DriverInStep
<1>t. Outstanding \subseteq Cmds
  BY OutstandingFacts
<1> HIDE DEF row
<1>4. /\ Increasing(Tail(row)) /\ IsInjective(row)
      /\ Head(row) \in held /\ \A x \in held : Head(row) <= x
  BY <1>1, <1>2, <1>3, TailIncreasing
<1>5. Head(row) = m
  <2>1. Head(row) \in Cmds /\ m \in Cmds /\ m <= Head(row) /\ Head(row) \notin Unmarked
    BY <1>4, <1>t
  <2>2. m \in Unmarked => Head(row) <= m
    BY <1>3, <1>4
  <2>3. m \notin Unmarked => Head(row) <= m
    BY <1>4
  <2> QED BY <2>1, <2>2, <2>3 DEF Cmds
<1> HIDE DEF held
<1>6. Range(Tail(row)) = held \ {m}
  BY <1>1, <1>2, <1>3, <1>4, <1>5, TailElements
<1>7. m \notin Unmarked
  BY <1>4, <1>5 DEF held
<1> QED BY <1>2, <1>4, <1>5, <1>6, <1>7 DEF held

\* A flush passes a request that is not outstanding.
LEMMA FlushSkipStep == IInv /\ FlushSkip => IInv'
<1> SUFFICES ASSUME IInv, FlushSkip PROVE IInv'
  OBVIOUS
<1>i. /\ Typed /\ Positions /\ Order /\ Sent /\ Stages /\ Results /\ Outcomes
      /\ DriverInStep /\ SentInOrder /\ GoodMeansExecuted
  BY DEF IInv
<1>s. /\ pc = "flush" /\ rp <= Len(queue) /\ ~Pending(queue[rp]) /\ rp' = rp + 1
      /\ UNCHANGED <<version, pc, then, asked, status, queue, used, device, replies, sent,
                     entered, outcome, reply, handler, trouble>>
  BY DEF FlushSkip, Flushing, FlushNext, caller
<1>c. Clean' <=> Clean
  BY <1>s DEF Clean
<1>p. rp \in DOMAIN queue /\ rp \in Int
  BY <1>i, <1>s, IInvFacts DEF Positions
<1>o. Outstanding' = Outstanding
  <2>1. ASSUME NEW k \in DOMAIN queue, queue[k].running, ~queue[k].done
        PROVE  k >= rp <=> k >= rp + 1
    BY <2>1, <1>s, <1>p, IInvFacts DEF Pending
  <2> QED BY <2>1, <1>s DEF Outstanding
<1>1. Typed'
  BY <1>i, <1>s, <1>c, <1>p, IInvFacts DEF Typed, TypeOK
<1>2. Positions' /\ Order' /\ Sent' /\ Outcomes'
  BY <1>i, <1>s, IInvFacts DEF Positions, Order, Sent, Outcomes, Failing
<1>3. Stages' /\ Results'
  BY <1>i, <1>s, <1>c DEF Stages, Results, Waiting
<1>4. DriverInStep' /\ SentInOrder' /\ GoodMeansExecuted'
  BY <1>i, <1>s, <1>c, <1>o
     DEF DriverInStep, SentInOrder, GoodMeansExecuted, Increasing, Unmarked
<1> QED BY <1>1, <1>2, <1>3, <1>4 DEF IInv

\* A flush takes back a command: its result is the next to read, or there is no
\* result to read, which with version 2 spoils the queue.
LEMMA FlushTakeStep == IInv /\ (FlushRead \/ FlushGivesUp) => IInv'
<1> SUFFICES ASSUME IInv, FlushRead \/ FlushGivesUp PROVE IInv'
  OBVIOUS
<1>i. /\ Typed /\ Positions /\ Order /\ Sent /\ Stages /\ Results /\ Outcomes
      /\ DriverInStep /\ SentInOrder /\ GoodMeansExecuted
  BY DEF IInv
<1>s. /\ pc = "flush" /\ rp <= Len(queue) /\ Pending(queue[rp]) /\ rp' = rp + 1
      /\ used' = used - 1
      /\ UNCHANGED <<version, pc, then, asked, status, queue, device, sent,
                     entered, outcome, reply, handler>>
  BY DEF FlushRead, FlushGivesUp, Flushing, FlushNext, caller
<1>k. trouble \subseteq trouble' /\ trouble' \subseteq Kinds
  BY <1>i DEF FlushRead, FlushGivesUp, Typed, TypeOK, Kinds
<1>c. Clean' => Clean
  BY <1>s, <1>k, CleanBefore
<1>p. rp \in DOMAIN queue /\ rp \in Int
  BY <1>i, <1>s, IInvFacts DEF Positions
<1> DEFINE m == queue[rp].cmd
<1>m. m \in Outstanding /\ \A x \in Outstanding : m <= x
  BY <1>s, <1>p, FirstIsLeast DEF Pending
<1>o. Outstanding' = Outstanding \ {m}
  <2>1. ASSUME NEW k \in DOMAIN queue
        PROVE  k >= rp + 1 <=> k >= rp /\ queue[k].cmd /= m
    <3>1. k > rp => queue[k].cmd > m
      BY <1>i, <1>p DEF Order
    <3>2. queue[k].cmd \in Cmds /\ m \in Cmds
      BY <1>p, IInvFacts DEF Req
    <3> QED BY <3>1, <3>2, <1>p, IInvFacts DEF Cmds
  <2> HIDE DEF m
  <2> QED BY <2>1, <1>s DEF Outstanding
<1>g. Unmarked' = Unmarked \ {m}
  BY <1>o, <1>s DEF Unmarked
<1>h. (Outstanding \ Unmarked)' = (Outstanding \ Unmarked) \ {m}
  BY <1>o, <1>g
<1>l. Clean /\ m \in Unmarked => Outstanding = {m}
  <2> SUFFICES ASSUME Clean, m \in Unmarked, NEW x \in Outstanding PROVE x = m
    BY <1>m
  <2>1. x <= m /\ m <= x
    BY <1>i, <1>m DEF DriverInStep
  <2>2. x \in Cmds /\ m \in Cmds
    BY <1>m, OutstandingFacts
  <2> QED BY <2>1, <2>2 DEF Cmds
<1>r. /\ replies' \in Seq(Cmds)
      /\ Clean' => IF version = 2
                    THEN /\ Range(replies' \o device') = (Outstanding \ Unmarked) \ {m}
                         /\ Increasing(replies' \o device')
                    ELSE replies' \o device' = <<>>
  <2>1. CASE version = 2 /\ Clean' /\ FlushRead
    <3>1. replies /= <<>> /\ replies' = Tail(replies)
      BY <2>1 DEF FlushRead
    <3> HIDE DEF m
    <3> QED BY <2>1, <3>1, <1>c, <1>m, <1>s, NextReply
  <2>4. CASE version = 2 /\ Clean' /\ FlushGivesUp
    <3>1. replies' = replies /\ m \notin Range(sent)
      BY <2>4, <1>s DEF FlushGivesUp, Clean
    <3>2. m \in Unmarked
      BY <1>m, <3>1 DEF Unmarked
    <3>3. (Outstanding \ Unmarked) \ {m} = Outstanding \ Unmarked
      BY <3>2
    <3>4. Range(replies \o device) = Outstanding \ Unmarked /\ Increasing(replies \o device)
      BY <2>4, <1>c, <1>i DEF DriverInStep
    <3> QED BY <2>4, <3>1, <3>3, <3>4, <1>i, <1>s DEF Typed
  <2>2. CASE version = 3
    <3>1. replies' = replies
      BY <2>2 DEF FlushRead, FlushGivesUp
    <3> QED BY <2>2, <3>1, <1>c, <1>i, <1>s DEF DriverInStep, Typed
  <2>3. CASE version = 2
    <3>1. replies' = replies \/ (replies /= <<>> /\ replies' = Tail(replies))
      BY DEF FlushRead, FlushGivesUp
    <3>2. replies' \in Seq(Cmds)
      BY <3>1, <1>i, HeadTailProperties DEF Typed
    <3> QED BY <2>1, <2>4, <2>3, <3>2
  <2> QED BY <2>2, <2>3, <1>i DEF Typed
<1>u. ~handler => Unmarked = {}
  BY <1>i, <1>s, AllMarked
<1>4. DriverInStep'
  <2>1. Clean' /\ ~handler' => used' = Cardinality(Outstanding' \ Unmarked')
    <3>1. Cardinality(Outstanding \ {m}) = Cardinality(Outstanding) - 1
      BY <1>m, OutstandingFacts, FS_RemoveElement
    <3>2. ~handler => Outstanding \ Unmarked = Outstanding
      BY <1>u
    <3>3. ~handler => Outstanding' \ Unmarked' = Outstanding \ {m}
      BY <1>u, <1>o, <1>g
    <3>4. Clean' /\ ~handler' => used = Cardinality(Outstanding)
      BY <1>i, <1>s, <1>c, <3>2 DEF DriverInStep
    <3> QED BY <1>s, <3>1, <3>3, <3>4
  <2>2. Clean' => IF version' = 2 THEN /\ Range(replies' \o device') = Outstanding' \ Unmarked'
                                       /\ Increasing(replies' \o device')
                  ELSE replies' \o device' = <<>>
    BY <1>r, <1>h, <1>s
  <2>3. ~handler' => Unmarked' = {}
    BY <1>u, <1>g, <1>s
  <2>4. Clean' => \A c \in Unmarked' : \A d \in Outstanding' : d <= c
    BY <1>i, <1>c, <1>g, <1>o DEF DriverInStep
  <2> QED BY <2>1, <2>2, <2>3, <2>4 DEF DriverInStep, Increasing
<1>1. Typed'
  <2>1. Clean' /\ ~handler' => used' >= 0
    <3>1. Cardinality(Outstanding) \in Nat /\ Cardinality(Outstanding) # 0
      BY <1>m, OutstandingFacts, FS_EmptySet
    <3>2. ~handler => Outstanding \ Unmarked = Outstanding
      BY <1>u
    <3>3. Clean' /\ ~handler' => used = Cardinality(Outstanding)
      BY <1>i, <1>s, <1>c, <3>2 DEF DriverInStep
    <3> QED BY <1>s, <3>1, <3>3
  <2>2. rp' \in 0..(MaxQueue + 1) /\ used' \in Int /\ used' <= QueueMax
    BY <1>i, <1>s, <1>p, IInvFacts DEF Typed, TypeOK
  <2>3. replies' \in Seq(Cmds)
    BY <1>r
  <2> QED BY <1>i, <1>s, <1>k, <2>1, <2>2, <2>3 DEF Typed, TypeOK
<1>2. Positions' /\ Order' /\ Sent' /\ Outcomes'
  BY <1>i, <1>s, IInvFacts DEF Positions, Order, Sent, Outcomes, Failing
<1>3. Stages' /\ Results'
  BY <1>i, <1>s, <1>c DEF Stages, Results, Waiting
<1>5. SentInOrder' /\ GoodMeansExecuted'
  BY <1>i, <1>s, <1>c DEF SentInOrder, GoodMeansExecuted, Increasing
<1> QED BY <1>1, <1>2, <1>3, <1>4, <1>5 DEF IInv

\* At the end nothing is outstanding, so the empty queue is in step as well.
LEMMA FlushEndStep == IInv /\ FlushEnd => IInv'
<1> SUFFICES ASSUME IInv, FlushEnd PROVE IInv'
  OBVIOUS
<1>i. /\ Typed /\ Positions /\ Order /\ Sent /\ Stages /\ Results /\ Outcomes
      /\ DriverInStep /\ SentInOrder /\ GoodMeansExecuted
  BY DEF IInv
<1>s. /\ pc = "flush" /\ rp > Len(queue) /\ queue' = <<>>
      /\ pc' = IF handler THEN "exited" ELSE "idle"
      /\ UNCHANGED <<version, then, asked, rp, status, used, device, replies, sent,
                     entered, outcome, reply, handler, trouble>>
  BY DEF FlushEnd, driver, caller
<1>c. Clean' <=> Clean
  BY <1>s DEF Clean
<1>e. DOMAIN queue' = {} /\ queue' \in Seq(Req) /\ Len(queue') = 0
  BY <1>s, EmptySeq
<1>o. Outstanding' = Outstanding
  <2>1. Outstanding' = {}
    BY <1>e DEF Outstanding
  <2>2. Outstanding = {}
    BY <1>i, <1>s, IInvFacts DEF Outstanding, Positions
  <2> QED BY <2>1, <2>2
<1>1. Typed'
  BY <1>i, <1>s, <1>c, <1>e DEF Typed, TypeOK, Req
<1>2. Positions' /\ Order' /\ Sent' /\ Outcomes'
  BY <1>i, <1>s, <1>e DEF Positions, Order, Sent, Outcomes, Failing
<1>3. Stages' /\ Results'
  BY <1>i, <1>s, <1>c, <1>e DEF Stages, Results, Waiting
<1>4. DriverInStep' /\ SentInOrder' /\ GoodMeansExecuted'
  BY <1>i, <1>s, <1>c, <1>o
     DEF DriverInStep, SentInOrder, GoodMeansExecuted, Increasing, Unmarked
<1> QED BY <1>1, <1>2, <1>3, <1>4 DEF IInv

-----------------------------------------------------------------------------
\* The driver takes a command.

Taken(q, r, a, v) ==
  [q EXCEPT ![r].running = TRUE, ![a].status = IF v = 2 THEN "error" ELSE "good"]

LEMMA SentQueue ==
  ASSUME NEW q \in Seq(Req), NEW r \in DOMAIN q, NEW a \in DOMAIN q,
         NEW v, NEW t, t = Taken(q, r, a, v)
  PROVE  /\ t \in Seq(Req) /\ Len(t) = Len(q) /\ DOMAIN t = DOMAIN q
         /\ \A k \in DOMAIN q :
              /\ t[k].cmd = q[k].cmd /\ t[k].done = q[k].done
              /\ t[k].running <=> (k = r \/ q[k].running)
              /\ k = a /\ v = 2 => t[k].status = "error"
              /\ k # a => t[k].status = q[k].status
<1> DEFINE e == [q[r] EXCEPT !.running = TRUE]
           u == [q EXCEPT ![r] = e]
           f == [u[a] EXCEPT !.status = IF v = 2 THEN "error" ELSE "good"]
           w == [u EXCEPT ![a] = f]
<1>q. DOMAIN q = 1..Len(q) /\ \A k \in DOMAIN q : q[k] \in Req
  BY QueueFacts
<1>1. /\ e \in Req /\ e.cmd = q[r].cmd /\ e.done = q[r].done
      /\ e.running = TRUE /\ e.status = q[r].status
  BY <1>q DEF Req
<1>2. t = w
  BY DEF Taken
<1> HIDE DEF e
<1>3. /\ u \in Seq(Req) /\ Len(u) = Len(q) /\ DOMAIN u = DOMAIN q
      /\ \A k \in DOMAIN q : u[k] = IF k = r THEN e ELSE q[k]
  BY <1>q, <1>1, ExceptSeq
<1>4. \A k \in DOMAIN q : u[k] \in Req
  BY <1>1, <1>3, <1>q
<1>5. /\ f \in Req /\ f.cmd = u[a].cmd /\ f.done = u[a].done
      /\ f.running = u[a].running
      /\ v = 2 => f.status = "error"
  BY <1>4 DEF Req
<1> HIDE DEF f, u
<1>6. /\ t \in Seq(Req) /\ Len(t) = Len(q) /\ DOMAIN t = DOMAIN q
      /\ \A k \in DOMAIN q : t[k] = IF k = a THEN f ELSE u[k]
  <2>1. a \in 1..Len(u)
    BY <1>3, <1>q
  <2>2. /\ w \in Seq(Req) /\ Len(w) = Len(u)
        /\ \A k \in 1..Len(u) : w[k] = IF k = a THEN f ELSE u[k]
    BY <1>3, <1>5, <2>1, ExceptSeq
  <2> HIDE DEF w
  <2> QED BY <1>2, <1>3, <1>q, <2>2, LenProperties
<1>7. ASSUME NEW k \in DOMAIN q
      PROVE  /\ t[k].cmd = q[k].cmd /\ t[k].done = q[k].done
             /\ t[k].running = IF k = r THEN TRUE ELSE q[k].running
             /\ k = a /\ v = 2 => t[k].status = "error"
             /\ k # a => t[k].status = q[k].status
  <2>1. /\ t[k].cmd = u[k].cmd /\ t[k].done = u[k].done /\ t[k].running = u[k].running
        /\ k = a /\ v = 2 => t[k].status = "error"
        /\ k # a => t[k].status = u[k].status
    <3>1. CASE k = a
      BY <3>1, <1>5, <1>6
    <3>2. CASE k # a
      BY <3>2, <1>6
    <3> QED BY <3>1, <3>2
  <2>2. /\ u[k].cmd = q[k].cmd /\ u[k].done = q[k].done /\ u[k].status = q[k].status
        /\ u[k].running = IF k = r THEN TRUE ELSE q[k].running
    BY <1>1, <1>3
  <2> QED BY <2>1, <2>2
<1>8. ASSUME NEW k \in DOMAIN q PROVE t[k].running <=> (k = r \/ q[k].running)
  BY <1>7
<1> QED BY <1>6, <1>7, <1>8

LEMMA IssueSentStep == IInv /\ IssueSent => IInv'
<1> SUFFICES ASSUME IInv, IssueSent PROVE IInv'
  OBVIOUS
<1>i. /\ Typed /\ Positions /\ Order /\ Sent /\ Stages /\ Results /\ Outcomes
      /\ DriverInStep /\ SentInOrder /\ GoodMeansExecuted
  BY DEF IInv
<1> DEFINE c == queue[rp].cmd
<1>s. /\ pc = "issue" /\ rp <= Len(queue) /\ used < QueueMax
      /\ used' = used + 1 /\ sent' = Append(sent, c) /\ rp' = rp + 1
      /\ device' = IF version = 2 THEN Append(device, c) ELSE device
      /\ UNCHANGED <<version, pc, then, asked, status, replies, entered, outcome, reply,
                     handler, trouble>>
  BY DEF IssueSent, Issuing, HasRoom, caller
<1>p. /\ rp \in DOMAIN queue /\ asked \in DOMAIN queue /\ ~queue[rp].running
      /\ \A k \in DOMAIN queue : queue[k].running <=> k < rp
  BY <1>i, <1>s, IInvFacts DEF Positions
<1>q. /\ queue' \in Seq(Req) /\ Len(queue') = Len(queue) /\ DOMAIN queue' = DOMAIN queue
      /\ \A k \in DOMAIN queue :
           /\ queue'[k].cmd = queue[k].cmd /\ queue'[k].done = queue[k].done
           /\ queue'[k].running <=> (k = rp \/ queue[k].running)
           /\ k = asked /\ version = 2 => queue'[k].status = "error"
           /\ k # asked => queue'[k].status = queue[k].status
  <2>1. queue \in Seq(Req) /\ rp \in DOMAIN queue /\ asked \in DOMAIN queue
    BY <1>p, IInvFacts
  <2>2. queue' = Taken(queue, rp, asked, version)
    BY DEF IssueSent, Taken
  <2> QED BY <2>1, <2>2, SentQueue
<1>c. Clean' <=> Clean
  BY <1>s DEF Clean
<1>t. /\ c \in Cmds /\ device \in Seq(Cmds) /\ replies \in Seq(Cmds) /\ sent \in Seq(Cmds)
  BY <1>i, <1>p, IInvFacts DEF Typed, Req
<1>a. /\ sent' \in Seq(Cmds) /\ device' \in Seq(Cmds) /\ Range(sent') = Range(sent) \cup {c}
  BY <1>s, <1>t, AppendElements
<1>l. ASSUME NEW j \in DOMAIN sent'
      PROVE  sent'[j] = c \/ (j \in DOMAIN sent /\ sent'[j] = sent[j])
  <2>1. /\ DOMAIN sent = 1..Len(sent) /\ Len(sent) \in Nat
        /\ Len(sent') = Len(sent) + 1 /\ DOMAIN sent' = 1..Len(sent')
    BY <1>s, <1>t, <1>a, AppendProperties, LenProperties
  <2> QED BY <1>s, <1>t, <2>1, AppendProperties
<1>o. Clean => /\ Outstanding' = Outstanding \cup {c}
               /\ \A x \in Outstanding : x < c
  <2> SUFFICES ASSUME Clean PROVE Outstanding' = Outstanding \cup {c}
                                  /\ \A x \in Outstanding : x < c
    OBVIOUS
  <2>1. ~queue[rp].done
    BY <1>i, <1>p DEF Results
  <2>2. Outstanding' \subseteq Outstanding \cup {c}
    BY <1>s, <1>q DEF Outstanding
  <2>3. Outstanding \subseteq Outstanding'
    BY <1>s, <1>q DEF Outstanding
  <2>4. c \in Outstanding'
    BY <1>s, <1>p, <1>q, <2>1 DEF Outstanding
  <2>5. ASSUME NEW x \in Outstanding PROVE x < c
    BY <1>i, <1>p, IInvFacts DEF Outstanding, Order
  <2> QED BY <2>2, <2>3, <2>4, <2>5
<1> HIDE DEF c
<1>1. Typed'
  <2>1. /\ rp' \in 0..(MaxQueue + 1) /\ used' \in Int /\ used' <= QueueMax
        /\ Clean' /\ ~handler' => used' >= 0
    BY <1>i, <1>s, <1>c, <1>p, IInvFacts DEF Typed, TypeOK
  <2> QED BY <1>i, <1>s, <1>q, <1>a, <2>1 DEF Typed, TypeOK, Req
<1>2. Positions'
  BY <1>i, <1>s, <1>p, <1>q, IInvFacts DEF Positions
<1>3. Order'
  <2>1. ASSUME NEW j \in DOMAIN sent' PROVE sent'[j] <= entered'
    BY <1>i, <1>l, <1>s, <1>p DEF Order, c
  <2>2. ASSUME NEW j \in DOMAIN sent', NEW k \in DOMAIN queue', ~queue'[k].running
        PROVE  sent'[j] < queue'[k].cmd
    <3>1. k \in DOMAIN queue /\ k # rp /\ ~queue[k].running /\ queue'[k].cmd = queue[k].cmd
      BY <2>2, <1>q
    <3>2. rp < k
      BY <3>1, <1>p, IInvFacts
    <3> QED BY <3>1, <3>2, <1>l, <1>i, <1>p DEF Order, c
  <2> QED BY <1>i, <1>s, <1>q, <2>1, <2>2 DEF Order
<1>h. ~handler
  BY <1>i, <1>s DEF Stages
<1>4. Sent'
  <2>1. \A k \in DOMAIN queue : queue[k].running /\ (version = 3 \/ ~queue[k].done) =>
          queue[k].cmd \in Range(sent)
    BY <1>i, <1>s, <1>h DEF Sent, Failing
  <2>2. \A k \in DOMAIN queue' : queue'[k].running /\ (version' = 3 \/ ~queue'[k].done) =>
          queue'[k].cmd \in Range(sent')
    BY <2>1, <1>s, <1>q, <1>a DEF c
  <2> QED BY <2>2, <1>s DEF Sent
<1>5. Stages'
  BY <1>i, <1>s, <1>q, IInvFacts, QueueFacts DEF Stages, Waiting
<1>6. Results'
  <2> SUFFICES ASSUME Clean PROVE Results'
    BY <1>c DEF Results
  <2>1. 1 \in DOMAIN queue
    BY <1>p, IInvFacts
  <2> QED BY <1>i, <1>s, <1>q, <1>a, <2>1 DEF Results
<1>7. Outcomes'
  BY <1>i, <1>s, <1>q DEF Outcomes
<1>8. DriverInStep'
  <2>a. Agrees /\ (Agrees' => DriverInStep')
    BY <1>i, <1>s, <1>h, <1>4, AllMarked, AllMarkedNext
  <2> SUFFICES ASSUME Clean PROVE Agrees'
    BY <1>c, <2>a DEF Agrees
  <2>1. c \notin Outstanding
    BY <1>o, <1>t DEF Cmds
  <2>2. used' = Cardinality(Outstanding')
    <3>1. Cardinality(Outstanding \cup {c}) = Cardinality(Outstanding) + 1
      BY <2>1, OutstandingFacts, FS_AddElement
    <3> QED BY <2>a, <1>s, <1>o, <3>1 DEF Agrees
  <2>3. CASE version = 2
    <3> DEFINE row == replies \o device
    <3>1. row \in Seq(Cmds) /\ replies' \o device' = Append(row, c)
      BY <2>3, <1>s, <1>t, ConcatProperties, RowOfQueues
    <3>2. Range(row) = Outstanding /\ Increasing(row)
      BY <2>3, <2>a DEF Agrees
    <3> HIDE DEF row
    <3>3. \A j \in DOMAIN row : row[j] < c
      BY <3>2, <1>o DEF Range
    <3>4. Increasing(Append(row, c)) /\ Range(Append(row, c)) = Outstanding'
      BY <3>1, <3>2, <3>3, <1>o, <1>t, AppendIncreasing, AppendElements
    <3> QED BY <2>2, <2>3, <3>1, <3>4, <1>s DEF Agrees
  <2>4. CASE version = 3
    BY <2>2, <2>4, <2>a, <1>s DEF Agrees
  <2> QED BY <2>3, <2>4, <1>i DEF Typed
<1>9. SentInOrder'
  <2>1. \A j \in DOMAIN sent : sent[j] < c
    BY <1>i, <1>p DEF Order, c
  <2> QED BY <1>i, <1>s, <1>t, <2>1, AppendIncreasing DEF SentInOrder
<1>10. GoodMeansExecuted'
  BY <1>i, <1>s, <1>c, <1>a DEF GoodMeansExecuted
<1> QED BY <1>1, <1>2, <1>3, <1>4, <1>5, <1>6, <1>7, <1>8, <1>9, <1>10 DEF IInv

-----------------------------------------------------------------------------
\* The driver refuses a command for good.

\* One request of the queue changes, but not its command.
LEMMA ChangedQueue ==
  ASSUME NEW q \in Seq(Req), NEW r \in DOMAIN q, NEW e \in Req, e.cmd = q[r].cmd
  PROVE  LET t == [q EXCEPT ![r] = e] IN
         /\ t \in Seq(Req) /\ Len(t) = Len(q) /\ DOMAIN t = DOMAIN q
         /\ t[r] = e
         /\ \A k \in DOMAIN q : t[k].cmd = q[k].cmd /\ (k # r => t[k] = q[k])
<1> DEFINE t == [q EXCEPT ![r] = e]
<1>q. DOMAIN q = 1..Len(q) /\ r \in 1..Len(q)
  BY QueueFacts
<1>1. /\ t \in Seq(Req) /\ Len(t) = Len(q)
      /\ \A k \in 1..Len(q) : t[k] = IF k = r THEN e ELSE q[k]
  BY <1>q, ExceptSeq
<1> HIDE DEF t
<1>2. DOMAIN t = DOMAIN q
  BY <1>1, <1>q, QueueFacts
<1>3. t[r] = e /\ \A k \in DOMAIN q : t[k].cmd = q[k].cmd /\ (k # r => t[k] = q[k])
  BY <1>1, <1>q
<1>4. /\ t \in Seq(Req) /\ Len(t) = Len(q) /\ DOMAIN t = DOMAIN q
      /\ t[r] = e
      /\ \A k \in DOMAIN q : t[k].cmd = q[k].cmd /\ (k # r => t[k] = q[k])
  BY <1>1, <1>2, <1>3
<1> QED BY <1>4 DEF t

\* A request is marked as failed, with version 3 at once and with version 2 when it
\* counts as running already.
LEMMA FailedQueue ==
  ASSUME NEW q \in Seq(Req), NEW r \in DOMAIN q, NEW t, t = [q EXCEPT ![r] = Failed(@)]
  PROVE  /\ t \in Seq(Req) /\ Len(t) = Len(q) /\ DOMAIN t = DOMAIN q
         /\ t[r].done /\ t[r].status = "error" /\ (t[r].running <=> version = 2)
         /\ \A k \in DOMAIN q : t[k].cmd = q[k].cmd /\ (k # r => t[k] = q[k])
<1> DEFINE e == Failed(q[r])
<1>1. /\ e \in Req /\ e.cmd = q[r].cmd /\ e.done = TRUE /\ e.status = "error"
      /\ e.running = (version = 2)
  <2>1. q[r] \in Req
    BY QueueFacts
  <2> QED BY <2>1 DEF Failed, Req
<1>2. t = [q EXCEPT ![r] = e]
  OBVIOUS
<1> HIDE DEF e
<1>3. /\ t \in Seq(Req) /\ Len(t) = Len(q) /\ DOMAIN t = DOMAIN q
      /\ t[r] = e
      /\ \A k \in DOMAIN q : t[k].cmd = q[k].cmd /\ (k # r => t[k] = q[k])
  BY <1>1, <1>2, ChangedQueue
<1> QED BY <1>1, <1>3

\* With version 3 the queue is spoiled.
LEMMA IssueFailsAtOnceStep == IInv /\ IssueFails /\ version = 3 => IInv'
<1> SUFFICES ASSUME IInv, IssueFails, version = 3 PROVE IInv'
  OBVIOUS
<1>i. /\ Typed /\ Positions /\ Order /\ Sent /\ Stages /\ Results /\ Outcomes
      /\ DriverInStep /\ SentInOrder /\ GoodMeansExecuted
  BY DEF IInv
<1>s. /\ pc = "issue" /\ rp <= Len(queue) /\ pc' = then
      /\ trouble' = trouble \cup {"failed"}
      /\ UNCHANGED <<version, then, asked, rp, status, used, device, replies, sent, entered,
                     outcome, reply, handler>>
  BY DEF IssueFails, Issuing, HasRoom, Return, driver, caller
<1>p. /\ rp \in DOMAIN queue /\ ~queue[rp].running
      /\ \A k \in DOMAIN queue : queue[k].running <=> k < rp
  BY <1>i, <1>s, IInvFacts DEF Positions
<1>u. queue' = [queue EXCEPT ![rp] = Failed(@)]
  BY DEF IssueFails
<1>q. /\ queue' \in Seq(Req) /\ Len(queue') = Len(queue) /\ DOMAIN queue' = DOMAIN queue
      /\ queue'[rp].done /\ queue'[rp].status = "error" /\ ~queue'[rp].running
      /\ \A k \in DOMAIN queue :
           queue'[k].cmd = queue[k].cmd /\ (k # rp => queue'[k] = queue[k])
  <2>1. queue \in Seq(Req)
    BY IInvFacts
  <2> QED BY <2>1, <1>p, <1>u, FailedQueue
<1>t. then \in {"idle", "check", "finish"} /\ ~handler
  BY <1>i, <1>s DEF Typed, TypeOK, Stages
<1>c. ~Clean'
  BY <1>s DEF Clean
<1>1. Typed'
  <2>1. trouble' \subseteq Kinds
    BY <1>i, <1>s DEF Typed, TypeOK, Kinds
  <2>2. pc' \in {"check", "finish"} => queue' # <<>>
    BY <1>i, <1>s, <1>q, IInvFacts, QueueFacts DEF Stages, Waiting
  <2> QED BY <1>i, <1>s, <1>t, <1>q, <1>c, <2>1, <2>2 DEF Typed, TypeOK, Req
<1>2. Positions'
  BY <1>i, <1>s, <1>t, <1>p, <1>q, IInvFacts DEF Positions
<1>3. Order'
  BY <1>i, <1>s, <1>p, <1>q DEF Order
<1>4. Sent'
  <2>1. \A k \in DOMAIN queue : queue[k].running => queue[k].cmd \in Range(sent)
    BY <1>i, <1>s DEF Sent, Failing
  <2>2. \A k \in DOMAIN queue' : queue'[k].running => queue'[k].cmd \in Range(sent')
    BY <2>1, <1>s, <1>q
  <2> QED BY <2>2, <1>s, <1>t DEF Sent
<1>5. Stages'
  BY <1>i, <1>s, <1>t, <1>q, IInvFacts, QueueFacts DEF Stages, Waiting
<1>6. Results' /\ DriverInStep' /\ GoodMeansExecuted'
  BY <1>c DEF Results, DriverInStep, GoodMeansExecuted
<1>7. Outcomes'
  BY <1>i, <1>s, <1>q DEF Outcomes
<1>9. SentInOrder'
  BY <1>i, <1>s DEF SentInOrder, Increasing
<1> QED BY <1>1, <1>2, <1>3, <1>4, <1>5, <1>6, <1>7, <1>9 DEF IInv

\* With version 2 the command of the failed write is outstanding without being the
\* driver's, and it is the last one.
LEMMA IssueFailsLaterStep == IInv /\ IssueFails /\ version = 2 => IInv'
<1> SUFFICES ASSUME IInv, IssueFails, version = 2 PROVE IInv'
  OBVIOUS
<1>i. /\ Typed /\ Positions /\ Order /\ Sent /\ Stages /\ Results /\ Outcomes
      /\ DriverInStep /\ SentInOrder /\ GoodMeansExecuted
  BY DEF IInv
<1>s. /\ pc = "issue" /\ rp <= Len(queue) /\ pc' = "failed"
      /\ trouble' = trouble \cup {"failed"}
      /\ UNCHANGED <<version, then, asked, rp, status, used, device, replies, sent, entered,
                     outcome, reply, handler>>
  BY DEF IssueFails, Issuing, HasRoom, driver, caller
<1>p. /\ rp \in DOMAIN queue /\ asked \in DOMAIN queue /\ ~queue[rp].running
      /\ \A k \in DOMAIN queue : queue[k].running <=> k < rp
  BY <1>i, <1>s, IInvFacts DEF Positions
<1> DEFINE c == queue[rp].cmd
           e == [queue[rp] EXCEPT !.running = TRUE]
<1>e. /\ e \in Req /\ e.cmd = c /\ e.done = queue[rp].done /\ e.status = queue[rp].status
      /\ e.running = TRUE
  BY <1>p, IInvFacts DEF Req
<1>u. queue' = [queue EXCEPT ![rp] = e]
  BY DEF IssueFails
<1> HIDE DEF e
<1>q. /\ queue' \in Seq(Req) /\ Len(queue') = Len(queue) /\ DOMAIN queue' = DOMAIN queue
      /\ queue'[rp].done = queue[rp].done /\ queue'[rp].status = queue[rp].status
      /\ queue'[rp].running
      /\ \A k \in DOMAIN queue :
           queue'[k].cmd = queue[k].cmd /\ (k # rp => queue'[k] = queue[k])
  <2>1. queue \in Seq(Req) /\ rp \in DOMAIN queue /\ e \in Req /\ e.cmd = queue[rp].cmd
    BY <1>p, <1>e, IInvFacts
  <2>2. /\ queue' \in Seq(Req) /\ Len(queue') = Len(queue) /\ DOMAIN queue' = DOMAIN queue
        /\ queue'[rp] = e
        /\ \A k \in DOMAIN queue :
             queue'[k].cmd = queue[k].cmd /\ (k # rp => queue'[k] = queue[k])
    BY <2>1, <1>u, ChangedQueue
  <2> QED BY <2>2, <1>e
<1>t. ~handler /\ c \in Cmds /\ sent \in Seq(Cmds)
  BY <1>i, <1>s, <1>p, IInvFacts DEF Typed, Stages, Req
<1>c. Clean' <=> Clean
  BY <1>s DEF Clean
<1>n. c \notin Range(sent)
  <2>1. \A j \in DOMAIN sent : sent[j] < c
    BY <1>i, <1>p DEF Order
  <2> QED BY <2>1, <1>t DEF Range, Cmds
<1>a. \A k \in DOMAIN queue : queue[k].running /\ ~queue[k].done =>
        queue[k].cmd \in Range(sent)
  BY <1>i, <1>s, <1>t DEF Sent, Failing
<1>d. Clean => ~queue[rp].done
  BY <1>i, <1>p DEF Results
<1>m. /\ pc' # "flush" /\ pc # "flush" /\ rp' = rp
      /\ \A k \in DOMAIN queue : queue'[k].running <=> k <= rp
  BY <1>s, <1>p, <1>q, IInvFacts
<1>1. Typed'
  <2>1. trouble' \subseteq Kinds
    BY <1>i, <1>s DEF Typed, TypeOK, Kinds
  <2> QED BY <1>i, <1>s, <1>q, <1>c, <2>1 DEF Typed, TypeOK, Req
<1>2. Positions'
  BY <1>i, <1>s, <1>p, <1>q, <1>m, IInvFacts DEF Positions
<1>3. Order'
  BY <1>i, <1>s, <1>p, <1>q DEF Order
<1>4. Sent'
  <2>1. \A k \in DOMAIN queue' : queue'[k].running /\ ~queue'[k].done =>
          queue'[k].cmd \in Range(sent') \/ k = rp
    BY <1>a, <1>s, <1>q
  <2>2. queue'[rp'].cmd \notin Range(sent')
    BY <1>n, <1>s, <1>p, <1>q
  <2> QED BY <2>1, <2>2, <1>s DEF Sent, Failing
<1>5. Stages'
  <2>1. queue' # <<>> /\ queue # <<>> /\ 1 \in DOMAIN queue
    BY <1>p, <1>q, IInvFacts, QueueFacts
  <2>2. queue'[1].done = queue[1].done
    BY <2>1, <1>q
  <2> QED BY <1>i, <1>s, <2>1, <2>2 DEF Stages, Waiting
<1>6. Results'
  <2> SUFFICES ASSUME Clean PROVE Results'
    BY <1>c DEF Results
  <2>1. 1 \in DOMAIN queue
    BY <1>p, IInvFacts
  <2>2. \A k \in DOMAIN queue' : queue'[k].done => queue'[k].running /\ k # rp
    BY <1>i, <1>q, <1>d DEF Results
  <2>3. handler' \/ \A k \in DOMAIN queue' : queue'[k].done =>
           queue'[k].status = "error" \/ (k = 1 /\ status' /= "none")
    BY <2>2, <1>i, <1>s, <1>q DEF Results
  <2>4. status' = "good" => reply'[queue'[1].cmd] = queue'[1].cmd
                            /\ queue'[1].cmd \in Range(sent')
    BY <1>i, <1>s, <1>q, <2>1 DEF Results
  <2> QED BY <1>s, <1>q, <1>d, <2>2, <2>3, <2>4 DEF Results
<1>7. Outcomes'
  BY <1>i, <1>s, <1>q DEF Outcomes
<1>8. DriverInStep'
  <2> SUFFICES ASSUME Clean PROVE DriverInStep'
    BY <1>c DEF DriverInStep
  <2>1. Outstanding' = Outstanding \cup {c}
    <3>1. Outstanding' \subseteq Outstanding \cup {c}
      BY <1>m, <1>q DEF Outstanding
    <3>2. Outstanding \subseteq Outstanding'
      BY <1>m, <1>q DEF Outstanding
    <3>3. c \in Outstanding'
      BY <1>m, <1>p, <1>q, <1>d DEF Outstanding
    <3> QED BY <3>1, <3>2, <3>3
  <2>2. Outstanding \subseteq Range(sent)
    BY <1>a DEF Outstanding
  <2>3. Unmarked' = {c} /\ Outstanding' \ Unmarked' = Outstanding
    BY <2>1, <2>2, <1>n, <1>s DEF Unmarked
  <2>4. \A d \in Outstanding' : d <= c
    <3>1. ASSUME NEW d \in Outstanding PROVE d <= c
      <4>1. PICK k \in DOMAIN queue : queue[k].running /\ d = queue[k].cmd
        BY DEF Outstanding
      <4>2. k < rp /\ queue[k].cmd \in Cmds
        BY <4>1, <1>p, IInvFacts DEF Req
      <4> QED BY <4>1, <4>2, <1>i, <1>p, <1>t DEF Order, Cmds
    <3> QED BY <3>1, <2>1, <1>t DEF Cmds
  <2>5. Agrees
    BY <1>i, <1>s, <1>t, AllMarked
  <2> QED BY <1>s, <2>3, <2>4, <2>5 DEF DriverInStep, Agrees, Increasing
<1>9. SentInOrder' /\ GoodMeansExecuted'
  BY <1>i, <1>s, <1>c DEF SentInOrder, GoodMeansExecuted, Increasing
<1> QED BY <1>1, <1>2, <1>3, <1>4, <1>5, <1>6, <1>7, <1>8, <1>9 DEF IInv

\* Then it is marked, and no longer outstanding.
LEMMA MarkFailedStep == IInv /\ MarkFailed => IInv'
<1> SUFFICES ASSUME IInv, MarkFailed PROVE IInv'
  OBVIOUS
<1>i. /\ Typed /\ Positions /\ Order /\ Sent /\ Stages /\ Results /\ Outcomes
      /\ DriverInStep /\ SentInOrder /\ GoodMeansExecuted
  BY DEF IInv
<1>s. /\ pc = "failed" /\ pc' = then
      /\ queue' = [queue EXCEPT ![rp] = Failed(@)]
      /\ UNCHANGED <<version, then, asked, rp, status, used, device, replies, sent, entered,
                     outcome, reply, handler, trouble>>
  BY DEF MarkFailed, Return, driver, caller
<1> DEFINE c == queue[rp].cmd
<1>p. /\ rp \in DOMAIN queue /\ version = 2 /\ c \notin Range(sent)
      /\ \A k \in DOMAIN queue : queue[k].running <=> k <= rp
  BY <1>i, <1>s DEF Positions, Sent
<1>q. /\ queue' \in Seq(Req) /\ Len(queue') = Len(queue) /\ DOMAIN queue' = DOMAIN queue
      /\ queue'[rp].done /\ queue'[rp].status = "error" /\ queue'[rp].running
      /\ \A k \in DOMAIN queue :
           queue'[k].cmd = queue[k].cmd /\ (k # rp => queue'[k] = queue[k])
  <2>1. queue \in Seq(Req)
    BY IInvFacts
  <2> QED BY <2>1, <1>p, <1>s, FailedQueue
<1>r. \A k \in DOMAIN queue : queue'[k].running <=> queue[k].running
  BY <1>p, <1>q, IInvFacts
<1>t. then \in {"idle", "check", "finish"} /\ ~handler
  BY <1>i, <1>s DEF Typed, TypeOK, Stages
<1>c. Clean' <=> Clean
  BY <1>s DEF Clean
<1>n. 1 \in DOMAIN queue /\ queue # <<>> /\ queue' # <<>>
  BY <1>p, <1>q, IInvFacts, QueueFacts
<1>a. \A k \in DOMAIN queue : queue[k].running /\ ~queue[k].done =>
        queue[k].cmd \in Range(sent) \/ k = rp
  BY <1>i, <1>s, <1>t DEF Sent, Failing
<1>1. Typed'
  BY <1>i, <1>s, <1>t, <1>q, <1>c, <1>n DEF Typed, TypeOK, Req
<1>2. Positions'
  BY <1>i, <1>s, <1>t, <1>q, <1>r DEF Positions
<1>3. Order'
  BY <1>i, <1>s, <1>q, <1>r DEF Order
<1>4. Sent'
  <2>1. \A k \in DOMAIN queue' : queue'[k].running /\ ~queue'[k].done =>
          queue'[k].cmd \in Range(sent')
    BY <1>a, <1>s, <1>q
  <2> QED BY <2>1, <1>s, <1>t, <1>p DEF Sent
<1>5. Stages'
  <2>1. queue[1].done => queue'[1].done
    BY <1>n, <1>q
  <2> QED BY <1>i, <1>s, <1>t, <1>n, <2>1 DEF Stages, Waiting
<1>6. Results'
  <2> SUFFICES ASSUME Clean PROVE Results'
    BY <1>c DEF Results
  <2>2. \A k \in DOMAIN queue' : queue'[k].done => queue'[k].running
    BY <1>i, <1>q, <1>r DEF Results
  <2>3. handler' \/ \A k \in DOMAIN queue' : queue'[k].done =>
           queue'[k].status = "error" \/ (k = 1 /\ status' /= "none")
    BY <1>i, <1>s, <1>p, <1>q DEF Results
  <2>4. status' = "good" => reply'[queue'[1].cmd] = queue'[1].cmd
                            /\ queue'[1].cmd \in Range(sent')
    BY <1>i, <1>s, <1>q, <1>n DEF Results
  <2> QED BY <1>s, <1>t, <1>p, <2>2, <2>3, <2>4 DEF Results
<1>7. Outcomes'
  BY <1>i, <1>s, <1>q DEF Outcomes
<1>8. DriverInStep'
  <2>m. pc' # "flush" /\ pc # "flush" /\ rp' = rp
    BY <1>s, <1>t
  <2>1. ASSUME NEW k \in DOMAIN queue, k # rp PROVE queue[k].cmd # c
    <3>1. queue[k].cmd \in Cmds /\ c \in Cmds /\ (k < rp \/ rp < k)
      BY <2>1, <1>p, IInvFacts DEF Req
    <3> QED BY <3>1, <1>i, <1>p DEF Order, Cmds
  <2> HIDE DEF c
  <2>2. Outstanding' \subseteq Outstanding \ {c}
    BY <2>1, <2>m, <1>q DEF Outstanding
  <2>3. Outstanding \ {c} \subseteq Outstanding'
    BY <2>m, <1>q DEF Outstanding, c
  <2>4. Outstanding' = Outstanding \ {c}
    BY <2>2, <2>3
  <2>5. Outstanding \ {c} \subseteq Range(sent)
    BY <1>a DEF Outstanding, c
  <2>6. Outstanding \ Unmarked = Outstanding \ {c}
    BY <2>5, <1>p DEF Unmarked, c
  <2>7. Agrees' => DriverInStep'
    BY <1>4, <1>s, <1>t, AllMarkedNext
  <2> QED BY <1>i, <1>s, <1>t, <1>c, <2>4, <2>6, <2>7 DEF DriverInStep, Agrees, Increasing
<1>9. SentInOrder' /\ GoodMeansExecuted'
  BY <1>i, <1>s, <1>c DEF SentInOrder, GoodMeansExecuted, Increasing
<1> QED BY <1>1, <1>2, <1>3, <1>4, <1>5, <1>6, <1>7, <1>8, <1>9 DEF IInv

-----------------------------------------------------------------------------
\* A command is entered behind the others.
LEMMA EnterStep == IInv /\ Enter => IInv'
<1> SUFFICES ASSUME IInv, Enter PROVE IInv'
  OBVIOUS
<1>i. /\ Typed /\ Positions /\ Order /\ Sent /\ Stages /\ Results /\ Outcomes
      /\ DriverInStep /\ SentInOrder /\ GoodMeansExecuted
  BY DEF IInv
<1> DEFINE new == [cmd |-> entered + 1, running |-> FALSE, done |-> FALSE, status |-> "good"]
           n == Len(queue) + 1
<1>s. /\ pc = "idle" /\ Len(queue) < MaxQueue /\ entered < MaxCmds
      /\ entered' = entered + 1 /\ queue' = Append(queue, new)
      /\ CallIssue(queue', Len(queue'), "idle")
      /\ UNCHANGED <<version, status, used, device, replies, sent, outcome, reply, handler,
                     trouble>>
  BY DEF Enter, driver
<1>e. /\ entered \in Nat /\ new \in Req /\ new.cmd = entered + 1
      /\ ~new.running /\ ~new.done /\ new.status = "good"
  BY <1>i, <1>s DEF Typed, Req, Cmds
<1> HIDE DEF new
<1>q. /\ queue' \in Seq(Req) /\ Len(queue') = n /\ DOMAIN queue' = 1..n
      /\ \A k \in DOMAIN queue : k \in DOMAIN queue' /\ queue'[k] = queue[k]
      /\ n \in DOMAIN queue' /\ n \notin DOMAIN queue /\ n \in Nat \ {0}
      /\ \A k \in DOMAIN queue' : k \in DOMAIN queue \/ k = n
      /\ \A k \in DOMAIN queue : k < n
      /\ queue'[n] = new
  <2>1. queue \in Seq(Req) /\ Len(queue) \in Nat /\ DOMAIN queue = 1..Len(queue)
    BY IInvFacts
  <2>2. /\ queue' \in Seq(Req) /\ Len(queue') = n /\ queue'[n] = new
        /\ \A k \in 1..Len(queue) : queue'[k] = queue[k]
    BY <1>s, <1>e, <2>1, AppendProperties
  <2> QED BY <2>1, <2>2, LenProperties
<1> HIDE DEF n
<1>f. \A j, k \in DOMAIN queue' : j < k /\ queue'[k].running => queue'[j].running
  BY <1>i, <1>e, <1>q, IInvFacts DEF Positions
<1>p. /\ pc' = "issue" /\ then' = "idle" /\ asked' = n
      /\ rp' \in 1..(n + 1)
      /\ \A k \in DOMAIN queue' : queue'[k].running <=> k < rp'
  <2>1. CallIssue(queue', n, "idle")
    BY <1>s, <1>q
  <2>2. queue' \in Seq(Req) /\ n \in Nat \ {0}
    BY <1>q
  <2>3. \/ n > Len(queue')
        \/ /\ pc' = "issue" /\ then' = "idle" /\ asked' = n
           /\ rp' \in 1..(Len(queue') + 1)
           /\ \A k \in DOMAIN queue' : queue'[k].running <=> k < rp'
    BY <2>1, <2>2, <1>f, CallIssueCases
  <2> QED BY <2>3, <1>q
<1>c. Clean' <=> Clean
  BY <1>s DEF Clean
<1>n. status = "none" /\ ~handler
  BY <1>i, <1>s DEF Stages
<1>1. Typed'
  <2>1. n \in 0..MaxQueue
    BY <1>s, IInvFacts DEF n
  <2>2. asked' \in 0..MaxQueue /\ rp' \in 0..(MaxQueue + 1) /\ entered' \in 0..MaxCmds
    BY <1>s, <1>e, <1>p, <2>1
  <2> QED BY <1>i, <1>s, <1>q, <1>p, <1>c, <2>1, <2>2 DEF Typed, TypeOK, Req
<1>2. Positions'
  BY <1>p, <1>q, <1>f DEF Positions
<1>3. Order'
  <2>1. \A k \in DOMAIN queue : queue[k].cmd \in Nat /\ queue[k].cmd < entered + 1
    BY <1>i, <1>e, IInvFacts DEF Order, Req, Cmds
  <2>2. \A j \in DOMAIN sent : sent[j] \in Nat /\ sent[j] < entered + 1
    BY <1>i, <1>e, LenProperties DEF Order, Typed, Cmds
  <2>3. \A j, k \in DOMAIN queue' : j < k => queue'[j].cmd < queue'[k].cmd
    BY <1>i, <1>e, <1>q, <2>1, IInvFacts DEF Order
  <2>4. /\ \A k \in DOMAIN queue' : queue'[k].cmd <= entered'
        /\ \A j \in DOMAIN sent' : sent'[j] <= entered'
    BY <1>s, <1>e, <1>q, <2>1, <2>2
  <2>5. \A j \in DOMAIN sent', k \in DOMAIN queue' :
           ~queue'[k].running => sent'[j] < queue'[k].cmd
    BY <1>i, <1>s, <1>e, <1>q, <2>2 DEF Order
  <2> QED BY <2>3, <2>4, <2>5 DEF Order
<1>4. Sent'
  <2>1. \A k \in DOMAIN queue : queue[k].running /\ (version = 3 \/ ~queue[k].done) =>
          queue[k].cmd \in Range(sent)
    BY <1>i, <1>s, <1>n DEF Sent, Failing
  <2>2. \A k \in DOMAIN queue' : queue'[k].running /\ (version' = 3 \/ ~queue'[k].done) =>
          queue'[k].cmd \in Range(sent')
    BY <2>1, <1>s, <1>e, <1>q
  <2> QED BY <2>2, <1>p DEF Sent
<1>5. Stages'
  BY <1>i, <1>s, <1>p, <1>n DEF Stages, Waiting
<1>6. Results'
  BY <1>i, <1>s, <1>e, <1>q, <1>p, <1>n, <1>c DEF Results
<1>7. Outcomes'
  <2>1. entered + 1 \in Cmds
    BY <1>e, <1>s DEF Cmds
  <2>2. outcome[entered + 1] = "none"
    BY <1>i, <1>e, <2>1 DEF Outcomes
  <2> QED BY <1>i, <1>s, <1>e, <1>q, <2>2 DEF Outcomes, Cmds
<1>8. DriverInStep'
  <2>1. Outstanding' = Outstanding
    BY <1>s, <1>e, <1>q, <1>p DEF Outstanding
  <2> QED BY <1>i, <1>s, <1>c, <2>1 DEF DriverInStep, Increasing, Unmarked
<1>9. SentInOrder' /\ GoodMeansExecuted'
  BY <1>i, <1>s, <1>c DEF SentInOrder, GoodMeansExecuted, Increasing
<1> QED BY <1>1, <1>2, <1>3, <1>4, <1>5, <1>6, <1>7, <1>8, <1>9 DEF IInv

-----------------------------------------------------------------------------
\* A result.

\* What has to hold of a result that spoils nothing: the command ran, its result
\* left the row of the driver, and "good" comes with its own.
TakesItsResult(result) ==
  /\ trouble \subseteq trouble' /\ trouble' \subseteq Kinds
  /\ replies' \in Seq(Cmds) /\ reply' \in [Cmds -> 0..MaxCmds]
  /\ \A x \in Cmds : x # queue[1].cmd => reply'[x] = reply[x]
  /\ Clean' => /\ queue[1].running
               /\ IF version = 2
                  THEN /\ Range(replies' \o device) = Outstanding \ {queue[1].cmd}
                       /\ Increasing(replies' \o device)
                  ELSE replies' \o device = <<>>
               /\ result = "good" => reply'[queue[1].cmd] = queue[1].cmd

\* Then the head can be done, with that result as its status.
LEMMA CompleteStep ==
  ASSUME IInv, pc = "read", NEW result \in {"good", "error"}, Complete(result),
         version' = version, TakesItsResult(result)
  PROVE  IInv'
<1>i. /\ Typed /\ Positions /\ Order /\ Sent /\ Stages /\ Results /\ Outcomes
      /\ DriverInStep /\ SentInOrder /\ GoodMeansExecuted
  BY DEF IInv
<1> DEFINE m == queue[1].cmd
           e == [queue[1] EXCEPT !.done = TRUE]
<1>s. /\ used' = used - 1 /\ status' = result /\ CallIssue(queue', 2, "finish")
      /\ UNCHANGED <<version, device, sent, entered, outcome, handler>>
  BY DEF Complete
<1>u. queue' = [queue EXCEPT ![1] = e]
  BY DEF Complete
<1>n. 1 \in DOMAIN queue /\ ~queue[1].done /\ ~handler /\ status = "none" /\ m \in Cmds
  BY <1>i, IInvFacts DEF Stages, Waiting, Req
<1>e. /\ e \in Req /\ e.cmd = m /\ e.done = TRUE
      /\ e.running = queue[1].running /\ e.status = queue[1].status
  BY <1>n, IInvFacts DEF Req
<1>h. /\ replies' \in Seq(Cmds) /\ reply' \in [Cmds -> 0..MaxCmds]
      /\ \A x \in Cmds : x # m => reply'[x] = reply[x]
  BY DEF TakesItsResult
<1>x. trouble \subseteq trouble' /\ trouble' \subseteq Kinds
  BY DEF TakesItsResult
<1>y. Clean' => queue[1].running /\ (result = "good" => reply'[m] = m)
  BY DEF TakesItsResult
<1> HIDE DEF e
<1>q. /\ queue' \in Seq(Req) /\ Len(queue') = Len(queue) /\ DOMAIN queue' = DOMAIN queue
      /\ queue'[1].done /\ queue'[1].running = queue[1].running
      /\ \A k \in DOMAIN queue :
           queue'[k].cmd = queue[k].cmd /\ (k # 1 => queue'[k] = queue[k])
  <2>1. queue \in Seq(Req) /\ 1 \in DOMAIN queue /\ e \in Req /\ e.cmd = queue[1].cmd
    BY <1>n, <1>e, IInvFacts
  <2>2. /\ queue' \in Seq(Req) /\ Len(queue') = Len(queue) /\ DOMAIN queue' = DOMAIN queue
        /\ queue'[1] = e
        /\ \A k \in DOMAIN queue :
             queue'[k].cmd = queue[k].cmd /\ (k # 1 => queue'[k] = queue[k])
    BY <2>1, <1>u, ChangedQueue
  <2> QED BY <2>2, <1>e
<1>r. \A k \in DOMAIN queue : queue'[k].running = queue[k].running
  BY <1>q
<1>f. \A j, k \in DOMAIN queue' : j < k /\ queue'[k].running => queue'[j].running
  BY <1>i, <1>q, <1>r DEF Positions
<1>p. \/ pc' = "finish" /\ UNCHANGED <<then, asked, rp>>
      \/ /\ pc' = "issue" /\ then' = "finish" /\ asked' \in DOMAIN queue
         /\ rp' \in 1..(Len(queue) + 1)
         /\ \A k \in DOMAIN queue' : queue'[k].running <=> k < rp'
  <2>1. queue' \in Seq(Req) /\ 2 \in Nat \ {0} /\ CallIssue(queue', 2, "finish")
    BY <1>q, <1>s
  <2>2. \/ pc' = "finish" /\ UNCHANGED <<then, asked, rp>>
        \/ /\ 2 \in DOMAIN queue' /\ pc' = "issue" /\ then' = "finish" /\ asked' = 2
           /\ rp' \in 1..(Len(queue') + 1)
           /\ \A k \in DOMAIN queue' : queue'[k].running <=> k < rp'
    BY <2>1, <1>f, CallIssueCases
  <2> QED BY <2>2, <1>q
<1>c. Clean' => Clean
  BY <1>x, CleanBefore
<1>m. Clean' => m \in Outstanding
  BY <1>n, <1>y, FirstIsLeast
<1>o. Outstanding' = Outstanding \ {m}
  <2>1. ASSUME NEW k \in DOMAIN queue
        PROVE  (queue'[k].running /\ ~queue'[k].done)
                 <=> (queue[k].running /\ ~queue[k].done /\ queue[k].cmd /= m)
    <3>1. CASE k = 1
      BY <3>1, <1>q
    <3>2. CASE k # 1
      <4>1. m < queue[k].cmd
        BY <3>2, <1>i, <1>n, IInvFacts DEF Order
      <4>2. queue[k].cmd \in Cmds
        BY IInvFacts DEF Req
      <4>3. queue[k].cmd /= m
        BY <4>1, <4>2, <1>n DEF Cmds
      <4> QED BY <3>2, <4>3, <1>q
    <3> QED BY <3>1, <3>2
  <2>2. pc' # "flush"
    BY <1>p
  <2> HIDE DEF m
  <2>3. Outstanding' \subseteq Outstanding \ {m}
    BY <2>1, <2>2, <1>q DEF Outstanding
  <2>4. Outstanding \ {m} \subseteq Outstanding'
    BY <2>1, <2>2, <1>q DEF Outstanding
  <2> QED BY <2>3, <2>4
<1>k. Clean' => used' = Cardinality(Outstanding')
  <2>1. Clean' => Cardinality(Outstanding \ {m}) = Cardinality(Outstanding) - 1
    BY <1>m, OutstandingFacts, FS_RemoveElement
  <2>2. Clean' => used = Cardinality(Outstanding)
    BY <1>i, <1>n, <1>c, AllMarked DEF Agrees
  <2> QED BY <1>s, <1>o, <2>1, <2>2
<1>1. Typed'
  <2>1. /\ asked' \in 0..MaxQueue /\ rp' \in 0..(MaxQueue + 1)
        /\ pc' \in {"issue", "finish"} /\ then' \in {"idle", "check", "finish"}
    BY <1>i, <1>p, IInvFacts DEF Typed, TypeOK
  <2>2. used' \in Int /\ used' <= QueueMax
    <3>1. used \in Int /\ used <= QueueMax
      BY <1>i DEF Typed, TypeOK
    <3> QED BY <3>1, <1>s
  <2>3. Clean' => used' >= 0
    <3>1. Clean' => Cardinality(Outstanding) >= 1
      BY <1>m, OutstandingFacts, FS_EmptySet
    <3>2. Clean' => used = Cardinality(Outstanding)
      BY <1>i, <1>n, <1>c, AllMarked DEF Agrees
    <3>3. used \in Int
      BY <1>i DEF Typed
    <3> QED BY <3>1, <3>2, <3>3, <1>s
  <2>4. queue' # <<>>
    BY <1>q, <1>n, QueueFacts
  <2> QED BY <1>i, <1>s, <1>q, <1>h, <1>x, <2>1, <2>2, <2>3, <2>4 DEF Typed, TypeOK, Req
<1>2. Positions'
  BY <1>p, <1>q, <1>f DEF Positions
<1>3. Order'
  BY <1>i, <1>s, <1>q, <1>r DEF Order
<1>4. Sent'
  <2>1. \A k \in DOMAIN queue : ~queue'[k].done => ~queue[k].done
    BY <1>q
  <2>2. \A k \in DOMAIN queue : queue[k].running /\ (version = 3 \/ ~queue[k].done) =>
          queue[k].cmd \in Range(sent)
    BY <1>i, <1>n DEF Sent, Failing
  <2>3. \A k \in DOMAIN queue' : queue'[k].running /\ (version' = 3 \/ ~queue'[k].done) =>
          queue'[k].cmd \in Range(sent')
    BY <2>1, <2>2, <1>s, <1>q, <1>r
  <2> QED BY <2>3, <1>p DEF Sent
<1>5. Stages'
  BY <1>i, <1>s, <1>p, <1>q, <1>n, QueueFacts DEF Stages, Waiting
<1>6. Results'
  <2> SUFFICES ASSUME Clean' PROVE Results'
    BY DEF Results
  <2>1. \A k \in DOMAIN queue' : queue'[k].done => queue'[k].running
    BY <1>c, <1>y, <1>i, <1>q, <1>r DEF Results
  <2>2. \A k \in DOMAIN queue' : queue'[k].done =>
           (version' = 2 /\ queue'[k].status = "error") \/ (k = 1 /\ status' /= "none")
    BY <1>c, <1>i, <1>s, <1>q, <1>n DEF Results
  <2>3. status' = "good" => reply'[queue'[1].cmd] = queue'[1].cmd
                            /\ queue'[1].cmd \in Range(sent')
    BY <1>i, <1>s, <1>q, <1>n, <1>y DEF Sent, Failing
  <2> QED BY <1>p, <2>1, <2>2, <2>3 DEF Results
<1>7. Outcomes'
  BY <1>i, <1>s, <1>q DEF Outcomes
<1>8. DriverInStep'
  <2>1. Agrees' => DriverInStep'
    BY <1>4, <1>s, <1>p, <1>n, AllMarkedNext
  <2> QED BY <2>1, <1>s, <1>o, <1>k DEF Agrees, TakesItsResult
<1>9. SentInOrder'
  BY <1>i, <1>s DEF SentInOrder, Increasing
<1>10. GoodMeansExecuted'
  <2>1. outcome[m] = "none"
    BY <1>i, <1>n DEF Outcomes
  <2> QED BY <2>1, <1>i, <1>s, <1>c, <1>h DEF GoodMeansExecuted
<1> QED BY <1>1, <1>2, <1>3, <1>4, <1>5, <1>6, <1>7, <1>8, <1>9, <1>10 DEF IInv

\* A result that is there belongs to the head: something is outstanding, so the
\* head, which is not done, runs, and it is the first outstanding.
LEMMA WaitReadStep == IInv /\ WaitRead => IInv'
<1> SUFFICES ASSUME IInv, WaitRead PROVE IInv'
  OBVIOUS
<1>i. /\ Typed /\ Positions /\ Order /\ Sent /\ Stages /\ Results /\ Outcomes
      /\ DriverInStep /\ SentInOrder /\ GoodMeansExecuted
  BY DEF IInv
<1> DEFINE m == queue[1].cmd
<1>1. PICK result \in {"good", "error"} : Complete(result)
  BY DEF WaitRead
<1>s. /\ pc = "read" /\ version = 2 /\ replies /= <<>> /\ replies' = Tail(replies)
      /\ reply' = [reply EXCEPT ![m] = Head(replies)]
      /\ UNCHANGED <<trouble, version, device>>
  BY <1>1 DEF WaitRead, Complete
<1>n. 1 \in DOMAIN queue /\ ~queue[1].done /\ m \in Cmds
  BY <1>i, <1>s, IInvFacts DEF Stages, Waiting, Req
<1>t. /\ replies \in Seq(Cmds) /\ device \in Seq(Cmds)
      /\ Head(replies) \in Cmds /\ Tail(replies) \in Seq(Cmds)
      /\ reply \in [Cmds -> 0..MaxCmds] /\ trouble \subseteq Kinds
  BY <1>i, <1>s, HeadTailProperties DEF Typed, TypeOK
<1>c. Clean' <=> Clean
  BY <1>s DEF Clean
<1>r. Clean => queue[1].running
  <2> SUFFICES ASSUME Clean PROVE queue[1].running
    OBVIOUS
  <2>1. Head(replies) \in Range(replies \o device)
    <3>1. Head(replies) \in Range(replies)
      BY <1>s, <1>t, LenProperties, EmptySeq DEF Range
    <3> QED BY <3>1, <1>t, RangeConcatenation
  <2>2. Head(replies) \in Outstanding
    BY <2>1, <1>i, <1>s DEF DriverInStep, Unmarked
  <2>3. PICK k \in DOMAIN queue : queue[k].running
    BY <2>2 DEF Outstanding
  <2> QED BY <2>3, <1>i, <1>n, IInvFacts DEF Positions
<1>2. Clean => /\ Head(replies) = m
               /\ Range(Tail(replies) \o device) = Outstanding \ {m}
               /\ Increasing(Tail(replies) \o device)
  <2> SUFFICES ASSUME Clean PROVE /\ Head(replies) = m
                                  /\ Range(Tail(replies) \o device) = Outstanding \ {m}
                                  /\ Increasing(Tail(replies) \o device)
    OBVIOUS
  <2>1. m \in Outstanding /\ \A x \in Outstanding : m <= x
    BY <1>n, <1>r, <1>s, FirstIsLeast
  <2>2. ~handler
    BY <1>i, <1>s DEF Stages
  <2>3. Unmarked = {}
    BY <2>2, <1>i, <1>s, AllMarked
  <2>4. (Outstanding \ Unmarked) \ {m} = Outstanding \ {m}
    BY <2>3
  <2> HIDE DEF m
  <2>5. /\ Head(replies) = m
        /\ Range(Tail(replies) \o device) = (Outstanding \ Unmarked) \ {m}
        /\ Increasing(Tail(replies) \o device)
    BY <2>1, <1>s, NextReply
  <2> QED BY <2>4, <2>5
<1>3. TakesItsResult(result)
  <2>1. reply' \in [Cmds -> 0..MaxCmds] /\ reply'[m] = Head(replies)
        /\ \A x \in Cmds : x # m => reply'[x] = reply[x]
    BY <1>s, <1>t, <1>n DEF Cmds
  <2> QED BY <1>s, <1>t, <1>c, <1>r, <1>2, <2>1 DEF TakesItsResult
<1> QED BY <1>1, <1>3, <1>s, CompleteStep

\* No result, which spoils the queue.
LEMMA WaitReadFailsStep == IInv /\ WaitReadFails => IInv'
<1> SUFFICES ASSUME IInv, WaitReadFails PROVE IInv'
  OBVIOUS
<1>i. Typed
  BY DEF IInv
<1>s. /\ pc = "read" /\ version = 2 /\ Complete("error") /\ version' = version
      /\ trouble' = trouble \cup {"late"} /\ UNCHANGED <<replies, reply>>
  BY DEF WaitReadFails, Complete
<1>1. ~Clean'
  BY <1>s DEF Clean
<1>2. TakesItsResult("error")
  BY <1>i, <1>s, <1>1 DEF TakesItsResult, Typed, TypeOK, Kinds
<1> QED BY <1>s, <1>2, CompleteStep

\* With version 3 the head runs when nothing is spoiled, and the result is in it.
LEMMA WaitResultStep == IInv /\ WaitResult => IInv'
<1> SUFFICES ASSUME IInv, WaitResult PROVE IInv'
  OBVIOUS
<1>i. /\ Typed /\ Positions /\ Order /\ Sent /\ Stages /\ Results /\ Outcomes
      /\ DriverInStep /\ SentInOrder /\ GoodMeansExecuted
  BY DEF IInv
<1> DEFINE m == queue[1].cmd
<1>1. PICK result \in {"good", "error"} : Complete(result)
  BY DEF WaitResult
<1>s. /\ pc = "read" /\ version = 3 /\ version' = version
      /\ reply' = [reply EXCEPT ![m] = IF queue[1].running THEN m ELSE 0]
      /\ UNCHANGED <<replies, trouble, device>>
  BY <1>1 DEF WaitResult, Complete
<1>n. 1 \in DOMAIN queue /\ m \in Cmds
  BY <1>i, <1>s, IInvFacts DEF Stages, Waiting, Req
<1>c. Clean' <=> Clean
  BY <1>s DEF Clean
<1>r. Clean => queue[1].running /\ replies \o device = <<>>
  BY <1>i, <1>s DEF Results, DriverInStep, Unmarked
<1>2. /\ reply' \in [Cmds -> 0..MaxCmds] /\ (queue[1].running => reply'[m] = m)
      /\ \A x \in Cmds : x # m => reply'[x] = reply[x]
  BY <1>i, <1>s, <1>n DEF Typed, TypeOK, Cmds
<1>3. TakesItsResult(result)
  BY <1>i, <1>s, <1>c, <1>r, <1>2 DEF TakesItsResult, Typed, TypeOK
<1> QED BY <1>1, <1>3, <1>s, CompleteStep

\* sanei_scsi_req_wait returns the status it has, or else the one in the request,
\* which then is that of a failed command.
LEMMA WaitFinishStep == IInv /\ WaitFinish => IInv'
<1> SUFFICES ASSUME IInv, WaitFinish PROVE IInv'
  OBVIOUS
<1>i. /\ Typed /\ Positions /\ Order /\ Sent /\ Stages /\ Results /\ Outcomes
      /\ DriverInStep /\ SentInOrder /\ GoodMeansExecuted
  BY DEF IInv
<1> DEFINE m == queue[1].cmd
           result == IF status = "none" THEN queue[1].status ELSE status
<1>s. /\ pc = "finish" /\ pc' = "idle" /\ status' = "none" /\ queue' = Tail(queue)
      /\ outcome' = [outcome EXCEPT ![m] = result]
      /\ reply' = IF status = "none" /\ version = 3 /\ queue[1].running
                  THEN [reply EXCEPT ![m] = m] ELSE reply
      /\ UNCHANGED <<version, then, asked, rp, used, device, replies, sent, entered, handler,
                     trouble>>
  BY DEF WaitFinish, driver
<1>n. 1 \in DOMAIN queue /\ queue # <<>> /\ queue[1].done /\ ~handler /\ queue[1] \in Req
      /\ m \in Cmds
  BY <1>i, <1>s, IInvFacts DEF Stages, Waiting, Req
<1>c. Clean' <=> Clean
  BY <1>s DEF Clean
<1>q. /\ queue' \in Seq(Req) /\ Len(queue') = Len(queue) - 1
      /\ \A k \in DOMAIN queue' : /\ k + 1 \in DOMAIN queue /\ k + 1 # 1
                                 /\ queue'[k] = queue[k + 1]
      /\ \A k \in DOMAIN queue : k # 1 => /\ k - 1 \in DOMAIN queue'
                                        /\ queue'[k - 1] = queue[k]
  <2>1. queue \in Seq(Req) /\ Len(queue) \in Nat /\ DOMAIN queue = 1..Len(queue)
    BY IInvFacts
  <2>2. /\ queue' \in Seq(Req) /\ Len(queue') = Len(queue) - 1
        /\ \A k \in 1..Len(queue') : queue'[k] = queue[k + 1]
    BY <1>s, <1>n, <2>1, HeadTailProperties
  <2>3. DOMAIN queue' = 1..(Len(queue) - 1)
    BY <2>2, LenProperties
  <2>4. \A k \in DOMAIN queue' : k + 1 \in DOMAIN queue /\ k + 1 # 1 /\ queue'[k] = queue[k + 1]
    BY <2>1, <2>2, <2>3
  <2>5. ASSUME NEW k \in DOMAIN queue, k # 1
        PROVE  k - 1 \in DOMAIN queue' /\ queue'[k - 1] = queue[k]
    <3>1. k - 1 \in 1..(Len(queue) - 1) /\ (k - 1) + 1 = k
      BY <2>1, <2>5
    <3> QED BY <2>2, <2>3, <3>1
  <2> QED BY <2>2, <2>4, <2>5
<1>d. DOMAIN queue' \subseteq Nat
  BY <1>q, LenProperties
<1>m. \A k \in DOMAIN queue' : queue'[k].cmd \in Cmds /\ m < queue'[k].cmd
  <2> TAKE k \in DOMAIN queue'
  <2>1. k + 1 \in DOMAIN queue /\ 1 < k + 1 /\ queue'[k] = queue[k + 1]
    BY <1>q, <1>d, IInvFacts
  <2> QED BY <2>1, <1>i, <1>n, IInvFacts DEF Order, Req
<1>r. result \in {"good", "error"}
  BY <1>i, <1>n DEF Typed, TypeOK, Req
<1>o. outcome'[m] = result /\ \A x \in Cmds : x # m => outcome'[x] = outcome[x]
  BY <1>i, <1>s, <1>n DEF Typed, TypeOK
<1>p. /\ reply' \in [Cmds -> 0..MaxCmds] /\ (status # "none" => reply' = reply)
      /\ \A x \in Cmds : x # m => reply'[x] = reply[x]
  <2>1. reply \in [Cmds -> 0..MaxCmds] /\ m \in 0..MaxCmds
    BY <1>i, <1>n DEF Typed, TypeOK, Cmds
  <2>2. CASE status = "none" /\ version = 3 /\ queue[1].running
    BY <1>s, <1>n, <2>1, <2>2
  <2>3. CASE ~(status = "none" /\ version = 3 /\ queue[1].running)
    BY <1>s, <2>1, <2>3
  <2> QED BY <2>2, <2>3
<1> HIDE DEF m, result
<1>1. Typed'
  <2>1. outcome' \in [Cmds -> {"none", "good", "error"}]
    BY <1>i, <1>s, <1>r DEF Typed, TypeOK
  <2>2. Len(queue') <= MaxQueue
    BY <1>q, IInvFacts
  <2> QED BY <1>i, <1>s, <1>q, <1>c, <1>p, <2>1, <2>2 DEF Typed, TypeOK, Req
<1>2. Positions'
  BY <1>i, <1>s, <1>q, <1>d, IInvFacts DEF Positions
<1>3. Order'
  BY <1>i, <1>s, <1>q, <1>d, IInvFacts DEF Order
<1>4. Sent'
  BY <1>i, <1>s, <1>q DEF Sent, Failing
<1>5. Stages'
  BY <1>i, <1>s, <1>n DEF Stages, Waiting
<1>6. Results'
  BY <1>i, <1>s, <1>q, <1>n, <1>c DEF Results
<1>7. Outcomes'
  <2>1. ASSUME NEW x \in Cmds, x > entered PROVE outcome'[x] = "none"
    <3>1. m <= entered
      BY <1>i, <1>n DEF Order, m
    <3>2. x # m
      BY <2>1, <3>1, <1>i, <1>n DEF Typed, Cmds
    <3> QED BY <2>1, <3>2, <1>i, <1>o DEF Outcomes
  <2>2. ASSUME NEW k \in DOMAIN queue' PROVE outcome'[queue'[k].cmd] = "none"
    <3>1. queue'[k].cmd # m /\ queue'[k].cmd \in Cmds
      BY <1>m, <1>n DEF Cmds
    <3> QED BY <3>1, <1>i, <1>o, <1>q DEF Outcomes
  <2> QED BY <1>s, <2>1, <2>2 DEF Outcomes
<1>8. DriverInStep'
  <2>1. Outstanding' \subseteq Outstanding
    BY <1>s, <1>q DEF Outstanding
  <2>2. ASSUME NEW x \in Outstanding PROVE x \in Outstanding'
    <3>1. PICK k \in DOMAIN queue : queue[k].running /\ ~queue[k].done /\ x = queue[k].cmd
      BY DEF Outstanding
    <3>2. k - 1 \in DOMAIN queue' /\ queue'[k - 1] = queue[k]
      BY <3>1, <1>n, <1>q
    <3> QED BY <3>1, <3>2, <1>s DEF Outstanding
  <2>3. Outstanding' = Outstanding
    BY <2>1, <2>2
  <2> QED BY <1>i, <1>s, <1>c, <2>3 DEF DriverInStep, Increasing, Unmarked
<1>9. SentInOrder'
  BY <1>i, <1>s DEF SentInOrder, Increasing
<1>10. GoodMeansExecuted'
  <2>1. Clean /\ result = "good" => status = "good"
    BY <1>i, <1>n DEF Results, result
  <2>2. Clean /\ status = "good" => reply[m] = m /\ m \in Range(sent)
    BY <1>i, <1>s DEF Results, m
  <2> QED BY <2>1, <2>2, <1>i, <1>s, <1>c, <1>o, <1>p DEF GoodMeansExecuted
<1> QED BY <1>1, <1>2, <1>3, <1>4, <1>5, <1>6, <1>7, <1>8, <1>9, <1>10 DEF IInv

-----------------------------------------------------------------------------
LEMMA StepIInv == IInv /\ [Next]_vars => IInv'
<1> SUFFICES ASSUME IInv, [Next]_vars PROVE IInv'
  OBVIOUS
<1>1. CASE UNCHANGED vars
  <2>i. /\ Typed /\ Positions /\ Order /\ Sent /\ Stages /\ Results /\ Outcomes
        /\ DriverInStep /\ SentInOrder /\ GoodMeansExecuted
    BY DEF IInv
  <2>s. UNCHANGED <<version, pc, then, asked, rp, status, queue, used, device, replies, sent,
                    entered, outcome, reply, handler, trouble>>
    BY <1>1 DEF vars, library, driver, caller
  <2>c. (Clean' <=> Clean) /\ Outstanding' = Outstanding
    BY <2>s DEF Clean, Outstanding
  <2>1. Typed'
    BY <2>i, <2>s, <2>c DEF Typed, TypeOK
  <2>2. Positions' /\ Order' /\ Sent' /\ Outcomes'
    BY <2>i, <2>s DEF Positions, Order, Sent, Outcomes, Failing
  <2>3. Stages' /\ Results'
    BY <2>i, <2>s, <2>c DEF Stages, Waiting, Results
  <2>4. DriverInStep' /\ SentInOrder' /\ GoodMeansExecuted'
    BY <2>i, <2>s, <2>c DEF DriverInStep, SentInOrder, Increasing, GoodMeansExecuted, Unmarked
  <2> QED BY <2>1, <2>2, <2>3, <2>4 DEF IInv
<1>v. version \in {2, 3}
  BY DEF IInv, Typed
<1>2. CASE Library
  BY <1>2, <1>v, IssueEndStep, IssueSentStep, IssueRefusedStep, IssueFailsAtOnceStep,
     IssueFailsLaterStep, MarkFailedStep, WaitCheckStep,
     WaitReadStep, WaitResultStep, WaitFinishStep, FlushSkipStep, FlushTakeStep, FlushEndStep
  DEF Library
<1>3. CASE Next /\ ~Library
  BY <1>1, <1>3, EnterStep, WaitStep, FlushStartStep, WaitReadFailsStep, DriverFinishStep
  DEF Next, Ended
<1> QED BY <1>1, <1>2, <1>3

\* The invariant holds in every reachable state, for every depth of the queue.
THEOREM Invariance == Spec => []IInv
<1>1. Init => IInv
  BY InitIInv
<1>2. IInv /\ [Next]_vars => IInv'
  BY StepIInv
<1> QED BY <1>1, <1>2, PTL DEF Spec

\* The types; in particular sg_queue_used never exceeds what the host adapter
\* takes and, as long as nothing is spoiled, never falls below zero.
THEOREM TypeCorrect == Spec => []TypeOK
<1>1. IInv => TypeOK
  BY DEF IInv, Typed
<1> QED BY <1>1, Invariance, PTL

\* Queue, driver and sg_queue_used agree at every step, also in the middle of a
\* flush, wherever SIGTERM started it.  The one exception, the version 2 write that
\* failed and is not marked yet, is named: its request counts as running and is none
\* of the driver's, and a flush that meets it polls in vain.
THEOREM QueueAndDriverAgree == Spec => []DriverInStep
<1>1. IInv => DriverInStep
  BY DEF IInv
<1> QED BY <1>1, Invariance, PTL

\* Commands reach the device in the order of entry and none twice, whatever goes
\* wrong.
THEOREM CommandsInOrder == Spec => []SentInOrder
<1>1. IInv => SentInOrder
  BY DEF IInv
<1> QED BY <1>1, Invariance, PTL

\* Unless something spoiled the queue, sanei_scsi_req_wait says "good" only of a
\* command that was carried out, by its own result.
THEOREM GoodIsTrue == Spec => []GoodMeansExecuted
<1>1. IInv => GoodMeansExecuted
  BY DEF IInv
<1> QED BY <1>1, Invariance, PTL
=============================================================================
