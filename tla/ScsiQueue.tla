------------------------------ MODULE ScsiQueue ------------------------------
(***************************************************************************)
(* The command queue of sanei_scsi.c on Linux, for one open device: a      *)
(* backend's reader enters commands and waits for them in the same order,  *)
(* issue() hands to the sg driver as many as it takes, and a flush, called *)
(* by the reader or by its SIGTERM handler at any point where the code     *)
(* does not block signals (the ATOMIC sections), takes back the rest.      *)
(*                                                                         *)
(* Drivers before version 3 take a command by write() and give its result  *)
(* by read(), in the order in which they took them; version 3 carries it   *)
(* out within ioctl(SG_IO).  A command is a number, its data are left out, *)
(* and so is the list of free request structures.                          *)
(***************************************************************************)
EXTENDS Integers, Sequences, FiniteSets, Functions

CONSTANTS QueueMax,   \* sg_queue_max, the depth the host adapter reports
          MaxQueue,   \* bound: requests a backend has in the queue
          MaxCmds     \* bound: commands entered

ASSUME ScsiAssumption ==
  QueueMax \in Nat \ {0} /\ MaxQueue \in Nat \ {0} /\ MaxCmds \in Nat

VARIABLES
  version,   \* sg_version: 2 or 3
  pc,        \* "idle", "issue", "failed", "check", "read", "finish", "flush", "exited"
  then,      \* where issue() returns to
  asked, rp, \* issue(): positions in the queue of req and rp; flush: rp is req
  queue,     \* sane_qhead ... sane_qtail
  used,      \* sg_queue_used
  status,    \* of sanei_scsi_req_wait; "none": it takes the request's own
  device,    \* commands the driver has and has not finished
  replies,   \* commands it has finished and nobody has read
  entered,   \* commands entered so far
  sent,      \* commands the driver took, in that order
  outcome,   \* what sanei_scsi_req_wait returned for each
  reply,     \* the command whose result it then had
  handler,   \* the flush is the one of the SIGTERM handler
  trouble    \* what has gone wrong so far

library == <<pc, then, asked, rp, status>>
driver  == <<device, replies, sent>>
caller  == <<entered, outcome, reply>>
vars    == <<version, library, queue, used, driver, caller, handler, trouble>>

Cmds  == 1..MaxCmds
\* "refused": the driver has no room for the command at the head, 20 times;
\* "failed": it returns an error; "late": a result is not there when the
\* library stops waiting for it, or cannot be read.
Kinds == {"refused", "failed", "late"}

Init ==
  /\ version \in {2, 3}
  /\ pc = "idle" /\ then = "idle" /\ asked = 0 /\ rp = 0 /\ status = "none"
  /\ queue = <<>> /\ used = 0
  /\ device = <<>> /\ replies = <<>> /\ sent = <<>>
  /\ entered = 0
  /\ outcome = [c \in Cmds |-> "none"] /\ reply = [c \in Cmds |-> 0]
  /\ handler = FALSE /\ trouble = {}

-----------------------------------------------------------------------------
\* issue(req): from the first request that is not running on, one after the
\* other while the driver has room.

\* A faulty variant: issue() starts with its own request.
FirstIdleOwn(q, req) == req
FirstIdle(q, req) ==
  CHOOSE k \in 1..(Len(q) + 1) :
    /\ \A j \in 1..(k - 1) : q[j].running
    /\ k <= Len(q) => ~q[k].running

CallIssue(q, req, back) ==
  IF req > Len(q)    \* no such request
  THEN pc' = back /\ UNCHANGED <<then, asked, rp>>
  ELSE pc' = "issue" /\ then' = back /\ asked' = req /\ rp' = FirstIdle(q, req)

HasRoomForOneMore == rp <= Len(queue) /\ used <= QueueMax    \* a faulty variant
HasRoom == rp <= Len(queue) /\ used < QueueMax
Issuing == pc = "issue" /\ HasRoom
Return  == pc' = then /\ UNCHANGED <<then, asked, rp, status>>

IssueEnd ==
  /\ pc = "issue" /\ ~HasRoom
  /\ Return
  /\ UNCHANGED <<version, queue, used, driver, caller, handler, trouble>>

\* The status that is set is the one of req, whichever command was taken.
IssueSent ==
  /\ Issuing
  /\ queue' = [queue EXCEPT ![rp].running = TRUE,
                            ![asked].status = IF version = 2 THEN "error" ELSE "good"]
  /\ used' = used + 1
  /\ sent' = Append(sent, queue[rp].cmd)
  /\ device' = IF version = 2 THEN Append(device, queue[rp].cmd) ELSE device
  /\ rp' = rp + 1
  /\ UNCHANGED <<version, pc, then, asked, status, replies, caller, handler, trouble>>

\* EAGAIN, or ENOMEM behind the head: it is left for the next call of issue().
IssueRefused ==
  /\ Issuing
  /\ trouble' = IF rp = 1 THEN trouble \cup {"refused"} ELSE trouble
  /\ Return
  /\ UNCHANGED <<version, queue, used, driver, caller, handler>>

\* Any other error.  With version 3 the request is done and not running, in the
\* section of the ioctl, and the next call of issue() comes to it again.  With
\* version 2 it stays running, and is marked as done behind the section of the
\* write: SIGTERM may come in between.
FailedAgain(req) ==    \* a faulty variant
  [req EXCEPT !.running = FALSE, !.done = TRUE, !.status = "error"]
Failed(req) ==
  [req EXCEPT !.running = (version = 2), !.done = TRUE, !.status = "error"]
IssueFails ==
  /\ Issuing
  /\ trouble' = trouble \cup {"failed"}
  /\ IF version = 2
     THEN /\ queue' = [queue EXCEPT ![rp].running = TRUE]
          /\ pc' = "failed" /\ UNCHANGED <<then, asked, rp, status>>
     ELSE queue' = [queue EXCEPT ![rp] = Failed(@)] /\ Return
  /\ UNCHANGED <<version, used, driver, caller, handler>>
MarkFailed ==
  /\ pc = "failed"
  /\ queue' = [queue EXCEPT ![rp] = Failed(@)]
  /\ Return
  /\ UNCHANGED <<version, used, driver, caller, handler, trouble>>

-----------------------------------------------------------------------------
\* sanei_scsi_req_enter2; when malloc fails it changes nothing.
Enter ==
  LET req == [cmd |-> entered + 1, running |-> FALSE, done |-> FALSE, status |-> "good"]
      q   == Append(queue, req)
  IN  /\ pc = "idle" /\ Len(queue) < MaxQueue /\ entered < MaxCmds
      /\ entered' = entered + 1
      /\ queue' = q
      /\ CallIssue(q, Len(q), "idle")
      /\ UNCHANGED <<version, status, used, driver, outcome, reply, handler, trouble>>

\* sanei_scsi_req_wait, which asserts that its request is the first.
\* A faulty variant: it does not ensure that the command is running.
WaitUnissued ==
  /\ pc = "idle" /\ queue /= <<>>
  /\ pc' = "check"
  /\ UNCHANGED <<version, then, asked, rp, status, queue, used, driver, caller, handler,
                 trouble>>
Wait ==
  /\ pc = "idle" /\ queue /= <<>>
  /\ CallIssue(queue, 1, "check")
  /\ UNCHANGED <<version, status, queue, used, driver, caller, handler, trouble>>

WaitCheck ==
  /\ pc = "check"
  /\ IF queue[1].done THEN CallIssue(queue, 2, "finish")
     ELSE pc' = "read" /\ UNCHANGED <<then, asked, rp>>
  /\ UNCHANGED <<version, status, queue, used, driver, caller, handler, trouble>>

\* The request is done; the driver may have room for the next.
Complete(result) ==
  LET q == [queue EXCEPT ![1].done = TRUE]
  IN  /\ queue' = q /\ used' = used - 1
      /\ status' = result
      /\ CallIssue(q, 2, "finish")
      /\ UNCHANGED <<version, device, sent, entered, outcome, handler>>

\* select() found something to read, and whatever it is is taken for the result.
WaitRead ==
  /\ pc = "read" /\ version = 2 /\ replies /= <<>>
  /\ \E result \in {"good", "error"} : Complete(result)
  /\ reply' = [reply EXCEPT ![queue[1].cmd] = Head(replies)]
  /\ replies' = Tail(replies)
  /\ UNCHANGED trouble
\* read() fails, or a signal ended select(): the result, if it comes, stays there.
WaitReadFails ==
  /\ pc = "read" /\ version = 2
  /\ Complete("error")
  /\ trouble' = trouble \cup {"late"}
  /\ UNCHANGED <<replies, reply>>

\* Version 3: the result is in the request, or the zeros it was prepared with.
WaitResult ==
  LET c == queue[1].cmd
  IN  /\ pc = "read" /\ version = 3
      /\ \E result \in (IF queue[1].running THEN {"good", "error"} ELSE {"good"}) :
           Complete(result)
      /\ reply' = [reply EXCEPT ![c] = IF queue[1].running THEN c ELSE 0]
      /\ UNCHANGED <<replies, trouble>>

WaitFinish ==
  LET req == queue[1]
  IN  /\ pc = "finish"
      /\ outcome' = [outcome EXCEPT ![req.cmd] = IF status = "none" THEN req.status ELSE status]
      /\ reply' = IF status = "none" /\ version = 3 /\ req.running
                  THEN [reply EXCEPT ![req.cmd] = req.cmd] ELSE reply
      /\ status' = "none"
      /\ queue' = Tail(queue)
      /\ pc' = "idle"
      /\ UNCHANGED <<version, then, asked, rp, used, driver, entered, handler, trouble>>

-----------------------------------------------------------------------------
\* sanei_scsi_req_flush_all_extended.

Flush ==
  /\ pc = "idle" /\ queue /= <<>>
  /\ pc' = "flush" /\ rp' = 1
  /\ UNCHANGED <<version, then, asked, status, queue, used, driver, caller, handler, trouble>>

\* SIGTERM in the reader process, between any two ATOMIC sections.  The backends
\* that flush by themselves have no handler that flushes.  sg_queue_used changes
\* behind the sections, here with them: in the handler's flush it may be one off,
\* and nobody looks at it any more.
Sigterm ==
  /\ pc \notin {"flush", "exited"}
  /\ pc' = "flush" /\ rp' = 1 /\ handler' = TRUE
  /\ UNCHANGED <<version, then, asked, status, queue, used, driver, caller, trouble>>

\* A faulty variant: only the commands not yet issued are skipped.
PendingIfIssued(req) == req.running
Pending(req) == req.running /\ ~req.done
Flushing == pc = "flush" /\ rp <= Len(queue)
\* The rest of a flush step, after it has or has not read a result.
FlushNext == /\ rp' = rp + 1
             /\ UNCHANGED <<version, pc, then, asked, status, queue, device, sent, caller,
                            handler>>

FlushSkip ==
  /\ Flushing /\ ~Pending(queue[rp])
  /\ FlushNext
  /\ UNCHANGED <<used, replies, trouble>>
FlushRead ==
  /\ Flushing /\ Pending(queue[rp]) /\ version = 2 /\ replies /= <<>>
  /\ replies' = Tail(replies) /\ used' = used - 1
  /\ FlushNext
  /\ UNCHANGED trouble
\* No result within sane_scsicmd_timeout, or an error.  There never is one to read
\* with version 3, nor for a command whose write failed and that was not marked.
FlushGivesUp ==
  /\ Flushing /\ Pending(queue[rp])
  /\ used' = used - 1
  /\ trouble' = IF version = 2 /\ queue[rp].cmd \in Range(sent)
                THEN trouble \cup {"late"} ELSE trouble
  /\ FlushNext
  /\ UNCHANGED replies
FlushEnd ==
  /\ pc = "flush" /\ rp > Len(queue)
  /\ queue' = <<>>
  /\ pc' = IF handler THEN "exited" ELSE "idle"
  /\ UNCHANGED <<version, then, asked, rp, status, used, driver, caller, handler, trouble>>

-----------------------------------------------------------------------------
\* The driver finishes the command it took first.
DriverFinish ==
  /\ device /= <<>>
  /\ replies' = Append(replies, Head(device)) /\ device' = Tail(device)
  /\ UNCHANGED <<version, library, queue, used, sent, caller, handler, trouble>>

Library == \/ IssueEnd \/ IssueSent \/ IssueRefused \/ IssueFails \/ MarkFailed
           \/ WaitCheck \/ WaitRead \/ WaitResult \/ WaitFinish
           \/ FlushSkip \/ FlushRead \/ FlushGivesUp \/ FlushEnd
Ended == pc = "exited" /\ UNCHANGED vars
Next == \/ Enter \/ Wait \/ Flush \/ Sigterm \/ Library \/ WaitReadFails
        \/ DriverFinish \/ Ended

Spec == Init /\ [][Next]_vars
\* A call the backend made goes on, and the driver finishes what it took.
FairSpec == Spec /\ WF_vars(Library) /\ WF_vars(DriverFinish)

-----------------------------------------------------------------------------
\* What spoils the queue for the commands that follow.
Clean == trouble \cap (IF version = 2 THEN {"late"} ELSE {"refused", "failed"}) = {}

\* sg_queue_used stays within the depth of the driver's queue.  It is the library's
\* own count: after a late result the driver may hold more.
TypeOK ==
  /\ pc \in {"idle", "issue", "failed", "check", "read", "finish", "flush", "exited"}
  /\ then \in {"idle", "check", "finish"}
  /\ asked \in 0..MaxQueue /\ rp \in 0..(MaxQueue + 1)
  /\ queue \in Seq([cmd : Cmds, running : BOOLEAN, done : BOOLEAN,
                    status : {"good", "error"}])
  /\ Len(queue) <= MaxQueue
  /\ pc \in {"check", "read", "finish"} => queue /= <<>>
  /\ used <= QueueMax /\ (Clean /\ ~handler => used >= 0)
  /\ status \in {"none", "good", "error"}
  /\ outcome \in [Cmds -> {"none", "good", "error"}] /\ reply \in [Cmds -> 0..MaxCmds]
  /\ trouble \subseteq Kinds

\* The commands the queue takes for running, less those a flush has passed, are
\* the ones the driver holds, in the same order (of the queue, which is the one
\* of entry), and sg_queue_used is their number; so a flush, at whatever point
\* SIGTERM comes, leaves nothing behind.  There is one exception, between a failed
\* write and its mark: the last of them is a command the driver never took, and a
\* handler that comes there waits for its result in vain.
Increasing(s) == \A j, k \in DOMAIN s : j < k => s[j] < s[k]
Outstanding ==
  LET left == {k \in DOMAIN queue : pc = "flush" => k >= rp}
  IN  {queue[k].cmd : k \in {j \in left : queue[j].running /\ ~queue[j].done}}
Unmarked == Outstanding \ Range(sent)
DriverInStep ==
  Clean => /\ ~handler => used = Cardinality(Outstanding \ Unmarked)
           /\ IF version = 2
              THEN /\ Range(replies \o device) = Outstanding \ Unmarked
                   /\ Increasing(replies \o device)
              ELSE replies \o device = <<>>
           /\ pc /= "failed" /\ ~handler => Unmarked = {}
           /\ \A c \in Unmarked : \A d \in Outstanding : d <= c

\* Commands reach the device in the order they were entered, and none twice,
\* whatever the driver refuses, fails or delays.
SentInOrder == Increasing(sent)

\* sanei_scsi_req_wait says "good" only of a command that was carried out, and
\* by its own result.
GoodMeansExecuted ==
  Clean => \A c \in Cmds : outcome[c] = "good" =>
             reply[c] = c /\ c \in Range(sent)

\* sanei_scsi_req_wait returns, unless the driver had no room for a command that
\* was the only one.
InIssue == pc \in {"issue", "failed"}
Waiting == pc \in {"check", "read", "finish"} \/ (InIssue /\ then /= "idle")
Stranded == pc = "read" /\ version = 2 /\ "refused" \in trouble /\ ~queue[1].running
WaitReturns == Waiting ~> ~Waiting \/ Stranded

\* sanei_scsi.c:2233: "ensure the command is running", before the wait that says
\* "good".  With SG_IO it does so of a command that no ioctl has taken.
EnsuredRunning ==
  \A c \in Cmds : outcome[c] = "good" => c \in Range(sent)

-----------------------------------------------------------------------------
\* What TypeOK, DriverInStep, SentInOrder and GoodMeansExecuted rest on.

Typed ==
  /\ TypeOK
  /\ version \in {2, 3} /\ used \in Int /\ entered \in 0..MaxCmds /\ handler \in BOOLEAN
  /\ device \in Seq(Cmds) /\ replies \in Seq(Cmds) /\ sent \in Seq(Cmds)

\* The requests that are running are the first of the queue, and issue() stands
\* behind the ones it found running or made running.
Positions ==
  /\ \A j, k \in DOMAIN queue : j < k /\ queue[k].running => queue[j].running
  /\ pc = "issue" => /\ asked \in DOMAIN queue /\ rp \in 1..(Len(queue) + 1)
                     /\ \A k \in DOMAIN queue : queue[k].running <=> k < rp
  /\ pc = "failed" => /\ asked \in DOMAIN queue /\ rp \in DOMAIN queue
                      /\ \A k \in DOMAIN queue : queue[k].running <=> k <= rp
  /\ pc = "flush" => rp \in 1..(Len(queue) + 1)

\* The queue is in the order of entry, and what is not running in it comes after
\* everything that was sent.
Order ==
  /\ \A j, k \in DOMAIN queue : j < k => queue[j].cmd < queue[k].cmd
  /\ \A k \in DOMAIN queue : queue[k].cmd <= entered
  /\ \A j \in DOMAIN sent : sent[j] <= entered
  /\ \A j \in DOMAIN sent, k \in DOMAIN queue : ~queue[k].running => sent[j] < queue[k].cmd

\* A request that runs was sent; one of version 2 that failed only counts as running,
\* before it is marked too.
Failing(k) ==
  /\ version = 2
  /\ \/ pc = "failed" /\ k = rp
     \/ handler /\ \A j \in DOMAIN queue : queue[j].running => j <= k
Sent ==
  /\ \A k \in DOMAIN queue :
       queue[k].running /\ (version = 3 \/ ~queue[k].done) =>
         queue[k].cmd \in Range(sent) \/ Failing(k)
  /\ pc = "failed" => version = 2 /\ queue[rp].cmd \notin Range(sent)

\* While the reader waits, its request is the first one, and it is done from the
\* moment sanei_scsi_req_wait has its status.
Stages ==
  /\ Waiting => queue /= <<>>
  /\ pc = "read" => ~queue[1].done
  /\ pc = "finish" \/ (InIssue /\ then = "finish") => queue[1].done
  /\ handler => pc \in {"flush", "exited"}
  /\ status /= "none" => handler \/ pc = "finish" \/ (InIssue /\ then = "finish")

\* As long as nothing spoiled the queue, what is done was issued, and a request
\* other than the one that is waited for is done only if it failed.
Results ==
  Clean => /\ \A k \in DOMAIN queue : queue[k].done => queue[k].running
           /\ handler \/ \A k \in DOMAIN queue : queue[k].done =>
                \/ version = 2 /\ queue[k].status = "error"
                \/ k = 1 /\ status /= "none"
           /\ pc = "failed" => ~queue[rp].done
           /\ version = 3 /\ pc \in {"check", "read"} => queue[1].running
           /\ (InIssue \/ pc = "finish") /\ status = "good" =>
                reply[queue[1].cmd] = queue[1].cmd /\ queue[1].cmd \in Range(sent)

\* Nothing is known of a command that has not been waited for.
Outcomes ==
  /\ \A c \in Cmds : c > entered => outcome[c] = "none"
  /\ \A k \in DOMAIN queue : outcome[queue[k].cmd] = "none"

IInv == /\ Typed /\ Positions /\ Order /\ Sent /\ Stages /\ Results /\ Outcomes
        /\ DriverInStep /\ SentInOrder /\ GoodMeansExecuted
=============================================================================
