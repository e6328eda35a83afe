----------------------------- MODULE ShmChannel -----------------------------
(***************************************************************************)
(* backend/gt68xx_shm_channel.c: a channel from a forked writer process to *)
(* the reader process (the SANE frontend) made of buf_count shared memory  *)
(* buffers and of two pipes that carry one-byte buffer identifiers,        *)
(* "this buffer is free" to the writer and "this buffer is filled" to the  *)
(* reader.  The specification starts after shm_channel_new() and fork().   *)
(*                                                                         *)
(* Both processes are driven as the comments of the functions ask: the     *)
(* writer repeats writer_get_buffer, fill, writer_put_buffer; the reader   *)
(* repeats reader_get_buffer, use, reader_put_buffer.  A process can die   *)
(* between any two steps, and the kernel then closes its descriptors.      *)
(***************************************************************************)
EXTENDS Naturals, Sequences, FiniteSets, Functions

CONSTANTS BufCount,     \* buf_count
          BufSize,      \* buf_size
          Data,         \* what a buffer can be filled with
          NoData,       \* the contents of a buffer never filled
          PipeCapacity  \* identifiers a pipe holds before write() blocks

\* shm_channel_new() refuses other counts; a Linux pipe holds 64 KiB, so no
\* write of an identifier can block if every identifier is in one place.
ASSUME BufCountAssumption == BufCount \in 1..255
ASSUME BufSizeAssumption  == BufSize \in Nat \ {0}
ASSUME NoDataAssumption   == NoData \notin Data
ASSUME CapacityAssumption == PipeCapacity \in Nat /\ PipeCapacity >= BufCount

VARIABLES
  openW, openR,         \* descriptors open in the writer, in the reader
  reader_put_pipe,      \* identifiers of free buffers, on their way
  writer_put_pipe,      \* identifiers of filled buffers, on their way
  buffers,              \* shared memory: the contents of each buffer
  buffer_bytes,         \* shared memory: the byte count of each buffer
  pcW, idW, bytesW,     \* the writer: next step, buffer held, bytes to announce
  pcR, idR, bytesR,     \* the reader: next step, buffer held, bytes announced
  issued,               \* loop variable i of shm_channel_reader_start
  out                   \* what the reader took from the last buffer

writerVars == <<pcW, idW, bytesW, openW>>
readerVars == <<pcR, idR, bytesR, openR, issued, out>>
memVars    == <<buffers, buffer_bytes>>
vars == <<writerVars, readerVars, memVars, reader_put_pipe, writer_put_pipe>>

Ids  == 0..(BufCount - 1)
NoId == BufCount          \* *buffer_id_return = -1, or a buffer given back

\* The four descriptors: [0] is the reading end, [1] the writing end.
WriterPut0 == "writer_put_pipe[0]"
WriterPut1 == "writer_put_pipe[1]"
ReaderPut0 == "reader_put_pipe[0]"
ReaderPut1 == "reader_put_pipe[1]"
Fds == {WriterPut0, WriterPut1, ReaderPut0, ReaderPut1}

\* read() on an empty pipe returns 0 once nobody can write it, and write()
\* raises SIGPIPE once nobody can read it.
IsOpen(fd) == fd \in openW \cup openR

Init ==
  /\ openW = Fds /\ openR = Fds
  /\ reader_put_pipe = <<>> /\ writer_put_pipe = <<>>
  /\ buffers = [b \in Ids |-> NoData]
  /\ buffer_bytes = [b \in Ids |-> 0]
  /\ pcW = "init" /\ idW = NoId /\ bytesW = 0
  /\ pcR = "init" /\ idR = NoId /\ bytesR = 0
  /\ issued = 0
  /\ out = <<NoData, 0>>

-----------------------------------------------------------------------------
\* The writer process.

\* _exit(), SIGKILL or SIGPIPE: the kernel closes what the process had open.
\* A buffer it held is never seen again.
WriterGone == pcW' = "gone" /\ openW' = {} /\ UNCHANGED <<idW, bytesW>>

WriterInitKeepsPut1 ==    \* a faulty variant of the next action
  /\ pcW = "init"
  /\ openW' = openW \ {WriterPut0}
  /\ pcW' = "get"
  /\ UNCHANGED <<idW, bytesW, readerVars, memVars,
                 reader_put_pipe, writer_put_pipe>>

WriterInit ==
  /\ pcW = "init"
  /\ openW' = openW \ {WriterPut0, ReaderPut1}
  /\ pcW' = "get"
  /\ UNCHANGED <<idW, bytesW, readerVars, memVars,
                 reader_put_pipe, writer_put_pipe>>

WriterGetBuffer ==
  /\ pcW = "get"
  /\ reader_put_pipe /= <<>>
  /\ Head(reader_put_pipe) < BufCount
  /\ idW' = Head(reader_put_pipe)
  /\ reader_put_pipe' = Tail(reader_put_pipe)
  /\ pcW' = "fill"
  /\ UNCHANGED <<bytesW, openW, readerVars, memVars, writer_put_pipe>>

\* read() returned 0: SANE_STATUS_EOF, and the writer process ends.
WriterGetEof ==
  /\ pcW = "get"
  /\ reader_put_pipe = <<>>
  /\ ~IsOpen(ReaderPut1)
  /\ WriterGone
  /\ UNCHANGED <<readerVars, memVars, reader_put_pipe, writer_put_pipe>>

\* The owner stores n bytes d at buffer_addr.
WriterFill(d, n) ==
  /\ pcW = "fill"
  /\ buffers' = [buffers EXCEPT ![idW] = d]
  /\ bytesW' = n
  /\ pcW' = "put"
  /\ UNCHANGED <<idW, openW, buffer_bytes, readerVars,
                 reader_put_pipe, writer_put_pipe>>

\* shm_channel_writer_put_buffer, in two steps: the count goes to shared
\* memory, then the identifier goes down the pipe.
WriterPutBytesNowhere ==    \* a faulty variant of the next action
  /\ pcW = "put"
  /\ pcW' = "send"
  /\ UNCHANGED <<idW, bytesW, openW, memVars, readerVars,
                 reader_put_pipe, writer_put_pipe>>
WriterPutBytes ==
  /\ pcW = "put"
  /\ buffer_bytes' = [buffer_bytes EXCEPT ![idW] = bytesW]
  /\ pcW' = "send"
  /\ UNCHANGED <<idW, bytesW, openW, buffers, readerVars,
                 reader_put_pipe, writer_put_pipe>>

\* A faulty variant of the next action: an interrupted write is done again.
WriterPutIdAgain ==
  /\ pcW = "send"
  /\ IsOpen(WriterPut0) /\ Len(writer_put_pipe) < PipeCapacity
  /\ writer_put_pipe' = Append(writer_put_pipe, idW)
  /\ \/ idW' = NoId /\ pcW' = "get"
     \/ UNCHANGED <<idW, pcW>>
  /\ UNCHANGED <<bytesW, openW, readerVars, memVars, reader_put_pipe>>

WriterPutId ==
  /\ pcW = "send"
  /\ IF IsOpen(WriterPut0)
     THEN /\ Len(writer_put_pipe) < PipeCapacity
          /\ writer_put_pipe' = Append(writer_put_pipe, idW)
          /\ idW' = NoId
          /\ pcW' = "get"
          /\ UNCHANGED <<bytesW, openW>>
     ELSE WriterGone /\ UNCHANGED writer_put_pipe
  /\ UNCHANGED <<readerVars, memVars, reader_put_pipe>>

\* shm_channel_writer_close, called between two buffers.
WriterClose ==
  /\ pcW = "get"
  /\ openW' = openW \ {WriterPut1}
  /\ pcW' = "closed"
  /\ UNCHANGED <<idW, bytesW, readerVars, memVars,
                 reader_put_pipe, writer_put_pipe>>

WriterExit ==
  /\ pcW = "closed"
  /\ WriterGone
  /\ UNCHANGED <<readerVars, memVars, reader_put_pipe, writer_put_pipe>>

WriterDie ==
  /\ pcW \notin {"gone", "closed"}
  /\ WriterGone
  /\ UNCHANGED <<readerVars, memVars, reader_put_pipe, writer_put_pipe>>

-----------------------------------------------------------------------------
\* The reader process.

ReaderInitClosesPut0 ==    \* faulty variants of the next action
  /\ pcR = "init"
  /\ openR' = openR \ {WriterPut1, ReaderPut0}
  /\ pcR' = "start"
  /\ UNCHANGED <<idR, bytesR, issued, out, writerVars, memVars,
                 reader_put_pipe, writer_put_pipe>>
ReaderInitKeepsPut1 ==
  /\ pcR = "init"
  /\ pcR' = "start"
  /\ UNCHANGED <<openR, idR, bytesR, issued, out, writerVars, memVars,
                 reader_put_pipe, writer_put_pipe>>

ReaderInit ==
  /\ pcR = "init"
  /\ openR' = openR \ {WriterPut1}
  /\ pcR' = "start"
  /\ UNCHANGED <<idR, bytesR, issued, out, writerVars, memVars,
                 reader_put_pipe, writer_put_pipe>>

\* write() of one identifier to the writer: it is queued, or the frontend is
\* killed by SIGPIPE.
SendFree(b, next) ==
  IF IsOpen(ReaderPut0)
  THEN /\ Len(reader_put_pipe) < PipeCapacity
       /\ reader_put_pipe' = Append(reader_put_pipe, b)
       /\ pcR' = next
       /\ UNCHANGED openR
  ELSE pcR' = "sigpipe" /\ openR' = {} /\ UNCHANGED reader_put_pipe

ReaderStartOneTooMany ==    \* a faulty variant of the next action
  /\ pcR = "start"
  /\ issued <= BufCount
  /\ SendFree(issued, IF issued < BufCount THEN "start" ELSE "get")
  /\ issued' = issued + 1
  /\ UNCHANGED <<idR, bytesR, out, writerVars, memVars, writer_put_pipe>>

\* One round of the loop of shm_channel_reader_start.
ReaderStart ==
  /\ pcR = "start"
  /\ issued < BufCount
  /\ SendFree(issued, IF issued + 1 < BufCount THEN "start" ELSE "get")
  /\ issued' = issued + 1
  /\ UNCHANGED <<idR, bytesR, out, writerVars, memVars, writer_put_pipe>>

ReaderGetBuffer ==
  /\ pcR = "get"
  /\ writer_put_pipe /= <<>>
  /\ Head(writer_put_pipe) < BufCount
  /\ idR' = Head(writer_put_pipe)
  /\ bytesR' = buffer_bytes[Head(writer_put_pipe)]
  /\ writer_put_pipe' = Tail(writer_put_pipe)
  /\ pcR' = "use"
  /\ UNCHANGED <<openR, issued, out, writerVars, memVars, reader_put_pipe>>

\* read() returned 0: SANE_STATUS_EOF.
ReaderGetEof ==
  /\ pcR = "get"
  /\ writer_put_pipe = <<>>
  /\ ~IsOpen(WriterPut1)
  /\ pcR' = "eof"
  /\ UNCHANGED <<idR, bytesR, openR, issued, out, writerVars, memVars,
                 reader_put_pipe, writer_put_pipe>>

\* The caller copies the buffer out before it gives it back.
ReaderUse ==
  /\ pcR = "use"
  /\ out' = <<buffers[idR], bytesR>>
  /\ pcR' = "put"
  /\ UNCHANGED <<idR, bytesR, openR, issued, writerVars, memVars,
                 reader_put_pipe, writer_put_pipe>>

ReaderPutBuffer ==
  /\ pcR = "put"
  /\ SendFree(idR, "get")
  /\ idR' = NoId
  /\ UNCHANGED <<bytesR, issued, out, writerVars, memVars, writer_put_pipe>>

\* shm_channel_free between two buffers, or the end of the process.
ReaderFree ==
  /\ pcR \in {"get", "eof"}
  /\ pcR' = "gone" /\ openR' = {}
  /\ UNCHANGED <<idR, bytesR, issued, out, writerVars, memVars,
                 reader_put_pipe, writer_put_pipe>>

ReaderDie ==
  /\ pcR \in {"init", "start", "use", "put"}
  /\ pcR' = "gone" /\ openR' = {}
  /\ UNCHANGED <<idR, bytesR, issued, out, writerVars, memVars,
                 reader_put_pipe, writer_put_pipe>>

-----------------------------------------------------------------------------
WriterStep ==
  \/ WriterInit
  \/ WriterGetBuffer
  \/ WriterGetEof
  \/ \E d \in Data, n \in 1..BufSize : WriterFill(d, n)
  \/ WriterPutBytes
  \/ WriterPutId
  \/ WriterExit

ReaderStep ==
  \/ ReaderInit
  \/ ReaderStart
  \/ ReaderGetBuffer
  \/ ReaderGetEof
  \/ ReaderUse
  \/ ReaderPutBuffer

\* Both processes have ended: the only state without a next step.
BothEnded == pcW = "gone" /\ pcR \in {"gone", "sigpipe"} /\ UNCHANGED vars

Next == \/ WriterStep \/ WriterClose \/ WriterDie
        \/ ReaderStep \/ ReaderFree \/ ReaderDie
        \/ BothEnded

\* Each process keeps running until it blocks; closing, dying and freeing the
\* channel are never owed.
Fairness == WF_vars(WriterStep) /\ WF_vars(ReaderStep)

Spec == Init /\ [][Next]_vars
FairSpec == Spec /\ Fairness

-----------------------------------------------------------------------------
\* Type invariant of the two processes, the pipes and the shared memory: every
\* identifier that travels names a buffer (shm_channel_*_get_buffer would
\* refuse another one with SANE_STATUS_IO_ERROR).
TypeOK ==
  /\ openW \in SUBSET Fds /\ openR \in SUBSET Fds
  /\ reader_put_pipe \in Seq(Ids) /\ writer_put_pipe \in Seq(Ids)
  /\ buffers \in [Ids -> Data \cup {NoData}]
  /\ buffer_bytes \in [Ids -> 0..BufSize]
  /\ pcW \in {"init", "get", "fill", "put", "send", "closed", "gone"}
  /\ idW \in Ids \cup {NoId} /\ bytesW \in 0..BufSize
  /\ pcR \in {"init", "start", "get", "use", "put", "eof", "gone", "sigpipe"}
  /\ idR \in Ids \cup {NoId} /\ bytesR \in 0..BufSize
  /\ issued \in 0..BufCount
  /\ out \in (Data \cup {NoData}) \X (0..BufSize)

\* Where the identifiers are.
Unissued == issued..(BufCount - 1)
Free     == Range(reader_put_pipe)
Filled   == Range(writer_put_pipe)
HeldW    == {idW} \ {NoId}
HeldR    == {idR} \ {NoId}

\* Every buffer is in exactly one place: not issued yet, on its way to the
\* writer, with the writer, on its way to the reader, or with the reader.  So
\* no buffer is lost and the two processes never touch one at the same time,
\* although nothing but the identifiers in the pipes synchronises them.
Ownership ==
  /\ IsInjective(reader_put_pipe) /\ IsInjective(writer_put_pipe)
  /\ Unissued \cup Free \cup HeldW \cup Filled \cup HeldR = Ids
  /\ Unissued \cap (Free \cup HeldW \cup Filled \cup HeldR) = {}
  /\ Free \cap (HeldW \cup Filled \cup HeldR) = {}
  /\ HeldW \cap (Filled \cup HeldR) = {}
  /\ Filled \cap HeldR = {}

\* The frontend is never killed by SIGPIPE when the writer dies early: the
\* comment in shm_channel_reader_init says why reader_put_pipe[0] stays open.
ReaderNeverSigpipe == pcR /= "sigpipe"

\* The channel is a bounded FIFO: what the frontend copies out of a buffer is
\* what the writer put, unchanged and in order, and end of file comes last.
InTransit == (IF pcR = "use" THEN <<idR>> ELSE <<>>) \o writer_put_pipe
Message(b) == <<buffers[b], buffer_bytes[b]>>
FifoReading == CASE pcR \in {"gone", "sigpipe"} -> "no"
                 [] pcR = "eof" -> "end"
                 [] OTHER -> "yes"
Fifo == INSTANCE BoundedFifo WITH
          Item    <- Data \X (1..BufSize),
          N       <- BufCount,
          NoItem  <- <<NoData, 0>>,
          queue   <- [i \in DOMAIN InTransit |-> Message(InTransit[i])],
          reading <- FifoReading,
          writing <- pcW \notin {"closed", "gone"}
FifoSpec == Fifo!Spec

\* What makes Ownership, ReaderNeverSigpipe and FifoSpec inductive: a process
\* holds a buffer exactly between getting and putting one;
Holding ==
  /\ pcW \in {"fill", "put", "send"} => idW /= NoId
  /\ pcW \in {"init", "get", "closed"} => idW = NoId
  /\ pcR \in {"use", "put"} => idR /= NoId
  /\ pcR \in {"init", "start", "get", "eof"} => idR = NoId
\* a live process keeps open the descriptors its peer depends on;
Descriptors ==
  /\ pcR \notin {"gone", "sigpipe"} => ReaderPut0 \in openR
  /\ pcW \notin {"closed", "gone"} => WriterPut1 \in openW
\* and a filled buffer keeps its contents until it is copied out.
Contents ==
  /\ pcW \in {"put", "send"} => buffers[idW] \in Data /\ bytesW \in 1..BufSize
  /\ pcW = "send" => buffer_bytes[idW] = bytesW
  /\ \A b \in Filled : buffers[b] \in Data /\ buffer_bytes[b] \in 1..BufSize
  /\ pcR = "use" => /\ buffers[idR] \in Data
                    /\ bytesR \in 1..BufSize
                    /\ buffer_bytes[idR] = bytesR

IInv == /\ TypeOK /\ Ownership /\ ReaderNeverSigpipe
        /\ Holding /\ Descriptors /\ Contents

\* The frontend does not wait for ever on a writer process that ended,
\* whatever it was doing when it did (reader_get_buffer returns EOF).
ReaderSeesTheEnd == pcW = "gone" ~> pcR \in {"eof", "gone"}

\* A writer process does not outlive its reader for ever.
WriterNotStranded == pcR = "gone" ~> pcW = "gone"
=============================================================================
