----------------------------- MODULE Gt68xxRead -----------------------------
(***************************************************************************)
(* backend/gt68xx_low.c: how the gt68xx backend reads an image.  For the   *)
(* final scan gt68xx_device_read_start forks a child that moves USB data   *)
(* into the channel of ShmChannel, and gt68xx_device_read takes it out in  *)
(* pieces of any size; calibration scans read USB directly.  Parent and    *)
(* child each count down their own copy of read_bytes_left.                *)
(*                                                                         *)
(* The content of the image is abstracted to positions: byte k of the scan *)
(* is k, so a block is the position of its first byte and its length.      *)
(***************************************************************************)
EXTENDS Integers, Sequences

CONSTANTS BufCount,   \* SHM_BUFFERS
          BufSize,    \* dev->requested_buffer_size, a multiple of Pad
          Pad,        \* 64: USB transfers and buffers are multiples of it
          Expected,   \* the values of expected_count
          Requests,   \* the sizes asked of gt68xx_device_read
          SizeMod,    \* size_t is a number modulo SizeMod
          MaxScans,   \* bound: scans of one behaviour
          ShortReads  \* may a bulk read return less than it was asked for?

MaxOf(S) == CHOOSE x \in S : \A y \in S : y <= x
Lesser(a, b) == IF a < b THEN a ELSE b
RoundUp(n) == ((n + Pad - 1) \div Pad) * Pad

Positions == 0..RoundUp(MaxOf(Expected))
NoPosition == -1

ASSUME Gt68xxAssumption ==
  /\ Pad \in Nat \ {0} /\ BufSize \in Nat \ {0} /\ BufSize % Pad = 0
  /\ BufCount \in 1..255 /\ MaxScans \in Nat
  /\ Expected \subseteq Nat \ {0} /\ \E x \in Expected : \A y \in Expected : y <= x
  /\ Requests \subseteq Nat \ {0} /\ \E x \in Requests : \A y \in Requests : y <= x
  /\ SizeMod \in Nat /\ SizeMod > RoundUp(MaxOf(Expected)) /\ ShortReads \in BOOLEAN

VARIABLES openW, openR, reader_put_pipe, writer_put_pipe, buffers, buffer_bytes,
          pcW, idW, bytesW, pcR, idR, bytesR, issued, out

Channel == INSTANCE ShmChannel WITH
             Data <- Positions, NoData <- NoPosition, PipeCapacity <- BufCount

VARIABLES
  usb,         \* [at: bytes the scanner gave so far, end: bytes it has]
  left,        \* the child's read_bytes_left
  read_active, final_scan,
  shm_channel, \* dev->shm_channel is not NULL
  read_buffer_size, read_bytes_left, read_pos, read_bytes_in_buffer,
  read_buffer, \* [from, fresh]: its first byte and how many were copied last
  call,        \* gt68xx_device_read: "idle" (not running), "loop", "fetch"
  left_to_read, byte_count,
  status,      \* what the last call returned
  delivered,   \* bytes of this scan copied to the callers
  scans

channelVars == <<openW, openR, reader_put_pipe, writer_put_pipe, buffers,
                 buffer_bytes, pcW, idW, bytesW, pcR, idR, bytesR, issued, out>>
parentVars == <<read_active, final_scan, shm_channel, read_buffer_size, read_bytes_left,
                read_pos, read_bytes_in_buffer, read_buffer, call,
                left_to_read, byte_count, status, delivered, scans>>
deviceVars == <<read_active, final_scan, shm_channel, read_buffer_size, scans>>
callVars   == <<call, left_to_read, byte_count, status, delivered>>
blockVars  == <<read_bytes_left, read_pos, read_bytes_in_buffer, read_buffer>>
vars == <<channelVars, usb, left, parentVars>>

\* No channel: both ends gone.
Init ==
  /\ openW = {} /\ openR = {} /\ reader_put_pipe = <<>> /\ writer_put_pipe = <<>>
  /\ buffers = [b \in Channel!Ids |-> NoPosition]
  /\ buffer_bytes = [b \in Channel!Ids |-> 0]
  /\ pcW = "gone" /\ idW = Channel!NoId /\ bytesW = 0
  /\ pcR = "gone" /\ idR = Channel!NoId /\ bytesR = 0
  /\ issued = 0 /\ out = <<NoPosition, 0>>
  /\ usb = [at |-> 0, end |-> 0] /\ left = 0
  /\ read_active = FALSE /\ final_scan = FALSE /\ shm_channel = FALSE
  /\ read_buffer_size = 0 /\ read_bytes_left = 0
  /\ read_pos = 0 /\ read_bytes_in_buffer = 0 /\ read_buffer = [from |-> 0, fresh |-> 0]
  /\ call = "idle" /\ left_to_read = 0 /\ byte_count = 0 /\ status = "good"
  /\ delivered = 0 /\ scans = 0

-----------------------------------------------------------------------------
\* The scanner sends the image, padded or not to whole transfers.  A bulk read
\* of n bytes gives all of them, or what is left at the end.
BulkReads(n) ==
  LET most == Lesser(n, usb.end - usb.at)
  IN  IF ShortReads THEN 1..most ELSE {most} \ {0}

\* gt68xx_device_read_prepare.
ReadPrepare(expected_count, final) ==
  /\ call = "idle" /\ ~read_active /\ scans < MaxScans
  /\ scans' = scans + 1
  /\ read_buffer_size' = IF BufSize > expected_count
                         THEN RoundUp(expected_count) ELSE BufSize
  /\ read_active' = TRUE /\ final_scan' = final
  /\ read_pos' = 0 /\ read_bytes_in_buffer' = 0
  /\ read_bytes_left' = expected_count
  /\ read_buffer' = [from |-> 0, fresh |-> 0]
  /\ \E end \in {expected_count, RoundUp(expected_count)} :
       usb' = [at |-> 0, end |-> end]
  /\ delivered' = 0 /\ status' = "good"
  /\ UNCHANGED <<channelVars, left, shm_channel, call, left_to_read, byte_count>>

\* gt68xx_device_read_start_fork: shm_channel_new and fork.  A calibration scan
\* reads without it.
ReadStart ==
  /\ call = "idle" /\ read_active /\ final_scan /\ ~shm_channel
  /\ openW' = Channel!Fds /\ openR' = Channel!Fds
  /\ reader_put_pipe' = <<>> /\ writer_put_pipe' = <<>>
  /\ buffers' = [b \in Channel!Ids |-> NoPosition]
  /\ buffer_bytes' = [b \in Channel!Ids |-> 0]
  /\ pcW' = "init" /\ idW' = Channel!NoId /\ bytesW' = 0
  /\ pcR' = "init" /\ idR' = Channel!NoId /\ bytesR' = 0
  /\ issued' = 0 /\ out' = <<NoPosition, 0>>
  /\ left' = read_bytes_left
  /\ shm_channel' = TRUE
  /\ UNCHANGED <<usb, read_active, final_scan, read_buffer_size, scans, callVars,
                 blockVars>>

\* The parent's part of read_start_fork: shm_channel_reader_init and
\* shm_channel_reader_start, before it returns.
ReadStarting ==
  /\ Channel!ReaderInit \/ Channel!ReaderStart
  /\ UNCHANGED <<usb, left, parentVars>>

\* gt68xx_device_read(size) is called.
Read(size) ==
  /\ call = "idle" /\ read_active
  /\ final_scan => shm_channel /\ pcR \in {"get", "eof"}
  /\ call' = "loop" /\ left_to_read' = size /\ byte_count' = 0
  /\ UNCHANGED <<channelVars, usb, left, deviceVars, blockVars, status, delivered>>

BlockSizeUncapped == read_buffer_size    \* a faulty variant
BlockSize == Lesser(read_buffer_size, read_bytes_left)
NeedsBlock == /\ call = "loop" /\ left_to_read > 0
              /\ read_bytes_in_buffer = 0 /\ BlockSize > 0

\* shm_channel_reader_get_buffer, the memcpy, shm_channel_reader_put_buffer.
FetchGet ==
  /\ NeedsBlock /\ shm_channel
  /\ Channel!ReaderGetBuffer
  /\ call' = "fetch"
  /\ UNCHANGED <<usb, left, deviceVars, blockVars, left_to_read, byte_count,
                 status, delivered>>

FetchCopy ==
  /\ call = "fetch"
  /\ Channel!ReaderUse
  /\ read_buffer' = [from |-> buffers[idR], fresh |-> bytesR]
  /\ UNCHANGED <<usb, left, deviceVars, callVars, read_bytes_left, read_pos,
                 read_bytes_in_buffer>>

TakeBlockGoesOn ==    \* a faulty variant
  /\ UNCHANGED read_pos
  /\ read_bytes_in_buffer' = BlockSize
  /\ read_bytes_left' = read_bytes_left - BlockSize
  /\ call' = "loop"
TakeBlock == /\ read_pos' = 0
             /\ read_bytes_in_buffer' = BlockSize
             /\ read_bytes_left' = read_bytes_left - BlockSize
             /\ call' = "loop"

FetchPut ==
  /\ call = "fetch"
  /\ Channel!ReaderPutBuffer
  /\ TakeBlock
  /\ UNCHANGED <<usb, left, deviceVars, read_buffer, left_to_read, byte_count,
                 status, delivered>>

Return(s) == call' = "idle" /\ status' = s

\* A faulty variant of the next action: the call tries again.
FetchEofRetries ==
  /\ NeedsBlock /\ shm_channel
  /\ Channel!ReaderGetEof
  /\ UNCHANGED <<usb, left, parentVars>>

\* The child is gone: the call fails, whatever it had copied already.
FetchEof ==
  /\ NeedsBlock /\ shm_channel
  /\ \/ Channel!ReaderGetEof
     \/ pcR = "eof" /\ UNCHANGED channelVars
  /\ Return("eof")
  /\ UNCHANGED <<usb, left, deviceVars, blockVars, left_to_read, byte_count, delivered>>

FetchRaw ==
  /\ NeedsBlock /\ ~shm_channel
  /\ \E n \in BulkReads(RoundUp(BlockSize)) :
       /\ read_buffer' = [from |-> usb.at, fresh |-> n]
       /\ usb' = [usb EXCEPT !.at = @ + n]
  /\ TakeBlock
  /\ UNCHANGED <<channelVars, left, deviceVars, left_to_read, byte_count,
                 status, delivered>>

FetchRawFails ==
  /\ NeedsBlock /\ ~shm_channel
  /\ Return("io_error")
  /\ UNCHANGED <<channelVars, usb, left, deviceVars, blockVars, left_to_read,
                 byte_count, delivered>>

\* Copy what the block holds, or what the caller still wants of it.
Transfer ==
  LET n == Lesser(left_to_read, read_bytes_in_buffer)
  IN  /\ call = "loop" /\ n > 0
      /\ read_pos' = read_pos + n
      /\ read_bytes_in_buffer' = read_bytes_in_buffer - n
      /\ byte_count' = byte_count + n
      /\ left_to_read' = left_to_read - n
      /\ delivered' = delivered + n
      /\ UNCHANGED <<channelVars, usb, left, deviceVars, read_bytes_left,
                     read_buffer, call, status>>

ReadReturn ==
  /\ call = "loop"
  /\ left_to_read = 0 \/ (read_bytes_in_buffer = 0 /\ BlockSize = 0)
  /\ Return(IF byte_count = 0 THEN "eof" ELSE "good")
  /\ UNCHANGED <<channelVars, usb, left, deviceVars, blockVars, left_to_read,
                 byte_count, delivered>>

\* gt68xx_device_read_finish: SIGKILL and waitpid, then shm_channel_free.
ReadFinish ==
  /\ call = "idle" /\ read_active
  /\ shm_channel => pcR \in {"get", "eof"}
  /\ pcW' = "gone" /\ openW' = {} /\ pcR' = "gone" /\ openR' = {}
  /\ shm_channel' = FALSE /\ read_active' = FALSE
  /\ UNCHANGED <<reader_put_pipe, writer_put_pipe, buffers, buffer_bytes, idW,
                 bytesW, idR, bytesR, issued, out, usb, left, final_scan,
                 read_buffer_size,
                 scans, callVars, blockVars>>

-----------------------------------------------------------------------------
\* gt68xx_reader_process, the child.
ChildInit == Channel!WriterInit /\ UNCHANGED <<usb, left, parentVars>>

ChildGet ==
  /\ left > 0
  /\ Channel!WriterGetBuffer \/ Channel!WriterGetEof
  /\ UNCHANGED <<usb, left, parentVars>>

\* gt68xx_device_read_raw of a whole buffer, whatever is left to read.
ChildReadRaw ==
  /\ \E n \in BulkReads(read_buffer_size) :
       /\ Channel!WriterFill(usb.at, n)
       /\ usb' = [usb EXCEPT !.at = @ + n]
  /\ UNCHANGED <<left, parentVars>>

\* The bulk read fails: for want of data it always does, after a timeout.
ChildReadFails ==
  /\ pcW = "fill"
  /\ Channel!WriterDie
  /\ UNCHANGED <<usb, left, parentVars>>

ChildPut ==
  \/ Channel!WriterPutBytes /\ UNCHANGED <<usb, left, parentVars>>
  \/ /\ Channel!WriterPutId
     /\ left' = (left - bytesW) % SizeMod
     /\ UNCHANGED <<usb, parentVars>>

\* Everything is read: five minutes of sleep, then shm_channel_writer_close.
ChildClose == left = 0 /\ Channel!WriterClose /\ UNCHANGED <<usb, left, parentVars>>
ChildExit == Channel!WriterExit /\ UNCHANGED <<usb, left, parentVars>>

ChildStep == ChildInit \/ ChildGet \/ ChildReadRaw \/ ChildPut \/ ChildExit
             \/ (ChildReadFails /\ usb.at = usb.end)
ReadStep == ReadStarting \/ FetchGet \/ FetchCopy \/ FetchPut \/ FetchEof
            \/ FetchRaw \/ FetchRawFails \/ Transfer \/ ReadReturn
Finished == scans = MaxScans /\ ~read_active /\ UNCHANGED vars

Next == \/ \E n \in Expected, final \in BOOLEAN : ReadPrepare(n, final)
        \/ \E size \in Requests : Read(size)
        \/ ReadStart \/ ReadFinish \/ ReadStep
        \/ ChildStep \/ ChildReadFails \/ ChildClose
        \/ Finished

\* The scheduler runs both processes; a bulk read ends or times out.  Closing
\* after the five minutes is not owed: a read must not depend on it.
Spec == Init /\ [][Next]_vars
FairSpec == Spec /\ WF_vars(ChildStep) /\ WF_vars(ReadStep)

-----------------------------------------------------------------------------
\* The parent's counts stay size_t values without wrapping, although the child's
\* wraps when the scanner pads the image.
TypeOK ==
  /\ Channel!TypeOK
  /\ usb \in [at : Positions, end : Positions] /\ usb.at <= usb.end
  /\ left \in 0..(SizeMod - 1)
  /\ {read_active, final_scan, shm_channel} \subseteq BOOLEAN
  /\ read_buffer_size \in 0..BufSize /\ read_bytes_left \in Positions
  /\ read_pos \in 0..BufSize /\ read_bytes_in_buffer \in 0..BufSize
  /\ read_buffer \in [from : Positions, fresh : 0..BufSize]
  /\ call \in {"idle", "loop", "fetch"} /\ status \in {"good", "eof", "io_error"}
  /\ left_to_read \in 0..MaxOf(Requests)
  /\ byte_count \in 0..MaxOf(Requests)
  /\ delivered \in Positions /\ scans \in 0..MaxScans

\* The frontend receives the bytes of the scan, each once and in order: what
\* read_buffer still holds continues what was delivered, and was copied from
\* the last block and not left over from the one before.
InOrder ==
  read_bytes_in_buffer > 0 =>
    /\ read_buffer.from + read_pos = delivered
    /\ read_pos + read_bytes_in_buffer <= read_buffer.fresh

\* The two counts of read_bytes_left agree: the parent never waits for a block
\* from a child that believes the scan complete and sleeps for five minutes.
NoWaitOnSleepingChild ==
  ~ /\ NeedsBlock /\ shm_channel /\ writer_put_pipe = <<>>
    /\ left = 0 /\ pcW = "get"

\* gt68xx_device_read returns.
ReadReturns == call /= "idle" ~> call = "idle"

\* include/sane/sane.h:63, SANE_STATUS_EOF: "no more data available".
\* The child's error ends the channel instead.
EofMeansNoMoreData == status = "eof" => read_bytes_left + read_bytes_in_buffer = 0

-----------------------------------------------------------------------------
\* What TypeOK, InOrder and NoWaitOnSleepingChild rest on, with Channel!IInv.

\* The scan's expected_count is what was taken in blocks and what is left.
Taken == delivered + read_bytes_in_buffer
Total == Taken + read_bytes_left
Counts ==
  /\ usb.end \in {Total, RoundUp(Total)}
  /\ RoundUp(read_buffer_size) = read_buffer_size
  /\ read_pos + read_bytes_in_buffer <= BufSize
  /\ byte_count + left_to_read <= MaxOf(Requests)

\* The parent is inside the functions of the channel exactly while it fetches a
\* block, and a final scan reads nothing without the channel.
Stages ==
  /\ ~shm_channel => pcW = "gone" /\ pcR = "gone"
  /\ shm_channel => read_active /\ final_scan /\ pcR # "gone"
  /\ read_active /\ final_scan /\ ~shm_channel => usb.at = 0 /\ Taken = 0
  /\ call # "idle" => read_active /\ (final_scan => shm_channel)
  /\ call = "loop" /\ shm_channel => pcR \in {"get", "eof"}
  /\ call = "fetch" <=> pcR \in {"use", "put"}
  /\ call = "fetch" => read_bytes_in_buffer = 0 /\ BlockSize > 0

\* The child's count is what it has not sent yet.  The block in its hands is not
\* sent; when the image is padded, the last one makes the count wrap.
ChildLives == pcW \notin {"closed", "gone"}
Sent == IF pcW \in {"put", "send"} THEN usb.at - bytesW ELSE usb.at
ChildCounts ==
  shm_channel /\ ChildLives =>
    left = IF Sent <= Total THEN Total - Sent ELSE SizeMod - (Sent - Total)

\* A block is a bulk read of a whole buffer; and the parent has reached position p
\* when all before p is taken, or more than that after bulk reads that were short.
Whole(p, n) == /\ n <= read_buffer_size /\ p + n <= usb.end
               /\ ~ShortReads => n = Lesser(read_buffer_size, usb.end - p)
Reached(p)  == p <= Taken /\ (~ShortReads => p = Taken)

\* The blocks in the pipe, and the one in the child's hands, follow one another
\* from the block the parent holds, or from where it has got to.
First(k) == buffers[writer_put_pipe[k]]
Bytes(k) == buffer_bytes[writer_put_pipe[k]]
Continues(p) == IF writer_put_pipe # <<>> THEN First(1) = p ELSE ChildLives => Sent = p
Row ==
  shm_channel =>
    /\ pcW \in {"put", "send"} => buffers[idW] = Sent /\ Whole(Sent, bytesW)
    /\ \A k \in 1..Len(writer_put_pipe) : Whole(First(k), Bytes(k))
    /\ \A k \in 1..(Len(writer_put_pipe) - 1) : First(k + 1) = First(k) + Bytes(k)
    /\ ChildLives /\ writer_put_pipe # <<>> =>
         First(Len(writer_put_pipe)) + Bytes(Len(writer_put_pipe)) = Sent
Coming ==
  shm_channel =>
    /\ pcR = "use" => /\ Whole(buffers[idR], bytesR) /\ Reached(buffers[idR])
                      /\ Continues(buffers[idR] + bytesR)
    /\ pcR = "put" => /\ Whole(read_buffer.from, read_buffer.fresh)
                      /\ Reached(read_buffer.from)
                      /\ Continues(read_buffer.from + read_buffer.fresh)
    /\ pcR \notin {"use", "put"} /\ read_bytes_left > 0 =>
         \E p \in Positions : Reached(p) /\ Continues(p)
Raw == read_active /\ ~final_scan /\ read_bytes_left > 0 => Reached(usb.at)

IInv == /\ TypeOK /\ Channel!IInv /\ Counts /\ Stages /\ ChildCounts
        /\ Row /\ Coming /\ Raw /\ (~ShortReads => InOrder)
=============================================================================
