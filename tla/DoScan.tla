------------------------------- MODULE DoScan -------------------------------
(***************************************************************************)
(* One network scan: do_scan of frontend/saned.c, which moves records from *)
(* the scanner through a ring buffer into the data connection, and the     *)
(* sane_read and sane_cancel of backend/net.c at the other end, for one    *)
(* handle, from the moment the data connection is accepted.                *)
(*                                                                         *)
(* A record is its length in HdrLen bytes and that many image bytes; the   *)
(* record of length 0xffffffff (End) carries one status byte instead.      *)
(* Bytes are abstracted to tokens that say what they were stored as, and   *)
(* where in the image they stand.                                          *)
(*                                                                         *)
(* An image of 16 bits per sample whose ends differ in byte order has the  *)
(* bytes of each sample swapped by sane_read, which carries over to its    *)
(* next call a byte whose partner has not come, or which had no room.      *)
(***************************************************************************)
EXTENDS Integers, Sequences, FiniteSets

CONSTANTS BufferSize,  \* buffer_size, 1 MiB
          HdrLen,      \* bytes of a record length: 4
          SocketBuf,   \* bytes the data connection holds before it blocks
          ImageLen,    \* bytes of the image
          MaxLength,   \* max_length of the client's sane_read
          Swapping     \* depth is 16, and the two ends differ in byte order

ASSUME DoScanAssumption ==
  /\ HdrLen \in Nat \ {0} /\ BufferSize \in Nat /\ BufferSize >= 2 * HdrLen + 1
  /\ SocketBuf \in Nat \ {0} /\ ImageLen \in Nat /\ MaxLength \in Nat \ {0}
  /\ Swapping \in BOOLEAN /\ (Swapping => ImageLen % 2 = 0)

\* How sane_read of the scanner's backend can end the image.
EndStatus == {"eof", "io_error"}
End == -1    \* 0xffffffff
Byte(is, p, v, k) == [is |-> is, pos |-> p, val |-> v, nr |-> k]
LenByte(n, k, p) == Byte("len", p, n, k)     \* byte k of a record length n, p image
                                             \* bytes before it
ImageByte(p, r)  == Byte("image", p, 0, r)   \* byte p of the image, with r more in
                                             \* its record
StatusByte(s, p) == Byte("status", p, s, 0)  \* s, p image bytes before it
Junk             == Byte("junk", 0, 0, 0)    \* malloc leaves it
Lengths == {End} \cup 0..BufferSize
Token == {LenByte(n, k, p) : n \in Lengths, k \in 1..HdrLen, p \in 0..ImageLen}
         \cup {ImageByte(p, r) : p \in 1..ImageLen, r \in 0..BufferSize}
         \cup {StatusByte(s, p) : s \in EndStatus, p \in 0..ImageLen} \cup {Junk}

VARIABLES
  pc,           \* saned: "start", "top", "store", "rpc", "finish", "idle", "exited"
  buf, reader, writer, bytes_in_buf, status_dirty, status,
  be_fd,        \* the backend's select descriptor is in rd_mask
  timeout,      \* there is none: do_scan polls
  rpc_ready,    \* the control connection was readable at select()
  docancel, scanning,
  produced,     \* image bytes the backend handed out
  be_closed,    \* the backend closed its select descriptor
  wire,         \* the data connection: bytes on their way to the client, which
                \* are dropped when the client closes its end
  srv_data, cli_data,   \* its two ends are open
  request, reply,       \* the control connection
  cli,          \* the client: "free", "status" (reads the status byte),
                \* "cancel" or "call" (waits for the reply), "dead"
  reclen_buf, bytes_remaining, got, result, intact,
  hang_over, left_over,  \* positions of carried bytes in the image, 0 for -1
  out           \* positions of the bytes sane_read returned, in that order

ring    == <<buf, reader, writer, bytes_in_buf, status_dirty, status>>
device  == <<be_fd, timeout, produced, be_closed>>
control == <<request, reply>>
order   == <<hang_over, left_over, out>>
client  == <<cli, cli_data, reclen_buf, bytes_remaining, got, result, intact, order>>
vars == <<pc, ring, device, rpc_ready, docancel, scanning, wire, srv_data,
          control, client>>

Least(a, b) == IF a < b THEN a ELSE b
Cells == 0..(BufferSize - 1)

Init ==
  /\ pc = "start"
  /\ buf = [c \in Cells |-> Junk]
  /\ reader = 0 /\ writer = 0 /\ bytes_in_buf = 0
  /\ status_dirty = FALSE /\ status = "good"
  /\ timeout \in BOOLEAN /\ be_fd = ~timeout
  /\ rpc_ready = FALSE /\ docancel = FALSE /\ scanning = TRUE
  /\ produced = 0 /\ be_closed = FALSE
  /\ wire = <<>> /\ srv_data = TRUE /\ cli_data = TRUE
  /\ request = "none" /\ reply = "none"
  /\ cli = "free" /\ reclen_buf = <<>> /\ bytes_remaining = 0
  /\ got = 0 /\ result = "good" /\ intact = TRUE
  /\ hang_over = 0 /\ left_over = 0 /\ out = <<>>

-----------------------------------------------------------------------------
\* saned.

\* malloc fails: no record is sent at all.
Start ==
  /\ pc = "start"
  /\ \/ pc' = "top" /\ UNCHANGED status
     \/ pc' = "finish" /\ status' = "no_mem"
  /\ UNCHANGED <<buf, reader, writer, bytes_in_buf, status_dirty, device,
                 rpc_ready, docancel, scanning, wire, srv_data, control, client>>

\* A request, or the end of the client, makes the control connection readable.
CtlReadableNoHangup == request /= "none"    \* a faulty variant
CtlReadable == request /= "none" \/ cli = "dead"
\* A connection nobody reads any more takes what is written.
Writable == Len(wire) < SocketBuf \/ ~cli_data
LoopTestDropsBytes(st, bytes, dirty) ==    \* a faulty variant
  IF st = "good" \/ dirty THEN "top" ELSE "finish"
LoopTest(st, bytes, dirty) ==
  IF st = "good" \/ bytes > 0 \/ dirty THEN "top" ELSE "finish"
BadFd == be_fd /\ be_closed

\* A faulty variant of the next action: the ring is started afresh.
SelectFailsFlushes ==
  /\ pc = "top" /\ BadFd
  /\ be_fd' = FALSE
  /\ status_dirty' = (status_dirty \/ status = "good")
  /\ status' = "eof"
  /\ reader' = 0 /\ writer' = 0 /\ bytes_in_buf' = 0
  /\ pc' = LoopTest("eof", 0, status_dirty')
  /\ UNCHANGED <<buf, timeout, produced, be_closed,
                 rpc_ready, docancel, scanning, wire, srv_data, control, client>>

\* select() fails with EBADF: the backend closed its descriptor at the end of
\* the image.  The rest of the round is skipped.
SelectFails ==
  /\ pc = "top" /\ BadFd
  /\ be_fd' = FALSE
  /\ status_dirty' = (status_dirty \/ status = "good")
  /\ status' = "eof"
  /\ pc' = LoopTest("eof", bytes_in_buf, status_dirty')
  /\ UNCHANGED <<buf, reader, writer, bytes_in_buf, timeout, produced, be_closed,
                 rpc_ready, docancel, scanning, wire, srv_data, control, client>>

\* select() fails for any other reason, also a signal: no record tells the client,
\* and what is in the ring is lost.  The status is SANE_STATUS_IO_ERROR, kept apart
\* here from the one that the backend gives.
SelectBreaks ==
  /\ pc = "top"
  /\ status' = "select_error"
  /\ pc' = "finish"
  /\ UNCHANGED <<buf, reader, writer, bytes_in_buf, status_dirty, device,
                 rpc_ready, docancel, scanning, wire, srv_data, control, client>>

\* What select() reported is what the rest of the round goes by.
Selected == pc = "top" /\ ~BadFd /\ rpc_ready' = CtlReadable

\* Bytes that were written are dead, and Junk here: if any of them goes out again
\* it does so behind the status byte, where the client has stopped reading.
Written(i, n) == [c \in Cells |-> IF c - i \in 0..(n - 1) THEN Junk ELSE buf[c]]

WriteClient ==
  LET n == Least(Least(bytes_in_buf, BufferSize - writer), SocketBuf - Len(wire))
  IN  /\ Selected
      /\ bytes_in_buf > 0 /\ cli_data /\ Len(wire) < SocketBuf
      /\ wire' = wire \o [k \in 1..n |-> buf[writer + k - 1]]
      /\ buf' = Written(writer, n)
      /\ bytes_in_buf' = bytes_in_buf - n
      /\ writer' = (writer + n) % BufferSize
      /\ pc' = "store"
      /\ UNCHANGED <<reader, status_dirty, status, device, docancel,
                     scanning, srv_data, control, client>>

\* The client closed the connection: the kernel still takes the bytes, or
\* write() fails, or it raises SIGPIPE, and then quit() ends the server.
WriteNobody ==
  LET n == Least(bytes_in_buf, BufferSize - writer)
  IN  /\ Selected
      /\ bytes_in_buf > 0 /\ ~cli_data
      /\ \/ /\ bytes_in_buf' = bytes_in_buf - n
            /\ writer' = (writer + n) % BufferSize
            /\ pc' = "store"
            /\ UNCHANGED <<status, docancel, scanning, srv_data>>
         \/ /\ status' = "cancelled" /\ docancel' = TRUE
            /\ pc' = "finish"
            /\ UNCHANGED <<bytes_in_buf, writer, scanning, srv_data>>
         \/ /\ pc' = "exited" /\ scanning' = FALSE /\ srv_data' = FALSE
            /\ UNCHANGED <<bytes_in_buf, writer, status, docancel>>
      /\ UNCHANGED <<buf, reader, status_dirty, device, wire, control, client>>

StoreLen(b, i, n) ==
  [c \in Cells |-> LET k == ((c - i + BufferSize) % BufferSize) + 1
                   IN  IF k <= HdrLen THEN LenByte(n, k, produced) ELSE b[c]]
\* Where a record's bytes start, and how many of them are stored at a time.
BehindUnwrapped(i) == i + HdrLen    \* a faulty variant
Behind(i) == (i + HdrLen) % BufferSize
RoomPastEnd(i) == BufferSize - HdrLen    \* a faulty variant
Room(i) == Least(BufferSize - HdrLen, BufferSize - Behind(i))

\* sane_read of the scanner's backend gives n bytes, and with the last of them
\* or with the end status the backend may close its select descriptor.
MayClose == be_closed' \in {be_closed, be_fd}

ReadImage(n) ==
  LET first == Behind(reader)
  IN  /\ Selected
      /\ bytes_in_buf = 0 /\ status = "good"
      /\ n <= Room(reader) /\ produced + n <= ImageLen
      /\ buf' = StoreLen([c \in Cells |-> IF c - first \in 0..(n - 1)
                                          THEN ImageByte(produced + c - first + 1,
                                                         n - 1 - (c - first))
                                          ELSE buf[c]], reader, n)
      /\ reader' = (first + n) % BufferSize
      /\ bytes_in_buf' = n + HdrLen
      /\ produced' = produced + n
      /\ IF produced' = ImageLen THEN MayClose ELSE UNCHANGED be_closed
      /\ pc' = "store"
      /\ UNCHANGED <<writer, status_dirty, status, be_fd, timeout, docancel,
                     scanning, wire, srv_data, control, client>>

\* The index of the reserved record is restored; bytes_in_buf is not.
ReadEnd(s) ==
  /\ Selected
  /\ bytes_in_buf = 0 /\ status = "good"
  /\ s = "eof" => produced = ImageLen
  /\ status' = s /\ status_dirty' = TRUE
  /\ bytes_in_buf' = HdrLen
  /\ MayClose
  /\ pc' = "store"
  /\ UNCHANGED <<buf, reader, writer, be_fd, timeout, produced, docancel,
                 scanning, wire, srv_data, control, client>>

\* A faulty variant of the next action: the control connection is not watched.
MoveNothingDeaf ==
  /\ Selected
  /\ \/ bytes_in_buf > 0 /\ ~Writable /\ (timeout \/ be_fd)
     \/ bytes_in_buf = 0 /\ (status /= "good" \/ ~timeout) /\ Writable
  /\ pc' = "store"
  /\ UNCHANGED <<ring, device, docancel, scanning, wire, srv_data, control, client>>

\* select() returned, and no data can be moved.  The data connection is in
\* wr_mask at all times: with nothing to write the loop spins.
MoveNothing ==
  /\ Selected
  /\ \/ bytes_in_buf > 0 /\ ~Writable /\ (CtlReadable \/ timeout \/ be_fd)
     \/ bytes_in_buf = 0 /\ status = "good" /\ ~timeout /\ (Writable \/ CtlReadable)
     \/ bytes_in_buf = 0 /\ status /= "good" /\ (Writable \/ CtlReadable)
  /\ pc' = "store"
  /\ UNCHANGED <<ring, device, docancel, scanning, wire, srv_data, control, client>>

StoreStatus ==
  LET fits == status_dirty /\ BufferSize - bytes_in_buf >= HdrLen + 1
  IN  /\ pc = "store"
      /\ IF fits
         THEN /\ reader' = Behind(reader)
              /\ buf' = [StoreLen(buf, reader, End)
                           EXCEPT ![Behind(reader)] = StatusByte(status, produced)]
              /\ bytes_in_buf' = bytes_in_buf + HdrLen + 1
              /\ status_dirty' = FALSE
         ELSE UNCHANGED <<reader, buf, bytes_in_buf, status_dirty>>
      /\ pc' = IF rpc_ready THEN "rpc"
               ELSE LoopTest(status, bytes_in_buf', status_dirty')
      /\ UNCHANGED <<writer, status, device, rpc_ready, docancel, scanning, wire,
                     srv_data, control, client>>

\* process_request of this handle's client, inside do_scan.
ProcessRequest ==
  /\ pc = "rpc"
  /\ docancel' = (docancel \/ request = "cancel" \/ request = "none")
  /\ IF request = "none" THEN UNCHANGED control
     ELSE request' = "none" /\ reply' = "ack"
  /\ pc' = IF docancel' THEN "finish"
           ELSE LoopTest(status, bytes_in_buf, status_dirty)
  /\ rpc_ready' = FALSE
  /\ UNCHANGED <<ring, device, scanning, wire, srv_data, client>>

Finish ==
  /\ pc = "finish"
  /\ docancel' = FALSE /\ scanning' = FALSE
  /\ srv_data' = FALSE
  /\ buf' = [c \in Cells |-> Junk]    \* free
  /\ pc' = "idle"
  /\ UNCHANGED <<reader, writer, bytes_in_buf, status_dirty, status, device,
                 rpc_ready, wire, control, client>>

\* process_request after do_scan, called by handle_connection, which leaves
\* through quit() when the client is gone.
ProcessLater ==
  /\ pc = "idle" /\ CtlReadable
  /\ IF request = "none"
     THEN pc' = "exited" /\ UNCHANGED <<control, docancel>>
     ELSE /\ request' = "none" /\ reply' = "ack"
          /\ docancel' = (docancel \/ request = "cancel")
          /\ UNCHANGED pc
  /\ UNCHANGED <<ring, device, rpc_ready, scanning, wire, srv_data, client>>

-----------------------------------------------------------------------------
\* The client: net.c.

\* sane_read returns a left-over byte before it looks at the connection.
CanRead == cli = "free" /\ cli_data /\ wire /= <<>> /\ left_over = 0
Rest(n) == SubSeq(wire, n + 1, Len(wire))

ReadLength ==
  LET n    == Least(HdrLen - Len(reclen_buf), Len(wire))
      all  == reclen_buf \o SubSeq(wire, 1, n)
      full == Len(all) = HdrLen
      len  == all[1].val
  IN  /\ CanRead /\ bytes_remaining = 0
      /\ wire' = Rest(n)
      /\ reclen_buf' = IF full THEN <<>> ELSE all
      /\ intact' = (intact /\ (full => \A k \in 1..HdrLen :
                                           all[k] = LenByte(len, k, got)))
      /\ IF full /\ all[1].is = "len"
         THEN /\ bytes_remaining' = IF len = End THEN 0 ELSE len
              /\ cli' = IF len = End THEN "status" ELSE "free"
         ELSE UNCHANGED <<bytes_remaining, cli>>
      /\ UNCHANGED <<pc, ring, device, rpc_ready, docancel, scanning, srv_data,
                     control, cli_data, got, result, order>>

\* The loop that swaps pairs among the first e bytes of data.
SwapPairs(data, e) ==
  [k \in DOMAIN data |-> IF k > e - (e % 2) THEN data[k]
                         ELSE IF k % 2 = 1 THEN data[k + 1] ELSE data[k - 1]]
Carry(o, h, l) == [out |-> o, hang |-> h, left |-> l]
\* A faulty variant: the byte carried over is never given up.
SwapBytesKeepsHang(hang, data) ==
  IF Len(data) = 1 /\ hang = 0 THEN Carry(<<>>, data[1], 0)
  ELSE Carry(SwapPairs(data, Len(data)), hang, IF Len(data) = 1 THEN hang ELSE 0)
\* What sane_read makes of the bytes it read and the byte carried over.  Even
\* and odd are told by the bytes read, without the one carried over, which the
\* memmove puts in front of them.
SwapBytes(hang, data) ==
  LET n    == Len(data)
      even == n % 2 = 0
      up   == <<hang>> \o SubSeq(data, 1, n - 1)
  IN  CASE n = 1 /\ hang /= 0 -> Carry(data, 0, hang)
        [] n = 1 /\ hang = 0  -> Carry(<<>>, data[1], 0)
        [] n > 1 /\ hang /= 0 /\ even ->
             Carry(SwapPairs([up EXCEPT ![n] = data[n]], n - 2), 0, up[n])
        [] n > 1 /\ hang /= 0 /\ ~even -> Carry(SwapPairs(up, n - 1), data[n], 0)
        [] n > 1 /\ hang = 0 /\ even -> Carry(SwapPairs(data, n), 0, 0)
        [] n > 1 /\ hang = 0 /\ ~even ->
             Carry(SwapPairs(SubSeq(data, 1, n - 1), n - 1), data[n], 0)

\* Also when the connection is closed already.
ReadLeftOver ==
  /\ cli = "free" /\ left_over /= 0
  /\ out' = Append(out, left_over) /\ left_over' = 0
  /\ UNCHANGED <<pc, ring, device, rpc_ready, docancel, scanning, wire, srv_data,
                 control, cli, cli_data, reclen_buf, bytes_remaining, got,
                 result, intact, hang_over>>

ReadData ==
  LET n == Least(Least(MaxLength, bytes_remaining), Len(wire))
  IN  /\ CanRead /\ bytes_remaining > 0
      /\ wire' = Rest(n)
      /\ intact' = (intact /\ \A k \in 1..n :
                                wire[k] = ImageByte(got + k, bytes_remaining - k))
      /\ got' = got + n
      /\ bytes_remaining' = bytes_remaining - n
      /\ LET data == [k \in 1..n |-> got + k]
             to   == IF Swapping THEN SwapBytes(hang_over, data) ELSE Carry(data, 0, 0)
         IN  out' = out \o to.out /\ hang_over' = to.hang /\ left_over' = to.left
      /\ UNCHANGED <<pc, ring, device, rpc_ready, docancel, scanning, srv_data,
                     control, cli, cli_data, reclen_buf, result>>

\* The status byte is read, or the connection ends before it; do_cancel closes.
ReadStatus ==
  /\ cli = "status"
  /\ \/ /\ wire /= <<>>
        /\ result' = Head(wire).val
        /\ intact' = (intact /\ Head(wire) = StatusByte(result', got))
     \/ wire = <<>> /\ ~srv_data /\ result' = "io_error" /\ UNCHANGED intact
  /\ cli' = "free" /\ cli_data' = FALSE /\ wire' = <<>>
  /\ UNCHANGED <<pc, ring, device, rpc_ready, docancel, scanning, srv_data,
                 control, reclen_buf, bytes_remaining, got, order>>

\* sane_cancel, or another call that asks the server, as sane_get_parameters.
Call(what) ==
  /\ cli = "free" /\ pc /= "exited"
  /\ request' = what /\ cli' = what
  /\ UNCHANGED <<pc, ring, device, rpc_ready, docancel, scanning, wire, srv_data,
                 reply, cli_data, reclen_buf, bytes_remaining, got, result, intact, order>>

\* The reply comes, or the server is gone.  After sane_cancel do_cancel closes
\* the data connection.
CallReturns ==
  /\ cli \in {"cancel", "call"}
  /\ reply = "ack" \/ pc = "exited"
  /\ reply' = "none" /\ cli' = "free"
  /\ cli_data' = (cli_data /\ cli /= "cancel")
  /\ wire' = IF cli_data' THEN wire ELSE <<>>
  /\ result' = IF cli_data' \/ ~cli_data THEN result ELSE "cancelled"
  /\ UNCHANGED <<pc, ring, device, rpc_ready, docancel, scanning, srv_data,
                 request, reclen_buf, bytes_remaining, got, intact, order>>

\* The client's process ends: its connections are closed, its memory is gone.
ClientDie ==
  /\ cli /= "dead"
  /\ cli' = "dead" /\ cli_data' = FALSE /\ wire' = <<>>
  /\ reclen_buf' = <<>> /\ bytes_remaining' = 0 /\ got' = 0 /\ result' = "good"
  /\ hang_over' = 0 /\ left_over' = 0 /\ out' = <<>>
  /\ UNCHANGED <<pc, ring, device, rpc_ready, docancel, scanning, srv_data,
                 control, intact>>

-----------------------------------------------------------------------------
Scanner == (\E n \in 1..ImageLen : ReadImage(n)) \/ \E s \in EndStatus : ReadEnd(s)
Saned == \/ Start \/ SelectFails \/ WriteClient \/ WriteNobody
         \/ ReadImage(0) \/ Scanner \/ MoveNothing
         \/ StoreStatus \/ ProcessRequest \/ Finish \/ ProcessLater
ClientReads == ReadLength \/ ReadLeftOver \/ ReadData \/ ReadStatus
Ended == pc = "exited" /\ UNCHANGED vars
Next == \/ Saned \/ SelectBreaks \/ ClientReads \/ CallReturns \/ ClientDie
        \/ (\E what \in {"cancel", "call"} : Call(what)) \/ Ended

Spec == Init /\ [][Next]_vars

\* saned and the kernel keep going, and no select() owes a failure; the scanner, asked again and again, gives
\* bytes or the end; the frontend, whatever else it calls, keeps reading.
FairSpec == Spec /\ WF_vars(Saned) /\ SF_vars(Scanner)
                 /\ WF_vars(CallReturns) /\ SF_vars(ClientReads)

-----------------------------------------------------------------------------
\* The indices stay in the ring, and every byte is one that was stored.
TypeOK ==
  /\ pc \in {"start", "top", "store", "rpc", "finish", "idle", "exited"}
  /\ buf \in [Cells -> Token] /\ reader \in Cells /\ writer \in Cells
  /\ bytes_in_buf \in 0..BufferSize
  /\ status \in EndStatus \cup {"good", "no_mem", "cancelled", "select_error"}
  /\ \A b \in {status_dirty, be_fd, timeout, rpc_ready, docancel, scanning,
               be_closed, srv_data, cli_data, intact} : b \in BOOLEAN
  /\ produced \in 0..ImageLen /\ got \in 0..ImageLen
  /\ wire \in Seq(Token) /\ Len(wire) <= SocketBuf
  /\ request \in {"none", "cancel", "call"} /\ reply \in {"none", "ack"}
  /\ cli \in {"free", "status", "cancel", "call", "dead"}
  /\ reclen_buf \in Seq(Token) /\ Len(reclen_buf) < HdrLen
  /\ bytes_remaining \in 0..BufferSize
  /\ result \in EndStatus \cup {"good", "cancelled"}
  /\ {hang_over, left_over} \subseteq 0..ImageLen
  /\ out \in Seq(1..ImageLen)

\* Record lengths, image bytes and the status each reach the client whole, in
\* order, and as what they were stored, wherever ring, socket and sane_read
\* cut them.
StreamIntact == intact

\* Every byte sane_read took from the connection is returned once, or carried
\* over, wherever records, socket and calls cut the image.
NothingLost ==
  LET carried == {hang_over, left_over} \ {0}
  IN  /\ {out[k] : k \in DOMAIN out} \cup carried = 1..got
      /\ Len(out) + Cardinality(carried) = got
      /\ ~Swapping => carried = {}

\* The client is told "end of file" only after the last byte of the image.
EofIsComplete == result = "eof" => got = ImageLen

\* sane_cancel returns and ends the scan, even while the client reads nothing
\* and the data connection is full.
CancelEndsScan == cli = "cancel" ~> ~scanning /\ cli /= "cancel"

\* When the client disappears, the server's process for it ends.
ClientDeathEndsServer == cli = "dead" ~> pc = "exited"

\* A scan that got its buffer ends for a frontend that keeps reading, unless
\* select() fails: the frontend is not told, and goes on reading nothing.
ScanEndsForClient ==
  pc = "top" ~> result /= "good" \/ cli = "dead" \/ status = "select_error"

\* The comment at net.c:138: left_over is "a remaining byte from a previous call
\* to sane_read, which already is in the correct byte order".  Samples come out
\* with the wrong order when a read of several bytes meets a carried byte.
SamplesSwapped ==
  Swapping => \A k \in DOMAIN out : out[k] = IF k % 2 = 1 THEN k + 1 ELSE k - 1

-----------------------------------------------------------------------------
\* What TypeOK, StreamIntact, NothingLost and EofIsComplete rest on.

\* The ring holds bytes_in_buf bytes from writer on, except after ReadEnd: what
\* bytes_in_buf counts then is the place of a record that StoreStatus stores first.
InUse   == pc \in {"start", "top", "store", "rpc"}
Rewound == status_dirty /\ writer = reader /\ bytes_in_buf = HdrLen
Stored  == IF Rewound THEN 0 ELSE bytes_in_buf
Cell(k) == (writer + k - 1) % BufferSize

\* Bytes on their way, those in the connection first.  Byte 0 is what the client
\* has taken last; a byte taken of an image is as good as its record's length.
Count == Len(wire) + (IF InUse THEN Stored ELSE 0)
Taken == IF cli = "status" THEN LenByte(End, HdrLen, got)
         ELSE IF reclen_buf # <<>> THEN reclen_buf[Len(reclen_buf)]
         ELSE ImageByte(got, bytes_remaining)
Pending(k) == IF k = 0 THEN Taken
              ELSE IF k <= Len(wire) THEN wire[k] ELSE buf[Cell(k - Len(wire))]

\* Which byte may follow which: the image begins a record, or goes on in one, as
\* the length before it says, and the status is behind the length End.
Begins(b, p) == \E n \in Lengths : b = LenByte(n, 1, p)
Follows(a, b) ==
  /\ a.is = "len" /\ a.nr < HdrLen => b = LenByte(a.val, a.nr + 1, a.pos)
  /\ a.is = "len" /\ a.nr = HdrLen =>
       /\ a.val = End => \E s \in EndStatus : /\ b = StatusByte(s, a.pos)
                                              /\ s = "eof" => a.pos = ImageLen
       /\ a.val = 0 => Begins(b, a.pos)
       /\ a.val > 0 => b = ImageByte(a.pos + 1, a.val - 1)
  /\ a.is = "image" => IF a.nr = 0 THEN Begins(b, a.pos)
                       ELSE b = ImageByte(a.pos + 1, a.nr - 1)
EndsRecord(b, p) == b \in {ImageByte(p, 0), LenByte(0, HdrLen, p)}

\* The bytes on their way follow one another, up to all that was produced while
\* the status has not been stored; what the ring does not hold is Junk then.
Open == InUse /\ (status = "good" \/ status_dirty)
Stream ==
  cli_data =>
    /\ \A k \in 0..(Count - 1) : Follows(Pending(k), Pending(k + 1))
    /\ Open => /\ EndsRecord(Pending(Count), produced)
               /\ \A k \in (Stored + 1)..BufferSize : buf[Cell(k)] = Junk

\* reader is where the next record goes.
Indices ==
  /\ Open => reader = (writer + Stored) % BufferSize
  /\ Rewound => pc # "top" /\ pc # "rpc"
  /\ pc = "start" => bytes_in_buf = 0 /\ status = "good" /\ ~status_dirty
EndOfImage ==
  /\ be_closed /\ status = "good" => produced = ImageLen
  /\ InUse /\ status_dirty => \/ status = "eof" /\ produced = ImageLen
                              \/ status = "io_error" /\ Rewound

\* The client is at one place of the stream.
Client ==
  /\ cli = "status" => cli_data /\ reclen_buf = <<>> /\ bytes_remaining = 0
  /\ reclen_buf # <<>> => bytes_remaining = 0
  /\ cli_data => result = "good"
  /\ cli = "dead" => ~cli_data
  /\ \E n \in Lengths : \A k \in 1..Len(reclen_buf) : reclen_buf[k] = LenByte(n, k, got)
  /\ hang_over = 0 \/ left_over = 0

IInv == /\ TypeOK /\ Stream /\ Indices /\ EndOfImage /\ Client
        /\ intact /\ NothingLost /\ EofIsComplete
=============================================================================
