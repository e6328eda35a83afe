# TLA+ specifications of sane-backends

SANE (Scanner Access Now Easy) lets a frontend scan through a uniform C API,
`sane_open`, `sane_start`, `sane_read`, `sane_cancel`, `sane_close`, whatever
driver ("backend") serves it. Most backends are command sets for one family of
scanners. The parts with logic of their own are the ones that move an image
from one process to another: out of a forked reader process, over the network, and
through a queue of SCSI commands. The specifications are about those.

All paths below are relative to the repository root unless they name a module.

## 1. The system

| Component | State | Operations | Interacts by | Hard behaviour |
|---|---|---|---|---|
| gt68xx shared-memory channel, `backend/gt68xx_shm_channel.c` | N shared buffers with a byte count each, two pipes of buffer identifiers, which pipe ends each process has open | `shm_channel_new`, `writer_init/get/put/close`, `reader_init/start/get/put`, `free` | shared memory and two pipes between a forked child and the frontend | no lock: order alone protects the buffers; either process may die between any two steps; SIGPIPE, end of file |
| gt68xx reading, `backend/gt68xx_low.c` | block in hand, `read_pos`, two copies of `read_bytes_left` | `read_prepare`, `read_start`, `read`, `read_finish`, reader process | the channel above, USB bulk reads | two counts that must agree in two processes, unsigned wrap at the end, child failure, SIGKILL |
| saned scan, `do_scan` of `frontend/saned.c` | 1 MiB ring buffer, indices, `status_dirty`, select masks | one loop over select | control connection, data connection, backend's select descriptor | wrap-around of lengths, back-pressure, status after data, EBADF, cancel while blocked, dead client |
| saned session, `process_request` and the handle table | `handle[]`, `last_handle_checked`, nested `do_scan` calls | OPEN, CLOSE, START, CANCEL, EXIT and stateless queries | control connection; `do_scan` calls `process_request` and the other way round | recursion over shared table, slot reuse, poll/accept, watchdog |
| net backend, `backend/net.c` | per handle: `data`, `reclen_buf`, `bytes_remaining`; globals for byte swapping | the SANE API | both connections | short reads, call order, close in mid-scan, globals shared by handles |
| saned daemon, `run_standalone` of `frontend/saned.c` | list of children, list of descriptors, poll set, access list | `add_fd`, `add_child`, `wait_child`, `handle_client`, `do_bindings`, `bail_out` | fork, signals, `poll` | a handler that interrupts fork and wait bookkeeping, a poll set kept while its list changes, children without a pidfd |
| wire protocol, `sanei/sanei_wire.c` and codecs | one buffer with a direction, `allocated_memory`, sticky status | `sanei_w_*`, `flush`, `free` | every request and reply | direction change, allocation account on error paths |
| reader tasks, `sanei/sanei_thread.c` | static `td`, the SIGPIPE handler it saved | `begin`, `kill`, `waitpid` | process or thread | one `td` for all tasks; a thread shares descriptors and signals with the frontend, a child inherits them |
| test backend, `backend/test.c` | per device: flags, `bytes_total`, reader, pipe | SANE API, `reader_task`, `finish_pass` | the pipe; `sanei_thread` | cancel against end of file against restart, failures half-way through `sane_start`, non-blocking reads |
| SCSI queue, `sanei/sanei_scsi.c` (Linux) | queue of requests with two flags each, `sg_queue_used` | `issue`, `req_enter`, `req_wait`, `flush_all` | sg driver by `write`/`read` or by SG_IO; called by a SIGTERM handler | queue, driver and count must agree at every instant a signal may come, whatever is refused, fails or is late |
| `sanei/sanei_access.c` | lock files | `lock`, `unlock` | file system, several processes | stale lock taken over in three steps |
| `backend/snapscan-mutex.c` | a System V semaphore | `open`, `lock`, `unlock`, `close` | several processes | create-or-find race |
| `sanei/sanei_usb.c` | device table | rescan, open, close | kernel | indices kept across rescans |
| `backend/dll.c` | backends, aliases, dispatch handles | init, open, exit | function pointers | exit and init again with open handles |
| pixma BJNP, epsonds/ricoh2/pieusb buffers | serials and retries; ring indices | UDP commands; read, write | network, USB | lost and late replies; off-by-one at the ring's end |
| frontends, tools, remaining backends, library | option tables, file formats, hardware registers | | | mostly I/O and arithmetic |

What makes each correct:

* channel: a buffer has one owner at a time and none is lost; it is a FIFO with
  end of file last; a dying writer neither kills nor blocks the frontend; a
  writer does not outlive its reader;
* gt68xx reading: bytes once and in order; parent and child agree on how much is
  left; every read returns; end of file means the image is complete;
* one network scan: lengths, bytes and status reach the client as what they
  were stored; end of file only after the last byte; cancel works while
  everything is blocked; the scan ends; the server process ends with its client
  and not before;
* session: a handle stays its owner's whatever is opened and closed around it;
  one scan per device; calls return; a closed handle is not used; the table grows;
* byte swapping: every byte returned once, pairs swapped, however calls cut them;
* reader tasks and the test backend: the image of the right device, in order and
  complete; after a pass no task and no descriptor is left; SIGPIPE does not reach
  the frontend; read and cancel return;
* SCSI queue: commands go out once, in order, and no more than the driver takes; a
  result is the one of its command; "good" means executed; a wait returns; a flush
  leaves nothing in the driver;
* daemon: the poll set is that of the list; children are waited for; connections are
  taken; it stops when told to, and no process outlives it;
* the rest, see the hazards in `PROJECT.json`: each names the line and, where no
  property covers it, says why.

## 2. Modules

    BoundedFifo          what a channel promises           (abstract)
       ^ refinement
    ShmChannel           shared-memory channel             -- MCShmChannel
       ^ EXTENDS                      ^ INSTANCE
    ShmChannel_proofs               Gt68xxRead             -- MCGt68xxRead
       ^ INSTANCE                     ^ EXTENDS
       +----------------------------Gt68xxRead_proofs

    DoScan               one scan, both ends, byte by byte
       ^ EXTENDS
    DoScan_proofs

    SanedSession         one client, all its handles; a scan's data abstracted
       ^ EXTENDS         to what DoScan shows of it
    SanedSession_proofs

    SanedDaemon          the process that forks such a session per connection
       ^ EXTENDS
    SanedDaemon_proofs

    SaneiThread          a reader task, process or thread
       ^ EXTENDS
    TestBackend          devices whose images come through a pipe from one
       ^ EXTENDS
    TestBackend_proofs

    ScsiQueue            commands between a backend and the sg driver
       ^ EXTENDS
    ScsiQueue_proofs

    QueueLemmas          sequences used as queues; extended by the proofs of
                         ShmChannel, DoScan, SanedSession, SanedDaemon and
                         ScsiQueue

### ShmChannel

One action per function, split where another process can see the difference:
`shm_channel_writer_put_buffer` stores the count (`WriterPutBytes`) and then
sends the identifier (`WriterPutId`); `reader_start` sends one identifier per
step. Filling a buffer and copying it out are steps of their own, because the
other process runs meanwhile. `openW` and `openR` are the pipe descriptors each
process has open; `IsOpen` gives end of file and SIGPIPE their meaning.
`WriterDie` and `ReaderDie` end a process anywhere. Buffer identifiers are the
code's; contents are model values.

Left out: failures of `shmget`, `shmat` and `pipe` inside `shm_channel_new`, which
return before there is a channel; EINTR, which the functions retry; short
reads of one byte, which do not exist.

### Gt68xxRead

`gt68xx_device_read` is a loop, so a call is a sequence of steps between `call`
being `"idle"`: get a block, copy it, give it back, transfer. It composes with
ShmChannel by INSTANCE: each of its steps that touches the channel is a
ShmChannel action plus what `gt68xx_low.c` adds. The child is
`gt68xx_reader_process` with its own `left`; `left` is a `size_t` and wraps at
`SizeMod`. Calibration scans read USB directly. The content of the image is
abstracted to positions: byte k is k.

The parent ignores the number of bytes the child announced, so a bulk read that
returns less than asked for would break the order. `ShortReads` says whether
USB may do that; in the runs it may not, as bulk reads of whole transfers return
what was asked for as long as the scanner has it. With `ShortReads = TRUE`
`InOrder` fails: this is the assumption the code rests on.

### DoScan

`saned` is one process: a round of its loop is the step at `"top"` (select, then
write or read), `StoreStatus`, and `ProcessRequest` if the control connection was
readable *at select*, kept in `rpc_ready`. Bytes are tokens that say what they
were stored as (byte k of length n, image byte p, status s, or what malloc
left), how many image bytes went before, and how many are left of the record, so
that a wrong cut, a stale byte or a gap shows. `HdrLen`, `BufferSize` and
`SocketBuf` stand for 4, 1 MiB and the kernel's buffers; the code's 5 for a
status record is `HdrLen + 1`. A write moves as much as ring end, socket and
`bytes_in_buf` allow; how the client cuts its reads is free: it may be
scheduled after any byte. The client is `sane_read`, `sane_cancel` and any other
call (`"call"`) of `net.c`, one at a time, as its API is not reentrant.

`sane_read` swaps the bytes of 16-bit samples when the two ends differ in byte
order (`Swapping`), and carries over a byte whose partner has not come
(`hang_over`) or for which there was no room (`left_over`). `SwapBytes` is that
code with its case distinction on the number of bytes read. Bytes are positions
in the image, so `out`, what the calls returned, shows both loss and order.
One handle is modelled: the globals `depth`, `server_big_endian`, `hang_over` and
`left_over` are also changed by other handles' calls.

Bytes of the ring that have been written to the socket become `Junk` (`Written`).
The code leaves them, and so it may send some of them a second time behind the
status byte, see the notes in section 5; what they hold then makes no difference
to a client that has stopped reading, and would multiply the states.

`select()` fails in two ways. EBADF, when the backend closed its descriptor, is taken for
the end of the image (`SelectFails`). Anything else, a signal included, leaves the loop at
any round: no record is sent and the ring is lost (`SelectBreaks`). Its
SANE_STATUS_IO_ERROR is a value of its own in the model, so that `ScanEndsForClient` can
except it by name. That step is the environment's and owed by no fairness.

Assumed of the scanner's backend: `sane_read` gives at least nothing and ends with
a status after the image, or an error at any time; it closes its select
descriptor, if at all, not before the last byte.

### SanedSession

`process_request` and `do_scan` call each other, so running scans form a stack,
`frames`; only the innermost works. `handle` is the table with its three bits,
and `get_free_handle` is translated with its static index, including its
off-by-one at slot 0 (`Grows`, `"spin"`). START is three steps: the reply,
`poll`, `accept`; the client's `connect` comes between any of them, late or never.
A data connection holds nothing, data, or the status; that is all a session can
tell. `Used` is the backend handle that do_scan is about to touch: the one it
copied when it started, and for the `sane_cancel` at its end whatever the table
holds. OPEN may ask for a password: saned is then inside `auth_callback`, at
`"auth"`, where it serves AUTHORIZE only, and the client goes through the frontend's
callback (`PasswordAsked`, `Authorize`). `Crash` is what follows when a backend is handed
a closed handle. A process only the watchdog (`alarm(3600)`) can free is `Blocked`.

OPEN may fail in the scanner's backend (`Refuse`) and in `realloc` (`LoseTable`). In the
latter the counters have moved by then and the pointer to the table is overwritten by
NULL: every handle the client holds is gone (`lost`), the backend's new handle stays
open, and OPEN is answered with an error. An OPEN that the scanner's backend refuses is
still answered; anything that looks into the table dereferences NULL and ends saned
(`LostTable`): `do_scan` at its docancel when that OPEN came in mid-scan,
`decode_handle` at the next request on a handle, `get_free_handle` after the next
`sane_open`, `quit()` at the end of the client. `OnHandle` guards the requests on a
handle accordingly. `HandlesStay` therefore says two things: with a table, a
held handle is in use and stands for its device; without one, no call on a handle is
answered any more, so that no frontend is told "good" of a handle that is gone.
`lost` is reached with a handle held, and in mid-scan, in the run's instance.

Assumed of the frontend: it makes one call at a time. It may close a handle in
mid-scan, as `sane_close` of `net.c` allows. Its password callback returns and makes
no SANE calls. Passwords that CONTROL_OPTION and START may ask for go through the
same two functions and are left out.

### SanedDaemon

A round of `run_standalone`'s loop is `Poll`, one action per event it reports, `Rebind`,
and one `Reap` and `RemoveChild` per child that has ended. Fork and `add_child`, and
`waitpid()` and the removal from the list, are steps apart (`child` is what the first
returned), because SIGTERM may come between them: `Signal` runs `bail_out`, which never
returns to what it interrupted. `walk` pairs the entries of `saned_fds` with the elements
of `poll_set` as the code's loop does; `Abort` is its assertion. A descriptor has the
lowest number not in use, and `of` says what it really is, so that a stale number may
hit another's descriptor. `AddChild` and `AddChildFails` have each failure of memory and
of `pidfd_open`; `DoBindings` opens any of the sockets; a socket fails at any time.

Sessions and Avahi may end at any time. A session inherits the list and the handler
(`kids`, `Terminated`): a SIGTERM sends it into `bail_out` too, where it ends Avahi and,
if the list had anyone in it, waits for ever for processes that are not its children
(`"spinning"`) until the other of the two signals, or SIGKILL, ends it.

Left out: daemonizing and dropping privileges; SIGTERM within the few instructions of
`add_fd` or `close_fds` that relink a list; a second signal to the daemon; sockets once
the daemon stops, as nobody looks at them.

### SaneiThread and TestBackend

`forked` says which of the two builds of `sanei_thread.c` it is. As a thread, a task
reads its argument from the static `td` only when it runs (`Enter`), is
cancelled at its writes only, and shares the frontend's descriptors and its
SIGPIPE, which `sanei_thread_begin` ignores and `sanei_thread_waitpid` restores. As a
process it has copies of everything, dies anywhere, and inherits a SIGTERM
handler if the frontend has one (`catches`): until `reader_task` has reset it, a SIGTERM
is handled there and lost to `sanei_thread_kill`. The handler is taken to do no more
than a frontend's flag. Those of scanimage and saned go further: scanimage's calls
`sane_cancel` in the child too, which closes its copies of the pipe, so that the
child ends at its first write; saned's is that of SanedDaemon, which exits or spins.

TestBackend adds the pipe: `rd` and `wr` are the processes that hold an end open, which
is what decides between blocking, end of file and SIGPIPE. `sane_start` is one
step, the task it starts runs at any later time; `sane_read` and `sane_cancel` are
steps (`call.pc`) through `read()` and the four parts of `finish_pass`, between which
the reader goes on. `Reopen` is `sane_close` followed by `sane_open`: nobody can look
at the device between the two. `bytes_total` is in `size_t` arithmetic (`SizeMod`).

A frontend that uses one device at a time, in the order the standard asks for, on
a system that refuses nothing, is the easy case. Everything else is modelled too
and recorded in `trouble`: `sane_start` or `sane_close` in mid-scan, two devices
started at the same time, non-blocking mode, failures of `pipe()`, of the task's
creation, in the reader; and, a kind of its own ("stale"), a `pipe()` that fails in a
device that keeps the pipe of an earlier scan, in which it then reads on. Where one of
them breaks a property, the property names it, and it is meant to hold under all the
others. `MaxTrouble` bounds how many
kinds one behaviour chooses in a run; the proofs are for any number.

Left out: options, which can not be set while scanning; the counters of pages and
of the three passes; parameters that make an image empty, with which `sane_start`
fails early; the status a task returns, which `finish_pass` only logs.

### ScsiQueue

The calls of a backend's reader, `Enter`, `Wait`, `Flush`, and inside them `issue` one
request at a time (`IssueSent`, `IssueRefused`, `IssueFails`, `MarkFailed`), because SIGTERM may come
between any two of the code's ATOMIC sections and runs a flush of its own
(`Sigterm`; `backend/umax.c` and its like install it) before the process exits. A
request has its `running` and `done` flags; the driver has `device`, commands not
finished, and `replies`, results not read. Version 2 of sg takes a command by `write()`
and gives its result by `read()`; with version 3 the command is over when
`ioctl(SG_IO)` returns, but keeps its place until it is waited for.

`trouble` records what went wrong before: `refused`, the driver had no room for the
request at the head of the queue in twenty attempts; `failed`, it returned an error;
`late`, a result could not be read when the library gave up waiting. The first two
spoil version 3, the third version 2 (`Clean`), and the invariants say so.

A version 2 `write()` that fails sets `running` within its ATOMIC section, and `done` and
the status only behind it (`sanei/sanei_scsi.c:1914` and `:1978`), with signals open:
`IssueFails` and `MarkFailed` are two steps. A SIGTERM in between finds a request that
runs, is not done and was never taken; the handler's flush polls for its reply until
`sane_scsicmd_timeout` is over. `DriverInStep` excepts that request (`Unmarked`) and bounds
it: there is none except in that gap or in the handler that interrupted it, and it comes
after all others that are outstanding, so that a flush waits for it last and takes
everything else back first. With version 3 both flags are set in one section. Inside the handler
`sg_queue_used` may lag by the command whose write it interrupted; the invariant speaks of
it outside the handler only.

`TypeOK` bounds `used`, the library's own count. After a late result the driver may hold
more than that.

Assumed: version 2 finishes commands in the order in which it took them; a backend
waits for them in that order too, as the assertion in `sanei_scsi_req_wait` demands.
Left out: the list of free requests, the data, what the sense handler looks at
(it yields "good" or "error"), `sg_version` exactly 30000, for which some branches
test neither way, a SIGTERM during a flush the reader itself called (no backend does
both), and time: with version 3 a flush polls for every outstanding request until
its timeout, as there is never anything to read (`FlushGivesUp`).

## 3. Runs

| Run | Configuration | Distinct states | Shows |
|---|---|---|---|
| `shm_channel` | 3 buffers, 2 contents, sizes 1..2, both processes mortal | 45 779 | ownership, no SIGPIPE in the frontend, FIFO refinement, end of file reaches a live reader, no stranded writer |
| `gt68xx_read` | 2 buffers of 4 bytes, transfers of 2, images of 3 and 5, reads of 2 and 3, two scans | 12 812 | bytes in order, counts agree, reads return |
| `gt68xx_eof` | the same | violation | an error of the child is reported as end of file |
| `do_scan` | ring of 5, lengths of 2, socket of 3, image of 4, reads of at most 3, swapping | 345 796 | stream intact, swapping loses nothing, end of file complete, cancel, dead client, scan ends |
| `do_scan_order` | the same | violation | a carried byte puts samples out of order |
| `saned_session` | two handles, three opens, table growing by 2 | 161 210 | handles stay or are lost all at once, one scan per device, calls return, process ends |
| `saned_closed_handle` | the same | violation | a closed backend handle is used |
| `saned_table` | three handles, four opens | violation | the search for a slot never ends |
| `saned_daemon` | one listening socket, Avahi, two sessions | 171 724 | poll set and list agree, children waited for, connections taken, no orphans, it stops |
| `test_backend` | two devices, two tasks, images of 2 blocks, pipes of 1, one kind of trouble | 192 375 | image in order and complete, nothing left, no SIGPIPE in the frontend, read and cancel return |
| `scsi_queue` | driver depth 2, queue of 3, four commands | 703 549 | queue, count and driver agree but in a named gap; order; good means executed; waits return |
| `scsi_running` | the same | violation | good for a command that was never sent |

Why the bounds are enough. Three buffers put one in each process's hands and one
in a pipe, or two in one pipe, and so cover every relation two buffers can have.
In `gt68xx_read`, 5 is a full block and a partial one, 3 less than a block, and no
read size divides either; two scans show what the first leaves behind. A ring of 5
with 2-byte lengths lets lengths, data and the status be cut by the ring's end at
every position, and a socket of 3 cuts every record. An image of two samples, read by
one, two or three bytes, meets every case of `SwapBytes` with and without a byte
carried over; a scan without swapping is the same with data passed on as they are,
as `Swapping` bears on nothing else. Two handles nest scans in both orders; three opens
reuse a slot while the other is held; four with three handles let the index
come round to slot 0 with a full table. A daemon with Avahi and two sessions has a child that ended, one
that still runs and one without a pidfd at once, and lets a descriptor's number go from
one to the next; with two listening sockets its invariants hold as well (2 537 008
states), but the temporal properties take too long. Two devices show what tasks share; a pipe of 1
under an image of 2 blocks the reader; a restart in mid-scan takes the identifier of
the other device. One kind of trouble at a time keeps causes apart. A driver of depth
2 under a queue of 3 leaves a request waiting behind two that run, and the fourth
command meets what three left behind.

Symmetry is not used: every passing run has temporal properties, for which it is
unsound, and the others are small.

Where CHECK_DEADLOCK is left on, a state without a successor is an error;
`BothEnded`, `Finished` and `Ended` name the states where the system may stop. Of the
passing runs two switch the check off: `test_backend`, whose frontend may wait for
ever on the conditions that its liveness properties name, or be killed, and
`saned_daemon`, where the daemon exits.

### Fairness

* ShmChannel: weak fairness of each process, that is, of the scheduler. Closing,
  dying and freeing are never owed.
* Gt68xxRead: weak fairness of the call and of the child; a bulk read ends or
  times out when the scanner has nothing more. That the child wakes after five
  minutes and closes is not assumed.
* DoScan: weak fairness of saned, without the failure of select(); strong fairness of
  the scanner giving at least a byte or a status (the loop asks again and again: the data connection is always
  in the write mask, so it spins rather than sleeps); weak fairness of a call's return;
  strong fairness of the client reading, because a frontend that keeps making
  other calls must still read at some time.
* SanedSession: weak fairness of saned and of the alarm, and of a call going on
  when what it waits for is there, the password callback included. The frontend
  owes no call.
* SanedDaemon: weak fairness of the daemon, which is sequential; strong fairness of
  accepting from each socket, so that a lack of descriptors does not last for ever.
  No session is owed to end, nor a connection or signal to come.
* TestBackend: weak fairness of the call under way and of each task; no failure,
  and no call, is owed.
* ScsiQueue: weak fairness of the library's steps and of the driver finishing what
  it took. Refusals, errors and SIGTERM are not owed, nor is that a result comes
  late.

`CancelEndsScan` and `ClientDeathEndsServer` hold without the client's reading being
fair: a cancel must work for a client that reads nothing.
`CallReturns` does need the alarm: with a scan nested in another, a frontend that
reads the outer one waits for the inner one, which waits for a reader.

## 4. Proofs

The theorems hold for every value of the constants that the named ASSUMEs of a
module admit, and therefore without the bounds the runs need. In each module IInv
is the inductive invariant: the properties, and under "what ... rest on" what they
need. `InitIInv` and one lemma per action show that it is preserved, with one
step per conjunct; `Invariance` is `Spec => []IInv`, and the other theorems
follow from it. TLC has checked each IInv as an invariant of the module's run.

**ShmChannel**, for every number of buffers in 1..255 (what `shm_channel_new`
admits), every buffer size, every set of contents and every pipe capacity that
holds all identifiers: `TypeCorrect`, `BuffersHaveOneOwner`,
`FrontendSurvives`, and `ChannelIsFifo`: `Spec => FifoSpec`, the refinement of
BoundedFifo. `Ownership` needs `Holding`: that a process in the middle of filling or
copying does hold a buffer, or giving it back could duplicate one.
`ReaderNeverSigpipe` needs `Descriptors`: that a live reader keeps
`reader_put_pipe[0]` open itself, which is the point of the comment in
`shm_channel_reader_init`. The refinement needs `Contents`: between storing the
count and copying out nobody writes the buffer, which follows from `Ownership`
again. It maps the queue to the messages in transit, `InTransit`: the buffer the
reader is about to copy, then those in the pipe; copying out is the abstract `Take`,
sending the identifier is `Put`, everything else stutters, except that a process that
ends is `StopWriting` or `StopReading` and reading end of file is `TellEnd`.

**Gt68xxRead**, for every number and size of buffers, size of transfer, set of image and
request sizes, and width of `size_t` that holds the images (`Gt68xxAssumption`):
`TypeCorrect`, `NoWaitOnSleep` (`NoWaitOnSleepingChild`), `BytesInOrder` (`InOrder`), and
`ChannelKept`, that ShmChannel's ownership survives any succession of scans.
`ChannelStep` shows that what both processes do with the channel are steps of ShmChannel,
so that the lemmas of ShmChannel_proofs carry over its invariant; `ReadStart` begins it
anew. `ChildCounts` says that the child's `left` is what it has not sent of the Total, modulo
`SizeMod`; `Row` and `Coming` that the blocks in the pipe follow one another and the one the
parent holds, from the position it has reached. If bulk reads may be short the child
sends more blocks than the parent counts, never fewer (`Reached`), so
`NoWaitOnSleepingChild` holds with short reads too, and only `BytesInOrder` assumes
`ShortReads = FALSE`. IInv has been checked by TLC for both values.

**DoScan**, for every size of ring, record length, socket buffer, image and read, with
and without swapping (`DoScanAssumption`: the ring has room for two lengths and a status
byte): `TypeCorrect`, `StreamArrives` (`StreamIntact`), `BytesKept` (`NothingLost`) and
`EofIsTrue` (`EofIsComplete`). `Pending` numbers the bytes on their way, first those in the
connection, then those in the ring, and `Stream` says that each may follow the one before
(`Follows`), beginning with what the client has taken last (`Taken`). So a step at either
end disturbs the chain at one joint only: `Appended` for what is stored, `StreamTaken`
for what is read, and a write moves nothing (`WriteClientStep`). `EndsRecord` closes it: until the status has been
stored the last byte ends a record at `produced`. `Indices` ties `reader` to `writer` and
`bytes_in_buf`; the exception is `Rewound`, between the read that ends the image and
`StoreStatus` in the same round, when `bytes_in_buf` counts a length that is not there; that the status
always fits then needs room for two lengths. `EndOfImage` makes "end of file" true
where it is stored, and `Follows` carries that to where it is read. `SwapBytesFacts` shows of
the swapping, for every length of read, that it keeps the bytes; that it keeps their
order is false, see `do_scan_order`. TLC has checked IInv in the run's instance and with
rings of 3, 6 and 7, lengths of 1, 2 and 3, and without swapping.

**ScsiQueue**, for every depth of the driver, length of the queue and number of
commands (`ScsiAssumption`): `TypeCorrect`, `QueueAndDriverAgree` (`DriverInStep`),
`CommandsInOrder` (`SentInOrder`) and `GoodIsTrue` (`GoodMeansExecuted`). The running
requests are a prefix of the queue (`Positions`), the queue is in the order of entry
and what does not run comes after all that was sent (`Order`, `Sent`): this gives the
order. That a "good" is true rests on `Results`, what is done has been issued, which holds
as long as `Clean` does, and on `Stages`, which request the code holds between two of its
steps. `GoodMeansExecuted` says nothing of version 3 once a request was refused or failed:
that hazard is covered by `EnsuredRunning`, which is false, and by `SentInOrder`. `Sent`
and `Failing` carry the exception of `DriverInStep`: which running request was not sent,
from the failed write to its mark and, if SIGTERM comes first, to the end of the process.

**SanedSession**, for every number of clients, every `ALLOC_INCREMENT` above 1 and any
bounds on opens and slots (`SessionAssumption`): `TypeCorrect`, `HeldHandlesStay`
(`HandlesStay`) and `DeviceScannedOnce` (`OneScanPerDevice`). Three parts of the state
have to agree, and `do_scan` recurses between them: who holds a slot, the conversation under
way (`Calls`, `Holders`: a slot being handed out is nobody's yet), and the devices in the
table (`DevicesInTable`: a device is in one slot, and in none while the answer to its
open is due). A CLOSE and OPEN inside a scan give the slot of a running scan to another
device, so a frame and its slot need not have the same device; `Scans` says what holds
instead: the slot stands for the frame's device or for one opened later, and where it is
the same the slot is marked as scanning, which START refuses. Of a lost table the invariant
keeps what the memory held last, so that the other parts need no case of their own, and
`Kept` and `lost => Unserved` give `HandlesStay`: an answer to a call on a handle is only
made while there is a table, and losing it is answered with an error (`LoseTableStep`).

**SanedDaemon**, for every number of sockets and sessions (`DaemonAssumption`):
`TypeCorrect`, `AssertionHolds` (`PollSetAgrees`, the `assert` of `run_standalone`) and
`NoneLeftBehind` (`NoOrphans`). `PollSets` says when the poll set may be stale: never in a
state that adds a descriptor, and while one is dropped only if a child without pidfd is
waited for by the clock. For `NoOrphans`, `Tracked`: a live process is in the list, or was
forked just now, or could not be listed; what is removed has been waited for.
`Tables` (a process and a descriptor are listed once) keeps removals from hitting another.

**TestBackend**, for every number of devices and tasks, image, pipe and read size, and
for any number of kinds of trouble in one behaviour (`TaskAssumption`, `TestAssumption`):
`TypeCorrect`, `ImageDelivered` (`ImageInOrder`), `EofTrue` (`EofIsComplete`),
`NothingLeftOver` (`NothingLeft`) and `NoSigpipe` (`FrontendSurvives`). The image needs
`Streams` (what was delivered and what is in the pipe make up what the reader sent),
which needs `HandedOver` (the thread that has yet to look at `td` is the last one begun)
and `Owned` (no descriptor belongs to two devices). `Counted` and `Complete` tie
`bytes_total` to what was delivered; `Fed` says that a pipe that is read has a writer, so
that `read()` returning 0 is not taken for the end; `Tidy` is `NothingLeft` between the
four steps of `finish_pass`; `Guarded` ties SIGPIPE's disposition to live threads.
Here the proof corrected the model: `ImageInOrder` could not be proved for two kinds of
trouble at once, and TLC with `MaxTrouble = 2` (1 760 000 states, all properties) showed
the "stale" pipe of section 5. In return `EofIsComplete` needs fewer exceptions than it had.

`QueueLemmas` holds what the proofs need about queues: what appending to and taking from
a sequence without repetition leaves, its length against the number of things there are
(pigeonhole), two queues in a row; and that a set of numbers has a least element.

Only model-checked: liveness, the leads-to properties of every module, as TLAPS
proves nothing from fairness that needs ENABLED. Every invariant of a passing run is
stated by a theorem.

## 5. What the code does against what is said of it

1. `gt68xx_eof`: a USB error in the reader process reaches the frontend as
   SANE_STATUS_EOF in the middle of the image (`backend/gt68xx_low.c:806`).
2. `do_scan_order`: when a byte of a 16-bit sample is carried over and the next read
   brings more than one byte, `sane_read` of `net.c` tells odd from even without it, and
   returns samples with their bytes in the wrong order (`backend/net.c:2303`).
3. `saned_closed_handle`: a frontend may close a handle in mid-scan; do_scan serves the
   CLOSE and goes on with its copy of the closed handle (`frontend/saned.c:1689`).
4. `saned_table`: get_free_handle's end test precedes the wrap of its index
   (`frontend/saned.c:540`).
5. `scsi_running`: with SG_IO, a wait takes a request no ioctl has taken for one that has
   returned, and says good (`sanei/sanei_scsi.c:2271`).

Notes, seen while modelling and stated by no run of their own:

* when malloc of the ring fails, do_scan closes the data connection without a
  record, and `sane_read` of `net.c` takes the end of the connection for "no data yet";
  `ScanEndsForClient` is stated from the point where the buffer exists;
* the four bytes reserved for the record that the last read did not fill stay in
  `bytes_in_buf` (`frontend/saned.c:1829`) and are sent after the status byte, which no
  client reads; on a connection closed by then they may raise SIGPIPE;
* any failure of select() but EBADF ends do_scan without a record as well
  (`frontend/saned.c:1757`), with the same end for the client; `ScanEndsForClient` excepts it;
* `get_free_handle` overwrites its table by realloc's NULL and keeps the new count
  (`frontend/saned.c:547`): saned dereferences NULL at the next look into the table,
  also when the client only leaves;
* SIGTERM between a failed version 2 write and its mark (`sanei/sanei_scsi.c:1914`, `:1978`)
  makes the flush wait for a command nobody took, until its timeout; `DriverInStep`
  excepts it;
* accept() is called after the poll timed out (`frontend/saned.c:2178`): saned then waits
  until the watchdog ends it;
* the test backend adds read()'s -1 for "nothing yet" up in `size_t` and takes it for the
  end of the image, so that a non-blocking read ends the pass with SANE_STATUS_GOOD and
  a length of -1 (`backend/test.c:3005`); `EofIsComplete` excepts it;
* a device keeps `pipe` after a `sane_start` in mid-scan whose `pipe()` failed
  (`backend/test.c:2880`): `sane_start` says SANE_STATUS_IO_ERROR, but a `sane_read`
  that follows goes on in the pipe of the earlier scan, of which it may have had a part;
* the daemon's assertion `sfd->fd == pfd->fd` (`frontend/saned.c:3376`) fails when one
  child has no pidfd and another, that has one, is reaped on the timeout: its
  descriptor leaves the list and `poll_set_valid` stays. `PollSetAgrees` excepts it;
* SIGTERM between `waitpid()` and `numchildren--` makes `bail_out` wait for ever for a
  process already waited for, as `waitpid()` then fails at once, in a busy loop;
  `DaemonStops` excepts it. Between fork and `add_child` it leaves that process behind,
  Avahi's announcement included; `NoOrphans` excepts it;
* a session that gets SIGTERM or SIGINT while its inherited list is not empty ends the
  daemon's Avahi process and then spins (`frontend/saned.c:2533`), and a daemon
  told to stop waits for it;
* when `add_fd` has no memory it closes the pidfd, but `add_child` keeps the number
  (`frontend/saned.c:2391`): the child is only waited for when another is, and
  `close_fds` may then close another child's pidfd that got the number;
* when no socket can be bound again after an error, `do_bindings` says "couldn't bind an
  address. Exiting." only if the address list is NULL (`frontend/saned.c:3069`), which it
  is not: the daemon goes on without a listening socket;
* with `--once` and two sockets readable in the same round both connections are
  served, though the comment at `frontend/saned.c:3397` speaks of the only one.

## 6. Plan

Done: ShmChannel, Gt68xxRead, DoScan with the byte swapping, SanedSession with the
password conversation, SanedDaemon, SaneiThread, TestBackend, ScsiQueue; the invariants
of all of them proved, and the refinement of BoundedFifo.

Worth proving next, as action properties: what a step may never do to a handle, a task or
a request that is another's; and that SanedSession's view of a data connection
("nothing, data, or the status") is what DoScan implements.

Modules that would be worth writing: `sanei_access.c`, device locks with the takeover of
stale ones, and `snapscan-mutex.c`, both against mutual exclusion; the buffer and
allocation account of the wire protocol; the device table of `sanei_usb.c`; the rings of
epsonds, ricoh2 and pieusb against a byte queue; BJNP retries.

Not planned: command sets, calibration and image processing of the hardware
backends, file formats, XML and HTTP: hardware registers, pixel arithmetic or I/O
with no control to speak of; `PROJECT.json` lists them.
