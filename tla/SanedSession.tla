---------------------------- MODULE SanedSession ----------------------------
(***************************************************************************)
(* One client connection of frontend/saned.c: its handle table, the        *)
(* requests process_request serves, and the scans.  While it scans, do_scan*)
(* calls process_request again, so another handle's scan nests inside it;  *)
(* only the innermost moves data and serves requests.  At the other end is *)
(* backend/net.c with a single-threaded frontend.                          *)
(*                                                                         *)
(* A scan's data is abstracted to what its data connection holds: nothing, *)
(* as much as it takes before it blocks, or the final status (DoScan has   *)
(* the ring and the records).                                              *)
(***************************************************************************)
EXTENDS Integers, Sequences

CONSTANTS Clients,    \* Net_Scanner structures of the frontend
          Alloc,      \* ALLOC_INCREMENT
          MaxOpens,   \* bound: devices opened in one session
          MaxSlots    \* bound: size of the handle table

ASSUME SessionAssumption ==
  Alloc \in Nat \ {0, 1} /\ MaxOpens \in Nat /\ MaxSlots \in Nat /\ MaxSlots >= Alloc

VARIABLES
  pc,           \* "serve", "auth", "poll", "accept", "end" (of do_scan), "spin", "exited"
  handle, num_handles, last_handle_checked,
  lost,         \* the pointer to the handle table is NULL: realloc failed
  frames,       \* the running do_scan calls, innermost last
  starting,     \* START: the scan whose data connection is awaited
  be_open,      \* open handles of the scanner's backends
  request, reply,   \* the control connection
  pending,      \* data connection made and not accepted, or NoDevice
  conn,         \* what each data connection holds
  call,         \* the frontend's call under way
  slot, device, \* per Net_Scanner: s->handle, and the device it stands for
  data,         \* s->data >= 0
  alive, opens

table   == <<num_handles, last_handle_checked, lost>>
server  == <<handle, table, frames, starting, be_open>>
network == <<request, reply, pending, conn>>
client  == <<call, slot, device, data, alive, opens>>
vars    == <<pc, server, network, client>>

Slots    == 0..(MaxSlots - 1)
Devices  == 1..MaxOpens
NoDevice == 0
NoSlot   == -1
Nobody   == "nobody"
Empty    == [inuse |-> FALSE, scanning |-> FALSE, docancel |-> FALSE, be |-> NoDevice]
None     == [op |-> "none", slot |-> NoSlot]
NoReply  == [status |-> "none", slot |-> NoSlot, be |-> NoDevice]
NoCall   == [op |-> "none", who |-> Nobody]

Init ==
  /\ pc = "serve"
  /\ handle = [h \in Slots |-> Empty] /\ num_handles = 0 /\ last_handle_checked = -1
  /\ lost = FALSE
  /\ frames = <<>> /\ starting = [h |-> NoSlot, be |-> NoDevice] /\ be_open = {}
  /\ request = None /\ reply = NoReply /\ pending = NoDevice
  /\ conn = [d \in Devices |-> "empty"]
  /\ call = NoCall
  /\ slot = [c \in Clients |-> NoSlot] /\ device = [c \in Clients |-> NoDevice]
  /\ data = [c \in Clients |-> FALSE]
  /\ alive = TRUE /\ opens = 0

-----------------------------------------------------------------------------
\* process_request.

Top == frames[Len(frames)]
\* Where saned goes on after process_request: do_scan looks at its docancel.
Resume(tbl, scans) ==
  IF scans /= <<>> /\ tbl[scans[Len(scans)].h].docancel THEN "end" ELSE "serve"
Requested(op) == pc = "serve" /\ request.op = op /\ request' = None
Answer(status) == reply' = [NoReply EXCEPT !.status = status]
\* What looks into the table needs it; decode_handle does.
OnHandle(op) == Requested(op) /\ ~lost
KnownSlot == request.slot \in Slots /\ handle[request.slot].inuse

\* get_free_handle: the slots after the one handed out last, around the table,
\* then that one only if it is slot 0: then the search goes on and on.
NthUnwrapped(k) == last_handle_checked + k    \* a faulty variant
Nth(k) == (last_handle_checked + k) % num_handles
FreeNthUnchecked == {k \in 1..num_handles :    \* a faulty variant
                      k < num_handles \/ last_handle_checked <= 0}
FreeNth == {k \in 1..num_handles : /\ ~handle[Nth(k)].inuse
                                   /\ k < num_handles \/ last_handle_checked <= 0}
Grows == FreeNth = {} /\ last_handle_checked /= 0

NewHandle(h, d) ==
  /\ handle' = [handle EXCEPT ![h] = [Empty EXCEPT !.inuse = TRUE, !.be = d]]
  /\ last_handle_checked' = h
  /\ reply' = [status |-> "good", slot |-> h, be |-> d]
  /\ pc' = Resume(handle', frames)

\* sane_open of the scanner's backend, which may fail, and get_free_handle.  When
\* realloc fails the counters have moved and the pointer to the table is lost; the
\* backend's handle stays open and nobody has it.
Refuse == Answer("failed") /\ pc' = Resume(handle, frames) /\ UNCHANGED <<handle, table>>
Grow == Grows /\ num_handles + Alloc <= MaxSlots /\ num_handles' = num_handles + Alloc
LoseTable ==
  /\ Grow /\ last_handle_checked' = num_handles - 1 /\ lost' = TRUE
  /\ Answer("failed") /\ pc' = "serve" /\ UNCHANGED handle
Open ==
  LET d == opens    \* the device that sane_open opens, counted by the client
  IN  \/ Refuse /\ UNCHANGED be_open
      \/ /\ ~lost /\ be_open' = be_open \cup {d}
         /\ \/ LoseTable
            \/ /\ FreeNth /= {}
               /\ NewHandle(Nth(CHOOSE k \in FreeNth : \A j \in FreeNth : k <= j), d)
               /\ UNCHANGED <<num_handles, lost>>
            \/ Grow /\ NewHandle(num_handles, d) /\ UNCHANGED lost
            \/ /\ FreeNth = {} /\ ~Grows
               /\ pc' = "spin"
               /\ UNCHANGED <<handle, table, reply>>

\* sanei_authorize asks for a password if the users file names the resource.
ServeOpen ==
  /\ Requested("open") /\ (lost => frames = <<>>)
  /\ \/ Open
     \/ /\ Answer("auth") /\ pc' = "auth"
        /\ UNCHANGED <<handle, table, be_open>>
  /\ UNCHANGED <<frames, starting, pending, conn, client>>

\* auth_callback waits for AUTHORIZE.  At the end of the connection sanei_authorize
\* goes on with the empty password.
ServeAuthorize ==
  /\ pc = "auth"
  /\ \/ request.op = "password" /\ Open
     \/ request.op = "wrong_password" /\ Refuse /\ UNCHANGED be_open
     \/ request = None /\ ~alive /\ Refuse /\ UNCHANGED be_open
  /\ request' = None
  /\ UNCHANGED <<frames, starting, pending, conn, client>>

\* close_handle; the docancel and scanning bits stay until the slot is reused.
ServeClose ==
  /\ OnHandle("close")
  /\ IF KnownSlot
     THEN /\ be_open' = be_open \ {handle[request.slot].be}
          /\ handle' = [handle EXCEPT ![request.slot].inuse = FALSE]
     ELSE UNCHANGED <<be_open, handle>>
  /\ Answer("good")
  /\ pc' = Resume(handle', frames)
  /\ UNCHANGED <<table, frames, starting, pending, conn, client>>

ServeCancel ==
  /\ OnHandle("cancel")
  /\ handle' = IF KnownSlot THEN [handle EXCEPT ![request.slot].docancel = TRUE]
               ELSE handle
  /\ Answer("good")
  /\ pc' = Resume(handle', frames)
  /\ UNCHANGED <<table, frames, starting, be_open, pending, conn, client>>

StartScan(h) ==    \* start_scan
  /\ handle' = [handle EXCEPT ![h].scanning = TRUE, ![h].docancel = FALSE]
  /\ starting' = [h |-> h, be |-> handle[h].be]

\* A faulty variant of the next action: the scanning bit is not looked at.
ServeStartTwice ==
  LET h == request.slot
  IN  /\ OnHandle("start") /\ KnownSlot
      /\ StartScan(h)
      /\ Answer("good")
      /\ pc' = "poll"
      /\ UNCHANGED <<table, frames, be_open, pending, conn, client>>

\* An unknown handle gets no reply at all.
ServeStart ==
  LET h == request.slot
  IN  /\ OnHandle("start")
      /\ \/ /\ KnownSlot /\ ~handle[h].scanning /\ StartScan(h)
            /\ Answer("good")
            /\ pc' = "poll"
         \/ /\ KnownSlot
            /\ Answer(IF handle[h].scanning THEN "busy" ELSE "failed")
            /\ pc' = Resume(handle, frames)
            /\ UNCHANGED <<handle, starting>>
         \/ /\ ~KnownSlot
            /\ pc' = Resume(handle, frames)
            /\ UNCHANGED <<handle, starting, reply>>
      /\ UNCHANGED <<table, frames, be_open, pending, conn, client>>

\* process_request returns -1, for SANE_NET_EXIT and at the end of the client.
Quit == pc' = "exited" /\ frames' = <<>> /\ be_open' = {}
\* A faulty variant of the next action: the end of the connection is ignored.
ServeEndExitOnly ==
  /\ pc = "serve" /\ request' = None /\ request.op = "exit"
  /\ frames = <<>> /\ Quit
  /\ UNCHANGED <<handle, table, starting, reply, pending,
                 conn, client>>
ServeEnd ==
  /\ pc = "serve" /\ ~lost /\ request' = None
  /\ request.op = "exit" \/ (request = None /\ ~alive)
  /\ \/ /\ frames = <<>> /\ Quit /\ UNCHANGED handle
     \/ /\ frames /= <<>>
        /\ handle' = [handle EXCEPT ![Top.h].docancel = TRUE]
        /\ pc' = "end" /\ UNCHANGED <<frames, be_open>>
  /\ UNCHANGED <<table, starting, reply, pending, conn, client>>

\* Without the table the next look into it ends saned: that of do_scan at its
\* docancel, of decode_handle, of get_free_handle after another sane_open, or of
\* quit().
LostTable ==
  /\ lost
  /\ \/ pc = "serve" /\ (frames /= <<>> \/ request /= None \/ ~alive)
     \/ pc = "auth" /\ request.op = "password"
  /\ Quit
  /\ UNCHANGED <<handle, table, starting, network, client>>

\* START waits for the data connection, poll() for data_connect_timeout ms at
\* the most; accept() is called whether a connection came or not.
Poll == pc = "poll" /\ pc' = "accept" /\ UNCHANGED <<server, network, client>>

Accept ==
  /\ pc = "accept" /\ pending /= NoDevice
  /\ pending' = NoDevice
  /\ frames' = Append(frames, starting)
  /\ pc' = "serve"
  /\ UNCHANGED <<handle, table, starting, be_open,
                 request, reply, conn, client>>

\* The client reset the connection: getpeername() fails, and the handle stays
\* marked as scanning.
AcceptReset ==
  /\ pc = "accept" /\ pending /= NoDevice /\ ~alive
  /\ pending' = NoDevice
  /\ pc' = Resume(handle, frames)
  /\ UNCHANGED <<server, request, reply, conn, client>>

-----------------------------------------------------------------------------
\* The innermost do_scan.

Connected(d) == \E c \in Clients : device[c] = d /\ data[c]
Scanning == pc = "serve" /\ frames /= <<>> /\ ~lost

ScanData ==
  /\ Scanning /\ Connected(Top.be) /\ conn[Top.be] = "empty"
  /\ conn' = [conn EXCEPT ![Top.be] = "data"]
  /\ UNCHANGED <<pc, server, request, reply, pending, client>>

ScanStatus ==
  /\ Scanning
  /\ Connected(Top.be) => conn[Top.be] = "empty"
  /\ conn' = IF Connected(Top.be) THEN [conn EXCEPT ![Top.be] = "status"] ELSE conn
  /\ pc' = "end"
  /\ UNCHANGED <<server, request, reply, pending, client>>

\* write() to a connection the client closed fails, or its SIGPIPE ends saned.
ScanWriteFails ==
  /\ Scanning /\ ~Connected(Top.be)
  /\ \/ /\ handle' = [handle EXCEPT ![Top.h].docancel = TRUE]
        /\ pc' = "end" /\ UNCHANGED <<frames, be_open>>
     \/ Quit /\ UNCHANGED handle
  /\ UNCHANGED <<table, starting, network, client>>

\* What saned hands to the scanner's backend next: do_scan reads from the handle
\* it copied when it started, and cancels the one that is in the table now.
Used == CASE Scanning -> {Top.be}
          [] pc = "end" /\ handle[Top.h].docancel -> {handle[Top.h].be}
          [] OTHER -> {}

\* do_scan returns, the data connection is closed, and process_request returns
\* 0 to the do_scan around it.
ScanEnd ==
  /\ pc = "end"
  /\ handle' = [handle EXCEPT ![Top.h].docancel = FALSE, ![Top.h].scanning = FALSE]
  /\ frames' = SubSeq(frames, 1, Len(frames) - 1)
  /\ pc' = Resume(handle', frames')
  /\ UNCHANGED <<table, starting, be_open, network, client>>

\* A backend that is handed a closed handle may do anything.
Crash ==
  /\ ~(Used \subseteq be_open)
  /\ Quit
  /\ UNCHANGED <<handle, table, starting, network, client>>

BlockedByBugOnly == pc = "spin"    \* a faulty variant
\* alarm(3600) was set by the last request or sane_read; nothing came for an hour.
Blocked == \/ pc = "accept" /\ pending = NoDevice
           \/ pc = "spin"
           \/ pc = "auth" /\ request = None /\ alive
           \/ /\ pc = "serve" /\ request = None /\ alive /\ (lost => frames = <<>>)
              /\ Scanning => Connected(Top.be) /\ conn[Top.be] /= "empty"
Watchdog ==
  /\ Blocked /\ Quit
  /\ UNCHANGED <<handle, table, starting, network, client>>

Saned == \/ ServeOpen \/ ServeAuthorize \/ ServeClose \/ ServeCancel \/ ServeStart \/ ServeEnd
         \/ LostTable
         \/ Poll \/ Accept \/ AcceptReset
         \/ ScanData \/ ScanStatus \/ ScanWriteFails \/ ScanEnd

-----------------------------------------------------------------------------
\* The client: net.c under a frontend that makes one call at a time.

Ready == alive /\ call = NoCall
Ask(op, c) == /\ request' = [op |-> op, slot |-> slot[c]]
              /\ call' = [op |-> op, who |-> c]
              /\ UNCHANGED <<pc, server, reply, pending, conn, slot, device, data, alive>>

AskOpen(c) == /\ Ready /\ slot[c] = NoSlot /\ opens < MaxOpens
              /\ opens' = opens + 1
              /\ Ask("open", c)
AskClose(c)  == Ready /\ slot[c] /= NoSlot /\ Ask("close", c) /\ UNCHANGED opens
AskCancel(c) == Ready /\ slot[c] /= NoSlot /\ Ask("cancel", c) /\ UNCHANGED opens
AskStart(c)  == Ready /\ slot[c] /= NoSlot /\ ~data[c] /\ Ask("start", c) /\ UNCHANGED opens

\* sane_open, sane_close, sane_cancel and sane_start get their reply; closing and
\* cancelling close the data connection, which do_scan of saned sees by itself.
Returns ==
  LET c == call.who
  IN  /\ call.op \in {"open", "close", "cancel", "start"}
      /\ reply /= NoReply /\ reply.status /= "auth"
      /\ reply' = NoReply
      /\ slot' = CASE call.op = "open"  -> [slot EXCEPT ![c] = reply.slot]
                   [] call.op = "close" -> [slot EXCEPT ![c] = NoSlot]
                   [] OTHER -> slot
      /\ device' = CASE call.op = "open"  -> [device EXCEPT ![c] = reply.be]
                     [] call.op = "close" -> [device EXCEPT ![c] = NoDevice]
                     [] OTHER -> device
      /\ IF call.op \in {"cancel", "close"}
         THEN /\ data' = [data EXCEPT ![c] = FALSE]
              /\ conn' = [conn EXCEPT ![device[c]] = "empty"]
         ELSE UNCHANGED <<data, conn>>
      /\ call' = IF call.op = "start" /\ reply.status = "good"
                 THEN [op |-> "connect", who |-> c] ELSE NoCall
      /\ UNCHANGED <<pc, server, request, pending, alive, opens>>

\* sane_open calls the frontend's auth_callback, and sends what it gave.
PasswordAsked ==
  /\ call.op = "open" /\ reply.status = "auth"
  /\ reply' = NoReply /\ call' = [call EXCEPT !.op = "ask"]
  /\ UNCHANGED <<pc, server, request, pending, conn, slot, device, data, alive, opens>>
Authorize ==
  /\ call.op = "ask"
  /\ \E op \in {"password", "wrong_password"} : request' = [op |-> op, slot |-> NoSlot]
  /\ call' = [call EXCEPT !.op = "open"]
  /\ UNCHANGED <<pc, server, reply, pending, conn, slot, device, data, alive, opens>>

\* connect() to the port of the reply, from within sane_start.
Connect ==
  /\ call.op = "connect" /\ pc \in {"poll", "accept"}
  /\ pending' = device[call.who]
  /\ data' = [data EXCEPT ![call.who] = TRUE]
  /\ call' = NoCall
  /\ UNCHANGED <<pc, server, request, reply, conn, slot, device, alive, opens>>
ConnectFails ==
  /\ call.op = "connect"
  /\ call' = NoCall
  /\ UNCHANGED <<pc, server, network, slot, device, data, alive, opens>>

\* sane_read waits for the data connection.
Read(c) ==
  /\ Ready /\ data[c]
  /\ call' = [op |-> "read", who |-> c]
  /\ UNCHANGED <<pc, server, network, slot, device, data, alive, opens>>
ReadReturns ==
  LET c == call.who
      d == device[c]
      served == pending = d \/ \E i \in DOMAIN frames : frames[i].be = d
  IN  /\ call.op = "read"
      /\ conn[d] /= "empty" \/ ~served
      /\ conn' = [conn EXCEPT ![d] = "empty"]
      /\ data' = IF conn[d] = "status" THEN [data EXCEPT ![c] = FALSE] ELSE data
      /\ call' = NoCall
      /\ UNCHANGED <<pc, server, request, reply, pending, slot, device, alive, opens>>

\* saned is gone: every call fails.
CallFails ==
  /\ pc = "exited" /\ call.op \notin {"none", "ask", "read", "connect"} /\ reply = NoReply
  /\ call' = NoCall
  /\ UNCHANGED <<pc, server, network, slot, device, data, alive, opens>>

\* The frontend exits, after SANE_NET_EXIT or without; its memory is gone.
Leave ==
  /\ alive /\ alive' = FALSE
  /\ \/ Ready /\ request' = [op |-> "exit", slot |-> NoSlot]
     \/ UNCHANGED request
  /\ call' = NoCall
  /\ data' = [c \in Clients |-> FALSE] /\ slot' = [c \in Clients |-> NoSlot]
  /\ device' = [c \in Clients |-> NoDevice]
  /\ UNCHANGED <<pc, server, reply, pending, conn, opens>>

Answered == Returns \/ PasswordAsked \/ Authorize \/ Connect \/ ConnectFails \/ ReadReturns \/ CallFails
Ended == pc = "exited" /\ ~alive /\ UNCHANGED vars

Next == \/ Saned \/ Crash \/ Watchdog
        \/ \E c \in Clients : AskOpen(c) \/ AskClose(c) \/ AskCancel(c)
                              \/ AskStart(c) \/ Read(c)
        \/ Answered \/ Leave \/ Ended

Spec == Init /\ [][Next]_vars

\* saned and the kernel run on, the alarm fires, and a call of the frontend
\* goes on when what it waits for is there.
FairSpec == Spec /\ WF_vars(Saned) /\ WF_vars(Watchdog) /\ WF_vars(Answered)

-----------------------------------------------------------------------------
TypeOK ==
  /\ pc \in {"serve", "auth", "poll", "accept", "end", "spin", "exited"}
  /\ handle \in [Slots -> [inuse : BOOLEAN, scanning : BOOLEAN, docancel : BOOLEAN,
                           be : Devices \cup {NoDevice}]]
  /\ num_handles \in 0..MaxSlots /\ last_handle_checked \in -1..(num_handles - 1)
  /\ frames \in Seq([h : Slots, be : Devices])
  /\ pc = "end" => frames /= <<>>
  /\ starting \in [h : Slots \cup {NoSlot}, be : Devices \cup {NoDevice}]
  /\ be_open \subseteq Devices
  /\ slot \in [Clients -> -1..(num_handles - 1)]
  /\ device \in [Clients -> Devices \cup {NoDevice}]
  /\ data \in [Clients -> BOOLEAN]
  /\ conn \in [Devices -> {"empty", "data", "status"}]
  /\ pending \in Devices \cup {NoDevice}

\* A handle the frontend holds is in use and stands for the device it opened,
\* however often slots were closed and handed out again, until a realloc fails:
\* from then on every handle is lost, and no call on one is answered any more.
Holds(c) == slot[c] /= NoSlot /\ ~(call.who = c /\ call.op = "close")
Kept == \A c \in Clients : Holds(c) =>
          handle[slot[c]].inuse /\ handle[slot[c]].be = device[c]
Unserved == reply.status \in {"none", "failed", "auth"}
HandlesStay == pc /= "exited" => IF lost THEN Unserved ELSE Kept

\* No device is scanned twice at the same time, by a nested START either.
OneScanPerDevice ==
  \A i, j \in DOMAIN frames : frames[i].be = frames[j].be => i = j

\* Every call of the frontend returns.
CallReturns == call /= NoCall ~> call = NoCall

\* When the client is gone, saned's process for it ends.
ServerEnds == ~alive ~> pc = "exited"

\* backend/kodak.c:2458, from the SANE standard, of sane_close: "If the device is
\* presently active, a call to sane_cancel() is performed first.  After this
\* function returns, handle h must not be used anymore."
ClosedHandleUnused == Used \subseteq be_open

\* saned.c:543: "we're out of handles---alloc some more".
TableGrows == pc /= "spin"

-----------------------------------------------------------------------------
\* What HandlesStay and OneScanPerDevice rest on.  The memory of a lost table is not
\* freed and keeps what it held.

Typed ==
  /\ TypeOK
  /\ opens \in 0..MaxOpens /\ alive \in BOOLEAN /\ lost \in BOOLEAN
  /\ request \in [op : {"none", "open", "password", "wrong_password", "close", "cancel",
                       "start", "exit"}, slot : -1..(num_handles - 1)]
  /\ reply \in [status : {"none", "good", "failed", "busy", "auth"},
                slot : -1..(num_handles - 1), be : Devices \cup {NoDevice}]
  /\ call \in [op : {"none", "open", "close", "cancel", "start", "ask", "connect", "read"},
               who : Clients \cup {Nobody}]
  /\ call /= NoCall => call.who \in Clients
  /\ ~alive => call = NoCall /\ \A c \in Clients : slot[c] = NoSlot

\* A request and its reply belong to the call under way.
Calls ==
  /\ request = None \/ reply = NoReply
  /\ alive /\ call.op \in {"none", "connect", "read", "ask"} =>
       request = None /\ reply = NoReply
  /\ alive /\ request.op \in {"open", "password", "wrong_password"} => call.op = "open"
  /\ alive /\ request.op = "close" => call.op = "close" /\ request.slot = slot[call.who]

\* No two scanners of the frontend have one slot, and one that is being handed
\* out is nobody's yet.
Holders ==
  /\ \A b, c \in Clients : slot[b] = slot[c] /\ slot[b] /= NoSlot => b = c
  /\ reply.slot /= NoSlot => /\ handle[reply.slot].inuse /\ handle[reply.slot].be = reply.be
                             /\ \A c \in Clients : slot[c] /= reply.slot

\* A device is opened once, so it is in one slot of the table, and as long as the
\* answer to an open is due it is in none.
Opening == \/ request.op \in {"open", "password", "wrong_password"} \/ pc = "auth"
           \/ reply.status = "auth" \/ call.op = "ask"
DevicesInTable ==
  /\ \A h \in Slots : handle[h].be <= opens /\ (handle[h].inuse => handle[h].be /= NoDevice)
  /\ Opening => opens >= 1 /\ \A h \in Slots : handle[h].be < opens
  /\ \A g, h \in Slots : handle[g].be = handle[h].be /\ handle[g].be /= NoDevice => g = h

\* A slot stands for the device of the scans that run on it, or for one opened
\* later; and only in the first case, in which it is marked as scanning, is its
\* device the one of a scan.
Scans ==
  /\ \A i \in DOMAIN frames : frames[i].be <= handle[frames[i].h].be
  /\ \A i, j \in DOMAIN frames :
       i < j /\ frames[i].h = frames[j].h => frames[i].be < frames[j].be
  /\ \A i \in DOMAIN frames, h \in Slots :
       handle[h].be = frames[i].be => h = frames[i].h /\ (handle[h].inuse => handle[h].scanning)

\* The scan about to start is marked, and its device is in no scan yet.
Starts ==
  pc \in {"poll", "accept"} =>
    /\ starting.h \in Slots /\ starting.be \in Devices
    /\ handle[starting.h].be = starting.be /\ handle[starting.h].scanning
    /\ \A i \in DOMAIN frames :
         frames[i].be /= starting.be /\ (frames[i].h = starting.h => frames[i].be < starting.be)

IInv == /\ Typed
        /\ pc /= "exited" => /\ Calls /\ Holders /\ DevicesInTable /\ Scans /\ Starts
                            /\ Kept /\ (lost => Unserved)
        /\ OneScanPerDevice
=============================================================================
