------------------------- MODULE SanedSession_proofs -------------------------
(***************************************************************************)
(* Proofs about SanedSession for any set of scanners of the frontend and   *)
(* any size of the handle table: the inductive invariant IInv and the      *)
(* safety properties it implies.                                           *)
(***************************************************************************)
EXTENDS SanedSession, QueueLemmas

USE SessionAssumption
USE DEF table

Handle == [inuse : BOOLEAN, scanning : BOOLEAN, docancel : BOOLEAN,
           be : Devices \cup {NoDevice}]
Scan == [h : Slots, be : Devices]

\* The two parts of IInv that HandlesStay follows from.
Stay == pc /= "exited" => Kept /\ (lost => Unserved)
USE DEF Stay

-----------------------------------------------------------------------------
\* What the lemmas on the actions have in common.

LEMMA TypedFacts ==
  ASSUME Typed
  PROVE  /\ handle \in [Slots -> Handle] /\ DOMAIN handle = Slots
         /\ \A h \in Slots : handle[h] \in Handle
         /\ frames \in Seq(Scan) /\ Len(frames) \in Nat /\ DOMAIN frames = 1..Len(frames)
         /\ \A i \in DOMAIN frames : frames[i] \in Scan
         /\ frames /= <<>> => Len(frames) \in DOMAIN frames /\ Top \in Scan
         /\ pc = "end" => frames /= <<>>
         /\ num_handles \in 0..MaxSlots /\ last_handle_checked \in -1..(num_handles - 1)
         /\ slot \in [Clients -> -1..(num_handles - 1)]
<1>1. /\ handle \in [Slots -> Handle] /\ frames \in Seq(Scan)
      /\ pc = "end" => frames /= <<>>
      /\ num_handles \in 0..MaxSlots /\ last_handle_checked \in -1..(num_handles - 1)
      /\ slot \in [Clients -> -1..(num_handles - 1)]
  BY DEF Typed, TypeOK, Handle, Scan
<1>2. /\ Len(frames) \in Nat /\ DOMAIN frames = 1..Len(frames)
      /\ frames /= <<>> => Len(frames) /= 0
      /\ \A i \in DOMAIN frames : frames[i] \in Scan
  BY <1>1, LenProperties, EmptySeq, ElementOfSeq
<1>3. frames /= <<>> => Len(frames) \in DOMAIN frames /\ Top \in Scan
  BY <1>2 DEF Top
<1> QED BY <1>1, <1>2, <1>3

\* do_scan goes on only inside a scan.
LEMMA ResumeCases ==
  ASSUME NEW tbl, NEW scans
  PROVE  /\ Resume(tbl, scans) \in {"serve", "end"}
         /\ Resume(tbl, scans) = "end" => scans /= <<>>
BY DEF Resume

\* saned's exit leaves nothing to hold but the types.
LEMMA QuitKeeps ==
  ASSUME IInv, Quit, request' = None \/ request' = request,
         UNCHANGED <<num_handles, last_handle_checked, lost, starting, reply, pending, conn, client>>,
         handle' = handle
  PROVE  IInv'
<1>i. Typed /\ OneScanPerDevice
  BY DEF IInv
<1>s. /\ pc' = "exited" /\ frames' = <<>> /\ be_open' = {}
      /\ UNCHANGED <<call, slot, device, data, alive, opens>>
  BY DEF Quit, client
<1>f. frames' \in Seq(Scan)
  BY <1>s, EmptySeq
<1>1. TypeOK'
  BY <1>i, <1>s, <1>f DEF Typed, TypeOK, Scan
<1>2. Typed'
  BY <1>i, <1>s, <1>1 DEF Typed, None, NoSlot, TypeOK
<1>3. Stay' /\ OneScanPerDevice'
  BY <1>s DEF Kept, Unserved, OneScanPerDevice
<1> QED BY <1>s, <1>2, <1>3 DEF IInv

LEMMA WatchdogStep == IInv /\ Watchdog => IInv'
BY QuitKeeps DEF Watchdog, network

LEMMA CrashStep == IInv /\ Crash => IInv'
BY QuitKeeps DEF Crash, network

LEMMA LostTableStep == IInv /\ LostTable => IInv'
BY QuitKeeps DEF LostTable, network

-----------------------------------------------------------------------------
\* The initial states.

LEMMA InitIInv == Init => IInv
<1> SUFFICES ASSUME Init PROVE IInv
  OBVIOUS
<1>1. /\ pc = "serve" /\ frames = <<>> /\ frames \in Seq(Scan) /\ DOMAIN frames = {}
      /\ handle = [h \in Slots |-> Empty] /\ num_handles = 0 /\ last_handle_checked = -1
      /\ lost = FALSE /\ starting = [h |-> NoSlot, be |-> NoDevice] /\ be_open = {}
      /\ request = None /\ reply = NoReply /\ pending = NoDevice /\ call = NoCall
      /\ conn = [d \in Devices |-> "empty"]
      /\ slot = [c \in Clients |-> NoSlot] /\ device = [c \in Clients |-> NoDevice]
      /\ data = [c \in Clients |-> FALSE] /\ alive = TRUE /\ opens = 0
  BY EmptySeq DEF Init
<1>2. TypeOK
  BY <1>1 DEF TypeOK, Empty, NoSlot, NoDevice, Scan
<1>3. Typed
  <2>1. alive \in BOOLEAN /\ lost \in BOOLEAN
    BY <1>1, Zenon
  <2>3. opens \in 0..MaxOpens
    BY <1>1
  <2>2. ~alive => call = NoCall /\ \A c \in Clients : slot[c] = NoSlot
    BY <1>1
  <2> QED BY <1>1, <1>2, <2>1, <2>2, <2>3 DEF Typed, None, NoReply, NoCall, NoSlot, NoDevice, Nobody
<1>4. Calls /\ Holders
  BY <1>1 DEF Calls, Holders, NoReply, None, NoCall
<1>5. DevicesInTable
  BY <1>1 DEF DevicesInTable, Opening, Empty, NoDevice, None, NoReply, NoCall
<1>6. Scans /\ Starts /\ OneScanPerDevice
  BY <1>1 DEF Scans, Starts, OneScanPerDevice
<1>7. Stay
  BY <1>1 DEF Kept, Unserved, Holds, NoCall
<1> QED BY <1>3, <1>4, <1>5, <1>6, <1>7 DEF IInv
-----------------------------------------------------------------------------
\* Opening a device.

\* get_free_handle finds a free slot of the table when it finds one.
LEMMA FreeSlot ==
  ASSUME Typed, FreeNth /= {}
  PROVE  LET h == Nth(CHOOSE k \in FreeNth : \A j \in FreeNth : k <= j)
         IN  h \in 0..(num_handles - 1) /\ ~handle[h].inuse
<1>1. /\ num_handles \in 0..MaxSlots /\ last_handle_checked \in -1..(num_handles - 1)
      /\ FreeNth \in SUBSET Nat
      /\ \A k \in FreeNth : k \in 1..num_handles /\ ~handle[Nth(k)].inuse
  BY TypedFacts DEF FreeNth
<1>2. PICK k \in FreeNth : \A j \in FreeNth : k <= j
  BY <1>1, LeastNumber
<1> DEFINE m == CHOOSE i \in FreeNth : \A j \in FreeNth : i <= j
<1>3. m \in FreeNth
  BY <1>2
<1> HIDE DEF m
<1>4. m \in 1..num_handles /\ ~handle[Nth(m)].inuse
  BY <1>1, <1>3
<1>5. Nth(m) \in 0..(num_handles - 1)
  BY <1>1, <1>4 DEF Nth
<1> QED BY <1>4, <1>5 DEF m

\* The request that is served, or the end of the connection, is about an open.
OpenAsked == /\ Opening /\ pc \in {"serve", "auth"}
             /\ alive => call.op = "open"
             /\ request = None \/ reply = NoReply \/ ~alive
OpenFrame == /\ request' = None
             /\ UNCHANGED <<frames, starting, pending, conn, client>>

LEMMA RefuseStep ==
  ASSUME IInv, OpenAsked, OpenFrame, Refuse, UNCHANGED be_open
  PROVE  IInv'
<1>i. Typed /\ Calls /\ Holders /\ DevicesInTable /\ Scans /\ Stay /\ OneScanPerDevice
  BY DEF IInv, OpenAsked
<1>o. Opening /\ opens \in Devices /\ (alive => call.op = "open")
  BY <1>i DEF OpenAsked, DevicesInTable, Typed, Devices
<1>s. /\ request' = None /\ reply' = [NoReply EXCEPT !.status = "failed"]
      /\ UNCHANGED <<handle, num_handles, last_handle_checked, lost, frames, starting, pending,
                     conn, call, slot, device, data, alive, opens>>
  BY DEF OpenFrame, Refuse, Answer, client
<1>p. pc' \in {"serve", "end"} /\ (pc' = "end" => frames /= <<>>)
  BY ResumeCases DEF Refuse
<1>1. TypeOK'
  BY <1>i, <1>s, <1>p DEF Typed, TypeOK
<1>2. Typed'
  BY <1>i, <1>s, <1>1 DEF Typed, TypeOK, None, NoReply, NoSlot, NoDevice
<1>3. Calls'
  BY <1>i, <1>o, <1>s DEF Calls, None
<1>4. Holders'
  BY <1>i, <1>s DEF Holders, NoReply
<1>5. DevicesInTable'
  BY <1>i, <1>o, <1>s DEF DevicesInTable
<1>6. Scans' /\ Starts' /\ OneScanPerDevice'
  BY <1>i, <1>s, <1>p DEF Scans, Starts, OneScanPerDevice
<1>7. Stay'
  BY <1>i, <1>s DEF Kept, Unserved, Holds, IInv, OpenAsked
<1> QED BY <1>2, <1>3, <1>4, <1>5, <1>6, <1>7 DEF IInv

\* A table that may have grown keeps the slots it had.
LEMMA WiderTable ==
  ASSUME NEW m \in Nat, NEW n \in Nat, m <= n
  PROVE  /\ \A h \in Nat : h < n => h \in -1..(n - 1)
         /\ -1 \in -1..(n - 1)
         /\ \A x \in -1..(m - 1) : x \in -1..(n - 1)
OBVIOUS

\* The slot is nobody's, and the device is in no slot and no scan.
InTable(h) == /\ \A c \in Clients : slot[c] /= h
              /\ num_handles' \in num_handles..MaxSlots /\ h < num_handles'
LEMMA NewHandleStep ==
  ASSUME IInv, OpenAsked, OpenFrame, be_open' = be_open \cup {opens},
         NEW h \in Slots, NewHandle(h, opens), InTable(h), ~lost, UNCHANGED lost
  PROVE  IInv'
<1>i. Typed /\ Calls /\ Holders /\ DevicesInTable /\ Scans /\ Stay /\ OneScanPerDevice
  BY DEF IInv, OpenAsked
<1>t. /\ DOMAIN handle = Slots /\ num_handles \in 0..MaxSlots
      /\ \A g \in Slots : handle[g] \in Handle
      /\ \A i \in DOMAIN frames : frames[i] \in Scan
      /\ slot \in [Clients -> -1..(num_handles - 1)]
  BY <1>i, TypedFacts
<1>o. /\ opens \in Devices /\ (alive => call.op = "open")
      /\ \A g \in Slots : handle[g].be < opens
      /\ ~alive => call = NoCall
  BY <1>i DEF OpenAsked, DevicesInTable, Typed, Devices
<1>s. /\ request' = None /\ reply' = [status |-> "good", slot |-> h, be |-> opens]
      /\ last_handle_checked' = h
      /\ UNCHANGED <<frames, starting, pending, conn, call, slot, device, data, alive, opens>>
  BY DEF OpenFrame, NewHandle, client
<1>p. pc' \in {"serve", "end"} /\ (pc' = "end" => frames /= <<>>)
  BY ResumeCases DEF NewHandle
<1>h. /\ handle'[h] = [inuse |-> TRUE, scanning |-> FALSE, docancel |-> FALSE, be |-> opens]
      /\ \A g \in Slots : g /= h => handle'[g] = handle[g]
      /\ handle' \in [Slots -> Handle]
  BY <1>t, <1>o DEF NewHandle, Empty, Handle
<1>n. /\ num_handles' \in 0..MaxSlots /\ h \in -1..(num_handles' - 1)
      /\ -1 \in -1..(num_handles' - 1)
      /\ \A x \in -1..(num_handles - 1) : x \in -1..(num_handles' - 1)
  <2>1. /\ num_handles \in Int /\ MaxSlots \in Int /\ num_handles' \in Int /\ h \in Nat
        /\ num_handles' >= num_handles /\ num_handles >= 0 /\ num_handles' <= MaxSlots
        /\ h < num_handles'
    BY <1>t DEF Slots, InTable
  <2>2. num_handles' \in 0..MaxSlots /\ num_handles' \in Nat /\ num_handles \in Nat
    BY <2>1
  <2> QED BY <2>1, <2>2, WiderTable
<1>1. TypeOK'
  <2>1. be_open' \subseteq Devices
    BY <1>i, <1>o DEF Typed, TypeOK, Devices
  <2>2. last_handle_checked' \in -1..(num_handles' - 1)
    BY <1>s, <1>n
  <2>3. slot' \in [Clients -> -1..(num_handles' - 1)]
    BY <1>s, <1>t, <1>n
  <2> QED BY <1>i, <1>s, <1>p, <1>h, <1>n, <2>1, <2>2, <2>3 DEF Typed, TypeOK, Handle
<1>2. Typed'
  <2>1. reply' \in [status : {"none", "good", "failed", "busy", "auth"},
                    slot : -1..(num_handles' - 1), be : Devices \cup {NoDevice}]
    BY <1>s, <1>n, <1>o
  <2>2. -1 \in -1..(num_handles' - 1)
    BY <1>n
  <2>3. request' \in [op : {"none", "open", "password", "wrong_password", "close", "cancel",
                               "start", "exit"}, slot : -1..(num_handles' - 1)]
    BY <1>s, <2>2 DEF None, NoSlot
  <2> QED BY <1>i, <1>s, <1>1, <2>1, <2>3 DEF Typed
<1>3. Calls'
  BY <1>i, <1>o, <1>s DEF Calls, None, NoCall
<1>4. Holders'
  BY <1>i, <1>s, <1>h DEF Holders, InTable
<1>5. ~Opening'
  BY <1>s, <1>p, <1>o DEF Opening, None, NoCall, Typed
<1>6. DevicesInTable'
  <2>1. \A g \in Slots : handle'[g].be <= opens /\ (handle'[g].inuse => handle'[g].be /= NoDevice)
    BY <1>i, <1>h, <1>o, <1>t DEF DevicesInTable, Devices, NoDevice
  <2>2. \A f, g \in Slots :
          handle'[f].be = handle'[g].be /\ handle'[f].be /= NoDevice => f = g
    BY <1>i, <1>h, <1>o, <1>t DEF DevicesInTable, Handle, Devices, NoDevice
  <2> QED BY <1>5, <2>1, <2>2, <1>s DEF DevicesInTable
<1>7. Scans'
  <2>1. \A i \in DOMAIN frames : frames[i].be <= handle'[frames[i].h].be /\ frames[i].be < opens
    BY <1>i, <1>h, <1>o, <1>t DEF Scans, Scan, Handle, Devices, NoDevice
  <2>2. \A i \in DOMAIN frames, g \in Slots :
          handle'[g].be = frames[i].be =>
            g = frames[i].h /\ (handle'[g].inuse => handle'[g].scanning)
    BY <1>i, <1>h, <1>o, <1>t, <2>1 DEF Scans, Scan, Devices
  <2> QED BY <1>i, <1>s, <2>1, <2>2 DEF Scans
<1>8. Starts' /\ OneScanPerDevice'
  BY <1>i, <1>s, <1>p DEF Starts, OneScanPerDevice
<1>9. Stay'
  BY <1>i, <1>s, <1>h, <1>t DEF Kept, Unserved, Holds, IInv, OpenAsked, InTable, Slots, NoSlot
<1> QED BY <1>2, <1>3, <1>4, <1>6, <1>7, <1>8, <1>9 DEF IInv

\* realloc fails: the counters move, nothing is handed out, and no call on a handle
\* is answered any more.
LEMMA LoseTableStep ==
  ASSUME IInv, OpenAsked, OpenFrame, be_open' = be_open \cup {opens}, LoseTable
  PROVE  IInv'
<1>i. Typed /\ Calls /\ Holders /\ DevicesInTable /\ Scans /\ Stay /\ OneScanPerDevice
  BY DEF IInv, OpenAsked
<1>t. num_handles \in 0..MaxSlots /\ slot \in [Clients -> -1..(num_handles - 1)]
  BY <1>i, TypedFacts
<1>o. Opening /\ opens \in Devices /\ (alive => call.op = "open")
  BY <1>i DEF OpenAsked, DevicesInTable, Typed, Devices
<1>s. /\ request' = None /\ reply' = [NoReply EXCEPT !.status = "failed"]
      /\ pc' = "serve" /\ lost' = TRUE /\ last_handle_checked' = num_handles - 1
      /\ UNCHANGED <<handle, frames, starting, pending, conn, call, slot, device, data,
                     alive, opens>>
  BY DEF OpenFrame, LoseTable, Answer, client
<1>n. /\ num_handles' \in 0..MaxSlots /\ num_handles - 1 \in -1..(num_handles' - 1)
      /\ -1 \in -1..(num_handles' - 1)
      /\ \A x \in -1..(num_handles - 1) : x \in -1..(num_handles' - 1)
  <2>1. num_handles' = num_handles + Alloc /\ num_handles + Alloc <= MaxSlots
    BY DEF LoseTable, Grow
  <2>2. /\ num_handles \in Nat /\ num_handles' \in Nat /\ num_handles <= num_handles'
        /\ num_handles' \in 0..MaxSlots /\ num_handles - 1 \in -1..(num_handles - 1)
    BY <1>t, <2>1
  <2> QED BY <2>2, WiderTable
<1>1. TypeOK'
  <2>1. be_open' \subseteq Devices
    BY <1>i, <1>o DEF Typed, TypeOK, Devices
  <2>2. slot' \in [Clients -> -1..(num_handles' - 1)]
    BY <1>s, <1>t, <1>n
  <2> QED BY <1>i, <1>s, <1>n, <2>1, <2>2 DEF Typed, TypeOK
<1>2. Typed'
  <2>1. reply' \in [status : {"none", "good", "failed", "busy", "auth"},
                    slot : -1..(num_handles' - 1), be : Devices \cup {NoDevice}]
    BY <1>s, <1>n DEF NoReply, NoSlot
  <2>2. request' \in [op : {"none", "open", "password", "wrong_password", "close", "cancel",
                            "start", "exit"}, slot : -1..(num_handles' - 1)]
    BY <1>s, <1>n DEF None, NoSlot
  <2> QED BY <1>i, <1>s, <1>1, <2>1, <2>2 DEF Typed
<1>3. Calls'
  BY <1>i, <1>o, <1>s DEF Calls, None
<1>4. Holders'
  BY <1>i, <1>s DEF Holders, NoReply
<1>5. DevicesInTable'
  BY <1>i, <1>o, <1>s DEF DevicesInTable
<1>6. Scans' /\ Starts' /\ OneScanPerDevice'
  BY <1>i, <1>s DEF Scans, Starts, OneScanPerDevice
<1>7. Stay'
  BY <1>i, <1>s DEF Kept, Unserved, Holds, NoReply, IInv, OpenAsked
<1> QED BY <1>2, <1>3, <1>4, <1>5, <1>6, <1>7 DEF IInv

\* get_free_handle searches on for ever: nothing is handed out.
LEMMA SpinStep ==
  ASSUME IInv, OpenAsked, OpenFrame, be_open' = be_open \cup {opens}, pc' = "spin",
         UNCHANGED <<handle, num_handles, last_handle_checked, lost, reply>>
  PROVE  IInv'
<1>i. Typed /\ Calls /\ Holders /\ DevicesInTable /\ Scans /\ Stay /\ OneScanPerDevice
  BY DEF IInv, OpenAsked
<1>o. Opening /\ opens \in Devices /\ (alive => call.op = "open")
  BY <1>i DEF OpenAsked, DevicesInTable, Typed, Devices
<1>s. /\ request' = None
      /\ UNCHANGED <<handle, num_handles, last_handle_checked, lost, reply, frames, starting, pending,
                     conn, call, slot, device, data, alive, opens>>
  BY DEF OpenFrame, client
<1>1. TypeOK'
  <2>1. be_open' \subseteq Devices
    BY <1>i, <1>o DEF Typed, TypeOK, Devices
  <2> QED BY <1>i, <1>s, <2>1 DEF Typed, TypeOK
<1>2. Typed'
  BY <1>i, <1>s, <1>1 DEF Typed, TypeOK, None, NoSlot
<1>3. Calls' /\ Holders' /\ DevicesInTable'
  BY <1>i, <1>o, <1>s DEF Calls, Holders, DevicesInTable, None
<1>4. Scans' /\ Starts' /\ OneScanPerDevice' /\ Stay'
  BY <1>i, <1>s DEF Scans, Starts, OneScanPerDevice, Kept, Unserved, Holds, IInv, OpenAsked
<1> QED BY <1>2, <1>3, <1>4 DEF IInv

LEMMA OpenStep ==
  ASSUME IInv, OpenAsked, OpenFrame, Open
  PROVE  IInv'
<1>i. /\ Typed
      /\ \A c \in Clients : slot[c] /= NoSlot => handle[slot[c]].inuse
  <2>1. Typed /\ Stay /\ pc /= "exited"
    BY DEF IInv, OpenAsked
  <2>2. ~alive => \A c \in Clients : slot[c] = NoSlot
    BY <2>1 DEF Typed
  <2> QED BY <2>1, <2>2 DEF Kept, Unserved, Holds, OpenAsked
<1>t. /\ slot \in [Clients -> -1..(num_handles - 1)] /\ num_handles \in 0..MaxSlots
  BY <1>i, TypedFacts
<1>1. \/ Refuse /\ UNCHANGED be_open
      \/ be_open' = be_open \cup {opens} /\ LoseTable
      \/ /\ be_open' = be_open \cup {opens} /\ FreeNth /= {}
         /\ NewHandle(Nth(CHOOSE k \in FreeNth : \A j \in FreeNth : k <= j), opens)
         /\ ~lost /\ UNCHANGED <<num_handles, lost>>
      \/ /\ be_open' = be_open \cup {opens} /\ Grow /\ NewHandle(num_handles, opens)
         /\ ~lost /\ UNCHANGED lost
      \/ /\ be_open' = be_open \cup {opens} /\ pc' = "spin"
         /\ UNCHANGED <<handle, num_handles, last_handle_checked, lost, reply>>
  BY DEF Open
<1>2. CASE Refuse /\ UNCHANGED be_open
  BY <1>2, RefuseStep
<1>6. CASE be_open' = be_open \cup {opens} /\ LoseTable
  BY <1>6, LoseTableStep
<1>3. CASE /\ be_open' = be_open \cup {opens} /\ FreeNth /= {}
           /\ NewHandle(Nth(CHOOSE k \in FreeNth : \A j \in FreeNth : k <= j), opens)
           /\ ~lost /\ UNCHANGED <<num_handles, lost>>
  <2> DEFINE h == Nth(CHOOSE k \in FreeNth : \A j \in FreeNth : k <= j)
  <2>1. h \in 0..(num_handles - 1) /\ ~handle[h].inuse
    BY <1>i, <1>3, FreeSlot
  <2>2. NewHandle(h, opens)
    BY <1>3
  <2> HIDE DEF h
  <2>3. h \in Slots
    BY <2>1, <1>t DEF Slots
  <2>4. InTable(h)
    BY <1>i, <1>t, <1>3, <2>1 DEF InTable, NoSlot
  <2> QED BY <1>3, <2>2, <2>3, <2>4, NewHandleStep
<1>4. CASE /\ be_open' = be_open \cup {opens} /\ Grow /\ NewHandle(num_handles, opens)
           /\ ~lost /\ UNCHANGED lost
  <2>1. num_handles \in Slots
    BY <1>t, <1>4 DEF Slots, Grow
  <2>2. InTable(num_handles)
    BY <1>t, <1>4 DEF InTable, Grow
  <2> QED BY <1>4, <2>1, <2>2, NewHandleStep
<1>5. CASE /\ be_open' = be_open \cup {opens} /\ pc' = "spin"
           /\ UNCHANGED <<handle, num_handles, last_handle_checked, lost, reply>>
  BY <1>5, SpinStep
<1> QED BY <1>1, <1>2, <1>3, <1>4, <1>5, <1>6

LEMMA ServeAuthorizeStep == IInv /\ ServeAuthorize => IInv'
<1> SUFFICES ASSUME IInv, ServeAuthorize PROVE IInv'
  OBVIOUS
<1>i. Typed /\ Calls /\ pc = "auth"
  BY DEF IInv, ServeAuthorize
<1>1. OpenFrame
  BY DEF ServeAuthorize, OpenFrame
<1>2. \/ request.op = "password" /\ Open
      \/ request.op = "wrong_password" /\ Refuse /\ UNCHANGED be_open
      \/ request = None /\ ~alive /\ Refuse /\ UNCHANGED be_open
  BY DEF ServeAuthorize
<1>3. OpenAsked
  BY <1>i, <1>2 DEF OpenAsked, Opening, Calls
<1> QED BY <1>1, <1>2, <1>3, OpenStep, RefuseStep

LEMMA ServeOpenStep == IInv /\ ServeOpen => IInv'
<1> SUFFICES ASSUME IInv, ServeOpen PROVE IInv'
  OBVIOUS
<1>i. /\ Typed /\ Calls /\ Holders /\ DevicesInTable /\ Scans /\ Stay /\ OneScanPerDevice
      /\ pc = "serve" /\ request.op = "open"
  BY DEF IInv, ServeOpen, Requested
<1>1. OpenFrame
  BY DEF ServeOpen, OpenFrame, Requested
<1>2. OpenAsked
  BY <1>i DEF OpenAsked, Opening, Calls
<1>3. CASE Open
  BY <1>1, <1>2, <1>3, OpenStep
<1>4. CASE /\ Answer("auth") /\ pc' = "auth"
           /\ UNCHANGED <<handle, num_handles, last_handle_checked, lost, be_open>>
  <2>s. /\ request' = None /\ reply' = [NoReply EXCEPT !.status = "auth"] /\ pc' = "auth"
        /\ UNCHANGED <<handle, num_handles, last_handle_checked, lost, be_open, frames, starting,
                       pending, conn, call, slot, device, data, alive, opens>>
    BY <1>1, <1>4 DEF OpenFrame, Answer, client
  <2>1. TypeOK'
    BY <1>i, <2>s DEF Typed, TypeOK
  <2>2. Typed'
    BY <1>i, <2>s, <2>1 DEF Typed, TypeOK, None, NoReply, NoSlot, NoDevice
  <2>3. Calls' /\ Holders'
    BY <1>i, <1>2, <2>s DEF Calls, Holders, None, NoReply, OpenAsked
  <2>4. DevicesInTable'
    BY <1>i, <1>2, <2>s DEF DevicesInTable, OpenAsked
  <2>5. Scans' /\ Starts' /\ OneScanPerDevice' /\ Stay'
    BY <1>i, <2>s DEF Scans, Starts, OneScanPerDevice, Kept, Unserved, Holds, NoReply
  <2> QED BY <2>2, <2>3, <2>4, <2>5 DEF IInv
<1> QED BY <1>3, <1>4 DEF ServeOpen
-----------------------------------------------------------------------------
\* Steps that leave the table and the scans as they are, but for docancel.

SameSlots ==
  /\ handle' \in [Slots -> Handle]
  /\ \A h \in Slots : /\ handle'[h].inuse = handle[h].inuse /\ handle'[h].be = handle[h].be
                      /\ handle'[h].scanning = handle[h].scanning

LEMMA MarkKeeps ==
  ASSUME Typed, handle' = handle \/ \E h \in Slots : handle' = [handle EXCEPT ![h].docancel = TRUE]
  PROVE  SameSlots
<1>1. DOMAIN handle = Slots /\ handle \in [Slots -> Handle] /\ \A h \in Slots : handle[h] \in Handle
  BY TypedFacts
<1>2. CASE handle' = handle
  BY <1>1, <1>2 DEF SameSlots
<1>3. ASSUME NEW h \in Slots, handle' = [handle EXCEPT ![h].docancel = TRUE]
      PROVE  SameSlots
  <2>1. /\ handle'[h] = [handle[h] EXCEPT !.docancel = TRUE]
        /\ \A g \in Slots : g /= h => handle'[g] = handle[g]
        /\ DOMAIN handle' = Slots
    BY <1>1, <1>3
  <2>2. /\ handle'[h] \in Handle /\ handle'[h].inuse = handle[h].inuse
        /\ handle'[h].be = handle[h].be /\ handle'[h].scanning = handle[h].scanning
    BY <1>1, <2>1 DEF Handle
  <2>3. handle' \in [Slots -> Handle]
    BY <1>1, <1>3, <2>2
  <2> QED BY <2>1, <2>2, <2>3 DEF SameSlots
<1> QED BY <1>2, <1>3

\* The request is answered, or left without an answer, or none is served.
Replied == \/ UNCHANGED <<request, reply>>
           \/ request' = None /\ UNCHANGED reply
           \/ /\ request /= None /\ request' = None /\ ~lost
              /\ \/ reply' = [NoReply EXCEPT !.status = "good"]
                 \/ reply' = [NoReply EXCEPT !.status = "busy"]
                 \/ reply' = [NoReply EXCEPT !.status = "failed"]
Onward == pc' \in {"serve", "end"} /\ (pc' = "end" => frames /= <<>>)
Rest == /\ conn' \in [Devices -> {"empty", "data", "status"}]
        /\ pending' \in Devices \cup {NoDevice}
        /\ UNCHANGED <<num_handles, last_handle_checked, lost, frames, starting, be_open, client>>

LEMMA KeepsTable ==
  ASSUME IInv, pc /= "exited", SameSlots, Replied, Onward, Rest
  PROVE  IInv'
<1>i. Typed /\ Calls /\ Holders /\ DevicesInTable /\ Scans /\ Stay /\ OneScanPerDevice
  BY DEF IInv
<1>t. /\ \A i \in DOMAIN frames : frames[i] \in Scan
      /\ slot \in [Clients -> -1..(num_handles - 1)] /\ num_handles \in 0..MaxSlots
  BY <1>i, TypedFacts
<1>s. UNCHANGED <<num_handles, last_handle_checked, lost, frames, starting, be_open,
                  call, slot, device, data, alive, opens>>
  BY DEF Rest, client
<1>r. /\ reply' = reply \/ (reply'.slot = NoSlot /\ reply'.status \in {"good", "busy", "failed"})
      /\ request' = None \/ (request' = request /\ reply' = reply)
      /\ reply' /= reply => request /= None /\ ~lost
      /\ request' \in {request, None}
  BY DEF Replied, NoReply
<1>h. \A c \in Clients : slot[c] /= NoSlot => slot[c] \in Slots
  BY <1>t DEF Slots, NoSlot
<1>g. reply.slot /= NoSlot => reply.slot \in Slots
  BY <1>i, <1>t DEF Typed, Slots, NoSlot
<1>1. TypeOK'
  BY <1>i, <1>s DEF Typed, TypeOK, SameSlots, Onward, Rest, Handle
<1>2. Typed'
  <2>1. request' \in [op : {"none", "open", "password", "wrong_password", "close", "cancel",
                            "start", "exit"}, slot : -1..(num_handles' - 1)]
    BY <1>i, <1>s, <1>r DEF Typed, TypeOK, None, NoSlot
  <2>2. reply' \in [status : {"none", "good", "failed", "busy", "auth"},
                    slot : -1..(num_handles' - 1), be : Devices \cup {NoDevice}]
    BY <1>i, <1>s DEF Typed, TypeOK, Replied, NoReply, NoSlot, NoDevice
  <2> QED BY <1>i, <1>s, <1>1, <2>1, <2>2 DEF Typed
<1>3. Calls'
  BY <1>i, <1>s, <1>r DEF Calls, None
<1>4. Holders'
  BY <1>i, <1>s, <1>r, <1>g DEF Holders, SameSlots
<1>5. DevicesInTable'
  <2>1. Opening' => Opening
    BY <1>s, <1>r DEF Opening, Onward, None
  <2>2. \A h \in Slots : handle'[h].inuse = handle[h].inuse /\ handle'[h].be = handle[h].be
    BY DEF SameSlots
  <2> QED BY <1>i, <1>s, <2>1, <2>2 DEF DevicesInTable
<1>6. Scans'
  BY <1>i, <1>s, <1>t DEF Scans, SameSlots, Scan
<1>7. Starts' /\ OneScanPerDevice'
  BY <1>i, <1>s DEF Starts, OneScanPerDevice, Onward
<1>8. Stay'
  BY <1>i, <1>s, <1>h, <1>r DEF Kept, Unserved, Holds, SameSlots
<1> QED BY <1>2, <1>3, <1>4, <1>5, <1>6, <1>7, <1>8 DEF IInv

LEMMA ServeCancelStep == IInv /\ ServeCancel => IInv'
<1> SUFFICES ASSUME IInv, ServeCancel PROVE IInv'
  OBVIOUS
<1>i. Typed /\ pc = "serve" /\ request.op = "cancel" /\ request /= None /\ ~lost
  BY DEF IInv, ServeCancel, OnHandle, Requested, None
<1>1. SameSlots
  BY <1>i, MarkKeeps DEF ServeCancel, KnownSlot
<1>2. Replied /\ Onward
  BY <1>i, ResumeCases DEF ServeCancel, OnHandle, Requested, Answer, Replied, Onward
<1>3. Rest
  BY <1>i DEF ServeCancel, Rest, Typed, TypeOK
<1> QED BY <1>i, <1>1, <1>2, <1>3, KeepsTable

LEMMA AcceptResetStep == IInv /\ AcceptReset => IInv'
<1> SUFFICES ASSUME IInv, AcceptReset PROVE IInv'
  OBVIOUS
<1>i. Typed /\ pc = "accept"
  BY DEF IInv, AcceptReset
<1>1. SameSlots
  BY <1>i, MarkKeeps DEF AcceptReset, server
<1>2. Replied /\ Onward
  BY ResumeCases DEF AcceptReset, Replied, Onward, server
<1>3. Rest
  BY <1>i DEF AcceptReset, Rest, Typed, TypeOK, server, NoDevice
<1> QED BY <1>i, <1>1, <1>2, <1>3, KeepsTable

LEMMA ScanDataStep == IInv /\ ScanData => IInv'
<1> SUFFICES ASSUME IInv, ScanData PROVE IInv'
  OBVIOUS
<1>i. Typed /\ pc = "serve"
  BY DEF IInv, ScanData, Scanning
<1>1. SameSlots
  BY <1>i, MarkKeeps DEF ScanData, server
<1>2. Replied /\ Onward
  BY <1>i DEF ScanData, Replied, Onward, server
<1>3. Rest
  BY <1>i DEF ScanData, Rest, Typed, TypeOK, server
<1> QED BY <1>i, <1>1, <1>2, <1>3, KeepsTable

LEMMA ScanStatusStep == IInv /\ ScanStatus => IInv'
<1> SUFFICES ASSUME IInv, ScanStatus PROVE IInv'
  OBVIOUS
<1>i. Typed /\ pc = "serve" /\ frames /= <<>>
  BY DEF IInv, ScanStatus, Scanning
<1>1. SameSlots
  BY <1>i, MarkKeeps DEF ScanStatus, server
<1>2. Replied /\ Onward
  BY <1>i DEF ScanStatus, Replied, Onward, server
<1>3. Rest
  BY <1>i DEF ScanStatus, Rest, Typed, TypeOK, server
<1> QED BY <1>i, <1>1, <1>2, <1>3, KeepsTable

\* The next two end in do_scan, or end saned.
LEMMA ScanWriteFailsStep == IInv /\ ScanWriteFails => IInv'
<1> SUFFICES ASSUME IInv, ScanWriteFails PROVE IInv'
  OBVIOUS
<1>i. Typed /\ pc = "serve" /\ frames /= <<>> /\ Top.h \in Slots
  BY TypedFacts DEF IInv, ScanWriteFails, Scanning, Scan
<1>1. CASE Quit /\ UNCHANGED handle
  BY <1>1, QuitKeeps DEF ScanWriteFails, network
<1>2. CASE /\ handle' = [handle EXCEPT ![Top.h].docancel = TRUE]
           /\ pc' = "end" /\ UNCHANGED <<frames, be_open>>
  <2>1. SameSlots
    BY <1>i, <1>2, MarkKeeps
  <2>2. Replied /\ Onward
    BY <1>i, <1>2 DEF ScanWriteFails, network, Replied, Onward
  <2>3. Rest
    BY <1>i, <1>2 DEF ScanWriteFails, Rest, Typed, TypeOK, network
  <2> QED BY <1>i, <2>1, <2>2, <2>3, KeepsTable
<1> QED BY <1>1, <1>2 DEF ScanWriteFails

LEMMA ServeEndStep == IInv /\ ServeEnd => IInv'
<1> SUFFICES ASSUME IInv, ServeEnd PROVE IInv'
  OBVIOUS
<1>i. Typed /\ pc = "serve" /\ (frames /= <<>> => Top.h \in Slots)
  BY TypedFacts DEF IInv, ServeEnd, Scan
<1>1. CASE frames = <<>> /\ Quit /\ UNCHANGED handle
  BY <1>1, QuitKeeps DEF ServeEnd
<1>2. CASE /\ frames /= <<>>
           /\ handle' = [handle EXCEPT ![Top.h].docancel = TRUE]
           /\ pc' = "end" /\ UNCHANGED <<frames, be_open>>
  <2>1. SameSlots
    BY <1>i, <1>2, MarkKeeps
  <2>2. Replied /\ Onward
    BY <1>i, <1>2 DEF ServeEnd, Replied, Onward
  <2>3. Rest
    BY <1>i, <1>2 DEF ServeEnd, Rest, Typed, TypeOK
  <2> QED BY <1>i, <2>1, <2>2, <2>3, KeepsTable
<1> QED BY <1>1, <1>2 DEF ServeEnd
-----------------------------------------------------------------------------
\* Closing a handle, and the start and the end of a scan.

LEMMA ServeCloseStep == IInv /\ ServeClose => IInv'
<1> SUFFICES ASSUME IInv, ServeClose PROVE IInv'
  OBVIOUS
<1>i. /\ Typed /\ Calls /\ Holders /\ DevicesInTable /\ Scans /\ Stay /\ OneScanPerDevice
      /\ pc = "serve" /\ request.op = "close" /\ request /= None /\ ~lost
  BY DEF IInv, ServeClose, OnHandle, Requested, None
<1>t. /\ DOMAIN handle = Slots /\ handle \in [Slots -> Handle]
      /\ \A g \in Slots : handle[g] \in Handle
      /\ \A i \in DOMAIN frames : frames[i] \in Scan
      /\ slot \in [Clients -> -1..(num_handles - 1)] /\ num_handles \in 0..MaxSlots
  BY <1>i, TypedFacts
<1>s. /\ request' = None /\ reply' = [NoReply EXCEPT !.status = "good"]
      /\ UNCHANGED <<num_handles, last_handle_checked, lost, frames, starting, pending, conn,
                     call, slot, device, data, alive, opens>>
  BY DEF ServeClose, OnHandle, Requested, Answer, client
<1>p. pc' \in {"serve", "end"} /\ (pc' = "end" => frames /= <<>>)
  BY ResumeCases DEF ServeClose
<1>1. CASE ~KnownSlot
  <2>1. SameSlots /\ Replied /\ Onward /\ Rest
    BY <1>i, <1>s, <1>p, <1>1, MarkKeeps
       DEF Replied, Onward, Rest, client, ServeClose, Typed, TypeOK
  <2> QED BY <1>i, <2>1, KeepsTable
<1>2. CASE KnownSlot
  <2>h. /\ request.slot \in Slots /\ be_open' \subseteq be_open
        /\ handle' \in [Slots -> Handle]
        /\ \A g \in Slots : /\ handle'[g].be = handle[g].be
                            /\ handle'[g].scanning = handle[g].scanning
                            /\ handle'[g].inuse => handle[g].inuse
                            /\ g /= request.slot => handle'[g] = handle[g]
    <3>1. /\ request.slot \in Slots /\ be_open' \subseteq be_open
          /\ handle' = [handle EXCEPT ![request.slot].inuse = FALSE]
      BY <1>2 DEF ServeClose, KnownSlot
    <3> DEFINE r == request.slot
    <3>2. /\ handle'[r] = [handle[r] EXCEPT !.inuse = FALSE]
          /\ \A g \in Slots : g /= r => handle'[g] = handle[g]
      BY <3>1, <1>t
    <3>3. /\ handle'[r] \in Handle /\ handle'[r].be = handle[r].be
          /\ handle'[r].scanning = handle[r].scanning /\ ~handle'[r].inuse
      BY <3>1, <3>2, <1>t DEF Handle
    <3>4. handle' \in [Slots -> Handle]
      BY <3>1, <3>3, <1>t
    <3> QED BY <3>1, <3>2, <3>3, <3>4
  <2>1. TypeOK'
    BY <1>i, <1>s, <1>p, <2>h DEF Typed, TypeOK, Handle
  <2>2. Typed'
    <3>1. request' \in [op : {"none", "open", "password", "wrong_password", "close", "cancel",
                             "start", "exit"}, slot : -1..(num_handles' - 1)]
      BY <1>s, <1>t DEF None, NoSlot
    <3>2. reply' \in [status : {"none", "good", "failed", "busy", "auth"},
                      slot : -1..(num_handles' - 1), be : Devices \cup {NoDevice}]
      BY <1>s, <1>t DEF NoReply, NoSlot
    <3> QED BY <1>i, <1>s, <2>1, <3>1, <3>2 DEF Typed
  <2>3. Calls' /\ Holders'
    BY <1>i, <1>s DEF Calls, Holders, None, NoReply
  <2>4. DevicesInTable'
    <3>1. Opening' => Opening
      BY <1>s, <1>p DEF Opening, None, NoReply
    <3> QED BY <1>i, <1>s, <2>h, <3>1 DEF DevicesInTable
  <2>5. Scans' /\ Starts' /\ OneScanPerDevice'
    BY <1>i, <1>s, <1>t, <1>p, <2>h DEF Scans, Starts, OneScanPerDevice, Scan
  <2>6. ASSUME NEW c \in Clients, Holds(c)
        PROVE  handle'[slot[c]].inuse /\ handle'[slot[c]].be = device[c]
    <3>1. handle[slot[c]].inuse /\ handle[slot[c]].be = device[c] /\ slot[c] \in Slots
      BY <1>i, <1>t, <2>6 DEF Kept, Unserved, Holds, Slots, NoSlot
    <3>2. alive
      BY <1>i, <2>6 DEF Typed, Holds
    <3>3. call.op = "close" /\ request.slot = slot[call.who] /\ call.who \in Clients
      BY <1>i, <3>2 DEF Calls, Typed, NoCall
    <3>4. slot[c] /= request.slot
      BY <1>i, <2>6, <3>3 DEF Holders, Holds
    <3> QED BY <3>1, <3>4, <2>h
  <2>7. Stay'
    BY <1>i, <1>s, <2>6 DEF Kept, Unserved, Holds
  <2> QED BY <2>2, <2>3, <2>4, <2>5, <2>7 DEF IInv
<1> QED BY <1>1, <1>2

\* START on a handle that is not scanning: the data connection is awaited.
Startable == KnownSlot /\ ~handle[request.slot].scanning
LEMMA ScanStarts ==
  ASSUME IInv, OnHandle("start"), Startable,
         StartScan(request.slot), Answer("good"), pc' = "poll",
         UNCHANGED <<num_handles, last_handle_checked, lost, frames, be_open, pending, conn, client>>
  PROVE  IInv'
<1> DEFINE h == request.slot
<1>i. /\ Typed /\ Calls /\ Holders /\ DevicesInTable /\ Scans /\ Stay /\ OneScanPerDevice
      /\ request.op = "start" /\ request /= None /\ ~lost
  BY DEF IInv, OnHandle, Requested, None
<1>t. /\ DOMAIN handle = Slots /\ handle \in [Slots -> Handle]
      /\ \A i \in DOMAIN frames : frames[i] \in Scan
      /\ slot \in [Clients -> -1..(num_handles - 1)] /\ num_handles \in 0..MaxSlots
  BY <1>i, TypedFacts
<1>s. /\ request' = None /\ reply' = [NoReply EXCEPT !.status = "good"]
      /\ starting' = [h |-> h, be |-> handle[h].be]
      /\ UNCHANGED <<num_handles, last_handle_checked, lost, frames, be_open, pending, conn,
                     call, slot, device, data, alive, opens>>
  BY DEF OnHandle, Requested, Answer, client, StartScan
<1>k. h \in Slots /\ handle[h].inuse /\ handle[h].be \in Devices /\ ~handle[h].scanning
  <2>1. h \in Slots /\ handle[h].inuse /\ handle[h] \in Handle
    BY <1>t DEF Startable, KnownSlot
  <2> QED BY <2>1, <1>i DEF DevicesInTable, Handle, Startable
<1>h. /\ handle' \in [Slots -> Handle] /\ handle'[h].scanning
      /\ \A g \in Slots : /\ handle'[g].be = handle[g].be
                          /\ handle'[g].inuse = handle[g].inuse
                          /\ handle[g].scanning => handle'[g].scanning
  <2>1. /\ handle'[h] = [handle[h] EXCEPT !.scanning = TRUE, !.docancel = FALSE]
        /\ \A g \in Slots : g /= h => handle'[g] = handle[g]
    BY <1>t, <1>k DEF StartScan
  <2>2. /\ handle'[h] \in Handle /\ handle'[h].be = handle[h].be
        /\ handle'[h].inuse = handle[h].inuse /\ handle'[h].scanning
    BY <2>1, <1>k, <1>t DEF Handle
  <2>3. handle' \in [Slots -> Handle]
    BY <2>2, <1>t DEF StartScan
  <2> QED BY <2>1, <2>2, <2>3
<1>g. \A c \in Clients : slot[c] /= NoSlot => slot[c] \in Slots
  BY <1>t DEF Slots, NoSlot
<1>1. TypeOK'
  <2>1. starting' \in [h : Slots \cup {NoSlot}, be : Devices \cup {NoDevice}]
    BY <1>s, <1>k
  <2> QED BY <1>i, <1>s, <1>h, <2>1 DEF Typed, TypeOK, Handle
<1>2. Typed'
  <2>1. request' \in [op : {"none", "open", "password", "wrong_password", "close", "cancel",
                            "start", "exit"}, slot : -1..(num_handles' - 1)]
    BY <1>t, <1>s DEF None, NoSlot
  <2>2. reply' \in [status : {"none", "good", "failed", "busy", "auth"},
                    slot : -1..(num_handles' - 1), be : Devices \cup {NoDevice}]
    BY <1>t, <1>s DEF NoReply, NoSlot, NoDevice
  <2> QED BY <1>i, <1>s, <1>1, <2>1, <2>2 DEF Typed
<1>3. Calls' /\ Holders'
  BY <1>i, <1>s DEF Calls, Holders, None, NoReply
<1>4. DevicesInTable'
  <2>1. Opening' => Opening
    BY <1>s DEF Opening, None, NoReply
  <2> QED BY <1>i, <1>s, <1>h, <2>1 DEF DevicesInTable
<1>5. Scans' /\ OneScanPerDevice'
  BY <1>i, <1>s, <1>t, <1>h DEF Scans, OneScanPerDevice, Scan
<1>6. ASSUME NEW i \in DOMAIN frames
      PROVE  /\ frames[i].be /= handle[h].be
             /\ frames[i].h = h => frames[i].be < handle[h].be
  <2>1. frames[i] \in Scan /\ frames[i].be <= handle[frames[i].h].be
    BY <1>i, <1>t DEF Scans
  <2>2. frames[i].be /= handle[h].be
    BY <1>i, <1>k DEF Scans
  <2> QED BY <2>1, <2>2, <1>k DEF Scan, Devices
<1>7. Starts'
  BY <1>s, <1>k, <1>h, <1>6 DEF Starts
<1>8. Stay'
  BY <1>i, <1>s, <1>h, <1>g DEF Kept, Unserved, Holds, IInv, OnHandle, Requested
<1> QED BY <1>2, <1>3, <1>4, <1>5, <1>7, <1>8 DEF IInv

LEMMA ServeStartStep == IInv /\ ServeStart => IInv'
<1> SUFFICES ASSUME IInv, ServeStart PROVE IInv'
  OBVIOUS
<1>i. /\ Typed /\ pc = "serve" /\ request.op = "start" /\ request /= None /\ request' = None
      /\ ~lost
  BY DEF IInv, ServeStart, OnHandle, Requested, None
<1>1. CASE /\ KnownSlot /\ ~handle[request.slot].scanning /\ StartScan(request.slot)
           /\ Answer("good") /\ pc' = "poll"
  BY <1>1, ScanStarts DEF ServeStart, Startable
<1>2. CASE /\ UNCHANGED <<handle, starting>>
           /\ pc' = Resume(handle, frames)
           /\ reply' = reply \/ Answer("busy") \/ Answer("failed")
  <2>1. SameSlots
    BY <1>i, <1>2, MarkKeeps
  <2>2. Replied /\ Onward
    BY <1>i, <1>2, ResumeCases DEF Replied, Onward, Answer
  <2>3. Rest
    BY <1>i, <1>2 DEF ServeStart, Rest, Typed, TypeOK
  <2> QED BY <1>i, <2>1, <2>2, <2>3, KeepsTable
<1> QED BY <1>1, <1>2 DEF ServeStart
LEMMA PollStep == IInv /\ Poll => IInv'
<1> SUFFICES ASSUME IInv, Poll PROVE IInv'
  OBVIOUS
<1>i. /\ Typed /\ Calls /\ Holders /\ DevicesInTable /\ Scans /\ Starts /\ Stay
      /\ OneScanPerDevice /\ pc = "poll"
  BY DEF IInv, Poll
<1>s. /\ pc' = "accept"
      /\ UNCHANGED <<handle, num_handles, last_handle_checked, lost, frames, starting, be_open,
                     request, reply, pending, conn, call, slot, device, data, alive, opens>>
  BY DEF Poll, server, network, client
<1>1. TypeOK'
  BY <1>i, <1>s DEF Typed, TypeOK
<1>2. Typed'
  BY <1>i, <1>s, <1>1 DEF Typed
<1>3. Calls' /\ Holders' /\ DevicesInTable'
  BY <1>i, <1>s DEF Calls, Holders, DevicesInTable, Opening
<1>4. Scans' /\ OneScanPerDevice' /\ Stay'
  BY <1>i, <1>s DEF Scans, OneScanPerDevice, Kept, Unserved, Holds
<1>5. Starts'
  BY <1>i, <1>s DEF Starts
<1> QED BY <1>2, <1>3, <1>4, <1>5 DEF IInv

\* The data connection is there: do_scan is entered.
LEMMA AcceptStep == IInv /\ Accept => IInv'
<1> SUFFICES ASSUME IInv, Accept PROVE IInv'
  OBVIOUS
<1>i. /\ Typed /\ Calls /\ Holders /\ DevicesInTable /\ Scans /\ Starts /\ Stay
      /\ OneScanPerDevice /\ pc = "accept"
  BY DEF IInv, Accept
<1>t. /\ frames \in Seq(Scan) /\ Len(frames) \in Nat /\ DOMAIN frames = 1..Len(frames)
      /\ \A i \in DOMAIN frames : frames[i] \in Scan
      /\ \A h \in Slots : handle[h] \in Handle
  BY <1>i, TypedFacts
<1>s. /\ pc' = "serve" /\ pending' = NoDevice
      /\ UNCHANGED <<handle, num_handles, last_handle_checked, lost, starting, be_open,
                     request, reply, conn, call, slot, device, data, alive, opens>>
  BY DEF Accept, client
<1>b. /\ starting \in Scan /\ starting.h \in Slots
      /\ handle[starting.h].be = starting.be /\ handle[starting.h].scanning
      /\ \A i \in DOMAIN frames :
           frames[i].be /= starting.be /\ (frames[i].h = starting.h => frames[i].be < starting.be)
  <2>1. starting \in [h : Slots \cup {NoSlot}, be : Devices \cup {NoDevice}]
    BY <1>i DEF Typed, TypeOK
  <2> QED BY <1>i, <2>1 DEF Starts, Scan
<1>f. /\ frames' \in Seq(Scan) /\ DOMAIN frames' = 1..(Len(frames) + 1)
      /\ \A i \in 1..Len(frames) : frames'[i] = frames[i]
      /\ frames'[Len(frames) + 1] = starting
  <2>1. frames' = Append(frames, starting)
    BY DEF Accept
  <2> QED BY <1>t, <1>b, <2>1, AppendProperties, LenProperties
<1>1. TypeOK'
  BY <1>i, <1>s, <1>f DEF Typed, TypeOK, Scan, NoDevice
<1>2. Typed'
  BY <1>i, <1>s, <1>1 DEF Typed
<1>3. Calls' /\ Holders' /\ Starts'
  BY <1>i, <1>s DEF Calls, Holders, Starts
<1>4. DevicesInTable'
  BY <1>i, <1>s DEF DevicesInTable, Opening
<1>5. Scans'
  <2>1. \A i \in 1..(Len(frames) + 1) : frames'[i].be <= handle[frames'[i].h].be
    <3>1. ASSUME NEW i \in 1..(Len(frames) + 1) PROVE frames'[i].be <= handle[frames'[i].h].be
      <4>1. CASE i = Len(frames) + 1
        <5>1. starting.be \in Nat
          BY <1>b DEF Scan, Devices
        <5> QED BY <4>1, <5>1, <1>b, <1>f
      <4>2. CASE i /= Len(frames) + 1
        <5>1. i \in DOMAIN frames /\ frames'[i] = frames[i]
          BY <4>2, <1>t, <1>f
        <5> QED BY <5>1, <1>i DEF Scans
      <4> QED BY <4>1, <4>2
    <3> QED BY <3>1
  <2>2. ASSUME NEW i \in 1..(Len(frames) + 1), NEW j \in 1..(Len(frames) + 1),
               i < j, frames'[i].h = frames'[j].h
        PROVE  frames'[i].be < frames'[j].be
    <3>1. i \in DOMAIN frames /\ frames'[i] = frames[i]
      BY <1>t, <1>f, <2>2
    <3>2. CASE j = Len(frames) + 1
      BY <3>1, <3>2, <1>b, <1>f, <2>2
    <3>3. CASE j /= Len(frames) + 1
      <4>1. j \in DOMAIN frames /\ frames'[j] = frames[j]
        BY <3>3, <1>t, <1>f
      <4> QED BY <3>1, <4>1, <1>i, <2>2 DEF Scans
    <3> QED BY <3>2, <3>3
  <2>3. ASSUME NEW h \in Slots, handle[h].be = starting.be
        PROVE  h = starting.h
    BY <1>i, <1>b, <2>3 DEF DevicesInTable, Scan, Devices, NoDevice
  <2>4. \A i \in 1..(Len(frames) + 1), h \in Slots :
          handle[h].be = frames'[i].be =>
            h = frames'[i].h /\ (handle[h].inuse => handle[h].scanning)
    BY <1>i, <1>t, <1>b, <1>f, <2>3 DEF Scans
  <2> QED BY <1>s, <1>f, <2>1, <2>2, <2>4 DEF Scans
<1>6. OneScanPerDevice'
  BY <1>i, <1>t, <1>b, <1>f DEF OneScanPerDevice
<1>7. Stay'
  BY <1>i, <1>s DEF Kept, Unserved, Holds
<1> QED BY <1>2, <1>3, <1>4, <1>5, <1>6, <1>7 DEF IInv

\* The scan that ends is the last on its slot, which is marked no more: no other
\* scan has the slot's device.
LEMMA ScanEndStep == IInv /\ ScanEnd => IInv'
<1> SUFFICES ASSUME IInv, ScanEnd PROVE IInv'
  OBVIOUS
<1>i. /\ Typed /\ Calls /\ Holders /\ DevicesInTable /\ Scans /\ Stay
      /\ OneScanPerDevice /\ pc = "end"
  BY DEF IInv, ScanEnd
<1>t. /\ DOMAIN handle = Slots /\ handle \in [Slots -> Handle]
      /\ \A g \in Slots : handle[g] \in Handle
      /\ frames \in Seq(Scan) /\ Len(frames) \in DOMAIN frames
      /\ Len(frames) \in Nat /\ DOMAIN frames = 1..Len(frames)
      /\ \A i \in DOMAIN frames : frames[i] \in Scan
      /\ slot \in [Clients -> -1..(num_handles - 1)] /\ num_handles \in 0..MaxSlots
  BY <1>i, TypedFacts
<1>s. UNCHANGED <<num_handles, last_handle_checked, lost, starting, be_open, request, reply, pending,
                  conn, call, slot, device, data, alive, opens>>
  BY DEF ScanEnd, network, client
<1>p. pc' \in {"serve", "end"} /\ (pc' = "end" => frames' /= <<>>)
  BY ResumeCases DEF ScanEnd
<1>f. /\ frames' \in Seq(Scan) /\ DOMAIN frames' = 1..(Len(frames) - 1)
      /\ \A i \in 1..(Len(frames) - 1) : frames'[i] = frames[i]
  <2>1. frames' = SubSeq(frames, 1, Len(frames) - 1)
    BY DEF ScanEnd
  <2> DEFINE m == 1
             n == Len(frames) - 1
  <2>2. m \in 1..(Len(frames) + 1) /\ n \in (m - 1)..Len(frames)
    BY <1>t
  <2>3. /\ SubSeq(frames, m, n) \in Seq(Scan)
        /\ Len(SubSeq(frames, m, n)) = n - m + 1
        /\ \A i \in 1..(n - m + 1) : SubSeq(frames, m, n)[i] = frames[m + i - 1]
    BY <1>t, <2>2, SubSeqProperties
  <2> QED BY <1>t, <2>1, <2>3, LenProperties
<1> DEFINE t == Top.h
<1>h. /\ handle' \in [Slots -> Handle] /\ t \in Slots
      /\ \A g \in Slots : /\ handle'[g].be = handle[g].be /\ handle'[g].inuse = handle[g].inuse
                          /\ g /= t => handle'[g] = handle[g]
  <2>1. t \in Slots
    BY <1>t DEF Top, Scan
  <2>2. /\ handle'[t] = [handle[t] EXCEPT !.docancel = FALSE, !.scanning = FALSE]
        /\ \A g \in Slots : g /= t => handle'[g] = handle[g]
    BY <1>t, <2>1 DEF ScanEnd
  <2>3. /\ handle'[t] \in Handle /\ handle'[t].be = handle[t].be
        /\ handle'[t].inuse = handle[t].inuse
    BY <2>1, <2>2, <1>t DEF Handle
  <2>4. handle' \in [Slots -> Handle]
    BY <2>1, <2>3, <1>t DEF ScanEnd
  <2> QED BY <2>1, <2>2, <2>3, <2>4
<1>g. /\ \A c \in Clients : slot[c] /= NoSlot => slot[c] \in Slots
      /\ reply.slot /= NoSlot => reply.slot \in Slots
  BY <1>i, <1>t DEF Typed, Slots, NoSlot
<1>1. TypeOK'
  BY <1>i, <1>s, <1>p, <1>f, <1>h DEF Typed, TypeOK, Scan, Handle
<1>2. Typed'
  BY <1>i, <1>s, <1>1 DEF Typed
<1>3. Calls' /\ Holders'
  BY <1>i, <1>s, <1>h, <1>g DEF Calls, Holders
<1>4. DevicesInTable'
  BY <1>i, <1>s, <1>p, <1>h DEF DevicesInTable, Opening
<1>5. Scans'
  <2>1. ASSUME NEW i \in 1..(Len(frames) - 1), handle[t].be = frames[i].be
        PROVE  FALSE
    <3>1. frames[i].h = t /\ frames[i] \in Scan
      BY <1>i, <1>t, <1>h, <2>1 DEF Scans
    <3>2. frames[i].be < frames[Len(frames)].be /\ frames[Len(frames)].be <= handle[t].be
      BY <1>i, <1>t, <3>1 DEF Scans, Top
    <3>3. frames[i].be \in Nat /\ frames[Len(frames)].be \in Nat
      <4>1. frames[i].be \in Devices /\ frames[Len(frames)].be \in Devices
        BY <1>t, <3>1 DEF Scan
      <4> QED BY <4>1 DEF Devices
    <3> QED BY <2>1, <3>2, <3>3
  <2>2. \A i \in 1..(Len(frames) - 1), h \in Slots :
          handle'[h].be = frames'[i].be =>
            h = frames'[i].h /\ (handle'[h].inuse => handle'[h].scanning)
    BY <1>i, <1>t, <1>f, <1>h, <2>1 DEF Scans
  <2>3. /\ \A i \in 1..(Len(frames) - 1) : frames'[i].be <= handle'[frames'[i].h].be
        /\ \A i, j \in 1..(Len(frames) - 1) :
             i < j /\ frames'[i].h = frames'[j].h => frames'[i].be < frames'[j].be
    <3>1. \A i \in 1..(Len(frames) - 1) : i \in DOMAIN frames /\ frames'[i] = frames[i]
      BY <1>t, <1>f
    <3>2. \A i \in 1..(Len(frames) - 1) : frames[i].h \in Slots
      BY <3>1, <1>t DEF Scan
    <3> QED BY <3>1, <3>2, <1>i, <1>h DEF Scans
  <2> QED BY <1>f, <2>2, <2>3 DEF Scans
<1>6. Starts' /\ OneScanPerDevice'
  <2>1. \A i \in 1..(Len(frames) - 1) : i \in DOMAIN frames /\ frames'[i] = frames[i]
    BY <1>t, <1>f
  <2> QED BY <1>i, <1>p, <1>f, <2>1 DEF Starts, OneScanPerDevice
<1>7. Stay'
  BY <1>i, <1>s, <1>h, <1>g DEF Kept, Unserved, Holds
<1> QED BY <1>2, <1>3, <1>4, <1>5, <1>6, <1>7 DEF IInv
-----------------------------------------------------------------------------
\* The client's steps, which leave saned's variables alone.

LEMMA ClientKeeps ==
  ASSUME IInv, UNCHANGED <<pc, server>>, Typed', Stay',
         pc /= "exited" => Calls' /\ Holders' /\ DevicesInTable'
  PROVE  IInv'
<1>s. UNCHANGED <<pc, handle, frames, starting>>
  BY DEF server
<1>1. OneScanPerDevice'
  BY <1>s DEF IInv, OneScanPerDevice
<1>2. pc /= "exited" => Scans' /\ Starts'
  BY <1>s DEF IInv, Scans, Starts
<1> QED BY <1>s, <1>1, <1>2 DEF IInv

\* The frontend is not in a call, so nothing is under way.
LEMMA AskStep ==
  ASSUME IInv, NEW c \in Clients, NEW op \in {"open", "close", "cancel", "start"},
         Ready, Ask(op, c), opens' = IF op = "open" THEN opens + 1 ELSE opens,
         op = "open" => opens < MaxOpens
  PROVE  IInv'
<1>i. Typed /\ Stay
  BY DEF IInv
<1>j. pc /= "exited" => /\ Calls /\ Holders /\ DevicesInTable
                        /\ request = None /\ reply = NoReply
  BY DEF IInv, Calls, Ready, NoCall
<1>t. slot \in [Clients -> -1..(num_handles - 1)] /\ \A h \in Slots : handle[h] \in Handle
  BY <1>i, TypedFacts
<1>s. /\ request' = [op |-> op, slot |-> slot[c]] /\ call' = [op |-> op, who |-> c]
      /\ call = NoCall /\ alive
      /\ UNCHANGED <<pc, handle, num_handles, last_handle_checked, lost, frames, starting, be_open,
                     reply, pending, conn, slot, device, data, alive>>
  BY DEF Ask, Ready, server
<1>o. /\ opens' \in 0..MaxOpens /\ opens' >= opens
      /\ op = "open" => opens' = opens + 1
      /\ op /= "open" => opens' = opens
  BY <1>i DEF Typed
<1>1. TypeOK'
  BY <1>i, <1>s DEF Typed, TypeOK
<1>2. Typed'
  BY <1>i, <1>s, <1>t, <1>o, <1>1 DEF Typed, NoCall
<1>3. pc /= "exited" => Calls' /\ Holders'
  BY <1>j, <1>s DEF Calls, Holders
<1>4. pc /= "exited" => DevicesInTable'
  <2> SUFFICES ASSUME pc /= "exited" PROVE DevicesInTable'
    OBVIOUS
  <2>1. \A h \in Slots : handle[h].be \in Nat
    BY <1>t DEF Handle, Devices, NoDevice
  <2>2. CASE op = "open"
    BY <1>i, <1>j, <1>s, <1>o, <2>1, <2>2 DEF DevicesInTable, Typed
  <2>3. CASE op /= "open"
    <3>1. Opening' => Opening
      BY <1>j, <1>s, <2>3 DEF Opening, NoReply
    <3> QED BY <1>i, <1>j, <1>s, <1>o, <3>1, <2>3 DEF DevicesInTable
  <2> QED BY <2>2, <2>3
<1>5. Stay'
  BY <1>i, <1>s DEF Kept, Unserved, Holds, NoCall
<1> QED BY <1>s, <1>2, <1>3, <1>4, <1>5, ClientKeeps DEF server

LEMMA AskSteps ==
  ASSUME IInv, NEW c \in Clients, AskOpen(c) \/ AskClose(c) \/ AskCancel(c) \/ AskStart(c)
  PROVE  IInv'
<1>1. CASE AskOpen(c)
  BY <1>1, AskStep DEF AskOpen
<1>2. CASE AskClose(c)
  BY <1>2, AskStep DEF AskClose
<1>3. CASE AskCancel(c)
  BY <1>3, AskStep DEF AskCancel
<1>4. CASE AskStart(c)
  BY <1>4, AskStep DEF AskStart
<1> QED BY <1>1, <1>2, <1>3, <1>4

LEMMA ReadStep ==
  ASSUME IInv, NEW c \in Clients, Read(c)
  PROVE  IInv'
<1>i. Typed /\ Stay /\ (pc /= "exited" => Calls /\ Holders /\ DevicesInTable)
  BY DEF IInv
<1>s. /\ call' = [op |-> "read", who |-> c] /\ call = NoCall /\ alive
      /\ UNCHANGED <<pc, handle, num_handles, last_handle_checked, lost, frames, starting, be_open,
                     request, reply, pending, conn, slot, device, data, alive, opens>>
  BY DEF Read, Ready, server, network
<1>1. TypeOK'
  BY <1>i, <1>s DEF Typed, TypeOK
<1>2. Typed'
  BY <1>i, <1>s, <1>1 DEF Typed
<1>3. pc /= "exited" => Calls' /\ Holders'
  BY <1>i, <1>s DEF Calls, Holders, NoCall, None
<1>4. pc /= "exited" => DevicesInTable'
  BY <1>i, <1>s DEF DevicesInTable, Opening, NoCall
<1>5. Stay'
  BY <1>i, <1>s DEF Kept, Unserved, Holds, NoCall
<1> QED BY <1>s, <1>2, <1>3, <1>4, <1>5, ClientKeeps DEF server

LEMMA LeaveStep == IInv /\ Leave => IInv'
<1> SUFFICES ASSUME IInv, Leave PROVE IInv'
  OBVIOUS
<1>i. Typed /\ Stay /\ (pc /= "exited" => Calls /\ Holders /\ DevicesInTable)
  BY DEF IInv
<1>s. /\ alive /\ alive' = FALSE /\ call' = NoCall
      /\ slot' = [c \in Clients |-> NoSlot] /\ device' = [c \in Clients |-> NoDevice]
      /\ data' = [c \in Clients |-> FALSE]
      /\ UNCHANGED <<pc, handle, num_handles, last_handle_checked, lost, frames, starting, be_open,
                     reply, pending, conn, opens>>
      /\ request' = request \/ (call = NoCall /\ request' = [op |-> "exit", slot |-> NoSlot])
  BY DEF Leave, Ready, server
<1>t. num_handles \in 0..MaxSlots
  BY <1>i, TypedFacts
<1>1. TypeOK'
  <2>1. slot' \in [Clients -> -1..(num_handles' - 1)]
    BY <1>s, <1>t DEF NoSlot
  <2> QED BY <1>i, <1>s, <2>1 DEF Typed, TypeOK, NoDevice
<1>2. Typed'
  <2>1. request' \in [op : {"none", "open", "password", "wrong_password", "close", "cancel",
                            "start", "exit"}, slot : -1..(num_handles' - 1)]
    BY <1>i, <1>s, <1>t DEF Typed, NoSlot
  <2> QED BY <1>i, <1>s, <1>1, <2>1 DEF Typed, NoCall, Nobody
<1>3. pc /= "exited" => Calls' /\ Holders'
  <2> SUFFICES ASSUME pc /= "exited" PROVE Calls' /\ Holders'
    OBVIOUS
  <2>1. Calls'
    BY <1>i, <1>s DEF Calls, NoCall
  <2>2. \A c \in Clients : slot'[c] = NoSlot
    BY <1>s
  <2>3. Holders'
    BY <1>i, <1>s, <2>2 DEF Holders
  <2> QED BY <2>1, <2>3
<1>4. pc /= "exited" => DevicesInTable'
  <2>1. Opening' => Opening
    BY <1>s DEF Opening, NoCall
  <2> QED BY <1>i, <1>s, <2>1 DEF DevicesInTable
<1>5. Stay'
  BY <1>i, <1>s DEF Kept, Unserved, Holds
<1> QED BY <1>s, <1>2, <1>3, <1>4, <1>5, ClientKeeps DEF server
\* A call that does not touch the table ends.
CallOver ==
  /\ call.op \in {"connect", "read"} \/ pc = "exited"
  /\ call' = NoCall
  /\ data' \in [Clients -> BOOLEAN] /\ conn' \in [Devices -> {"empty", "data", "status"}]
  /\ pending' \in Devices \cup {NoDevice}
  /\ UNCHANGED <<pc, server, request, reply, slot, device, alive, opens>>

LEMMA CallOverStep ==
  ASSUME IInv, CallOver
  PROVE  IInv'
<1>i. Typed /\ Stay /\ (pc /= "exited" => Calls /\ Holders /\ DevicesInTable)
  BY DEF IInv
<1>s. /\ call.op \in {"connect", "read"} \/ pc = "exited"
      /\ call' = NoCall /\ data' \in [Clients -> BOOLEAN]
      /\ UNCHANGED <<pc, handle, num_handles, last_handle_checked, lost, frames, starting, be_open,
                     request, reply, slot, device, alive, opens>>
  BY DEF CallOver, server
<1>1. TypeOK'
  BY <1>i, <1>s DEF Typed, TypeOK, CallOver
<1>2. Typed'
  BY <1>i, <1>s, <1>1 DEF Typed, NoCall, Nobody
<1>3. pc /= "exited" => Calls' /\ Holders'
  BY <1>i, <1>s DEF Calls, Holders, NoCall, None, Typed
<1>4. pc /= "exited" => DevicesInTable'
  BY <1>i, <1>s DEF DevicesInTable, Opening, NoCall
<1>5. Stay'
  BY <1>i, <1>s DEF Kept, Unserved, Holds, NoCall
<1> QED BY <1>s, <1>2, <1>3, <1>4, <1>5, ClientKeeps DEF CallOver

LEMMA CallOverSteps ==
  ASSUME IInv, Connect \/ ConnectFails \/ ReadReturns \/ CallFails
  PROVE  IInv'
<1>i. /\ Typed /\ TypeOK /\ data \in [Clients -> BOOLEAN]
      /\ conn \in [Devices -> {"empty", "data", "status"}]
      /\ pending \in Devices \cup {NoDevice}
      /\ device \in [Clients -> Devices \cup {NoDevice}]
      /\ call.op /= "none" => call.who \in Clients
  BY DEF IInv, Typed, TypeOK, NoCall
<1>1. CASE Connect
  BY <1>i, <1>1, CallOverStep DEF Connect, CallOver
<1>2. CASE ConnectFails
  BY <1>i, <1>2, CallOverStep DEF ConnectFails, CallOver, network
<1>3. CASE ReadReturns
  BY <1>i, <1>3, CallOverStep DEF ReadReturns, CallOver
<1>4. CASE CallFails
  BY <1>i, <1>4, CallOverStep DEF CallFails, CallOver, network
<1> QED BY <1>1, <1>2, <1>3, <1>4

LEMMA PasswordAskedStep == IInv /\ PasswordAsked => IInv'
<1> SUFFICES ASSUME IInv, PasswordAsked PROVE IInv'
  OBVIOUS
<1>i. Typed /\ Stay /\ (pc /= "exited" => Calls /\ Holders /\ DevicesInTable)
  BY DEF IInv
<1>s. /\ call.op = "open" /\ reply.status = "auth" /\ reply' = NoReply
      /\ call' = [call EXCEPT !.op = "ask"]
      /\ UNCHANGED <<pc, handle, num_handles, last_handle_checked, lost, frames, starting, be_open,
                     request, pending, conn, slot, device, data, alive, opens>>
  BY DEF PasswordAsked, server
<1>c. /\ call'.op = "ask" /\ call'.who = call.who /\ call /= NoCall
      /\ call' \in [op : {"none", "open", "close", "cancel", "start", "ask", "connect", "read"},
                    who : Clients \cup {Nobody}]
  BY <1>i, <1>s DEF Typed, NoCall
<1>1. TypeOK'
  BY <1>i, <1>s DEF Typed, TypeOK
<1>2. Typed'
  BY <1>i, <1>s, <1>c, <1>1 DEF Typed, TypeOK, NoReply, NoSlot, NoDevice
<1>3. pc /= "exited" => Calls' /\ Holders'
  BY <1>i, <1>s, <1>c DEF Calls, Holders, None, NoReply
<1>4. pc /= "exited" => DevicesInTable'
  BY <1>i, <1>s DEF DevicesInTable, Opening
<1>5. Stay'
  BY <1>i, <1>s, <1>c DEF Kept, Unserved, Holds, NoReply
<1> QED BY <1>s, <1>2, <1>3, <1>4, <1>5, ClientKeeps DEF server

LEMMA AuthorizeStep == IInv /\ Authorize => IInv'
<1> SUFFICES ASSUME IInv, Authorize PROVE IInv'
  OBVIOUS
<1>i. /\ Typed /\ Stay /\ (pc /= "exited" => Calls /\ Holders /\ DevicesInTable)
      /\ num_handles \in 0..MaxSlots
  BY TypedFacts DEF IInv
<1>s. /\ call.op = "ask"
      /\ request' \in {[op |-> "password", slot |-> NoSlot],
                       [op |-> "wrong_password", slot |-> NoSlot]}
      /\ call' = [call EXCEPT !.op = "open"]
      /\ UNCHANGED <<pc, handle, num_handles, last_handle_checked, lost, frames, starting, be_open,
                     reply, pending, conn, slot, device, data, alive, opens>>
  BY DEF Authorize, server
<1>c. /\ call'.op = "open" /\ call'.who = call.who /\ call /= NoCall
      /\ call' \in [op : {"none", "open", "close", "cancel", "start", "ask", "connect", "read"},
                    who : Clients \cup {Nobody}]
  BY <1>i, <1>s DEF Typed, NoCall
<1>1. TypeOK'
  BY <1>i, <1>s DEF Typed, TypeOK
<1>2. Typed'
  <2>1. request' \in [op : {"none", "open", "password", "wrong_password", "close", "cancel",
                            "start", "exit"}, slot : -1..(num_handles' - 1)]
    BY <1>i, <1>s DEF NoSlot
  <2> QED BY <1>i, <1>s, <1>c, <1>1, <2>1 DEF Typed
<1>3. pc /= "exited" => Calls' /\ Holders'
  <2>1. request'.op \in {"password", "wrong_password"}
    BY <1>s
  <2> QED BY <1>i, <1>s, <1>c, <2>1 DEF Calls, Holders, Typed
<1>4. pc /= "exited" => DevicesInTable'
  <2>1. Opening
    BY <1>s DEF Opening
  <2> QED BY <1>i, <1>s, <2>1 DEF DevicesInTable
<1>5. Stay'
  BY <1>i, <1>s, <1>c DEF Kept, Unserved, Holds
<1> QED BY <1>s, <1>2, <1>3, <1>4, <1>5, ClientKeeps DEF server
\* A reply arrives: the frontend has what it names, or has what it closed no more.
LEMMA ReturnsStep == IInv /\ Returns => IInv'
<1> SUFFICES ASSUME IInv, Returns PROVE IInv'
  OBVIOUS
<1> DEFINE c == call.who
<1>i. /\ Typed /\ Stay /\ (pc /= "exited" => Calls /\ Holders /\ DevicesInTable)
  BY DEF IInv
<1>t. /\ slot \in [Clients -> -1..(num_handles - 1)] /\ num_handles \in 0..MaxSlots
      /\ device \in [Clients -> Devices \cup {NoDevice}]
      /\ data \in [Clients -> BOOLEAN] /\ conn \in [Devices -> {"empty", "data", "status"}]
      /\ reply.slot \in -1..(num_handles - 1) /\ reply.be \in Devices \cup {NoDevice}
  BY <1>i, TypedFacts DEF Typed, TypeOK
<1>c. /\ call.op \in {"open", "close", "cancel", "start"} /\ c \in Clients /\ alive
      /\ reply /= NoReply
  BY <1>i DEF Returns, Typed, NoCall
<1>s. /\ reply' = NoReply
      /\ call' = NoCall \/ call' = [op |-> "connect", who |-> c]
      /\ UNCHANGED <<pc, handle, num_handles, last_handle_checked, lost, frames, starting, be_open,
                     request, pending, alive, opens>>
  BY DEF Returns, server
<1>d. /\ slot' \in [Clients -> -1..(num_handles - 1)]
      /\ device' \in [Clients -> Devices \cup {NoDevice}]
      /\ \A b \in Clients : b /= c => slot'[b] = slot[b] /\ device'[b] = device[b]
      /\ \/ call.op = "open" /\ slot'[c] = reply.slot /\ device'[c] = reply.be
         \/ call.op = "close" /\ slot'[c] = NoSlot
         \/ /\ call.op \in {"cancel", "start"}
            /\ slot'[c] = slot[c] /\ device'[c] = device[c]
  <2>1. CASE call.op = "open"
    <3>1. slot' = [slot EXCEPT ![c] = reply.slot] /\ device' = [device EXCEPT ![c] = reply.be]
      BY <2>1 DEF Returns
    <3> QED BY <2>1, <3>1, <1>t, <1>c
  <2>2. CASE call.op = "close"
    <3>1. slot' = [slot EXCEPT ![c] = NoSlot] /\ device' = [device EXCEPT ![c] = NoDevice]
      BY <2>2 DEF Returns
    <3> QED BY <2>2, <3>1, <1>t, <1>c DEF NoSlot, NoDevice
  <2>3. CASE call.op \in {"cancel", "start"}
    <3>1. slot' = slot /\ device' = device
      BY <2>3 DEF Returns
    <3> QED BY <2>3, <3>1, <1>t
  <2> QED BY <2>1, <2>2, <2>3, <1>c
<1>e. data' \in [Clients -> BOOLEAN] /\ conn' \in [Devices -> {"empty", "data", "status"}]
  <2>1. CASE call.op \in {"cancel", "close"}
    BY <2>1, <1>t DEF Returns
  <2>2. CASE call.op \notin {"cancel", "close"}
    BY <2>2, <1>t DEF Returns
  <2> QED BY <2>1, <2>2
<1>1. TypeOK'
  BY <1>i, <1>s, <1>d, <1>e DEF Typed, TypeOK
<1>2. Typed'
  <2>1. reply' \in [status : {"none", "good", "failed", "busy", "auth"},
                    slot : -1..(num_handles' - 1), be : Devices \cup {NoDevice}]
    BY <1>s, <1>t DEF NoReply, NoSlot, NoDevice
  <2>2. call' \in [op : {"none", "open", "close", "cancel", "start", "ask", "connect", "read"},
                   who : Clients \cup {Nobody}]
    BY <1>s, <1>c DEF NoCall
  <2>3. call' /= NoCall => call'.who \in Clients
    BY <1>s, <1>c
  <2> QED BY <1>i, <1>s, <1>c, <1>1, <2>1, <2>2, <2>3 DEF Typed
<1>3. pc /= "exited" => Calls'
  <2> SUFFICES ASSUME pc /= "exited" PROVE Calls'
    OBVIOUS
  <2>1. request' = None
    BY <1>i, <1>c, <1>s DEF Calls
  <2> QED BY <1>s, <2>1 DEF Calls, None
<1>4. pc /= "exited" => Holders'
  <2> SUFFICES ASSUME pc /= "exited" PROVE Holders'
    OBVIOUS
  <2>1. ASSUME NEW a \in Clients, NEW b \in Clients, slot'[a] = slot'[b], slot'[a] /= NoSlot
        PROVE  a = b
    BY <2>1, <1>i, <1>d DEF Holders
  <2> QED BY <2>1, <1>s DEF Holders, NoReply
<1>5. pc /= "exited" => DevicesInTable'
  <2>1. Opening' => Opening
    BY <1>s DEF Opening, NoCall, NoReply
  <2> QED BY <1>i, <1>s, <2>1 DEF DevicesInTable
<1>6. Stay'
  <2> SUFFICES ASSUME pc /= "exited", NEW b \in Clients, slot'[b] /= NoSlot
               PROVE  handle[slot'[b]].inuse /\ handle[slot'[b]].be = device'[b]
    BY <1>s DEF Kept, Unserved, Holds, NoReply
  <2>1. CASE b /= c
    BY <2>1, <1>i, <1>d DEF Kept, Unserved, Holds
  <2>2. CASE b = c
    BY <2>2, <1>i, <1>d DEF Kept, Unserved, Holds, Holders
  <2> QED BY <2>1, <2>2
<1> QED BY <1>s, <1>2, <1>3, <1>4, <1>5, <1>6, ClientKeeps DEF server

LEMMA StutterStep == IInv /\ UNCHANGED vars => IInv'
<1> SUFFICES ASSUME IInv, UNCHANGED vars PROVE IInv'
  OBVIOUS
<1>s. UNCHANGED <<pc, handle, num_handles, last_handle_checked, lost, frames, starting, be_open,
                  request, reply, pending, conn, call, slot, device, data, alive, opens>>
  BY DEF vars, server, network, client
<1>1. Typed'
  BY <1>s DEF IInv, Typed, TypeOK
<1>2. Stay'
  BY <1>s DEF IInv, Kept, Unserved, Holds
<1>3. pc /= "exited" => Calls' /\ Holders' /\ DevicesInTable'
  BY <1>s DEF IInv, Calls, Holders, DevicesInTable, Opening
<1> QED BY <1>1, <1>2, <1>3, ClientKeeps DEF vars

-----------------------------------------------------------------------------
\* The invariant, and the properties it implies.

LEMMA NextKeepsIInv == IInv /\ [Next]_vars => IInv'
<1> SUFFICES ASSUME IInv, [Next]_vars PROVE IInv'
  OBVIOUS
<1>1. CASE Saned
  BY <1>1, ServeOpenStep, ServeAuthorizeStep, ServeCloseStep, ServeCancelStep, ServeStartStep,
     ServeEndStep, PollStep, AcceptStep, AcceptResetStep, ScanDataStep, ScanStatusStep,
     ScanWriteFailsStep, ScanEndStep, LostTableStep DEF Saned
<1>2. CASE Crash \/ Watchdog
  BY <1>2, CrashStep, WatchdogStep
<1>3. ASSUME NEW c \in Clients,
             AskOpen(c) \/ AskClose(c) \/ AskCancel(c) \/ AskStart(c) \/ Read(c)
      PROVE  IInv'
  BY <1>3, AskSteps, ReadStep
<1>4. CASE Answered
  BY <1>4, ReturnsStep, PasswordAskedStep, AuthorizeStep, CallOverSteps DEF Answered
<1>5. CASE Leave
  BY <1>5, LeaveStep
<1>6. CASE UNCHANGED vars
  BY <1>6, StutterStep
<1> QED BY <1>1, <1>2, <1>3, <1>4, <1>5, <1>6 DEF Next, Ended

\* In every state of a session the slots, the devices and the scans agree as
\* IInv says, however the client's requests are nested and whichever end goes
\* first (process_request and do_scan of saned.c).
THEOREM Invariance == Spec => []IInv
<1>1. Init => IInv
  BY InitIInv
<1>2. IInv /\ [Next]_vars => IInv'
  BY NextKeepsIInv
<1> QED BY <1>1, <1>2, PTL DEF Spec

\* The variables keep their types; do_scan is left only from inside a scan.
THEOREM TypeCorrect == Spec => []TypeOK
<1>1. IInv => TypeOK
  BY DEF IInv, Typed
<1> QED BY <1>1, Invariance, PTL

\* A handle the frontend holds is in use and stands for the device it opened,
\* however often get_free_handle handed its slot out before, until realloc fails
\* there; from then on no request on a handle, lost with the table, is answered.
THEOREM HeldHandlesStay == Spec => []HandlesStay
<1>1. IInv => HandlesStay
  BY DEF IInv, HandlesStay
<1> QED BY <1>1, Invariance, PTL

\* No two do_scan calls, however nested, read from one device.
THEOREM DeviceScannedOnce == Spec => []OneScanPerDevice
<1>1. IInv => OneScanPerDevice
  BY DEF IInv
<1> QED BY <1>1, Invariance, PTL
=============================================================================
