----------------------------- MODULE SanedDaemon -----------------------------
(***************************************************************************)
(* saned as a daemon (run_standalone of frontend/saned.c): it listens,     *)
(* forks a session process for each connection, and one that announces the *)
(* service through Avahi, keeps them in a list, watches each by a pidfd or, *)
(* where there is none, every half second, and waits for them when it      *)
(* stops.  Every process inherits the list and the handler of SIGINT and   *)
(* SIGTERM, which may come to any of them at any point.                    *)
(*                                                                         *)
(* What a session does is in SanedSession.  A descriptor has the lowest    *)
(* number not in use, so that a number may come back for another process.  *)
(***************************************************************************)
EXTENDS Integers, FiniteSets, Sequences, Functions

CONSTANTS NumListeners,   \* sockets do_bindings opens: IPv6 and IPv4
          MaxSessions     \* bound: connections accepted

ASSUME DaemonAssumption == NumListeners \in Nat \ {0} /\ MaxSessions \in Nat

VARIABLES
  pc,          \* "start", "top", "walk", "reap", "last", "bail", "exited", "aborted"
  once,        \* run_once
  running,
  children,    \* the list: process and pidfd, -1 if there is none
  saned_fds,   \* the list, newest first: number and what it stands for
  poll_set,    \* its numbers; <<>> while poll_set_valid is FALSE
  walk,        \* poll events to handle: entry of saned_fds, number in poll_set
  do_reap, do_rebind,
  child,       \* what fork() or waitpid() has just returned, or None
  proc,        \* "none", "running", "spinning", "zombie", "gone"
  kids,        \* children as each process inherited it
  pending,     \* listening sockets with a connection to accept
  broken,      \* listening sockets in error
  \* history, for the properties only
  unlisted,    \* processes that never came into the list
  slow         \* a child had no pidfd

loop    == <<poll_set, walk, do_reap, do_rebind>>
tables  == <<children, saned_fds>>
network == <<pending, broken>>
history == <<unlisted, slow>>
vars    == <<pc, once, running, tables, loop, child, proc, kids, network, history>>

Avahi    == 0
Session  == 1..MaxSessions
None     == -1
Pids     == {Avahi} \cup Session
Listener == {-k : k \in 1..NumListeners}
Numbers(list) == {list[k].fd : k \in DOMAIN list}
Watches(list) == {list[k].of : k \in DOMAIN list}
Listed        == {c.pid : c \in children}

-----------------------------------------------------------------------------
(* Descriptors *)

\* The k-th number of a set, and the entries of a list at a set of indices.
Kth(S, k) == CHOOSE i \in S : Cardinality(S \cap 1..i) = k
Entries(list, S) == [k \in 1..Cardinality(S) |-> list[Kth(S, k)]]

\* The numbers that open() gives next, and add_fd with the first.
Free(list) == (1..Len(list) + NumListeners) \ Numbers(list)
FreeNumber(list) == Kth(Free(list), 1)
AddFd(list, of) == <<[fd |-> FreeNumber(list), of |-> of]>> \o list

CloseFd(list, number) == Entries(list, {k \in DOMAIN list : list[k].fd /= number})
CloseListenersNot(list) == list                                          \* mutant
CloseListeners(list) == Entries(list, {k \in DOMAIN list : list[k].of \notin Listener})

\* do_bindings: a number for each socket of "opened"; the others fail to open or bind.
DoBindings(list, opened) ==
  LET n == Cardinality(opened)
  IN  [k \in 1..n |-> [fd |-> Kth(Free(list), n + 1 - k), of |-> -Kth(opened, n + 1 - k)]] \o list

Init ==
  /\ pc = "start" /\ once \in BOOLEAN /\ running = TRUE
  /\ children = {} /\ saned_fds = DoBindings(<<>>, 1..NumListeners)
  /\ poll_set = <<>>
  /\ walk = <<>> /\ do_reap = FALSE /\ do_rebind = FALSE
  /\ child = None
  /\ proc = [p \in Pids |-> "none"] /\ kids = [p \in Pids |-> {}]
  /\ pending = {} /\ broken = {}
  /\ unlisted = {} /\ slow = FALSE

-----------------------------------------------------------------------------
(* Processes and signals *)

Looping == pc \in {"start", "top", "walk", "reap"}
Dead == pc \in {"exited", "aborted"}
Alive(p) == proc[p] \in {"running", "spinning"}
\* A process ends; init waits for it when its parent is gone.
Ends(state, p) == [state EXCEPT ![p] = IF Dead THEN "gone" ELSE "zombie"]
Orphaned(state) == [p \in Pids |-> IF state[p] = "zombie" THEN "gone" ELSE state[p]]

\* kill_children: of those in the list, the Avahi process.
KillChildren(state, list) ==
  IF Avahi \in list /\ state[Avahi] = "running" THEN Ends(state, Avahi) ELSE state
\* SIGTERM in a session: bail_out over the list it inherited, of processes
\* that are not its children, so that it waits for them in vain.
Terminated(state, p) ==
  IF kids[p] = {} THEN Ends(state, p)
  ELSE [KillChildren(state, kids[p]) EXCEPT ![p] = "spinning"]

\* bail_out in the daemon, up to its wait; it ends the loop and its variables.
BailOut ==
  /\ pc' = "bail" /\ child' = None /\ proc' = KillChildren(proc, Listed)
  /\ poll_set' = <<>> /\ walk' = <<>> /\ do_reap' = FALSE /\ do_rebind' = FALSE
  /\ pending' = {} /\ broken' = {}
  /\ UNCHANGED <<once, running, kids, slow>>

At(place) == pc = place /\ child = None
Fork(p) ==
  /\ proc' = [proc EXCEPT ![p] = "running"]
  /\ kids' = [kids EXCEPT ![p] = Listed]
  /\ child' = p

-----------------------------------------------------------------------------
(* Starting, and add_child *)

StartAvahi ==
  /\ At("start") /\ pc' = "top"
  /\ \/ Fork(Avahi)
     \/ UNCHANGED <<proc, kids, child>>
  /\ UNCHANGED <<once, running, tables, loop, network, history>>

Forked == pc \in {"top", "walk"} /\ child /= None

\* No descriptor for the process, or none that add_fd had memory to keep.
AddChild ==
  /\ Forked /\ child' = None
  /\ \E pidfd \in {-1, FreeNumber(saned_fds)} : \E kept \in BOOLEAN :
       /\ kept => pidfd /= -1
       /\ children' = children \cup {[pid |-> child, pidfd |-> pidfd]}
       /\ saned_fds' = IF kept THEN AddFd(saned_fds, child) ELSE saned_fds
       /\ slow' = (slow \/ pidfd = -1)
  /\ UNCHANGED <<pc, once, running, loop, proc, kids, network, unlisted>>

\* No memory to list it.
AddChildFails ==
  /\ Forked /\ child' = None
  /\ proc' = IF Alive(child) THEN Terminated(proc, child) ELSE proc
  /\ unlisted' = unlisted \cup {child}
  /\ UNCHANGED <<pc, once, running, tables, loop, kids, network, slow>>

-----------------------------------------------------------------------------
(* The loop *)

TimeoutNotNeeded == FALSE                                               \* mutant
TimeoutNeeded == \E c \in children : c.pidfd = -1

\* What poll() says of a number: the socket or process that has it now.
Revents(number) ==
  IF number \notin Numbers(saned_fds) THEN "bad"
  ELSE LET of == (CHOOSE f \in Range(saned_fds) : f.fd = number).of IN
       IF of \in broken THEN "bad"
       ELSE IF of \in pending \/ (of \in Pids /\ ~Alive(of)) THEN "in" ELSE "none"

PollSet == IF poll_set /= <<>> THEN poll_set ELSE [k \in DOMAIN saned_fds |-> saned_fds[k].fd]

\* The first num_saned_fds elements are polled.  An element that differs from
\* its entry without an event comes after one that differs and has an event.
Polled ==
  LET due == {k \in DOMAIN saned_fds : Revents(PollSet[k]) /= "none"}
  IN  Entries([k \in DOMAIN saned_fds |->
                 [sfd |-> saned_fds[k], fd |-> PollSet[k], revents |-> Revents(PollSet[k])]], due)

Poll ==
  /\ At("top") /\ running
  /\ Polled /= <<>> \/ TimeoutNeeded
  /\ walk' = Polled /\ poll_set' = PollSet
  /\ do_reap' = TimeoutNeeded /\ do_rebind' = FALSE /\ pc' = "walk"
  /\ UNCHANGED <<once, running, tables, child, proc, kids, network, history>>

\* realloc or poll() fails.
PollFails ==
  /\ At("top") /\ running
  /\ BailOut
  /\ saned_fds' \in {saned_fds, <<>>}
  /\ UNCHANGED <<children, unlisted>>

Event == Head(walk)
NextIs(kind) == At("walk") /\ walk /= <<>> /\ Event.sfd.fd = Event.fd /\ Event.revents = kind

\* assert(sfd->fd == pfd->fd) fails.
Abort ==
  /\ At("walk") /\ walk /= <<>> /\ Event.sfd.fd /= Event.fd
  /\ pc' = "aborted" /\ proc' = Orphaned(proc) /\ pending' = {} /\ broken' = {}
  /\ UNCHANGED <<once, running, tables, loop, child, kids, history>>

ListenerErrorSkipped ==                                                 \* mutant
  /\ NextIs("bad") /\ Event.sfd.of \in Listener
  /\ walk' = Tail(walk)
  /\ UNCHANGED <<pc, once, running, tables, poll_set, do_reap, do_rebind, child,
                 proc, kids, network, history>>
ListenerError ==
  /\ NextIs("bad") /\ Event.sfd.of \in Listener
  /\ do_rebind' = TRUE /\ walk' = Tail(walk)
  /\ UNCHANGED <<pc, once, running, tables, poll_set, do_reap, child,
                 proc, kids, network, history>>

\* The connection is gone, or there is no descriptor for it.
AcceptFails ==
  /\ NextIs("in") /\ Event.sfd.of \in Listener
  /\ walk' = Tail(walk) /\ pending' \in {pending, pending \ {Event.sfd.of}}
  /\ UNCHANGED <<pc, once, running, tables, poll_set, do_reap, do_rebind,
                 child, proc, kids, broken, history>>

\* handle_client, in which fork() may fail.
Accept(l) ==
  /\ NextIs("in") /\ Event.sfd.of = l
  /\ walk' = Tail(walk) /\ pending' = pending \ {l}
  /\ poll_set' = <<>> /\ running' = (running /\ ~once)
  /\ \/ \E p \in Session : /\ proc[p] = "none" /\ \A q \in 1..p - 1 : proc[q] /= "none"
                           /\ Fork(p)
     \/ UNCHANGED <<child, proc, kids>>
  /\ UNCHANGED <<pc, once, tables, do_reap, do_rebind, broken, history>>

ProcessEventSetValid ==                                                 \* mutant
  /\ NextIs("in") /\ Event.sfd.of \in Pids
  /\ do_reap' = TRUE /\ walk' = Tail(walk)
  /\ UNCHANGED <<pc, once, running, tables, poll_set, do_rebind, child, proc, kids,
                 network, history>>
ProcessEvent ==
  /\ NextIs("in") /\ Event.sfd.of \in Pids
  /\ do_reap' = TRUE /\ poll_set' = <<>> /\ walk' = Tail(walk)
  /\ UNCHANGED <<pc, once, running, tables, do_rebind, child, proc, kids,
                 network, history>>

Rebind ==
  /\ At("walk") /\ walk = <<>> /\ do_rebind
  /\ \E opened \in SUBSET (1..NumListeners) :
       saned_fds' = DoBindings(CloseListeners(saned_fds), opened)
  /\ pending' = {} /\ broken' = {} /\ do_rebind' = FALSE /\ poll_set' = <<>>
  /\ UNCHANGED <<pc, once, running, children, walk, do_reap, child, proc,
                 kids, history>>

\* getaddrinfo fails in do_bindings.
RebindFails ==
  /\ At("walk") /\ walk = <<>> /\ do_rebind
  /\ BailOut /\ saned_fds' = CloseListeners(saned_fds)
  /\ UNCHANGED <<children, unlisted>>

EndOfWalk ==
  /\ At("walk") /\ walk = <<>> /\ ~do_rebind
  /\ pc' = (IF do_reap THEN "reap" ELSE "top") /\ do_reap' = FALSE
  /\ UNCHANGED <<once, running, tables, poll_set, walk, do_rebind, child, proc, kids, network, history>>

\* Out of the loop.
Leave ==
  /\ At("top") /\ ~running
  /\ pc' = "last" /\ saned_fds' = <<>> /\ proc' = KillChildren(proc, Listed)
  /\ pending' = {} /\ broken' = {} /\ poll_set' = <<>>
  /\ UNCHANGED <<once, running, children, walk, do_reap, do_rebind, child, kids, history>>

-----------------------------------------------------------------------------
(* wait_child *)

\* waitpid() takes any child that has ended.
Reap ==
  /\ \/ At("reap")
     \/ (At("last") \/ At("bail")) /\ children /= {}
  /\ \E p \in Pids : /\ proc[p] = "zombie"
                     /\ proc' = [proc EXCEPT ![p] = "gone"] /\ child' = p
  /\ UNCHANGED <<pc, once, running, tables, loop, kids, network, history>>

ReapNone ==
  /\ At("reap") /\ \A p \in Pids : proc[p] /= "zombie"
  /\ pc' = "top"
  /\ UNCHANGED <<once, running, tables, loop, child, proc, kids, network, history>>

RemoveChildStaysListed ==                                               \* mutant
  /\ pc \in {"reap", "last", "bail"} /\ child /= None /\ child' = None
  /\ UNCHANGED <<pc, once, running, tables, loop, proc, kids, network, history>>
RemoveChild ==
  /\ pc \in {"reap", "last", "bail"} /\ child /= None /\ child' = None
  /\ IF child \in Listed
     THEN LET c == CHOOSE c \in children : c.pid = child IN
          children' = children \ {c} /\ saned_fds' = CloseFd(saned_fds, c.pidfd)
     ELSE UNCHANGED tables
  /\ UNCHANGED <<pc, once, running, loop, proc, kids, network, history>>

ExitAtOnce ==                                                           \* mutant
  /\ At("last") \/ At("bail")
  /\ pc' = "exited" /\ saned_fds' = <<>> /\ proc' = Orphaned(proc)
  /\ UNCHANGED <<once, running, children, loop, child, kids, network, history>>
\* The end of bail_out, or of run_standalone.
Exit ==
  /\ At("last") \/ At("bail")
  /\ children = {}
  /\ pc' = "exited" /\ saned_fds' = <<>> /\ proc' = Orphaned(proc)
  /\ UNCHANGED <<once, running, children, loop, child, kids, network, history>>

-----------------------------------------------------------------------------
(* Everything around the daemon *)

\* sig_int_term_handler in the daemon; it never returns to what it interrupted.
Signal ==
  /\ ~Dead /\ pc /= "bail"
  /\ BailOut
  /\ unlisted' = IF Forked THEN unlisted \cup {child} ELSE unlisted
  /\ UNCHANGED tables

\* A connection comes, or a socket fails; once the daemon stops nobody looks.
Connect ==
  /\ Looping /\ \E l \in Listener \cap Watches(saned_fds) : pending' = pending \cup {l}
  /\ UNCHANGED <<pc, once, running, tables, loop, child, proc, kids, broken, history>>
Break ==
  /\ Looping /\ \E l \in Listener \cap Watches(saned_fds) : broken' = broken \cup {l}
  /\ UNCHANGED <<pc, once, running, tables, loop, child, proc, kids, pending, history>>

\* A session serves its client to the end, or Avahi gives up.
ProcessEnds == \E p \in Pids : proc[p] = "running" /\ proc' = Ends(proc, p)
\* SIGTERM or SIGINT to a session; a spinning one takes the other of the two.
ProcessSignalled ==
  \E p \in Session : \/ proc[p] = "running" /\ proc' = Terminated(proc, p)
                     \/ proc[p] = "spinning" /\ proc' = Ends(proc, p)
Process ==
  /\ ProcessEnds \/ ProcessSignalled
  /\ UNCHANGED <<pc, once, running, tables, loop, child, kids, network, history>>

Daemon ==
  \/ StartAvahi \/ AddChild \/ AddChildFails
  \/ Poll \/ PollFails \/ Abort \/ ListenerError \/ AcceptFails \/ ProcessEvent
  \/ \E l \in Listener : Accept(l)
  \/ Rebind \/ RebindFails \/ EndOfWalk \/ Leave
  \/ Reap \/ ReapNone \/ RemoveChild \/ Exit

Next == Daemon \/ Signal \/ Connect \/ Break \/ Process

\* The daemon runs; accept() does not fail for ever.
Spec == Init /\ [][Next]_vars /\ WF_vars(Daemon) /\ \A l \in Listener : SF_vars(Accept(l))

-----------------------------------------------------------------------------
(* Properties *)

\* Types; a process or socket is watched once, under a number of its own.
TypeOK ==
  /\ Looping \/ Dead \/ pc \in {"last", "bail"}
  /\ {once, running, do_reap, do_rebind, slow} \subseteq BOOLEAN
  /\ \A c \in children : c.pid \in Pids /\ (c.pidfd = -1 \/ c.pidfd \in Nat \ {0})
  /\ Cardinality(Listed) = Cardinality(children)
  /\ Cardinality(Watches(saned_fds)) = Len(saned_fds)
  /\ Cardinality(Numbers(saned_fds)) = Len(saned_fds)
  /\ Watches(saned_fds) \subseteq Pids \cup Listener
  /\ poll_set /= <<>> => Len(poll_set) >= Len(saned_fds)
  /\ pending \cup broken \subseteq Listener /\ unlisted \subseteq Pids
  /\ child \in Pids \cup {None}
  /\ proc \in [Pids -> {"none", "running", "spinning", "zombie", "gone"}]
  /\ kids \in [Pids -> SUBSET Pids]

\* While poll events are handled the poll set has an element for each entry of
\* the list, in order (the assertion in run_standalone), however processes are
\* added and reaped and sockets bound again - as long as every child had a
\* pidfd.  With one that has none a timeout reaps others while the poll set
\* stays valid, and the assertion ends the daemon.
PollSetAgrees == pc = "aborted" => slow

\* A child that the daemon watches is waited for after it has ended, whatever
\* the daemon is doing then.
ZombiesReaped ==
  \A p \in Pids :
    (proc[p] = "zombie" /\ (p \in Watches(saned_fds) \/ [pid |-> p, pidfd |-> -1] \in children))
      ~> proc[p] = "gone"

\* A connection is accepted, or lost with its socket, unless the daemon stops:
\* no socket drops out of the poll set.
ServesClients ==
  \A l \in Listener : l \in pending ~> (l \notin pending \/ pc \in {"last", "bail", "exited"})

\* A daemon that was told to stop, has served its only client or met a fatal
\* error exits once its children have ended: numchildren comes down to 0.  Only
\* a signal between waitpid() and numchildren-- leaves bail_out waiting for ever
\* for a process it has already waited for.
DaemonStops ==
  (pc \in {"last", "bail"} /\ \A p \in Pids : ~Alive(p))
    ~> (pc = "exited" \/ (At("bail") /\ \E p \in Listed : proc[p] = "gone"))

\* No process outlives the daemon, but one that add_child could not list or
\* had not listed when the signal came.
NoOrphans == pc = "exited" => \A p \in Pids \ unlisted : ~Alive(p)

-----------------------------------------------------------------------------
\* What TypeOK, PollSetAgrees and NoOrphans rest on.

Number  == Nat \ {0}
Entry   == [fd : Number, of : Pids \cup Listener]
Pollfd  == [sfd : Entry, fd : Number, revents : {"none", "bad", "in"}]

Typed ==
  /\ pc \in {"start", "top", "walk", "reap", "last", "bail", "exited", "aborted"}
  /\ once \in BOOLEAN /\ running \in BOOLEAN /\ slow \in BOOLEAN
  /\ do_reap \in BOOLEAN /\ do_rebind \in BOOLEAN
  /\ children \subseteq [pid : Pids, pidfd : Number \cup {-1}]
  /\ saned_fds \in Seq(Entry) /\ poll_set \in Seq(Number) /\ walk \in Seq(Pollfd)
  /\ pending \subseteq Listener /\ broken \subseteq Listener /\ unlisted \subseteq Pids
  /\ child \in Pids \cup {None}
  /\ proc \in [Pids -> {"none", "running", "spinning", "zombie", "gone"}]
  /\ kids \in [Pids -> SUBSET Pids]

\* A process is forked once, so it is listed and watched once, and not before
\* add_child.
Distinct(list) ==
  \A j, k \in DOMAIN list : list[j].fd = list[k].fd \/ list[j].of = list[k].of => j = k
Tables ==
  /\ Distinct(saned_fds)
  /\ \A c, d \in children : c.pid = d.pid => c = d
  /\ \A p \in Pids : proc[p] = "none" => p \notin Listed \cup Watches(saned_fds) \cup {child}
  /\ Forked => child \notin Listed \cup Watches(saned_fds)
  /\ pc = "start" => proc[Avahi] = "none" /\ child = None

\* A descriptor is added only to a list that has no poll set; and one is dropped
\* only then, if no child is waited for by the clock.
PollSets ==
  /\ poll_set /= <<>> => Len(poll_set) >= Len(saned_fds)
  /\ pc = "start" \/ Forked => poll_set = <<>>
  /\ ~slow =>
       /\ \A c \in children : c.pidfd /= -1
       /\ do_reap \/ pc = "reap" => poll_set = <<>>
       /\ Looping /\ poll_set /= <<>> => \A k \in DOMAIN saned_fds : poll_set[k] = saned_fds[k].fd
       /\ \A k \in DOMAIN walk : walk[k].sfd.fd = walk[k].fd

\* A live process is in the list, or was forked just now, or cannot be; and what
\* is taken from the list has been waited for.
Tracked ==
  /\ ~Dead => \A p \in Pids \ unlisted : Alive(p) => p \in Listed \/ (Forked /\ child = p)
  /\ pc \in {"reap", "last", "bail"} /\ child /= None => ~Alive(child)

IInv == Typed /\ Tables /\ PollSets /\ Tracked /\ PollSetAgrees /\ NoOrphans
=============================================================================
