---------------------------- MODULE SaneiThread -----------------------------
(***************************************************************************)
(* sanei/sanei_thread.c: a backend's reader runs as a task, which is a     *)
(* forked process or a thread as the build decides (forked).  The thread   *)
(* version hands function and argument over in one static record, td, and  *)
(* turns SIGPIPE off for the time a task runs.                             *)
(***************************************************************************)
EXTENDS Integers

CONSTANTS Task,     \* task identifiers, SANE_Pid
          Arg       \* arguments a task may be started with

ASSUME TaskAssumption == Task \subseteq Nat \ {0} /\ Arg \subseteq Nat \ {0}

VARIABLES
  forked,    \* sanei_thread_is_forked(), fixed when the library is built
  catches,   \* the frontend has a SIGTERM handler that returns, and children inherit it
  td,        \* td.func_data
  sigpipe,   \* disposition of SIGPIPE in the frontend's process
  task       \* [st, arg, killed] of each task

thread == <<forked, catches, td, sigpipe, task>>

NoArg  == 0
NoTask == [st |-> "none", arg |-> NoArg, killed |-> FALSE]

ThreadTypeOK ==
  /\ forked \in BOOLEAN /\ catches \in BOOLEAN
  /\ td \in Arg \union {NoArg}
  /\ sigpipe \in {"dfl", "ign"}
  /\ task \in [Task -> [st : {"none", "created", "running", "ended"},
                        arg : Arg \union {NoArg}, killed : BOOLEAN]]

ThreadInit ==
  /\ forked \in BOOLEAN /\ catches \in BOOLEAN /\ (catches => forked)
  /\ td = NoArg /\ sigpipe = "dfl"
  /\ task = [t \in Task |-> NoTask]

\* What sanei_thread_begin does before it creates anything.  (Late: td is filled only
\* when the thread runs already.  NoSigpipe: SIGPIPE stays as it is.)
HandOverLate(a) ==
  IF forked THEN UNCHANGED <<td, sigpipe>>
            ELSE td' \in {a} \union ({td} \ {NoArg}) /\ sigpipe' = "ign"
HandOverNoSigpipe(a) ==
  IF forked THEN UNCHANGED <<td, sigpipe>> ELSE td' = a /\ UNCHANGED sigpipe
HandOver(a) ==
  IF forked THEN UNCHANGED <<td, sigpipe>> ELSE td' = a /\ sigpipe' = "ign"

Begin(t, a) ==
  /\ task[t].st = "none"
  /\ HandOver(a)
  /\ task' = [task EXCEPT ![t] = [st |-> "created", killed |-> FALSE,
                                  arg |-> IF forked THEN a ELSE NoArg]]
  /\ UNCHANGED <<forked, catches>>

BeginFails(a) == HandOver(a) /\ UNCHANGED <<forked, catches, task>>

\* local_thread reads td only now; a child has its argument from the fork.
Argument(t) == IF forked THEN task[t].arg ELSE td
Enter(t) ==
  /\ task[t].st = "created"
  /\ task' = [task EXCEPT ![t].st = "running", ![t].arg = Argument(t)]
  /\ UNCHANGED <<forked, catches, td, sigpipe>>

\* A SIGTERM that reaches a child before it has set SIG_DFL runs the handler it
\* inherited; when that returns, the signal has had no effect.
MayMissKill(t) == forked /\ catches /\ task[t].st = "created"
Kill(t, heard) ==
  /\ heard \/ MayMissKill(t)
  /\ task' = [task EXCEPT ![t].killed = @ \/ heard]
  /\ UNCHANGED <<forked, catches, td, sigpipe>>

End(t) ==
  /\ task[t].st \in {"created", "running"}
  /\ task' = [task EXCEPT ![t].st = "ended"]
  /\ UNCHANGED <<forked, catches, td, sigpipe>>

\* Where a kill takes effect: anywhere in a process, in a thread once it
\* runs (cancellation is deferred; callers say at which of its calls).
KillActs(t) == task[t].killed /\ (forked \/ task[t].st = "running")

Waitpid(t) ==
  /\ task[t].st = "ended"
  /\ task' = [task EXCEPT ![t] = NoTask]
  /\ sigpipe' = IF forked THEN sigpipe ELSE "dfl"
  /\ UNCHANGED <<forked, catches, td>>
=============================================================================
