---------------------------- MODULE BoundedFifo ----------------------------
(***************************************************************************)
(* What a one-writer one-reader channel of N buffers promises, whatever it *)
(* is made of: items come out once, in the order they went in, unchanged;  *)
(* at most N of them wait; the reader is told the end only after it took   *)
(* everything the writer left, and only when no writer is left.            *)
(***************************************************************************)
EXTENDS Naturals, Sequences

CONSTANTS Item,       \* what is passed
          N,          \* how many items may wait
          NoItem      \* the value of out before the first delivery

VARIABLES queue,      \* items put and not yet taken, oldest first
          out,        \* the item delivered last
          reading,    \* "yes", "end" (was told that no item will come), "no"
          writing     \* the writer may still put

vars == <<queue, out, reading, writing>>

Init == /\ queue = <<>>
        /\ out = NoItem
        /\ reading = "yes"
        /\ writing = TRUE

Put(x) == /\ writing
          /\ Len(queue) < N
          /\ queue' = Append(queue, x)
          /\ UNCHANGED <<out, reading, writing>>

Take == /\ reading = "yes"
        /\ queue /= <<>>
        /\ out' = Head(queue)
        /\ queue' = Tail(queue)
        /\ UNCHANGED <<reading, writing>>

StopWriting == /\ writing
               /\ writing' = FALSE
               /\ UNCHANGED <<queue, out, reading>>

TellEnd == /\ reading = "yes"
           /\ queue = <<>>
           /\ ~writing
           /\ reading' = "end"
           /\ UNCHANGED <<queue, out, writing>>

\* A reader that leaves may lose the item it was about to take.
StopReading == /\ reading /= "no"
               /\ reading' = "no"
               /\ \/ UNCHANGED queue
                  \/ queue /= <<>> /\ queue' = Tail(queue)
               /\ UNCHANGED <<out, writing>>

Next == \/ \E x \in Item : Put(x)
        \/ Take \/ StopWriting \/ TellEnd \/ StopReading

Spec == Init /\ [][Next]_vars
=============================================================================
