-------------------------------- MODULE Fifo --------------------------------
(***************************************************************************)
(* What a queue promises in its strictest modes: a bounded queue whose     *)
(* messages are received in the order in which they were pushed.           *)
(***************************************************************************)
EXTENDS Integers, Sequences

CONSTANTS Producers, MaxPush, Capacity

Message == Producers \X (1 .. MaxPush)

VARIABLES
  queue,          \* the messages in transit, oldest first
  pushed,         \* pushed[p]: messages p has pushed
  popped          \* popped[m]: how many times a pop has returned m

Init ==
  /\ queue = << >>
  /\ pushed = [p \in Producers |-> 0]
  /\ popped = [m \in Message |-> 0]

Send(p) ==
  /\ pushed[p] < MaxPush
  /\ Len(queue) < Capacity
  /\ queue' = Append(queue, <<p, pushed[p] + 1>>)
  /\ pushed' = [pushed EXCEPT ![p] = @ + 1]
  /\ UNCHANGED popped

Receive ==
  /\ queue # << >>
  /\ queue' = Tail(queue)
  /\ popped' = [popped EXCEPT ![Head(queue)] = @ + 1]
  /\ UNCHANGED pushed

Next == Receive \/ \E p \in Producers : Send(p)

Spec == Init /\ [][Next]_<<queue, pushed, popped>>
=============================================================================
