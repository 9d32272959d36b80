------------------------------- MODULE Channel ------------------------------
(***************************************************************************)
(* What every queue promises whatever its mode and whoever its threads     *)
(* are: a message that a push has accepted is in the channel until exactly *)
(* one pop returns it.  No message is lost, duplicated or invented.  No    *)
(* order is promised; Fifo.tla adds it.                                    *)
(***************************************************************************)
EXTENDS Integers

CONSTANTS Producers, MaxPush

Message == Producers \X (1 .. MaxPush)

VARIABLES
  chan,           \* the messages in transit
  pushed,         \* pushed[p]: messages p has pushed
  popped          \* popped[m]: how many times a pop has returned m

Init ==
  /\ chan = {}
  /\ pushed = [p \in Producers |-> 0]
  /\ popped = [m \in Message |-> 0]

Send(p) ==
  /\ pushed[p] < MaxPush
  /\ chan' = chan \cup {<<p, pushed[p] + 1>>}
  /\ pushed' = [pushed EXCEPT ![p] = @ + 1]
  /\ UNCHANGED popped

Receive(m) ==
  /\ chan' = chan \ {m}
  /\ popped' = [popped EXCEPT ![m] = @ + 1]
  /\ UNCHANGED pushed

Next ==
  \/ \E p \in Producers : Send(p)
  \/ \E m \in chan : Receive(m)

Spec == Init /\ [][Next]_<<chan, pushed, popped>>
=============================================================================
