----------------------------- MODULE QueueOrder -----------------------------
(***************************************************************************)
(* The order in which an AtomicQueue delivers messages.  The queue decides *)
(* it when push and pop claim their indices; the slots only have to hand   *)
(* the message pushed with an index to the pop with the same index.  This  *)
(* module adds to AtomicQueue the history that says when they do not.      *)
(***************************************************************************)
EXTENDS AtomicQueue

VARIABLES
  turn,           \* turn[m]: the index m was pushed with, once it is stored
  lapped          \* two threads on the same side have held one slot

Waits(t) == pc[t] \in {"push", "store", "pop", "clear"}

\* One side of the queue has gone round all slots while a thread on that side
\* was still between the claim of its index and its slot.
Lapped ==
  \E T \in {Producers, Consumers} : \E t, u \in T :
    t # u /\ Waits(t) /\ Waits(u) /\ SlotOf(t) = SlotOf(u)

OrderInit ==
  /\ Init
  /\ turn = [m \in Message |-> 0]
  /\ lapped = FALSE

\* What happens beside a step of the queue.
Remember ==
  /\ turn' = [m \in Message |->
       IF \E p \in Producers : m = NextMessage(p) /\ pushed'[p] # pushed[p]
         THEN index[m[1]] ELSE turn[m]]
  /\ lapped' = (lapped \/ Lapped')

OrderNext == Next /\ Remember

orderVars == <<vars, turn, lapped>>

OrderSpec == OrderInit /\ [][OrderNext]_orderVars

\* Totally ordered mode: push and pop only, no try_push or try_pop.
OptimistSpec == OrderInit /\ [][OrderNext /\ \A t \in Threads : pc'[t] # "check"]_orderVars

-----------------------------------------------------------------------------
\* The pop that claimed index i gets the message that the push with index i
\* put into the queue, unless threads have been lapped.  The order of the
\* claims is then the order of delivery.
OwnTurnUnlessLapped ==
  [][ \A c \in Consumers : pc[c] = "pop" /\ pc'[c] = "idle" =>
        lapped \/ turn[elements[SlotOf(c)]] = index[c] ]_orderVars

\* A message overtakes an earlier one of its producer only on the way to another
\* consumer, who has claimed the earlier one before, unless threads have been
\* lapped.
InOrderUnlessLapped ==
  ~lapped =>
    \A p \in Producers : \A n \in 2 .. MaxPush :
      popped[<<p, n>>] > 0 =>
        \/ popped[<<p, n - 1>>] > 0
        \/ \E c \in Consumers : Busy(c) /\ index[c] = turn[<<p, n - 1>>]

\* The totally ordered mode as README.md describes it: "consumers receive
\* messages in the same FIFO order the messages were posted".  At least a
\* single consumer should receive the messages of each producer in order.
TotalOrder ==
  \A p \in Producers : \A n \in 2 .. MaxPush :
    popped[<<p, n>>] > 0 => popped[<<p, n - 1>>] > 0
=============================================================================
