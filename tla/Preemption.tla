----------------------------- MODULE Preemption -----------------------------
(***************************************************************************)
(* An AtomicQueue one of whose threads may stop for good at any point of   *)
(* a call: preempted for ever, terminated or crashed between the claim of  *)
(* an index and the access of its slot (README, Lock-free guarantees).     *)
(* The other threads run on.                                               *)
(***************************************************************************)
EXTENDS QueueOrder, FiniteSets

CONSTANT MayStall       \* one thread of each side: the others are like them

ASSUME MayStallAssumption == MayStall \subseteq Threads

VARIABLE stalled        \* the thread that may stop

StallInit == OrderInit /\ stalled \in MayStall

StallNext == OrderNext /\ UNCHANGED stalled

stallVars == <<orderVars, stalled>>

\* The scheduler runs every thread but the stalled one.
StallFairness ==
  /\ \A p \in Producers : WF_stallVars(p # stalled /\ Push(p) /\ Remember /\ UNCHANGED stalled)
  /\ \A c \in Consumers : WF_stallVars(c # stalled /\ Pop(c) /\ Remember /\ UNCHANGED stalled)

StallSpec == StallInit /\ [][StallNext]_stallVars /\ StallFairness

-----------------------------------------------------------------------------
\* README: an incomplete push affects only the one consumer that pops from its
\* slot.  As long as there is another consumer, every message of every other
\* producer is delivered.
StalledPushAffectsOneConsumer ==
  <>(stalled \in Producers =>
       \A m \in Message : m[1] # stalled => popped[m] = 1)

\* README: an incomplete pop affects only the one producer that pushes into its
\* slot.  Every other producer gets all its messages into the queue.
StalledPopAffectsOneProducer ==
  <>[](stalled \in Consumers =>
         Cardinality({p \in Producers : pushed[p] < MaxPush}) <= 1)
=============================================================================
