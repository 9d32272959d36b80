------------------------------- MODULE PingPong -----------------------------
(***************************************************************************)
(* The two threads of the ping-pong benchmark and the two queues between   *)
(* them, one for each direction.  The queues are the bounded FIFO queues   *)
(* that AtomicQueue and AtomicQueue2 implement in SPSC mode (Fifo.tla).    *)
(* Numbers are pushed: AtomicQueue reserves 0, its NIL, for a free slot,   *)
(* so that a 0 is never received; AtomicQueue2 reserves nothing.           *)
(***************************************************************************)
EXTENDS Unsigned, Sequences, FiniteSets

CONSTANT Capacity       \* C, the queues' size

ASSUME CapacityAssumption == Capacity \in Nat \ {0}

Sides == {"sender", "receiver"}

VARIABLES
  n_msg,          \* the number of messages (AQN), constant
  q1, q2,         \* to the receiver, and back to the sender
  ball,           \* ball[s]: the local n of a side
  meet,           \* the counter of the Barrier2
  at              \* at[s]: "none", "start", "countdown", "push", "pop", "done"

pingPongVars == <<n_msg, q1, q2, ball, meet, at>>

\* The sender starts with n_msg.
Balls == [s \in Sides |-> IF s = "sender" THEN n_msg ELSE 0]

\* No thread, new queues and a new barrier.
PingPongInit ==
  /\ q1 = << >>
  /\ q2 = << >>
  /\ ball = Balls
  /\ meet = 2
  /\ at = [s \in Sides |-> "none"]

\* The threads are started: sender is the main thread.
Serve ==
  /\ at = [s \in Sides |-> "none"]
  /\ at' = [s \in Sides |-> "start"]
  /\ UNCHANGED <<n_msg, q1, q2, ball, meet>>

Arrive(s) ==
  /\ at[s] = "start"
  /\ meet' = meet - 1
  /\ at' = [at EXCEPT ![s] = "countdown"]
  /\ UNCHANGED <<n_msg, q1, q2, ball>>

Depart(s) ==
  /\ at[s] = "countdown"
  /\ meet = 0
  /\ at' = [at EXCEPT ![s] = IF s = "sender" THEN "push" ELSE "pop"]
  /\ UNCHANGED <<n_msg, q1, q2, ball, meet>>

Pushed(q, value) == Len(q) < Capacity /\ q' = Append(q, value)

\* A pop returns once its slot holds something; reserved are the numbers that
\* mean nothing.
Popped(q, reserved) == q # << >> /\ Head(q) \notin reserved /\ q' = Tail(q)

SenderPush ==
  /\ at["sender"] = "push"
  /\ Pushed(q1, ball["sender"])
  /\ at' = [at EXCEPT !["sender"] = "pop"]
  /\ UNCHANGED <<n_msg, q2, ball, meet>>

\* Mutant: the sender stops at 2 in place of 1.
SenderPopShort(reserved) ==
  /\ at["sender"] = "pop"
  /\ Popped(q2, reserved)
  /\ ball' = [ball EXCEPT !["sender"] = Sub(Head(q2), 1)]
  /\ at' = [at EXCEPT !["sender"] = IF Head(q2) > 2 THEN "push" ELSE "done"]
  /\ UNCHANGED <<n_msg, q1, meet>>

\* do ... while (n-- > 1)
SenderPop(reserved) ==
  /\ at["sender"] = "pop"
  /\ Popped(q2, reserved)
  /\ ball' = [ball EXCEPT !["sender"] = Sub(Head(q2), 1)]
  /\ at' = [at EXCEPT !["sender"] = IF Head(q2) > 1 THEN "push" ELSE "done"]
  /\ UNCHANGED <<n_msg, q1, meet>>

ReceiverPop(reserved) ==
  /\ at["receiver"] = "pop"
  /\ Popped(q1, reserved)
  /\ ball' = [ball EXCEPT !["receiver"] = Sub(Head(q1), 1)]
  /\ at' = [at EXCEPT !["receiver"] = "push"]
  /\ UNCHANGED <<n_msg, q2, meet>>

\* do ... while (n > 1)
ReceiverPush ==
  /\ at["receiver"] = "push"
  /\ Pushed(q2, ball["receiver"])
  /\ at' = [at EXCEPT !["receiver"] = IF ball["receiver"] > 1 THEN "pop" ELSE "done"]
  /\ UNCHANGED <<n_msg, q1, ball, meet>>

PingPongStep(s, reserved) ==
  \/ Arrive(s)
  \/ Depart(s)
  \/ s = "sender" /\ (SenderPush \/ SenderPop(reserved))
  \/ s = "receiver" /\ (ReceiverPop(reserved) \/ ReceiverPush)

\* The join, which ends one measurement; the next starts from new queues.
JoinReceiver ==
  /\ at = [s \in Sides |-> "done"]
  /\ q1' = << >>
  /\ q2' = << >>
  /\ ball' = Balls
  /\ meet' = 2
  /\ at' = [s \in Sides |-> "none"]
  /\ UNCHANGED n_msg

-----------------------------------------------------------------------------
\* Comment in run_ping_pong_benchmarks: no capacity greater than 1 is required.
\* At any time one side at most has a message to push or has one in its queue,
\* and the sender never leaves the receiver waiting for a message.
OneMessageInTurn ==
  /\ Len(q1) + Len(q2) + Cardinality({s \in Sides : at[s] = "push"}) <= 1
  /\ at["sender"] = "done" => at["receiver"] = "done"
=============================================================================
