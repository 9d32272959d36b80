------------------------------- MODULE Harness ------------------------------
(***************************************************************************)
(* The threads that share an AtomicQueue in the stress test of tests.cc    *)
(* and in the throughput benchmark.  They meet at a Barrier2, producers    *)
(* push a fixed number of messages, and a consumer returns when it pops a  *)
(* stop message.  Benchmarks.tla adds how the threads are started.         *)
(* Push and Pop stand for push and pop of the queue and for those of       *)
(* RetryDecorator, which repeat try_push and try_pop until they succeed.   *)
(***************************************************************************)
EXTENDS AtomicQueue, FiniteSets

CONSTANT Main           \* the main thread, one of the producers

ASSUME MainAssumption == Main \in Producers

VARIABLES
  program,        \* "stress" or "throughput", constant
  counter,        \* the counter of the Barrier2
  stage           \* stage[t]: "start", "countdown", "run" or "done"

harnessVars == <<vars, program, counter, stage>>

\* In the stress test the main thread does not take part; in the benchmark it
\* is the first producer.
Participants == IF program = "stress" THEN Threads \ {Main} ELSE Threads

\* Mutant: one stop message is missing.
QuotaShort(p) ==
  IF program = "stress" /\ p = Main THEN Cardinality(Consumers) - 1 ELSE MaxPush

\* The stress test has one stop message of the main thread for each consumer.
\* In the benchmark the last message of each producer stops a consumer.
Quota(p) == IF program = "stress" /\ p = Main THEN Cardinality(Consumers) ELSE MaxPush

IsStop(m) == IF program = "stress" THEN m[1] = Main ELSE m[2] = MaxPush

HarnessInit ==
  /\ Init
  /\ program \in {"stress", "throughput"}
  /\ counter = Cardinality(Participants)
  /\ stage = [t \in Threads |-> "start"]

Enter(t, there) == stage' = [stage EXCEPT ![t] = there]

\* countdown: the decrement, then the wait for the other threads.
Countdown(t) ==
  /\ t \in Participants
  /\ stage[t] = "start"
  /\ counter' = counter - 1
  /\ Enter(t, "countdown")
  /\ UNCHANGED <<vars, program>>

Leave(t) ==
  /\ stage[t] = "countdown"
  /\ counter = 0
  /\ Enter(t, "run")
  /\ UNCHANGED <<vars, program, counter>>

Produce(p) ==
  /\ stage[p] = "run"
  /\ pushed[p] < Quota(p)
  /\ Push(p)
  /\ IF pushed'[p] = Quota(p) THEN Enter(p, "done") ELSE UNCHANGED stage
  /\ UNCHANGED <<program, counter>>

\* The stop message that the step returns to its caller.
Stopping == \E m \in Message : IsStop(m) /\ popped'[m] # popped[m]

Consume(c) ==
  /\ stage[c] = "run"
  /\ Pop(c)
  /\ IF Stopping THEN Enter(c, "done") ELSE UNCHANGED stage
  /\ UNCHANGED <<program, counter>>

\* Mutant: the stop messages are pushed while producers are running.
JoinNobody ==
  /\ program = "stress"
  /\ stage[Main] = "start"
  /\ Enter(Main, "run")
  /\ UNCHANGED <<vars, program, counter>>

\* The stress test joins its producers before it pushes the stop messages.
JoinProducers ==
  /\ program = "stress"
  /\ stage[Main] = "start"
  /\ \A p \in Producers \ {Main} : stage[p] = "done"
  /\ Enter(Main, "run")
  /\ UNCHANGED <<vars, program, counter>>

Work(t) ==
  \/ Countdown(t)
  \/ Leave(t)
  \/ t = Main /\ JoinProducers
  \/ t \in Producers /\ Produce(t)
  \/ t \in Consumers /\ Consume(t)

-----------------------------------------------------------------------------
Finished == \A t \in Threads : stage[t] = "done"

\* What the checksums of both programs mean to establish: when all threads have
\* returned, each message has been popped exactly once, even if threads have
\* been lapped and messages reordered.  No message is left behind a stop
\* message in the queue.
ReceivedExactlyOnce ==
  Finished =>
    /\ \A p \in Producers : \A n \in 1 .. Quota(p) : popped[<<p, n>>] = 1
    /\ \A s \in Slots : elements[s] = NIL
=============================================================================
