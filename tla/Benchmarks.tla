------------------------------ MODULE Benchmarks ----------------------------
(***************************************************************************)
(* The programs as a whole: the stress test, and main of the benchmarks,   *)
(* which looks up the CPUs, runs the ping-pong between the first CPU and   *)
(* each of some others, and then measures throughput.  Every thread of the *)
(* benchmarks is pinned to a CPU: the main thread pins itself, and the     *)
(* program's own pthread_create gives a new thread the affinity that a     *)
(* global variable holds at that time.                                     *)
(***************************************************************************)
EXTENDS Harness, PingPong, CpuTopology

CONSTANTS
  Machines,       \* the machines the benchmarks may run on
  Plans           \* the benchmarks that AQB leaves switched on, in order

\* The ping-pongs by their kind of queue, the throughput benchmarks by the order
\* in which the threads are created: producers first, or a producer and a
\* consumer in turn.
PingPongs == {"AtomicQueue", "AtomicQueue2"}
Measures == {"throughput", "alternative"}

\* The second thread of the ping-pong.
ASSUME ReceiverAssumption == "receiver" \notin Threads

\* CPUs are numbered.
ASSUME MachinesAssumption ==
  \A m \in Machines : \A cpus \in {m.online, m.allowed} : IsFiniteSet(cpus) /\ cpus \subseteq Nat

\* main runs the ping-pongs before it measures throughput.
MainsOrder(p) ==
  /\ p \in Seq(PingPongs \cup Measures)
  /\ \A j, k \in DOMAIN p : j < k /\ p[k] \in PingPongs => p[j] \in PingPongs

ASSUME PlansAssumption == \A p \in Plans : MainsOrder(p)

VARIABLES
  hw_thread_ids,  \* the CPUs to use, once main has looked them up
  plan,           \* what main has still to do; the first is under way
  machine,        \* constant
  cpu2,           \* the position of the receiver's CPU
  default_thread_affinity,
  cpu             \* cpu[t]: the CPU t is pinned to, once it exists

mainVars == <<machine, hw_thread_ids, plan, cpu2, default_thread_affinity, cpu>>
allVars == <<harnessVars, pingPongVars, mainVars>>

NoCpu == -1

\* n_producer_msg: the messages, divided among the producers, rounded up.
Share(n) == (n + Cardinality(Producers) - 1) \div Cardinality(Producers)

BenchmarksInit ==
  /\ HarnessInit
  /\ n_msg \in {n \in Word : Share(n) = MaxPush}
  /\ PingPongInit
  /\ IF program = "stress"
       THEN /\ plan = <<"stress">>
            /\ machine = CHOOSE m \in Machines : TRUE
       ELSE /\ plan \in {<<"startup">> \o p : p \in Plans}
            /\ machine \in Machines
  /\ hw_thread_ids = << >>
  /\ cpu2 = 1
  /\ default_thread_affinity = NoCpu
  /\ cpu = [t \in Threads \cup {"receiver"} |-> NoCpu]

\* What is under way.
At(phase) == plan # << >> /\ Head(plan) = phase

\* The ping-pong runs for one kind of queue after the other.
PingPongOf == {kind \in PingPongs : At(kind)}
reserved == IF At("AtomicQueue") THEN {0} ELSE {}

\* get_available_cpu_topology_info and set_thread_affinity.
StartUp ==
  /\ At("startup")
  /\ IF Unusable(machine)
       THEN plan' = <<"threw">> /\ UNCHANGED <<hw_thread_ids, cpu>>
       ELSE /\ plan' = Tail(plan)
            /\ hw_thread_ids' = AvailableCpus(machine)
            /\ cpu' = [cpu EXCEPT ![Main] = hw_thread_ids'[1]]
  /\ UNCHANGED <<machine, cpu2, default_thread_affinity, harnessVars, pingPongVars>>

\* Mutant: the thread is created before the global variable is set.
PinnedLate(t, k) ==
  /\ default_thread_affinity' = hw_thread_ids[k + 1]
  /\ cpu' = [cpu EXCEPT ![t] = default_thread_affinity]

\* create_thread: t is created on the CPU at position k, through pthread_create.
Pinned(t, k) ==
  /\ default_thread_affinity' = hw_thread_ids[k + 1]
  /\ cpu' = [cpu EXCEPT ![t] = default_thread_affinity']

\* time_ping_pong_once.
StartPingPong ==
  /\ PingPongOf # {}
  /\ Serve
  /\ Pinned("receiver", cpu2)
  /\ UNCHANGED <<machine, hw_thread_ids, plan, cpu2, harnessVars>>

\* The next power of 2, as long as there is such a CPU; then the next queue.
EndPingPong ==
  /\ PingPongOf # {}
  /\ JoinReceiver
  /\ cpu' = [cpu EXCEPT !["receiver"] = NoCpu]
  /\ IF 2 * cpu2 < Len(hw_thread_ids)
       THEN cpu2' = 2 * cpu2 /\ UNCHANGED plan
       ELSE cpu2' = 1 /\ plan' = Tail(plan)
  /\ UNCHANGED <<machine, hw_thread_ids, default_thread_affinity, harnessVars>>

\* time_throughput_once: the main thread is the first producer.
n_threads == Cardinality({t \in Threads : cpu[t] # NoCpu})

\* The next thread, by one or the other placement.  Those of a side are alike.
NextThread ==
  LET side == IF At("alternative") THEN (IF n_threads % 2 = 0 THEN Producers ELSE Consumers)
              ELSE IF n_threads < Cardinality(Producers) THEN Producers ELSE Consumers
  IN  CHOOSE t \in side : cpu[t] = NoCpu

\* With the one or the other placement of the threads.
Throughput == At("throughput") \/ At("alternative")

\* time_throughput measures up to n_thread_max producers: none that many, if there
\* are not CPUs enough.
EnoughCpus == Cardinality(Threads) <= Len(hw_thread_ids)

CreateThread ==
  /\ Throughput /\ EnoughCpus
  /\ n_threads < Cardinality(Threads)
  /\ Pinned(NextThread, n_threads)
  /\ UNCHANGED <<machine, hw_thread_ids, plan, cpu2, harnessVars, pingPongVars>>

\* A thread that exists works; the main thread after it has created the others.
Running(t) ==
  /\ \/ At("stress")
     \/ Throughput /\ cpu[t] # NoCpu /\ (t = Main => n_threads = Cardinality(Threads))
  /\ Work(t)
  /\ UNCHANGED <<mainVars, pingPongVars>>

JoinAll ==
  /\ At("stress") \/ Throughput
  /\ Finished \/ (Throughput /\ ~EnoughCpus)
  /\ plan' = Tail(plan)
  /\ UNCHANGED <<machine, hw_thread_ids, cpu2, default_thread_affinity, cpu, harnessVars>>
  /\ UNCHANGED pingPongVars

Play(s) == PingPongOf # {} /\ PingPongStep(s, reserved) /\ UNCHANGED <<mainVars, harnessVars>>

MainThread ==
  \/ StartUp
  \/ StartPingPong
  \/ Play("sender")
  \/ EndPingPong
  \/ CreateThread
  \/ Running(Main)
  \/ JoinAll

OtherThread(t) == IF t = "receiver" THEN Play("receiver") ELSE Running(t)

Others == (Threads \ {Main}) \cup {"receiver"}

BenchmarksNext == MainThread \/ \E t \in Others : OtherThread(t)

\* The scheduler runs every thread.
BenchmarksSpec ==
  /\ BenchmarksInit /\ [][BenchmarksNext]_allVars
  /\ WF_allVars(MainThread)
  /\ \A t \in Others : WF_allVars(OtherThread(t))

-----------------------------------------------------------------------------
\* Every thread of the benchmarks has a CPU of its own, although the variable
\* through which new threads get it is shared with all earlier ones; and it is
\* one the process may run on, as long as no CPU below those is offline.
ThreadsApart ==
  \A t, u \in DOMAIN cpu : cpu[t] # NoCpu =>
    /\ t # u => cpu[t] # cpu[u]
    /\ ~Gaps(machine) => cpu[t] \in machine.allowed

\* README, "Use only cpus [0,1,14,15] to build with gcc-14 and run the benchmarks":
\* the benchmarks keep to the CPUs that taskset lists just on the machines without
\* gaps.  On every other machine that they do not refuse, they use another CPU.
AllowedCpusUnlessGaps ==
  hw_thread_ids # << >> =>
    (Gaps(machine) <=> \E k \in DOMAIN hw_thread_ids : hw_thread_ids[k] \notin machine.allowed)

\* Both programs end: each consumer gets a stop message of its own, the joins of
\* the main thread end, and so does every ping-pong, unless it comes to push a
\* 0 into a queue that reserves it, which an odd number of messages leads to.
\* Then the sender waits for ever, and nothing is measured any more.
Ended == plan \in {<< >>, <<"threw">>}

ReachesZero ==
  /\ ~Unusable(machine) /\ n_msg % 2 = 1
  /\ \E k \in DOMAIN plan : plan[k] = "AtomicQueue"

EndsUnlessZero ==
  /\ ReachesZero => []~Ended
  /\ ~ReachesZero => <>Ended
=============================================================================
