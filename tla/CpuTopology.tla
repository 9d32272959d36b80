----------------------------- MODULE CpuTopology ----------------------------
(***************************************************************************)
(* Which CPUs the benchmarks use (cpu_base_frequency.cc).  A machine is a  *)
(* record: the numbers of the CPUs that are online, as /proc/cpuinfo lists *)
(* them, of those the process may run on (taskset), and what               *)
(* std::thread::hardware_concurrency returns, which is not part of the     *)
(* repository and may differ.                                              *)
(***************************************************************************)
EXTENDS Integers, Sequences, FiniteSets

\* sort_by_hw_thread_id: a set of numbers, in ascending order.
InOrder(numbers) ==
  [k \in 1 .. Cardinality(numbers) |->
    CHOOSE c \in numbers : Cardinality({d \in numbers : d < c}) = k - 1]

\* get_available_cpu_topology_info keeps the elements whose position, not whose
\* hw_thread_id, is the number of a CPU the process may run on.
AvailableCpus(machine) ==
  LET cpus == InOrder(machine.online)
      places == InOrder({k \in DOMAIN cpus : k - 1 \in machine.allowed})
  IN  [k \in DOMAIN places |-> cpus[places[k]]]

\* get_cpu_topology_info throws when the C++ library counts other CPUs than
\* /proc/cpuinfo lists.
CountsDiffer(machine) == machine.hardware_concurrency # Cardinality(machine.online)

\* Mutant: the CPUs are not counted.
NonesMissing(machine) == FALSE

\* get_available_cpu_topology_info throws when it keeps more or fewer elements than
\* there are CPUs the process may run on.
PositionsMissing(machine) ==
  Len(AvailableCpus(machine)) # Cardinality(machine.allowed)

\* main throws when there is no second CPU for a consumer.
TooFewCpus(machine) == Len(AvailableCpus(machine)) < 2

Unusable(machine) ==
  CountsDiffer(machine) \/ PositionsMissing(machine) \/ TooFewCpus(machine)

\* A CPU below one that the process may run on is offline, so that position and
\* number differ.
Gaps(machine) == \E c \in machine.allowed : ~(0 .. c \subseteq machine.online)
=============================================================================
