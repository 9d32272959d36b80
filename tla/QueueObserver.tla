---------------------------- MODULE QueueObserver ---------------------------
(***************************************************************************)
(* A thread that calls was_size, was_empty or was_full of an AtomicQueue   *)
(* that others use.  was_size loads the two counters one after the other;  *)
(* C++ leaves open which of them first.                                    *)
(***************************************************************************)
EXTENDS AtomicQueue, FiniteSets

VARIABLES
  observer,       \* "idle", "head" or "tail" loaded, or "done"
  loaded,         \* the counter loaded first
  size,           \* what was_size returns
  been            \* what the queue has been during the call

observerVars == <<vars, observer, loaded, size, been>>

\* Empty or full in either sense: by its slots, or by its counters.
Now ==
  (IF Stored = {} \/ Used <= 0 THEN {"empty"} ELSE {}) \cup
  (IF Cardinality(Stored) = Size \/ Used >= Size THEN {"full"} ELSE {})

ObserverInit ==
  /\ Init
  /\ observer = "idle"
  /\ loaded = 0
  /\ size = 0
  /\ been = {}

Positive(n) == IF n > 0 THEN n ELSE 0

LoadOne ==
  /\ observer = "idle"
  /\ \/ observer' = "head" /\ loaded' \in Recent(head_)
     \/ observer' = "tail" /\ loaded' \in Recent(tail_)
  /\ been' = Now
  /\ UNCHANGED <<vars, size>>

LoadOther ==
  /\ observer \in {"head", "tail"}
  /\ observer' = "done"
  /\ \E other \in IF observer = "head" THEN Recent(tail_) ELSE Recent(head_) :
       LET n == IF observer = "head" THEN Sub(loaded, other) ELSE Sub(other, loaded)
       IN  size' = Positive(AsSigned(n))
  /\ UNCHANGED <<vars, loaded, been>>

Others ==
  /\ Next
  /\ been' = been \cup Now'
  /\ UNCHANGED <<observer, loaded, size>>

ObserverNext == LoadOne \/ LoadOther \/ Others

ObserverSpec == ObserverInit /\ [][ObserverNext]_observerVars

capacity == Size
was_empty == size = 0
was_full == size >= capacity

-----------------------------------------------------------------------------
\* README.md of was_empty and was_full: "Returns true if the container was
\* empty [full] during the call."
ReportsHeldDuringCall ==
  observer = "done" =>
    /\ was_empty => "empty" \in been
    /\ was_full => "full" \in been
=============================================================================
