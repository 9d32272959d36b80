------------------------------ MODULE Containers ----------------------------
(***************************************************************************)
(* What queues promise as objects: each is created empty, holds a sequence *)
(* of messages, and is emptied by a move, which gives all it holds to      *)
(* another object; a swap exchanges what two objects hold.                 *)
(***************************************************************************)
EXTENDS Integers, Sequences

CONSTANTS Objects, MaxPush

VARIABLES
  holding,        \* objects that hold a sequence: created, not moved from
  contents,       \* contents[q]: the messages in q, oldest first
  pushes          \* the number of pushes; the n-th message is n

Init ==
  /\ holding = {}
  /\ contents = [q \in Objects |-> << >>]
  /\ pushes = 0

Create(q) ==
  /\ q \notin holding
  /\ holding' = holding \cup {q}
  /\ UNCHANGED <<contents, pushes>>

Destroy(q) ==
  /\ holding' = holding \ {q}
  /\ contents' = [contents EXCEPT ![q] = << >>]
  /\ UNCHANGED pushes

\* A move and a swap differ in what the first object held: nothing, or a
\* sequence.
Exchange(q, r) ==
  /\ contents' = [contents EXCEPT ![q] = contents[r], ![r] = contents[q]]
  /\ holding' = {IF h = q THEN r ELSE IF h = r THEN q ELSE h : h \in holding}
  /\ UNCHANGED pushes

Push(q) ==
  /\ q \in holding
  /\ pushes < MaxPush
  /\ pushes' = pushes + 1
  /\ contents' = [contents EXCEPT ![q] = Append(@, pushes + 1)]
  /\ UNCHANGED holding

Pop(q) ==
  /\ contents[q] # << >>
  /\ contents' = [contents EXCEPT ![q] = Tail(@)]
  /\ UNCHANGED <<holding, pushes>>

Next ==
  \/ \E q \in Objects : Create(q) \/ Destroy(q) \/ Push(q) \/ Pop(q)
  \/ \E q, r \in Objects : Exchange(q, r)

Spec == Init /\ [][Next]_<<holding, contents, pushes>>
=============================================================================
