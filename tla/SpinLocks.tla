------------------------------ MODULE SpinLocks -----------------------------
(***************************************************************************)
(* The three mutex classes of spinlock.h: Spinlock (a pthread spin lock),  *)
(* TicketSpinlock and UnfairSpinlock, as scoped locks use them.  A caller  *)
(* moves its thread to "lock"; the thread is "locked" once it owns the     *)
(* mutex, and moves itself to "unlock" when the scope ends.  As written,   *)
(* UnfairSpinlock has no default constructor; it is modelled with the      *)
(* initial value of its member, as if it had one.                          *)
(***************************************************************************)
EXTENDS Unsigned, FiniteSets

CONSTANTS
  Threads,        \* the threads that use the mutex
  Start           \* the counters' value after earlier, completed use

\* No more threads than tickets: 2^32 in the program.
ASSUME ThreadsAssumption == IsFiniteSet(Threads) /\ Cardinality(Threads) <= Modulus
ASSUME StartAssumption == Start \in Word

VARIABLES
  mutex,          \* the class of the mutex, constant
  lock_,          \* Spinlock, UnfairSpinlock: whether it is taken
  ticket_,        \* TicketSpinlock: the next ticket to hand out
  next_,          \* TicketSpinlock: the ticket being served
  ticket,         \* ticket[t]: the ticket in t's LockGuard
  pc              \* pc[t]: where thread t is within its call

lockVars == <<mutex, lock_, ticket_, next_, ticket>>

LockInit ==
  /\ mutex \in {"Spinlock", "TicketSpinlock", "UnfairSpinlock"}
  /\ lock_ = FALSE
  /\ ticket_ = Start
  /\ next_ = Start
  /\ ticket = [t \in Threads |-> 0]
  /\ pc = [t \in Threads |-> "idle"]

From(t, here, there) == pc[t] = here /\ pc' = [pc EXCEPT ![t] = there]

-----------------------------------------------------------------------------
\* pthread_spin_lock, outside the repository: waits and takes in one step.
SpinLock(t) ==
  /\ From(t, "lock", "locked")
  /\ mutex = "Spinlock"
  /\ ~lock_
  /\ lock_' = TRUE
  /\ UNCHANGED <<mutex, ticket_, next_, ticket>>

TakeTicket(t) ==
  /\ From(t, "lock", "turn")
  /\ mutex = "TicketSpinlock"
  /\ ticket' = [ticket EXCEPT ![t] = ticket_]
  /\ ticket_' = Add(ticket_, 1)
  /\ UNCHANGED <<mutex, lock_, next_>>

\* Mutant: the wait ends one ticket early.
SeeTurnEarly(t) ==
  /\ From(t, "turn", "locked")
  /\ Sub(ticket[t], next_) <= 1
  /\ UNCHANGED lockVars

\* The load of next_ that ends the wait.  Other loads pause in proportion to
\* the position in the queue and try again.
SeeTurn(t) ==
  /\ From(t, "turn", "locked")
  /\ Sub(ticket[t], next_) = 0
  /\ UNCHANGED lockVars

SeeUnlocked(t) ==
  /\ From(t, "lock", "exchange")
  /\ mutex = "UnfairSpinlock"
  /\ ~lock_
  /\ UNCHANGED lockVars

\* The exchange succeeds, or another thread came first.
Exchange(t) ==
  /\ From(t, "exchange", IF lock_ THEN "lock" ELSE "locked")
  /\ lock_' = TRUE
  /\ UNCHANGED <<mutex, ticket_, next_, ticket>>

Lock(t) ==
  \/ SpinLock(t)
  \/ TakeTicket(t)
  \/ SeeTurn(t)
  \/ SeeUnlocked(t)
  \/ Exchange(t)

\* Mutant: TicketSpinlock's other unlock, the one without a ticket, which
\* passes next_ + 1 where the guard passes its ticket.
NextOfUnlock(t) == Add(next_, 2)

\* unlock(ticket), the ticket of the guard.
NextAfter(t) == Add(ticket[t], 1)

Unlock(t) ==
  /\ From(t, "unlock", "idle")
  /\ IF mutex = "TicketSpinlock"
       THEN next_' = NextAfter(t) /\ UNCHANGED lock_
       ELSE lock_' = FALSE /\ UNCHANGED next_
  /\ ticket' = [ticket EXCEPT ![t] = 0]
  /\ UNCHANGED <<mutex, ticket_>>
=============================================================================
