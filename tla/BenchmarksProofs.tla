--------------------------- MODULE BenchmarksProofs -------------------------
(***************************************************************************)
(* Proofs about the programs as a whole, for any numbers of threads and    *)
(* messages, any machines and any capacity of the ping-pong queues.        *)
(***************************************************************************)
EXTENDS Benchmarks, AtomicQueueProofs

\* Every step of the programs is one of the queue that its threads share, or
\* none: what is proved of the queue alone holds in the programs.
THEOREM ProgramsUseQueue == BenchmarksSpec => Spec
<1>1. BenchmarksInit => Init
  BY DEF BenchmarksInit, HarnessInit
<1>2. [BenchmarksNext]_allVars => [Next]_vars
  <2> SUFFICES ASSUME [BenchmarksNext]_allVars PROVE [Next]_vars
    OBVIOUS
  <2>1. ASSUME NEW t \in Threads, Work(t)
        PROVE  [Next]_vars
    BY <2>1 DEF Work, Countdown, Leave, JoinProducers, Produce, Consume, Next
  <2>2. ASSUME NEW t \in Threads, Running(t)
        PROVE  [Next]_vars
    BY <2>1, <2>2 DEF Running
  <2>3. Main \in Threads
    BY MainAssumption DEF Threads
  <2> QED
    BY <2>2, <2>3
       DEF BenchmarksNext, MainThread, StartUp, StartPingPong, Play, EndPingPong,
           CreateThread, JoinAll, Others, OtherThread, harnessVars, allVars
<1> QED
  BY <1>1, <1>2, PTL DEF BenchmarksSpec, Spec

-----------------------------------------------------------------------------
(* The ping-pong.                                                          *)
\* A message in a queue of one.
Holds(q, value) == q = <<value>>

\* A queue of one element.
LEMMA OneInOneOut ==
  \A value : /\ Append(<< >>, value) = <<value>>
             /\ <<value>> # << >> /\ Len(<<value>>) = 1 /\ Len(<< >>) = 0
             /\ Head(<<value>>) = value /\ Tail(<<value>>) = << >>
OBVIOUS

Waiting == at["receiver"] \in {"start", "countdown", "pop"}

\* Whose turn it is: nobody's before the start; the sender's, then the
\* receiver's, with the message on its way or in the receiver's hands; and
\* nobody's after the last message has come back.
NoTurn(step) ==
  /\ q1 = << >> /\ q2 = << >>
  /\ at["sender"] = step /\ at["receiver"] = step

SenderTurn ==
  /\ q1 = << >> /\ q2 = << >>
  /\ at["sender"] \in {"start", "countdown", "push"}
  /\ Waiting

OnItsWay ==
  /\ (\E value : Holds(q1, value)) /\ q2 = << >>
  /\ at["sender"] = "pop"
  /\ Waiting

ReceiverTurn ==
  /\ q1 = << >> /\ q2 = << >>
  /\ at["sender"] = "pop" /\ at["receiver"] = "push"

OnItsWayBack ==
  /\ q1 = << >> /\ Holds(q2, ball["receiver"])
  /\ at["sender"] = "pop"
  /\ at["receiver"] = IF ball["receiver"] > 1 THEN "pop" ELSE "done"

TurnInv ==
  /\ at \in [Sides -> {"none", "start", "countdown", "push", "pop", "done"}]
  /\ \/ NoTurn("none") \/ SenderTurn \/ OnItsWay
     \/ ReceiverTurn \/ OnItsWayBack \/ NoTurn("done")

\* The turn holds what is to be shown of it.
LEMMA TurnsAreOne == TurnInv => OneMessageInTurn
<1> SUFFICES ASSUME TurnInv PROVE OneMessageInTurn
  OBVIOUS
<1> DEFINE pushing == {s \in Sides : at[s] = "push"}
<1>1. CASE NoTurn("none") \/ OnItsWay \/ OnItsWayBack \/ NoTurn("done")
  <2>1. pushing = {}
    BY <1>1 DEF NoTurn, OnItsWay, OnItsWayBack, Waiting, Sides
  <2>2. Cardinality(pushing) = 0
    BY <2>1, FS_EmptySet
  <2>3. Len(q1) \in {0, 1} /\ Len(q2) \in {0, 1} /\ (Len(q1) = 0 \/ Len(q2) = 0)
    BY <1>1, OneInOneOut, Zenon DEF NoTurn, OnItsWay, OnItsWayBack, Holds
  <2>4. at["sender"] = "done" => at["receiver"] = "done"
    BY <1>1 DEF NoTurn, OnItsWay, OnItsWayBack
  <2> HIDE DEF pushing
  <2>5. \A j, k \in {0, 1} : j = 0 \/ k = 0 => j + k + 0 <= 1
    OBVIOUS
  <2>6. Len(q1) + Len(q2) + Cardinality(pushing) <= 1
    BY <2>2, <2>3, <2>5, Zenon
  <2> QED
    BY <2>4, <2>6 DEF OneMessageInTurn, pushing
<1>2. CASE SenderTurn \/ ReceiverTurn
  <2>1. /\ Len(q1) = 0 /\ Len(q2) = 0 /\ at["sender"] # "done"
        /\ pushing = {} \/ pushing = {"sender"} \/ pushing = {"receiver"}
    BY <1>2, OneInOneOut DEF SenderTurn, ReceiverTurn, Waiting, Sides
  <2>2. Cardinality(pushing) = 0 \/ Cardinality(pushing) = 1
    BY <2>1, FS_EmptySet, FS_Singleton
  <2> QED
    BY <2>1, <2>2 DEF OneMessageInTurn
<1> QED
  BY <1>1, <1>2 DEF TurnInv

\* Each side passes the turn on, and does nothing out of turn.
LEMMA PlayPassesTurn ==
  ASSUME TurnInv, NEW s \in Sides, NEW nothing, PingPongStep(s, nothing)
  PROVE  TurnInv'
<1> USE OneInOneOut DEF Sides, Holds
<1>1. CASE Arrive(s) \/ Depart(s)
  BY <1>1
     DEF TurnInv, Arrive, Depart, NoTurn, SenderTurn, Waiting, OnItsWay, ReceiverTurn,
         OnItsWayBack
<1>2. CASE SenderPush
  BY <1>2
     DEF TurnInv, SenderPush, Pushed, NoTurn, SenderTurn, Waiting, OnItsWay,
         ReceiverTurn, OnItsWayBack
<1>3. CASE SenderPop(nothing)
  BY <1>3
     DEF TurnInv, SenderPop, Popped, NoTurn, SenderTurn, Waiting, OnItsWay, ReceiverTurn,
         OnItsWayBack
<1>4. CASE ReceiverPop(nothing)
  BY <1>4
     DEF TurnInv, ReceiverPop, Popped, NoTurn, SenderTurn, Waiting, OnItsWay,
         ReceiverTurn, OnItsWayBack
<1>5. CASE ReceiverPush
  BY <1>5
     DEF TurnInv, ReceiverPush, Pushed, NoTurn, SenderTurn, Waiting, OnItsWay,
         ReceiverTurn, OnItsWayBack
<1> QED
  BY <1>1, <1>2, <1>3, <1>4, <1>5 DEF PingPongStep

\* In every state the ping-pong's message is in one of its places.
LEMMA TurnInvariant == BenchmarksSpec => []TurnInv
<1>1. BenchmarksInit => TurnInv
  BY DEF BenchmarksInit, PingPongInit, TurnInv, NoTurn, Sides
<1>2. TurnInv /\ [BenchmarksNext]_allVars => TurnInv'
  <2> SUFFICES ASSUME TurnInv, [BenchmarksNext]_allVars PROVE TurnInv'
    OBVIOUS
  <2>1. CASE UNCHANGED pingPongVars
    BY <2>1
       DEF pingPongVars, TurnInv, NoTurn, SenderTurn, Waiting, OnItsWay, ReceiverTurn,
           OnItsWayBack
  <2>2. CASE Serve
    BY <2>2
       DEF Serve, TurnInv, NoTurn, SenderTurn, Waiting, OnItsWay, ReceiverTurn,
           OnItsWayBack, Sides
  <2>3. ASSUME NEW s \in Sides, Play(s) PROVE TurnInv'
    <3>1. PICK nothing : PingPongStep(s, nothing)
      BY <2>3 DEF Play, PingPongStep, SenderPop, ReceiverPop, Popped
    <3> QED
      BY <3>1, PlayPassesTurn
  <2>4. CASE JoinReceiver
    BY <2>4 DEF JoinReceiver, TurnInv, NoTurn, Sides
  <2>5. ASSUME MainThread PROVE TurnInv'
    <3>1. CASE StartUp \/ CreateThread \/ Running(Main) \/ JoinAll
      BY <2>1, <3>1 DEF StartUp, CreateThread, Running, JoinAll
    <3>2. CASE StartPingPong \/ EndPingPong
      BY <2>2, <2>4, <3>2 DEF StartPingPong, EndPingPong
    <3>3. CASE Play("sender")
      BY <2>3, <3>3 DEF Sides
    <3> QED
      BY <2>5, <3>1, <3>2, <3>3 DEF MainThread
  <2>6. ASSUME NEW t \in Others, OtherThread(t) PROVE TurnInv'
    BY <2>1, <2>3, <2>6 DEF OtherThread, Running, Sides
  <2> QED
    BY <2>1, <2>5, <2>6 DEF BenchmarksNext, allVars
<1> QED
  BY <1>1, <1>2, PTL DEF BenchmarksSpec

\* Comment in run_ping_pong_benchmarks: no capacity greater than 1 is needed.
\* One side at most has a message to push or one in its queue, for any number
\* of messages and any capacity, and the sender is never done before the
\* receiver.
THEOREM PingPongTakesTurns == BenchmarksSpec => []OneMessageInTurn
BY TurnInvariant, TurnsAreOne, PTL

-----------------------------------------------------------------------------
(* What the threads that share a queue have received.                      *)
\* A message has been popped once if it has been pushed and is in no slot any
\* more, and not at all otherwise.
Delivered ==
  \A p \in Producers : \A n \in 1 .. MaxPush :
    popped[<<p, n>>] = IF n <= pushed[p] /\ <<p, n>> \notin Stored THEN 1 ELSE 0

\* What a message popped by a step was before.
PopsOne(m) == popped[m] = 0 /\ popped' = [popped EXCEPT ![m] = 1]

\* A step pops one message, which nobody has popped, or none.
LEMMA StepDelivers ==
  ASSUME ChannelInv, Delivered, [Next]_vars
  PROVE  /\ Delivered'
         /\ popped' = popped \/ \E m \in Message : PopsOne(m)
<1>1. /\ pushed \in [Producers -> 0 .. MaxPush] /\ popped \in [Message -> Nat]
      /\ Stored \in SUBSET Message /\ Past(elements, pushed) /\ MaxPush \in Nat
  BY MaxPushAssumption DEF ChannelInv, Typed, TypeOK, Stored
<1>2. CASE Keeps
  BY <1>2 DEF Keeps, Delivered, Stored
<1>3. ASSUME NEW p \in Producers, Stores(p)
      PROVE  Delivered' /\ popped' = popped
  <2>1. /\ pushed[p] < MaxPush /\ popped' = popped
        /\ Stored' = Stored \cup {<<p, pushed[p] + 1>>}
        /\ pushed' = [pushed EXCEPT ![p] = pushed[p] + 1]
    BY <1>3, StoresPut DEF Puts, ChannelOfSlots!Send
  <2>2. ASSUME NEW q \in Producers, NEW n \in 1 .. MaxPush
        PROVE  n <= pushed'[q] /\ <<q, n>> \notin Stored' <=> n <= pushed[q] /\ <<q, n>> \notin Stored
    BY <1>1, <2>1
  <2> QED
    BY <2>1, <2>2 DEF Delivered
<1>4. ASSUME NEW s \in Slots, Takes(s)
      PROVE  Delivered' /\ \E m \in Message : PopsOne(m)
  <2>1. PICK m : m = elements[s]
    OBVIOUS
  <2>2. /\ m \in Stored /\ Stored' = Stored \ {m} /\ pushed' = pushed
        /\ popped' = [popped EXCEPT ![m] = popped[m] + 1]
    BY <1>4, <2>1, TakesRemove DEF Removes, ChannelOfSlots!Receive
  <2>3. PICK p \in Producers, n \in 1 .. MaxPush : m = <<p, n>>
    BY <1>1, <2>2 DEF Message
  <2>4. n <= pushed[p] /\ m \in Message
    BY <1>1, <2>1, <2>2, <2>3 DEF Past
  <2>5. popped[m] = 0
    BY <2>2, <2>3 DEF Delivered
  <2>6. PopsOne(m)
    BY <2>2, <2>5 DEF PopsOne
  <2>7. ASSUME NEW q \in Producers, NEW k \in 1 .. MaxPush
        PROVE  popped'[<<q, k>>] = IF k <= pushed'[q] /\ <<q, k>> \notin Stored' THEN 1 ELSE 0
    <3>1. <<q, k>> \in Message
      BY DEF Message
    <3>2. CASE <<q, k>> = m
      <4>1. k = n /\ q = p
        BY <2>3, <3>2
      <4> QED
        BY <1>1, <2>2, <2>4, <2>6, <3>2, <4>1 DEF PopsOne
    <3>3. CASE <<q, k>> # m
      BY <1>1, <2>2, <2>6, <3>1, <3>3 DEF PopsOne, Delivered
    <3> QED
      BY <3>2, <3>3
  <2> QED
    BY <2>4, <2>6, <2>7 DEF Delivered
<1> QED
  BY <1>2, <1>3, <1>4, StepEffects DEF Keeps

\* The main thread pushes the stop messages of the stress test.
MainsTurn == program = "stress" /\ stage[Main] # "start"

\* Threads are inside calls only while they run; a producer is done when it has
\* pushed its messages, and the main thread of the stress test comes last.
StageInv ==
  /\ stage \in [Threads -> {"start", "countdown", "run", "done"}]
  /\ \A t \in Threads : pc[t] # "idle" => stage[t] = "run"
  /\ \A p \in Producers :
       /\ stage[p] \in {"start", "countdown"} => pushed[p] = 0
       /\ stage[p] = "done" => pushed[p] = Quota(p) /\ pushed[p] > 0
  /\ MainsTurn => /\ stage[Main] # "countdown"
                  /\ \A p \in Producers \ {Main} : stage[p] = "done"

\* A step of the queue is its thread's only, and a call ends with what it
\* counts.
Alone(t) ==
  /\ \A u \in Threads \ {t} : pc'[u] = pc[u]
  /\ \A p \in Producers \ {t} : pushed'[p] = pushed[p]
  /\ pushed' # pushed \/ popped' # popped => pc'[t] = "idle"

\* The steps of push and of pop.
LEMMA StepsAlone ==
  ASSUME ChannelInv
  PROVE  /\ \A p \in Producers : Push(p) => /\ Alone(p) /\ popped' = popped
                                            /\ pushed'[p] \in {pushed[p], pushed[p] + 1}
         /\ \A c \in Consumers : Pop(c) => Alone(c) /\ pushed' = pushed
<1> USE ThreadsAssumption DEF ChannelInv, Typed, TypeOK, Alone, Goto, Return, Threads
<1>1. ASSUME NEW p \in Producers, Push(p)
      PROVE  Alone(p) /\ popped' = popped /\ pushed'[p] \in {pushed[p], pushed[p] + 1}
  BY <1>1
     DEF Push, ClaimPush, TryPushBegin, TryPushCheck, ClaimHead, ReloadHead, PushBegin,
         ExchangeNil, SeeNil, StoreElement, StoreNextMessage, Accepted
<1>2. ASSUME NEW c \in Consumers, Pop(c)
      PROVE  Alone(c) /\ pushed' = pushed
  BY <1>2
     DEF Pop, ClaimPop, TryPopBegin, TryPopCheck, ClaimTail, ReloadTail, PopBegin,
         ExchangeElement, LoadElement, StoreNil
<1> QED
  BY <1>1, <1>2

\* The steps that start a thread or let it go on, and touch no queue.
Comes(t) == Countdown(t) \/ Leave(t) \/ (t = Main /\ JoinProducers)

\* Each thread goes through its stages in order.
LEMMA WorkInStages ==
  ASSUME ChannelInv, StageInv, NEW t \in Threads, Work(t)
  PROVE  StageInv'
<1> USE MainAssumption DEF StageInv, MainsTurn, Threads, Enter, Quota
<1>1. CASE Comes(t)
  BY <1>1 DEF Comes, Countdown, Leave, JoinProducers, Participants, vars, common
<1>2. pushed \in [Producers -> 0 .. MaxPush] /\ MaxPush \in Nat
  BY MaxPushAssumption DEF ChannelInv, Typed, TypeOK
<1>3. CASE t \in Producers /\ Produce(t)
  <2>1. /\ Alone(t) /\ pushed'[t] \in {pushed[t], pushed[t] + 1}
        /\ stage[t] = "run" /\ pushed[t] < Quota(t) /\ UNCHANGED program
        /\ IF pushed'[t] = Quota(t) THEN Enter(t, "done") ELSE UNCHANGED stage
    BY <1>3, StepsAlone DEF Produce
  <2>2. pushed'[t] = Quota(t) => pushed'[t] > 0 /\ pushed' # pushed
    BY <1>2, <1>3, <2>1
  <2> QED
    BY <1>3, <2>1, <2>2 DEF Alone
<1>4. CASE t \in Consumers /\ Consume(t)
  <2>1. /\ Alone(t) /\ pushed' = pushed
        /\ stage[t] = "run" /\ UNCHANGED program
        /\ IF Stopping THEN Enter(t, "done") ELSE UNCHANGED stage
    BY <1>4, StepsAlone DEF Consume
  <2>2. Stopping => popped' # popped
    BY DEF Stopping
  <2> QED
    BY <1>4, <2>1, <2>2, ThreadsAssumption DEF Alone
<1> QED
  BY <1>1, <1>3, <1>4 DEF Work, Comes

\* A step of the programs is a step of a queue, which starts no thread, or not.
LEMMA WorkInQueue ==
  ASSUME ChannelInv, StageInv, NEW t \in Threads, Work(t)
  PROVE  /\ UNCHANGED program
         /\ \/ UNCHANGED vars
            \/ Next /\ (MainsTurn' => MainsTurn)
<1>1. CASE Comes(t)
  BY <1>1 DEF Comes, Countdown, Leave, JoinProducers
<1>2. CASE (t \in Producers /\ Produce(t)) \/ (t \in Consumers /\ Consume(t))
  <2>1. stage[t] = "run" /\ UNCHANGED program /\ \A u \in Threads \ {t} : stage'[u] = stage[u]
    BY <1>2 DEF Produce, Consume, Enter, StageInv
  <2>2. Main \in Threads
    BY MainAssumption DEF Threads
  <2> QED
    BY <1>2, <2>1, <2>2 DEF Produce, Consume, Next, MainsTurn
<1> QED
  BY <1>1, <1>2 DEF Work, Comes

-----------------------------------------------------------------------------
\* The slot of the index that was claimed last.
Last == Slot[Sub(head_, 1)]

\* Some thread still has to put its message there, or there is none, or it is
\* the last one its producer has pushed; in the stress test it is a stop
\* message once the main thread pushes them.
LastInv ==
  /\ \/ \E p \in Producers : Busy(p) /\ SlotOf(p) = Last
     \/ elements[Last] = NIL
     \/ \E p \in Producers :
          /\ ~Busy(p) /\ elements[Last] = <<p, pushed[p]>>
          /\ MainsTurn /\ pushed[Main] > 0 => p = Main
  /\ MainsTurn /\ Busy(Main) => SlotOf(Main) = Last

\* The word before the next is the word itself.
LEMMA SubOne == \A a \in Word : Sub(Add(a, 1), 1) = a /\ Sub(a, 1) \in Word
BY ModulusAssumption DEF Word, Add, Sub

\* Nobody puts a message in the slot of the last index after the thread that
\* claimed it, unless they share the slot.
LEMMA LastStep ==
  ASSUME BalanceInv, StageInv, StageInv', LastInv, [Next]_vars, UNCHANGED program,
         UNCHANGED vars \/ (MainsTurn' => MainsTurn)
  PROVE  LastInv'
<1> DEFINE Steps == PushSteps \cup PopSteps
<1>1. /\ pc \in [Threads -> Steps] /\ AreWords /\ ChannelInv /\ (Spsc => EndsInv)
      /\ pushed \in [Producers -> 0 .. MaxPush]
      /\ elements \in [Slots -> Message \cup {NIL}]
      /\ Main \in Producers /\ Main \in Threads /\ MaxPush \in Nat
  BY MainAssumption, MaxPushAssumption DEF BalanceInv, ChannelInv, Typed, TypeOK, AreWords, Threads
<1> HIDE DEF Steps
<1>2. Last \in Slots
  BY <1>1, SubOne, Constants DEF Last, AreWords
<1>3. (~Busy(Main) /\ pushed[Main] = 0) \/ (MainsTurn' => MainsTurn)
  BY <1>1 DEF MainsTurn, StageInv, Busy
<1>4. ASSUME NEW p \in Producers, p # Main, Busy(p) PROVE ~MainsTurn
  BY <1>4 DEF StageInv, Busy, Threads
<1>5. ASSUME NEW p \in Producers, p # Main, Busy(p)' PROVE ~MainsTurn'
  BY <1>5 DEF StageInv, Busy, Threads
<1>6. CASE UNCHANGED common /\ Keeps
  BY <1>1, <1>3, <1>6 DEF LastInv, Last, common, Keeps, Busy, SlotOf
<1>7. CASE ~(UNCHANGED common /\ Keeps)
  <2>0. MainsTurn' => MainsTurn
    BY <1>7 DEF vars, common, Keeps
  <2>1. CASE Claims /\ Keeps
    <3>1. Looks \/ (\E p \in Producers : HeadClaimed(p)) \/ (\E c \in Consumers : TailClaimed(c))
      BY <1>1, <2>1, ClaimMoves
    <3>2. ASSUME \A p \in Producers : (Busy(p)' <=> Busy(p)) /\ (Busy(p) => index'[p] = index[p]),
                 head_' = head_
          PROVE  LastInv'
      BY <1>1, <2>0, <2>1, <3>2 DEF LastInv, Last, Keeps, SlotOf
    <3>3. ASSUME NEW p \in Producers, HeadClaimed(p) PROVE LastInv'
      <4>1. Busy(p)' /\ SlotOf(p)' = Last'
        BY <1>1, <3>3, SubOne DEF HeadClaimed, SlotOf, Last, AreWords
      <4>2. MainsTurn' => p = Main
        BY <1>5, <4>1
      <4> QED
        BY <4>1, <4>2 DEF LastInv
    <3>4. \A p \in Producers : p \in Threads /\ p \notin Consumers
      BY ThreadsAssumption DEF Threads
    <3> QED
      BY <3>1, <3>2, <3>3, <3>4 DEF Looks, TailClaimed, OthersStay, counters
  <2>2. ASSUME NEW t \in Threads, Works(t), Keeps
        PROVE  LastInv'
    <3>1. /\ UNCHANGED <<head_, tail_, index>>
          /\ \A u \in Threads : Busy(u)' <=> Busy(u)
      BY <1>1, <2>2 DEF Works, Busy
    <3>2. Last' = Last /\ elements' = elements /\ pushed' = pushed
          /\ \A u \in Threads : SlotOf(u)' = SlotOf(u)
      BY <2>2, <3>1 DEF Last, SlotOf, Keeps
    <3> QED
      BY <1>1, <2>0, <3>1, <3>2 DEF LastInv, Threads
  <2>3. ASSUME NEW p \in Producers, Finishes(p), Stores(p)
        PROVE  LastInv'
    <3>1. /\ Last' = Last /\ Busy(p) /\ ~Busy(p)'
          /\ \A u \in Threads \ {p} : (Busy(u)' <=> Busy(u)) /\ SlotOf(u)' = SlotOf(u)
          /\ elements' = [elements EXCEPT ![SlotOf(p)] = <<p, pushed[p] + 1>>]
          /\ pushed' = [pushed EXCEPT ![p] = pushed[p] + 1]
      BY <1>1, <2>3
         DEF Finishes, Stores, StoreNextMessage, Accepted, NextMessage, Return, Goto, Last,
             Busy, SlotOf, counters, AreWords, Threads
    <3>2. MainsTurn => p = Main
      BY <1>4, <3>1
    <3>3. MainsTurn' /\ Busy(Main)' => SlotOf(Main)' = Last'
      BY <1>1, <2>0, <3>1, <3>2
    <3>4. CASE SlotOf(p) = Last
      BY <1>1, <1>2, <2>0, <3>1, <3>2, <3>3, <3>4 DEF LastInv
    <3>5. CASE SlotOf(p) # Last
      <4>1. p # Main \/ ~MainsTurn
        BY <1>1, <3>1, <3>5 DEF LastInv
      <4>2. ~MainsTurn'
        BY <2>0, <3>2, <4>1
      <4>3. elements'[Last] = elements[Last]
        BY <1>1, <1>2, <3>1, <3>5
      <4>4. CASE \E q \in Producers : Busy(q) /\ SlotOf(q) = Last
        BY <3>1, <3>3, <3>5, <4>4 DEF LastInv, Threads
      <4>5. CASE elements[Last] = NIL
        BY <3>1, <3>3, <4>3, <4>5 DEF LastInv
      <4>6. CASE \E q \in Producers : ~Busy(q) /\ elements[Last] = <<q, pushed[q]>>
        <5>1. PICK q \in Producers : ~Busy(q) /\ elements[Last] = <<q, pushed[q]>>
          BY <4>6
        <5>2. q # p /\ ~Busy(q)' /\ pushed'[q] = pushed[q]
          BY <1>1, <3>1, <5>1 DEF Threads
        <5> QED
          BY <3>1, <3>3, <4>2, <4>3, <5>1, <5>2 DEF LastInv
      <4> QED
        BY <4>4, <4>5, <4>6 DEF LastInv
    <3> QED
      BY <3>4, <3>5
  <2>4. ASSUME NEW c \in Consumers, Finishes(c), Takes(SlotOf(c))
        PROVE  LastInv'
    <3>1. /\ Last' = Last /\ pushed' = pushed
          /\ \A p \in Producers : (Busy(p)' <=> Busy(p)) /\ SlotOf(p)' = SlotOf(p)
          /\ elements' = [elements EXCEPT ![SlotOf(c)] = NIL]
      BY <1>1, <2>4, ThreadsAssumption
         DEF Finishes, Takes, Return, Goto, Last, Busy, SlotOf, counters, AreWords, Threads
    <3>2. elements'[Last] = NIL \/ elements'[Last] = elements[Last]
      BY <1>1, <1>2, <3>1
    <3> QED
      BY <1>1, <2>0, <3>1, <3>2 DEF LastInv
  <2> QED
    BY <1>1, <1>7, <2>1, <2>2, <2>3, <2>4, StepKinds
<1> QED
  BY <1>6, <1>7

-----------------------------------------------------------------------------
\* Every consumer that is done has popped a stop message of its own.
DoneConsumers == {c \in Consumers : stage[c] = "done"}
StopsPopped == {m \in Message : IsStop(m) /\ popped[m] = 1}

StopsInv == Cardinality(DoneConsumers) <= Cardinality(StopsPopped)

\* There are finitely many messages.
LEMMA FinitelyMany ==
  ASSUME FewThreads
  PROVE  /\ IsFiniteSet(Message) /\ IsFiniteSet(DoneConsumers) /\ IsFiniteSet(StopsPopped)
         /\ Cardinality(DoneConsumers) \in Nat /\ Cardinality(StopsPopped) \in Nat
<1>1. IsFiniteSet(Producers) /\ IsFiniteSet(1 .. MaxPush) /\ IsFiniteSet(Consumers)
  BY MaxPushAssumption, FS_Interval DEF FewThreads
<1>2. IsFiniteSet(Message)
  BY <1>1, FS_Product DEF Message
<1>3. IsFiniteSet(DoneConsumers) /\ IsFiniteSet(StopsPopped)
  BY <1>1, <1>2, FS_Subset DEF DoneConsumers, StopsPopped
<1> QED
  BY <1>2, <1>3, FS_CardinalityType

\* A consumer is done when it pops a stop message, which no other has popped.
LEMMA StopsStep ==
  ASSUME FewThreads, ChannelInv, Delivered, StageInv, StopsInv, NEW t \in Threads, Work(t)
  PROVE  StopsInv'
<1>1. program' = program
  BY WorkInQueue
<1>2. popped' = popped \/ \E m \in Message : PopsOne(m)
  BY WorkInQueue, StepDelivers DEF vars, common
<1>3. popped \in [Message -> Nat]
  BY DEF ChannelInv, Typed, TypeOK
<1>4. IsFiniteSet(DoneConsumers) /\ IsFiniteSet(StopsPopped')
  <2>1. StopsPopped' \in SUBSET Message
    BY DEF StopsPopped
  <2> QED
    BY <2>1, FinitelyMany, FS_Subset
<1>5. \A m \in Message : IsStop(m)' <=> IsStop(m)
  BY <1>1 DEF IsStop
<1>6. StopsPopped \in SUBSET StopsPopped'
  BY <1>2, <1>3, <1>5 DEF StopsPopped, PopsOne
<1>7. Cardinality(StopsPopped) <= Cardinality(StopsPopped')
  BY <1>4, <1>6, FS_Subset
<1>8. /\ Cardinality(DoneConsumers) \in Nat /\ Cardinality(StopsPopped) \in Nat
      /\ Cardinality(StopsPopped') \in Nat
  BY <1>4, FinitelyMany, FS_CardinalityType
<1>9. CASE DoneConsumers' = DoneConsumers
  BY <1>7, <1>8, <1>9 DEF StopsInv
<1>10. CASE t \in Consumers /\ Consume(t) /\ Stopping
  <2>0. stage' = [stage EXCEPT ![t] = "done"]
    BY <1>10, Zenon DEF Consume, Enter
  <2>1. DoneConsumers' = DoneConsumers \cup {t}
    BY <1>10, <2>0 DEF DoneConsumers, StageInv, Threads
  <2>2. Cardinality(DoneConsumers') <= Cardinality(DoneConsumers) + 1
    <3>1. Cardinality(DoneConsumers \cup {t})
            = IF t \in DoneConsumers THEN Cardinality(DoneConsumers) ELSE Cardinality(DoneConsumers) + 1
      BY <1>4, FS_AddElement, Zenon
    <3> QED
      BY <1>8, <2>1, <3>1
  <2>3. PICK m \in Message : IsStop(m) /\ popped'[m] # popped[m]
    BY <1>10 DEF Stopping
  <2>4. m \in StopsPopped' /\ m \notin StopsPopped
    BY <1>2, <1>3, <1>5, <2>3 DEF PopsOne, StopsPopped
  <2>5. /\ IsFiniteSet(StopsPopped) /\ StopsPopped \cup {m} \in SUBSET StopsPopped'
    BY <1>6, <2>4, FinitelyMany
  <2>6. Cardinality(StopsPopped \cup {m}) = Cardinality(StopsPopped) + 1
    BY <2>4, <2>5, FS_AddElement
  <2>7. Cardinality(StopsPopped \cup {m}) <= Cardinality(StopsPopped')
    BY <1>4, <2>5, FS_Subset
  <2>8. Cardinality(DoneConsumers') \in Nat
    BY <1>4, <2>1, FS_AddElement, FS_CardinalityType
  <2> QED
    BY <1>8, <2>2, <2>6, <2>7, <2>8 DEF StopsInv
<1>11. CASE ~(t \in Consumers /\ Consume(t) /\ Stopping)
  <2>1. \A c \in Consumers : stage'[c] = "done" <=> stage[c] = "done"
    BY <1>11, MainAssumption, ThreadsAssumption
       DEF Work, Countdown, Leave, JoinProducers, Produce, Consume, Enter, StageInv, Threads
  <2> QED
    BY <1>9, <2>1 DEF DoneConsumers
<1> QED
  BY <1>10, <1>11

\* What holds of the programs' threads in every state.
ReceiveInv ==
  /\ ChannelInv /\ BalanceInv
  /\ program \in {"stress", "throughput"}
  /\ Delivered
  /\ StageInv
  /\ LastInv
  /\ StopsInv

\* The invariant in the steps of the programs.
LEMMA ReceiveStep ==
  ASSUME FewThreads, ReceiveInv, BalanceInv', [BenchmarksNext]_allVars
  PROVE  ReceiveInv'
<1>1. ASSUME UNCHANGED harnessVars
      PROVE  ReceiveInv'
  BY <1>1
     DEF harnessVars, vars, common, ReceiveInv, BalanceInv, ChannelInv, Delivered, Stored, StageInv, MainsTurn,
         Quota, LastInv, Last, Busy, SlotOf, StopsInv, DoneConsumers, StopsPopped, IsStop
<1>2. ASSUME NEW t \in Threads, Work(t)
      PROVE  ReceiveInv'
  <2>1. /\ UNCHANGED program
        /\ UNCHANGED vars \/ (Next /\ (MainsTurn' => MainsTurn))
    BY <1>2, WorkInQueue DEF ReceiveInv
  <2>2. Delivered'
    BY <2>1, StepDelivers DEF ReceiveInv
  <2>3. StageInv'
    BY <1>2, WorkInStages DEF ReceiveInv
  <2>4. LastInv'
    BY <2>1, <2>3, LastStep DEF ReceiveInv
  <2>5. StopsInv'
    BY <1>2, StopsStep DEF ReceiveInv
  <2> QED
    BY <2>1, <2>2, <2>3, <2>4, <2>5 DEF ReceiveInv, BalanceInv
<1>3. Main \in Threads
  BY MainAssumption DEF Threads
<1> QED
  BY <1>1, <1>2, <1>3
     DEF BenchmarksNext, MainThread, StartUp, StartPingPong, Play, EndPingPong, CreateThread,
         JoinAll, Others, OtherThread, Running, allVars

\* With no call under way, a queue whose last slot is free is empty.
LEMMA NothingLeft ==
  ASSUME FewThreads, NEW head \in Word, NEW tail \in Word, NEW full \in SUBSET Slots, NEW ix,
         Balance(head, tail, {}, {}, ix, full),
         Slot[Sub(head, 1)] \notin full
  PROVE  full = {}
<1> DEFINE last == Sub(head, 1)
           s == Slot[last]
           used == Sub(head, tail)
<1>1. /\ IsFiniteSet(full) /\ Cardinality(full) \in Nat /\ Cardinality({}) = 0
      /\ AsSigned(used) = Cardinality(full)
  <2>1. IsFiniteSet(full) /\ Cardinality(full) \in Nat
    BY Sizes
  <2> QED
    BY <2>1, FS_EmptySet DEF Balance
<1>2. CASE head = tail
  <2>1. used = 0 /\ AsSigned(0) = 0
    BY <1>2, SubZero, ModulusAssumption DEF AsSigned
  <2> QED
    BY <1>1, <2>1, FS_EmptySet
<1>3. CASE head # tail
  <2>1. last \in Word /\ s \in Slots
    BY SubOne, Constants
  <2>2. Sub(last, tail) < used
    BY <1>3, ModulusAssumption DEF Sub, Word
  <2>3. last \in Span(tail, head, s)
    BY <2>1, <2>2 DEF Span
  <2>4. Cardinality(Span(tail, head, s)) \in Nat /\ Cardinality(Span(tail, head, s)) # 0
    <3>1. IsFiniteSet(Span(tail, head, s))
      BY SpanIsFinite
    <3> QED
      BY <2>3, <3>1, FS_EmptySet, FS_CardinalityType
  <2>5. Holders({}, ix, s) = {} /\ full \cap {s} = {}
    BY DEF Holders
  <2> HIDE DEF s
  <2>6. Ahead(head, tail, s) = 0
    <3>1. Ahead(head, tail, s)
            = Cardinality(Holders({}, ix, s)) + Cardinality(full \cap {s}) - Cardinality(Holders({}, ix, s))
      BY <2>1 DEF Balance
    <3> QED
      BY <1>1, <2>5, <3>1
  <2>7. Ahead(head, tail, s) = Cardinality(Span(tail, head, s))
    BY <1>1 DEF Ahead
  <2> QED
    BY <2>4, <2>6, <2>7
<1> QED
  BY <1>2, <1>3

\* The throughput benchmark starts as many consumers as producers.
Paired == program = "throughput" => Cardinality(Producers) = Cardinality(Consumers)

\* When all threads are done, a message in the slot claimed last would be a
\* stop message that no consumer has popped, but there are no more of them than
\* consumers, which have popped one each.
LEMMA LastSlotFree ==
  ASSUME FewThreads, ReceiveInv, Paired, Finished
  PROVE  elements[Last] = NIL
<1>1. /\ \A t \in Threads : stage[t] = "done" /\ ~Busy(t)
      /\ \A p \in Producers : pushed[p] = Quota(p) /\ pushed[p] > 0
      /\ Main \in Producers /\ MaxPush \in Nat
      /\ pushed \in [Producers -> 0 .. MaxPush] /\ elements \in [Slots -> Message \cup {NIL}]
  BY MainAssumption, MaxPushAssumption
     DEF Finished, ReceiveInv, StageInv, Busy, Threads, ChannelInv, Typed, TypeOK
<1> SUFFICES ASSUME elements[Last] # NIL PROVE FALSE
  OBVIOUS
<1>2. PICK p \in Producers : /\ elements[Last] = <<p, Quota(p)>>
                             /\ program = "stress" => p = Main
  BY <1>1 DEF ReceiveInv, LastInv, MainsTurn, Threads
<1>3. PICK m : m = <<p, Quota(p)>>
  OBVIOUS
<1>4. Last \in Slots
  BY SubOne, Constants DEF Last, ReceiveInv, ChannelInv, Typed, TypeOK
<1>5. m \in Message /\ m \in Stored /\ Quota(p) \in 1 .. MaxPush
  <2>1. Quota(p) \in 1 .. MaxPush
    BY <1>1
  <2> QED
    BY <1>2, <1>3, <1>4, <2>1 DEF Message, Stored
<1>6. IsStop(m)
  BY <1>2, <1>3 DEF IsStop, Quota, ReceiveInv
<1>7. m \notin StopsPopped
  <2>1. popped[m] = 0
    BY <1>1, <1>3, <1>5 DEF ReceiveInv, Delivered
  <2> QED
    BY <2>1 DEF StopsPopped
<1>8. PICK stops : /\ IsFiniteSet(stops) /\ Cardinality(stops) = Cardinality(Consumers)
                   /\ \A q \in Producers : \A n \in 1 .. MaxPush :
                        IsStop(<<q, n>>) /\ n <= pushed[q] => <<q, n>> \in stops
  <2>0. /\ IsFiniteSet(Producers) /\ Cardinality(Producers) \in Nat
        /\ IsFiniteSet(Consumers) /\ Cardinality(Consumers) \in Nat
    BY FS_CardinalityType DEF FewThreads
  <2>1. CASE program = "stress"
    <3>1. IsFiniteSet(1 .. Cardinality(Consumers))
            /\ Cardinality(1 .. Cardinality(Consumers)) = Cardinality(Consumers)
      BY <2>0, FS_Interval
    <3>2. IsFiniteSet({Main}) /\ Cardinality({Main}) = 1
      BY FS_Singleton
    <3>3. PICK stops : stops = {Main} \X (1 .. Cardinality(Consumers))
      OBVIOUS
    <3>4. IsFiniteSet(stops) /\ Cardinality(stops) = Cardinality(Consumers)
      <4>1. PICK ones, numbers : ones = {Main} /\ numbers = 1 .. Cardinality(Consumers)
        OBVIOUS
      <4>2. /\ IsFiniteSet(ones \X numbers)
            /\ Cardinality(ones \X numbers) = Cardinality(ones) * Cardinality(numbers)
        BY ONLY <3>1, <3>2, <4>1, FS_Product
      <4> QED
        BY <2>0, <3>1, <3>2, <3>3, <4>1, <4>2
    <3>5. pushed[Main] = Cardinality(Consumers)
      BY <1>1, <2>1 DEF Quota
    <3>6. \A q \in Producers : \A n \in 1 .. MaxPush :
            IsStop(<<q, n>>) /\ n <= pushed[q] => <<q, n>> \in stops
      BY <2>0, <2>1, <3>3, <3>5 DEF IsStop
    <3> QED
      BY <3>4, <3>6
  <2>2. CASE program = "throughput"
    <3>2. IsFiniteSet({MaxPush}) /\ Cardinality({MaxPush}) = 1
      BY FS_Singleton
    <3>3. PICK stops : stops = Producers \X {MaxPush}
      OBVIOUS
    <3>4. IsFiniteSet(stops) /\ Cardinality(stops) = Cardinality(Consumers)
      <4>1. PICK ones : ones = {MaxPush}
        OBVIOUS
      <4>2. /\ IsFiniteSet(Producers \X ones)
            /\ Cardinality(Producers \X ones) = Cardinality(Producers) * Cardinality(ones)
        BY ONLY <2>0, <3>2, <4>1, FS_Product
      <4>3. Cardinality(Producers) = Cardinality(Consumers)
        BY <2>2 DEF Paired
      <4> QED
        BY ONLY <2>0, <3>2, <3>3, <4>1, <4>2, <4>3
    <3>6. \A q \in Producers : \A n \in 1 .. MaxPush :
            IsStop(<<q, n>>) /\ n <= pushed[q] => <<q, n>> \in stops
      BY <2>2, <3>3 DEF IsStop
    <3> QED
      BY <3>4, <3>6
  <2> QED
    BY <2>1, <2>2 DEF ReceiveInv
<1>9. StopsPopped \in SUBSET (stops \ {m})
  <2>1. ASSUME NEW q \in Producers, NEW n \in 1 .. MaxPush, <<q, n>> \in StopsPopped
        PROVE  <<q, n>> \in stops
    BY <1>8, <2>1 DEF StopsPopped, ReceiveInv, Delivered
  <2> QED
    BY <1>7, <2>1 DEF StopsPopped, Message
<1>10. m \in stops
  BY <1>1, <1>2, <1>3, <1>5, <1>6, <1>8
<1>11. /\ IsFiniteSet(stops \ {m}) /\ Cardinality(stops \ {m}) = Cardinality(stops) - 1
  BY <1>8, <1>10, FS_RemoveElement
<1>12. Cardinality(StopsPopped) <= Cardinality(stops) - 1
  BY <1>9, <1>11, FS_Subset
<1>13. DoneConsumers = Consumers
  BY <1>1 DEF DoneConsumers, Threads
<1>14. Cardinality(stops) \in Nat /\ Cardinality(StopsPopped) \in Nat
  BY <1>8, FinitelyMany, FS_CardinalityType
<1> QED
  BY <1>8, <1>12, <1>13, <1>14 DEF ReceiveInv, StopsInv

\* And so the slots are empty, and all has been received.
LEMMA AllReceived ==
  ASSUME FewThreads, ReceiveInv, Paired PROVE ReceivedExactlyOnce
<1> SUFFICES ASSUME Finished PROVE ReceivedExactlyOnce
  BY DEF ReceivedExactlyOnce
<1>1. /\ \A t \in Threads : ~Busy(t)
      /\ \A p \in Producers : pushed[p] = Quota(p)
      /\ pushed \in [Producers -> 0 .. MaxPush] /\ MaxPush \in Nat
      /\ head_ \in Word /\ tail_ \in Word
  BY MaxPushAssumption
     DEF Finished, ReceiveInv, StageInv, Busy, Threads, ChannelInv, Typed, TypeOK
<1>2. BusyOf(Producers) = {} /\ BusyOf(Consumers) = {}
  BY <1>1 DEF BusyOf, Threads
<1>3. Balance(head_, tail_, {}, {}, index, FullSlots)
  BY <1>2 DEF ReceiveInv, BalanceInv, Balanced
<1>4. Last \notin FullSlots
  BY LastSlotFree DEF FullSlots
<1>5. FullSlots = {}
  <2>1. FullSlots \in SUBSET Slots
    BY DEF FullSlots
  <2> QED
    BY <1>1, <1>3, <1>4, <2>1, NothingLeft DEF Last
<1>6. \A s \in Slots : elements[s] = NIL
  BY <1>5 DEF FullSlots
<1>7. Stored = {}
  BY <1>6 DEF Stored
<1>8. ASSUME NEW p \in Producers, NEW n \in 1 .. Quota(p)
      PROVE  popped[<<p, n>>] = 1
  <2>1. n \in 1 .. MaxPush /\ n <= pushed[p]
    BY <1>1
  <2> QED
    BY <1>7, <2>1 DEF ReceiveInv, Delivered
<1> QED
  BY <1>6, <1>8 DEF ReceivedExactlyOnce

\* Checksums of both programs: when all threads have returned, each message has
\* been popped exactly once and none is left behind a stop message, for any
\* numbers of threads and messages, also when threads are lapped and messages
\* overtake each other, and with any mapping of indices to slots.
THEOREM ProgramsReceiveAll ==
  ASSUME FewThreads PROVE BenchmarksSpec /\ Paired => []ReceivedExactlyOnce
<1>1. BenchmarksInit /\ BalanceInv => ReceiveInv
  <2> SUFFICES ASSUME BenchmarksInit, BalanceInv PROVE ReceiveInv
    OBVIOUS
  <2>1. /\ HarnessInit /\ Init /\ ChannelInv
        /\ Main \in Producers /\ MaxPush \in Nat
    BY MainAssumption, MaxPushAssumption DEF BenchmarksInit, HarnessInit, BalanceInv
  <2>2. Delivered
    BY <2>1 DEF Init, CommonInit, Delivered, Message
  <2>3. StageInv
    BY <2>1 DEF HarnessInit, Init, CommonInit, StageInv, MainsTurn, Threads
  <2>4. Last \in Slots
    BY <2>1, SubOne, Constants DEF Last, ChannelInv, Typed, TypeOK
  <2>5. LastInv
    <3>1. elements[Last] = NIL /\ stage[Main] = "start"
      BY <2>1, <2>4, Zenon DEF HarnessInit, Init, Threads
    <3> QED
      BY <3>1 DEF LastInv, MainsTurn
  <2>6. DoneConsumers = {}
    BY <2>1 DEF HarnessInit, DoneConsumers, Threads
  <2>7. StopsInv
    BY <2>6, FinitelyMany, FS_EmptySet DEF StopsInv
  <2> QED
    BY <2>1, <2>2, <2>3, <2>5, <2>7 DEF ReceiveInv, HarnessInit
<1>2. FewThreads /\ ReceiveInv /\ BalanceInv' /\ [BenchmarksNext]_allVars => ReceiveInv'
  BY ReceiveStep
<1>3. ReceiveInv /\ Paired /\ [BenchmarksNext]_allVars => Paired'
  <2>1. ReceiveInv /\ [BenchmarksNext]_allVars => program' = program
    BY WorkInQueue, MainAssumption
       DEF ReceiveInv, BenchmarksNext, MainThread, StartUp, StartPingPong, Play, EndPingPong,
           CreateThread, JoinAll, Others, OtherThread, Running, allVars, harnessVars, Threads
  <2> QED
    BY <2>1 DEF Paired
<1>4. BenchmarksSpec => []BalanceInv
  <2>1. Spec => []BalanceInv
    BY BalanceInvariant
  <2> QED
    BY <2>1, ProgramsUseQueue, PTL
<1>5. FewThreads /\ ReceiveInv /\ Paired => ReceivedExactlyOnce
  BY AllReceived
<1>6. BenchmarksSpec => BenchmarksInit /\ [][BenchmarksNext]_allVars
  BY PTL DEF BenchmarksSpec
<1> QED
  BY <1>1, <1>2, <1>3, <1>4, <1>5, <1>6, PTL

-----------------------------------------------------------------------------
(* The CPUs of the threads.                                                *)
\* The numbers of a set below one of them.
Below(numbers, c) == {d \in numbers : d < c}

\* The first numbers.
LEMMA UpTo == ASSUME NEW n \in Nat PROVE IsFiniteSet(0 .. n - 1) /\ Cardinality(0 .. n - 1) = n
<1>1. n - 1 \in Int /\ 0 \in Int
  OBVIOUS
<1> QED
  BY <1>1, FS_Interval

\* Elements of a finite set of numbers have different numbers of elements below
\* them, and so each of the positions has one.
LEMMA InOrderSorts ==
  ASSUME NEW S \in SUBSET Nat, IsFiniteSet(S)
  PROVE  /\ Cardinality(S) \in Nat
         /\ \A k \in 1 .. Cardinality(S) :
              InOrder(S)[k] \in S /\ Cardinality(Below(S, InOrder(S)[k])) = k - 1
<1> DEFINE n == Cardinality(S)
           rank == [c \in S |-> Cardinality(Below(S, c))]
<1>1. n \in Nat
  BY FS_CardinalityType
<1>2. ASSUME NEW c \in S
      PROVE  IsFiniteSet(Below(S, c)) /\ rank[c] \in 0 .. n - 1
  <2>1. Below(S, c) \in SUBSET S /\ Below(S, c) # S
    BY DEF Below
  <2>2. IsFiniteSet(Below(S, c)) /\ Cardinality(Below(S, c)) <= n /\ Cardinality(Below(S, c)) # n
    BY <2>1, FS_Subset
  <2>3. Cardinality(Below(S, c)) \in Nat
    BY <2>2, FS_CardinalityType
  <2> QED
    BY <1>1, <2>2, <2>3
<1>3. ASSUME NEW c \in S, NEW d \in S, c < d PROVE rank[c] # rank[d]
  <2>1. Below(S, c) \in SUBSET Below(S, d) /\ c \in Below(S, d) /\ c \notin Below(S, c)
    <3>1. c \in Nat /\ d \in Nat /\ c < d
      BY <1>3
    <3>2. ASSUME NEW e \in Below(S, c) PROVE e \in Below(S, d)
      <4>1. e \in S /\ e \in Nat /\ e < c
        BY DEF Below
      <4>2. e < d
        BY <3>1, <4>1
      <4> QED
        BY <4>1, <4>2 DEF Below
    <3>3. c \in Below(S, d) /\ c \notin Below(S, c)
      BY <3>1 DEF Below
    <3> QED
      BY <3>2, <3>3
  <2>2. Cardinality(Below(S, c)) # Cardinality(Below(S, d))
    BY <1>2, <2>1, FS_Subset
  <2> QED
    BY <2>2
<1>4. rank \in Injection(S, 0 .. n - 1)
  <2>1. \A c, d \in S : c < d \/ d < c \/ c = d
    OBVIOUS
  <2>2. rank \in [S -> 0 .. n - 1] /\ \A c, d \in S : rank[c] = rank[d] => c = d
    BY <1>2, <1>3, <2>1
  <2> QED
    BY <2>2 DEF Injection, IsInjective
<1>5. IsFiniteSet(0 .. n - 1) /\ Cardinality(0 .. n - 1) = n
  BY <1>1, UpTo
<1> HIDE DEF rank
<1>6. rank \in Surjection(S, 0 .. n - 1)
  BY <1>4, <1>5, FS_Injection
<1>7. ASSUME NEW k \in 1 .. n
      PROVE  InOrder(S)[k] \in S /\ Cardinality(Below(S, InOrder(S)[k])) = k - 1
  <2>1. k - 1 \in 0 .. n - 1
    BY <1>1
  <2>2. PICK c \in S : rank[c] = k - 1
    BY <1>6, <2>1 DEF Surjection
  <2>3. Cardinality(Below(S, c)) = k - 1
    BY <2>2 DEF rank
  <2>4. InOrder(S)[k] = CHOOSE d \in S : Cardinality(Below(S, d)) = k - 1
    BY DEF InOrder, Below
  <2> QED
    BY <2>3, <2>4
<1> QED
  BY <1>1, <1>7

\* Each element of the set has a position.
LEMMA InOrderReaches ==
  ASSUME NEW S \in SUBSET Nat, IsFiniteSet(S), NEW c \in S
  PROVE  \E k \in 1 .. Cardinality(S) : InOrder(S)[k] = c
<1> DEFINE n == Cardinality(S)
           f == [k \in 1 .. n |-> InOrder(S)[k]]
<1>1. /\ n \in Nat
      /\ \A k \in 1 .. n : InOrder(S)[k] \in S /\ Cardinality(Below(S, InOrder(S)[k])) = k - 1
  BY InOrderSorts
<1>2. f \in Injection(1 .. n, S)
  <2>1. f \in [1 .. n -> S]
    BY <1>1
  <2>2. ASSUME NEW j \in 1 .. n, NEW k \in 1 .. n, f[j] = f[k] PROVE j = k
    <3>1. j - 1 = k - 1
      BY <1>1, <2>2
    <3> QED
      BY <1>1, <3>1
  <2> QED
    BY <2>1, <2>2 DEF Injection, IsInjective
<1>3. Cardinality(1 .. n) = Cardinality(S)
  BY <1>1, FS_Interval
<1>4. f \in Surjection(1 .. n, S)
  BY <1>2, <1>3, FS_Injection
<1> QED
  BY <1>4 DEF Surjection

\* The last position has the greatest element.
LEMMA LastIsGreatest ==
  ASSUME NEW S \in SUBSET Nat, IsFiniteSet(S), NEW c \in S
  PROVE  InOrder(S)[Cardinality(S)] \in S /\ c <= InOrder(S)[Cardinality(S)]
<1> DEFINE n == Cardinality(S)
           top == InOrder(S)[n]
           others == Below(S, top)
<1>1. n \in Nat /\ n # 0
  BY FS_CardinalityType, FS_EmptySet
<1>2. n \in 1 .. n
  BY <1>1
<1>3. top \in S /\ Cardinality(others) = n - 1
  BY <1>2, InOrderSorts
<1> HIDE DEF top
<1>4. others \in SUBSET S /\ top \notin others /\ \A d \in others : d <= top
  BY <1>3 DEF Below
<1>5. IsFiniteSet(others)
  BY <1>4, FS_Subset
<1> HIDE DEF n, others
<1>6. Cardinality(others \cup {top}) = n
  <2>1. Cardinality(others \cup {top}) = Cardinality(others) + 1
    BY <1>4, <1>5, FS_AddElement
  <2> QED
    BY <1>1, <1>3, <2>1
<1>7. others \cup {top} = S
  BY <1>3, <1>4, <1>6, FS_Subset DEF n
<1>8. c = top \/ c \in others
  BY <1>7
<1>9. top \in S /\ c <= top
  BY <1>3, <1>4, <1>8
<1> QED
  BY <1>9 DEF top, n

\* Without gaps, as many CPUs are below one that is allowed as its number says; where
\* there is a gap, the element at that position is greater.
LEMMA PositionsOfCpus ==
  ASSUME NEW S \in SUBSET Nat, IsFiniteSet(S), NEW c \in Nat, c + 1 \in 1 .. Cardinality(S)
  PROVE  /\ 0 .. c \subseteq S => InOrder(S)[c + 1] = c
         /\ ~(0 .. c \subseteq S) => InOrder(S)[c + 1] > c
<1> DEFINE x == InOrder(S)[c + 1]
<1>1. x \in S /\ x \in Nat /\ Cardinality(Below(S, x)) = c
  <2>1. (c + 1) - 1 = c
    OBVIOUS
  <2> QED
    BY <2>1, InOrderSorts
<1> HIDE DEF x
<1>2. ASSUME 0 .. c \subseteq S PROVE x = c
  <2>1. PICK k \in 1 .. Cardinality(S) : InOrder(S)[k] = c
    <3>1. c \in S
      BY <1>2
    <3> QED
      BY <3>1, InOrderReaches
  <2>2. Cardinality(Below(S, c)) = k - 1
    BY <2>1, InOrderSorts
  <2>3. Below(S, c) = 0 .. c - 1
    <3>1. ASSUME NEW d \in 0 .. c - 1 PROVE d \in S /\ d < c
      <4>1. d \in 0 .. c /\ d < c
        OBVIOUS
      <4> QED
        BY <1>2, <4>1
    <3>2. ASSUME NEW d \in S, d < c PROVE d \in 0 .. c - 1
      BY <3>2
    <3> QED
      BY <3>1, <3>2 DEF Below
  <2>4. k = c + 1
    BY <2>2, <2>3, UpTo
  <2> QED
    BY <2>1, <2>4 DEF x
<1>3. ASSUME x <= c PROVE 0 .. c \subseteq S
  <2>1. IsFiniteSet(0 .. x - 1) /\ Cardinality(0 .. x - 1) = x
    BY <1>1, UpTo
  <2>2. Below(S, x) \in SUBSET (0 .. x - 1)
    <3>1. ASSUME NEW d \in S, d < x PROVE d \in 0 .. x - 1
      BY <1>1, <3>1
    <3> QED
      BY <3>1 DEF Below
  <2>3. c <= x
    BY <1>1, <2>1, <2>2, FS_Subset
  <2>4. x = c
    BY <1>1, <1>3, <2>3
  <2>5. Below(S, x) = 0 .. x - 1
    BY <1>1, <2>1, <2>2, <2>4, FS_Subset
  <2>6. ASSUME NEW d \in 0 .. c PROVE d \in S
    <3>1. d = c \/ d \in 0 .. x - 1
      BY <2>4
    <3> QED
      BY <1>1, <2>4, <2>5, <3>1 DEF Below
  <2> QED
    BY <2>6
<1>4. /\ 0 .. c \subseteq S => x = c
      /\ ~(0 .. c \subseteq S) => x > c
  BY <1>1, <1>2, <1>3
<1> QED
  BY <1>4 DEF x

\* The CPUs of a machine that are used are different, and without gaps the process
\* may run on them.
CpusOf(m, cpus) ==
  /\ cpus \in Seq(Nat)
  /\ \A j, k \in 1 .. Len(cpus) : cpus[j] = cpus[k] => j = k
  /\ ~Gaps(m) => \A k \in 1 .. Len(cpus) : cpus[k] \in m.allowed

\* The CPUs that AvailableCpus finds on a machine are such.
LEMMA CpusDiffer ==
  ASSUME NEW m \in Machines PROVE CpusOf(m, AvailableCpus(m))
<1> DEFINE n == Cardinality(m.online)
           cpus == InOrder(m.online)
           kept == {k \in 1 .. n : k - 1 \in m.allowed}
           places == InOrder(kept)
           used == AvailableCpus(m)
<1>1. m.online \in SUBSET Nat /\ IsFiniteSet(m.online)
  BY MachinesAssumption
<1>2. /\ n \in Nat
      /\ \A k \in 1 .. n : cpus[k] \in m.online /\ Cardinality(Below(m.online, cpus[k])) = k - 1
  BY <1>1, InOrderSorts
<1>3. kept \in SUBSET Nat /\ IsFiniteSet(kept)
  <2>1. IsFiniteSet(1 .. n) /\ kept \in SUBSET (1 .. n)
    BY <1>2, FS_Interval
  <2> QED
    BY <1>2, <2>1, FS_Subset
<1>4. /\ Cardinality(kept) \in Nat
      /\ \A k \in 1 .. Cardinality(kept) :
           places[k] \in kept /\ Cardinality(Below(kept, places[k])) = k - 1
  BY <1>3, InOrderSorts
<1>5. DOMAIN cpus = 1 .. n /\ DOMAIN places = 1 .. Cardinality(kept)
  BY DEF InOrder
<1>6. used = [k \in 1 .. Cardinality(kept) |-> cpus[places[k]]]
  BY <1>5 DEF AvailableCpus
<1> HIDE DEF cpus, places, used, n
<1>7. used \in [1 .. Cardinality(kept) -> Nat]
  BY <1>1, <1>2, <1>4, <1>6
<1> HIDE DEF kept
<1>8. used \in Seq(Nat) /\ Len(used) = Cardinality(kept)
  BY <1>4, <1>7, IsSequence
<1>9. ASSUME NEW j \in 1 .. Cardinality(kept), NEW k \in 1 .. Cardinality(kept), used[j] = used[k]
      PROVE  j = k
  <2>1. places[j] \in 1 .. n /\ places[k] \in 1 .. n /\ cpus[places[j]] = cpus[places[k]]
    BY <1>4, <1>6, <1>9 DEF kept
  <2>2. places[j] = places[k]
    BY <1>2, <2>1
  <2> QED
    BY <1>4, <2>2
<1>10. ASSUME ~Gaps(m), NEW k \in 1 .. Cardinality(kept) PROVE used[k] \in m.allowed
  <2> DEFINE c == places[k] - 1
  <2>1. c \in Nat /\ c + 1 = places[k] /\ c + 1 \in 1 .. n /\ c \in m.allowed
    BY <1>2, <1>4 DEF kept
  <2> HIDE DEF c
  <2>2. 0 .. c \subseteq m.online
    BY <1>10, <2>1 DEF Gaps
  <2>3. cpus[c + 1] = c
    BY <1>1, <2>1, <2>2, PositionsOfCpus DEF cpus, n
  <2> QED
    BY <1>6, <2>1, <2>3
<1> QED
  BY <1>8, <1>9, <1>10 DEF CpusOf, used

\* When as many positions are kept as there are allowed CPUs, a gap puts the element at
\* the position of the greatest of them beyond all of them.
LEMMA GapsLeaveMask ==
  ASSUME NEW m \in Machines, ~PositionsMissing(m), Gaps(m)
  PROVE  \E k \in DOMAIN AvailableCpus(m) : AvailableCpus(m)[k] \notin m.allowed
<1> DEFINE n == Cardinality(m.online)
           cpus == InOrder(m.online)
           kept == {k \in 1 .. n : k - 1 \in m.allowed}
           places == InOrder(kept)
           top == InOrder(m.allowed)[Cardinality(m.allowed)]
<1>1. /\ m.online \in SUBSET Nat /\ IsFiniteSet(m.online)
      /\ m.allowed \in SUBSET Nat /\ IsFiniteSet(m.allowed)
  BY MachinesAssumption
<1>2. n \in Nat
  BY <1>1, FS_CardinalityType
<1>3. kept \in SUBSET Nat /\ IsFiniteSet(kept)
  <2>1. IsFiniteSet(1 .. n) /\ kept \in SUBSET (1 .. n)
    BY <1>2, FS_Interval
  <2> QED
    BY <1>2, <2>1, FS_Subset
<1>4. DOMAIN cpus = 1 .. n /\ DOMAIN places = 1 .. Cardinality(kept)
  BY DEF InOrder
<1>5. AvailableCpus(m) = [k \in 1 .. Cardinality(kept) |-> cpus[places[k]]]
  BY <1>4 DEF AvailableCpus
<1>6. Cardinality(kept) = Cardinality(m.allowed)
  <2>1. Len(AvailableCpus(m)) = Cardinality(kept)
    <3>1. Cardinality(kept) \in Nat /\ DOMAIN AvailableCpus(m) = 1 .. Cardinality(kept)
      BY <1>3, <1>5, FS_CardinalityType
    <3>2. AvailableCpus(m) \in Seq(Nat)
      BY CpusDiffer DEF CpusOf
    <3> QED
      BY <3>1, <3>2
  <2> QED
    BY <2>1 DEF PositionsMissing
<1> HIDE DEF cpus, places
<1>7. PICK c \in m.allowed : ~(0 .. c \subseteq m.online)
  BY DEF Gaps
<1>8. top \in m.allowed /\ \A d \in m.allowed : d <= top
  BY <1>1, <1>7, LastIsGreatest
<1> HIDE DEF top
<1>9. top \in Nat /\ ~(0 .. top \subseteq m.online)
  BY <1>1, <1>7, <1>8
<1>10. top + 1 \in kept
  <2> DEFINE shift == [p \in kept |-> p - 1]
  <2>1. shift \in [kept -> m.allowed]
    OBVIOUS
  <2>2. \A p, q \in kept : shift[p] = shift[q] => p = q
    BY <1>3
  <2>3. shift \in Injection(kept, m.allowed)
    BY <2>1, <2>2 DEF Injection, IsInjective
  <2>4. shift \in Surjection(kept, m.allowed)
    BY <1>1, <1>6, <2>3, FS_Injection
  <2>5. PICK p \in kept : shift[p] = top
    BY <1>8, <2>4 DEF Surjection
  <2>6. p = top + 1
    BY <1>3, <1>9, <2>5
  <2> QED
    BY <2>5, <2>6
<1>11. cpus[top + 1] > top
  <2>1. top + 1 \in 1 .. n
    BY <1>10
  <2> QED
    BY <1>1, <1>9, <2>1, PositionsOfCpus DEF cpus
<1>12. cpus[top + 1] \notin m.allowed
  <2>1. ASSUME cpus[top + 1] \in m.allowed PROVE FALSE
    <3>1. cpus[top + 1] \in Nat /\ cpus[top + 1] <= top
      BY <1>1, <1>8, <2>1
    <3> QED
      BY <1>9, <1>11, <3>1
  <2> QED
    BY <2>1
<1>13. PICK k \in 1 .. Cardinality(kept) : places[k] = top + 1
  BY <1>3, <1>10, InOrderReaches DEF places
<1> HIDE DEF kept
<1>14. k \in DOMAIN AvailableCpus(m) /\ AvailableCpus(m)[k] = cpus[top + 1]
  BY <1>5, <1>13
<1> QED
  BY <1>12, <1>14

-----------------------------------------------------------------------------
(* The places of the threads.                                              *)
PinnedOf(T) == {t \in T : cpu[t] # NoCpu}

NobodyPinned == PinnedOf(Threads \cup {"receiver"}) = {}
OnlyMain == PinnedOf(Threads) = {Main}
AllPinned == PinnedOf(Threads) = Threads

\* The two placements of the threads.
ProducersFirst == PinnedOf(Consumers) = {} \/ PinnedOf(Producers) = Producers
InTurns == Cardinality(PinnedOf(Producers)) - Cardinality(PinnedOf(Consumers)) \in {0, 1}

PlacementInv ==
  \/ OnlyMain
  \/ AllPinned
  \/ At("throughput") /\ ProducersFirst
  \/ At("alternative") /\ InTurns

\* The threads that share a queue are on the first CPUs, the main thread on the
\* very first, and the receiver of the ping-pong is on another.
PlacesInv ==
  /\ CpusOf(machine, hw_thread_ids)
  /\ cpu2 \in Nat /\ 1 <= cpu2 /\ cpu2 < Len(hw_thread_ids)
  /\ cpu[Main] = hw_thread_ids[1]
  /\ n_threads <= Len(hw_thread_ids)
  /\ \A t \in PinnedOf(Threads) : \E k \in 1 .. n_threads : cpu[t] = hw_thread_ids[k]
  /\ \A t, u \in PinnedOf(Threads) : cpu[t] = cpu[u] => t = u
  /\ cpu["receiver"] # NoCpu =>
       PingPongOf # {} /\ \E k \in 2 .. Len(hw_thread_ids) : cpu["receiver"] = hw_thread_ids[k]

PlaysIn(p) == \E k \in DOMAIN p : p[k] \in PingPongs

\* Before the CPUs are looked up, and after.
NotStarted ==
  /\ plan # << >> /\ Head(plan) = "startup" /\ MainsOrder(Tail(plan))
  /\ machine \in Machines /\ cpu2 = 1 /\ NobodyPinned

Underway ==
  /\ MainsOrder(plan)
  /\ PlacesInv
  /\ PlacementInv
  /\ EnoughCpus \/ OnlyMain
  /\ PlaysIn(plan) => OnlyMain

CpuInv ==
  /\ cpu \in [Threads \cup {"receiver"} -> Int]
  /\ stage \in [Threads -> {"start", "countdown", "run", "done"}]
  /\ \/ program = "stress" /\ plan \in {<<"stress">>, << >>} /\ NobodyPinned
     \/ /\ program = "throughput"
        /\ \A t \in Threads : stage[t] # "start" => cpu[t] # NoCpu
        /\ (plan = <<"threw">> /\ NobodyPinned) \/ NotStarted \/ Underway

\* The CPUs are then different, and allowed.
LEMMA PlacesApart == ASSUME IsFiniteSet(Threads), CpuInv PROVE ThreadsApart
<1> SUFFICES ASSUME NEW t \in DOMAIN cpu, NEW u \in DOMAIN cpu, cpu[t] # NoCpu
             PROVE  /\ t # u => cpu[t] # cpu[u]
                    /\ ~Gaps(machine) => cpu[t] \in machine.allowed
  BY DEF ThreadsApart
<1>1. DOMAIN cpu = Threads \cup {"receiver"}
  BY DEF CpuInv
<1>2. Underway
  BY <1>1 DEF CpuInv, NobodyPinned, PinnedOf, NotStarted
<1> DEFINE hw == hw_thread_ids
<1>3. /\ \A j, k \in 1 .. Len(hw) : hw[j] = hw[k] => j = k
      /\ ~Gaps(machine) => \A k \in 1 .. Len(hw) : hw[k] \in machine.allowed
      /\ Len(hw) \in Nat /\ Len(hw) > 1 /\ n_threads <= Len(hw)
      /\ cpu[Main] = hw[1]
      /\ \A x \in PinnedOf(Threads) : \E k \in 1 .. n_threads : cpu[x] = hw[k]
      /\ \A x, y \in PinnedOf(Threads) : cpu[x] = cpu[y] => x = y
      /\ cpu["receiver"] # NoCpu =>
           PingPongOf # {} /\ \E k \in 2 .. Len(hw) : cpu["receiver"] = hw[k]
  BY <1>2 DEF Underway, PlacesInv, CpusOf
<1>4. n_threads \in Nat
  BY FS_Subset, FS_CardinalityType DEF n_threads
<1>5. PingPongOf # {} => OnlyMain
  <2>1. plan # << >> /\ Head(plan) \in PingPongs => PlaysIn(plan)
    BY <1>2 DEF Underway, MainsOrder, PlaysIn
  <2> QED
    BY <1>2, <2>1 DEF PingPongOf, At, Underway, PingPongs
<1> HIDE DEF hw
<1>6. \A x \in PinnedOf(Threads) : \E k \in 1 .. Len(hw) : cpu[x] = hw[k]
  BY <1>3, <1>4
<1>7. ASSUME NEW x \in PinnedOf(Threads), cpu["receiver"] # NoCpu PROVE cpu[x] # cpu["receiver"]
  <2>1. cpu[x] = hw[1]
    BY <1>3, <1>5, <1>7 DEF OnlyMain
  <2> QED
    BY <1>3, <1>7, <2>1
<1>8. \A x \in {t, u} : cpu[x] # NoCpu => x \in PinnedOf(Threads) \/ x = "receiver"
  BY <1>1 DEF PinnedOf
<1>9. cpu[u] = cpu[t] => t = u
  BY <1>3, <1>7, <1>8
<1>10. \E k \in 1 .. Len(hw) : cpu[t] = hw[k]
  BY <1>3, <1>6, <1>8
<1> QED
  BY <1>3, <1>9, <1>10

\* What main does first of a plan, and what is left.
LEMMA PlanFirst ==
  ASSUME NEW p, MainsOrder(p), p # << >>
  PROVE  /\ Head(p) \in PingPongs \cup Measures
         /\ MainsOrder(Tail(p))
         /\ PlaysIn(Tail(p)) => PlaysIn(p)
         /\ PlaysIn(p) <=> Head(p) \in PingPongs
<1>1. /\ p \in Seq(PingPongs \cup Measures) /\ Head(p) = p[1] /\ 1 \in DOMAIN p
      /\ DOMAIN p = 1 .. Len(p) /\ Len(p) \in Nat /\ Len(p) > 0
      /\ Tail(p) \in Seq(PingPongs \cup Measures)
      /\ DOMAIN Tail(p) = 1 .. Len(p) - 1
      /\ \A k \in 1 .. Len(p) - 1 : Tail(p)[k] = p[k + 1]
  BY DEF MainsOrder
<1>2. MainsOrder(Tail(p))
  <2>1. ASSUME NEW j \in DOMAIN Tail(p), NEW k \in DOMAIN Tail(p), j < k, Tail(p)[k] \in PingPongs
        PROVE  Tail(p)[j] \in PingPongs
    <3>1. j + 1 \in DOMAIN p /\ k + 1 \in DOMAIN p /\ j + 1 < k + 1
      BY <1>1, <2>1
    <3> QED
      BY <1>1, <2>1, <3>1 DEF MainsOrder
  <2> QED
    BY <1>1, <2>1 DEF MainsOrder
<1>3. PlaysIn(Tail(p)) => PlaysIn(p)
  <2> SUFFICES ASSUME NEW k \in DOMAIN Tail(p), Tail(p)[k] \in PingPongs PROVE PlaysIn(p)
    BY DEF PlaysIn
  <2>1. k + 1 \in DOMAIN p /\ p[k + 1] \in PingPongs
    BY <1>1
  <2> QED
    BY <2>1 DEF PlaysIn
<1>4. PlaysIn(p) <=> Head(p) \in PingPongs
  <2>1. ASSUME NEW k \in DOMAIN p, p[k] \in PingPongs PROVE p[1] \in PingPongs
    BY <1>1, <2>1 DEF MainsOrder
  <2> QED
    BY <1>1, <2>1 DEF PlaysIn
<1> QED
  BY <1>1, <1>2, <1>3, <1>4

\* What is under way of a plan in main's order.
LEMMA PhasesApart ==
  ASSUME MainsOrder(plan)
  PROVE  /\ PingPongOf # {} <=> plan # << >> /\ Head(plan) \in PingPongs
         /\ Throughput <=> plan # << >> /\ Head(plan) \in Measures
         /\ PlaysIn(plan) <=> PingPongOf # {}
         /\ ~(Throughput /\ PingPongOf # {})
         /\ ~At("startup") /\ ~At("stress") /\ plan # <<"threw">> /\ plan # <<"stress">>
<1>1. plan = << >> => ~PlaysIn(plan)
  BY DEF PlaysIn
<1>2. PingPongOf # {} <=> plan # << >> /\ Head(plan) \in PingPongs
  BY DEF PingPongOf, At, PingPongs
<1>3. Throughput <=> plan # << >> /\ Head(plan) \in Measures
  BY DEF Throughput, At, Measures
<1>4. plan # << >> => Head(plan) \in PingPongs \cup Measures /\ (PlaysIn(plan) <=> Head(plan) \in PingPongs)
  BY PlanFirst
<1>5. \A x : <<x>> # << >> /\ Head(<<x>>) = x
  OBVIOUS
<1>6. plan # << >> => Head(plan) \notin {"startup", "stress", "threw"}
  BY <1>4 DEF PingPongs, Measures
<1>7. PingPongs \cap Measures = {}
  BY DEF PingPongs, Measures
<1> QED
  BY <1>1, <1>2, <1>3, <1>4, <1>5, <1>6, <1>7 DEF At

-----------------------------------------------------------------------------
\* Two sides of threads are counted one by one.
LEMMA TwoSides ==
  ASSUME NEW S, NEW T, IsFiniteSet(S), IsFiniteSet(T), S \cap T = {}
  PROVE  /\ Cardinality(S) \in Nat /\ Cardinality(T) \in Nat
         /\ Cardinality(S \cup T) = Cardinality(S) + Cardinality(T)
<1>1. Cardinality(S) \in Nat /\ Cardinality(T) \in Nat
  BY FS_CardinalityType
<1>2. Cardinality(S \cup T) = Cardinality(S) + Cardinality(T) - Cardinality(S \cap T)
  BY FS_Union
<1>3. Cardinality(S \cap T) = 0
  BY FS_EmptySet
<1> QED
  BY <1>1, <1>2, <1>3

\* A side of which not all threads are pinned has fewer of them.
LEMMA SideLeft ==
  ASSUME NEW S, IsFiniteSet(S)
  PROVE  /\ Cardinality(PinnedOf(S)) <= Cardinality(S) /\ IsFiniteSet(PinnedOf(S))
         /\ Cardinality(PinnedOf(S)) < Cardinality(S) <=> \E t \in S : cpu[t] = NoCpu
<1>1. PinnedOf(S) \in SUBSET S
  BY DEF PinnedOf
<1>2. /\ IsFiniteSet(PinnedOf(S)) /\ Cardinality(PinnedOf(S)) <= Cardinality(S)
      /\ Cardinality(S) = Cardinality(PinnedOf(S)) => S = PinnedOf(S)
  BY <1>1, FS_Subset
<1>3. Cardinality(S) \in Nat /\ Cardinality(PinnedOf(S)) \in Nat
  BY <1>2, FS_CardinalityType
<1>4. S = PinnedOf(S) <=> ~\E t \in S : cpu[t] = NoCpu
  BY DEF PinnedOf
<1> QED
  BY <1>2, <1>3, <1>4

\* Each placement finds a thread of the side whose turn it is, and keeps to it.
Fits(t) ==
  /\ t \in Threads /\ cpu[t] = NoCpu
  /\ At("throughput") =>
       IF t \in Producers THEN PinnedOf(Consumers) = {} ELSE PinnedOf(Producers) = Producers
  /\ At("alternative") =>
       Cardinality(PinnedOf(Producers)) - Cardinality(PinnedOf(Consumers)) =
         IF t \in Producers THEN 0 ELSE 1

\* The thread that main creates next fits those it has created.
LEMMA NextFits ==
  ASSUME IsFiniteSet(Threads), Cardinality(Producers) = Cardinality(Consumers),
         PlacementInv, cpu[Main] # NoCpu, Throughput, n_threads < Cardinality(Threads)
  PROVE  Fits(NextThread)
<1> DEFINE P == PinnedOf(Producers)
           C == PinnedOf(Consumers)
           p == Cardinality(P)
           c == Cardinality(C)
<1>1. /\ IsFiniteSet(Producers) /\ IsFiniteSet(Consumers)
      /\ Producers \cap Consumers = {} /\ Threads = Producers \cup Consumers
      /\ Main \in Producers
  <2>1. Producers \in SUBSET Threads /\ Consumers \in SUBSET Threads
    BY DEF Threads
  <2> QED
    BY <2>1, FS_Subset, ThreadsAssumption, MainAssumption DEF Threads
<1>2. /\ p <= Cardinality(Producers) /\ IsFiniteSet(P)
      /\ p < Cardinality(Producers) <=> \E t \in Producers : cpu[t] = NoCpu
  BY <1>1, SideLeft
<1>3. /\ c <= Cardinality(Consumers) /\ IsFiniteSet(C)
      /\ c < Cardinality(Consumers) <=> \E t \in Consumers : cpu[t] = NoCpu
  BY <1>1, SideLeft
<1>4. /\ Cardinality(Producers) \in Nat /\ Cardinality(Consumers) \in Nat
      /\ Cardinality(Threads) = Cardinality(Producers) + Cardinality(Consumers)
  BY <1>1, TwoSides
<1>5. PinnedOf(Threads) = P \cup C /\ P \cap C = {} /\ n_threads = Cardinality(PinnedOf(Threads))
  BY <1>1 DEF PinnedOf, n_threads
<1>6. p \in Nat /\ c \in Nat /\ n_threads = p + c
  <2>1. p \in Nat /\ c \in Nat /\ Cardinality(P \cup C) = p + c
    BY <1>2, <1>3, <1>5, TwoSides
  <2> QED
    BY <1>5, <2>1
<1>7. ~AllPinned
  <2>1. AllPinned => n_threads = Cardinality(Threads)
    BY <1>5 DEF AllPinned
  <2>2. Cardinality(Threads) \in Nat
    BY FS_CardinalityType
  <2> QED
    BY <2>1, <2>2
<1>8. OnlyMain => P = {Main} /\ C = {} /\ p = 1 /\ c = 0
  <2>1. OnlyMain => P = {Main} /\ C = {}
    BY <1>1, <1>5 DEF OnlyMain, PinnedOf
  <2> QED
    BY <2>1, FS_EmptySet, FS_Singleton
<1>9. ~(At("throughput") /\ At("alternative"))
  BY DEF At
<1>10. At("throughput") => C = {} \/ P = Producers
  BY <1>7, <1>8, <1>9 DEF PlacementInv, ProducersFirst
<1>11. At("alternative") => p - c \in {0, 1}
  <2>1. 1 - 0 \in {0, 1}
    OBVIOUS
  <2> QED
    BY <1>7, <1>8, <1>9, <2>1 DEF PlacementInv, InTurns
<1>12. (C = {} => c = 0) /\ (P = Producers => p = Cardinality(Producers))
  BY FS_EmptySet
<1> HIDE DEF P, C, p, c
<1>13. ASSUME NEW side, \E t \in side : cpu[t] = NoCpu
       PROVE  (CHOOSE t \in side : cpu[t] = NoCpu) \in side
              /\ cpu[CHOOSE t \in side : cpu[t] = NoCpu] = NoCpu
  BY <1>13
<1>14. CASE At("throughput")
  <2>1. CASE n_threads < Cardinality(Producers)
    <3>1. (\E t \in Producers : cpu[t] = NoCpu) /\ C = {}
      BY <1>2, <1>4, <1>6, <1>10, <1>12, <1>14, <2>1
    <3>2. NextThread = CHOOSE t \in Producers : cpu[t] = NoCpu
      BY <1>9, <1>14, <2>1 DEF NextThread
    <3>3. NextThread \in Producers /\ cpu[NextThread] = NoCpu
      BY <1>13, <3>1, <3>2
    <3> QED
      BY <1>1, <1>9, <1>14, <3>1, <3>3 DEF Fits, C
  <2>2. CASE ~(n_threads < Cardinality(Producers))
    <3>1. P = Producers
      <4>1. CASE C = {}
        <5>1. ~(p < Cardinality(Producers))
          BY <1>4, <1>6, <1>12, <2>2, <4>1
        <5> QED
          BY <1>2, <5>1 DEF P, PinnedOf
      <4> QED
        BY <1>10, <1>14, <4>1
    <3>2. \E t \in Consumers : cpu[t] = NoCpu
      BY <1>3, <1>4, <1>6, <1>12, <3>1
    <3>3. NextThread = CHOOSE t \in Consumers : cpu[t] = NoCpu
      BY <1>9, <1>14, <2>2 DEF NextThread
    <3>4. NextThread \in Consumers /\ cpu[NextThread] = NoCpu
      BY <1>13, <3>2, <3>3
    <3> QED
      BY <1>1, <1>9, <1>14, <3>1, <3>4 DEF Fits, P
  <2> QED
    BY <2>1, <2>2
<1>15. CASE At("alternative")
  <2>1. CASE n_threads % 2 = 0
    <3>1. p - c = 0 /\ p < Cardinality(Producers)
      BY <1>4, <1>6, <1>11, <1>15, <2>1
    <3>2. NextThread = CHOOSE t \in Producers : cpu[t] = NoCpu
      BY <1>15, <2>1 DEF NextThread
    <3>3. NextThread \in Producers /\ cpu[NextThread] = NoCpu
      BY <1>2, <1>13, <3>1, <3>2
    <3> QED
      BY <1>1, <1>9, <1>15, <3>1, <3>3 DEF Fits, p, c, P, C
  <2>2. CASE n_threads % 2 # 0
    <3>1. p - c = 1 /\ c < Cardinality(Consumers)
      BY <1>4, <1>6, <1>11, <1>15, <2>2
    <3>2. NextThread = CHOOSE t \in Consumers : cpu[t] = NoCpu
      BY <1>15, <2>2 DEF NextThread
    <3>3. NextThread \in Consumers /\ cpu[NextThread] = NoCpu
      BY <1>3, <1>13, <3>1, <3>2
    <3> QED
      BY <1>1, <1>9, <1>15, <3>1, <3>3 DEF Fits, p, c, P, C
  <2> QED
    BY <2>1, <2>2
<1> QED
  BY <1>14, <1>15 DEF Throughput

\* What the invariant says while main benchmarks.
Benchmarking ==
  /\ cpu \in [Threads \cup {"receiver"} -> Int]
  /\ stage \in [Threads -> {"start", "countdown", "run", "done"}]
  /\ program = "throughput"
  /\ \A t \in Threads : stage[t] # "start" => cpu[t] # NoCpu
  /\ Underway

\* A new thread gets a CPU of its own.
LEMMA CreateStep ==
  ASSUME IsFiniteSet(Threads), Paired, Benchmarking, CreateThread PROVE Benchmarking'
<1> DEFINE hw == hw_thread_ids
           n == n_threads
           t == NextThread
           was == PinnedOf(Threads)
           now == PinnedOf(Threads)'
<1>1. /\ Throughput /\ EnoughCpus /\ n < Cardinality(Threads)
      /\ cpu' = [cpu EXCEPT ![t] = hw[n + 1]]
      /\ UNCHANGED <<machine, hw_thread_ids, plan, cpu2, program, stage>>
  BY DEF CreateThread, Pinned, harnessVars
<1>2. /\ cpu \in [Threads \cup {"receiver"} -> Int]
      /\ stage \in [Threads -> {"start", "countdown", "run", "done"}]
      /\ program = "throughput"
      /\ \A u \in Threads : stage[u] # "start" => cpu[u] # NoCpu
      /\ MainsOrder(plan) /\ PlacementInv
      /\ CpusOf(machine, hw)
      /\ cpu2 \in Nat /\ 1 <= cpu2 /\ cpu2 < Len(hw)
      /\ cpu[Main] = hw[1]
      /\ \A x \in was : \E k \in 1 .. n : cpu[x] = hw[k]
      /\ \A x, y \in was : cpu[x] = cpu[y] => x = y
      /\ cpu["receiver"] # NoCpu => PingPongOf # {}
  BY DEF Benchmarking, Underway, PlacesInv
<1>3. PingPongOf = {} /\ ~PlaysIn(plan) /\ cpu["receiver"] = NoCpu
  BY <1>1, <1>2, PhasesApart
<1>4. /\ hw \in Seq(Nat) /\ Len(hw) \in Nat
      /\ \A j, k \in 1 .. Len(hw) : hw[j] = hw[k] => j = k
      /\ \A k \in 1 .. Len(hw) : hw[k] \in Nat
  BY <1>2 DEF CpusOf
<1>5. Fits(t)
  <2>1. Cardinality(Producers) = Cardinality(Consumers)
    BY <1>2 DEF Paired
  <2>2. cpu[Main] # NoCpu
    BY <1>2, <1>4 DEF NoCpu
  <2> QED
    BY <1>1, <1>2, <2>1, <2>2, NextFits
<1>6. n \in Nat /\ n + 1 \in 1 .. Len(hw) /\ Cardinality(Threads) \in Nat
  <2>1. n \in Nat /\ Cardinality(Threads) \in Nat
    BY FS_Subset, FS_CardinalityType DEF n_threads
  <2>2. Cardinality(Threads) <= Len(hw)
    BY <1>1 DEF EnoughCpus
  <2> QED
    BY <1>1, <1>4, <2>1, <2>2
<1>7. hw[n + 1] \in Nat /\ hw[n + 1] # NoCpu
  BY <1>4, <1>6 DEF NoCpu
<1>8. t \in Threads /\ cpu[t] = NoCpu /\ t \notin was /\ t # "receiver" /\ Main \in Threads
  BY <1>5, ReceiverAssumption, MainAssumption DEF Fits, PinnedOf, Threads
<1> HIDE DEF t, n, hw
<1>9. \A u \in Threads \cup {"receiver"} : cpu'[u] = IF u = t THEN hw[n + 1] ELSE cpu[u]
  BY <1>1, <1>2, <1>8
<1>10. now = was \cup {t}
  BY <1>7, <1>8, <1>9 DEF PinnedOf
<1>11. n_threads' = n + 1
  <2>1. IsFiniteSet(was) /\ n = Cardinality(was)
    BY FS_Subset DEF PinnedOf, n_threads, n
  <2>2. Cardinality(was \cup {t}) = n + 1
    <3>1. t \notin was
      BY <1>8
    <3> HIDE DEF was
    <3> QED
      BY ONLY <2>1, <3>1, FS_AddElement
  <2>3. n_threads' = Cardinality(now)
    BY DEF n_threads, PinnedOf
  <2> QED
    BY <1>10, <2>2, <2>3
<1> HIDE DEF was, now
<1>12. cpu'[Main] = hw[1] /\ cpu'["receiver"] = NoCpu
  <2>1. 1 \in 1 .. Len(hw) /\ cpu[Main] = hw[1]
    BY <1>2, <1>6
  <2>2. cpu[Main] # NoCpu
    BY <1>4, <2>1 DEF NoCpu
  <2>3. t # Main /\ t # "receiver" /\ Main \in Threads
    BY <1>8, <2>2
  <2> QED
    BY <1>3, <1>9, <2>1, <2>3
<1>13. \A x \in now : \E k \in 1 .. n + 1 : cpu'[x] = hw[k]
  <2>1. \A x \in was : \E k \in 1 .. n + 1 : cpu[x] = hw[k]
    BY <1>2, <1>6
  <2>2. \A x \in was : x \in Threads /\ x # t
    BY <1>8 DEF was, PinnedOf
  <2>3. n + 1 \in 1 .. n + 1
    BY <1>6
  <2> QED
    BY <1>8, <1>9, <1>10, <2>1, <2>2, <2>3
<1>14. \A x, y \in now : cpu'[x] = cpu'[y] => x = y
  <2>1. \A x \in was : x \in Threads /\ x # t
    BY <1>8 DEF was, PinnedOf
  <2>2. \A x \in was : cpu'[x] = cpu[x]
    BY <1>9, <2>1
  <2>3. \A x \in was : cpu[x] # hw[n + 1]
    BY <1>2, <1>4, <1>6
  <2>4. cpu'[t] = hw[n + 1]
    BY <1>8, <1>9
  <2> QED
    BY <1>2, <1>10, <2>2, <2>3, <2>4
<1>15. PlacesInv'
  <2>1. Len(hw)' = Len(hw) /\ hw' = hw
    BY <1>1 DEF hw
  <2> QED
    BY <1>1, <1>2, <1>6, <1>11, <1>12, <1>13, <1>14, <2>1 DEF PlacesInv, now, hw
<1>16. PlacementInv'
  <2> DEFINE P == PinnedOf(Producers)
             C == PinnedOf(Consumers)
  <2>1. /\ IsFiniteSet(P) /\ Cardinality(P) \in Nat
        /\ IsFiniteSet(C) /\ Cardinality(C) \in Nat
    <3>1. P \in SUBSET Threads /\ C \in SUBSET Threads
      BY DEF PinnedOf, Threads
    <3> QED
      BY <3>1, FS_Subset, FS_CardinalityType
  <2>2. CASE t \in Producers
    <3>1. P' = P \cup {t} /\ C' = C /\ t \notin P
      BY <1>7, <1>8, <1>9, <2>2, ThreadsAssumption DEF PinnedOf, Threads
    <3>2. At("throughput") => ProducersFirst'
      BY <1>5, <2>2, <3>1 DEF Fits, ProducersFirst
    <3>3. Cardinality(P') = Cardinality(P) + 1
      BY <2>1, <3>1, FS_AddElement
    <3>4. At("alternative") => Cardinality(P') - Cardinality(C') = 1
      <4>1. At("alternative") => Cardinality(P) - Cardinality(C) = 0
        BY <1>5, <2>2 DEF Fits
      <4> QED
        BY <2>1, <3>1, <3>3, <4>1
    <3>5. At("alternative") => InTurns'
      BY <3>4 DEF InTurns
    <3> QED
      BY <1>1, <3>2, <3>5 DEF PlacementInv, Throughput, At
  <2>3. CASE t \in Consumers
    <3>1. C' = C \cup {t} /\ P' = P /\ t \notin C /\ t \notin Producers
      BY <1>7, <1>8, <1>9, <2>3, ThreadsAssumption DEF PinnedOf, Threads
    <3>2. At("throughput") => ProducersFirst'
      BY <1>5, <3>1 DEF Fits, ProducersFirst
    <3>3. Cardinality(C') = Cardinality(C) + 1
      BY <2>1, <3>1, FS_AddElement
    <3>4. At("alternative") => Cardinality(P') - Cardinality(C') = 0
      <4>1. At("alternative") => Cardinality(P) - Cardinality(C) = 1
        BY <1>5, <3>1 DEF Fits
      <4> QED
        BY <2>1, <3>1, <3>3, <4>1
    <3>5. At("alternative") => InTurns'
      BY <3>4 DEF InTurns
    <3> QED
      BY <1>1, <3>2, <3>5 DEF PlacementInv, Throughput, At
  <2> QED
    BY <1>8, <2>2, <2>3 DEF Threads
<1>17. \A u \in Threads : stage'[u] # "start" => cpu'[u] # NoCpu
  BY <1>1, <1>2, <1>7, <1>9
<1>18. cpu' \in [Threads \cup {"receiver"} -> Int]
  <2>1. hw[n + 1] \in Int
    BY <1>7
  <2> QED
    BY <1>1, <1>2, <2>1
<1>19. EnoughCpus' /\ ~PlaysIn(plan')
  BY <1>1, <1>3 DEF EnoughCpus
<1> QED
  BY <1>1, <1>2, <1>15, <1>16, <1>17, <1>18, <1>19 DEF Benchmarking, Underway

\* The receiver is on another CPU than the main thread, which is alone then.
LEMMA ReceiverStep ==
  ASSUME Benchmarking, StartPingPong \/ EndPingPong PROVE Benchmarking'
<1> DEFINE hw == hw_thread_ids
<1>1. /\ PingPongOf # {}
      /\ \/ /\ cpu' = [cpu EXCEPT !["receiver"] = hw[cpu2 + 1]]
            /\ UNCHANGED <<cpu2, plan>>
         \/ /\ cpu' = [cpu EXCEPT !["receiver"] = NoCpu]
            /\ \/ cpu2' = 2 * cpu2 /\ 2 * cpu2 < Len(hw) /\ UNCHANGED plan
               \/ cpu2' = 1 /\ plan' = Tail(plan)
      /\ UNCHANGED <<machine, hw_thread_ids, program, stage>>
  BY DEF StartPingPong, EndPingPong, Pinned, harnessVars
<1>2. /\ cpu \in [Threads \cup {"receiver"} -> Int]
      /\ MainsOrder(plan) /\ CpusOf(machine, hw)
      /\ cpu2 \in Nat /\ 1 <= cpu2 /\ cpu2 < Len(hw)
      /\ PlaysIn(plan) => OnlyMain
  BY DEF Benchmarking, Underway, PlacesInv
<1>3. OnlyMain /\ plan # << >> /\ MainsOrder(Tail(plan))
  BY <1>1, <1>2, PhasesApart, PlanFirst
<1>4. Len(hw) \in Nat /\ cpu2 + 1 \in 2 .. Len(hw) /\ hw[cpu2 + 1] \in Nat
  BY <1>2 DEF CpusOf
<1>5. /\ cpu' \in [Threads \cup {"receiver"} -> Int]
      /\ \A t \in Threads : cpu'[t] = cpu[t]
  <2>1. NoCpu \in Int /\ hw[cpu2 + 1] \in Int
    BY <1>4 DEF NoCpu
  <2> QED
    BY <1>1, <1>2, <2>1, ReceiverAssumption
<1>6. /\ cpu'["receiver"] # NoCpu => plan' = plan /\ cpu'["receiver"] = hw[cpu2 + 1]
      /\ cpu2' \in Nat /\ 1 <= cpu2' /\ cpu2' < Len(hw)
  BY <1>1, <1>2, <1>4 DEF NoCpu
<1>7. PinnedOf(Threads)' = PinnedOf(Threads) /\ n_threads' = n_threads
  BY <1>5 DEF PinnedOf, n_threads
<1>8. OnlyMain' /\ MainsOrder(plan')
  BY <1>1, <1>2, <1>3, <1>7 DEF OnlyMain
<1>9. PlacesInv'
  <2>1. cpu'["receiver"] # NoCpu => PingPongOf' # {}
    BY <1>1, <1>6 DEF PingPongOf, At
  <2>2. Main \in Threads /\ PinnedOf(Threads) \in SUBSET Threads
    BY MainAssumption DEF Threads, PinnedOf
  <2> QED
    BY <1>1, <1>4, <1>5, <1>6, <1>7, <2>1, <2>2 DEF Benchmarking, Underway, PlacesInv
<1> QED
  BY <1>1, <1>5, <1>8, <1>9 DEF Benchmarking, Underway, PlacementInv

\* What a thread does by itself pins nobody.
LEMMA WorkPinsNobody ==
  ASSUME CpuInv, NEW t \in Threads, Work(t)
  PROVE  /\ program' = program
         /\ stage' \in [Threads -> {"start", "countdown", "run", "done"}]
         /\ \A u \in Threads \ {t} : stage'[u] = stage[u]
BY DEF CpuInv, Work, Countdown, Leave, JoinProducers, Produce, Consume, Enter

\* The joins come when all threads have been created, or none.
LEMMA JoinStep ==
  ASSUME Benchmarking, JoinAll PROVE Benchmarking'
<1>1. /\ plan' = Tail(plan)
      /\ UNCHANGED <<machine, hw_thread_ids, cpu2, cpu, program, stage>>
  BY DEF JoinAll, harnessVars
<1>2. MainsOrder(plan) /\ ~At("stress")
  BY PhasesApart DEF Benchmarking, Underway
<1>3. Throughput /\ (Finished \/ ~EnoughCpus)
  BY <1>2 DEF JoinAll
<1>4. plan # << >> /\ PingPongOf = {} /\ ~PlaysIn(plan)
  BY <1>2, <1>3, PhasesApart
<1>5. MainsOrder(plan') /\ ~PlaysIn(plan')
  BY <1>1, <1>2, <1>4, PlanFirst
<1>6. PinnedOf(Threads)' = PinnedOf(Threads)
  BY <1>1 DEF PinnedOf
<1>7. AllPinned \/ OnlyMain
  <2>1. Finished => AllPinned
    BY DEF Finished, Benchmarking, AllPinned, PinnedOf
  <2> QED
    BY <1>3, <2>1 DEF Benchmarking, Underway
<1>8. PlacementInv' /\ (EnoughCpus \/ OnlyMain)'
  BY <1>1, <1>6, <1>7 DEF Benchmarking, Underway, PlacementInv, OnlyMain, AllPinned, EnoughCpus
<1>9. PlacesInv'
  <2>1. PlacesInv /\ cpu["receiver"] = NoCpu
    BY <1>4 DEF Benchmarking, Underway, PlacesInv
  <2>2. UNCHANGED <<machine, hw_thread_ids, cpu2, cpu>>
    BY <1>1
  <2>3. n_threads' = n_threads
    BY ONLY <2>2 DEF n_threads, PinnedOf
  <2>4. CpusOf(machine, hw_thread_ids)'
    BY ONLY <2>1, <2>2 DEF PlacesInv, CpusOf
  <2> QED
    BY ONLY <1>6, <2>1, <2>2, <2>3, <2>4 DEF PlacesInv
<1> QED
  BY <1>1, <1>5, <1>8, <1>9 DEF Benchmarking, Underway

\* The CPUs are looked up, and the main thread takes the first.
LEMMA StartUpStep ==
  ASSUME CpuInv, StartUp PROVE CpuInv'
<1>1. At("startup") /\ UNCHANGED <<machine, cpu2, program, stage>>
  BY DEF StartUp, harnessVars
<1>2. \A x : <<x>> # << >> /\ Head(<<x>>) = x
  OBVIOUS
<1>3. program = "throughput" /\ NotStarted
  BY <1>1, <1>2, PhasesApart DEF CpuInv, At, Underway
<1>4. /\ cpu \in [Threads \cup {"receiver"} -> Int]
      /\ stage \in [Threads -> {"start", "countdown", "run", "done"}]
      /\ \A t \in Threads : stage[t] # "start" => cpu[t] # NoCpu
      /\ \A t \in Threads \cup {"receiver"} : cpu[t] = NoCpu
      /\ MainsOrder(Tail(plan)) /\ machine \in Machines /\ cpu2 = 1
  BY <1>3 DEF CpuInv, NotStarted, NobodyPinned, PinnedOf
<1>5. CASE Unusable(machine)
  <2>1. plan' = <<"threw">> /\ cpu' = cpu
    BY <1>5 DEF StartUp
  <2> QED
    BY <1>1, <1>3, <1>4, <2>1 DEF CpuInv, NobodyPinned, PinnedOf
<1>6. CASE ~Unusable(machine)
  <2> DEFINE hw == AvailableCpus(machine)
  <2>1. /\ plan' = Tail(plan) /\ hw_thread_ids' = hw
        /\ cpu' = [cpu EXCEPT ![Main] = hw_thread_ids'[1]]
    BY <1>6 DEF StartUp
  <2>2. CpusOf(machine, hw)
    BY <1>4, CpusDiffer
  <2>3. Len(hw) \in Nat /\ 1 < Len(hw) /\ 1 \in 1 .. Len(hw) /\ hw[1] \in Nat /\ hw[1] # NoCpu
    <3>1. ~(Len(hw) < 2)
      BY <1>6 DEF Unusable, TooFewCpus
    <3> QED
      BY <2>2, <3>1 DEF CpusOf, NoCpu
  <2> HIDE DEF hw
  <2>4. Main \in Threads /\ Main # "receiver"
    BY MainAssumption, ReceiverAssumption DEF Threads
  <2>5. /\ cpu' \in [Threads \cup {"receiver"} -> Int]
        /\ \A t \in Threads \cup {"receiver"} : cpu'[t] = IF t = Main THEN hw[1] ELSE NoCpu
    <3>1. hw[1] \in Int
      BY <2>3
    <3> QED
      BY <1>4, <2>1, <2>4, <3>1
  <2>6. OnlyMain'
    BY <2>3, <2>4, <2>5 DEF OnlyMain, PinnedOf
  <2>7. n_threads' = 1
    <3>1. n_threads' = Cardinality(PinnedOf(Threads)')
      BY DEF n_threads, PinnedOf
    <3> QED
      BY <2>6, <3>1, FS_Singleton DEF OnlyMain
  <2>8. \A x \in PinnedOf(Threads)' : x = Main
    BY <2>6 DEF OnlyMain
  <2>9. PlacesInv'
    <3>1. cpu'[Main] = hw[1] /\ cpu'["receiver"] = NoCpu
      BY <2>4, <2>5
    <3>2. 1 \in 1 .. 1 /\ cpu2' = 1 /\ 1 \in Nat /\ 1 <= Len(hw)
      BY <1>1, <1>4, <2>3
    <3> QED
      BY <1>1, <2>1, <2>2, <2>3, <2>7, <2>8, <3>1, <3>2 DEF PlacesInv
  <2>10. \A t \in Threads : stage'[t] = "start"
    BY <1>1, <1>4
  <2> QED
    BY <1>1, <1>3, <1>4, <2>1, <2>5, <2>6, <2>9, <2>10 DEF CpuInv, Underway, PlacementInv
<1> QED
  BY <1>5, <1>6

\* Every step keeps the threads in their places.
LEMMA CpuStep ==
  ASSUME IsFiniteSet(Threads), Paired, CpuInv, [BenchmarksNext]_allVars
  PROVE  CpuInv' /\ program' = program
<1>1. Main \in Threads
  BY MainAssumption DEF Threads
<1>2. Underway => MainsOrder(plan)
  BY DEF Underway
<1>3. \A x : <<x>> # << >> /\ Head(<<x>>) = x
  OBVIOUS
<1>4. PingPongOf # {} \/ Throughput => Benchmarking
  BY <1>3 DEF CpuInv, NotStarted, PingPongOf, PingPongs, At, Throughput, Benchmarking
<1>5. Benchmarking' => CpuInv'
  BY DEF Benchmarking, CpuInv
<1>6. CASE UNCHANGED <<mainVars, program, stage>>
  BY <1>6
     DEF mainVars, CpuInv, NobodyPinned, NotStarted, Underway, PlacesInv, PlacementInv, OnlyMain,
         AllPinned, ProducersFirst, InTurns, PinnedOf, n_threads, EnoughCpus, PingPongOf, At
<1>7. ASSUME NEW t \in Threads, Running(t) PROVE CpuInv' /\ program' = program
  <2>1. /\ program' = program
        /\ stage' \in [Threads -> {"start", "countdown", "run", "done"}]
        /\ \A u \in Threads \ {t} : stage'[u] = stage[u]
        /\ At("stress") \/ (Throughput /\ cpu[t] # NoCpu)
        /\ UNCHANGED mainVars
    BY <1>7, WorkPinsNobody DEF Running
  <2>2. program = "throughput" => ~At("stress")
    BY <1>2, <1>3, PhasesApart DEF CpuInv, NotStarted, At
  <2>3. /\ Underway => Underway'
        /\ NobodyPinned => NobodyPinned'
        /\ NotStarted => NotStarted'
    BY <2>1
       DEF mainVars, NobodyPinned, NotStarted, Underway, PlacesInv, PlacementInv, OnlyMain,
           AllPinned, ProducersFirst, InTurns, PinnedOf, n_threads, EnoughCpus, PingPongOf, At
  <2>4. /\ program = "throughput" /\ (\A u \in Threads : stage[u] # "start" => cpu[u] # NoCpu)
             => \A u \in Threads : stage'[u] # "start" => cpu'[u] # NoCpu
        /\ cpu' = cpu /\ plan' = plan
    BY <2>1, <2>2 DEF mainVars
  <2> QED
    BY <2>1, <2>3, <2>4 DEF CpuInv
<1>8. ASSUME NEW s, Play(s) PROVE CpuInv' /\ program' = program
  <2>1. UNCHANGED <<mainVars, program, stage>>
    BY <1>8 DEF Play, harnessVars
  <2> QED
    BY <1>6, <2>1
<1>9. CASE StartUp
  BY <1>9, StartUpStep DEF StartUp, harnessVars
<1>10. CASE StartPingPong \/ EndPingPong
  <2>1. PingPongOf # {} /\ program' = program
    BY <1>10 DEF StartPingPong, EndPingPong, harnessVars
  <2> QED
    BY <1>4, <1>5, <1>10, <2>1, ReceiverStep
<1>11. CASE CreateThread
  <2>1. Throughput /\ program' = program
    BY <1>11 DEF CreateThread, harnessVars
  <2> QED
    BY <1>4, <1>5, <1>11, <2>1, CreateStep
<1>12. CASE JoinAll
  <2>1. program' = program /\ plan' = Tail(plan) /\ UNCHANGED <<cpu, stage>>
    BY <1>12 DEF JoinAll, harnessVars
  <2>2. CASE program = "stress"
    <3>1. plan = <<"stress">>
      BY <1>12, <2>2 DEF CpuInv, JoinAll, At, Throughput
    <3>2. Tail(<<"stress">>) = << >>
      OBVIOUS
    <3> QED
      BY <2>1, <2>2, <3>1, <3>2 DEF CpuInv, NobodyPinned, PinnedOf
  <2>3. CASE program # "stress"
    <3>1. ~At("stress")
      BY <1>2, <1>3, <2>3, PhasesApart DEF CpuInv, NotStarted, At
    <3> QED
      BY <1>4, <1>5, <1>12, <2>1, <3>1, JoinStep DEF JoinAll
  <2> QED
    BY <2>2, <2>3
<1>13. CASE UNCHANGED allVars
  BY <1>6, <1>13 DEF allVars, harnessVars
<1> QED
  BY <1>1, <1>7, <1>8, <1>9, <1>10, <1>11, <1>12, <1>13
     DEF BenchmarksNext, MainThread, Others, OtherThread

\* The places of the threads, in every state of the programs.
LEMMA CpusInvariant ==
  ASSUME IsFiniteSet(Threads) PROVE BenchmarksSpec /\ Paired => []CpuInv
<1>1. BenchmarksInit => CpuInv
  <2> SUFFICES ASSUME BenchmarksInit PROVE CpuInv
    OBVIOUS
  <2>1. /\ program \in {"stress", "throughput"} /\ stage = [t \in Threads |-> "start"]
        /\ cpu = [t \in Threads \cup {"receiver"} |-> NoCpu] /\ cpu2 = 1
        /\ IF program = "stress" THEN plan = <<"stress">>
           ELSE machine \in Machines /\ plan \in {<<"startup">> \o p : p \in Plans}
    BY DEF BenchmarksInit, HarnessInit
  <2>2. NobodyPinned /\ cpu \in [Threads \cup {"receiver"} -> Int]
    BY <2>1 DEF NobodyPinned, PinnedOf, NoCpu
  <2>3. ASSUME program = "throughput" PROVE NotStarted
    <3>1. PICK p \in Plans : plan = <<"startup">> \o p
      BY <2>1, <2>3
    <3>2. MainsOrder(p) /\ p \in Seq(PingPongs \cup Measures)
      BY PlansAssumption DEF MainsOrder
    <3>3. plan # << >> /\ Head(plan) = "startup" /\ Tail(plan) = p
      BY <3>1, <3>2
    <3> QED
      BY <2>1, <2>2, <2>3, <3>2, <3>3 DEF NotStarted
  <2> QED
    BY <2>1, <2>2, <2>3 DEF CpuInv
<1>2. IsFiniteSet(Threads) /\ Paired /\ CpuInv /\ [BenchmarksNext]_allVars => (Paired /\ CpuInv)'
  <2>1. program' = program /\ Paired => Paired'
    BY DEF Paired
  <2> QED
    BY <2>1, CpuStep
<1> QED
  BY <1>1, <1>2, PTL DEF BenchmarksSpec

\* Each thread of the benchmarks has a CPU of its own, one that the process may
\* run on unless a CPU below those is offline, for any machine, any numbers of threads
\* and both placements, although pthread_create reads the CPU from a variable that
\* each new thread sets anew.
THEOREM ThreadsHaveOwnCpus ==
  ASSUME IsFiniteSet(Threads) PROVE BenchmarksSpec /\ Paired => []ThreadsApart
<1>1. CpuInv => ThreadsApart
  BY PlacesApart
<1> QED
  BY <1>1, CpusInvariant, PTL

\* What main has looked up.
LookedUp ==
  hw_thread_ids # << >> =>
    /\ machine \in Machines
    /\ ~PositionsMissing(machine)
    /\ hw_thread_ids = AvailableCpus(machine)

\* On any machine that the benchmarks do not refuse, they keep to the CPUs that the
\* process may run on unless a CPU below one of those is offline; then they use
\* another one, which get_available_cpu_topology_info has taken for it.
THEOREM MaskKeptUnlessGaps ==
  ASSUME IsFiniteSet(Threads) PROVE BenchmarksSpec /\ Paired => []AllowedCpusUnlessGaps
<1>1. BenchmarksInit => LookedUp
  BY DEF BenchmarksInit, LookedUp
<1>2. CpuInv /\ LookedUp /\ [BenchmarksNext]_allVars => LookedUp'
  <2> SUFFICES ASSUME CpuInv, LookedUp, [BenchmarksNext]_allVars PROVE LookedUp'
    OBVIOUS
  <2>1. CASE StartUp
    <3>1. At("startup") /\ machine' = machine
      BY <2>1 DEF StartUp
    <3>2. machine \in Machines
      <4>1. \A x : <<x>> # << >> /\ Head(<<x>>) = x
        OBVIOUS
      <4> QED
        BY <3>1, <4>1, PhasesApart DEF CpuInv, At, Underway, NotStarted
    <3>3. CASE Unusable(machine)
      <4>1. hw_thread_ids' = hw_thread_ids
        BY <2>1, <3>3 DEF StartUp
      <4> QED
        BY <3>1, <4>1 DEF LookedUp
    <3>4. CASE ~Unusable(machine)
      <4>1. hw_thread_ids' = AvailableCpus(machine) /\ ~PositionsMissing(machine)
        BY <2>1, <3>4 DEF StartUp, Unusable
      <4> QED
        BY <3>1, <3>2, <4>1 DEF LookedUp
    <3> QED
      BY <3>3, <3>4
  <2>2. CASE ~StartUp
    <3>1. UNCHANGED <<machine, hw_thread_ids>>
      <4>1. ASSUME NEW t, Running(t) PROVE UNCHANGED <<machine, hw_thread_ids>>
        BY <4>1 DEF Running, mainVars
      <4>2. ASSUME NEW t, Play(t) PROVE UNCHANGED <<machine, hw_thread_ids>>
        BY <4>2 DEF Play, mainVars
      <4>3. StartPingPong \/ EndPingPong \/ CreateThread \/ JoinAll => UNCHANGED <<machine, hw_thread_ids>>
        BY DEF StartPingPong, EndPingPong, CreateThread, JoinAll, mainVars
      <4>4. CASE UNCHANGED allVars
        BY <4>4 DEF allVars, mainVars
      <4> QED
        BY <2>2, <4>1, <4>2, <4>3, <4>4 DEF BenchmarksNext, MainThread, OtherThread
    <3> QED
      BY <3>1 DEF LookedUp
  <2> QED
    BY <2>1, <2>2
<1>3. LookedUp => AllowedCpusUnlessGaps
  <2> SUFFICES ASSUME LookedUp, hw_thread_ids # << >>
               PROVE  Gaps(machine) <=> \E k \in DOMAIN hw_thread_ids : hw_thread_ids[k] \notin machine.allowed
    BY DEF AllowedCpusUnlessGaps
  <2>1. machine \in Machines /\ ~PositionsMissing(machine) /\ hw_thread_ids = AvailableCpus(machine)
    BY DEF LookedUp
  <2>2. CpusOf(machine, hw_thread_ids)
    BY <2>1, CpusDiffer
  <2>3. DOMAIN hw_thread_ids = 1 .. Len(hw_thread_ids)
    BY <2>2 DEF CpusOf
  <2>4. Gaps(machine) => \E k \in DOMAIN hw_thread_ids : hw_thread_ids[k] \notin machine.allowed
    BY <2>1, GapsLeaveMask
  <2> QED
    BY <2>2, <2>3, <2>4 DEF CpusOf
<1> QED
  BY <1>1, <1>2, <1>3, CpusInvariant, PTL DEF BenchmarksSpec

-----------------------------------------------------------------------------
(* A ping-pong that never ends.                                            *)
\* Numbers alternate between odd and even on their way back and forth, so that
\* the 0 comes from the receiver.  The sender, who does not receive it, is not
\* done.
OddAndEven ==
  /\ at \in [Sides -> {"none", "start", "countdown", "push", "pop", "done"}]
  /\ ball \in [Sides -> Word]
  /\ at["sender"] # "done"
  /\ at["sender"] # "pop" => ball["sender"] % 2 = 1
  /\ at["receiver"] = "push" => ball["receiver"] % 2 = 0
  /\ q1 \in Seq({n \in Word : n % 2 = 1})
  /\ q2 \in Seq({n \in Word : n % 2 = 0})

Phases == PingPongs \cup Measures \cup {"startup", "stress", "threw"}

\* The ping-pong of AtomicQueue is under way or still to come.
ZeroInv ==
  /\ n_msg \in Word
  /\ plan \in Seq(Phases)
  /\ ReachesZero
  /\ At("AtomicQueue2") \/ OddAndEven

\* One less than an odd number is even, and one less than an even one odd.
LEMMA OneLess ==
  ASSUME NEW v \in Word
  PROVE  /\ Sub(v, 1) \in Word
         /\ v % 2 = 1 => Sub(v, 1) % 2 = 0
         /\ v % 2 = 0 /\ v # 0 => v > 1 /\ Sub(v, 1) % 2 = 1
<1>1. v \in Nat /\ v < Modulus /\ Modulus \in Nat
  BY WordNat, ModulusAssumption
<1>2. Sub(v, 1) \in Word
  BY WordArithmetic
<1>3. v # 0 => Sub(v, 1) = v - 1
  BY <1>1 DEF Sub
<1> QED
  BY <1>1, <1>2, <1>3

\* What comes out of a queue, and what goes in, is of its kind.
LEMMA KindKept ==
  ASSUME NEW S, NEW q \in Seq(S)
  PROVE  /\ q # << >> => Head(q) \in S /\ Tail(q) \in Seq(S)
         /\ \A n \in S : Append(q, n) \in Seq(S)
OBVIOUS

\* The sides keep to their kinds of numbers.
LEMMA PlayOddAndEven ==
  ASSUME OddAndEven, NEW s \in Sides, NEW nothing, 0 \in nothing,
         PingPongStep(s, nothing)
  PROVE  OddAndEven'
<1> DEFINE Odd == {n \in Word : n % 2 = 1}
           Even == {n \in Word : n % 2 = 0}
<1>1. q1 \in Seq(Odd) /\ q2 \in Seq(Even)
  BY DEF OddAndEven
<1>2. /\ q1 # << >> => Head(q1) \in Odd /\ Tail(q1) \in Seq(Odd)
      /\ q2 # << >> => Head(q2) \in Even /\ Tail(q2) \in Seq(Even)
      /\ \A n \in Odd : Append(q1, n) \in Seq(Odd)
      /\ \A n \in Even : Append(q2, n) \in Seq(Even)
  BY <1>1, KindKept
<1>3. /\ \A n \in Odd : n \in Word /\ Sub(n, 1) \in Even
      /\ \A n \in Even : n \in Word /\ (n # 0 => n > 1 /\ Sub(n, 1) \in Odd)
      /\ \A n \in Word : (n % 2 = 1 => n \in Odd) /\ (n % 2 = 0 => n \in Even)
      /\ \A n \in Odd : n % 2 = 1
      /\ \A n \in Even : n % 2 = 0
  BY OneLess
<1>4. /\ "sender" \in Sides /\ "receiver" \in Sides /\ "sender" # "receiver"
      /\ \A x \in Sides : x = "sender" \/ x = "receiver"
  BY DEF Sides
<1>5. OddAndEven' <=>
        /\ at' \in [Sides -> {"none", "start", "countdown", "push", "pop", "done"}]
        /\ ball' \in [Sides -> Word]
        /\ at'["sender"] # "done"
        /\ at'["sender"] # "pop" => ball'["sender"] % 2 = 1
        /\ at'["receiver"] = "push" => ball'["receiver"] % 2 = 0
        /\ q1' \in Seq(Odd) /\ q2' \in Seq(Even)
  BY DEF OddAndEven
<1> HIDE DEF Odd, Even
<1>6. CASE Arrive(s) \/ Depart(s)
  BY <1>1, <1>4, <1>5, <1>6 DEF Arrive, Depart, OddAndEven
<1>7. CASE SenderPush
  BY <1>1, <1>2, <1>3, <1>4, <1>5, <1>7 DEF SenderPush, Pushed, OddAndEven
<1>8. CASE SenderPop(nothing)
  <2>1. /\ q2 # << >> /\ Head(q2) # 0 /\ q2' = Tail(q2) /\ q1' = q1
        /\ ball' = [ball EXCEPT !["sender"] = Sub(Head(q2), 1)]
        /\ at' = [at EXCEPT !["sender"] = IF Head(q2) > 1 THEN "push" ELSE "done"]
    BY <1>8 DEF SenderPop, Popped
  <2>2. Head(q2) > 1 /\ Sub(Head(q2), 1) \in Odd /\ q2' \in Seq(Even) /\ q1' \in Seq(Odd)
    BY <1>1, <1>2, <1>3, <2>1
  <2>3. at' = [at EXCEPT !["sender"] = "push"] /\ Sub(Head(q2), 1) \in Word
    BY <1>3, <2>1, <2>2, OneLess
  <2> QED
    BY <1>3, <1>4, <1>5, <2>1, <2>2, <2>3 DEF OddAndEven
<1>9. CASE ReceiverPop(nothing)
  BY <1>1, <1>2, <1>3, <1>4, <1>5, <1>9 DEF ReceiverPop, Popped, OddAndEven
<1>10. CASE ReceiverPush
  BY <1>1, <1>2, <1>3, <1>4, <1>5, <1>10 DEF ReceiverPush, Pushed, OddAndEven
<1> QED
  BY <1>6, <1>7, <1>8, <1>9, <1>10 DEF PingPongStep

\* A new ping-pong starts with an odd number.
LEMMA StartedOdd ==
  ASSUME n_msg \in Word, n_msg % 2 = 1, q1 = << >>, q2 = << >>, ball = Balls,
         at = [x \in Sides |-> "none"]
  PROVE  OddAndEven
<1>1. /\ ball["sender"] = n_msg /\ at["sender"] = "none" /\ at["receiver"] = "none"
      /\ ball \in [Sides -> Word]
  BY WordNat DEF Balls, Sides
<1>2. \A S : << >> \in Seq(S)
  OBVIOUS
<1> QED
  BY <1>1, <1>2 DEF OddAndEven

\* The same after the step that ends one.
LEMMA StartsOdd ==
  ASSUME n_msg \in Word, n_msg % 2 = 1, JoinReceiver
  PROVE  OddAndEven'
<1>1. /\ q1' = << >> /\ q2' = << >> /\ ball' = Balls /\ at' = [x \in Sides |-> "none"]
  BY DEF JoinReceiver
<1>2. /\ ball'["sender"] = n_msg /\ at'["sender"] = "none" /\ at'["receiver"] = "none"
      /\ ball' \in [Sides -> Word]
  BY <1>1, WordNat DEF Balls, Sides
<1>3. \A S : << >> \in Seq(S)
  OBVIOUS
<1> QED
  BY <1>1, <1>2, <1>3 DEF OddAndEven

\* What main has still to do after the first of its plan.
LEMMA PlanGoesOn ==
  ASSUME ZeroInv, ~At("AtomicQueue")
  PROVE  Tail(plan) \in Seq(Phases) /\ \E k \in DOMAIN Tail(plan) : Tail(plan)[k] = "AtomicQueue"
<1>1. /\ plan \in Seq(Phases) /\ DOMAIN plan = 1 .. Len(plan) /\ Len(plan) \in Nat
      /\ \E k \in DOMAIN plan : plan[k] = "AtomicQueue"
  BY DEF ZeroInv, ReachesZero
<1>2. plan # << >> /\ Head(plan) = plan[1]
  BY <1>1
<1>3. /\ Tail(plan) \in Seq(Phases) /\ DOMAIN Tail(plan) = 1 .. Len(plan) - 1
      /\ \A k \in 1 .. Len(plan) - 1 : Tail(plan)[k] = plan[k + 1]
  BY <1>1, <1>2
<1>4. PICK k \in 1 .. Len(plan) : plan[k] = "AtomicQueue" /\ k # 1
  BY <1>1, <1>2 DEF At
<1>5. k - 1 \in 1 .. Len(plan) - 1 /\ (k - 1) + 1 = k
  BY <1>1, <1>4
<1> QED
  BY <1>3, <1>4, <1>5

\* The programs do not get past the ping-pong of AtomicQueue.
LEMMA ZeroStep ==
  ASSUME ZeroInv, [BenchmarksNext]_allVars
  PROVE  ZeroInv'
<1>1. /\ UNCHANGED <<n_msg, machine>> => n_msg' \in Word /\ n_msg' % 2 = 1 /\ ~Unusable(machine)'
      /\ At("AtomicQueue") => ~At("AtomicQueue2")
  BY DEF ZeroInv, ReachesZero, At
<1>2. ASSUME UNCHANGED <<machine, plan, pingPongVars>> PROVE ZeroInv'
  BY <1>2 DEF ZeroInv, ReachesZero, At, OddAndEven, pingPongVars
<1>3. ASSUME UNCHANGED <<machine, pingPongVars>>, plan' = Tail(plan), ~At("AtomicQueue"),
             ~At("AtomicQueue2")
      PROVE  ZeroInv'
  <2>1. OddAndEven'
    BY <1>3 DEF ZeroInv, OddAndEven, pingPongVars
  <2>2. ReachesZero' /\ plan' \in Seq(Phases)
    BY <1>1, <1>3, PlanGoesOn DEF ReachesZero, pingPongVars
  <2> QED
    BY <1>3, <2>1, <2>2 DEF ZeroInv, pingPongVars
<1>4. ASSUME UNCHANGED <<machine, plan>>, Serve PROVE ZeroInv'
  <2>1. UNCHANGED <<n_msg, q1, q2, ball>> /\ at' = [x \in Sides |-> "start"]
    BY <1>4 DEF Serve
  <2>2. OddAndEven => OddAndEven'
    BY <1>4, <2>1 DEF OddAndEven, Serve, Sides
  <2> QED
    BY <1>4, <2>1, <2>2 DEF ZeroInv, ReachesZero, At
<1>5. ASSUME NEW s \in Sides, Play(s) PROVE ZeroInv'
  <2>1. /\ PingPongStep(s, reserved) /\ UNCHANGED <<machine, plan, n_msg>>
        /\ PingPongOf # {}
    BY <1>5 DEF Play, mainVars, PingPongStep, Arrive, Depart, SenderPush, SenderPop,
                ReceiverPop, ReceiverPush
  <2>2. ReachesZero' /\ n_msg' \in Word /\ plan' \in Seq(Phases)
    BY <2>1 DEF ZeroInv, ReachesZero
  <2>3. CASE At("AtomicQueue")
    <3>1. 0 \in reserved /\ OddAndEven
      BY <1>1, <2>3 DEF reserved, ZeroInv
    <3>2. PICK nothing : 0 \in nothing /\ PingPongStep(s, nothing)
      BY ONLY <2>1, <3>1 DEF PingPongStep, SenderPop, ReceiverPop, Popped
    <3>3. OddAndEven'
      BY ONLY <3>1, <3>2, s \in Sides, PlayOddAndEven
    <3> QED
      BY <2>2, <3>3 DEF ZeroInv
  <2>4. CASE At("AtomicQueue2")
    <3>1. At("AtomicQueue2")'
      BY <2>1, <2>4 DEF At
    <3> QED
      BY <2>2, <3>1 DEF ZeroInv
  <2> QED
    BY <2>1, <2>3, <2>4 DEF PingPongOf, PingPongs
<1>6. ASSUME EndPingPong PROVE ZeroInv'
  <2>1. /\ JoinReceiver /\ PingPongOf # {} /\ UNCHANGED <<machine, n_msg>>
        /\ plan' = plan \/ plan' = Tail(plan)
    BY <1>6 DEF EndPingPong, JoinReceiver
  <2>2. ~At("AtomicQueue")
    BY <1>1, <2>1 DEF JoinReceiver, ZeroInv, OddAndEven, Sides
  <2>3. plan' \in Seq(Phases) /\ ReachesZero'
    BY <1>1, <2>1, <2>2, PlanGoesOn DEF ZeroInv, ReachesZero
  <2>4. n_msg \in Word /\ n_msg % 2 = 1
    BY DEF ZeroInv, ReachesZero
  <2> QED
    BY <2>1, <2>3, <2>4, StartsOdd DEF ZeroInv
<1>7. ASSUME NEW t, Running(t) PROVE ZeroInv'
  BY <1>2, <1>7 DEF Running, mainVars
<1>8. ASSUME MainThread PROVE ZeroInv'
  <2>1. ASSUME StartUp PROVE ZeroInv'
    <3>1. /\ UNCHANGED <<machine, pingPongVars>> /\ At("startup")
          /\ plan' = Tail(plan)
      BY <2>1 DEF StartUp, ZeroInv, ReachesZero
    <3> QED
      BY <1>3, <3>1 DEF At
  <2>2. ASSUME StartPingPong PROVE ZeroInv'
    BY <1>4, <2>2 DEF StartPingPong
  <2>3. ASSUME Play("sender") PROVE ZeroInv'
    BY <1>5, <2>3 DEF Sides
  <2>4. ASSUME CreateThread PROVE ZeroInv'
    BY <1>2, <2>4 DEF CreateThread
  <2>5. ASSUME JoinAll PROVE ZeroInv'
    <3>1. /\ UNCHANGED <<machine, pingPongVars>> /\ plan' = Tail(plan)
          /\ At("stress") \/ At("throughput") \/ At("alternative")
      BY <2>5 DEF JoinAll, Throughput
    <3> QED
      BY <1>3, <3>1 DEF At
  <2> QED
    BY <1>6, <1>7, <1>8, <2>1, <2>2, <2>3, <2>4, <2>5 DEF MainThread
<1>9. ASSUME NEW t \in Others, OtherThread(t) PROVE ZeroInv'
  BY <1>5, <1>7, <1>9 DEF OtherThread, Sides
<1>10. CASE UNCHANGED allVars
  BY <1>2, <1>10 DEF allVars, mainVars
<1> QED
  BY <1>8, <1>9, <1>10 DEF BenchmarksNext

\* Benchmarks that come to the ping-pong of AtomicQueue with an odd number of
\* messages never end: the receiver pushes a 0, which is the queue's NIL, and the
\* sender never receives it, for any numbers of threads and messages and any plan.
THEOREM ZeroNeverArrives == BenchmarksSpec => (ReachesZero => []~Ended)
<1>1. BenchmarksInit /\ ReachesZero => ZeroInv
  <2> SUFFICES ASSUME BenchmarksInit, ReachesZero PROVE ZeroInv
    OBVIOUS
  <2>1. n_msg \in Word /\ n_msg % 2 = 1 /\ PingPongInit
    BY DEF BenchmarksInit, ReachesZero
  <2>2. plan \in Seq(Phases)
    <3>1. CASE program = "stress"
      <4>1. plan = <<"stress">>
        BY <3>1 DEF BenchmarksInit
      <4>2. "stress" \in Phases
        BY DEF Phases
      <4>3. <<"stress">> \in Seq(Phases)
        BY ONLY <4>2
      <4> QED
        BY <4>1, <4>3
    <3>2. CASE program # "stress"
      <4>1. PICK p \in Plans : plan = <<"startup">> \o p
        BY <3>2 DEF BenchmarksInit
      <4>2. p \in Seq(Phases) /\ <<"startup">> \in Seq(Phases)
        BY PlansAssumption DEF MainsOrder, Phases
      <4> QED
        BY <4>1, <4>2
    <3> QED
      BY <3>1, <3>2
  <2>3. /\ ball = Balls /\ at = [x \in Sides |-> "none"] /\ q1 = << >> /\ q2 = << >>
    BY <2>1 DEF PingPongInit
  <2> QED
    BY <2>1, <2>2, <2>3, StartedOdd DEF ZeroInv
<1>2. ZeroInv => ~Ended
  <2> SUFFICES ASSUME ZeroInv, Ended PROVE FALSE
    OBVIOUS
  <2>1. PICK k \in DOMAIN plan : plan[k] = "AtomicQueue"
    BY DEF ZeroInv, ReachesZero
  <2>2. CASE plan = << >>
    BY <2>1, <2>2
  <2>3. CASE plan = <<"threw">>
    BY <2>1, <2>3
  <2> QED
    BY <2>2, <2>3 DEF Ended
<1> QED
  BY <1>1, <1>2, ZeroStep, PTL DEF BenchmarksSpec
=============================================================================
