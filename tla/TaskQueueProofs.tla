--------------------------- MODULE TaskQueueProofs ---------------------------
(***************************************************************************)
(* What TLAPS proves of TaskQueue: type correctness; and, while the server *)
(* runs, mutual exclusion, that the queue never stalls, that tasks are     *)
(* popped in order, and that the queue implements CommandChannel.          *)
(***************************************************************************)
EXTENDS TaskQueue, TLAPS, FiniteSetTheorems

(***************************************************************************)
(* The inductive invariant.  It speaks of the running server; a step that  *)
(* clears keepRunning makes it hold trivially.                             *)
(***************************************************************************)
Pending == pushed - popped
Wrap(i) == IF i < Capacity THEN i ELSE i - Capacity

Pushing(labels) == mutex = Main /\ pc[Main] \in labels
Popping(labels) == mutex \in Workers /\ pc[mutex] \in labels

\* A thread holds the mutex exactly when it is in the critical section.
HolderInv ==
  \A t \in Threads : (pc[t] \in CriticalLabels) = (mutex = t)

\* A thread sleeps only in pthread_cond_wait, and no handler has run yet.
SleepInv ==
  /\ host = Nobody
  /\ \A t \in waiting : pc[t] = "wake"

\* count is the number of pending tasks, up to the update in progress.
CountInv ==
  /\ Pending \in 0 .. Capacity
  /\ count = Pending
               - (IF Pushing({"rear", "cload", "cstore"}) THEN 1 ELSE 0)
               + (IF Popping({"fload", "fstore", "cload", "cstore"}) THEN 1 ELSE 0)
  /\ \A t \in Threads : pc[t] = "cstore" => reg[t] = count
  /\ \A w \in Workers : pc[w] = "fstore" => reg[w] = front

\* What a thread knows after its test of count.
CheckedInv ==
  /\ pc[Main] \in {"write", "fill"} => Pending < Capacity
  /\ pc[Main] = "sleep" => Pending = Capacity
  /\ \A w \in Workers :
       /\ pc[w] \in {"quit", "take"} => Pending > 0
       /\ pc[w] = "sleep" => Pending = 0

\* The pending tasks lie in the ring from the head on, in order.
Head == IF Popping({"fload", "fstore"}) THEN Wrap(front + 1) ELSE front
Tail == IF Pushing({"rear"}) THEN Wrap(rear + 1) ELSE rear
Holds(q, h, n, k) == \A i \in 0 .. Capacity - 1 : i < n => q[Wrap(h + i)] = k + 1 + i
RingInv ==
  /\ Tail = Wrap(Head + Pending)
  /\ Holds(queue, Head, Pending, popped)

\* Enough workers are awake for the pending tasks, and while main sleeps
\* enough tasks are pending to wake every worker and main.
Asleep == Cardinality(waiting \cap Workers)
WakeInv ==
  /\ Asleep > 0 =>
       Pending <= Cardinality(Workers) - Asleep
                    + (IF Pushing({"rear", "cload", "cstore", "signal"}) THEN 1 ELSE 0)
  /\ Main \in waiting =>
       Asleep < Pending + (IF Popping({"fload", "fstore", "cload", "cstore", "signal"})
                             THEN 1 ELSE 0)

Safe == HolderInv /\ SleepInv /\ CountInv /\ CheckedInv /\ RingInv /\ WakeInv
IInv == TypeOK /\ (keepRunning => Safe)

--------------------------------------------------------------------------------
(***************************************************************************)
(* Arithmetic of the ring                                                  *)
(***************************************************************************)
\* (i + 1) % TASK_QUEUE_CAPACITY, as front and rear advance, stays in the
\* ring and wraps around at its end.
LEMMA Advance ==
  ASSUME NEW i \in Slots
  PROVE  (i + 1) % Capacity = Wrap(i + 1) /\ (i + 1) % Capacity \in Slots
<1>1. CASE i + 1 < Capacity
  BY <1>1, CapacityAssumption DEF Slots, Wrap
<1>2. CASE i + 1 = Capacity
  BY <1>2, CapacityAssumption DEF Slots, Wrap
<1> QED BY <1>1, <1>2, CapacityAssumption DEF Slots

\* The slot after n < Capacity stored tasks is free: writing it keeps them.
LEMMA WriteFree ==
  ASSUME NEW q \in [Slots -> Int], NEW h \in Slots, NEW n \in 0 .. Capacity - 1,
         NEW k \in Nat, NEW v \in Int, Holds(q, h, n, k),
         NEW r, r = [q EXCEPT ![Wrap(h + n)] = v]
  PROVE  Holds(r, h, n, k)
<1> SUFFICES ASSUME NEW i \in 0 .. Capacity - 1, i < n
             PROVE  r[Wrap(h + i)] = k + 1 + i
  BY DEF Holds
<1>1. Wrap(h + i) \in Slots /\ Wrap(h + i) # Wrap(h + n)
  BY CapacityAssumption DEF Slots, Wrap
<1>2. q[Wrap(h + i)] = k + 1 + i
  BY DEF Holds
<1> QED BY <1>1, <1>2

\* Writing the next task there makes n + 1 of them.
LEMMA StoreNext ==
  ASSUME NEW q \in [Slots -> Int], NEW h \in Slots, NEW n \in 0 .. Capacity - 1,
         NEW k \in Nat, Holds(q, h, n, k),
         NEW r, r = [q EXCEPT ![Wrap(h + n)] = k + 1 + n]
  PROVE  Holds(r, h, n + 1, k)
<1> SUFFICES ASSUME NEW i \in 0 .. Capacity - 1, i < n + 1
             PROVE  r[Wrap(h + i)] = k + 1 + i
  BY DEF Holds
<1>1. Holds(r, h, n, k)
  <2>1. k + 1 + n \in Int
    OBVIOUS
  <2> QED BY <2>1, WriteFree, Zenon
<1>2. CASE i < n
  BY <1>1, <1>2 DEF Holds
<1>3. CASE i = n
  <2>1. Wrap(h + n) \in Slots
    BY CapacityAssumption DEF Slots, Wrap
  <2> QED BY <1>3, <2>1
<1> QED BY <1>2, <1>3

\* The oldest of n > 0 stored tasks is at the head, the others follow it.
LEMMA TakeOldest ==
  ASSUME NEW q, NEW h \in Slots, NEW n \in 1 .. Capacity, NEW k \in Nat, Holds(q, h, n, k)
  PROVE  q[h] = k + 1 /\ Holds(q, Wrap(h + 1), n - 1, k + 1)
<1>1. q[h] = k + 1
  <2>1. 0 \in 0 .. Capacity - 1 /\ Wrap(h + 0) = h
    BY CapacityAssumption DEF Slots, Wrap
  <2> QED BY <2>1 DEF Holds
<1>2. ASSUME NEW i \in 0 .. Capacity - 1, i < n - 1
      PROVE  q[Wrap(Wrap(h + 1) + i)] = k + 1 + 1 + i
  <2>1. i + 1 \in 0 .. Capacity - 1 /\ i + 1 < n
    BY <1>2, CapacityAssumption
  <2>2. q[Wrap(h + (i + 1))] = k + 1 + (i + 1)
    BY <2>1 DEF Holds
  <2>3. Wrap(Wrap(h + 1) + i) = Wrap(h + (i + 1))
    BY CapacityAssumption DEF Slots, Wrap
  <2> QED BY <2>2, <2>3
<1> QED BY <1>1, <1>2 DEF Holds

(***************************************************************************)
(* Type correctness                                                        *)
(***************************************************************************)
LEMMA TypeInit == Init => TypeOK
BY ThreadsAssumption, CapacityAssumption
   DEF Init, TypeOK, Slots, Threads, MainLabels, WorkerLabels, Empty

LEMMA TypeNext == TypeOK /\ [Next]_vars => TypeOK'
<1> SUFFICES ASSUME TypeOK, [Next]_vars PROVE TypeOK'
  OBVIOUS
<1> USE ThreadsAssumption DEF TypeOK, Threads, At, Goto
<1> USE DEF MainLabels, WorkerLabels, vars, ring, signals, history
<1>1. ASSUME NEW t \in Threads, Library(t) PROVE TypeOK'
  <2>1. CASE Lock(t)
    BY <2>1 DEF Lock
  <2>2. CASE Sleep(t)
    BY <2>2 DEF Sleep
  <2>3. CASE Wake(t)
    BY <2>3 DEF Wake
  <2>4. CASE Signal(t)
    BY <2>4 DEF Signal
  <2>5. CASE LoadCount(t)
    BY <2>5 DEF LoadCount
  <2>6. CASE StoreCount(t)
    BY <2>6 DEF StoreCount
  <2> QED BY <1>1, <2>1, <2>2, <2>3, <2>4, <2>5, <2>6 DEF Library
<1>2. ASSUME MainStep PROVE TypeOK'
  <2>1. CASE MainLoop
    BY <2>1 DEF MainLoop, Branch
  <2>2. CASE EpollWait
    BY <2>2, BoundsAssumption DEF EpollWait, Branch
  <2>3. CASE PushCheck
    BY <2>3 DEF PushCheck, Branch
  <2>4. CASE WriteSlot
    BY <2>4 DEF WriteSlot, Torn
  <2>5. CASE FillSlot
    BY <2>5 DEF FillSlot
  <2>6. CASE AdvanceRear
    BY <2>6, Advance DEF AdvanceRear
  <2>7. CASE PushUnlock
    BY <2>7 DEF PushUnlock, Branch
  <2>8. CASE Join
    BY <2>8 DEF Join
  <2> QED
    BY <1>1, <1>2, <2>1, <2>2, <2>3, <2>4, <2>5, <2>6, <2>7, <2>8 DEF MainStep
<1>3. ASSUME NEW w \in Workers, WorkerStep(w) PROVE TypeOK'
  <2>1. CASE WorkerLoop(w)
    BY <2>1 DEF WorkerLoop, Branch
  <2>2. CASE PopCheck(w)
    BY <2>2 DEF PopCheck, Branch
  <2>3. CASE PopQuit(w)
    BY <2>3 DEF PopQuit
  <2>4. CASE Take(w)
    BY <2>4 DEF Take
  <2>5. CASE LoadFront(w)
    BY <2>5, CapacityAssumption DEF LoadFront, Slots
  <2>6. CASE StoreFront(w)
    BY <2>6, Advance DEF StoreFront
  <2>7. CASE PopUnlock(w)
    BY <2>7 DEF PopUnlock
  <2> QED
    BY <1>1, <1>3, <2>1, <2>2, <2>3, <2>4, <2>5, <2>6, <2>7 DEF WorkerStep
<1>4. ASSUME NEW t \in Threads \cup {Cycle}, SigintFlag(t) PROVE TypeOK'
  BY <1>4 DEF SigintFlag
<1>5. ASSUME SigintBroadcast PROVE TypeOK'
  BY <1>5 DEF SigintBroadcast
<1>6. ASSUME NEW t \in Threads, SpuriousWake(t) PROVE TypeOK'
  BY <1>6 DEF SpuriousWake
<1>7. CASE UNCHANGED vars
  BY <1>7
<1> QED BY <1>2, <1>3, <1>4, <1>5, <1>6, <1>7 DEF Next

\* Type correctness, before and after the server is stopped: in particular
\* front and rear index the ring although workers update front unlocked.
THEOREM TypeCorrect == Spec => []TypeOK
BY TypeInit, TypeNext, PTL DEF Spec

(***************************************************************************)
(* The invariant of the running server                                     *)
(***************************************************************************)
LEMMA SafeInit == Init => Safe
BY ThreadsAssumption, CapacityAssumption, FS_EmptySet
   DEF Init, Safe, HolderInv, SleepInv, CountInv, CheckedInv, RingInv, Holds, WakeInv,
       Threads, CriticalLabels, Pending, Pushing, Popping, Head, Tail, Wrap,
       Asleep, Slots

LEMMA HolderNext ==
  TypeOK /\ Safe /\ keepRunning /\ keepRunning' /\ [Next]_vars => HolderInv'
<1> SUFFICES ASSUME TypeOK, HolderInv, CheckedInv, keepRunning, keepRunning', [Next]_vars
             PROVE  HolderInv'
  BY DEF Safe
<1> USE ThreadsAssumption DEF TypeOK, HolderInv, Threads, CriticalLabels, At, Goto
<1> USE DEF MainLabels, WorkerLabels
<1>1. ASSUME NEW t \in Threads, Library(t) PROVE HolderInv'
  BY <1>1 DEF Library, Lock, Sleep, Wake, Signal, LoadCount, StoreCount
<1>2. ASSUME MainStep PROVE HolderInv'
  BY <1>1, <1>2 DEF MainStep, MainLoop, EpollWait, PushCheck, WriteSlot, FillSlot,
     AdvanceRear, PushUnlock, Join, Branch
<1>3. ASSUME NEW w \in Workers, WorkerStep(w) PROVE HolderInv'
  BY <1>1, <1>3 DEF WorkerStep, WorkerLoop, PopCheck, PopQuit, Take, LoadFront,
     StoreFront, PopUnlock, Branch
<1>4. ASSUME SigintBroadcast PROVE HolderInv'
  BY <1>4 DEF SigintBroadcast
<1>5. ASSUME NEW t \in Threads, SpuriousWake(t) PROVE HolderInv'
  BY <1>5 DEF SpuriousWake
<1>6. CASE UNCHANGED vars
  BY <1>6 DEF vars
<1> QED BY <1>2, <1>3, <1>4, <1>5, <1>6 DEF Next, SigintFlag

LEMMA SleepNext ==
  TypeOK /\ Safe /\ keepRunning /\ keepRunning' /\ [Next]_vars => SleepInv'
<1> SUFFICES ASSUME TypeOK, SleepInv, keepRunning, keepRunning', [Next]_vars
             PROVE  SleepInv'
  BY DEF Safe
<1> USE ThreadsAssumption DEF TypeOK, SleepInv, Threads, At, Goto, signals
<1>1. ASSUME NEW t \in Threads, Library(t) PROVE SleepInv'
  BY <1>1 DEF Library, Lock, Sleep, Wake, Signal, LoadCount, StoreCount
<1>2. ASSUME MainStep PROVE SleepInv'
  BY <1>1, <1>2 DEF MainStep, MainLoop, EpollWait, PushCheck, WriteSlot, FillSlot,
     AdvanceRear, PushUnlock, Join, Branch
<1>3. ASSUME NEW w \in Workers, WorkerStep(w) PROVE SleepInv'
  BY <1>1, <1>3 DEF WorkerStep, WorkerLoop, PopCheck, PopQuit, Take, LoadFront,
     StoreFront, PopUnlock, Branch
<1>4. ASSUME SigintBroadcast PROVE SleepInv'
  BY <1>4 DEF SigintBroadcast
<1>5. ASSUME NEW t \in Threads, SpuriousWake(t) PROVE SleepInv'
  BY <1>5 DEF SpuriousWake
<1>6. CASE UNCHANGED vars
  BY <1>6 DEF vars
<1> QED BY <1>2, <1>3, <1>4, <1>5, <1>6 DEF Next, SigintFlag

LEMMA CountNext ==
  TypeOK /\ Safe /\ keepRunning /\ keepRunning' /\ [Next]_vars => CountInv'
<1> SUFFICES ASSUME TypeOK, HolderInv, CountInv, CheckedInv,
                    keepRunning, keepRunning', [Next]_vars
             PROVE  CountInv'
  BY DEF Safe
<1> USE ThreadsAssumption, CapacityAssumption
    DEF TypeOK, HolderInv, CountInv, Threads, CriticalLabels, Slots, At, Goto
<1> USE DEF Pending, Pushing, Popping, ring, history
<1>1. ASSUME NEW t \in Threads, Library(t) PROVE CountInv'
  <2>1. CASE Lock(t)
    BY <2>1 DEF Lock
  <2>2. CASE Sleep(t)
    BY <2>2 DEF Sleep
  <2>3. CASE Wake(t)
    BY <2>3 DEF Wake
  <2>4. CASE Signal(t)
    BY <2>4 DEF Signal
  <2>5. CASE LoadCount(t)
    BY <2>5 DEF LoadCount
  <2>6. CASE StoreCount(t)
    BY <2>6 DEF StoreCount
  <2> QED BY <1>1, <2>1, <2>2, <2>3, <2>4, <2>5, <2>6 DEF Library
<1>2. ASSUME MainStep PROVE CountInv'
  <2>1. CASE FillSlot
    BY <2>1 DEF FillSlot, CheckedInv
  <2>2. CASE AdvanceRear
    BY <2>2 DEF AdvanceRear
  <2>3. CASE MainLoop
    BY <2>3 DEF MainLoop, Branch
  <2>4. CASE EpollWait
    BY <2>4 DEF EpollWait, Branch
  <2>5. CASE PushCheck
    BY <2>5 DEF PushCheck, Branch
  <2>6. CASE WriteSlot
    BY <2>6 DEF WriteSlot
  <2>7. CASE PushUnlock
    BY <2>7 DEF PushUnlock, Branch
  <2>8. CASE Join
    BY <2>8 DEF Join
  <2> QED BY <1>1, <1>2, <2>1, <2>2, <2>3, <2>4, <2>5, <2>6, <2>7, <2>8 DEF MainStep
<1>3. ASSUME NEW w \in Workers, WorkerStep(w) PROVE CountInv'
  <2>1. CASE Take(w)
    BY <2>1 DEF Take, CheckedInv
  <2>2. CASE StoreFront(w)
    BY <2>2 DEF StoreFront
  <2>3. CASE WorkerLoop(w)
    BY <2>3 DEF WorkerLoop, Branch
  <2>4. CASE PopCheck(w)
    BY <2>4 DEF PopCheck, Branch
  <2>5. CASE PopQuit(w)
    BY <2>5 DEF PopQuit
  <2>6. CASE LoadFront(w)
    BY <2>6 DEF LoadFront
  <2>7. CASE PopUnlock(w)
    BY <2>7 DEF PopUnlock
  <2> QED BY <1>1, <1>3, <2>1, <2>2, <2>3, <2>4, <2>5, <2>6, <2>7 DEF WorkerStep
<1>4. ASSUME SigintBroadcast PROVE CountInv'
  BY <1>4 DEF SigintBroadcast
<1>5. ASSUME NEW t \in Threads, SpuriousWake(t) PROVE CountInv'
  BY <1>5 DEF SpuriousWake
<1>6. CASE UNCHANGED vars
  BY <1>6 DEF vars
<1> QED BY <1>2, <1>3, <1>4, <1>5, <1>6 DEF Next, SigintFlag

LEMMA CheckedNext ==
  TypeOK /\ Safe /\ keepRunning /\ keepRunning' /\ [Next]_vars => CheckedInv'
<1> SUFFICES ASSUME TypeOK, HolderInv, CountInv, CheckedInv,
                    keepRunning, keepRunning', [Next]_vars
             PROVE  CheckedInv'
  BY DEF Safe
<1> USE ThreadsAssumption, CapacityAssumption
    DEF TypeOK, HolderInv, CheckedInv, Threads, CriticalLabels, At, Goto
<1> USE DEF Pending, history
<1>1. ASSUME NEW t \in Threads, Library(t) PROVE CheckedInv'
  BY <1>1 DEF Library, Lock, Sleep, Wake, Signal, LoadCount, StoreCount
<1>2. ASSUME MainStep PROVE CheckedInv'
  <2>1. CASE PushCheck
    BY <2>1 DEF PushCheck, Branch, CountInv, Pushing, Popping
  <2>2. CASE FillSlot
    BY <2>2 DEF FillSlot
  <2>3. CASE MainLoop \/ EpollWait \/ WriteSlot \/ AdvanceRear \/ PushUnlock \/ Join
    BY <2>3 DEF MainLoop, EpollWait, WriteSlot, AdvanceRear, PushUnlock, Join, Branch
  <2> QED BY <1>1, <1>2, <2>1, <2>2, <2>3 DEF MainStep
<1>3. ASSUME NEW w \in Workers, WorkerStep(w) PROVE CheckedInv'
  <2>1. CASE PopCheck(w)
    BY <2>1 DEF PopCheck, Branch, CountInv, Pushing, Popping
  <2>2. CASE Take(w)
    BY <2>2 DEF Take
  <2>3. CASE WorkerLoop(w) \/ PopQuit(w) \/ LoadFront(w) \/ StoreFront(w) \/ PopUnlock(w)
    BY <2>3 DEF WorkerLoop, PopQuit, LoadFront, StoreFront, PopUnlock, Branch
  <2> QED BY <1>1, <1>3, <2>1, <2>2, <2>3 DEF WorkerStep
<1>4. ASSUME SigintBroadcast PROVE CheckedInv'
  BY <1>4 DEF SigintBroadcast
<1>5. ASSUME NEW t \in Threads, SpuriousWake(t) PROVE CheckedInv'
  BY <1>5 DEF SpuriousWake
<1>6. CASE UNCHANGED vars
  BY <1>6 DEF vars
<1> QED BY <1>2, <1>3, <1>4, <1>5, <1>6 DEF Next, SigintFlag

LEMMA RingNext ==
  TypeOK /\ Safe /\ keepRunning /\ keepRunning' /\ [Next]_vars => RingInv'
<1> SUFFICES ASSUME TypeOK, HolderInv, CountInv, CheckedInv, RingInv,
                    keepRunning, keepRunning', [Next]_vars
             PROVE  RingInv'
  BY DEF Safe
<1> USE ThreadsAssumption, CapacityAssumption
    DEF TypeOK, HolderInv, RingInv, Threads, CriticalLabels, At, Goto
<1> USE DEF Pending, Pushing, Popping, Head, Tail, ring, history
<1>1. ASSUME NEW t \in Threads, Library(t) PROVE RingInv'
  <2>1. CASE Lock(t)
    BY <2>1 DEF Lock
  <2>2. CASE Sleep(t)
    BY <2>2 DEF Sleep
  <2>3. CASE Wake(t)
    BY <2>3 DEF Wake
  <2>4. CASE Signal(t)
    BY <2>4 DEF Signal
  <2>5. CASE LoadCount(t)
    BY <2>5 DEF LoadCount
  <2>6. CASE StoreCount(t)
    BY <2>6 DEF StoreCount
  <2> QED BY <1>1, <2>1, <2>2, <2>3, <2>4, <2>5, <2>6 DEF Library
<1>2. ASSUME MainStep PROVE RingInv'
  <2>1. CASE MainLoop
    BY <2>1 DEF MainLoop, Branch
  <2>2. CASE EpollWait
    BY <2>2 DEF EpollWait, Branch
  <2>3. CASE PushCheck
    BY <2>3 DEF PushCheck, Branch
  <2>4. CASE WriteSlot
    <3>1. Pending \in 0 .. Capacity - 1 /\ Head = front /\ Tail = rear
      BY <2>4 DEF WriteSlot, CheckedInv, CountInv
    <3> HIDE DEF Pending, Head, Tail
    <3>2. Holds(queue', front, Pending, popped)
      <4>1. /\ rear = Wrap(front + Pending) /\ Holds(queue, front, Pending, popped)
            /\ queue' = [queue EXCEPT ![rear] = -1]
        BY <2>4, <3>1 DEF WriteSlot, Torn
      <4>2. queue' = [queue EXCEPT ![Wrap(front + Pending)] = -1]
        BY <4>1
      <4>3. queue \in [Slots -> Int] /\ front \in Slots /\ popped \in Nat /\ -1 \in Int
        OBVIOUS
      <4> HIDE DEF TypeOK
      <4> QED BY <3>1, <4>1, <4>2, <4>3, WriteFree, Zenon
    <3>3. UNCHANGED <<Pending, Head, Tail, popped>>
      BY <2>4 DEF WriteSlot, Pending, Head, Tail
    <3> QED BY <3>1, <3>2, <3>3
  <2>5. CASE FillSlot
    <3>1. Pending \in 0 .. Capacity - 1 /\ Head = front /\ Tail = rear
      BY <2>5 DEF FillSlot, CheckedInv, CountInv
    <3>2. /\ Pending' = Pending + 1 /\ popped' = popped
          /\ Head' = front /\ Tail' = Wrap(rear + 1)
          /\ pushed + 1 = popped + 1 + Pending
      BY <2>5 DEF FillSlot
    <3> HIDE DEF Pending, Head, Tail
    <3>3. Holds(queue', front, Pending + 1, popped)
      <4>1. /\ rear = Wrap(front + Pending) /\ Holds(queue, front, Pending, popped)
            /\ queue' = [queue EXCEPT ![rear] = pushed + 1]
        BY <2>5, <3>1 DEF FillSlot
      <4>2. queue' = [queue EXCEPT ![Wrap(front + Pending)] = popped + 1 + Pending]
        BY <3>2, <4>1
      <4>3. queue \in [Slots -> Int] /\ front \in Slots /\ popped \in Nat
        OBVIOUS
      <4> HIDE DEF TypeOK
      <4> QED BY <3>1, <4>1, <4>2, <4>3, StoreNext, Zenon
    <3>4. Wrap(Wrap(front + Pending) + 1) = Wrap(front + (Pending + 1))
      BY <3>1 DEF Slots, Wrap
    <3> HIDE DEF Pending, Head, Tail
    <3> QED BY <3>1, <3>2, <3>3, <3>4
  <2>6. CASE AdvanceRear
    BY <2>6, Advance DEF AdvanceRear
  <2>7. CASE PushUnlock
    BY <2>7 DEF PushUnlock, Branch
  <2>8. CASE Join
    BY <2>8 DEF Join
  <2> QED
    BY <1>1, <1>2, <2>1, <2>2, <2>3, <2>4, <2>5, <2>6, <2>7, <2>8 DEF MainStep
<1>3. ASSUME NEW w \in Workers, WorkerStep(w) PROVE RingInv'
  <2>1. CASE WorkerLoop(w)
    BY <2>1 DEF WorkerLoop, Branch
  <2>2. CASE PopCheck(w)
    BY <2>2 DEF PopCheck, Branch
  <2>3. CASE PopQuit(w)
    BY <2>3 DEF PopQuit
  <2>4. CASE Take(w)
    <3>1. Pending \in 1 .. Capacity /\ Head = front /\ Tail = Wrap(front + Pending)
      BY <2>4 DEF Take, CheckedInv, CountInv
    <3>2. /\ Pending' = Pending - 1 /\ Head' = Wrap(front + 1) /\ Tail' = Tail
          /\ popped' = popped + 1 /\ queue' = queue
      BY <2>4 DEF Take
    <3>3. Wrap(Wrap(front + 1) + (Pending - 1)) = Wrap(front + Pending)
      BY <3>1 DEF Slots, Wrap
    <3> HIDE DEF Pending, Head, Tail
    <3>4. Holds(queue, Wrap(front + 1), Pending - 1, popped + 1)
      BY <3>1, TakeOldest
    <3> QED BY <3>1, <3>2, <3>3, <3>4
  <2>5. CASE LoadFront(w)
    BY <2>5 DEF LoadFront
  <2>6. CASE StoreFront(w)
    <3>1. /\ Head = Wrap(front + 1) /\ front' = Wrap(front + 1)
          /\ Head' = front'
      BY <2>6, Advance DEF StoreFront, CountInv
    <3>2. UNCHANGED <<Pending, Tail, queue, popped>>
      BY <2>6 DEF StoreFront
    <3> HIDE DEF Pending, Head, Tail
    <3> QED BY <3>1, <3>2
  <2>7. CASE PopUnlock(w)
    BY <2>7 DEF PopUnlock
  <2> QED
    BY <1>1, <1>3, <2>1, <2>2, <2>3, <2>4, <2>5, <2>6, <2>7 DEF WorkerStep
<1>4. ASSUME SigintBroadcast PROVE RingInv'
  BY <1>4 DEF SigintBroadcast
<1>5. ASSUME NEW t \in Threads, SpuriousWake(t) PROVE RingInv'
  BY <1>5 DEF SpuriousWake
<1>6. CASE UNCHANGED vars
  BY <1>6 DEF vars
<1> QED BY <1>2, <1>3, <1>4, <1>5, <1>6 DEF Next, SigintFlag

\* How many workers sleep, as threads join and leave the waiters.
LEMMA AsleepType ==
  ASSUME NEW S
  PROVE  /\ IsFiniteSet(S \cap Workers)
         /\ Cardinality(S \cap Workers) \in 0 .. Cardinality(Workers)
         /\ Cardinality(S \cap Workers) = Cardinality(Workers) => Workers \subseteq S
<1>1. IsFiniteSet(Workers) /\ Cardinality(Workers) \in Nat
  BY ThreadsAssumption, FS_CardinalityType
<1>2. S \cap Workers \subseteq Workers
  OBVIOUS
<1> QED BY <1>1, <1>2, FS_Subset, FS_CardinalityType

LEMMA AsleepJoin ==
  ASSUME NEW S, NEW t \in Threads, t \notin S
  PROVE  Cardinality((S \cup {t}) \cap Workers) =
           Cardinality(S \cap Workers) + (IF t = Main THEN 0 ELSE 1)
<1>1. CASE t = Main
  <2>1. (S \cup {t}) \cap Workers = S \cap Workers
    BY <1>1, ThreadsAssumption
  <2>2. Cardinality(S \cap Workers) \in Int
    BY AsleepType
  <2>3. Cardinality((S \cup {t}) \cap Workers) = Cardinality(S \cap Workers)
    BY <2>1, Zenon
  <2> QED BY <1>1, <2>2, <2>3
<1>2. CASE t # Main
  <2>1. (S \cup {t}) \cap Workers = (S \cap Workers) \cup {t} /\ t \notin S \cap Workers
    BY <1>2 DEF Threads
  <2>2. IsFiniteSet(S \cap Workers)
    BY AsleepType
  <2>3. Cardinality((S \cap Workers) \cup {t}) = Cardinality(S \cap Workers) + 1
    BY <2>1, <2>2, FS_AddElement
  <2> QED BY <1>2, <2>1, <2>3
<1> QED BY <1>1, <1>2

LEMMA AsleepLeave ==
  ASSUME NEW S, NEW t \in Threads, t \in S
  PROVE  Cardinality((S \ {t}) \cap Workers) =
           Cardinality(S \cap Workers) - (IF t = Main THEN 0 ELSE 1)
<1>1. (S \ {t}) \cup {t} = S /\ t \notin S \ {t}
  OBVIOUS
<1>2. Cardinality(S \cap Workers) =
        Cardinality((S \ {t}) \cap Workers) + (IF t = Main THEN 0 ELSE 1)
  BY <1>1, AsleepJoin
<1> QED BY <1>2, AsleepType

LEMMA WakeNext ==
  TypeOK /\ Safe /\ keepRunning /\ keepRunning' /\ [Next]_vars => WakeInv'
<1> SUFFICES ASSUME TypeOK, Safe, keepRunning, keepRunning', [Next]_vars
             PROVE  WakeInv'
  OBVIOUS
<1> DEFINE W == Cardinality(Workers)
           PushDebt == IF Pushing({"rear", "cload", "cstore", "signal"}) THEN 1 ELSE 0
           PopDebt == IF Popping({"fload", "fstore", "cload", "cstore", "signal"})
                        THEN 1 ELSE 0
           Waits == Main \in waiting
<1>0. /\ W \in Nat /\ Asleep \in 0 .. W /\ Pending \in 0 .. Capacity
      /\ Capacity \in Nat \ {0} /\ W < 2 * Capacity
      /\ PushDebt \in {0, 1} /\ PopDebt \in {0, 1}
      /\ Asleep > 0 => Pending <= W - Asleep + PushDebt
      /\ Waits => Asleep < Pending + PopDebt
  BY ThreadsAssumption, CapacityAssumption, FS_CardinalityType, AsleepType
     DEF Asleep, Safe, CountInv, WakeInv
<1>a. Asleep' \in 0 .. W
  BY AsleepType DEF Asleep
<1>b. ASSUME /\ Asleep' > 0 => Pending' <= W - Asleep' + PushDebt'
             /\ Waits' => Asleep' < Pending' + PopDebt'
      PROVE  WakeInv'
  BY <1>b DEF WakeInv
<1>c. ASSUME waiting' = waiting, Pending' = Pending, PushDebt' = PushDebt, PopDebt' = PopDebt
      PROVE  WakeInv'
  BY <1>0, <1>b, <1>c DEF Asleep
<1>d. TypeOK /\ HolderInv /\ SleepInv /\ CheckedInv
  BY DEF Safe
<1>e. ASSUME NEW t \in waiting PROVE pc[t] = "wake" /\ mutex # t
  BY <1>d DEF TypeOK, HolderInv, SleepInv, CriticalLabels
<1> HIDE DEF W, Waits
<1> USE ThreadsAssumption DEF At, Goto, Threads, history, Pending
<1> USE DEF TypeOK, HolderInv, CriticalLabels, Pushing, Popping
<1>1. ASSUME NEW t \in Threads, Library(t) PROVE WakeInv'
  <2>1. CASE Sleep(t)
    <3>1. mutex = t /\ t \notin waiting
      BY <1>d, <1>e, <2>1 DEF Sleep
    <3>2. PushDebt = 0 /\ PopDebt = 0 /\ PushDebt' = 0 /\ PopDebt' = 0 /\ Pending' = Pending
      BY <1>d, <2>1, <3>1 DEF Sleep
    <3>3. Asleep' = Asleep + (IF t = Main THEN 0 ELSE 1)
      BY <2>1, <3>1, AsleepJoin DEF Sleep, Asleep
    <3>4. Pending = (IF t = Main THEN Capacity ELSE 0)
      BY <1>d, <2>1 DEF Sleep, CheckedInv
    <3>5. Waits' => (t = Main \/ Waits)
      BY <2>1 DEF Sleep, Waits
    <3> HIDE DEF PushDebt, PopDebt, Pending
    <3> QED BY <1>0, <1>a, <1>b, <3>2, <3>3, <3>4, <3>5
  <2>2. CASE Signal(t)
    <3>1. mutex = t /\ t \notin waiting
      BY <1>d, <1>e, <2>2 DEF Signal
    <3>2. /\ PushDebt = (IF t = Main THEN 1 ELSE 0) /\ PopDebt = (IF t = Main THEN 0 ELSE 1)
          /\ PushDebt' = 0 /\ PopDebt' = 0 /\ Pending' = Pending
      BY <1>d, <2>2, <3>1 DEF Signal
    <3>3. CASE waiting = {}
      <4>1. Asleep' = 0 /\ ~Waits'
        BY <2>2, <3>3, FS_EmptySet DEF Signal, Asleep, Waits
      <4> QED BY <1>b, <4>1
    <3>4. ASSUME NEW u \in waiting, waiting' = waiting \ {u} PROVE WakeInv'
      <4>1. Asleep' = Asleep - (IF u = Main THEN 0 ELSE 1)
        BY <1>d, <3>4, AsleepLeave DEF Asleep
      <4>2. Waits' => Waits /\ u # Main
        BY <3>4 DEF Waits
      <4>3. u = Main => t # Main
        BY <3>1
      <4> HIDE DEF PushDebt, PopDebt, Pending
      <4> QED BY <1>0, <1>a, <1>b, <3>2, <4>1, <4>2, <4>3
    <3> QED BY <2>2, <3>3, <3>4 DEF Signal
  <2>3. CASE Lock(t) \/ Wake(t)
    BY <1>c, <1>d, <2>3 DEF Lock, Wake
  <2>4. CASE LoadCount(t) \/ StoreCount(t)
    BY <1>c, <1>d, <2>4 DEF LoadCount, StoreCount
  <2> QED BY <1>1, <2>1, <2>2, <2>3, <2>4 DEF Library
<1>2. ASSUME MainStep PROVE WakeInv'
  <2>1. CASE FillSlot
    <3>1. /\ PushDebt = 0 /\ PopDebt = 0 /\ PushDebt' = 1 /\ PopDebt' = 0
          /\ Pending' = Pending + 1 /\ waiting' = waiting /\ ~Waits
      BY <1>d, <1>e, <2>1 DEF FillSlot, Waits
    <3>2. Asleep' = Asleep /\ ~Waits'
      BY <3>1 DEF Asleep, Waits
    <3> HIDE DEF PushDebt, PopDebt, Pending
    <3> QED BY <1>0, <1>b, <3>1, <3>2
  <2>2. CASE AdvanceRear
    BY <1>c, <1>d, <2>2 DEF AdvanceRear
  <2>3. CASE MainLoop \/ EpollWait \/ Join
    BY <1>c, <1>d, <2>3 DEF MainLoop, EpollWait, Join, Branch
  <2>4. CASE PushCheck \/ WriteSlot
    BY <1>c, <1>d, <2>4 DEF PushCheck, WriteSlot, Branch
  <2>5. CASE PushUnlock
    BY <1>c, <1>d, <2>5 DEF PushUnlock, Branch
  <2> QED BY <1>1, <1>2, <2>1, <2>2, <2>3, <2>4, <2>5 DEF MainStep
<1>3. ASSUME NEW w \in Workers, WorkerStep(w) PROVE WakeInv'
  <2>1. CASE Take(w)
    <3>1. /\ PushDebt = 0 /\ PopDebt = 0 /\ PushDebt' = 0 /\ PopDebt' = 1
          /\ Pending' = Pending - 1 /\ waiting' = waiting
      BY <1>d, <2>1 DEF Take
    <3>2. Asleep' = Asleep /\ Waits' = Waits
      BY <3>1 DEF Asleep, Waits
    <3> HIDE DEF PushDebt, PopDebt, Pending
    <3> QED BY <1>0, <1>b, <3>1, <3>2
  <2>2. CASE WorkerLoop(w) \/ PopCheck(w) \/ PopQuit(w)
    BY <1>c, <1>d, <2>2 DEF WorkerLoop, PopCheck, PopQuit, Branch
  <2>3. CASE LoadFront(w) \/ StoreFront(w)
    BY <1>c, <1>d, <2>3 DEF LoadFront, StoreFront
  <2>4. CASE PopUnlock(w)
    BY <1>c, <1>d, <2>4 DEF PopUnlock
  <2> QED BY <1>1, <1>3, <2>1, <2>2, <2>3, <2>4 DEF WorkerStep
<1>4. ASSUME SigintBroadcast PROVE WakeInv'
  BY <1>4, <1>d DEF SigintBroadcast, SleepInv
<1>5. ASSUME NEW t \in Threads, SpuriousWake(t) PROVE WakeInv'
  <2>1. Asleep' = Asleep - (IF t = Main THEN 0 ELSE 1)
    BY <1>5, AsleepLeave DEF SpuriousWake, Asleep
  <2>2. Waits' => Waits /\ t # Main
    BY <1>5 DEF SpuriousWake, Waits
  <2>3. UNCHANGED <<PushDebt, PopDebt, Pending>>
    BY <1>5 DEF SpuriousWake
  <2> HIDE DEF PushDebt, PopDebt, Pending
  <2> QED BY <1>0, <1>a, <1>b, <2>1, <2>2, <2>3
<1>6. CASE UNCHANGED vars
  BY <1>6, <1>c DEF vars
<1> QED BY <1>2, <1>3, <1>4, <1>5, <1>6 DEF Next, SigintFlag

(***************************************************************************)
(* The theorems                                                            *)
(***************************************************************************)
LEMMA StopsForGood == ~keepRunning /\ [Next]_vars => ~keepRunning'
<1> SUFFICES ASSUME ~keepRunning, [Next]_vars PROVE ~keepRunning'
  OBVIOUS
<1> USE DEF signals
<1>1. ASSUME NEW t \in Threads, Library(t) PROVE ~keepRunning'
  BY <1>1 DEF Library, Lock, Sleep, Wake, Signal, LoadCount, StoreCount
<1>2. CASE MainStep
  BY <1>1, <1>2 DEF MainStep, MainLoop, EpollWait, PushCheck, WriteSlot, FillSlot,
     AdvanceRear, PushUnlock, Join, Threads
<1>3. ASSUME NEW w \in Workers, WorkerStep(w) PROVE ~keepRunning'
  BY <1>1, <1>3 DEF WorkerStep, WorkerLoop, PopCheck, PopQuit, Take, LoadFront,
     StoreFront, PopUnlock, Threads
<1> QED
  BY <1>2, <1>3 DEF Next, SigintFlag, SigintBroadcast, SpuriousWake, vars

LEMMA InvariantInit == Init => IInv
BY TypeInit, SafeInit DEF IInv

LEMMA InvariantNext == IInv /\ [Next]_vars => IInv'
<1> SUFFICES ASSUME IInv, [Next]_vars PROVE IInv'
  OBVIOUS
<1>1. TypeOK'
  BY TypeNext DEF IInv
<1>2. ASSUME keepRunning' PROVE Safe'
  <2>1. TypeOK /\ keepRunning /\ Safe
    BY <1>2, StopsForGood DEF IInv
  <2> QED
    BY <1>2, <2>1, HolderNext, SleepNext, CountNext, CheckedNext, RingNext, WakeNext
       DEF Safe
<1> QED BY <1>1, <1>2 DEF IInv

\* The inductive invariant of the queue: while the server runs, the mutex is
\* held by the one thread in the critical section, count, front and rear
\* describe the pending tasks up to the update in progress, and enough
\* threads are awake.
THEOREM Invariant == Spec => []IInv
BY InvariantInit, InvariantNext, PTL DEF Spec

\* While the server runs, at most one thread is in a critical section of
\* task.c, for any number of workers.
THEOREM Exclusion == Spec => []MutualExclusion
<1>1. IInv => MutualExclusion
  BY DEF IInv, Safe, HolderInv, MutualExclusion
<1> QED BY <1>1, Invariant, PTL

\* The queue never stalls while the server runs, although push and pop share
\* one condition variable and wake one thread only: this is where
\* Cardinality(Workers) < 2 * Capacity is needed.
THEOREM NeverStalls == Spec => []NoStall
<1>1. ASSUME IInv, keepRunning PROVE NoStall
  <2>1. /\ TypeOK /\ HolderInv /\ SleepInv /\ CountInv /\ WakeInv
        /\ Cardinality(Workers) \in Nat /\ Asleep \in 0 .. Cardinality(Workers)
    BY <1>1, ThreadsAssumption, FS_CardinalityType, AsleepType DEF IInv, Safe, Asleep
  <2>2. ASSUME \A w \in Workers : w \in waiting PROVE Asleep = Cardinality(Workers)
    <3>1. waiting \cap Workers = Workers
      BY <2>2
    <3> QED BY <3>1, Zenon DEF Asleep
  <2>3. Cardinality(Workers) > 0
    BY <2>1, ThreadsAssumption, FS_EmptySet
  <2>4. ASSUME \A w \in Workers : w \in waiting, Pushing({"rear", "cload", "cstore", "signal"})
        PROVE PushingNow
    BY <2>4 DEF Pushing, PushingNow
  <2>5. ASSUME \A w \in Workers : w \in waiting
        PROVE ~Popping({"fload", "fstore", "cload", "cstore", "signal"})
    BY <2>1, <2>5 DEF Popping, SleepInv
  <2>6. pushed > popped => PushingNow \/ \E w \in Workers : Awake(w)
    BY <2>1, <2>2, <2>3, <2>4 DEF WakeInv, TypeOK, Pending, Awake
  <2>7. Main \in waiting => \E w \in Workers : Awake(w)
    <3>1. Main \in waiting => ~Pushing({"rear", "cload", "cstore", "signal"})
      BY <2>1 DEF Pushing, SleepInv
    <3> QED BY <2>1, <2>2, <2>3, <2>5, <3>1 DEF WakeInv, CountInv, TypeOK, Pending, Awake
  <2> QED BY <2>6, <2>7 DEF NoStall
<1>2. IInv => NoStall
  BY <1>1 DEF NoStall
<1> QED BY <1>2, Invariant, PTL

LEMMA TakeIsOldest ==
  ASSUME IInv, keepRunning, NEW w \in Workers, Take(w)
  PROVE  popped < pushed /\ queue[front] = popped + 1
<1>1. TypeOK /\ HolderInv /\ CountInv /\ CheckedInv /\ RingInv /\ pc[w] = "take"
  BY DEF IInv, Safe, Take, At
<1>2. mutex = w
  BY <1>1 DEF HolderInv, CriticalLabels, Threads
<1>3. Head = front /\ Pending \in 1 .. Capacity
  BY <1>1, <1>2, CapacityAssumption DEF Head, Popping, CheckedInv, CountInv, TypeOK, Pending
<1>4. Holds(queue, front, Pending, popped) /\ front \in Slots /\ popped \in Nat
  BY <1>1, <1>3 DEF RingInv, TypeOK
<1>5. queue[front] = popped + 1
  BY <1>3, <1>4, TakeOldest, Zenon
<1> QED BY <1>1, <1>3, <1>5 DEF Pending, TypeOK

\* While the server runs every pop takes the oldest pending task, for any
\* capacity of the ring and any number of workers.
THEOREM OldestFirst == Spec => PopsInOrder
<1>1. ASSUME IInv, NEW w \in Workers, keepRunning, Take(w)
      PROVE  popped < pushed /\ task'[w] = popped + 1
  <2>1. popped < pushed /\ queue[front] = popped + 1
    BY <1>1, TakeIsOldest
  <2> QED BY <1>1, <2>1 DEF Take, IInv, TypeOK
<1>2. IInv /\ [Next]_vars =>
        [\A w \in Workers : keepRunning /\ Take(w) =>
           popped < pushed /\ task'[w] = popped + 1]_vars
  BY <1>1
<1> QED BY <1>2, Invariant, PTL DEF Spec, PopsInOrder

\* The queue of task.c implements the command channel: whatever the workers
\* and main do, commands are received in the order sent, once each, and at
\* most Capacity are pending, until the server is stopped.
THEOREM Implements == Spec => ImplementsChannel
<1>1. Init => Channel!Init
  BY DEF Init, Channel!Init, Empty
<1>2. IInv /\ [Next]_vars => [Channel!Next]_(Channel!vars)
  <2> SUFFICES ASSUME IInv, [Next]_vars, ~UNCHANGED Channel!vars PROVE Channel!Next
    OBVIOUS
  <2>1. CASE ~keepRunning
    BY <2>1, StopsForGood DEF Channel!Next, Channel!Stopped, IInv, TypeOK, Channel!vars
  <2>2. CASE keepRunning
    <3>1. ASSUME NEW t \in Threads, Library(t) PROVE FALSE
      BY <3>1 DEF Library, Lock, Sleep, Wake, Signal, LoadCount, StoreCount, signals,
         history, Channel!vars
    <3>2. ASSUME MainStep PROVE Channel!Next
      <4>1. CASE FillSlot
        <5>1. Pending < Capacity
          BY <2>2, <4>1 DEF FillSlot, At, IInv, Safe, CheckedInv
        <5> QED BY <2>2, <4>1, <5>1 DEF FillSlot, signals, Pending, Channel!Next, Channel!Send
      <4> QED
        BY <3>1, <3>2, <4>1 DEF MainStep, MainLoop, EpollWait, PushCheck, WriteSlot,
           AdvanceRear, PushUnlock, Join, signals, history, Channel!vars, Threads
    <3>3. ASSUME NEW w \in Workers, WorkerStep(w) PROVE Channel!Next
      <4>1. CASE Take(w)
        <5>1. popped < pushed /\ queue[front] = popped + 1
          BY <2>2, <4>1, TakeIsOldest
        <5>2. Channel!Receive(w)
          BY <2>2, <4>1, <5>1 DEF Take, signals, Channel!Receive
        <5> QED BY <5>2 DEF Channel!Next
      <4> QED
        BY <3>1, <3>3, <4>1 DEF WorkerStep, WorkerLoop, PopCheck, PopQuit, LoadFront,
           StoreFront, PopUnlock, signals, history, Channel!vars, Threads
    <3>4. ASSUME NEW t \in Threads \cup {Cycle}, SigintFlag(t) PROVE Channel!Next
      BY <2>2, <3>4 DEF SigintFlag, history, Channel!Next, Channel!Stop
    <3>5. CASE SigintBroadcast
      BY <3>5 DEF SigintBroadcast, history, Channel!vars
    <3>6. ASSUME NEW t \in Threads, SpuriousWake(t) PROVE Channel!Next
      BY <3>6 DEF SpuriousWake, signals, history, Channel!vars
    <3> QED
      BY <3>2, <3>3, <3>4, <3>5, <3>6 DEF Next, vars, signals, history, Channel!vars
  <2> QED BY <2>1, <2>2 DEF IInv, TypeOK
<1> QED BY <1>1, <1>2, Invariant, PTL DEF Spec, ImplementsChannel, Channel!Spec
==============================================================================
