------------------------------- MODULE TaskQueue -------------------------------
(***************************************************************************)
(* The server's bounded queue of received commands (server/task.c), the    *)
(* threads that use it and the SIGINT handler that stops them: the main    *)
(* thread pushes what it receives from the clients (server/main.c), the    *)
(* workers pop (server/server.c).                                          *)
(*                                                                         *)
(* The grain is that of the C code as built: taking and releasing the      *)
(* mutex, waiting on and signalling the condition variable, and each load  *)
(* and each store of a shared field are steps of their own, because the    *)
(* code leaves the critical section early once keep_running is cleared     *)
(* and then reads and writes the queue without the mutex.                  *)
(*                                                                         *)
(* Tasks are numbered 1, 2, ... in the order in which they are pushed;     *)
(* only the identity of a task matters to the queue.                       *)
(***************************************************************************)
EXTENDS Integers, FiniteSets

CONSTANTS Workers,   \* the worker threads (NUM_WORKERS of them)
          Main,      \* the main thread
          Cycle,     \* the cycle thread, which does not use the queue
          Nobody,    \* "no thread"
          Capacity,  \* TASK_QUEUE_CAPACITY
          MaxTasks,  \* bound: tasks pushed in a behaviour
          MaxBatch   \* bound: tasks received from one epoll_wait

Threads == Workers \cup {Main}

ASSUME ThreadsAssumption ==
  /\ IsFiniteSet(Workers) /\ Workers # {}
  /\ Main \notin Workers
  /\ Cycle \notin Threads
  /\ Nobody \notin Threads \cup {Cycle}

\* Both sides wait on one condition variable: with fewer slots than this a
\* signal meant for one side could be used up by the other.
ASSUME CapacityAssumption ==
  /\ Capacity \in Nat \ {0}
  /\ Cardinality(Workers) < 2 * Capacity

ASSUME BoundsAssumption == MaxTasks \in Nat /\ MaxBatch \in Nat

Empty == 0   \* a slot no task was stored in yet (memset)
Torn == -1   \* a slot whose task is being copied in

VARIABLES
  queue,       \* q->queue, the ring
  front,       \* q->front
  rear,        \* q->rear
  count,       \* q->count
  mutex,       \* the thread holding q->mutex, or Nobody
  waiting,     \* the threads blocked on q->cond
  keepRunning, \* keep_running
  host,        \* the thread inside handle_sigint, or Nobody
  pc,          \* where each thread is
  reg,         \* the value each thread has loaded and not stored back yet
  task,        \* the task each worker popped last
  left,        \* the tasks main has still to push from this epoll_wait
  pushed,      \* how many tasks were stored in the ring
  popped       \* how many tasks were read out of it

ring == <<queue, front, rear, count>>
signals == <<keepRunning, host>>
history == <<task, pushed, popped>>
vars == <<ring, mutex, waiting, signals, pc, reg, left, history>>

Slots == 0 .. Capacity - 1

WorkerLabels ==
  {"loop", "lock", "check", "sleep", "wake", "quit", "take", "fload", "fstore",
   "cload", "cstore", "signal", "unlock", "done"}
MainLabels ==
  {"head", "epoll", "lock", "check", "sleep", "wake", "write", "fill", "rear",
   "cload", "cstore", "signal", "unlock", "join", "end"}

(***************************************************************************)
(* task_queue_init, and the threads as main starts them                    *)
(***************************************************************************)
Init ==
  /\ queue = [i \in Slots |-> Empty]
  /\ front = 0
  /\ rear = 0
  /\ count = 0
  /\ mutex = Nobody
  /\ waiting = {}
  /\ keepRunning = TRUE
  /\ host = Nobody
  /\ pc = [t \in Threads |-> IF t = Main THEN "head" ELSE "loop"]
  /\ reg = [t \in Threads |-> 0]
  /\ task = [w \in Workers |-> Empty]
  /\ left = 0
  /\ pushed = 0
  /\ popped = 0

(***************************************************************************)
(* Control.  A thread does not move while it runs the signal handler.      *)
(***************************************************************************)
At(t, label) == pc[t] = label /\ host # t
Goto(t, label) == pc' = [pc EXCEPT ![t] = label]
Branch(t, condition, yes, no) == Goto(t, IF condition THEN yes ELSE no)

(***************************************************************************)
(* The library calls both sides make.  pthread_mutex_unlock does not ask   *)
(* who holds the mutex; pthread_cond_signal wakes any one waiter.          *)
(***************************************************************************)
Lock(t) ==
  /\ At(t, "lock")
  /\ mutex = Nobody
  /\ mutex' = t
  /\ Goto(t, "check")
  /\ UNCHANGED <<ring, waiting, signals, reg, left, history>>

Sleep(t) ==
  /\ At(t, "sleep")
  /\ mutex' = Nobody
  /\ waiting' = waiting \cup {t}
  /\ Goto(t, "wake")
  /\ UNCHANGED <<ring, signals, reg, left, history>>

WakeUnlocked(t) ==  \* mutant
  /\ At(t, "wake")
  /\ t \notin waiting
  /\ mutex' = t
  /\ Goto(t, "check")
  /\ UNCHANGED <<ring, waiting, signals, reg, left, history>>

WakeUnchecked(t) ==  \* mutant
  /\ At(t, "wake")
  /\ t \notin waiting
  /\ mutex = Nobody
  /\ mutex' = t
  /\ Goto(t, IF t = Main THEN "write" ELSE "quit")
  /\ UNCHANGED <<ring, waiting, signals, reg, left, history>>

Wake(t) ==
  /\ At(t, "wake")
  /\ t \notin waiting
  /\ mutex = Nobody
  /\ mutex' = t
  /\ Goto(t, "check")
  /\ UNCHANGED <<ring, waiting, signals, reg, left, history>>

SignalMainOnly(t) ==  \* mutant
  /\ At(t, "signal")
  /\ IF t = Main \/ Main \notin waiting
       THEN UNCHANGED waiting
       ELSE waiting' = waiting \ {Main}
  /\ Goto(t, "unlock")
  /\ UNCHANGED <<ring, mutex, signals, reg, left, history>>

SignalWorkersOnly(t) ==  \* mutant
  /\ At(t, "signal")
  /\ IF t = Main /\ waiting # {}
       THEN \E u \in waiting : waiting' = waiting \ {u}
       ELSE UNCHANGED waiting
  /\ Goto(t, "unlock")
  /\ UNCHANGED <<ring, mutex, signals, reg, left, history>>

Signal(t) ==
  /\ At(t, "signal")
  /\ \/ waiting = {} /\ UNCHANGED waiting
     \/ \E u \in waiting : waiting' = waiting \ {u}
  /\ Goto(t, "unlock")
  /\ UNCHANGED <<ring, mutex, signals, reg, left, history>>

\* count++ and count--, a load and a store each
LoadCount(t) ==
  /\ At(t, "cload")
  /\ reg' = [reg EXCEPT ![t] = count]
  /\ Goto(t, "cstore")
  /\ UNCHANGED <<ring, mutex, waiting, signals, left, history>>

StoreCount(t) ==
  /\ At(t, "cstore")
  /\ count' = reg[t] + (IF t = Main THEN 1 ELSE -1)
  /\ Goto(t, "signal")
  /\ UNCHANGED <<queue, front, rear, mutex, waiting, signals, reg, left, history>>

(***************************************************************************)
(* task_queue_push and the loop of main around it                          *)
(***************************************************************************)
MainLoop ==
  /\ At(Main, "head")
  /\ Branch(Main, keepRunning, "epoll", "join")
  /\ UNCHANGED <<ring, mutex, waiting, signals, reg, left, history>>

\* epoll_wait times out after a second (n = 0) or reports n clients whose
\* data becomes a task; keep_running is not looked at again within a batch. That
\* it fails other than by a signal, which ends the loop, is left out.
EpollWait ==
  /\ At(Main, "epoll")
  /\ \E n \in 0 .. MaxBatch :
       /\ pushed + n <= MaxTasks
       /\ left' = n
       /\ Branch(Main, n = 0, "head", "lock")
  /\ UNCHANGED <<ring, mutex, waiting, signals, reg, history>>

PushCheckLate ==  \* mutant
  /\ At(Main, "check")
  /\ Branch(Main, count = Capacity + 1, "sleep", "write")
  /\ UNCHANGED <<ring, mutex, waiting, signals, reg, left, history>>

PushCheck ==
  /\ At(Main, "check")
  /\ Branch(Main, count = Capacity, "sleep", "write")
  /\ UNCHANGED <<ring, mutex, waiting, signals, reg, left, history>>

\* the task is a structure of 8 KB: copying it takes a while
WriteSlot ==
  /\ At(Main, "write")
  /\ queue' = [queue EXCEPT ![rear] = Torn]
  /\ Goto(Main, "fill")
  /\ UNCHANGED <<front, rear, count, mutex, waiting, signals, reg, left, history>>

FillSlot ==
  /\ At(Main, "fill")
  /\ queue' = [queue EXCEPT ![rear] = pushed + 1]
  /\ pushed' = pushed + 1
  /\ Goto(Main, "rear")
  /\ UNCHANGED <<front, rear, count, mutex, waiting, signals, reg, left, task, popped>>

AdvanceRear ==
  /\ At(Main, "rear")
  /\ rear' = (rear + 1) % Capacity
  /\ Goto(Main, "cload")
  /\ UNCHANGED <<queue, front, count, mutex, waiting, signals, reg, left, history>>

PushUnlock ==
  /\ At(Main, "unlock")
  /\ mutex' = Nobody
  /\ left' = left - 1
  /\ Branch(Main, left > 1, "lock", "head")
  /\ UNCHANGED <<ring, waiting, signals, reg, history>>

\* pthread_join of every worker
Join ==
  /\ At(Main, "join")
  /\ \A w \in Workers : pc[w] = "done"
  /\ Goto(Main, "end")
  /\ UNCHANGED <<ring, mutex, waiting, signals, reg, left, history>>

(***************************************************************************)
(* task_queue_pop and the loop of a worker around it                       *)
(***************************************************************************)
WorkerLoop(w) ==
  /\ At(w, "loop")
  /\ Branch(w, keepRunning, "lock", "done")
  /\ UNCHANGED <<ring, mutex, waiting, signals, reg, left, history>>

PopCheckIgnoresStop(w) ==  \* mutant
  /\ At(w, "check")
  /\ Branch(w, count = 0, "sleep", "quit")
  /\ UNCHANGED <<ring, mutex, waiting, signals, reg, left, history>>

PopCheck(w) ==
  /\ At(w, "check")
  /\ Branch(w, count = 0 /\ keepRunning, "sleep", "quit")
  /\ UNCHANGED <<ring, mutex, waiting, signals, reg, left, history>>

\* if (!keep_running) unlock, and no return: the pop goes on either way
PopQuit(w) ==
  /\ At(w, "quit")
  /\ IF keepRunning THEN UNCHANGED mutex ELSE mutex' = Nobody
  /\ Goto(w, "take")
  /\ UNCHANGED <<ring, waiting, signals, reg, left, history>>

Take(w) ==
  /\ At(w, "take")
  /\ task' = [task EXCEPT ![w] = queue[front]]
  /\ popped' = popped + 1
  /\ Goto(w, "fload")
  /\ UNCHANGED <<ring, mutex, waiting, signals, reg, left, pushed>>

LoadFront(w) ==
  /\ At(w, "fload")
  /\ reg' = [reg EXCEPT ![w] = front]
  /\ Goto(w, "fstore")
  /\ UNCHANGED <<ring, mutex, waiting, signals, left, history>>

StoreFrontUnwrapped(w) ==  \* mutant
  /\ At(w, "fstore")
  /\ front' = reg[w] + 1
  /\ Goto(w, "cload")
  /\ UNCHANGED <<queue, rear, count, mutex, waiting, signals, reg, left, history>>

StoreFront(w) ==
  /\ At(w, "fstore")
  /\ front' = (reg[w] + 1) % Capacity
  /\ Goto(w, "cload")
  /\ UNCHANGED <<queue, rear, count, mutex, waiting, signals, reg, left, history>>

PopUnlock(w) ==
  /\ At(w, "unlock")
  /\ mutex' = Nobody
  /\ Goto(w, "loop")
  /\ UNCHANGED <<ring, waiting, signals, reg, left, history>>

(***************************************************************************)
(* handle_sigint, run by whichever thread the signal interrupts.  It takes *)
(* no mutex: the flag and the broadcast are two steps that fall anywhere   *)
(* among those of the other threads.  Bound: one SIGINT in a behaviour.     *)
(***************************************************************************)
SigintFlag(t) ==
  /\ keepRunning
  /\ t \in {Cycle} \cup {u \in Threads : pc[u] \notin {"done", "end"}}
  /\ keepRunning' = FALSE
  /\ host' = t
  /\ UNCHANGED <<ring, mutex, waiting, pc, reg, left, history>>

SigintBroadcast ==
  /\ host # Nobody
  /\ waiting' = {}
  /\ host' = Nobody
  /\ UNCHANGED <<ring, mutex, keepRunning, pc, reg, left, history>>

\* pthread_cond_wait may return though nobody signalled
SpuriousWake(t) ==
  /\ t \in waiting
  /\ waiting' = waiting \ {t}
  /\ UNCHANGED <<ring, mutex, signals, pc, reg, left, history>>

(***************************************************************************)
(* The specification.  Every thread keeps running (POSIX schedules it, and *)
(* epoll_wait has a timeout); a signal and a spurious wake-up need never   *)
(* happen, and spurious wake-ups do not go on for ever.                    *)
(***************************************************************************)
Library(t) ==
  \/ Lock(t) \/ Sleep(t) \/ Wake(t) \/ Signal(t) \/ LoadCount(t) \/ StoreCount(t)

MainStep ==
  \/ MainLoop \/ EpollWait \/ PushCheck \/ WriteSlot \/ FillSlot \/ AdvanceRear
  \/ PushUnlock \/ Join \/ Library(Main)

WorkerStep(w) ==
  \/ WorkerLoop(w) \/ PopCheck(w) \/ PopQuit(w) \/ Take(w) \/ LoadFront(w)
  \/ StoreFront(w) \/ PopUnlock(w) \/ Library(w)

Next ==
  \/ MainStep
  \/ \E w \in Workers : WorkerStep(w)
  \/ SigintBroadcast
  \/ \E t \in Threads \cup {Cycle} : SigintFlag(t)
  \/ \E t \in Threads : SpuriousWake(t)

Spec == Init /\ [][Next]_vars

Fairness ==
  /\ WF_vars(MainStep)
  /\ \A w \in Workers : WF_vars(WorkerStep(w))
  /\ WF_vars(SigintBroadcast)
  /\ <>[][\A t \in Threads : ~SpuriousWake(t)]_vars

FairSpec == Spec /\ Fairness

--------------------------------------------------------------------------------
(***************************************************************************)
(* Properties                                                              *)
(***************************************************************************)
TypeOK ==
  /\ queue \in [Slots -> Int]
  /\ front \in Slots
  /\ rear \in Slots
  /\ count \in Int
  /\ mutex \in Threads \cup {Nobody}
  /\ waiting \subseteq Threads
  /\ keepRunning \in BOOLEAN
  /\ host \in Threads \cup {Cycle, Nobody}
  /\ pc \in [Threads -> WorkerLabels \cup MainLabels]
  /\ pc[Main] \in MainLabels
  /\ \A w \in Workers : pc[w] \in WorkerLabels
  /\ reg \in [Threads -> Int]
  /\ \A w \in Workers : pc[w] = "fstore" => reg[w] \in Slots
  /\ task \in [Workers -> Int]
  /\ left \in Nat
  /\ pc[Main] \in {"head", "epoll", "join", "end"} \/ left > 0
  /\ pushed \in Nat
  /\ popped \in Nat

CriticalLabels ==
  {"check", "sleep", "quit", "take", "fload", "fstore", "write", "fill", "rear",
   "cload", "cstore", "signal", "unlock"}

\* While the server runs, at most one thread is between the lock and the
\* unlock of task_queue_push and task_queue_pop, waits included.
MutualExclusion ==
  keepRunning =>
    \A t, u \in Threads :
      pc[t] \in CriticalLabels /\ pc[u] \in CriticalLabels => t = u

Awake(t) == t \notin waiting
PushingNow == pc[Main] \in {"rear", "cload", "cstore", "signal"}

\* The queue never stalls while the server runs: as long as a stored task
\* waits to be popped some worker is awake to come for it, unless main is
\* still on its way to the signal of that very push; and main never sleeps
\* on a full queue with every worker asleep as well.  Both sides share one
\* condition variable, so a signal can reach the wrong side.
NoStall ==
  keepRunning =>
    /\ pushed > popped => PushingNow \/ \E w \in Workers : Awake(w)
    /\ Main \in waiting => \E w \in Workers : Awake(w)

\* While the server runs, a pop takes the oldest task that was pushed and
\* not yet popped: none is lost, repeated, reordered or read half written.
PopsInOrder ==
  [][\A w \in Workers : keepRunning /\ Take(w) =>
       popped < pushed /\ task'[w] = popped + 1]_vars

\* The queue implements the channel of commands it stands for.
Channel == INSTANCE CommandChannel
             WITH running <- keepRunning, sent <- pushed, received <- popped,
                  got <- task
ImplementsChannel == Channel!Spec

\* Every task pushed is popped in the end, unless the server is stopped
\* first: no worker starves the queue and no wake-up is lost.
EveryTaskPopped ==
  \A k \in 1 .. MaxTasks : pushed >= k ~> popped >= k \/ ~keepRunning

\* README: the server "Handles server shutdown": once SIGINT has arrived
\* every worker leaves its loop and main ends.
ShutsDown == ~keepRunning ~> pc[Main] = "end"

\* An idle server does shut down: if SIGINT finds main waiting in epoll_wait,
\* no task pending and no worker just between its test of keep_running and
\* its wait, then every worker pops one more time and leaves, and main ends,
\* whatever the clients send meanwhile, as long as one epoll_wait reports no
\* more of it than the queue can hold (MAX_EVENTS is 64, half the capacity).
Idle ==
  /\ count = 0
  /\ pc[Main] \in {"head", "epoll"}
  /\ \A w \in Workers : pc[w] # "sleep"
IdleShutsDown == host # Nobody /\ Idle ~> pc[Main] = "end"
================================================================================
