# Verification of the owner-based ball game

TLA+ models of the ball game's server, the TLC configurations that model-check
them on small instances, and proofs, checked by TLAPS, of the properties that
matter most. Paths are relative to the repository; the C sources are under
`src/`, so `src/server/task.c` is the file `src/src/server/task.c` of
`PROJECT.json`.

## The system

A TCP server keeps balls that bounce on a field of 1000 x 1000. Each ball is
owned by the client (the socket) that created it. A client adds and deletes its
balls, speeds them up and slows them down with one-letter commands; the server
moves all balls every 30 ms and sends all clients the positions. Clients draw
them on the Linux framebuffer. The game itself is C.

The repository also holds the documentation that Doxygen made of it
(`docs/html`), with the JavaScript of its search: `docs/html/search/search.js` and
the data it searches. It came from a generator, but it is the only other
program here with state, events and timers, and every page of the documentation
depends on it, so it is modelled too. The two programs do not interact.

### Threads of the server

| thread | code | what it does |
|---|---|---|
| main | `server/main.c` 103-171 | `epoll_wait` (1 s timeout); accepts clients, receives commands and pushes them on the task queue, removes clients whose `recv` returns nothing |
| 4 workers | `server/server.c` 170-244 | pop a task, parse and execute it, answer `OK`, broadcast the balls |
| cycle | `server/server.c` 246-262 | every 30 ms moves the balls and broadcasts them |
| SIGINT handler | `server/main.c` 15-22 | clears `keep_running`, broadcasts the queue's condition variable; runs inside any thread |

They share the task queue (mutex and condition variable of its own), the ball
list (`mutex_ball`), the client list (`mutex_client`), the sockets, and
`keep_running`, which nothing protects.

### Components

| component | state | operations | hard behaviour |
|---|---|---|---|
| Task queue (`server/task.c`) | ring of 128 tasks, `front`, `rear`, `count`, mutex, condition variable | `task_queue_init`, `_push`, `_pop`, `_destroy` | producers and consumers on one condition variable; a full ring; `pop` goes on without the mutex once the server is stopped |
| Ball physics (`server/loaclball.c`, `localball_list.c`) | centre, radius, velocity | create, move, double and halve the speed | bouncing at speeds wider than the field; clamp tested before doubling; modulus with a negative or zero divisor |
| Ball list (`server/localballmanager.c`, `localball_list.c`) | linked list with `head`, `tail`, `total_count` | add, delete the newest of an owner, delete all of an owner, serialize | deleting several nodes with predecessors recorded earlier; traversal without the mutex; ids taken from a counter that goes down |
| Client list (`server/client_list_manager.c`) | linked list of sockets, `client_count` | add, remove by socket, free | added to without the mutex, traversed without it, and the cycle thread releases a mutex it does not hold (`server.c` 252) |
| Event loop and commands (`server/main.c`, `server.c`) | sockets, epoll set | accept, receive, disconnect, parse, dispatch | two commands of one client run in either order; a descriptor is reused while tasks still name it |
| Broadcast (`server/server.c` 95-148) | none | to one owner's clients, to all | `OK` replies and frames of several threads share one stream; buffer of 8 KB without a bound |
| Search panel (`docs/html/search/search.js`, class `SearchBox`) | search field, filter, two timers, three windows | focus, blur, keys, clicks, mouse over and out, `Search`, `Activate` | timers that outlive what they were set for; four ways to close the results; events nested in handlers |
| Search results (`search.js`, class `SearchResults`, in a frame) | rows displayed, rows open, focus, last key | `createResults`, `Search`, `Nav`, `NavChild`, `Toggle` | encoded comparison; hidden rows between displayed ones; key repetition |
| Client (`client/*.c`) | list of balls to draw, `keep_running` | three threads: render, receive, send; exit with `x` | TCP chunks taken for frames; `x` sent twice; a frame that does not parse |
| Test client (`test_client/*.c`) | as the client | as the client, without drawing | the same |
| Framebuffer drawing (`shared/fbDraw.c`), log (`shared/log.c`) | mapped memory, a file | draw, append a line | none: no protocol, no state shared with the above |

What makes each correct:

* Task queue: a pushed task is popped once, by one worker, oldest first; the
  queue never stalls; the threads exclude each other; a stopped server ends.
* Ball physics: a ball stays on the field and keeps moving, as fast on one axis
  as on the other.
* Ball list: after every operation the list holds the right balls in the right
  order, head, tail and count agree, and nobody reads a freed ball.
* Client list: the same, and it has a node for each connected client and no other;
  a removal and an addition do not overlap.
* Event loop and commands: a client's commands act on its own balls, in the
  order sent; when a client is gone so are its balls.
* Broadcast: all clients get the same, true frames, and no client holds up the
  others.
* Client: it ends when its user leaves or the server does, and does not go on
  drawing balls that are gone.
* Search panel: what is typed is searched for, and closing resets everything.
* Search results: the rows that match are displayed, and the focus follows the
  keys through what is displayed.

`PROJECT.json` lists every hazard with its line under `hazards`.

## Modules

| module | models |
|---|---|
| `CommandChannel` | abstract: commands are handed to workers one by one, oldest first, at most `Capacity` pending |
| `TaskQueue` | `task.c` with the loops of main and of the workers around it, SIGINT and shutdown; implements `CommandChannel` |
| `TaskQueueProofs` | the inductive invariant of the running queue and the theorems on it |
| `BallMotion` | one ball: creation, frames, speed commands |
| `BallStore` | abstract: the sequence of balls, an owner's newest or oldest ball goes away |
| `BallList`, `BallListProofs` | the linked list on the heap with its operations node by node, beside a traversal without the mutex; implements `BallStore`; theorems |
| `ClientList`, `ClientListProofs` | the linked list of clients, the threads that change and walk it, and `mutex_client` as they use it; theorems |
| `Session`, `SessionProofs` | clients, connections and descriptors, the epoll loop, tasks, workers, the balls of each owner; theorems |
| `BallStream` | replies and frames on their way through the sockets, and the client's parser |
| `BallProofs` | theorems on `BallMotion` and `BallStream` |
| `SearchBox`, `SearchBoxProofs` | the search panel of the documentation with its timers; theorems |
| `ResultCursor` | abstract: a cursor in the list of the entries shown |
| `SearchResults`, `SearchResultsProofs` | the results frame: matching and moving the focus; implements `ResultCursor`; theorems |
| `SequenceLemmas` | lemmas that the proofs share: linked lists as sequences of nodes, induction on sets of numbers, what `FlattenSeq` returns |
| `MCTaskQueue`, `MCBallMotion`, `MCBallList`, `MCClientList`, `MCSession`, `MCBallStream`, `MCSearchBox`, `MCSearchResults` | instances for TLC |

Operators with the comment `mutant` are wrong variants of the definition below
them. No specification uses them: they record which slip of the code each
property would catch.

### TaskQueue

The grain is that of the machine: lock, unlock, wait, signal, and each load and
store of a shared field are steps. In the running server a coarser grain would
do, as the mutex hides the steps from each other, but that is what has to be
shown; and after SIGINT `task_queue_pop` unlocks the mutex without returning
(`task.c` 41-43), so that several workers and main update `front` and `count` at
the same time.

| code | action |
|---|---|
| `while (keep_running)` of main and the workers | `MainLoop`, `WorkerLoop` |
| `epoll_wait`, and the tasks its events become | `EpollWait` |
| `pthread_mutex_lock`, `_unlock` | `Lock`, `PushUnlock`, `PopUnlock` |
| `while (count == CAPACITY)`, `while (count == 0 && keep_running)` | `PushCheck`, `PopCheck` |
| `pthread_cond_wait` | `Sleep`, then `Wake` once signalled and the mutex is free; `SpuriousWake` |
| `pthread_cond_signal` | `Signal`: any one waiter, of either side |
| `queue[rear] = task`, `rear = ...`, `count++` | `WriteSlot`, `FillSlot`, `AdvanceRear`, `LoadCount`, `StoreCount` |
| `if (!keep_running) unlock` | `PopQuit` |
| `task = queue[front]`, `front = ...`, `count--` | `Take`, `LoadFront`, `StoreFront`, `LoadCount`, `StoreCount` |
| `handle_sigint` | `SigintFlag`, `SigintBroadcast`, inside any thread, the cycle thread included, that stands still meanwhile |
| `pthread_join` | `Join` |

Tasks are numbered in the order of the pushes. `Torn` is a slot whose 8 KB are
being copied. `pushed`, `popped` and `task` (of a worker: its local variable)
record what went in and came out. That `epoll_wait` fails other than by a signal and
so ends main's loop (`main.c` 105-108) is left out. The copy out (`Take`) is one step: under the
mutex nobody can tell, and after SIGINT no passing property speaks of the value.
Executing a task (parsing, sockets, ball list) touches nothing of the queue and
is left out between `PopUnlock` and `WorkerLoop`.

### BallMotion

One ball (`MotionInit`, `MotionNext`, `MotionSpec`), its frame (`Move`), its owner's two commands in any order. The C code
keeps the position in a `float`: integers are added to an integer far below
2^24, which is exact. `HitsWall`, `Landing` and `Rebound` are the two `if`s per
axis of `move_logical_ball`; `Doubled` and `Halved` the branches of the speed
commands, with C's division towards zero.

### BallList

`head`, `tail`, `total`, `next`, `ball` and `allocated` are the manager and the
heap; a freed block loses its contents, and a read of one yields anything. `op` is
the operation in progress, with its local variables; `mutex_ball` admits one at
a time, so that one variable is enough, and a step is the visit of one node.
`reader` is a worker in `broadcast_ball_state`, which holds no mutex: its steps
fall anywhere between those of `op`.
`list` (the sequence of linked nodes, maintained by the operations) and
`before` (`list` and the owners when the operation began) are history variables: `Linked` says
that the pointers describe `list`, `RemovesRightBalls` compares `list` with
`before`. `delete_ball` prints the id of a node after it has freed it
(`localballmanager.c` 86); nothing depends on what it prints, and the model leaves it out.

`malloc` is taken never to fail. `appendBall` (`localball_list.c` 22) reports a
failure and goes on with a NULL tail; no property of the list survives that.

### ClientList

The client list is the other way round from the ball list: there is a mutex, but
the code does not use it as one. `job` says what each thread is at, with its
local variables; a step is one store that links or unlinks, the visit of one
node, or one call.

| code | action |
|---|---|
| `accept`, `epoll_ctl(ADD)` (`main.c` 114-121) | `Accept` |
| `add_client`, `append_client`: read `head`, `malloc`, write `next`, `tail`, `head` (`client_list_manager.c` 20-42) | `CreateNode`, `LinkNode`, `MoveTail`, `StoreHead`; no mutex |
| `client_count++` under the mutex (`main.c` 123-127) | `CountLock`, `CountClient`, `Unlock` |
| removal by main (`main.c` 138-151) or by a worker (`server.c` 191-207) | `Leave`, `LeaveLock`, `Walk`, `Unlink`, `Close`, `Free`, `Unlock` |
| `broadcast_ball_state` of a worker (`server.c` 95-132) | `Broadcast`, `Send`; no mutex |
| a frame of the cycle thread (`server.c` 249-259) | `Frame` (unlocks), `FrameBroadcast`, `Send`, `Unlock` |

`mutex` is the thread the mutex was last given to; `Release` sets it free
whoever asks, as glibc does for a plain mutex. The cycle thread releases it once
before and once after each broadcast and never takes it (`server.c` 252 calls
`unlock` where `lock` must have been meant). A removal may be for a descriptor
that no client has: a task or an event can be older than the descriptor's owner.
`Unlink` is the store that takes a node out and the store to `tail` in one: only
main's append reads `tail`, and main's append beside a removal is a race anyway.

`list` and `races` are history variables. `races` records the two ways in which one
thread can come to change the list while another does: main links a client while a
removal is under way, or a removal begins while main links (`"append"`); and a thread
releases the mutex that another holds for its change (`"release"`). No guard reads
it. That there is no third way is a property (`ChangesApart`), and the other properties
promise what the code keeps until the first race.

### Session

The composition of the server's parts as a client meets them. The queue is what
`TaskQueue` was shown to implement, a bounded FIFO; the two lists are what their
operations leave under the mutexes. What is new is how they are addressed: a
client is a descriptor number everywhere, in the epoll set, in a batch of events,
in tasks and as the owner of balls, and the numbers are used again.

| code | action |
|---|---|
| `connect`; `send` of a command (`client/client.c` 142-149) | `Connect`, `SendCommand` |
| `x` typed, and the `x` that the sender always sends last (147-155) | `TypeExit`, `SendLastExit` |
| the receiver's `recv` returns 0 (92-99) | `Finish`; `Crash` when the process is killed |
| `epoll_wait` on edge-triggered sockets (`server/main.c` 104) | `EpollWait`: a batch `events` of descriptors with a new edge, which main handles in any order |
| `accept`, registering, listing (114-126) | `Accept`: the lowest free descriptor; `AcceptNone`: `accept` fails |
| the first balls (127-131) | `Greet`, before main does anything else; workers run in between |
| `recv`, and the task made of what it returns (135, 162-166) | `Receive`, then `Push` when the queue has room |
| `recv` returns 0 or -1 (138-151) | `Disconnect`, then `Purge` |
| `task_queue_pop`, `parseCommand` and dispatch (`server/server.c` 175-241) | `Pop`, `Reject`, `Add`, `Delete`, `Exit`, then `Purge` |

The removal of a client and the deletion of its balls are two critical sections,
so two steps. `unread` is the receive buffer of the connection: one `recv` takes
all of it, so that several commands may become one task, which `parseCommand`
rejects, unless it begins with `x:`. Such a line (`"x:N"`) is an exit to the server and not to the
client, which goes on: its user is `"parting"`. `Lines` are the lines that users type. Start
balls and counts are one ball; the speed commands and unknown letters change neither owners
nor connections and are left out.

Descriptors are used again at once, as in the code. What the server cannot know is history, and no guard reads it:
`from` in a task and in `greeting` (which client sent it), `of` in a ball (which client it was added
for), `late` (that this client was not connected any more), `swallowed`, and `heirs`: the
clients that were given a descriptor while a task, an event of the batch or a removal under way
still named it. The properties say that what goes wrong with used numbers goes wrong for heirs, and
for nobody else.

### BallStream

The way back: what the server sends and what a client makes of it.

| code | action |
|---|---|
| `accept`, listing (`server/main.c` 114-126); first balls under `mutex_ball` (127-130) | `Connect`; `FirstBalls` |
| a command under `mutex_ball` (`server/server.c` 216-226); a wrong one (184-189) | `Execute`; `Reject` |
| the `OK` reply (235-237) | `ReplyTo` |
| `broadcast_ball_state`: each client's own balls, no mutex (95-132) | `SerializeOwn`, `SendOwn`, client by client |
| a frame of the cycle thread, `mutex_ball` held (249-258) | `StartFrame`, then `SendFrame` client by client |
| `send` on a socket that main made non-blocking (`main.c` 24-27) | `Put`: what fits, the rest is lost |
| `recv`, `updateBallListFromSerialized` (`client/client.c` 83-108, `screenballmanager.c` 81-104) | `Recv`: any number of pieces, which replace the list |

`stream` is the sequence of pieces sent to a client and not read. A ball is two
pieces, the second of which ends with the bar, so that a read or a write can end
within it; a reply is one piece without a bar, so that it runs into the next ball. A
token that is not exactly a ball becomes `Garbage`: `sscanf` leaves fields of an
uninitialized variable, which in practice hold what the stack holds. Where a real cut
falls just before the bar, `strtok` still gives the whole ball and nothing else; the model
cuts within the numbers, and both parts are `Garbage`. A worker's frame names the owner where the cycle thread's
names the id; the client shows neither, and both are the ball. Balls do not move
(`BallMotion` has that), a command concerns one ball, nobody leaves (`Session`), and
the workers' walk over the list of balls is one step per client (`BallList` has its
steps). Without clients the cycle thread sends nothing, and its step is left out.

### SearchBox and SearchResults

JavaScript handlers run one at a time, so an action is a whole handler, with the
handlers it triggers in turn: `blur()` and `focus()` call `Activate` in the middle of
others (`KeyUpDown`, `KeyUpEscape`, `SelectEnter`). What interleaves are user events,
`keyTimeout`, `hideTimeout` and the loading of the frame. Delays are left out: a timer
fires at any time after it was set, so that what the panel promises cannot rest
on 500 ms being longer than 300. An `Edit` (key down) and the comparison (key up)
are different actions, because anything may happen in between; `unread` records
that. `cancelled` is history: Shift with Down or Enter has cancelled a search to come
(`search.js` 178-200), and nothing has searched or compared since. `FrameLoaded` is the
arrival of another page: sent to the page that it shows, the frame keeps its document. `Text` is a set of texts of which only the functions `Trim` and `Compact` and
the sections that list its first character matter.

`SearchResults` keeps texts as sequences of character codes, as the rows are found
by comparing the encodings that `convertToId` makes. `NavItem` and `NavChild` are
`Nav` and `NavChild` for one key, shared by key downs and key repetitions.

## What the runs check

| run | instance | what it shows |
|---|---|---|
| `queue_running` | 3 workers, 2 slots, 4 tasks, batches of 2 | `MutualExclusion`, `NoStall`, `PopsInOrder`, `ImplementsChannel`, `EveryTaskPopped` and the types, while the server runs |
| `queue_idle_stop` | 2 workers, 2 slots, 2 tasks, all interleavings after SIGINT | an idle server ends (`IdleShutsDown`) |
| `queue_stop` | the same | `ShutsDown` fails |
| `ball_motion` | field 17, limit 5, radii -1, 0, 1, 3 | `InField`, `EqualSpeeds`, `BounceCostsOneFrame` |
| `ball_list` | 4 blocks, 2 owners, counts 1 to 3, with the traversal | `Linked`, `RemovesRightBalls`, `StepsToLiveNodes`, `ImplementsStore` |
| `clients_until_race` | main, the cycle thread and two workers, 3 sockets, 3 blocks, until the first race | `ChangesApart`, `WholeUntilRace`, `StepsToLiveNodes` |
| `clients_race` | 2 workers, 2 sockets, 3 blocks, no restriction | `Linked` fails |
| `session` | 2 clients, 2 descriptors, 2 workers, a queue of one task | `BallsOfClient`, `KeepsItsBalls`, `DropsOnlyHeirs`, `LeaverIsDropped` |
| `session_stale_names` | the same | `DropsOnlyLeavers` fails |
| `stream` | 2 clients, one of which reads nothing; a worker, 2 balls, a connection of 4 pieces | `FrameIsCurrent`, `GoneBallsVanish`, `NobodyHeldUp` |
| `search_box` | 6 texts, 2 filters, 3 timers | `ClosedIsReset`, `TextIsActive`, `TypedIsSearched`, `RemembersLiveTimer`, `KeptUnderMouse` |
| `search_results` | 4 excerpts of the shipped documents, 8 queries | `RowsMatch`, `FocusShown`, `UpMovesUp`, `ImplementsCursor` |

### Bounds, and why they are enough

* Workers, slots, tasks: two slots are the smallest ring in which `front` and
  `rear` differ, wrap around and fill up within a batch; four tasks go around it
  twice. Three workers are enough for a signal to reach a wrong
  waiter while another right one sleeps. The real values are 4 workers and 128
  slots; `CapacityAssumption` (fewer workers than twice the slots) is what the
  proof needs of them, and 3 < 4 and 2 < 4 satisfy it in the runs as 4 < 256 does
  in the program.
* `MaxBatch` bounds the events of one `epoll_wait` (64 in the code, half the
  capacity). `IdleShutsDown` needs a batch to fit the queue, as in the program:
  a larger batch would leave main waiting for a slot with all workers gone.
* One SIGINT in a behaviour. A second one would only broadcast once more.
* `WhileRunning` (constraint of `queue_running`): the states
  just after SIGINT are checked and their successors are not explored. The
  properties of this run promise something of the running server only, and
  the temporal one is satisfied from `~keepRunning` on, so nothing is missed;
  the other runs on the queue explore shutdown.
* Field 17 with speeds up to 10 has balls slower and faster than the free width
  of the field (11 for radius 3), even and odd positions and a ball larger and
  smaller than its step. A radius of -1 is what a command may name.
* Four blocks: an owner's two balls can be adjacent, apart, first, last or in the
  middle between another's, and a node can be removed before, at and behind the
  traversal and its block reused. A count of 3 exceeds what an owner has.
* Three sockets: a client can be removed at the head, in the middle and at the
  tail, and accepted again while a removal by its old descriptor waits. Three blocks and
  sockets: a block is in use until after its socket is closed, so that accepting may have
  to wait for a block, and the one freed last is used again while a broadcast stands on it.
  Two workers besides main and the cycle thread: three threads that remove, three that
  broadcast, and two that wait for the mutex while a third has it taken away.
* `NoRaceYet` (constraint of `clients_until_race`): `races` only grows, and past the first race
  the properties of this run claim nothing. The states in which a race has just
  happened, and the steps into them, are checked; their successors are not explored.
* `session`: one client plays a command and leaves, the other comes and goes; that
  is enough for its `x`, its last command and the end of its connection to be in
  the queue, in two workers and in main at once, and for the other to get its
  descriptor before or after its balls are deleted. A queue of one task fills up
  while main is within a batch. `Lines` is `a` and `d` here; `x:N` is in the proofs only. `MaxCommands` is the only bound on a client;
  connecting twice would be one more client.
* `stream`: the connection of the reader holds a frame of two balls exactly, so that
  whatever is unread before a frame cuts it; the other's holds nothing more, like one
  whose client has stopped. `MaxBalls` bounds the balls ever added, so a client
  connects only while its first ones are left of it (`Due` keeps them for the one
  that is joining). With one first ball instead of `START_BALL_COUNT` = 5 there is
  room for an `a`.
* `search_box`: texts that differ in leading, inner and only spaces, the label
  itself, and a text that only the first filter lists. Three timers: two that the
  panel forgot (one search choosing a filter leaves one running) besides the one
  it remembers; when none is free the event that needs one waits.
* `search_results`: excerpts of `all_1.js`, `all_2.js` and `pages_0.js` in their order and with
  their numbers, the names shortened. Rows with one, two and three places; the page
  "Ball Game" after the alphabet, so that "bl" displays it below a hidden row, which is
  itself below a row that can be opened (the hidden one has one place or two);
  queries that match all rows, some, none; capitals, surrounding spaces, a space
  inside, an underscore, one that equals an id including its number, and two that go on from a name into the
  number of its id (`c_d&`, as `cmd_del&` in the repository).
* Symmetry is used in runs without liveness properties, over heap blocks, owners,
  sockets and timers, which the specifications treat alike.

### Fairness

`FairSpec` of `TaskQueue` lets every thread that can take a step take one in the
end (`WF_vars` of main's and of each worker's steps): POSIX schedules them,
`epoll_wait` returns after a second at the latest, and a mutex that is free is
given to somebody. It is weak fairness per thread, no fairness of the mutex: a
thread may lose every race for it. A signal handler that has started
finishes (`WF_vars(SigintBroadcast)`). SIGINT and spurious wake-ups need never
happen, and spurious wake-ups are finitely many, else they could keep a waiter
from ever being the one signalled.

`FairSpec` of `Session` runs main and each worker (`WF_vars` of their steps), for the
same reasons. It promises nothing of the clients: `LeaverIsDropped` speaks of a
client that has sent its `x`, and what it does afterwards, crashing included, is up
to it.

`Fairness` of `BallStream` runs the cycle thread, the workers' broadcasts and the
receivers (`WF_vars`); commands need not come. Main's wait for `mutex_ball` is
granted in the end though the cycle thread takes the mutex again and again
(`SF_vars(FirstBalls)`), since that thread sleeps 30 ms without it between two
frames.

`CHECK_DEADLOCK FALSE` is set where `TaskQueue` may stop (after main's end, and when
the bound on the tasks is reached) and where `Session` may (all clients are gone).

## What is proved

`TaskQueueProofs`, for every finite set of workers and every capacity with
`Cardinality(Workers) < 2 * Capacity` (`ThreadsAssumption`,
`CapacityAssumption`, `BoundsAssumption`), with no bound on tasks:

* `TypeCorrect`: the types, also through shutdown: `front` and `rear` stay in the
  ring and every control point in its thread's code, whatever the threads do
  without the mutex;
* `Invariant`: `IInv`, the inductive invariant of the running queue;
* `Exclusion`, `NeverStalls`, `OldestFirst`, `Implements`: `MutualExclusion`,
  `NoStall`, `PopsInOrder` and `ImplementsChannel`.

`MutualExclusion` is not inductive: that a thread at a critical label is alone
follows from its holding the mutex, and it holds it only as long as nobody else
unlocks it, that is while `keepRunning`. `IInv` is `TypeOK`, and of the running
server:

* `HolderInv`: the thread at a critical label is the mutex's holder;
* `SleepInv`: who waits is at `wake`, and no handler is under way;
* `CountInv`: `count` is `pushed - popped` up to the update in progress, and what
  a thread has loaded is what it will find when it stores;
* `CheckedInv`: past its check, main has a free slot and a worker a task, and who
  is about to wait has reason to;
* `RingInv`: the slots from `front` on hold the pending tasks in order, and `rear`
  is behind the last;
* `WakeInv`: the heart of `NoStall`. While some worker sleeps, at least as many
  workers are awake as tasks are pending (one less if main is about to signal).
  While main sleeps, fewer workers sleep than tasks are pending (one more if a
  worker is about to signal). The second part is established when main goes to
  sleep: `Capacity` tasks are pending, so by the first part at most
  `Cardinality(Workers) - Capacity` workers sleep, which is less than `Capacity`.
  That the workers are fewer than twice the slots is used here and nowhere else.

The step of the proof has one lemma per action and part of the invariant it can disturb.

`BallProofs`, on `BallMotion`, for every field, limit and set of radii
(`FieldAssumption`, `SpeedAssumption`): `MotionTypeCorrect`, `StaysInField`,
`SpeedsAgree`, `OneFrame`. `InField` and `EqualSpeeds` are inductive with the
types; `OneFrame` follows from them by arithmetic.

`BallProofs`, on `BallStream`, for any clients, workers, buffer sizes and number of balls
(`StreamAssumption`): `TypeCorrect` and `FrameStaysCurrent` (`FrameIsCurrent`), from one
inductive invariant, `StreamInv`. It adds to them the whole type of the
streams, the frames and the workers' local variables, and `made + Due <= MaxBalls`:
the balls a joining client is going to get are left. The lemmas say what the parser
makes of what it is given: however a text is cut, each token is a part of it
(`TokensArePieces`), and becomes one of the balls or `Garbage` (`ParsedIsBalls`).

`BallListProofs`, for any heap, owners and number of balls (`HeapAssumption`; the
heap only has to be finite): `TypeCorrect`, `StaysLinked`, `StepsToLive`,
`Implements` and `RemovesRight`. All but the last follow from one inductive invariant,
`Inductive`. `Linked` alone is not
inductive, since `delete_ball` unlinks nodes with predecessors that it recorded in
an earlier pass; `IInv` says what they are at that time:

* `HeapOK`: the types, `Linked`, and that `total_count` is the number of blocks in use;
* `ScanOK`: the pass of `delete_ball` stands at some position of the list, and the
  candidates are the owner's newest balls before it, in order, each with the node
  before it (`Chosen`);
* `UnlinkOK`: the same for the whole list. Unlinking the last candidate removes the
  owner's newest ball and leaves every earlier entry, predecessor included, right
  (`DropLast`), so that the test of `prev->next` in the code never fails;
* `PurgeOK`: `delete_ball_by_socket` stands at some position, and no ball of the owner
  is before it, so that the one it unlinks is the oldest.

`RemovesRight` compares the list at the end of an operation with `before`, the list at
its beginning, so it needs to know at every step what is gone already: `RemovalInv`, inductive
given `IInv`. It says that the nodes of the list are those at some increasing positions
`f[1] < f[2] < ...` of `before`, with their owners (`Kept`), and of the positions left
out (`Removed`):

* `ScanRemoves`: there are none, and the candidates are `count` or all the owner's balls
  passed (`AllChosen`);
* `DeleteRemoves`: they are the owner's, all behind those it has left, and together with the
  candidates they are `count`, or the candidates are all the owner has left;
* `PurgeRemoves`: they are the owner's.

`UnlinkRemoves` says how `f` goes on when a node is unlinked. At the end there are no
candidates: a position of the owner is left out if and only if at most `count` of its
positions are not before it (`NewestGone`), which is the property.

`ClientListProofs`, for any number of workers, descriptors and heap blocks
(`ThreadsAssumption`, `HeapAssumption`), of every behaviour of the code: `TypeCorrect`,
`KeepsChangesApart` (`ChangesApart`), `Inductive`, `StaysWhole` (`WholeUntilRace`) and `StepsToLive`
(`StepsToLiveNodes`).

`KeepsChangesApart` is about what `mutex_client` is worth although its users break the
rules: its inductive invariant, `RaceInv`, says that no removal is under way while main links
unless `"append"` has happened, and that who changes the list holds the mutex unless
`"release"` has. So those two ways, in which the code does race, are the only ones.

`Inductive` says what holds until then, `races = {} => OneChanges /\ IInv`; `StaysWhole` and
`StepsToLive` follow. So whatever the threads do at the same time without the mutex
(accepting, broadcasting, unlocking while nobody changes the list) is harmless. After a race
nothing is promised, and `clients_race` shows a broken list. `IInv` says what is true in
the middle of a change:

* `ChainInv`: main's half-linked node, and the list it will be part of (`Append`), of
  which `next` is right already while `tail` and `head` are not;
* `AllocInv`: a block in use is in the list, being linked or being freed;
* `SockInv`: open sockets are those of the nodes in the list, of the one about to be
  closed, and of the client being accepted; no two of them are equal, which is why
  closing one closes nobody else's;
* `CountInv`: `client_count`, up to the change in progress;
* `RemovalInv`: `remove_client_by_socket` stands at some position of the list with the
  node before it in `prev`; an unlinked node leads back into the list or to its end
  until it is freed, which is what a broadcast that stands on it needs.

Both list proofs rest on `SequenceLemmas`: what appending at the tail and unlinking do
to the pointers, for any sequence of nodes (`AppendChain`, `UnlinkChain`). The module also has
`Induction`: a set of numbers that contains 0, and the successor of each of its members,
is all of `Nat` (from the least number outside of it, `Least`). Stated of sets, it
needs no operator as a parameter. From it come `FlatteningExists` and `FlattenSeqIs`:
the recursive function in `FlattenSeq` is defined, and is the concatenation;
`FlattenLayout` says where each element of each part ends up. `Numbering` in `BallListProofs`
counts with it.

`SessionProofs`, for any clients, workers, descriptors, capacity, lines and bound on commands, with
descriptors used again at once as the code does: `TypeCorrect`, `BallsGoWithTheirClient`
(`BallsOfClient`), `BallsAreKept` (`KeepsItsBalls`) and `OnlyHeirsDropped` (`DropsOnlyHeirs`).
`BallsOfClient` is inductive once one knows that a worker that purges has no task
(`Busy`): a ball can outlive the removal of its client only by being added after it. The other two
need the invariant `IInv`:

* `Honest`: in a receive buffer or a task, an exit comes from a client that has left or typed
  `x:N`;
* `TasksInv`: the descriptor of a task is its client's, or nobody's, or has an heir;
* `PeerInv`: a client has one descriptor at most, from the time main accepts it;
* `EventsInv`: an event for a client that plays comes with bytes to read, so
  that `recv` cannot return -1 for it, unless it is an heir;
* `PurgeInv`: nobody is connected under an id whose balls a thread is about to delete, but an heir.

`SearchBoxProofs`, for any texts, filters and timers (`TextAssumption`,
`SectionAssumption`, `TimerAssumption`): all six invariants of the run, from one
inductive invariant. It adds to them that the field has the focus only after it was
activated (`FieldIsActive`), and `TypedIsSearched` also for a text that stays in the
field when it is left (`TypedInv`), as the user may come back to it. `TypedSearched` says that
cancelling a search with Shift is the one way to lose it: the exception in the property is a
loss in the code (below), not an assumption about the user.

`SearchResultsProofs`, for any documents and queries: `TypeCorrect`, `FocusStaysShown`,
`NamesMatch` (`RowsMatch`), `MovesAsCursor` (`ImplementsCursor`) and `WhereUpMoves`
(`UpMovesUp`). All but `NamesMatch` are about every document, sorted or not. `NamesMatch` has one
hypothesis, `DoxygenIds`: a row's id is its encoded name, an underscore and a number. So are all ids
in `docs/html/search/*.js`; TLC evaluates it on the instance (`DocumentAssumption`).

`NamesMatch` says that `convertToId` is injective and more: that
one encoding is the beginning of another exactly if the texts are, since
no unit of the code, a character that stands for itself or the underscore with two digits, is the
beginning of another. `EncodedConcat` and `PrefixAfter` carry this on behind the end of the name: the
rows displayed besides those whose name matches are those where the text goes on into the
number of the id.

`MovesAsCursor` and `WhereUpMoves` rest on where each link stands in the concatenation of the
displayed ones (`PlacesExist`, `EntriesAre`) and what is passed by the code's jumps over hidden rows and
closed sections (`BelowIs`, `AboveIs`). `Down` is always the next link. `Up` asks the row above
for its children by the index just above its own; where that is a hidden row (`BehindHidden`) the
result is not displayed, so that the focus stays, or is the row itself, past its children
(`UpPastChildren`), and nowhere else is it wrong.

Only model-checked: all liveness (`EveryTaskPopped`, `IdleShutsDown`,
`LeaverIsDropped`, `GoneBallsVanish`, `NobodyHeldUp`), which TLAPS does not prove from
fairness. Every invariant and action property of the passing runs has a theorem.

## Findings

Each is a run that TLC ends with a counterexample to what a document or comment
of the repository says.

* `queue_stop`: the broadcast in `handle_sigint` can fall between a worker's test
  of `keep_running` and its `pthread_cond_wait`; the worker sleeps for ever and
  main joins it for ever. Main itself can also be left waiting for a slot, since
  the loop in `task_queue_push` does not test `keep_running`.
* `clients_race`: main reads the list's head when it begins to link a client and
  stores it when it ends; a worker that removes the first client in between has
  its work undone, and the list begins with a freed node.
* `session_stale_names`: main handles a batch that names the listening socket and a
  client whose `x` a worker is executing. It accepts first, gets the descriptor that
  the worker has closed, then calls `recv` on it for the old event, gets `EAGAIN`, and
  disconnects the new client as if it had left.

Seen on the way and not given a run:

* `delete_ball` prints `target->data.id` after `free(target)` (`localballmanager.c` 86).
* After SIGINT `task_queue_pop` unlocks the mutex and goes on (`task.c` 41-47): a
  woken worker pops from an empty queue and executes a zeroed or old slot.
* A ball whose step is the free width of the field or more is set back in every
  frame and stands still (`loaclball.c` 40-42; nine speed-up commands).
* `add_ball` takes an id from `total_count`, which deletions decrement: ids are not
  unique, though `localball.h` 56 says so. Nothing reads an id but the display.
* `broadcast_ball_state` reads balls that another worker is freeing
  (`server.c` 102, called without `mutex_ball`).
* `MAX_SPEED` is compared before doubling, so a speed of 2000 becomes 4000
  (`MotionTypeOK` has the true bound); a ball of radius 500 divides by zero in
  `create_logical_ball`, and a larger one may be placed outside of the field.
* Two commands of one client run on two workers in either order: an `a` executed
  after the client's removal leaves a ball that nobody owns, or that the next client
  with the descriptor owns. `BallsOfClient` excepts exactly this (`late`).
* A client that is given a descriptor between the removal of its last owner and the
  deletion of that owner's balls loses its own first balls to this deletion (`server.c`
  203-208, `main.c` 122-131). `KeepsItsBalls` says that this happens to heirs only.
* `x:3` disconnects a client that goes on as if nothing had happened: the server ignores the count,
  and the client compares the whole line with `x` (`server.c` 65-93, `client/client.c` 147-155).
* After the cycle thread has released the mutex under a removal (`server.c` 252), two threads may
  remove one client at once: both may find its node, close the descriptor and free the
  block twice. The model has these behaviours; nothing is promised of them.
* The two `x` of a leaving client can arrive in one `recv`: `xx` is no command, the
  server keeps the connection, and the client's receiver waits on for frames that do
  not stop. `LeaverIsDropped` excepts exactly this (`swallowed`).
* When the last ball is deleted, a frame is an empty string, and sending it sends
  nothing: a client that took the previous frame goes on showing the ball. That is
  why `GoneBallsVanish` asks for some ball to be left.
* `Nav` asks the row that `NavPrev` found whether its children are visible, and looks
  for the last one under the index of the row just above, which may be a hidden one
  (`search.js` 622-639): Up can then leave the focus where it is, or pass over the children. The
  repository's own data has the case: `all_1.js` 11 has the page "Ball Game" after the others,
  so that "ball" displays it below hidden rows. `UpMovesUp` says that this is the only one.
* The comparison of encodings goes on behind the name into the number of the id: `cmd_del&` displays
  the row `cmd_del` with the id `cmd_5fdel_26` (`all_2.js` 16), as `&` is encoded `_26`. `RowsMatch` says that
  this is the only kind of row displayed wrongly.
* With older results open, type `ab` and within 500 ms Shift+Enter, then go back to the field
  with the mouse: the search for `ab` is cancelled and the comparison that would start another
  is skipped (`search.js` 178-200), so that the field shows `ab` over the results of the older
  text until the next key. `TypedIsSearched` says that this is the only loss (`cancelled`).
* After each command the client draws one chunk that begins with the `OK` reply as a
  ball with uninitialized fields, and a worker's frame, which has only that client's
  balls, makes the others' vanish until the next frame (`server.c` 237, 239).
* `Search` called by choosing a filter forgets a running `keyTimeout`; when it fires
  after Escape or the close button the results open again. Down in the filter list
  goes one past the last filter, and `Search` throws then (`search.js` 293, 346).

## What is not modelled

* The client's renderer (`client/client.c` 55-80): it copies the list under the
  client's own mutex and draws the copy, whatever it is.
* Sending to a connection that was reset (SIGPIPE, which ends the server), and
  `malloc` failing: nothing is left to state after either.
* Closing the sockets at shutdown, after which the process ends.
* The framebuffer (`shared/fbDraw.c`) draws; the log appends lines to a file. No
  other part reads what they write.
* The test client repeats the client's threads and parser without drawing.
* The geometry of the search windows; which document a link leads to.
* `docs/html/dynsections.js` folds sections through jQuery, one element at a time,
  without state of its own; `menudata.js` and the lists under `search/` are generated
  data, of which the instances of `SearchResults` take excerpts; `jquery.js` is a
  library.
* Memory layout: sizes of buffers, writes beyond them. The hazards name the lines.
* Colours, printing, logging.

## What could come next

`Session` with its queue and lists replaced by `TaskQueue` and `ClientList` step by step,
which would need a much coarser grain of both to stay within reach of TLC; the safety
half of the liveness properties, such as that a leaving client is always on its way
(an `x` in its buffer, in a task, with a worker, or its connection at an end).
