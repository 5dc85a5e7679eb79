------------------------------- MODULE ClientList -------------------------------
(***************************************************************************)
(* The server's list of clients (server/client_list_manager.c) and the     *)
(* threads that use it: main adds the clients it accepts and removes those *)
(* whose connection ends (server/main.c); a worker removes a client that   *)
(* sends "x" and broadcasts to all after any other command; the cycle      *)
(* thread broadcasts every frame (server/server.c).                        *)
(*                                                                         *)
(* mutex_client protects the list only in part: main links a new client    *)
(* without it, the broadcasts read without it, and the cycle thread        *)
(* releases it, whoever holds it.  A step is a store that links or unlinks *)
(* a node, the visit of a node, a system call on a client's socket, or a   *)
(* call on the mutex.                                                      *)
(***************************************************************************)
EXTENDS Integers, Sequences, FiniteSets

CONSTANTS Workers,  \* the worker threads
          Main,     \* the main thread
          Cycle,    \* the cycle thread
          Nobody,   \* "no thread"
          Nodes,    \* the heap blocks malloc may return
          Sockets,  \* the descriptors accept may return
          NULL      \* the null pointer, and "no socket"

Threads == Workers \cup {Main, Cycle}
Removers == Workers \cup {Main}
Readers == Workers \cup {Cycle}

ASSUME ThreadsAssumption ==
  /\ Main \notin Workers
  /\ Cycle \notin Workers \cup {Main}
  /\ Nobody \notin Threads

ASSUME HeapAssumption ==
  /\ IsFiniteSet(Nodes)
  /\ NULL \notin Nodes \cup Sockets

VARIABLES
  head, tail,   \* the ClientListManager
  clientCount,  \* client_count
  next, sock,   \* the fields of every block, NULL in freed ones
  allocated,    \* the blocks in use
  open,         \* the clients' sockets that are open
  mutex,        \* the thread mutex_client was last given to, or Nobody
  job,          \* what each thread is at, with its local variables
  list,         \* history: the nodes in the list, as a sequence
  races         \* history: what has gone past the mutex so far

heap == <<next, sock, allocated>>
links == <<head, tail, heap, list>>
vars == <<links, clientCount, open, mutex, job, races>>

Pointers == Nodes \cup {NULL}
Labels == {"rest", "create", "link", "tail", "head", "count", "increment", "unlock",
           "lock", "walk", "unlink", "close", "free", "frame", "send"}
Jobs == [at : Labels, sock : Sockets \cup {NULL}, node : Pointers, prev : Pointers]
Rest == [at |-> "rest", sock |-> NULL, node |-> NULL, prev |-> NULL]

At(t, label) == job[t].at = label
Node(t) == job[t].node
Prev(t) == job[t].prev
Become(t, j) == job' = [job EXCEPT ![t] = j]
Goto(t, label) == job' = [job EXCEPT ![t].at = label]

\* client_list_manager_init
Init ==
  /\ head = NULL /\ tail = NULL
  /\ clientCount = 0
  /\ next = [n \in Nodes |-> NULL]
  /\ sock = [n \in Nodes |-> NULL]
  /\ allocated = {}
  /\ open = {}
  /\ mutex = Nobody
  /\ job = [t \in Threads |-> Rest]
  /\ list = <<>>
  /\ races = {}

(***************************************************************************)
(* A thread is adding to the list, or it is at what it took the mutex for. *)
(* races records the two ways in which one thread can come to change the   *)
(* list while another does: main links a client while a removal is under   *)
(* way, or a removal begins while main links ("append"); and a thread      *)
(* releases the mutex that another holds for its change ("release").       *)
(***************************************************************************)
Races == {"append", "release"}
Adding == job[Main].at \in {"link", "tail", "head"}
Walking(t) == job[t].at \in {"walk", "unlink", "close", "free"}
Locking(t) == Walking(t) \/ At(t, "increment")
Race(kind, happens) == races' = IF happens THEN races \cup {kind} ELSE races

(***************************************************************************)
(* mutex_client.  pthread_mutex_unlock does not ask who holds the mutex.   *)
(* What a thread does once it has it depends on what it wants it for.      *)
(***************************************************************************)
Acquire(t) == mutex = Nobody /\ mutex' = t
Release(t) ==
  /\ mutex' = Nobody
  /\ Race("release", \E u \in Threads \ {t} : mutex = u /\ Locking(u))

(***************************************************************************)
(* Main accepts a client: add_client and append_client, which take no      *)
(* mutex and write manager->head last, with the value read first; then     *)
(* client_count, under the mutex.  (Main adds the first balls next.)       *)
(***************************************************************************)
Accept(s) ==
  /\ At(Main, "rest")
  /\ s \notin open
  /\ open' = open \cup {s}
  /\ Become(Main, [Rest EXCEPT !.at = "create", !.sock = s])
  /\ UNCHANGED <<links, clientCount, mutex, races>>

CreateNode ==
  /\ At(Main, "create")
  /\ \E n \in Nodes \ allocated :
       /\ next' = [next EXCEPT ![n] = NULL]
       /\ sock' = [sock EXCEPT ![n] = job[Main].sock]
       /\ allocated' = allocated \cup {n}
       /\ Become(Main, [job[Main] EXCEPT !.at = IF head = NULL THEN "tail" ELSE "link",
                                         !.node = n, !.prev = head])
  /\ Race("append", \E t \in Removers : Walking(t))
  /\ UNCHANGED <<head, tail, list, clientCount, open, mutex>>

\* (*tail)->next = newnode: main would crash on a NULL tail
LinkNode ==
  /\ At(Main, "link")
  /\ tail # NULL
  /\ next' = [next EXCEPT ![tail] = Node(Main)]
  /\ Goto(Main, "tail")
  /\ UNCHANGED <<head, tail, sock, allocated, list, clientCount, open, mutex, races>>

MoveTail ==
  /\ At(Main, "tail")
  /\ tail' = Node(Main)
  /\ Goto(Main, "head")
  /\ UNCHANGED <<head, heap, list, clientCount, open, mutex, races>>

StoreHeadAlways ==  \* mutant
  /\ At(Main, "head")
  /\ head' = Node(Main)
  /\ list' = Append(list, Node(Main))
  /\ Goto(Main, "count")
  /\ UNCHANGED <<tail, heap, clientCount, open, mutex, races>>

StoreHead ==
  /\ At(Main, "head")
  /\ head' = IF Prev(Main) = NULL THEN Node(Main) ELSE Prev(Main)
  /\ list' = Append(list, Node(Main))
  /\ Goto(Main, "count")
  /\ UNCHANGED <<tail, heap, clientCount, open, mutex, races>>

CountLock ==
  /\ At(Main, "count")
  /\ Acquire(Main)
  /\ Goto(Main, "increment")
  /\ UNCHANGED <<links, clientCount, open, races>>

CountClient ==
  /\ At(Main, "increment")
  /\ clientCount' = clientCount + 1
  /\ Goto(Main, "unlock")
  /\ UNCHANGED <<links, open, mutex, races>>

(***************************************************************************)
(* A client is removed, by main when its connection ends and by a worker   *)
(* that executes "x".  An event or a task may be older than the client     *)
(* that has the descriptor now, or name a descriptor no client has.        *)
(***************************************************************************)
Leave(t, s) ==
  /\ At(t, "rest")
  /\ Become(t, [Rest EXCEPT !.at = "lock", !.sock = s])
  /\ UNCHANGED <<links, clientCount, open, mutex, races>>

LeaveUnlocked(t) ==  \* mutant
  /\ At(t, "lock")
  /\ Become(t, [job[t] EXCEPT !.at = "walk", !.node = head])
  /\ Race("append", Adding)
  /\ UNCHANGED <<links, clientCount, open, mutex>>

LeaveLock(t) ==
  /\ At(t, "lock")
  /\ Acquire(t)
  /\ Become(t, [job[t] EXCEPT !.at = "walk", !.node = head])
  /\ Race("append", Adding)
  /\ UNCHANGED <<links, clientCount, open>>

\* What a read of a block's fields may return: anything if it was freed.
NextOf(n) == IF n \in allocated THEN {next[n]} ELSE Pointers
SockOf(n) == IF n \in allocated THEN {sock[n]} ELSE Sockets

\* remove_client_by_socket, a node at a time
WalkPastEnd(t) ==  \* mutant
  /\ At(t, "walk")
  /\ IF Node(t) = NULL
       THEN Goto(t, "unlink")
       ELSE \E s \in SockOf(Node(t)), n \in NextOf(Node(t)) :
              IF s = job[t].sock
                THEN Goto(t, "unlink")
                ELSE Become(t, [job[t] EXCEPT !.prev = Node(t), !.node = n])
  /\ UNCHANGED <<links, clientCount, open, mutex, races>>

Walk(t) ==
  /\ At(t, "walk")
  /\ IF Node(t) = NULL
       THEN Goto(t, "unlock")
       ELSE \E s \in SockOf(Node(t)), n \in NextOf(Node(t)) :
              IF s = job[t].sock
                THEN Goto(t, "unlink")
                ELSE Become(t, [job[t] EXCEPT !.prev = Node(t), !.node = n])
  /\ UNCHANGED <<links, clientCount, open, mutex, races>>

Remove(s, n) ==
  IF \E i \in 1 .. Len(s) : s[i] = n
    THEN LET p == CHOOSE i \in 1 .. Len(s) : s[i] = n
         IN  [j \in 1 .. Len(s) - 1 |-> IF j < p THEN s[j] ELSE s[j + 1]]
    ELSE s

UnlinkHeadOnly(t) ==  \* mutant
  /\ At(t, "unlink")
  /\ head' = IF Prev(t) = NULL THEN next[Node(t)] ELSE head
  /\ tail' = IF tail = Node(t) THEN Prev(t) ELSE tail
  /\ UNCHANGED next
  /\ list' = Remove(list, Node(t))
  /\ Goto(t, "close")
  /\ UNCHANGED <<sock, allocated, clientCount, open, mutex, races>>

\* The store that takes the node out of the list, and with it the store to
\* tail, which only main's append reads, and that races with a removal anyhow.
Unlink(t) ==
  /\ At(t, "unlink")
  /\ head' = IF Prev(t) = NULL THEN next[Node(t)] ELSE head
  /\ tail' = IF tail = Node(t) THEN Prev(t) ELSE tail
  /\ next' = IF Prev(t) = NULL THEN next ELSE [next EXCEPT ![Prev(t)] = next[Node(t)]]
  /\ list' = Remove(list, Node(t))
  /\ Goto(t, "close")
  /\ UNCHANGED <<sock, allocated, clientCount, open, mutex, races>>

Close(t) ==
  /\ At(t, "close")
  /\ clientCount' = clientCount - 1
  /\ open' = open \ {sock[Node(t)]}
  /\ Goto(t, "free")
  /\ UNCHANGED <<links, mutex, races>>

Free(t) ==
  /\ At(t, "free")
  /\ allocated' = allocated \ {Node(t)}
  /\ next' = [next EXCEPT ![Node(t)] = NULL]
  /\ sock' = [sock EXCEPT ![Node(t)] = NULL]
  /\ Goto(t, "unlock")
  /\ UNCHANGED <<head, tail, list, clientCount, open, mutex, races>>

\* the end of CountClient and of a removal
Unlock(t) ==
  /\ At(t, "unlock")
  /\ Release(t)
  /\ Become(t, Rest)
  /\ UNCHANGED <<links, clientCount, open>>

(***************************************************************************)
(* The broadcasts: broadcast_ball_state of a worker, without a mutex, and  *)
(* cycle_broadcast_ball_state, which unlocks mutex_client before and after *)
(* broadcast_ball_state_all and never locks it.                            *)
(***************************************************************************)
Broadcast(w) ==
  /\ At(w, "rest")
  /\ head # NULL
  /\ Become(w, [Rest EXCEPT !.at = "send", !.node = head])
  /\ UNCHANGED <<links, clientCount, open, mutex, races>>

Frame ==
  /\ At(Cycle, "rest")
  /\ Release(Cycle)
  /\ Goto(Cycle, "frame")
  /\ UNCHANGED <<links, clientCount, open>>

FrameBroadcast ==
  /\ At(Cycle, "frame")
  /\ Become(Cycle, [Rest EXCEPT !.at = IF head = NULL THEN "unlock" ELSE "send",
                                !.node = head])
  /\ UNCHANGED <<links, clientCount, open, mutex, races>>

\* send to the client at hand and go to the next
Send(t) ==
  /\ At(t, "send")
  /\ \E n \in NextOf(Node(t)) :
       Become(t, IF n # NULL THEN [job[t] EXCEPT !.node = n]
                 ELSE IF t = Cycle THEN [Rest EXCEPT !.at = "unlock"]
                 ELSE Rest)
  /\ UNCHANGED <<links, clientCount, open, mutex, races>>

--------------------------------------------------------------------------------
MainStep ==
  \/ \E s \in Sockets : Accept(s)
  \/ CreateNode \/ LinkNode \/ MoveTail \/ StoreHead
  \/ CountLock \/ CountClient

RemoveStep(t) ==
  \/ \E s \in Sockets : Leave(t, s)
  \/ LeaveLock(t) \/ Walk(t) \/ Unlink(t) \/ Close(t) \/ Free(t)

Next ==
  \/ MainStep
  \/ \E t \in Removers : RemoveStep(t)
  \/ \E w \in Workers : Broadcast(w)
  \/ Frame \/ FrameBroadcast
  \/ \E t \in Readers : Send(t)
  \/ \E t \in Threads : Unlock(t)

Spec == Init /\ [][Next]_vars

--------------------------------------------------------------------------------
(***************************************************************************)
(* Properties                                                              *)
(***************************************************************************)
TypeOK ==
  /\ head \in Pointers /\ tail \in Pointers
  /\ clientCount \in Int
  /\ next \in [Nodes -> Pointers]
  /\ sock \in [Nodes -> Sockets \cup {NULL}]
  /\ allocated \subseteq Nodes
  /\ open \subseteq Sockets
  /\ mutex \in Threads \cup {Nobody}
  /\ job \in [Threads -> Jobs]
  /\ \A t \in Threads :
       job[t].at \in {"link", "tail", "head", "unlink", "close", "free", "send"} =>
         Node(t) \in Nodes
  /\ list \in Seq(Nodes)
  /\ races \subseteq Races

\* The mutex keeps the changes of the list apart, whatever the connections do,
\* as long as main has linked no client beside a removal (it takes no mutex for
\* that) and nobody has released the mutex during another's change (as the
\* cycle thread does, which unlocks what it never locks).
Changing(t) == Locking(t) \/ (t = Main /\ Adding)
OneChanges == \A t, u \in Threads : Changing(t) /\ Changing(u) => t = u
ChangesApart ==
  races = {} => OneChanges

Listed == {list[i] : i \in 1 .. Len(list)}

\* Unless main is just linking a client, head, tail and the next fields
\* describe one list without cycle, all of whose nodes are allocated.
Linked ==
  ~Adding =>
    /\ head = IF list = <<>> THEN NULL ELSE list[1]
    /\ tail = IF list = <<>> THEN NULL ELSE list[Len(list)]
    /\ \A i \in 1 .. Len(list) :
         next[list[i]] = IF i = Len(list) THEN NULL ELSE list[i + 1]
    /\ \A i, j \in 1 .. Len(list) : list[i] = list[j] => i = j
    /\ Listed \subseteq allocated

\* The clients in the list are those that are connected: between accept and
\* close every open socket belongs to exactly one node, and client_count is the
\* number of nodes up to the change in progress.
Accepting == job[Main].at \in {"create", "link", "tail", "head"}
Closing == {t \in Removers : At(t, "close")}
ListsConnected ==
  /\ \A i, j \in 1 .. Len(list) : sock[list[i]] = sock[list[j]] => i = j
  /\ open = {sock[n] : n \in Listed \cup {Node(t) : t \in Closing}}
              \cup (IF Accepting THEN {job[Main].sock} ELSE {})
  /\ clientCount = Len(list) + Cardinality(Closing)
                   - (IF job[Main].at \in {"count", "increment"} THEN 1 ELSE 0)

\* Nothing but those two races breaks the list: connections that come and go,
\* removals of descriptors that are unknown or have been reused, and a client
\* removed by main and by a worker for two reasons all leave it linked, with a
\* node for each connected client and the right count (client_list_manager.c
\* 20-72, main.c 121-151, server.c 191-207).
WholeUntilRace == races = {} => Linked /\ ListsConnected

\* A broadcast takes no mutex and may stand on a node that is removed; but
\* until one of those races it never steps from a node that is not freed yet
\* onto a freed one, though clients come and go while it sends.
StepsToLiveNodes ==
  [][races = {} =>
       \A t \in Readers :
         At(t, "send") /\ Node(t) \in allocated /\ Send(t) =>
           job'[t].node \in allocated \cup {NULL}]_vars
================================================================================
