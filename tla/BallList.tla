-------------------------------- MODULE BallList --------------------------------
(***************************************************************************)
(* The server's list of balls as a singly linked list on the heap          *)
(* (server/localballmanager.c, server/localball_list.c): the operations    *)
(* that run under mutex_ball, node by node, and a traversal that takes no  *)
(* mutex, broadcast_ball_state of a worker (server/server.c).              *)
(*                                                                         *)
(* mutex_ball admits one operation at a time; between two operations any   *)
(* thread may start the next.  Positions, velocities and colours are left  *)
(* out: see BallMotion.                                                    *)
(***************************************************************************)
EXTENDS Integers, Sequences, FiniteSets

CONSTANTS Nodes,       \* the heap blocks malloc may return
          Owners,      \* client sockets
          NULL,        \* the null pointer
          Outside,     \* "not traversing the list"
          MaxCount     \* bound: the count of a command

ASSUME HeapAssumption ==
  /\ IsFiniteSet(Nodes)
  /\ NULL \notin Nodes \cup Owners
  /\ Outside \notin Nodes \cup {NULL}
  /\ MaxCount \in Nat \ {0}

VARIABLES
  head, tail, total,  \* the BallListManager
  next,               \* the next field of every block, NULL in freed ones
  ball,               \* the data field of every block, NoBall in freed ones
  allocated,          \* the blocks in use
  op,                 \* the operation in progress and its local variables
  reader,             \* the node the traversal without the mutex is about to read
  list,               \* history: the nodes in the list, as a sequence
  before              \* history: list, with owners, when the operation started

manager == <<head, tail, total>>
heap == <<next, ball, allocated>>
vars == <<manager, heap, op, reader, list, before>>

Pointers == Nodes \cup {NULL}
NoBall == [id |-> 0, owner |-> NULL]
Idle == [kind |-> "idle"]

\* ball_manager_init
Init ==
  /\ head = NULL /\ tail = NULL /\ total = 0
  /\ next = [n \in Nodes |-> NULL]
  /\ ball = [n \in Nodes |-> NoBall]
  /\ allocated = {}
  /\ op = Idle
  /\ reader = Outside
  /\ list = <<>>
  /\ before = <<>>

Start(operation) ==
  /\ op = Idle
  /\ op' = operation
  /\ before' = [i \in 1 .. Len(list) |->
                 [node |-> list[i], owner |-> ball[list[i]].owner]]
  /\ UNCHANGED <<manager, heap, reader, list>>

Without(s, i) == [j \in 1 .. Len(s) - 1 |-> IF j < i THEN s[j] ELSE s[j + 1]]
Remove(s, n) == Without(s, CHOOSE i \in 1 .. Len(s) : s[i] = n)

(***************************************************************************)
(* add_ball: one ball after the other through appendBall.  The heap is     *)
(* taken to be large enough for malloc never to fail.                      *)
(***************************************************************************)
StartAdd(o, c) ==
  /\ Len(list) + c <= Cardinality(Nodes)
  /\ Start([kind |-> "add", owner |-> o, left |-> c])

Malloc == Nodes \ allocated

AppendBall(n, data) ==
  /\ head' = IF head = NULL THEN n ELSE head
  /\ tail' = n
  /\ next' = IF head = NULL THEN [next EXCEPT ![n] = NULL]
                            ELSE [next EXCEPT ![n] = NULL, ![tail] = n]
  /\ ball' = [ball EXCEPT ![n] = data]
  /\ allocated' = allocated \cup {n}
  /\ list' = Append(list, n)

AddBall ==
  /\ op.kind = "add"
  /\ \E n \in Malloc : AppendBall(n, [id |-> total, owner |-> op.owner])
  /\ total' = total + 1
  /\ op' = IF op.left = 1 THEN Idle ELSE [op EXCEPT !.left = @ - 1]
  /\ UNCHANGED <<reader, before>>

(***************************************************************************)
(* delete_ball: one pass collects the owner's last count nodes with their  *)
(* predecessors, then they are unlinked from the last to the first.        *)
(***************************************************************************)
StartDelete(o, c) ==
  Start([kind |-> "scan", owner |-> o, count |-> c, cur |-> head, prev |-> NULL,
         candidates |-> <<>>])

KeepFirst(candidates, count, entry) ==  \* mutant
  IF Len(candidates) < count THEN Append(candidates, entry) ELSE candidates

\* the oldest candidate makes room for the new one
Keep(candidates, count, entry) ==
  IF Len(candidates) < count
    THEN Append(candidates, entry)
    ELSE Append(Tail(candidates), entry)

ScanBall ==
  /\ op.kind = "scan" /\ op.cur # NULL
  /\ op' = [op EXCEPT
              !.candidates = IF ball[op.cur].owner = op.owner
                               THEN Keep(@, op.count, [node |-> op.cur, prev |-> op.prev])
                               ELSE @,
              !.prev = op.cur,
              !.cur = next[op.cur]]
  /\ UNCHANGED <<manager, heap, reader, list, before>>

ScanEnd ==
  /\ op.kind = "scan" /\ op.cur = NULL
  /\ op' = IF op.candidates = <<>>
             THEN Idle
             ELSE [kind |-> "unlink", owner |-> op.owner, count |-> op.count,
                   candidates |-> op.candidates]
  /\ UNCHANGED <<manager, heap, reader, list, before>>

\* The node leaves the list and is freed, its contents lost. (delete_ball then
\* prints the id that the freed node had; no state depends on it.)
UnlinkKeepsTail(node, prev) ==  \* mutant
  /\ head' = IF head = node THEN next[node] ELSE head
  /\ next' = IF prev = NULL THEN [next EXCEPT ![node] = NULL]
                            ELSE [next EXCEPT ![node] = NULL, ![prev] = next[node]]
  /\ ball' = [ball EXCEPT ![node] = NoBall]
  /\ allocated' = allocated \ {node}
  /\ total' = total - 1
  /\ list' = Remove(list, node)
  /\ UNCHANGED tail

UnlinkUncounted(node, prev) ==  \* mutant
  /\ head' = IF head = node THEN next[node] ELSE head
  /\ tail' = IF tail = node THEN prev ELSE tail
  /\ next' = IF prev = NULL THEN [next EXCEPT ![node] = NULL]
                            ELSE [next EXCEPT ![node] = NULL, ![prev] = next[node]]
  /\ ball' = [ball EXCEPT ![node] = NoBall]
  /\ allocated' = allocated \ {node}
  /\ list' = Remove(list, node)
  /\ UNCHANGED total

UnlinkHeadOnly(node, prev) ==  \* mutant
  /\ head' = IF head = node THEN next[node] ELSE head
  /\ tail' = IF tail = node THEN prev ELSE tail
  /\ next' = [next EXCEPT ![node] = NULL]
  /\ ball' = [ball EXCEPT ![node] = NoBall]
  /\ allocated' = allocated \ {node}
  /\ total' = total - 1
  /\ list' = Remove(list, node)

Unlink(node, prev) ==
  /\ head' = IF head = node THEN next[node] ELSE head
  /\ tail' = IF tail = node THEN prev ELSE tail
  /\ next' = IF prev = NULL THEN [next EXCEPT ![node] = NULL]
                            ELSE [next EXCEPT ![node] = NULL, ![prev] = next[node]]
  /\ ball' = [ball EXCEPT ![node] = NoBall]
  /\ allocated' = allocated \ {node}
  /\ total' = total - 1
  /\ list' = Remove(list, node)

DeleteForward ==  \* mutant
  /\ op.kind = "unlink"
  /\ LET first == Head(op.candidates)
         rest == Tail(op.candidates)
     IN  /\ IF first.prev # NULL /\ next[first.prev] # first.node
              THEN UNCHANGED <<manager, heap, list>>
              ELSE Unlink(first.node, first.prev)
         /\ op' = IF rest = <<>> THEN Idle ELSE [op EXCEPT !.candidates = rest]
  /\ UNCHANGED <<reader, before>>

DeleteBall ==
  /\ op.kind = "unlink"
  /\ LET last == op.candidates[Len(op.candidates)]
         rest == SubSeq(op.candidates, 1, Len(op.candidates) - 1)
     IN  /\ IF last.prev # NULL /\ next[last.prev] # last.node
              THEN UNCHANGED <<manager, heap, list>>
              ELSE Unlink(last.node, last.prev)
         /\ op' = IF rest = <<>> THEN Idle ELSE [op EXCEPT !.candidates = rest]
  /\ UNCHANGED <<reader, before>>

(***************************************************************************)
(* delete_ball_by_socket: every ball of the owner, in one pass             *)
(***************************************************************************)
StartPurge(o) == Start([kind |-> "purge", owner |-> o, cur |-> head, prev |-> NULL])

PurgeBall ==
  /\ op.kind = "purge" /\ op.cur # NULL
  /\ LET mine == ball[op.cur].owner = op.owner
     IN  /\ IF mine THEN Unlink(op.cur, op.prev)
                    ELSE UNCHANGED <<manager, heap, list>>
         /\ op' = [op EXCEPT !.cur = next[op.cur], !.prev = IF mine THEN @ ELSE op.cur]
  /\ UNCHANGED <<reader, before>>

PurgeEnd ==
  /\ op.kind = "purge" /\ op.cur = NULL
  /\ op' = Idle
  /\ UNCHANGED <<manager, heap, reader, list, before>>

(***************************************************************************)
(* broadcast_ball_state: serialize_ball_list walks the list while other    *)
(* threads change it.  Reading a freed block yields anything.              *)
(***************************************************************************)
ReadBegin ==
  /\ reader = Outside
  /\ reader' = IF head = NULL THEN Outside ELSE head
  /\ UNCHANGED <<manager, heap, op, list, before>>

ReadNext ==
  /\ reader # Outside
  /\ \E n \in IF reader \in allocated THEN {next[reader]} ELSE Pointers :
       reader' = IF n = NULL THEN Outside ELSE n
  /\ UNCHANGED <<manager, heap, op, list, before>>

Next ==
  \/ \E o \in Owners, c \in 1 .. MaxCount : StartAdd(o, c) \/ StartDelete(o, c)
  \/ \E o \in Owners : StartPurge(o)
  \/ AddBall
  \/ ScanBall \/ ScanEnd \/ DeleteBall
  \/ PurgeBall \/ PurgeEnd
  \/ ReadBegin \/ ReadNext

Spec == Init /\ [][Next]_vars

--------------------------------------------------------------------------------
(***************************************************************************)
(* Properties                                                              *)
(***************************************************************************)
Entries == [node : Nodes, prev : Pointers]

TypeOK ==
  /\ head \in Pointers /\ tail \in Pointers
  /\ total \in 0 .. Cardinality(Nodes)
  /\ next \in [Nodes -> Pointers]
  /\ ball \in [Nodes -> [id : Nat, owner : Owners \cup {NULL}]]
  /\ allocated \subseteq Nodes
  /\ op.kind \in {"idle", "add", "scan", "unlink", "purge"}
  /\ op.kind \in {"scan", "unlink"} =>
       op.candidates \in Seq(Entries) /\ Len(op.candidates) <= op.count
  /\ reader \in Nodes \cup {Outside}
  /\ list \in Seq(Nodes)

\* After every step of every operation head, tail, the next fields and
\* total_count describe one and the same list, without cycle, of exactly the
\* blocks that are allocated: none is lost, none is linked after its free.
Linked ==
  /\ head = IF list = <<>> THEN NULL ELSE list[1]
  /\ tail = IF list = <<>> THEN NULL ELSE list[Len(list)]
  /\ \A i \in 1 .. Len(list) : next[list[i]] = IF i = Len(list) THEN NULL ELSE list[i + 1]
  /\ \A i, j \in 1 .. Len(list) : list[i] = list[j] => i = j
  /\ allocated = {list[i] : i \in 1 .. Len(list)}
  /\ total = Len(list)

Mine(o) == {i \in 1 .. Len(before) : before[i].owner = o}

\* list' holds the nodes of before at the indices in I, in order
Remains(I) ==
  /\ Len(list') = Cardinality(I)
  /\ \A i \in I : list'[Cardinality({j \in I : j <= i})] = before[i].node

\* A traversal without the mutex can lose the node it stands on, but from a
\* live node it never steps onto a freed one, whatever operation is half
\* done: no link of the list dangles.
StepsToLiveNodes ==
  [][/\ reader \in allocated
     /\ reader' # reader
     => reader' = Outside \/ reader' \in allocated']_vars

\* delete_ball removes the owner's newest balls, as many as asked for or all
\* it has, and delete_ball_by_socket removes all of them; every other ball
\* stays, in its place.  (Removing from a list while walking it, with
\* predecessors recorded before the first removal.)
RemovesRightBalls ==
  [][op # Idle /\ op' = Idle =>
       /\ op.kind \in {"scan", "unlink"} =>
            Remains({i \in 1 .. Len(before) :
                       i \in Mine(op.owner) =>
                         Cardinality({j \in Mine(op.owner) : j >= i}) > op.count})
       /\ op.kind = "purge" => Remains(1 .. Len(before) \ Mine(op.owner))
    ]_vars

\* The list implements the store of balls.
Store == INSTANCE BallStore
           WITH balls <- [i \in 1 .. Len(list) |-> ball[list[i]]]
ImplementsStore == Store!Spec
================================================================================
