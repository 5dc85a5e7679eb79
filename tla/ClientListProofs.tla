-------------------------- MODULE ClientListProofs --------------------------
(***************************************************************************)
(* What TLAPS proves of ClientList, for any number of workers, sockets and *)
(* heap blocks: the types in every behaviour, races included; that the     *)
(* mutex keeps the changes of the list apart until main appends beside a   *)
(* removal or the mutex is released under a change; and that until then    *)
(* the list is linked, holds the connected clients, and leads broadcasts   *)
(* to live nodes.                                                          *)
(***************************************************************************)
EXTENDS ClientList, SequenceLemmas, FiniteSetTheorems, SequenceTheorems, TLAPS

LEMMA RemoveType ==
  ASSUME NEW s \in Seq(Nodes), NEW n
  PROVE  Remove(s, n) \in Seq(Nodes)
<1>1. CASE \E i \in 1 .. Len(s) : s[i] = n
  <2> DEFINE p == CHOOSE i \in 1 .. Len(s) : s[i] = n
  <2>1. p \in 1 .. Len(s)
    BY <1>1
  <2>2. Remove(s, n) = Cut(s, p)
    BY <1>1 DEF Remove, Cut
  <2> HIDE DEF p
  <2> QED BY <2>1, <2>2, CutIsSeq
<1>2. CASE ~ \E i \in 1 .. Len(s) : s[i] = n
  BY <1>2 DEF Remove
<1> QED BY <1>1, <1>2

LEMMA RemoveIsCut ==
  ASSUME NEW s \in Seq(Nodes), Distinct(s), NEW p \in 1 .. Len(s)
  PROVE  Remove(s, s[p]) = Cut(s, p)
<1>1. \A i \in 1 .. Len(s) : s[i] = s[p] => i = p
  BY DEF Distinct
<1>2. (CHOOSE i \in 1 .. Len(s) : s[i] = s[p]) = p
  BY <1>1
<1> QED BY <1>2 DEF Remove, Cut

-----------------------------------------------------------------------------
(* The types, whatever the threads do at the same time.                     *)

HoldsNode == {"link", "tail", "head", "unlink", "close", "free", "send"}

LEMMA TypeInit == Init => TypeOK
BY DEF Init, TypeOK, Pointers, Jobs, Rest, Node, Labels

\* A thread that takes another place in its code, of the right type.
LEMMA JobType ==
  ASSUME job \in [Threads -> Jobs], NEW t \in Threads, NEW j \in Jobs, Become(t, j),
         j.at \in HoldsNode => j.node \in Nodes,
         \A u \in Threads : job[u].at \in HoldsNode => Node(u) \in Nodes
  PROVE  /\ job' \in [Threads -> Jobs]
         /\ \A u \in Threads : job'[u].at \in HoldsNode => job'[u].node \in Nodes
BY DEF Become, Node

LEMMA TypeNext == TypeOK /\ [Next]_vars => TypeOK'
<1> SUFFICES ASSUME TypeOK, [Next]_vars PROVE TypeOK'
  OBVIOUS
<1> USE DEF Pointers
<1>1. /\ \A t \in Threads : job[t] \in Jobs /\ Node(t) \in Pointers /\ Prev(t) \in Pointers
      /\ \A t \in Threads : job[t].at \in HoldsNode => Node(t) \in Nodes
      /\ Main \in Threads /\ Cycle \in Threads
      /\ Removers \subseteq Threads /\ Readers \subseteq Threads
      /\ Rest \in Jobs
  BY DEF TypeOK, Jobs, Node, Prev, HoldsNode, Threads, Removers, Readers, Rest, Labels
<1>2. \A n \in Nodes : NextOf(n) \subseteq Pointers
  BY DEF NextOf, TypeOK
<1>3. ASSUME NEW t \in Threads, NEW j \in Jobs, Become(t, j),
             j.at \in HoldsNode => j.node \in Nodes
      PROVE  /\ job' \in [Threads -> Jobs]
             /\ \A u \in Threads : job'[u].at \in HoldsNode => job'[u].node \in Nodes
  BY <1>1, <1>3, JobType DEF TypeOK
<1>4. ASSUME NEW t \in Threads, NEW label \in Labels, Goto(t, label),
             label \in HoldsNode => Node(t) \in Nodes
      PROVE  /\ job' \in [Threads -> Jobs]
             /\ \A u \in Threads : job'[u].at \in HoldsNode => job'[u].node \in Nodes
  <2>1. [job[t] EXCEPT !.at = label] \in Jobs
    BY <1>1 DEF Jobs, Labels
  <2>2. Become(t, [job[t] EXCEPT !.at = label])
    BY <1>4, <2>1 DEF Become, Goto, TypeOK
  <2>3. label \in HoldsNode => [job[t] EXCEPT !.at = label].node \in Nodes
    BY <1>1, <1>4 DEF Jobs, Node, Labels
  <2> QED BY <1>1, <1>3, <2>1, <2>2, <2>3 DEF Jobs, Labels
<1> DEFINE JobOK == /\ job' \in [Threads -> Jobs]
                    /\ \A u \in Threads : job'[u].at \in HoldsNode => job'[u].node \in Nodes
           LinksOK == /\ head' \in Pointers /\ tail' \in Pointers
                      /\ next' \in [Nodes -> Pointers]
                      /\ sock' \in [Nodes -> Sockets \cup {NULL}]
                      /\ allocated' \subseteq Nodes
                      /\ list' \in Seq(Nodes)
           RestOK == clientCount' \in Int /\ open' \subseteq Sockets
                     /\ mutex' \in Threads \cup {Nobody}
                     /\ races' \subseteq Races
<1>5. JobOK /\ LinksOK /\ RestOK => TypeOK'
  BY DEF TypeOK, Node, HoldsNode, Labels
<1>6. UNCHANGED links => LinksOK
  BY DEF links, heap, TypeOK
<1>7. CASE UNCHANGED vars
  <2>1. UNCHANGED <<links, clientCount, open, mutex, job, races>>
    BY <1>7 DEF vars
  <2> QED BY <1>1, <1>5, <1>6, <2>1 DEF TypeOK, Node
<1>8. CASE \E s \in Sockets : Accept(s)
  <2>1. PICK s \in Sockets : Accept(s)
    BY <1>8
  <2>2. [Rest EXCEPT !.at = "create", !.sock = s] \in Jobs
    BY DEF Rest, Jobs, Labels
  <2>3. JobOK
    BY <1>1, <1>3, <2>1, <2>2 DEF Accept, HoldsNode, Rest, Labels
  <2> QED BY <1>5, <1>6, <2>1, <2>3 DEF Accept, TypeOK
<1>9. CASE CreateNode
  <2>1. PICK n \in Nodes \ allocated :
          /\ next' = [next EXCEPT ![n] = NULL]
          /\ sock' = [sock EXCEPT ![n] = job[Main].sock]
          /\ allocated' = allocated \cup {n}
          /\ Become(Main, [job[Main] EXCEPT !.at = IF head = NULL THEN "tail" ELSE "link",
                                            !.node = n, !.prev = head])
    BY <1>9 DEF CreateNode
  <2>2. /\ [job[Main] EXCEPT !.at = IF head = NULL THEN "tail" ELSE "link",
                             !.node = n, !.prev = head] \in Jobs
        /\ [job[Main] EXCEPT !.at = IF head = NULL THEN "tail" ELSE "link",
                             !.node = n, !.prev = head].node = n
    BY <1>1 DEF TypeOK, Jobs, Labels
  <2>3. JobOK
    BY <1>1, <1>3, <2>1, <2>2
  <2>4. LinksOK
    BY <1>1, <1>9, <2>1 DEF CreateNode, TypeOK, Jobs, Labels
  <2> QED BY <1>5, <1>9, <2>3, <2>4 DEF CreateNode, Race, Races, TypeOK
<1>10. CASE LinkNode
  <2>1. JobOK
    BY <1>1, <1>4, <1>10 DEF LinkNode, At, HoldsNode, Labels
  <2>2. LinksOK
    BY <1>1, <1>10 DEF LinkNode, At, HoldsNode, TypeOK, Labels
  <2> QED BY <1>5, <1>10, <2>1, <2>2 DEF LinkNode, TypeOK
<1>11. CASE MoveTail
  <2>1. JobOK
    BY <1>1, <1>4, <1>11 DEF MoveTail, At, HoldsNode, Labels
  <2>2. LinksOK
    BY <1>1, <1>11 DEF MoveTail, At, HoldsNode, TypeOK, heap, Labels
  <2> QED BY <1>5, <1>11, <2>1, <2>2 DEF MoveTail, TypeOK
<1>12. CASE StoreHead
  <2>1. JobOK
    BY <1>1, <1>4, <1>12 DEF StoreHead, HoldsNode, Labels
  <2>2. LinksOK
    BY <1>1, <1>12 DEF StoreHead, At, HoldsNode, TypeOK, heap, Labels
  <2> QED BY <1>5, <1>12, <2>1, <2>2 DEF StoreHead, TypeOK
<1>13. CASE CountLock
  <2>1. JobOK
    BY <1>1, <1>4, <1>13 DEF CountLock, HoldsNode, Labels
  <2> QED BY <1>1, <1>5, <1>6, <1>13, <2>1 DEF CountLock, Acquire, TypeOK
<1>14. CASE CountClient
  <2>1. JobOK
    BY <1>1, <1>4, <1>14 DEF CountClient, HoldsNode, Labels
  <2> QED BY <1>5, <1>6, <1>14, <2>1 DEF CountClient, TypeOK
<1>15. ASSUME NEW t \in Removers, RemoveStep(t)
       PROVE  TypeOK'
  <2>1. ASSUME NEW s \in Sockets, Leave(t, s)
        PROVE  TypeOK'
    <3>1. [Rest EXCEPT !.at = "lock", !.sock = s] \in Jobs
      BY DEF Rest, Jobs, Labels
    <3>2. JobOK
      BY <1>1, <1>3, <2>1, <3>1 DEF Leave, HoldsNode, Rest, Labels
    <3> QED BY <1>5, <1>6, <2>1, <3>2 DEF Leave, TypeOK
  <2>2. CASE LeaveLock(t)
    <3>1. [job[t] EXCEPT !.at = "walk", !.node = head] \in Jobs
      BY <1>1 DEF TypeOK, Jobs, Labels
    <3>2. [job[t] EXCEPT !.at = "walk", !.node = head].at = "walk"
      BY <1>1 DEF Jobs, Labels
    <3>3. JobOK
      BY <1>1, <1>3, <2>2, <3>1, <3>2 DEF LeaveLock, HoldsNode, Labels
    <3> QED BY <1>1, <1>5, <1>6, <2>2, <3>3 DEF LeaveLock, Acquire, Race, Races, TypeOK
  <2>3. CASE Walk(t)
    <3>0. t \in Threads /\ "unlock" \in Labels /\ "unlink" \in Labels
      BY <1>1 DEF Labels
    <3>1. ASSUME Goto(t, "unlock")
          PROVE  JobOK
      BY <1>1, <1>4, <3>0, <3>1 DEF HoldsNode
    <3>2. ASSUME Node(t) # NULL, Goto(t, "unlink")
          PROVE  JobOK
      <4>1. Node(t) \in Nodes
        BY <1>1, <3>0, <3>2
      <4> QED BY <1>4, <3>0, <3>2, <4>1
    <3>3. ASSUME Node(t) # NULL, NEW n \in NextOf(Node(t)),
                 Become(t, [job[t] EXCEPT !.prev = Node(t), !.node = n])
          PROVE  JobOK
      <4> DEFINE j == [job[t] EXCEPT !.prev = Node(t), !.node = n]
      <4>1. n \in Pointers
        BY <1>1, <1>2, <3>3
      <4>2. j \in Jobs /\ j.at = "walk"
        BY <1>1, <2>3, <4>1 DEF Jobs, Walk, At
      <4>3. Become(t, j)
        BY <3>3
      <4> HIDE DEF j
      <4> QED BY <1>1, <1>3, <4>2, <4>3 DEF HoldsNode
    <3>4. JobOK
      <4>1. CASE Node(t) = NULL
        BY <2>3, <3>1, <4>1 DEF Walk
      <4>2. CASE Node(t) # NULL
        <5>1. \/ Goto(t, "unlink")
              \/ \E n \in NextOf(Node(t)) :
                   Become(t, [job[t] EXCEPT !.prev = Node(t), !.node = n])
          BY <2>3, <4>2 DEF Walk
        <5> QED BY <3>2, <3>3, <4>2, <5>1
      <4> QED BY <4>1, <4>2
    <3> QED BY <1>5, <1>6, <2>3, <3>4 DEF Walk, TypeOK
  <2>4. CASE Unlink(t)
    <3>1. Node(t) \in Nodes /\ Prev(t) \in Pointers
      BY <1>1, <2>4 DEF Unlink, At, HoldsNode, Labels
    <3>2. JobOK
      BY <1>1, <1>4, <2>4, <3>1 DEF Unlink, HoldsNode, Labels
    <3>3. list' \in Seq(Nodes)
      BY <2>4, RemoveType DEF Unlink, TypeOK
    <3>4. LinksOK
      BY <2>4, <3>1, <3>3 DEF Unlink, TypeOK
    <3> QED BY <1>5, <2>4, <3>2, <3>4 DEF Unlink, TypeOK
  <2>5. CASE Close(t)
    <3>1. JobOK
      BY <1>1, <1>4, <2>5 DEF Close, At, HoldsNode, Labels
    <3> QED BY <1>5, <1>6, <2>5, <3>1 DEF Close, TypeOK
  <2>6. CASE Free(t)
    <3>1. JobOK
      BY <1>1, <1>4, <2>6 DEF Free, HoldsNode, Labels
    <3>2. LinksOK
      BY <2>6 DEF Free, TypeOK
    <3> QED BY <1>5, <2>6, <3>1, <3>2 DEF Free, TypeOK
  <2> QED BY <1>15, <2>1, <2>2, <2>3, <2>4, <2>5, <2>6 DEF RemoveStep
<1>16. ASSUME NEW w \in Workers, Broadcast(w)
       PROVE  TypeOK'
  <2>1. /\ [Rest EXCEPT !.at = "send", !.node = head] \in Jobs
        /\ [Rest EXCEPT !.at = "send", !.node = head].node = head
    BY DEF Rest, Jobs, TypeOK, Labels
  <2>2. w \in Threads /\ head \in Nodes
    BY <1>16 DEF Threads, Broadcast, TypeOK
  <2>3. JobOK
    BY <1>3, <1>16, <2>1, <2>2 DEF Broadcast
  <2> QED BY <1>5, <1>6, <1>16, <2>3 DEF Broadcast, TypeOK
<1>17. CASE Frame
  <2>1. JobOK
    BY <1>1, <1>4, <1>17 DEF Frame, HoldsNode, Labels
  <2> QED BY <1>5, <1>6, <1>17, <2>1 DEF Frame, Release, Race, Races, TypeOK
<1>18. CASE FrameBroadcast
  <2> DEFINE j == [Rest EXCEPT !.at = IF head = NULL THEN "unlock" ELSE "send",
                               !.node = head]
  <2>1. /\ j \in Jobs /\ j.node = head
        /\ j.at = IF head = NULL THEN "unlock" ELSE "send"
    BY DEF Rest, Jobs, TypeOK, Labels
  <2>2. Become(Cycle, j)
    BY <1>18 DEF FrameBroadcast
  <2>3. j.at \in HoldsNode => j.node \in Nodes
    BY <2>1 DEF HoldsNode, TypeOK, Labels
  <2> HIDE DEF j
  <2>4. JobOK
    BY <1>1, <1>3, <2>1, <2>2, <2>3
  <2> QED BY <1>5, <1>6, <1>18, <2>4 DEF FrameBroadcast, TypeOK
<1>19. ASSUME NEW t \in Readers, Send(t)
       PROVE  TypeOK'
  <2>1. Node(t) \in Nodes
    BY <1>1, <1>19 DEF Send, At, HoldsNode, Labels
  <2>2. PICK n \in NextOf(Node(t)) :
          Become(t, IF n # NULL THEN [job[t] EXCEPT !.node = n]
                    ELSE IF t = Cycle THEN [Rest EXCEPT !.at = "unlock"]
                    ELSE Rest)
    BY <1>19 DEF Send
  <2>3. n \in Pointers
    BY <1>2, <2>1
  <2>4. CASE n # NULL
    <3>1. /\ [job[t] EXCEPT !.node = n] \in Jobs
          /\ [job[t] EXCEPT !.node = n].node = n /\ n \in Nodes
      BY <1>1, <2>3, <2>4 DEF Jobs, Labels
    <3>2. JobOK
      BY <1>1, <1>3, <2>2, <2>4, <3>1
    <3> QED BY <1>5, <1>6, <1>19, <3>2 DEF Send, TypeOK
  <2>5. CASE n = NULL
    <3>1. /\ [Rest EXCEPT !.at = "unlock"] \in Jobs
          /\ [Rest EXCEPT !.at = "unlock"].at \notin HoldsNode
          /\ Rest.at \notin HoldsNode
      BY DEF Rest, Jobs, HoldsNode, Labels
    <3>2. JobOK
      BY <1>1, <1>3, <2>2, <2>5, <3>1
    <3> QED BY <1>5, <1>6, <1>19, <3>2 DEF Send, TypeOK
  <2> QED BY <2>4, <2>5
<1>20. ASSUME NEW t \in Threads, Unlock(t)
       PROVE  TypeOK'
  <2>1. JobOK
    BY <1>1, <1>3, <1>20 DEF Unlock, HoldsNode, Rest, Labels
  <2> QED BY <1>5, <1>6, <1>20, <2>1 DEF Unlock, Release, Race, Races, TypeOK
<1> QED
  BY <1>7, <1>8, <1>9, <1>10, <1>11, <1>12, <1>13, <1>14, <1>15, <1>16, <1>17, <1>18,
     <1>19, <1>20 DEF Next, MainStep

\* Pointers, blocks and sockets stay what they are, whatever the threads do at
\* the same time: a thread follows and frees blocks of the heap only.
THEOREM TypeCorrect == Spec => []TypeOK
BY TypeInit, TypeNext, PTL DEF Spec

-----------------------------------------------------------------------------
(* How the mutex keeps the changes apart.                                   *)

\* As long as no append has overlapped a removal, and nobody has released the
\* mutex under a thread that was changing the list, who changes it holds the
\* mutex or is main, appending alone.
RaceInv ==
  /\ \A t \in Threads : /\ Walking(t) => t \in Removers
                        /\ At(t, "increment") => t = Main
                        /\ job[t].at \in {"link", "tail", "head"} => t = Main
  /\ "append" \notin races => ~(Adding /\ \E t \in Removers : Walking(t))
  /\ "release" \notin races => \A t \in Threads : Locking(t) => mutex = t

LEMMA RaceInit == Init => RaceInv
BY DEF Init, RaceInv, Rest, Walking, Locking, Adding, At, Threads

\* A thread whose step is that of a change only if it was at one.
LEMMA RaceKept ==
  ASSUME TypeOK, RaceInv, races' = races, mutex' = mutex,
         NEW t \in Threads, NEW j \in Jobs, Become(t, j),
         j.at \in {"walk", "unlink", "close", "free"} => Walking(t),
         j.at # "increment",
         j.at \in {"link", "tail", "head"} => t = Main /\ Adding
  PROVE  RaceInv'
<1>1. job'[t] = j /\ \A u \in Threads : u # t => job'[u] = job[u]
  BY DEF Become, TypeOK
<1>2. Main \in Threads /\ Removers \subseteq Threads
  BY DEF Threads, Removers
<1>3. /\ \A u \in Threads : Walking(u)' => Walking(u)
      /\ \A u \in Threads : Locking(u)' => Locking(u)
      /\ Adding' => Adding
  BY <1>1, <1>2 DEF Walking, Locking, Adding, At
<1>4. \A u \in Threads : /\ At(u, "increment")' => At(u, "increment")
                         /\ job'[u].at \in {"link", "tail", "head"} =>
                              u = Main \/ job[u].at \in {"link", "tail", "head"}
  BY <1>1 DEF At
<1> QED BY <1>2, <1>3, <1>4 DEF RaceInv

LEMMA RaceGoto ==
  ASSUME TypeOK, RaceInv, races' = races, mutex' = mutex,
         NEW t \in Threads, NEW label \in Labels, Goto(t, label),
         label \in {"walk", "unlink", "close", "free"} => Walking(t),
         label # "increment",
         label \in {"link", "tail", "head"} => t = Main /\ Adding
  PROVE  RaceInv'
<1> DEFINE j == [job[t] EXCEPT !.at = label]
<1>1. j \in Jobs /\ j.at = label
  BY DEF TypeOK, Jobs
<1>2. Become(t, j)
  BY DEF Goto, Become, TypeOK
<1> HIDE DEF j
<1> QED BY <1>1, <1>2, RaceKept

\* A thread that gets the mutex, for a removal or to count a client.
LEMMA RaceAcquire ==
  ASSUME TypeOK, RaceInv, NEW t \in Threads, Acquire(t), races \subseteq races',
         NEW j \in Jobs, Become(t, j),
         \/ j.at = "walk" /\ t \in Removers /\ (Adding => "append" \in races')
         \/ j.at = "increment" /\ t = Main
  PROVE  RaceInv'
<1>1. job'[t] = j /\ \A u \in Threads : u # t => job'[u] = job[u]
  BY DEF Become, TypeOK
<1>2. Main \in Threads /\ Removers \subseteq Threads /\ Nobody \notin Threads
  BY ThreadsAssumption DEF Threads, Removers
<1>3. mutex = Nobody /\ mutex' = t
  BY DEF Acquire
<1>4. \A u \in Threads : /\ u # t => /\ Walking(u)' <=> Walking(u)
                                     /\ Locking(u)' <=> Locking(u)
                                     /\ At(u, "increment")' <=> At(u, "increment")
                         /\ job'[u].at \in {"link", "tail", "head"} =>
                              job[u].at \in {"link", "tail", "head"}
  BY <1>1 DEF Walking, Locking, At
<1>5. /\ \A u \in Threads : Walking(u)' => u \in Removers
      /\ \A u \in Threads : At(u, "increment")' => u = Main
  BY <1>1, <1>4 DEF RaceInv, Walking, At
<1>6. "append" \notin races' => ~(Adding' /\ \E u \in Removers : Walking(u)')
  <2> SUFFICES ASSUME "append" \notin races', Adding' PROVE \A u \in Removers : ~Walking(u)'
    OBVIOUS
  <2>1. Main # t /\ Adding
    BY <1>1, <1>2 DEF Adding
  <2>2. FALSE
    BY <2>1
  <2> QED BY <2>2
<1>7. "release" \notin races' => \A u \in Threads : Locking(u)' => mutex' = u
  BY <1>2, <1>3, <1>4 DEF RaceInv
<1> QED BY <1>4, <1>5, <1>6, <1>7 DEF RaceInv

\* A thread that releases the mutex, whether or not it holds it.
LEMMA RaceRelease ==
  ASSUME TypeOK, RaceInv, NEW t \in Threads, Release(t), NEW j \in Jobs, Become(t, j),
         j.at \in {"rest", "frame"}
  PROVE  RaceInv'
<1>1. job'[t] = j /\ \A u \in Threads : u # t => job'[u] = job[u]
  BY DEF Become, TypeOK
<1>2. Main \in Threads /\ Removers \subseteq Threads
  BY DEF Threads, Removers
<1>3. /\ races \subseteq races'
      /\ "release" \notin races' => \A u \in Threads : u # t /\ Locking(u) => mutex # u
  BY DEF Release, Race
<1>4. /\ \A u \in Threads : Walking(u)' => u # t /\ Walking(u)
      /\ \A u \in Threads : Locking(u)' => u # t /\ Locking(u)
      /\ \A u \in Threads : At(u, "increment")' => At(u, "increment")
      /\ \A u \in Threads : job'[u].at \in {"link", "tail", "head"} =>
                              job[u].at \in {"link", "tail", "head"}
      /\ Adding' => Adding
  BY <1>1, <1>2 DEF Walking, Locking, Adding, At
<1>5. "release" \notin races' => \A u \in Threads : ~Locking(u)'
  BY <1>3, <1>4 DEF RaceInv
<1> QED BY <1>2, <1>3, <1>4, <1>5 DEF RaceInv

LEMMA RaceNext == TypeOK /\ RaceInv /\ [Next]_vars => RaceInv'
<1> SUFFICES ASSUME TypeOK, RaceInv, [Next]_vars PROVE RaceInv'
  OBVIOUS
<1>0. /\ \A t \in Threads : job[t] \in Jobs
      /\ Main \in Threads /\ Cycle \in Threads
      /\ Removers \subseteq Threads /\ Readers \subseteq Threads /\ Workers \subseteq Threads
      /\ Rest \in Jobs /\ Rest.at = "rest"
  BY DEF TypeOK, Threads, Removers, Readers, Rest, Jobs, Labels, Pointers
<1>1. CASE UNCHANGED vars
  BY <1>1 DEF vars, RaceInv, Walking, Locking, Adding, At
<1>2. ASSUME NEW s \in Sockets, Accept(s)
      PROVE  RaceInv'
  <2>1. /\ [Rest EXCEPT !.at = "create", !.sock = s] \in Jobs
        /\ [Rest EXCEPT !.at = "create", !.sock = s].at = "create"
    BY DEF Rest, Jobs, Labels, Pointers
  <2> QED BY <1>0, <1>2, <2>1, RaceKept DEF Accept
<1>3. CASE CreateNode
  <2>1. PICK n \in Nodes :
          Become(Main, [job[Main] EXCEPT !.at = IF head = NULL THEN "tail" ELSE "link",
                                         !.node = n, !.prev = head])
    BY <1>3 DEF CreateNode
  <2> DEFINE j == [job[Main] EXCEPT !.at = IF head = NULL THEN "tail" ELSE "link",
                                    !.node = n, !.prev = head]
  <2>2. j.at \in {"tail", "link"}
    BY <1>0 DEF Jobs
  <2> HIDE DEF j
  <2>3. job'[Main] = j /\ \A u \in Threads : u # Main => job'[u] = job[u]
    BY <1>0, <2>1 DEF Become, TypeOK, j
  <2>4. /\ \A u \in Threads : Walking(u)' => Walking(u)
        /\ \A u \in Threads : Locking(u)' => Locking(u)
        /\ \A u \in Threads : At(u, "increment")' => At(u, "increment")
        /\ \A u \in Threads : job'[u].at \in {"link", "tail", "head"} =>
                                u = Main \/ job[u].at \in {"link", "tail", "head"}
    BY <2>2, <2>3 DEF Walking, Locking, At
  <2>5. /\ mutex' = mutex /\ races \subseteq races'
        /\ "append" \notin races' => \A u \in Removers : ~Walking(u)
    BY <1>3 DEF CreateNode, Race
  <2> QED BY <1>0, <2>4, <2>5 DEF RaceInv
<1>4. CASE LinkNode
  BY <1>0, <1>4, RaceGoto DEF LinkNode, At, Adding, Labels
<1>5. CASE MoveTail
  BY <1>0, <1>5, RaceGoto DEF MoveTail, At, Adding, Labels
<1>6. CASE StoreHead
  BY <1>0, <1>6, RaceGoto DEF StoreHead, At, Adding, Labels
<1>7. CASE CountLock
  <2> DEFINE j == [job[Main] EXCEPT !.at = "increment"]
  <2>1. j \in Jobs /\ j.at = "increment"
    BY <1>0 DEF Jobs, Labels
  <2>2. Become(Main, j)
    BY <1>0, <1>7 DEF CountLock, Become, Goto, TypeOK
  <2> HIDE DEF j
  <2>3. Acquire(Main) /\ races' = races
    BY <1>7 DEF CountLock
  <2> QED BY <1>0, <2>1, <2>2, <2>3, RaceAcquire
<1>8. CASE CountClient
  BY <1>0, <1>8, RaceGoto DEF CountClient, Labels
<1>9. ASSUME NEW t \in Removers, RemoveStep(t)
      PROVE  RaceInv'
  <2>1. ASSUME NEW s \in Sockets, Leave(t, s)
        PROVE  RaceInv'
    <3>1. /\ [Rest EXCEPT !.at = "lock", !.sock = s] \in Jobs
          /\ [Rest EXCEPT !.at = "lock", !.sock = s].at = "lock"
      BY DEF Rest, Jobs, Labels, Pointers
    <3> QED BY <1>0, <2>1, <3>1, RaceKept DEF Leave
  <2>2. CASE LeaveLock(t)
    <3> DEFINE j == [job[t] EXCEPT !.at = "walk", !.node = head]
    <3>1. j \in Jobs /\ j.at = "walk"
      BY <1>0 DEF Jobs, Labels, TypeOK
    <3>2. Become(t, j) /\ Acquire(t)
      BY <2>2 DEF LeaveLock
    <3> HIDE DEF j
    <3>3. races \subseteq races' /\ (Adding => "append" \in races')
      BY <2>2 DEF LeaveLock, Race
    <3> QED BY <1>0, <3>1, <3>2, <3>3, RaceAcquire
  <2>3. CASE Walk(t)
    <3>1. Walking(t) /\ races' = races /\ mutex' = mutex /\ t \in Threads
      BY <1>0, <2>3 DEF Walk, Walking, At
    <3>2. ASSUME NEW label \in {"unlock", "unlink"}, Goto(t, label)
          PROVE  RaceInv'
      BY <3>1, <3>2, RaceGoto DEF Labels
    <3>3. ASSUME Node(t) # NULL, NEW n \in NextOf(Node(t)),
                 Become(t, [job[t] EXCEPT !.prev = Node(t), !.node = n])
          PROVE  RaceInv'
      <4> DEFINE j == [job[t] EXCEPT !.prev = Node(t), !.node = n]
      <4>1. n \in Pointers /\ Node(t) \in Pointers
        BY <1>0, <3>1, <3>3 DEF NextOf, TypeOK, Jobs, Node, Pointers
      <4>2. j \in Jobs /\ j.at = "walk"
        BY <1>0, <2>3, <3>1, <4>1 DEF Jobs, Walk, At
      <4>3. Become(t, j)
        BY <3>3
      <4> HIDE DEF j
      <4> QED BY <3>1, <4>2, <4>3, RaceKept
    <3>4. \/ Goto(t, "unlock") \/ Goto(t, "unlink")
          \/ Node(t) # NULL /\ \E n \in NextOf(Node(t)) :
               Become(t, [job[t] EXCEPT !.prev = Node(t), !.node = n])
      BY <2>3 DEF Walk
    <3> QED BY <3>2, <3>3, <3>4
  <2>4. CASE Unlink(t)
    BY <1>0, <2>4, RaceGoto DEF Unlink, Walking, At, Labels
  <2>5. CASE Close(t)
    BY <1>0, <2>5, RaceGoto DEF Close, Walking, At, Labels
  <2>6. CASE Free(t)
    BY <1>0, <2>6, RaceGoto DEF Free, Labels
  <2> QED BY <1>9, <2>1, <2>2, <2>3, <2>4, <2>5, <2>6 DEF RemoveStep
<1>10. ASSUME NEW w \in Workers, Broadcast(w)
       PROVE  RaceInv'
  <2>1. /\ [Rest EXCEPT !.at = "send", !.node = head] \in Jobs
        /\ [Rest EXCEPT !.at = "send", !.node = head].at = "send"
    BY DEF Rest, Jobs, Labels, Pointers, TypeOK
  <2> QED BY <1>0, <1>10, <2>1, RaceKept DEF Broadcast
<1>11. CASE Frame
  <2> DEFINE j == [job[Cycle] EXCEPT !.at = "frame"]
  <2>1. j \in Jobs /\ j.at = "frame"
    BY <1>0 DEF Jobs, Labels
  <2>2. Become(Cycle, j) /\ Release(Cycle)
    BY <1>0, <1>11 DEF Frame, Become, Goto, TypeOK
  <2> HIDE DEF j
  <2> QED BY <1>0, <2>1, <2>2, RaceRelease
<1>12. CASE FrameBroadcast
  <2> DEFINE j == [Rest EXCEPT !.at = IF head = NULL THEN "unlock" ELSE "send",
                               !.node = head]
  <2>1. j \in Jobs /\ j.at \in {"unlock", "send"}
    BY DEF Rest, Jobs, Labels, Pointers, TypeOK
  <2>2. Become(Cycle, j) /\ races' = races /\ mutex' = mutex
    BY <1>12 DEF FrameBroadcast
  <2> HIDE DEF j
  <2> QED BY <1>0, <2>1, <2>2, RaceKept
<1>13. ASSUME NEW t \in Readers, Send(t)
       PROVE  RaceInv'
  <2>1. t \in Threads /\ job[t].at = "send" /\ Node(t) \in Nodes
    BY <1>0, <1>13 DEF Send, At, TypeOK
  <2>2. PICK n \in NextOf(Node(t)) :
          Become(t, IF n # NULL THEN [job[t] EXCEPT !.node = n]
                    ELSE IF t = Cycle THEN [Rest EXCEPT !.at = "unlock"]
                    ELSE Rest)
    BY <1>13 DEF Send
  <2>3. n \in Pointers
    BY <2>1, <2>2 DEF NextOf, TypeOK, Pointers
  <2> DEFINE j == IF n # NULL THEN [job[t] EXCEPT !.node = n]
                  ELSE IF t = Cycle THEN [Rest EXCEPT !.at = "unlock"] ELSE Rest
  <2>4. [job[t] EXCEPT !.node = n] \in Jobs /\ [job[t] EXCEPT !.node = n].at = "send"
    BY <1>0, <2>1, <2>3 DEF Jobs
  <2>5. [Rest EXCEPT !.at = "unlock"] \in Jobs /\ [Rest EXCEPT !.at = "unlock"].at = "unlock"
    BY DEF Rest, Jobs, Labels, Pointers
  <2>6. j \in Jobs /\ j.at \in {"send", "unlock", "rest"}
    BY <1>0, <2>4, <2>5
  <2>7. Become(t, j) /\ races' = races /\ mutex' = mutex
    BY <1>13, <2>2 DEF Send
  <2> HIDE DEF j
  <2> QED BY <2>1, <2>6, <2>7, RaceKept
<1>14. ASSUME NEW t \in Threads, Unlock(t)
       PROVE  RaceInv'
  BY <1>0, <1>14, RaceRelease DEF Unlock
<1> QED
  BY <1>1, <1>2, <1>3, <1>4, <1>5, <1>6, <1>7, <1>8, <1>9, <1>10, <1>11, <1>12, <1>13, <1>14
  DEF Next, MainStep

LEMMA RaceApart == RaceInv => ChangesApart
<1> SUFFICES ASSUME RaceInv, races = {}, NEW t \in Threads, NEW u \in Threads,
                    Changing(t), Changing(u)
             PROVE  t = u
  BY DEF ChangesApart, OneChanges
<1>1. CASE Locking(t) /\ Locking(u)
  BY <1>1 DEF RaceInv
<1>2. CASE ~Locking(t) /\ ~Locking(u)
  BY <1>2 DEF Changing
<1>3. ASSUME NEW v \in Threads, Locking(v), Adding
      PROVE  v = Main
  <2>1. Walking(v) => FALSE
    BY <1>3 DEF RaceInv
  <2> QED BY <1>3, <2>1 DEF RaceInv, Locking
<1> QED BY <1>1, <1>2, <1>3 DEF Changing

\* Two threads change the list at once only after main has appended beside a
\* removal or the mutex has been released under a change: for any number of
\* workers and clients, and whatever is removed, when and by whom, there is no
\* third way.
THEOREM KeepsChangesApart == Spec => []ChangesApart
BY TypeCorrect, RaceInit, RaceNext, RaceApart, PTL DEF Spec

-----------------------------------------------------------------------------
(* What holds as long as the changes are apart.                             *)

\* The list with the node that main is linking, as far as main has come.
ChainInv ==
  /\ Distinct(list)
  /\ ~Adding \/ At(Main, "link") => Chain(list, head, tail, next, NULL)
  /\ At(Main, "link") => Prev(Main) = head /\ head # NULL
  /\ At(Main, "tail") \/ At(Main, "head") =>
       Chain(Append(list, Node(Main)),
             IF Prev(Main) = NULL THEN Node(Main) ELSE Prev(Main), Node(Main), next, NULL)
  /\ At(Main, "head") => tail = Node(Main)
  /\ Adding => /\ Node(Main) \in allocated \ NodesOf(list)
               /\ next[Node(Main)] = NULL
               /\ sock[Node(Main)] = job[Main].sock

\* Every block in use is in the list, or the one main is linking, or the one a
\* thread has unlinked and will free.
Removing(t) == job[t].at \in {"close", "free"}
AllocInv ==
  /\ NodesOf(list) \subseteq allocated
  /\ \A n \in allocated :
       \/ n \in NodesOf(list)
       \/ Adding /\ n = Node(Main)
       \/ \E t \in Removers : Removing(t) /\ n = Node(t)

\* The nodes whose sockets are open.
Held(n) == n \in NodesOf(list) \/ \E t \in Removers : At(t, "close") /\ n = Node(t)
SockInv ==
  /\ \A m, n \in Nodes : Held(m) /\ Held(n) /\ sock[m] = sock[n] => m = n
  /\ \A s \in Sockets : s \in open <=> \/ \E n \in Nodes : Held(n) /\ sock[n] = s
                                       \/ Accepting /\ s = job[Main].sock
  /\ \A n \in Nodes : Held(n) => sock[n] \in Sockets
  /\ Accepting => /\ job[Main].sock \in Sockets
                  /\ \A n \in Nodes : Held(n) => sock[n] # job[Main].sock

CountInv ==
  clientCount = Len(list) + (IF \E t \in Removers : At(t, "close") THEN 1 ELSE 0)
                - (IF job[Main].at \in {"count", "increment"} THEN 1 ELSE 0)

\* A removal walks the list and has found what it was to find.
StandsAt(t, p) ==
  /\ Node(t) = IF p = Len(list) + 1 THEN NULL ELSE list[p]
  /\ Prev(t) = Before(list, p, NULL)

RemovalOK(t) ==
  /\ At(t, "lock") => Prev(t) = NULL
  /\ At(t, "walk") => \E p \in 1 .. Len(list) + 1 : StandsAt(t, p)
  /\ At(t, "unlink") => /\ \E p \in 1 .. Len(list) : StandsAt(t, p)
                        /\ sock[Node(t)] = job[t].sock
  /\ Removing(t) => /\ Node(t) \in allocated \ NodesOf(list)
                    /\ next[Node(t)] \in NodesOf(list) \cup {NULL}
  /\ At(t, "close") => sock[Node(t)] = job[t].sock

RemovalInv == \A t \in Removers : RemovalOK(t)

IInv == ChainInv /\ AllocInv /\ SockInv /\ CountInv /\ RemovalInv

-----------------------------------------------------------------------------

LEMMA InvInit == Init => IInv
<1> SUFFICES ASSUME Init PROVE IInv
  OBVIOUS
<1>1. /\ list = << >> /\ Len(list) = 0 /\ head = NULL /\ tail = NULL
      /\ allocated = {} /\ open = {} /\ clientCount = 0
      /\ \A t \in Threads : job[t].at = "rest"
  BY DEF Init, Rest
<1>2. Main \in Threads /\ Removers \subseteq Threads
  BY DEF Threads, Removers
<1>3. NodesOf(list) = {}
  BY <1>1 DEF NodesOf
<1>4. ChainInv
  BY <1>1, <1>2 DEF ChainInv, Adding, At, Distinct, Chain
<1>5. \A t \in Removers : RemovalOK(t)
  BY <1>1, <1>2 DEF RemovalOK, Removing, At
<1>6. \A n : ~Held(n)
  BY <1>1, <1>2, <1>3 DEF Held, At
<1>7. SockInv /\ CountInv /\ AllocInv
  BY <1>1, <1>2, <1>3, <1>6 DEF SockInv, CountInv, AllocInv, Accepting, At
<1> QED BY <1>4, <1>5, <1>7 DEF IInv, RemovalInv

\* Steps that move a thread and change nothing of the list: what they keep.
Quiet(label) == label \notin {"create", "link", "tail", "head", "close", "free"}
Counting(label) == label \in {"count", "increment"}

LEMMA QuietStep ==
  ASSUME TypeOK, IInv, UNCHANGED <<links, clientCount, open>>,
         NEW t \in Threads, NEW j \in Jobs, Become(t, j),
         Quiet(job[t].at), Quiet(j.at),
         t = Main => (Counting(job[t].at) <=> Counting(j.at)),
         t \in Removers => RemovalOK(t)'
  PROVE  IInv'
<1>1. /\ head' = head /\ tail' = tail /\ next' = next /\ sock' = sock
      /\ allocated' = allocated /\ list' = list
      /\ open' = open /\ clientCount' = clientCount
  BY DEF links, heap
<1>2. /\ \A u \in Threads : u # t => job'[u] = job[u]
      /\ job'[t] = j
      /\ Main \in Threads /\ Removers \subseteq Threads
  BY DEF Become, TypeOK, Threads, Removers
<1>3. /\ \A u \in Threads : job'[u].at = "close" <=> job[u].at = "close"
      /\ \A u \in Threads : job'[u].at \in {"close", "free"} <=> job[u].at \in {"close", "free"}
      /\ \A u \in Threads : job'[u].at \in {"close", "free"} => job'[u] = job[u]
  BY <1>2 DEF Quiet
<1>4. /\ Accepting' <=> Accepting
      /\ Accepting => job'[Main] = job[Main]
      /\ Adding' <=> Adding
      /\ Adding => job'[Main] = job[Main]
      /\ \A l \in {"link", "tail", "head"} : At(Main, l)' <=> At(Main, l)
      /\ Adding <=> \E l \in {"link", "tail", "head"} : At(Main, l)
      /\ Counting(job'[Main].at) <=> Counting(job[Main].at)
  BY <1>2 DEF Quiet, Accepting, Adding, At
<1>5. ChainInv'
  BY <1>1, <1>4 DEF IInv, ChainInv, Node, Prev
<1>6. AllocInv'
  BY <1>1, <1>2, <1>3, <1>4 DEF IInv, AllocInv, Removing, Node
<1>7. \A n : Held(n)' <=> Held(n)
  BY <1>1, <1>2, <1>3 DEF Held, At, Node
<1>8. SockInv'
  BY <1>1, <1>4, <1>7 DEF IInv, SockInv
<1>9. CountInv'
  BY <1>1, <1>2, <1>3, <1>4 DEF IInv, CountInv, Counting, At
<1>10. RemovalInv'
  <2> SUFFICES ASSUME NEW u \in Removers, u # t PROVE RemovalOK(u)'
    BY DEF RemovalInv
  <2>1. job'[u] = job[u] /\ RemovalOK(u)
    BY <1>2 DEF IInv, RemovalInv
  <2> QED BY <1>1, <2>1 DEF RemovalOK, StandsAt, Removing, At, Node, Prev
<1> QED BY <1>5, <1>6, <1>8, <1>9, <1>10 DEF IInv

\* The same for a thread that does not remove a client.
LEMMA QuietOther ==
  ASSUME TypeOK, IInv, UNCHANGED <<links, clientCount, open>>,
         NEW t \in Threads, NEW j \in Jobs, Become(t, j),
         Quiet(job[t].at),
         j.at \notin {"create", "link", "tail", "head", "lock", "walk", "unlink",
                      "close", "free"},
         t = Main => (Counting(job[t].at) <=> Counting(j.at))
  PROVE  IInv'
<1>1. job'[t] = j
  BY DEF Become, TypeOK
<1>2. RemovalOK(t)'
  BY <1>1 DEF RemovalOK, Removing, At
<1> QED BY <1>2, QuietStep DEF Quiet

LEMMA LeaveInv ==
  ASSUME TypeOK, IInv, NEW t \in Removers, NEW s \in Sockets, Leave(t, s)
  PROVE  IInv'
<1> DEFINE j == [Rest EXCEPT !.at = "lock", !.sock = s]
<1>1. j \in Jobs /\ j.at = "lock" /\ j.prev = NULL
  BY DEF Rest, Jobs, Labels, Pointers
<1>2. t \in Threads /\ Become(t, j) /\ job[t].at = "rest"
  BY DEF Leave, At, Threads, Removers
<1>3. UNCHANGED <<links, clientCount, open>>
  BY DEF Leave
<1> HIDE DEF j
<1>4. job'[t] = j
  BY <1>2 DEF Become, TypeOK
<1>5. RemovalOK(t)'
  BY <1>1, <1>4 DEF RemovalOK, Removing, At, Prev
<1>6. Quiet(job[t].at) /\ Quiet(j.at) /\ ~Counting(job[t].at) /\ ~Counting(j.at)
  BY <1>1, <1>2 DEF Quiet, Counting
<1> QED BY <1>1, <1>2, <1>3, <1>5, <1>6, QuietStep

\* While a thread changes the list, main is not linking a client to it.
LEMMA NotAdding ==
  ASSUME OneChanges, NEW t \in Threads, Changing(t),
         job[t].at \notin {"link", "tail", "head"}
  PROVE  /\ ~Adding
         /\ \A u \in Threads : Changing(u) => u = t
<1>1. Main \in Threads
  BY DEF Threads
<1> QED BY <1>1 DEF OneChanges, Changing, Locking, Walking, Adding

LEMMA LeaveLockInv ==
  ASSUME TypeOK, IInv, OneChanges', NEW t \in Removers, LeaveLock(t)
  PROVE  IInv'
<1> DEFINE j == [job[t] EXCEPT !.at = "walk", !.node = head]
<1>1. t \in Threads /\ job[t] \in Jobs /\ job[t].at = "lock" /\ Become(t, j)
      /\ Main \in Threads
  BY DEF LeaveLock, At, Threads, Removers, TypeOK
<1>2. /\ j \in Jobs /\ j.at = "walk" /\ j.node = head /\ j.prev = job[t].prev
  BY <1>1 DEF Jobs, Labels, TypeOK
<1>3. UNCHANGED <<links, clientCount, open>> /\ list' = list /\ head' = head
  BY DEF LeaveLock, links
<1> HIDE DEF j
<1>4. job'[t] = j /\ \A u \in Threads : u # t => job'[u] = job[u]
  BY <1>1 DEF Become, TypeOK
<1>5. ~Adding
  <2>1. CASE Main = t
    BY <1>1, <2>1 DEF Adding
  <2>2. CASE Main # t
    BY <1>1, <1>2, <1>4, <2>2 DEF OneChanges, Changing, Locking, Walking, Adding
  <2> QED BY <2>1, <2>2
<1>6. Chain(list, head, tail, next, NULL) /\ list \in Seq(Nodes) /\ job[t].prev = NULL
  BY <1>1, <1>5 DEF IInv, ChainInv, RemovalInv, RemovalOK, At, Prev, TypeOK
<1>7. RemovalOK(t)'
  <2>1. 1 \in 1 .. Len(list) + 1 /\ (1 = Len(list) + 1 <=> list = << >>)
    BY <1>6
  <2>2. head = IF 1 = Len(list) + 1 THEN NULL ELSE list[1]
    BY <1>6, <2>1 DEF Chain
  <2>3. StandsAt(t, 1)'
    BY <1>2, <1>3, <1>4, <1>6, <2>2 DEF StandsAt, Node, Prev, Before
  <2>4. \E p \in 1 .. Len(list') + 1 : StandsAt(t, p)'
    BY <1>3, <2>1, <2>3
  <2> QED BY <1>2, <1>4, <2>4 DEF RemovalOK, Removing, At
<1>8. Quiet(job[t].at) /\ Quiet(j.at) /\ ~Counting(job[t].at) /\ ~Counting(j.at)
  BY <1>1, <1>2 DEF Quiet, Counting
<1> QED BY <1>1, <1>2, <1>3, <1>7, <1>8, QuietStep

\* Where a removal that stands at p goes next.
LEMMA WalkOn ==
  ASSUME TypeOK, IInv, ~Adding, NEW t, NEW p \in 1 .. Len(list) + 1, StandsAt(t, p),
         Node(t) # NULL
  PROVE  /\ p \in 1 .. Len(list) /\ Node(t) = list[p] /\ Node(t) \in NodesOf(list)
         /\ p + 1 \in 1 .. Len(list) + 1
         /\ next[Node(t)] = IF p + 1 = Len(list) + 1 THEN NULL ELSE list[p + 1]
         /\ Before(list, p + 1, NULL) = Node(t)
<1>1. /\ list \in Seq(Nodes) /\ Len(list) \in Nat /\ Chain(list, head, tail, next, NULL)
  BY DEF TypeOK, IInv, ChainInv
<1>2. p \in 1 .. Len(list) /\ Node(t) = list[p]
  BY <1>1 DEF StandsAt
<1>3. next[list[p]] = IF p = Len(list) THEN NULL ELSE list[p + 1]
  BY <1>1, <1>2 DEF Chain
<1>4. p + 1 = Len(list) + 1 <=> p = Len(list)
  BY <1>1
<1>5. p + 1 # 1 /\ (p + 1) - 1 = p /\ p + 1 \in 1 .. Len(list) + 1
  BY <1>1, <1>2
<1> QED BY <1>2, <1>3, <1>4, <1>5 DEF Before, NodesOf

LEMMA WalkInv ==
  ASSUME TypeOK, IInv, OneChanges, NEW t \in Removers, Walk(t)
  PROVE  IInv'
<1>1. t \in Threads /\ job[t] \in Jobs /\ job[t].at = "walk" /\ Main \in Threads
  BY DEF Walk, At, Threads, Removers, TypeOK
<1>2. UNCHANGED <<links, clientCount, open>> /\ list' = list /\ sock' = sock
  BY DEF Walk, links, heap
<1>3. ~Adding
  BY <1>1, NotAdding DEF Changing, Locking, Walking
<1>4. PICK p \in 1 .. Len(list) + 1 : StandsAt(t, p)
  BY <1>1 DEF IInv, RemovalInv, RemovalOK, At
<1>5. Quiet(job[t].at) /\ ~Counting(job[t].at)
  BY <1>1 DEF Quiet, Counting
<1>6. ASSUME NEW label \in {"unlock", "unlink"}, Goto(t, label),
             label = "unlink" => Node(t) # NULL /\ sock[Node(t)] = job[t].sock
      PROVE  IInv'
  <2> DEFINE j == [job[t] EXCEPT !.at = label]
  <2>1. /\ j \in Jobs /\ j.at = label /\ j.node = job[t].node /\ j.prev = job[t].prev
        /\ j.sock = job[t].sock
    BY <1>1, <1>6 DEF Jobs, Labels
  <2>2. Become(t, j)
    BY <1>1, <1>6 DEF Become, Goto, TypeOK
  <2> HIDE DEF j
  <2>3. job'[t] = j
    BY <1>1, <2>2 DEF Become, TypeOK
  <2>4. label = "unlink" => p \in 1 .. Len(list)
    BY <1>3, <1>4, <1>6, WalkOn
  <2>5. StandsAt(t, p)'
    BY <1>2, <1>4, <2>1, <2>3 DEF StandsAt, Node, Prev
  <2>6. RemovalOK(t)'
    BY <1>2, <1>6, <2>1, <2>3, <2>4, <2>5 DEF RemovalOK, Removing, At, Node
  <2>7. Quiet(j.at) /\ ~Counting(j.at)
    BY <1>6, <2>1 DEF Quiet, Counting
  <2> QED BY <1>1, <1>2, <1>5, <2>1, <2>2, <2>6, <2>7, QuietStep
<1>7. CASE Node(t) = NULL
  BY <1>6, <1>7 DEF Walk
<1>8. CASE Node(t) # NULL
  <2>1. /\ p \in 1 .. Len(list) /\ Node(t) = list[p] /\ Node(t) \in NodesOf(list)
        /\ p + 1 \in 1 .. Len(list) + 1
        /\ next[Node(t)] = IF p + 1 = Len(list) + 1 THEN NULL ELSE list[p + 1]
        /\ Before(list, p + 1, NULL) = Node(t)
    BY <1>3, <1>4, <1>8, WalkOn
  <2>2. Node(t) \in allocated
    BY <2>1 DEF IInv, AllocInv
  <2>3. IF sock[Node(t)] = job[t].sock
          THEN Goto(t, "unlink")
          ELSE Become(t, [job[t] EXCEPT !.prev = Node(t), !.node = next[Node(t)]])
    BY <1>8, <2>2 DEF Walk, SockOf, NextOf
  <2>4. CASE sock[Node(t)] = job[t].sock
    BY <1>6, <1>8, <2>3, <2>4
  <2>5. CASE sock[Node(t)] # job[t].sock
    <3> DEFINE j == [job[t] EXCEPT !.prev = Node(t), !.node = next[Node(t)]]
    <3>1. Node(t) \in Nodes /\ next[Node(t)] \in Pointers /\ Node(t) \in Pointers
      BY <2>2 DEF TypeOK, Pointers
    <3>2. /\ j \in Jobs /\ j.at = "walk" /\ j.node = next[Node(t)] /\ j.prev = Node(t)
      BY <1>1, <3>1 DEF Jobs
    <3>3. Become(t, j)
      BY <2>3, <2>5
    <3> HIDE DEF j
    <3>4. job'[t] = j
      BY <1>1, <3>3 DEF Become, TypeOK
    <3>5. StandsAt(t, p + 1)'
      <4>1. job'[t].node = next[Node(t)] /\ job'[t].prev = Node(t)
        BY <3>2, <3>4
      <4> QED BY <1>2, <2>1, <4>1 DEF StandsAt, Node, Prev
    <3>6. \E q \in 1 .. Len(list') + 1 : StandsAt(t, q)'
      BY <1>2, <2>1, <3>5
    <3>7. RemovalOK(t)'
      BY <3>2, <3>4, <3>6 DEF RemovalOK, Removing, At
    <3>8. Quiet(j.at) /\ ~Counting(j.at)
      BY <3>2 DEF Quiet, Counting
    <3> QED BY <1>1, <1>2, <1>5, <3>2, <3>3, <3>7, <3>8, QuietStep
  <2> QED BY <2>4, <2>5
<1> QED BY <1>7, <1>8

LEMMA OtherInv ==
  ASSUME TypeOK, IInv,
         \/ CountLock \/ Frame \/ FrameBroadcast
         \/ \E w \in Workers : Broadcast(w)
         \/ \E t \in Readers : Send(t)
         \/ \E t \in Threads : Unlock(t)
  PROVE  IInv'
<1>1. /\ Main \in Threads /\ Cycle \in Threads /\ Cycle # Main
      /\ Workers \subseteq Threads /\ Readers \subseteq Threads
      /\ Main \notin Readers /\ Main \notin Workers
      /\ \A t \in Threads : job[t] \in Jobs
  BY ThreadsAssumption DEF Threads, Readers, TypeOK
<1>2. Rest \in Jobs /\ Rest.at = "rest"
  BY DEF Rest, Jobs, Labels, Pointers
<1>3. CASE CountLock
  <2> DEFINE j == [job[Main] EXCEPT !.at = "increment"]
  <2>1. j \in Jobs /\ j.at = "increment" /\ job[Main].at = "count"
    BY <1>1, <1>3 DEF Jobs, Labels, CountLock, At
  <2>2. Become(Main, j) /\ UNCHANGED <<links, clientCount, open>>
    BY <1>1, <1>3 DEF CountLock, Become, Goto, TypeOK
  <2> HIDE DEF j
  <2> QED BY <1>1, <2>1, <2>2, QuietOther DEF Quiet, Counting
<1>4. CASE Frame
  <2> DEFINE j == [job[Cycle] EXCEPT !.at = "frame"]
  <2>1. j \in Jobs /\ j.at = "frame" /\ job[Cycle].at = "rest"
    BY <1>1, <1>4 DEF Jobs, Labels, Frame, At
  <2>2. Become(Cycle, j) /\ UNCHANGED <<links, clientCount, open>>
    BY <1>1, <1>4 DEF Frame, Become, Goto, TypeOK
  <2> HIDE DEF j
  <2> QED BY <1>1, <2>1, <2>2, QuietOther DEF Quiet, Counting
<1>5. CASE FrameBroadcast
  <2> DEFINE j == [Rest EXCEPT !.at = IF head = NULL THEN "unlock" ELSE "send",
                               !.node = head]
  <2>1. j \in Jobs /\ j.at \in {"unlock", "send"} /\ job[Cycle].at = "frame"
    BY <1>5 DEF Jobs, Labels, Rest, FrameBroadcast, At, TypeOK, Pointers
  <2>2. Become(Cycle, j) /\ UNCHANGED <<links, clientCount, open>>
    BY <1>5 DEF FrameBroadcast
  <2> HIDE DEF j
  <2> QED BY <1>1, <2>1, <2>2, QuietOther DEF Quiet, Counting
<1>6. ASSUME NEW w \in Workers, Broadcast(w)
      PROVE  IInv'
  <2> DEFINE j == [Rest EXCEPT !.at = "send", !.node = head]
  <2>1. j \in Jobs /\ j.at = "send" /\ job[w].at = "rest"
    BY <1>6 DEF Jobs, Labels, Rest, Broadcast, At, TypeOK, Pointers
  <2>2. Become(w, j) /\ UNCHANGED <<links, clientCount, open>>
    BY <1>6 DEF Broadcast
  <2>3. w \in Threads /\ w # Main
    BY <1>1
  <2> HIDE DEF j
  <2> QED BY <2>1, <2>2, <2>3, QuietOther DEF Quiet, Counting
<1>7. ASSUME NEW t \in Readers, Send(t)
      PROVE  IInv'
  <2>1. t \in Threads /\ t # Main /\ job[t].at = "send" /\ Node(t) \in Nodes
    BY <1>1, <1>7 DEF Send, At, TypeOK
  <2>2. PICK n \in NextOf(Node(t)) :
          Become(t, IF n # NULL THEN [job[t] EXCEPT !.node = n]
                    ELSE IF t = Cycle THEN [Rest EXCEPT !.at = "unlock"]
                    ELSE Rest)
    BY <1>7 DEF Send
  <2>3. n \in Pointers
    BY <2>1, <2>2 DEF NextOf, TypeOK
  <2> DEFINE j == IF n # NULL THEN [job[t] EXCEPT !.node = n]
                  ELSE IF t = Cycle THEN [Rest EXCEPT !.at = "unlock"] ELSE Rest
  <2>4. j \in Jobs /\ j.at \in {"send", "unlock", "rest"}
    <3>1. [job[t] EXCEPT !.node = n] \in Jobs /\ [job[t] EXCEPT !.node = n].at = "send"
      BY <1>1, <2>1, <2>3 DEF Jobs
    <3>2. [Rest EXCEPT !.at = "unlock"] \in Jobs /\ [Rest EXCEPT !.at = "unlock"].at = "unlock"
      BY DEF Rest, Jobs, Labels, Pointers
    <3> QED BY <1>2, <3>1, <3>2
  <2>5. Become(t, j) /\ UNCHANGED <<links, clientCount, open>>
    BY <1>7, <2>2 DEF Send
  <2> HIDE DEF j
  <2> QED BY <2>1, <2>4, <2>5, QuietOther DEF Quiet, Counting
<1>8. ASSUME NEW t \in Threads, Unlock(t)
      PROVE  IInv'
  <2>1. job[t].at = "unlock" /\ Become(t, Rest) /\ UNCHANGED <<links, clientCount, open>>
    BY <1>8 DEF Unlock, At
  <2> QED BY <1>2, <2>1, QuietOther DEF Quiet, Counting
<1> QED BY <1>3, <1>4, <1>5, <1>6, <1>7, <1>8

-----------------------------------------------------------------------------
(* Main accepts and links a client.                                         *)

\* What a removal knows stays true while the list and its blocks do not change,
\* and of a thread that is not changing the list there is little to know.
LEMMA RemovalKept ==
  ASSUME NEW u, RemovalOK(u), job'[u] = job[u],
         ~Changing(u) \/ UNCHANGED <<list, next, sock, allocated>>
  PROVE  RemovalOK(u)'
<1>1. CASE ~Changing(u)
  BY <1>1 DEF RemovalOK, Removing, Changing, Locking, Walking, At, Prev
<1>2. CASE UNCHANGED <<list, next, sock, allocated>>
  BY <1>2 DEF RemovalOK, StandsAt, Removing, At, Node, Prev
<1> QED BY <1>1, <1>2

\* A step of main whose next step is no removal's.
LEMMA MainKeepsRemovals ==
  ASSUME TypeOK, IInv, NEW j \in Jobs, Become(Main, j),
         j.at \notin {"lock", "walk", "unlink", "close", "free"},
         \/ \A u \in Removers : u # Main => ~Changing(u)
         \/ UNCHANGED <<list, next, sock, allocated>>
  PROVE  RemovalInv'
<1>1. job'[Main] = j /\ \A u \in Removers : u # Main => job'[u] = job[u]
  BY DEF Become, TypeOK, Threads, Removers
<1>2. RemovalOK(Main)'
  BY <1>1 DEF RemovalOK, Removing, At
<1>3. \A u \in Removers : u # Main => RemovalOK(u)'
  BY <1>1, RemovalKept DEF IInv, RemovalInv
<1> QED BY <1>2, <1>3 DEF RemovalInv

LEMMA AcceptInv ==
  ASSUME TypeOK, IInv, NEW s \in Sockets, Accept(s)
  PROVE  IInv'
<1> DEFINE j == [Rest EXCEPT !.at = "create", !.sock = s]
<1>1. j \in Jobs /\ j.at = "create" /\ j.sock = s /\ job[Main].at = "rest"
  BY DEF Rest, Jobs, Labels, Pointers, Accept, At
<1>2. /\ Become(Main, j) /\ Main \in Threads /\ Removers \subseteq Threads
      /\ s \notin open /\ open' = open \cup {s}
      /\ head' = head /\ tail' = tail /\ next' = next /\ sock' = sock
      /\ allocated' = allocated /\ list' = list /\ clientCount' = clientCount
  BY DEF Accept, links, heap, Threads, Removers
<1> HIDE DEF j
<1>3. job'[Main] = j /\ \A u \in Threads : u # Main => job'[u] = job[u]
  BY <1>2 DEF Become, TypeOK
<1>4. ~Adding /\ ~Adding' /\ ~Accepting /\ Accepting'
      /\ ~At(Main, "link") /\ \A l \in {"link", "tail", "head"} : ~At(Main, l)'
  BY <1>1, <1>3 DEF Adding, Accepting, At
<1>5. ChainInv'
  BY <1>2, <1>4 DEF IInv, ChainInv
<1>6. \A u \in Removers : /\ At(u, "close")' <=> At(u, "close")
                          /\ Removing(u)' <=> Removing(u)
                          /\ Removing(u) => Node(u)' = Node(u)
                          /\ At(u, "close") => Node(u)' = Node(u)
  BY <1>1, <1>2, <1>3 DEF At, Removing, Node
<1>7. AllocInv'
  BY <1>2, <1>4, <1>6 DEF IInv, AllocInv
<1>8. \A n : Held(n)' <=> Held(n)
  BY <1>2, <1>6 DEF Held
<1>9. \A n \in Nodes : Held(n) => sock[n] # s
  BY <1>2 DEF IInv, SockInv
<1>10. SockInv'
  BY <1>1, <1>2, <1>3, <1>4, <1>8, <1>9 DEF IInv, SockInv
<1>11. CountInv'
  BY <1>1, <1>2, <1>3, <1>6 DEF IInv, CountInv
<1>12. RemovalInv'
  BY <1>1, <1>2, MainKeepsRemovals
<1> QED BY <1>5, <1>7, <1>10, <1>11, <1>12 DEF IInv

\* A step of main alone: nobody else changes the list.
LEMMA MainAlone ==
  ASSUME TypeOK, IInv, NEW j \in Jobs, Become(Main, j),
         j.at \notin {"lock", "walk", "unlink", "close", "free"},
         job[Main].at \notin {"close", "free"},
         \A u \in Threads : u # Main => ~Changing(u)
  PROVE  /\ job'[Main] = j /\ RemovalInv'
         /\ \A u \in Removers : ~Removing(u) /\ ~Removing(u)'
         /\ \A u \in Removers : ~At(u, "close") /\ ~At(u, "close")'
         /\ \A n : Held(n) <=> n \in NodesOf(list)
         /\ \A n : Held(n)' <=> n \in NodesOf(list')
<1>1. Main \in Threads /\ Removers \subseteq Threads
  BY DEF Threads, Removers
<1>2. job'[Main] = j /\ \A u \in Threads : u # Main => job'[u] = job[u]
  BY DEF Become, TypeOK, Threads
<1>3. RemovalInv'
  BY <1>1, MainKeepsRemovals
<1>4. \A u \in Removers : ~Removing(u) /\ ~Removing(u)'
  BY <1>1, <1>2 DEF Removing, Changing, Locking, Walking
<1>5. \A u \in Removers : ~At(u, "close") /\ ~At(u, "close")'
  BY <1>4 DEF Removing, At
<1> QED BY <1>2, <1>3, <1>4, <1>5 DEF Held

LEMMA CreateNodeInv ==
  ASSUME TypeOK, IInv, OneChanges', CreateNode
  PROVE  IInv'
<1>1. PICK n \in Nodes \ allocated :
        /\ next' = [next EXCEPT ![n] = NULL]
        /\ sock' = [sock EXCEPT ![n] = job[Main].sock]
        /\ allocated' = allocated \cup {n}
        /\ Become(Main, [job[Main] EXCEPT !.at = IF head = NULL THEN "tail" ELSE "link",
                                          !.node = n, !.prev = head])
  BY DEF CreateNode
<1> DEFINE j == [job[Main] EXCEPT !.at = IF head = NULL THEN "tail" ELSE "link",
                                 !.node = n, !.prev = head]
<1>2. /\ job[Main].at = "create" /\ job[Main] \in Jobs /\ Main \in Threads
      /\ head' = head /\ tail' = tail /\ list' = list /\ open' = open
      /\ clientCount' = clientCount
  BY DEF CreateNode, At, Threads, TypeOK
<1>3. /\ j \in Jobs /\ j.at = IF head = NULL THEN "tail" ELSE "link"
      /\ j.node = n /\ j.prev = head /\ j.sock = job[Main].sock
  BY <1>2, HeapAssumption DEF Jobs, Labels, TypeOK, Pointers
<1>4. Become(Main, j)
  BY <1>1
<1> HIDE DEF j
<1>5. job'[Main] = j /\ \A u \in Threads : u # Main => job'[u] = job[u]
  BY <1>4 DEF Become, TypeOK, Threads
<1>6. \A u \in Threads : u # Main => ~Changing(u)
  BY <1>2, <1>3, <1>5 DEF OneChanges, Changing, Locking, Walking, Adding, At
<1>7. /\ RemovalInv'
      /\ \A u \in Removers : ~Removing(u) /\ ~Removing(u)'
      /\ \A u \in Removers : ~At(u, "close") /\ ~At(u, "close")'
      /\ \A m : Held(m) <=> m \in NodesOf(list)
      /\ \A m : Held(m)' <=> m \in NodesOf(list')
  BY <1>2, <1>3, <1>4, <1>6, MainAlone
<1>8. /\ ~Adding /\ Adding' /\ Accepting /\ Accepting'
      /\ At(Main, "link")' <=> head # NULL
      /\ At(Main, "tail")' <=> head = NULL
      /\ ~At(Main, "head")'
      /\ Node(Main)' = n /\ Prev(Main)' = head
  BY <1>2, <1>3, <1>5 DEF Adding, Accepting, At, Node, Prev
<1>9. /\ Distinct(list) /\ Chain(list, head, tail, next, NULL) /\ list \in Seq(Nodes)
      /\ NodesOf(list) \subseteq allocated /\ NodesOf(list) \subseteq Nodes
  BY <1>8 DEF IInv, ChainInv, AllocInv, TypeOK
<1>10. /\ n \in Nodes /\ n \notin NodesOf(list) /\ NULL \notin Nodes
       /\ next'[n] = NULL /\ \A m \in Nodes : m # n => next'[m] = next[m]
       /\ sock'[n] = job[Main].sock /\ \A m \in Nodes : m # n => sock'[m] = sock[m]
  BY <1>1, <1>9, HeapAssumption DEF TypeOK
<1>11. ChainInv'
  <2>1. \A m \in NodesOf(list) : next'[m] = next[m]
    BY <1>9, <1>10
  <2>2. Chain(list, head, tail, next', NULL)
    BY <1>9, <2>1, ChainKept
  <2>3. ASSUME head = NULL
        PROVE  Chain(Append(list, n), n, n, next', NULL)
    <3>1. tail = NULL
      <4>1. list = << >>
        BY <1>9, <1>10, <2>3 DEF Chain
      <4> QED BY <1>9, <4>1 DEF Chain
    <3>2. \A m \in Nodes : m # n /\ m # tail => next'[m] = next[m]
      BY <1>10
    <3>3. \A h2 : h2 = (IF head = NULL THEN n ELSE head) => Chain(Append(list, n), h2, n, next', NULL)
      BY <1>9, <1>10, <3>1, <3>2, AppendChain
    <3> QED BY <2>3, <3>3
  <2> QED BY <1>1, <1>2, <1>3, <1>5, <1>8, <1>9, <1>10, <2>2, <2>3 DEF ChainInv
<1>12. AllocInv'
  BY <1>1, <1>2, <1>7, <1>8, <1>9 DEF IInv, AllocInv
<1>13. SockInv'
  <2>1. \A m \in NodesOf(list) : sock'[m] = sock[m] /\ m \in Nodes
    BY <1>9, <1>10
  <2>2. job'[Main].sock = job[Main].sock
    BY <1>3, <1>5
  <2> QED BY <1>2, <1>7, <1>8, <2>1, <2>2 DEF IInv, SockInv
<1>14. CountInv'
  BY <1>2, <1>3, <1>5, <1>7 DEF IInv, CountInv
<1> QED BY <1>7, <1>11, <1>12, <1>13, <1>14 DEF IInv

\* A step of main in a place where it changes the list: nobody else does.
LEMMA MainMoves ==
  ASSUME TypeOK, IInv, OneChanges, Changing(Main),
         NEW label \in {"tail", "head", "count", "unlock"}, Goto(Main, label)
  PROVE  /\ Main \in Threads
         /\ job'[Main].at = label /\ job'[Main].sock = job[Main].sock
         /\ Node(Main)' = Node(Main) /\ Prev(Main)' = Prev(Main)
         /\ job[Main].at \notin {"close", "free"} =>
              /\ RemovalInv'
              /\ \A u \in Removers : ~Removing(u) /\ ~Removing(u)'
              /\ \A u \in Removers : ~At(u, "close") /\ ~At(u, "close")'
              /\ \A n : Held(n) <=> n \in NodesOf(list)
              /\ \A n : Held(n)' <=> n \in NodesOf(list')
<1> DEFINE j == [job[Main] EXCEPT !.at = label]
<1>1. Main \in Threads /\ job[Main] \in Jobs
  BY DEF Threads, TypeOK
<1>2. /\ j \in Jobs /\ j.at = label /\ j.sock = job[Main].sock
      /\ j.node = job[Main].node /\ j.prev = job[Main].prev
  BY <1>1 DEF Jobs, Labels
<1>3. Become(Main, j)
  BY <1>1 DEF Become, Goto, TypeOK
<1> HIDE DEF j
<1>4. job'[Main] = j
  BY <1>1, <1>3 DEF Become, TypeOK
<1>5. \A u \in Threads : u # Main => ~Changing(u)
  BY <1>1 DEF OneChanges
<1> QED BY <1>1, <1>2, <1>3, <1>4, <1>5, MainAlone DEF Node, Prev

LEMMA LinkNodeInv ==
  ASSUME TypeOK, IInv, OneChanges, LinkNode
  PROVE  IInv'
<1>1. /\ job[Main].at = "link" /\ Changing(Main) /\ Goto(Main, "tail") /\ tail # NULL
      /\ next' = [next EXCEPT ![tail] = Node(Main)]
      /\ head' = head /\ tail' = tail /\ list' = list /\ open' = open
      /\ sock' = sock /\ allocated' = allocated /\ clientCount' = clientCount
  BY DEF LinkNode, At, Changing, Locking, Walking, Adding
<1>2. /\ job'[Main].at = "tail" /\ job'[Main].sock = job[Main].sock
      /\ Node(Main)' = Node(Main) /\ Prev(Main)' = Prev(Main)
      /\ RemovalInv'
      /\ \A u \in Removers : ~Removing(u) /\ ~Removing(u)'
      /\ \A u \in Removers : ~At(u, "close") /\ ~At(u, "close")'
      /\ \A n : Held(n) <=> n \in NodesOf(list)
      /\ \A n : Held(n)' <=> n \in NodesOf(list')
  BY <1>1, MainMoves
<1>3. /\ Adding /\ Adding' /\ Accepting /\ Accepting' /\ ~At(Main, "head")'
      /\ ~At(Main, "link")' /\ At(Main, "link")
  BY <1>1, <1>2 DEF Adding, Accepting, At
<1>4. /\ Distinct(list) /\ Chain(list, head, tail, next, NULL) /\ list \in Seq(Nodes)
      /\ NodesOf(list) \subseteq Nodes /\ Prev(Main) = head /\ head # NULL
      /\ Node(Main) \in allocated \ NodesOf(list) /\ Node(Main) \in Nodes
      /\ next[Node(Main)] = NULL /\ sock[Node(Main)] = job[Main].sock
      /\ NULL \notin Nodes
  BY <1>3, HeapAssumption DEF IInv, ChainInv, AllocInv, TypeOK
<1>5. tail \in NodesOf(list)
  <2>1. list # << >>
    BY <1>1, <1>4 DEF Chain
  <2>2. tail = list[Len(list)] /\ Len(list) \in 1 .. Len(list)
    BY <1>4, <2>1 DEF Chain
  <2> QED BY <2>2 DEF NodesOf
<1>6. /\ next'[tail] = Node(Main) /\ next'[Node(Main)] = NULL
      /\ \A m \in Nodes : m # Node(Main) /\ m # tail => next'[m] = next[m]
  BY <1>1, <1>4, <1>5 DEF TypeOK
<1>7. \A h2 : h2 = (IF head = NULL THEN Node(Main) ELSE head) =>
         Chain(Append(list, Node(Main)), h2, Node(Main), next', NULL)
  BY ONLY <1>4, <1>6, AppendChain
<1>8. ChainInv'
  <2>1. Chain(Append(list, Node(Main)),
              IF Prev(Main) = NULL THEN Node(Main) ELSE Prev(Main), Node(Main), next', NULL)
    BY <1>4, <1>7
  <2> QED BY <1>1, <1>2, <1>3, <1>4, <1>6, <2>1 DEF ChainInv
<1>9. AllocInv'
  BY <1>1, <1>2, <1>3 DEF IInv, AllocInv
<1>10. SockInv'
  BY <1>1, <1>2, <1>3 DEF IInv, SockInv
<1>11. CountInv'
  BY <1>1, <1>2 DEF IInv, CountInv
<1> QED BY <1>2, <1>8, <1>9, <1>10, <1>11 DEF IInv

LEMMA MoveTailInv ==
  ASSUME TypeOK, IInv, OneChanges, MoveTail
  PROVE  IInv'
<1>1. /\ job[Main].at = "tail" /\ Changing(Main) /\ Goto(Main, "head")
      /\ tail' = Node(Main)
      /\ head' = head /\ next' = next /\ list' = list /\ open' = open
      /\ sock' = sock /\ allocated' = allocated /\ clientCount' = clientCount
  BY DEF MoveTail, At, Changing, Locking, Walking, Adding, heap
<1>2. /\ job'[Main].at = "head" /\ job'[Main].sock = job[Main].sock
      /\ Node(Main)' = Node(Main) /\ Prev(Main)' = Prev(Main)
      /\ RemovalInv'
      /\ \A u \in Removers : ~Removing(u) /\ ~Removing(u)'
      /\ \A u \in Removers : ~At(u, "close") /\ ~At(u, "close")'
      /\ \A n : Held(n) <=> n \in NodesOf(list)
      /\ \A n : Held(n)' <=> n \in NodesOf(list')
  BY <1>1, MainMoves
<1>3. /\ Adding /\ Adding' /\ Accepting /\ Accepting' /\ At(Main, "tail")
      /\ ~At(Main, "link")'
  BY <1>1, <1>2 DEF Adding, Accepting, At
<1>4. ChainInv'
  BY <1>1, <1>2, <1>3 DEF IInv, ChainInv
<1>5. AllocInv'
  BY <1>1, <1>2, <1>3 DEF IInv, AllocInv
<1>6. SockInv'
  BY <1>1, <1>2, <1>3 DEF IInv, SockInv
<1>7. CountInv'
  BY <1>1, <1>2 DEF IInv, CountInv
<1> QED BY <1>2, <1>4, <1>5, <1>6, <1>7 DEF IInv

\* The node is in the list now: its socket was the one being accepted.
LEMMA StoreHeadInv ==
  ASSUME TypeOK, IInv, OneChanges, StoreHead
  PROVE  IInv'
<1> DEFINE n == Node(Main)
<1>1. /\ job[Main].at = "head" /\ Changing(Main) /\ Goto(Main, "count")
      /\ head' = IF Prev(Main) = NULL THEN n ELSE Prev(Main)
      /\ list' = Append(list, n)
      /\ tail' = tail /\ next' = next /\ open' = open
      /\ sock' = sock /\ allocated' = allocated /\ clientCount' = clientCount
  BY DEF StoreHead, At, Changing, Locking, Walking, Adding, heap
<1>2. /\ job'[Main].at = "count" /\ job'[Main].sock = job[Main].sock
      /\ Node(Main)' = n /\ Prev(Main)' = Prev(Main)
      /\ RemovalInv'
      /\ \A u \in Removers : ~Removing(u) /\ ~Removing(u)'
      /\ \A u \in Removers : ~At(u, "close") /\ ~At(u, "close")'
      /\ \A m : Held(m) <=> m \in NodesOf(list)
      /\ \A m : Held(m)' <=> m \in NodesOf(list')
  BY <1>1, MainMoves
<1>3. /\ Adding /\ ~Adding' /\ Accepting /\ ~Accepting' /\ At(Main, "head")
      /\ \A l \in {"link", "tail", "head"} : ~At(Main, l)'
  BY <1>1, <1>2 DEF Adding, Accepting, At
<1>4. /\ Distinct(list) /\ list \in Seq(Nodes)
      /\ n \in allocated \ NodesOf(list) /\ n \in Nodes
      /\ tail = n /\ sock[n] = job[Main].sock
      /\ Chain(Append(list, n), head', n, next, NULL)
      /\ NodesOf(list) \subseteq allocated
  BY <1>1, <1>3 DEF IInv, ChainInv, AllocInv, TypeOK
<1>5. /\ Distinct(list') /\ NodesOf(list') = NodesOf(list) \cup {n}
      /\ Len(list') = Len(list) + 1 /\ Len(list) \in Nat
  BY <1>1, <1>4, AppendDistinct
<1> HIDE DEF n
<1>6. ChainInv'
  BY <1>1, <1>3, <1>4, <1>5 DEF ChainInv
<1>7. AllocInv'
  <2>1. \A m \in allocated : m \in NodesOf(list) \/ m = n
    BY <1>2 DEF IInv, AllocInv, n
  <2> QED BY <1>1, <1>4, <1>5, <2>1 DEF AllocInv
<1>8. SockInv'
  <2>1. \A m \in Nodes : Held(m)' <=> Held(m) \/ m = n
    BY <1>2, <1>5
  <2>2. \A m \in Nodes : Held(m) => sock[m] # sock[n]
    BY <1>3, <1>4 DEF IInv, SockInv
  <2>3. sock[n] \in Sockets
    BY <1>3, <1>4 DEF IInv, SockInv
  <2> QED BY <1>1, <1>3, <1>4, <2>1, <2>2, <2>3 DEF IInv, SockInv
<1>9. CountInv'
  BY <1>1, <1>2, <1>5 DEF IInv, CountInv, TypeOK
<1> QED BY <1>2, <1>6, <1>7, <1>8, <1>9 DEF IInv

LEMMA CountClientInv ==
  ASSUME TypeOK, IInv, OneChanges, CountClient
  PROVE  IInv'
<1>1. /\ job[Main].at = "increment" /\ Changing(Main) /\ Goto(Main, "unlock")
      /\ clientCount' = clientCount + 1 /\ open' = open
      /\ head' = head /\ tail' = tail /\ next' = next /\ list' = list
      /\ sock' = sock /\ allocated' = allocated
  BY DEF CountClient, At, Changing, Locking, Walking, links, heap
<1>2. /\ job'[Main].at = "unlock" /\ RemovalInv'
      /\ \A u \in Removers : ~Removing(u) /\ ~Removing(u)'
      /\ \A u \in Removers : ~At(u, "close") /\ ~At(u, "close")'
      /\ \A n : Held(n) <=> n \in NodesOf(list)
      /\ \A n : Held(n)' <=> n \in NodesOf(list')
  BY <1>1, MainMoves
<1>3. /\ ~Adding /\ ~Adding' /\ ~Accepting /\ ~Accepting'
      /\ \A l \in {"link", "tail", "head"} : ~At(Main, l)'
  BY <1>1, <1>2 DEF Adding, Accepting, At
<1>4. ChainInv'
  BY <1>1, <1>3 DEF IInv, ChainInv
<1>5. AllocInv'
  BY <1>1, <1>2, <1>3 DEF IInv, AllocInv
<1>6. SockInv'
  BY <1>1, <1>2, <1>3 DEF IInv, SockInv
<1>7. CountInv'
  <2>1. Len(list) \in Nat /\ clientCount \in Int
    BY DEF TypeOK
  <2>2. clientCount = Len(list) - 1
    BY <1>1, <1>2, <2>1 DEF IInv, CountInv
  <2>3. clientCount' = Len(list)
    BY <1>1, <2>1, <2>2
  <2> QED BY <1>1, <1>2, <2>1, <2>3 DEF CountInv
<1> QED BY <1>2, <1>4, <1>5, <1>6, <1>7 DEF IInv

-----------------------------------------------------------------------------
(* A removal unlinks the node it has found, closes its socket and frees it. *)

LEMMA RemoverMoves ==
  ASSUME TypeOK, IInv, OneChanges,
         NEW t \in Removers, job[t].at \in {"unlink", "close", "free"},
         NEW label \in {"close", "free", "unlock"}, Goto(t, label)
  PROVE  /\ job'[t].at = label /\ job'[t].sock = job[t].sock
         /\ Node(t)' = Node(t) /\ Prev(t)' = Prev(t)
         /\ ~Adding /\ ~Adding'
         /\ \A l \in {"link", "tail", "head"} : ~At(Main, l) /\ ~At(Main, l)'
         /\ (Accepting' <=> Accepting) /\ job'[Main].sock = job[Main].sock
         /\ Counting(job'[Main].at) <=> Counting(job[Main].at)
         /\ \A u \in Removers :
              u # t => /\ ~Removing(u) /\ ~Removing(u)' /\ RemovalOK(u)'
                       /\ ~At(u, "close") /\ ~At(u, "close")'
<1> DEFINE j == [job[t] EXCEPT !.at = label]
<1>1. Main \in Threads /\ Removers \subseteq Threads /\ job[t] \in Jobs /\ Changing(t)
  BY DEF Threads, Removers, TypeOK, Changing, Locking, Walking
<1>2. /\ j.at = label /\ j.sock = job[t].sock /\ j.node = job[t].node
      /\ j.prev = job[t].prev
  BY <1>1 DEF Jobs, Labels
<1>3. job'[t] = j /\ \A u \in Threads : u # t => job'[u] = job[u]
  BY <1>1 DEF Goto, TypeOK
<1> HIDE DEF j
<1>4. ~Adding /\ \A u \in Threads : Changing(u) => u = t
  BY <1>1, NotAdding
<1>5. ASSUME NEW u \in Removers, u # t
      PROVE  /\ ~Removing(u) /\ ~Removing(u)' /\ RemovalOK(u)'
             /\ ~At(u, "close") /\ ~At(u, "close")'
  <2>1. ~Changing(u) /\ job'[u] = job[u] /\ RemovalOK(u)
    BY <1>1, <1>3, <1>4, <1>5 DEF IInv, RemovalInv
  <2>2. RemovalOK(u)'
    BY <2>1, RemovalKept
  <2> QED BY <2>1, <2>2 DEF Removing, Changing, Locking, Walking, At
<1>6. CASE t = Main
  BY <1>2, <1>3, <1>4, <1>5, <1>6 DEF Node, Prev, Adding, Accepting, At, Counting
<1>7. CASE t # Main
  <2>1. job'[Main] = job[Main]
    BY <1>1, <1>3, <1>7
  <2> QED BY <1>2, <1>3, <1>4, <1>5, <2>1 DEF Node, Prev, Adding, Accepting, At, Counting
<1> QED BY <1>6, <1>7

LEMMA UnlinkInv ==
  ASSUME TypeOK, IInv, OneChanges, NEW t \in Removers, Unlink(t)
  PROVE  IInv'
<1> DEFINE node == Node(t)
           prev == Prev(t)
<1>1. /\ job[t].at = "unlink" /\ Goto(t, "close")
      /\ head' = IF prev = NULL THEN next[node] ELSE head
      /\ tail' = IF tail = node THEN prev ELSE tail
      /\ next' = IF prev = NULL THEN next ELSE [next EXCEPT ![prev] = next[node]]
      /\ list' = Remove(list, node)
      /\ sock' = sock /\ allocated' = allocated /\ open' = open
      /\ clientCount' = clientCount
  BY DEF Unlink, At
<1>2. /\ job'[t].at = "close" /\ job'[t].sock = job[t].sock /\ Node(t)' = node
      /\ ~Adding /\ ~Adding'
      /\ \A l \in {"link", "tail", "head"} : ~At(Main, l) /\ ~At(Main, l)'
      /\ (Accepting' <=> Accepting) /\ job'[Main].sock = job[Main].sock
      /\ Counting(job'[Main].at) <=> Counting(job[Main].at)
      /\ \A u \in Removers :
           u # t => /\ ~Removing(u) /\ ~Removing(u)' /\ RemovalOK(u)'
                    /\ ~At(u, "close") /\ ~At(u, "close")'
  BY <1>1, RemoverMoves
<1>3. ~Removing(t) /\ ~At(t, "close") /\ Removing(t)' /\ At(t, "close")'
  BY <1>1, <1>2 DEF Removing, At
<1>4. PICK p \in 1 .. Len(list) : StandsAt(t, p)
  BY <1>1 DEF IInv, RemovalInv, RemovalOK, At
<1>5. /\ list \in Seq(Nodes) /\ Len(list) \in Nat /\ Distinct(list)
      /\ Chain(list, head, tail, next, NULL) /\ NodesOf(list) \subseteq allocated
      /\ allocated \subseteq Nodes /\ NULL \notin Nodes
      /\ sock[node] = job[t].sock
  BY <1>1, <1>2, HeapAssumption
     DEF TypeOK, IInv, ChainInv, AllocInv, RemovalInv, RemovalOK, At
<1>6. /\ node = list[p] /\ prev = Before(list, p, NULL) /\ p # Len(list) + 1
      /\ node \in NodesOf(list) /\ node \in Nodes
  BY <1>4, <1>5 DEF StandsAt, NodesOf
<1> HIDE DEF node, prev
<1>7. /\ p = 1 => prev = NULL /\ head = node
      /\ p # 1 => /\ prev \in Nodes /\ prev # NULL /\ prev # node /\ head # node
  <2>1. head = list[1] /\ 1 \in 1 .. Len(list)
    BY <1>5 DEF Chain
  <2>2. p # 1 => p - 1 \in 1 .. Len(list) /\ p - 1 # p /\ prev = list[p - 1]
    BY <1>5, <1>6 DEF Before
  <2>3. p # 1 => list[p - 1] # list[p] /\ list[1] # list[p] /\ list[p - 1] \in Nodes
    BY <1>5, <2>1, <2>2 DEF Distinct
  <2> QED BY <1>5, <1>6, <2>1, <2>2, <2>3 DEF Before
<1>8. /\ head' = IF head = node THEN next[node] ELSE head
      /\ prev # NULL => next'[prev] = next[node]
      /\ \A m \in Nodes : m # node /\ m # prev => next'[m] = next[m]
      /\ next'[node] = next[node]
  BY <1>1, <1>6, <1>7 DEF TypeOK
<1>9. list' = Cut(list, p)
  BY <1>1, <1>5, <1>6, RemoveIsCut
<1>10. \A h2, t2 : /\ h2 = (IF head = node THEN next[node] ELSE head)
                   /\ t2 = (IF tail = node THEN prev ELSE tail)
                   => Chain(Cut(list, p), h2, t2, next', NULL)
  BY ONLY <1>5, <1>6, <1>8, UnlinkChain
<1>11. Chain(list', head', tail', next', NULL)
  BY <1>1, <1>8, <1>9, <1>10
<1>12. /\ Distinct(list') /\ NodesOf(list') = NodesOf(list) \ {node}
       /\ Len(list') = Len(list) - 1
  BY <1>5, <1>6, <1>9, CutIsSeq, CutDistinct
<1>13. ChainInv'
  BY <1>2, <1>11, <1>12 DEF ChainInv
<1>14. AllocInv'
  <2>1. \A m \in allocated : m \in NodesOf(list)
    BY <1>2, <1>3 DEF IInv, AllocInv
  <2> QED BY <1>1, <1>2, <1>3, <1>5, <1>12, <2>1 DEF AllocInv
<1>15. \A m : Held(m)' <=> Held(m)
  <2>1. \A m : Held(m) <=> m \in NodesOf(list)
    BY <1>2, <1>3 DEF Held
  <2>2. \A m : Held(m)' <=> m \in NodesOf(list') \/ m = node
    BY <1>2, <1>3 DEF Held
  <2> QED BY <1>6, <1>12, <2>1, <2>2
<1>16. SockInv'
  BY <1>1, <1>2, <1>15 DEF IInv, SockInv
<1>17. CountInv'
  <2>1. ~ \E u \in Removers : At(u, "close")
    BY <1>2, <1>3
  <2>2. \E u \in Removers : At(u, "close")'
    BY <1>3
  <2>3. (job'[Main].at \in {"count", "increment"}) <=> job[Main].at \in {"count", "increment"}
    BY <1>2 DEF Counting
  <2>4. clientCount = Len(list) - (IF job[Main].at \in {"count", "increment"} THEN 1 ELSE 0)
    BY <1>5, <2>1 DEF IInv, CountInv
  <2>5. clientCount' = Len(list') + 1
                       - (IF job'[Main].at \in {"count", "increment"} THEN 1 ELSE 0)
    BY <1>1, <1>5, <1>12, <2>3, <2>4
  <2> QED BY <2>2, <2>5 DEF CountInv
<1>18. RemovalOK(t)'
  <2>1. next[node] = IF p = Len(list) THEN NULL ELSE list[p + 1]
    BY <1>5, <1>6 DEF Chain
  <2>2. p # Len(list) => p + 1 \in 1 .. Len(list) /\ list[p + 1] # list[p]
    BY <1>5 DEF Distinct
  <2>3. next'[node] \in NodesOf(list') \cup {NULL}
    BY <1>6, <1>8, <1>12, <2>1, <2>2 DEF NodesOf
  <2> QED BY <1>1, <1>2, <1>5, <1>6, <1>12, <2>3 DEF RemovalOK, Removing, At
<1> QED BY <1>2, <1>13, <1>14, <1>16, <1>17, <1>18 DEF IInv, RemovalInv

LEMMA CloseInv ==
  ASSUME TypeOK, IInv, OneChanges, NEW t \in Removers, Close(t)
  PROVE  IInv'
<1> DEFINE node == Node(t)
<1>1. /\ job[t].at = "close" /\ Goto(t, "free")
      /\ clientCount' = clientCount - 1 /\ open' = open \ {sock[node]}
      /\ head' = head /\ tail' = tail /\ next' = next /\ list' = list
      /\ sock' = sock /\ allocated' = allocated
  BY DEF Close, At, links, heap
<1>2. /\ job'[t].at = "free" /\ Node(t)' = node
      /\ ~Adding /\ ~Adding'
      /\ \A l \in {"link", "tail", "head"} : ~At(Main, l) /\ ~At(Main, l)'
      /\ (Accepting' <=> Accepting) /\ job'[Main].sock = job[Main].sock
      /\ Counting(job'[Main].at) <=> Counting(job[Main].at)
      /\ \A u \in Removers :
           u # t => /\ ~Removing(u) /\ ~Removing(u)' /\ RemovalOK(u)'
                    /\ ~At(u, "close") /\ ~At(u, "close")'
  BY <1>1, RemoverMoves
<1>3. Removing(t) /\ At(t, "close") /\ Removing(t)' /\ ~At(t, "close")'
  BY <1>1, <1>2 DEF Removing, At
<1>4. /\ node \in allocated \ NodesOf(list) /\ allocated \subseteq Nodes
      /\ next[node] \in NodesOf(list) \cup {NULL} /\ sock[node] = job[t].sock
  BY <1>3 DEF IInv, RemovalInv, RemovalOK, TypeOK
<1>5. /\ \A m : Held(m) <=> m \in NodesOf(list) \/ m = node
      /\ \A m : Held(m)' <=> m \in NodesOf(list)
  BY <1>1, <1>2, <1>3 DEF Held
<1> HIDE DEF node
<1>6. ChainInv'
  BY <1>1, <1>2 DEF IInv, ChainInv
<1>7. AllocInv'
  <2>1. \A m \in allocated : m \in NodesOf(list) \/ m = node
    BY <1>2, <1>3 DEF IInv, AllocInv, node
  <2> QED BY <1>1, <1>2, <1>3, <2>1 DEF IInv, AllocInv
<1>8. SockInv'
  <2>1. \A m \in Nodes : Held(m)' => Held(m) /\ sock[m] # sock[node]
    BY <1>4, <1>5 DEF IInv, SockInv
  <2>2. Accepting => sock[node] # job[Main].sock
    BY <1>4, <1>5 DEF IInv, SockInv
  <2>3. \A s \in Sockets :
          s \in open' <=> \/ \E n \in Nodes : Held(n)' /\ sock[n] = s
                          \/ Accepting /\ s = job[Main].sock
    BY <1>1, <1>5, <2>1, <2>2 DEF IInv, SockInv
  <2> QED BY <1>1, <1>2, <2>1, <2>3 DEF IInv, SockInv
<1>9. CountInv'
  <2>1. Len(list) \in Nat
    BY DEF TypeOK
  <2>2. (job'[Main].at \in {"count", "increment"}) <=> job[Main].at \in {"count", "increment"}
    BY <1>2 DEF Counting
  <2>3. clientCount = Len(list) + 1
                      - (IF job[Main].at \in {"count", "increment"} THEN 1 ELSE 0)
    BY <1>3 DEF IInv, CountInv
  <2>4. ~ \E u \in Removers : At(u, "close")'
    BY <1>2, <1>3
  <2>5. clientCount' = Len(list) - (IF job'[Main].at \in {"count", "increment"} THEN 1 ELSE 0)
    BY <1>1, <2>1, <2>2, <2>3
  <2> QED BY <1>1, <2>1, <2>4, <2>5 DEF CountInv
<1>10. RemovalOK(t)'
  BY <1>1, <1>2, <1>4 DEF RemovalOK, Removing, At
<1> QED BY <1>2, <1>6, <1>7, <1>8, <1>9, <1>10 DEF IInv, RemovalInv

LEMMA FreeInv ==
  ASSUME TypeOK, IInv, OneChanges, NEW t \in Removers, Free(t)
  PROVE  IInv'
<1> DEFINE node == Node(t)
<1>1. /\ job[t].at = "free" /\ Goto(t, "unlock")
      /\ allocated' = allocated \ {node}
      /\ next' = [next EXCEPT ![node] = NULL]
      /\ sock' = [sock EXCEPT ![node] = NULL]
      /\ clientCount' = clientCount /\ open' = open
      /\ head' = head /\ tail' = tail /\ list' = list
  BY DEF Free, At
<1>2. /\ job'[t].at = "unlock"
      /\ ~Adding /\ ~Adding'
      /\ \A l \in {"link", "tail", "head"} : ~At(Main, l) /\ ~At(Main, l)'
      /\ (Accepting' <=> Accepting) /\ job'[Main].sock = job[Main].sock
      /\ Counting(job'[Main].at) <=> Counting(job[Main].at)
      /\ \A u \in Removers :
           u # t => /\ ~Removing(u) /\ ~Removing(u)' /\ RemovalOK(u)'
                    /\ ~At(u, "close") /\ ~At(u, "close")'
  BY <1>1, RemoverMoves
<1>3. Removing(t) /\ ~At(t, "close") /\ ~Removing(t)' /\ ~At(t, "close")'
  BY <1>1, <1>2 DEF Removing, At
<1>4. /\ node \notin NodesOf(list) /\ NodesOf(list) \subseteq allocated
      /\ allocated \subseteq Nodes
  BY <1>3 DEF IInv, RemovalInv, RemovalOK, AllocInv, TypeOK
<1>5. /\ \A m : Held(m) <=> m \in NodesOf(list)
      /\ \A m : Held(m)' <=> m \in NodesOf(list)
  BY <1>1, <1>2, <1>3 DEF Held
<1> HIDE DEF node
<1>6. \A m \in NodesOf(list) : next'[m] = next[m] /\ sock'[m] = sock[m]
  BY <1>1, <1>4 DEF TypeOK
<1>7. ChainInv'
  <2>1. Distinct(list) /\ Chain(list, head, tail, next, NULL)
    BY <1>2 DEF IInv, ChainInv
  <2>2. Chain(list, head, tail, next', NULL)
    BY <1>6, <2>1, ChainKept
  <2> QED BY <1>1, <1>2, <2>1, <2>2 DEF ChainInv
<1>8. AllocInv'
  <2>1. \A m \in allocated : m \in NodesOf(list) \/ m = node
    BY <1>2, <1>3 DEF IInv, AllocInv, node
  <2> QED BY <1>1, <1>4, <2>1 DEF AllocInv
<1>9. SockInv'
  BY <1>1, <1>2, <1>5, <1>6 DEF IInv, SockInv
<1>10. CountInv'
  <2>1. /\ ~ \E u \in Removers : At(u, "close")
        /\ ~ \E u \in Removers : At(u, "close")'
    BY <1>2, <1>3
  <2>2. (job'[Main].at \in {"count", "increment"}) <=> job[Main].at \in {"count", "increment"}
    BY <1>2 DEF Counting
  <2> QED BY <1>1, <2>1, <2>2 DEF IInv, CountInv
<1>11. RemovalOK(t)'
  BY <1>2 DEF RemovalOK, Removing, At
<1> QED BY <1>2, <1>7, <1>8, <1>9, <1>10, <1>11 DEF IInv, RemovalInv

-----------------------------------------------------------------------------

LEMMA StepInv == TypeOK /\ IInv /\ OneChanges /\ OneChanges' /\ [Next]_vars => IInv'
<1> SUFFICES ASSUME TypeOK, IInv, OneChanges, OneChanges', [Next]_vars
             PROVE  IInv'
  OBVIOUS
<1>1. CASE MainStep
  BY <1>1, AcceptInv, CreateNodeInv, LinkNodeInv, MoveTailInv, StoreHeadInv, OtherInv,
     CountClientInv DEF MainStep
<1>2. ASSUME NEW t \in Removers, RemoveStep(t)
      PROVE  IInv'
  BY <1>2, LeaveInv, LeaveLockInv, WalkInv, UnlinkInv, CloseInv, FreeInv DEF RemoveStep
<1>3. CASE \/ Frame \/ FrameBroadcast
           \/ \E w \in Workers : Broadcast(w)
           \/ \E t \in Readers : Send(t)
           \/ \E t \in Threads : Unlock(t)
  BY <1>3, OtherInv
<1>4. CASE UNCHANGED vars
  <2>1. /\ head' = head /\ tail' = tail /\ next' = next /\ sock' = sock
        /\ allocated' = allocated /\ list' = list /\ open' = open
        /\ clientCount' = clientCount /\ job' = job
    BY <1>4 DEF vars, links, heap
  <2>2. ChainInv' /\ AllocInv' /\ CountInv'
    BY <2>1 DEF IInv, ChainInv, AllocInv, CountInv, Adding, At, Node, Prev, Removing
  <2>3. SockInv'
    BY <2>1 DEF IInv, SockInv, Held, Accepting, At, Node
  <2>4. RemovalInv'
    BY <2>1 DEF IInv, RemovalInv, RemovalOK, StandsAt, Removing, At, Node, Prev
  <2> QED BY <2>2, <2>3, <2>4 DEF IInv
<1> QED BY <1>1, <1>2, <1>3, <1>4 DEF Next

LEMMA RacesGrow == [Next]_vars => races \subseteq races'
<1> SUFFICES ASSUME [Next]_vars PROVE races \subseteq races'
  OBVIOUS
<1>1. ASSUME NEW t \in Removers, RemoveStep(t)
      PROVE  races \subseteq races'
  BY <1>1 DEF RemoveStep, Leave, LeaveLock, Walk, Unlink, Close, Free, Race
<1>2. CASE MainStep
  BY <1>2 DEF MainStep, Accept, CreateNode, LinkNode, MoveTail, StoreHead, CountLock,
              CountClient, Race
<1>3. CASE UNCHANGED vars
  BY <1>3 DEF vars
<1>4. CASE \/ Frame \/ FrameBroadcast
           \/ \E w \in Workers : Broadcast(w)
           \/ \E t \in Readers : Send(t)
           \/ \E t \in Threads : Unlock(t)
  BY <1>4 DEF Frame, FrameBroadcast, Broadcast, Send, Unlock, Release, Race
<1> QED BY <1>1, <1>2, <1>3, <1>4 DEF Next

LEMMA WholeNext ==
  /\ TypeOK /\ (races = {} => IInv)
  /\ ChangesApart /\ ChangesApart'
  /\ [Next]_vars
  => (races = {} => IInv)'
<1> SUFFICES ASSUME TypeOK, races = {} => IInv, ChangesApart, ChangesApart', [Next]_vars,
                    races' = {}
             PROVE  IInv'
  OBVIOUS
<1>1. races = {}
  BY RacesGrow
<1>2. OneChanges /\ OneChanges'
  BY <1>1 DEF ChangesApart
<1> QED BY <1>1, <1>2, StepInv

\* Until the first race, the list is whole but for the change in progress, and
\* the thread that changes it knows where it is.
THEOREM Inductive == Spec => [](races = {} => OneChanges /\ IInv)
<1>1. Init => (races = {} => IInv)
  BY InvInit
<1>2. ChangesApart => (races = {} => OneChanges)
  BY DEF ChangesApart
<1> QED BY <1>1, <1>2, TypeCorrect, KeepsChangesApart, WholeNext, PTL DEF Spec

LEMMA InvLinked == IInv => Linked
<1> SUFFICES ASSUME IInv, ~Adding
             PROVE  /\ Distinct(list) /\ Chain(list, head, tail, next, NULL)
                    /\ NodesOf(list) \subseteq allocated
  BY DEF Linked, Distinct, Chain, NodesOf, Listed
<1> QED BY DEF IInv, ChainInv, AllocInv

LEMMA InvConnected == TypeOK /\ IInv /\ OneChanges => ListsConnected
<1> SUFFICES ASSUME TypeOK, IInv, OneChanges PROVE ListsConnected
  OBVIOUS
<1> DEFINE Holders == Listed \cup {Node(t) : t \in Closing}
<1>1. \A n : n \in Holders <=> Held(n)
  BY DEF Held, Listed, NodesOf, Closing
<1>2. \A n : Held(n) => n \in Nodes
  <2>1. NodesOf(list) \subseteq Nodes
    BY DEF IInv, AllocInv, TypeOK
  <2>2. \A t \in Removers : At(t, "close") => Node(t) \in Nodes
    BY DEF TypeOK, At, Removers, Threads
  <2> QED BY <2>1, <2>2 DEF Held
<1> HIDE DEF Holders
<1>3. \A i, j \in 1 .. Len(list) : sock[list[i]] = sock[list[j]] => i = j
  <2> SUFFICES ASSUME NEW i \in 1 .. Len(list), NEW j \in 1 .. Len(list),
                      sock[list[i]] = sock[list[j]]
               PROVE  i = j
    OBVIOUS
  <2>1. Held(list[i]) /\ Held(list[j])
    BY DEF Held, NodesOf
  <2>2. list[i] = list[j]
    BY <1>2, <2>1 DEF IInv, SockInv
  <2> QED BY <2>2 DEF IInv, ChainInv, Distinct
<1>4. open = {sock[n] : n \in Holders} \cup (IF Accepting THEN {job[Main].sock} ELSE {})
  <2>1. open \subseteq Sockets
    BY DEF TypeOK
  <2>2. \A n \in Holders : sock[n] \in open
    BY <1>1, <1>2 DEF IInv, SockInv
  <2>3. Accepting => job[Main].sock \in open
    BY DEF IInv, SockInv
  <2>4. \A s \in open : (\E n \in Holders : s = sock[n]) \/ (Accepting /\ s = job[Main].sock)
    BY <1>1, <2>1 DEF IInv, SockInv
  <2> QED BY <2>2, <2>3, <2>4
<1>5. Cardinality(Closing) = IF \E t \in Removers : At(t, "close") THEN 1 ELSE 0
  <2>1. CASE \E t \in Removers : At(t, "close")
    <3>1. PICK t \in Removers : At(t, "close")
      BY <2>1
    <3>2. \A u \in Removers : At(u, "close") => u = t
      BY <3>1 DEF OneChanges, Changing, Locking, Walking, At, Removers, Threads
    <3>3. Closing = {t}
      BY <3>1, <3>2 DEF Closing
    <3> QED BY <2>1, <3>3, FS_Singleton
  <2>2. CASE ~ \E t \in Removers : At(t, "close")
    <3>1. Closing = {}
      BY <2>2 DEF Closing
    <3> QED BY <2>2, <3>1, FS_EmptySet
  <2> QED BY <2>1, <2>2
<1>6. clientCount = Len(list) + Cardinality(Closing)
                    - (IF job[Main].at \in {"count", "increment"} THEN 1 ELSE 0)
  BY <1>5 DEF IInv, CountInv
<1> QED BY <1>3, <1>4, <1>6 DEF ListsConnected, Holders

\* Until the first race, and whatever is removed, when and by whom: unless main is
\* just linking a client, the pointers lead through all the nodes of the list, in
\* use and without a cycle; from accept to close an open socket is that of one
\* node; and client_count is the number of nodes, up to the change in progress.
THEOREM StaysWhole == Spec => []WholeUntilRace
<1>1. TypeOK /\ (races = {} => OneChanges /\ IInv) => WholeUntilRace
  BY InvLinked, InvConnected DEF WholeUntilRace
<1> QED BY <1>1, TypeCorrect, Inductive, PTL

LEMMA NextAllocated ==
  ASSUME TypeOK, IInv, NEW m \in allocated
  PROVE  next[m] \in allocated \cup {NULL}
<1>1. list \in Seq(Nodes) /\ NodesOf(list) \subseteq allocated
  BY DEF TypeOK, IInv, AllocInv
<1>2. CASE m \in NodesOf(list)
  <2>1. PICK i \in 1 .. Len(list) : m = list[i]
    BY <1>2 DEF NodesOf
  <2>2. CASE ~Adding \/ At(Main, "link")
    <3>1. next[m] = IF i = Len(list) THEN NULL ELSE list[i + 1]
      BY <2>1, <2>2 DEF IInv, ChainInv, Chain
    <3>2. i # Len(list) => i + 1 \in 1 .. Len(list)
      BY <1>1
    <3> QED BY <1>1, <3>1, <3>2 DEF NodesOf
  <2>3. CASE At(Main, "tail") \/ At(Main, "head")
    <3> DEFINE n == Node(Main)
               a == Append(list, n)
    <3>1. n \in allocated /\ Adding
      BY <2>3 DEF IInv, ChainInv, Adding, At
    <3>2. /\ Len(a) = Len(list) + 1 /\ a[Len(list) + 1] = n
          /\ \A k \in 1 .. Len(list) : a[k] = list[k]
      BY <1>1
    <3>3. \A k \in 1 .. Len(a) : next[a[k]] = IF k = Len(a) THEN NULL ELSE a[k + 1]
      BY <2>3 DEF IInv, ChainInv, Chain
    <3> HIDE DEF a, n
    <3>4. next[m] = a[i + 1]
      BY <1>1, <2>1, <3>2, <3>3
    <3>5. i + 1 \in 1 .. Len(list) \/ i + 1 = Len(list) + 1
      BY <1>1
    <3> QED BY <1>1, <3>1, <3>2, <3>4, <3>5 DEF NodesOf
  <2> QED BY <2>2, <2>3 DEF Adding, At
<1>3. CASE Adding /\ m = Node(Main)
  BY <1>3 DEF IInv, ChainInv
<1>4. CASE \E t \in Removers : Removing(t) /\ m = Node(t)
  BY <1>1, <1>4 DEF IInv, RemovalInv, RemovalOK
<1> QED BY <1>2, <1>3, <1>4 DEF IInv, AllocInv

\* Until the first race a broadcast, which takes no mutex, goes from a node in
\* use to a node in use or to the end, whatever change is in progress.
THEOREM StepsToLive == Spec => StepsToLiveNodes
<1>1. ASSUME TypeOK, IInv, NEW t \in Readers,
             At(t, "send"), Node(t) \in allocated, Send(t)
      PROVE  job'[t].node \in allocated \cup {NULL}
  <2>1. t \in Threads /\ job[t] \in Jobs
    BY <1>1 DEF Threads, Readers, TypeOK
  <2>2. PICK n \in NextOf(Node(t)) :
          Become(t, IF n # NULL THEN [job[t] EXCEPT !.node = n]
                    ELSE IF t = Cycle THEN [Rest EXCEPT !.at = "unlock"]
                    ELSE Rest)
    BY <1>1 DEF Send
  <2>3. n \in allocated \cup {NULL}
    BY <1>1, <2>2, NextAllocated DEF NextOf
  <2>4. job'[t] = IF n # NULL THEN [job[t] EXCEPT !.node = n]
                  ELSE IF t = Cycle THEN [Rest EXCEPT !.at = "unlock"] ELSE Rest
    BY <1>1, <2>1, <2>2 DEF Become, TypeOK
  <2>5. CASE n # NULL
    BY <2>1, <2>3, <2>4, <2>5 DEF Jobs
  <2>6. CASE n = NULL
    BY <2>4, <2>6 DEF Rest
  <2> QED BY <2>5, <2>6
<1>2. TypeOK /\ (races = {} => OneChanges /\ IInv) =>
        (races = {} =>
           \A t \in Readers :
             At(t, "send") /\ Node(t) \in allocated /\ Send(t) =>
               job'[t].node \in allocated \cup {NULL})
  BY <1>1
<1> QED BY <1>2, TypeCorrect, Inductive, PTL DEF StepsToLiveNodes
=============================================================================
