---------------------------- MODULE SessionProofs ----------------------------
(***************************************************************************)
(* What TLAPS proves of Session, with descriptors used again at once:      *)
(* type correctness; that no ball outlives its client but one added late;  *)
(* and that a client which plays keeps its connection and its balls unless *)
(* it is an heir, whose descriptor something still named.                  *)
(***************************************************************************)
EXTENDS Session, TLAPS

\* A worker that deletes balls has no task.
Busy == \A w \in Workers : task[w] # NoTask => purging[w] = NoFd

BallsInv == TypeOK /\ Busy /\ BallsOfClient

\* An exit comes only from a client that leaves.
Left == {"parting", "leaving", "waiting", "gone"}
Honest(c, data) == \A i \in DOMAIN data : data[i] \in Exits => phase[c] \in Left

\* A task holds a line; its descriptor is its client's, or was, or has an heir.
Sound(t) ==
  /\ t.data # << >>
  /\ peer[t.fd] \in {t.from, Nobody} \cup heirs
  /\ Honest(t.from, t.data)

TasksInv ==
  /\ pushing # NoTask => Sound(pushing)
  /\ \A i \in DOMAIN queue : Sound(queue[i])
  /\ \A w \in Workers : task[w] # NoTask => Sound(task[w])

\* A client has one descriptor, from the time main accepts it.
PeerInv ==
  /\ \A fd \in Fds : peer[fd] # Nobody => peer[fd] \in accepted /\ phase[peer[fd]] # "away"
  /\ \A f, g \in Fds : peer[f] = peer[g] /\ peer[f] # Nobody => f = g

\* An event of a client that stays has something to read, but for an heir.
EventsInv ==
  \A fd \in events \cap Fds :
    peer[fd] # Nobody /\ phase[peer[fd]] \notin Left
      => unread[peer[fd]] # << >> \/ peer[fd] \in heirs

\* Nobody but an heir is connected under an id whose balls a thread is to delete.
PurgeInv ==
  \A t \in Threads : \A fd \in Fds :
    purging[t] = fd => peer[fd] \in {Nobody} \cup heirs

\* The inductive invariant behind DropsOnlyHeirs and KeepsItsBalls.
IInv ==
  /\ TypeOK
  /\ \A c \in Clients : Honest(c, unread[c])
  /\ TasksInv
  /\ PeerInv
  /\ EventsInv
  /\ PurgeInv

-----------------------------------------------------------------------------

LEMMA Distinct == NoFd \notin Fds /\ Listen \notin Fds /\ Main \in Threads
BY SizeAssumption DEF NoFd, Fds, Listen, Threads

\* Taking the newest ball leaves a sequence of balls that were there.
LEMMA NewestSound ==
  ASSUME NEW S, NEW s \in Seq(S)
  PROVE  /\ Newest(s) \in Seq(S)
         /\ \A i \in DOMAIN Newest(s) : i \in DOMAIN s /\ Newest(s)[i] = s[i]
<1>1. CASE s = << >>
  BY <1>1 DEF Newest
<1>2. CASE s # << >>
  BY <1>2 DEF Newest
<1> QED BY <1>1, <1>2

\* Adding a ball changes the balls of one id: one more, of this client.
LEMMA AddBallSound ==
  ASSUME TypeOK, NEW fd \in Fds, NEW c \in Clients, AddBall(fd, c)
  PROVE  /\ balls' \in [Fds -> Seq(Ball)]
         /\ \A g \in Fds \ {fd} : balls'[g] = balls[g]
         /\ Len(balls'[fd]) = Len(balls[fd]) + 1
         /\ \A i \in DOMAIN balls'[fd] :
              \/ i \in DOMAIN balls[fd] /\ balls'[fd][i] = balls[fd][i]
              \/ balls'[fd][i] = [of |-> c, late |-> peer[fd] # c]
<1> DEFINE b == [of |-> c, late |-> peer[fd] # c]
<1>1. b \in Ball /\ balls \in [Fds -> Seq(Ball)] /\ balls[fd] \in Seq(Ball)
  BY DEF Ball, TypeOK
<1>2. balls' = [balls EXCEPT ![fd] = Append(balls[fd], b)]
  BY DEF AddBall
<1> HIDE DEF b
<1>3. /\ Append(balls[fd], b) \in Seq(Ball)
      /\ Len(Append(balls[fd], b)) = Len(balls[fd]) + 1
      /\ \A i \in DOMAIN Append(balls[fd], b) :
           \/ i \in DOMAIN balls[fd] /\ Append(balls[fd], b)[i] = balls[fd][i]
           \/ Append(balls[fd], b)[i] = b
  BY <1>1
<1>4. balls'[fd] = Append(balls[fd], b) /\ \A g \in Fds \ {fd} : balls'[g] = balls[g]
  BY <1>1, <1>2
<1>5. balls' \in [Fds -> Seq(Ball)]
  BY <1>1, <1>2, <1>3
<1> QED BY <1>3, <1>4, <1>5 DEF b

LEMMA InitTypeOK == Init => TypeOK
BY SizeAssumption, CommandsAssumption, Distinct
   DEF Init, TypeOK, Fds, NoFd, NoTask, Threads

\* One step keeps the types: the clients' steps, then main's, then the workers'.
LEMMA TransmitTypeOK ==
  ASSUME TypeOK, NEW c \in Clients, NEW cmd \in Commands, Transmit(c, cmd)
  PROVE  unread' \in [Clients -> Seq(Commands)] /\ edges' \subseteq Fds
BY DEF TypeOK, Transmit, FdsOf

LEMMA ClientTypeOK ==
  ASSUME TypeOK, NEW c \in Clients, ClientStep(c)
  PROVE  TypeOK'
<1>1. CASE Connect(c)
  BY <1>1 DEF TypeOK, Connect, mainVars
<1>2. ASSUME NEW cmd \in Lines, SendCommand(c, cmd)
      PROVE  TypeOK'
  <2>1. unread' \in [Clients -> Seq(Commands)] /\ edges' \subseteq Fds
    BY <1>2, TransmitTypeOK, LinesAssumption DEF SendCommand
  <2>2. sent \in [Clients -> Nat] /\ sent' = [sent EXCEPT ![c] = @ + 1]
    BY <1>2 DEF TypeOK, SendCommand
  <2>3. sent' \in [Clients -> Nat]
    BY <2>2
  <2>4. ASSUME NEW d \in Clients
        PROVE  sent'[d] <= MaxCommands[d]
    <3>1. sent[c] < MaxCommands[c]
      BY <1>2 DEF SendCommand
    <3>a. sent[c] \in Nat /\ MaxCommands[c] \in Nat
      BY <2>2, CommandsAssumption
    <3>2. sent[d] <= MaxCommands[d]
      BY DEF TypeOK
    <3> QED BY <2>2, <3>1, <3>2, <3>a
  <2>5. phase' \in [Clients -> {"away", "on", "parting", "leaving", "waiting", "gone"}]
    BY <1>2 DEF TypeOK, SendCommand
  <2> QED BY <1>2, <2>1, <2>3, <2>4, <2>5 DEF TypeOK, SendCommand, mainVars
<1>3. CASE TypeExit(c) \/ SendLastExit(c)
  <2>1. unread' \in [Clients -> Seq(Commands)] /\ edges' \subseteq Fds
    BY <1>3, TransmitTypeOK DEF TypeExit, SendLastExit, Commands
  <2> QED BY <1>3, <2>1 DEF TypeOK, TypeExit, SendLastExit, mainVars
<1>4. CASE Finish(c)
  BY <1>4 DEF TypeOK, Finish, mainVars
<1>5. CASE Crash(c)
  BY <1>5 DEF TypeOK, Crash, FdsOf, mainVars
<1> QED BY <1>1, <1>2, <1>3, <1>4, <1>5 DEF ClientStep

LEMMA MainTypeOK ==
  ASSUME TypeOK, MainStep
  PROVE  TypeOK'
<1>1. CASE EpollWait
  BY <1>1 DEF TypeOK, EpollWait, clientVars, mainVars
<1>2. ASSUME NEW c \in Clients, Accept(c)
      PROVE  TypeOK'
  BY <1>2 DEF TypeOK, Accept, clientVars, FreeFds
<1>8. CASE Greet
  <2>1. greeting.fd \in Fds /\ greeting.from \in Clients
    BY <1>8 DEF TypeOK, Greet
  <2>2. balls' \in [Fds -> Seq(Ball)]
    BY <1>8, <2>1, AddBallSound DEF Greet
  <2> QED BY <1>8, <2>2 DEF TypeOK, Greet, clientVars
<1>3. CASE AcceptNone
  BY <1>3 DEF TypeOK, AcceptNone, clientVars, mainVars
<1>4. ASSUME NEW fd \in Fds, Receive(fd)
      PROVE  TypeOK'
  <2>1. peer[fd] \in Clients
    BY <1>4 DEF TypeOK, Receive
  <2>2. pushing' \in Task
    BY <1>4, <2>1 DEF TypeOK, Receive, Task
  <2>3. unread' \in [Clients -> Seq(Commands)]
    BY <1>4, <2>1 DEF TypeOK, Receive
  <2>4. swallowed' \subseteq Clients
    BY <1>4, <2>1 DEF TypeOK, Receive
  <2> QED BY <1>4, <2>2, <2>3, <2>4 DEF TypeOK, Receive
<1>5. ASSUME NEW fd \in Fds, Disconnect(fd)
      PROVE  TypeOK'
  BY <1>5, Distinct DEF TypeOK, Disconnect, RemoveClient, clientVars, mainVars
<1>6. CASE Push
  <2>1. pushing \in Task
    BY <1>6 DEF TypeOK, Push
  <2>2. queue' \in Seq(Task) /\ Len(queue') <= Capacity
    BY <1>6, <2>1, SizeAssumption DEF TypeOK, Push
  <2> QED BY <1>6, <2>2 DEF TypeOK, Push, clientVars, mainVars
<1>7. CASE Purge(Main)
  BY <1>7, Distinct DEF TypeOK, Purge, clientVars, mainVars
<1> QED BY <1>1, <1>2, <1>3, <1>4, <1>5, <1>6, <1>7, <1>8 DEF MainStep

LEMMA WorkerTypeOK ==
  ASSUME TypeOK, NEW w \in Workers, WorkerStep(w)
  PROVE  TypeOK'
<1>0. w \in Threads
  BY DEF Threads
<1>a. task[w] # NoTask => task[w] \in Task /\ task[w].fd \in Fds /\ task[w].from \in Clients
  BY DEF TypeOK, Task
<1>1. CASE Pop(w)
  <2>1. /\ Head(queue) \in Task
        /\ Tail(queue) \in Seq(Task)
        /\ Len(Tail(queue)) <= Capacity
    BY <1>1, SizeAssumption DEF TypeOK, Pop
  <2> QED BY <1>1, <2>1 DEF TypeOK, Pop, clientVars, mainVars
<1>2. CASE Reject(w)
  BY <1>2 DEF TypeOK, Reject, clientVars, mainVars
<1>3. CASE Add(w)
  <2>1. balls' \in [Fds -> Seq(Ball)]
    BY <1>3, <1>a, AddBallSound DEF Add
  <2>2. task' \in [Workers -> Task \cup {NoTask}]
    BY <1>3 DEF TypeOK, Add
  <2> QED BY <1>3, <2>1, <2>2 DEF TypeOK, Add, clientVars, mainVars
<1>4. CASE Delete(w)
  <2>1. balls[task[w].fd] \in Seq(Ball)
    BY <1>4, <1>a DEF TypeOK, Delete
  <2>2. balls' \in [Fds -> Seq(Ball)]
    BY <1>4, <1>a, <2>1, NewestSound DEF TypeOK, Delete
  <2>3. task' \in [Workers -> Task \cup {NoTask}]
    BY <1>4 DEF TypeOK, Delete
  <2> QED BY <1>4, <2>2, <2>3 DEF TypeOK, Delete, clientVars, mainVars
<1>5. CASE Exit(w)
  BY <1>5, <1>0, <1>a DEF TypeOK, Exit, RemoveClient, clientVars, mainVars
<1>6. CASE Purge(w)
  BY <1>6, <1>0 DEF TypeOK, Purge, clientVars, mainVars
<1> QED BY <1>1, <1>2, <1>3, <1>4, <1>5, <1>6 DEF WorkerStep

LEMMA StepTypeOK == TypeOK /\ [Next]_vars => TypeOK'
<1> SUFFICES ASSUME TypeOK, [Next]_vars
             PROVE  TypeOK'
  OBVIOUS
<1>1. CASE Next
  BY <1>1, ClientTypeOK, MainTypeOK, WorkerTypeOK DEF Next
<1>2. CASE UNCHANGED vars
  BY <1>2 DEF vars, TypeOK
<1> QED BY <1>1, <1>2

\* However many clients, descriptors and workers: every variable keeps its type
\* (main.c 103-171, server.c 170-244).
THEOREM TypeCorrect == Spec => []TypeOK
<1>1. Init => TypeOK
  BY InitTypeOK
<1>2. TypeOK /\ [Next]_vars => TypeOK'
  BY StepTypeOK
<1> QED BY <1>1, <1>2, PTL DEF Spec

-----------------------------------------------------------------------------
(* Balls and their owners.                                                  *)

LEMMA InitBallsInv == Init => BallsInv
BY InitTypeOK DEF Init, BallsInv, Busy, BallsOfClient, Threads, NoFd

LEMMA StepBusy ==
  ASSUME TypeOK, Busy, [Next]_vars
  PROVE  Busy'
<1>1. ASSUME NEW c \in Clients, ClientStep(c)
      PROVE  Busy'
  BY <1>1 DEF Busy, ClientStep, Connect, SendCommand, TypeExit, SendLastExit,
              Finish, Crash
<1>2. CASE MainStep
  <2>1. CASE \E fd \in Fds : Disconnect(fd)
    BY <2>1, ThreadsAssumption DEF Busy, TypeOK, Disconnect, RemoveClient, Threads
  <2>2. CASE Purge(Main)
    BY <2>2 DEF Busy, TypeOK, Purge, Threads
  <2> QED BY <1>2, <2>1, <2>2
          DEF Busy, MainStep, EpollWait, Accept, AcceptNone, Greet, Receive, Push
<1>3. ASSUME NEW w \in Workers, WorkerStep(w)
      PROVE  Busy'
  <2>1. CASE Pop(w)
    BY <2>1 DEF Busy, TypeOK, Pop
  <2>2. CASE Reject(w) \/ Add(w) \/ Delete(w)
    BY <2>2 DEF Busy, TypeOK, Reject, Add, Delete
  <2>3. CASE Exit(w)
    BY <2>3 DEF Busy, TypeOK, Exit, RemoveClient, Threads
  <2>4. CASE Purge(w)
    BY <2>4 DEF Busy, TypeOK, Purge, Threads
  <2> QED BY <1>3, <2>1, <2>2, <2>3, <2>4 DEF WorkerStep
<1>4. CASE UNCHANGED vars
  BY <1>4 DEF Busy, vars
<1> QED BY <1>1, <1>2, <1>3, <1>4 DEF Next

\* A step takes balls away, adds one for the task or the greeting it carries out, or
\* leaves them.
LEMMA BallsFrom ==
  ASSUME BallsInv, [Next]_vars, NEW fd \in Fds, NEW i \in DOMAIN balls'[fd]
  PROVE  \/ i \in DOMAIN balls[fd] /\ balls'[fd][i] = balls[fd][i]
         \/ /\ \E c \in Clients : balls'[fd][i] = [of |-> c, late |-> peer[fd] # c]
            /\ peer' = peer
<1>0. TypeOK
  BY DEF BallsInv
<1>a. ASSUME NEW g \in Fds, NEW c \in Clients, AddBall(g, c), UNCHANGED peer
      PROVE  \/ i \in DOMAIN balls[fd] /\ balls'[fd][i] = balls[fd][i]
             \/ /\ \E d \in Clients : balls'[fd][i] = [of |-> d, late |-> peer[fd] # d]
                /\ peer' = peer
  <2>1. CASE fd # g
    <3>1. balls'[fd] = balls[fd]
      BY <1>0, <1>a, <2>1, AddBallSound
    <3> QED BY <3>1
  <2>2. CASE fd = g
    <3>1. \/ i \in DOMAIN balls[fd] /\ balls'[fd][i] = balls[fd][i]
          \/ balls'[fd][i] = [of |-> c, late |-> peer[fd] # c]
      BY <1>0, <1>a, <2>2, AddBallSound
    <3> QED BY <1>a, <3>1
  <2> QED BY <2>1, <2>2
<1>1. CASE Greet
  <2>1. greeting.fd \in Fds /\ greeting.from \in Clients
    BY <1>0, <1>1 DEF TypeOK, Greet
  <2> QED BY <1>1, <1>a, <2>1 DEF Greet
<1>2. ASSUME NEW w \in Workers, Add(w)
      PROVE  \/ i \in DOMAIN balls[fd] /\ balls'[fd][i] = balls[fd][i]
             \/ /\ \E d \in Clients : balls'[fd][i] = [of |-> d, late |-> peer[fd] # d]
                /\ peer' = peer
  <2>1. task[w].fd \in Fds /\ task[w].from \in Clients
    BY <1>0, <1>2 DEF TypeOK, Task, Add
  <2> QED BY <1>2, <1>a, <2>1 DEF Add
<1>3. ASSUME NEW w \in Workers, Delete(w)
      PROVE  i \in DOMAIN balls[fd] /\ balls'[fd][i] = balls[fd][i]
  <2>1. balls[fd] \in Seq(Ball)
    BY <1>0 DEF TypeOK
  <2>2. balls'[fd] \in {balls[fd], Newest(balls[fd])}
    BY <1>0, <1>3 DEF TypeOK, Delete
  <2> QED BY <2>1, <2>2, NewestSound
<1>4. ASSUME NEW t \in Threads, Purge(t)
      PROVE  i \in DOMAIN balls[fd] /\ balls'[fd][i] = balls[fd][i]
  <2>1. balls'[fd] \in {balls[fd], << >>}
    BY <1>0, <1>4 DEF TypeOK, Purge
  <2> QED BY <2>1
<1>5. \/ Greet
      \/ \E w \in Workers : Add(w) \/ Delete(w)
      \/ \E t \in Threads : Purge(t)
      \/ UNCHANGED balls
  BY DEF Next, vars, ClientStep, Connect, SendCommand, TypeExit, SendLastExit, Finish,
         Crash, MainStep, EpollWait, Accept, AcceptNone, Receive, Disconnect, Push,
         WorkerStep, Pop, Reject, Exit, Threads
<1> QED BY <1>1, <1>2, <1>3, <1>4, <1>5

\* Connections end by a removal whose thread goes on to delete the balls.
LEMMA PeerFrom ==
  ASSUME BallsInv, [Next]_vars, NEW fd \in Fds
  PROVE  \/ peer'[fd] = peer[fd]
         \/ peer[fd] = Nobody
         \/ \E t \in Threads : purging'[t] = fd
<1>0. TypeOK
  BY DEF BallsInv
<1>1. ASSUME NEW t \in Threads, NEW g \in Fds, RemoveClient(t, g)
      PROVE  peer'[fd] = peer[fd] \/ purging'[t] = fd
  BY <1>0, <1>1 DEF TypeOK, RemoveClient
<1>2. ASSUME NEW c \in Clients, Accept(c)
      PROVE  peer'[fd] = peer[fd] \/ peer[fd] = Nobody
  BY <1>0, <1>2 DEF TypeOK, Accept, FreeFds
<1>3. ASSUME NEW g \in Fds, Disconnect(g)
      PROVE  \E t \in Threads : RemoveClient(t, g)
  BY <1>3, Distinct DEF Disconnect
<1>4. ASSUME NEW w \in Workers, Exit(w)
      PROVE  task[w].fd \in Fds /\ \E t \in Threads : RemoveClient(t, task[w].fd)
  BY <1>0, <1>4 DEF TypeOK, Task, Exit, Threads
<1>5. \/ \E c \in Clients : Accept(c)
      \/ \E g \in Fds : Disconnect(g)
      \/ \E w \in Workers : Exit(w)
      \/ UNCHANGED peer
  BY DEF Next, vars, ClientStep, Connect, SendCommand, TypeExit, SendLastExit,
         Finish, Crash, MainStep, EpollWait, AcceptNone, Greet, Receive, Push, Purge,
         WorkerStep, Pop, Reject, Add, Delete
<1> QED BY <1>1, <1>2, <1>3, <1>4, <1>5

\* A removal is over when the thread has deleted the balls.
LEMMA PurgingFrom ==
  ASSUME BallsInv, [Next]_vars, NEW t \in Threads, purging[t] \in Fds
  PROVE  \/ purging'[t] = purging[t]
         \/ balls'[purging[t]] = << >>
<1>0. TypeOK /\ Busy
  BY DEF BallsInv
<1>1. ASSUME NEW u \in Threads, NEW g \in Fds, RemoveClient(u, g), purging[u] = NoFd
      PROVE  purging'[t] = purging[t]
  BY <1>0, <1>1, Distinct DEF TypeOK, RemoveClient
<1>2. ASSUME NEW g \in Fds, Disconnect(g)
      PROVE  purging'[t] = purging[t]
  BY <1>1, <1>2, Distinct DEF Disconnect, MainFree
<1>3. ASSUME NEW w \in Workers, Exit(w)
      PROVE  purging'[t] = purging[t]
  <2>1. task[w].fd \in Fds /\ w \in Threads /\ purging[w] = NoFd
    BY <1>0, <1>3 DEF TypeOK, Busy, Task, Exit, Threads
  <2> QED BY <1>1, <1>3, <2>1 DEF Exit
<1>4. ASSUME NEW u \in Threads, Purge(u)
      PROVE  \/ purging'[t] = purging[t]
             \/ balls'[purging[t]] = << >>
  BY <1>0, <1>4 DEF TypeOK, Purge
<1>5. \/ \E g \in Fds : Disconnect(g)
      \/ \E w \in Workers : Exit(w)
      \/ \E u \in Threads : Purge(u)
      \/ UNCHANGED purging
  BY DEF Next, vars, ClientStep, Connect, SendCommand, TypeExit, SendLastExit, Finish,
         Crash, MainStep, EpollWait, Accept, AcceptNone, Greet, Receive, Push,
         WorkerStep, Pop, Reject, Add, Delete, Threads
<1> QED BY <1>2, <1>3, <1>4, <1>5

LEMMA StepBallsOfClient ==
  ASSUME BallsInv, [Next]_vars
  PROVE  BallsOfClient'
<1>0. TypeOK /\ BallsOfClient /\ balls' \in [Fds -> Seq(Ball)]
  BY StepTypeOK DEF BallsInv, TypeOK
<1> SUFFICES ASSUME NEW fd \in Fds, NEW i \in DOMAIN balls'[fd]
             PROVE  \/ balls'[fd][i].of = peer'[fd]
                    \/ balls'[fd][i].late
                    \/ \E t \in Threads : purging'[t] = fd
  BY DEF BallsOfClient
<1>1. CASE ~(i \in DOMAIN balls[fd] /\ balls'[fd][i] = balls[fd][i])
  <2>1. PICK c \in Clients : balls'[fd][i] = [of |-> c, late |-> peer[fd] # c]
    BY <1>1, BallsFrom
  <2>2. peer' = peer
    BY <1>1, BallsFrom
  <2>3. CASE peer[fd] = c
    BY <2>1, <2>2, <2>3
  <2>4. CASE peer[fd] # c
    <3> DEFINE gone == peer[fd] # c
    <3>1. gone = TRUE
      BY <2>4
    <3>2. balls'[fd][i] = [of |-> c, late |-> gone]
      BY <2>1
    <3> HIDE DEF gone
    <3>3. balls'[fd][i] = [of |-> c, late |-> TRUE]
      BY <3>1, <3>2
    <3> QED BY <3>3
  <2> QED BY <2>3, <2>4
<1>2. CASE i \in DOMAIN balls[fd] /\ balls'[fd][i] = balls[fd][i]
  <2>1. CASE \E t \in Threads : purging[t] = fd
    BY <2>1, PurgingFrom
  <2>2. CASE balls[fd][i].late
    BY <1>2, <2>2
  <2>3. CASE balls[fd][i].of = peer[fd]
    <3>1. balls[fd][i].of \in Clients
      <4>1. balls[fd] \in Seq(Ball)
        BY <1>0 DEF TypeOK
      <4>2. balls[fd][i] \in Ball
        BY <1>2, <4>1
      <4> QED BY <4>2 DEF Ball
    <3>2. peer[fd] # Nobody
      BY <2>3, <3>1, ClientsAssumption
    <3> QED BY <1>2, <2>3, <3>2, PeerFrom
  <2> QED BY <1>0, <1>2, <2>1, <2>2, <2>3 DEF BallsOfClient
<1> QED BY <1>1, <1>2

\* However its client leaves, a ball does not outlive it once the thread that removed it
\* has deleted its balls, unless the ball was itself added after the removal: for every
\* number of clients, descriptors and workers (main.c 127-157, server.c 203-222).
THEOREM BallsGoWithTheirClient == Spec => []BallsOfClient
<1>1. Init => BallsInv
  BY InitBallsInv
<1>2. BallsInv /\ [Next]_vars => BallsInv'
  BY StepTypeOK, StepBusy, StepBallsOfClient DEF BallsInv
<1>3. BallsInv => BallsOfClient
  BY DEF BallsInv
<1> QED BY <1>1, <1>2, <1>3, PTL DEF Spec

-----------------------------------------------------------------------------
(* Who is dropped.                                                          *)

LEMMA InitIInv == Init => IInv
<1> SUFFICES ASSUME Init PROVE IInv
  OBVIOUS
<1>1. TypeOK
  BY InitTypeOK
<1>2. (\A c \in Clients : Honest(c, unread[c])) /\ TasksInv /\ PeerInv /\ EventsInv /\ PurgeInv
  BY Distinct DEF Init, Honest, TasksInv, PeerInv, EventsInv, PurgeInv
<1> QED BY <1>1, <1>2 DEF IInv

\* Nobody who has left comes back.
LEMMA StaysLeft ==
  ASSUME TypeOK, [Next]_vars, NEW c \in Clients
  PROVE  /\ phase[c] \in Left => phase'[c] \in Left
         /\ phase[c] # "away" => phase'[c] # "away"
<1>1. ASSUME NEW d \in Clients, ClientStep(d)
      PROVE  /\ phase[c] \in Left => phase'[c] \in Left
             /\ phase[c] # "away" => phase'[c] # "away"
  BY <1>1 DEF TypeOK, Left, ClientStep, Connect, SendCommand, TypeExit, SendLastExit,
              Finish, Crash
<1>2. CASE MainStep
  BY <1>2 DEF MainStep, EpollWait, Accept, AcceptNone, Greet, Receive, Disconnect, Push,
              Purge, clientVars, mainVars
<1>3. ASSUME NEW w \in Workers, WorkerStep(w)
      PROVE  UNCHANGED phase
  BY <1>3 DEF WorkerStep, Pop, Reject, Add, Delete, Exit, Purge, clientVars, mainVars
<1>4. CASE UNCHANGED vars
  BY <1>4 DEF vars, clientVars, mainVars
<1> QED BY <1>1, <1>2, <1>3, <1>4 DEF Next

\* The bytes on their way.
LEMMA StepUnread ==
  ASSUME IInv, [Next]_vars, NEW c \in Clients
  PROVE  Honest(c, unread[c])'
<1>0. TypeOK /\ Honest(c, unread[c])
  BY DEF IInv
<1>a. ASSUME unread'[c] = unread[c]
      PROVE  Honest(c, unread[c])'
  BY <1>0, <1>a, StaysLeft DEF Honest
<1>b. ASSUME NEW cmd \in Commands, NEW d \in Clients, Transmit(d, cmd),
             cmd \in Exits => phase'[d] \in Left
      PROVE  Honest(c, unread[c])'
  <2>1. CASE unread'[c] = unread[c]
    BY <2>1, <1>a
  <2>2. CASE unread'[c] # unread[c]
    <3>1. c = d /\ unread'[c] = Append(unread[c], cmd) /\ unread[c] \in Seq(Commands)
      BY <1>0, <1>b, <2>2 DEF TypeOK, Transmit
    <3>2. \A i \in DOMAIN unread'[c] :
            \/ i \in DOMAIN unread[c] /\ unread'[c][i] = unread[c][i]
            \/ unread'[c][i] = cmd
      BY <3>1
    <3> QED BY <1>0, <1>b, <3>1, <3>2, StaysLeft DEF Honest
  <2> QED BY <2>1, <2>2
<1>1. ASSUME NEW d \in Clients, ClientStep(d)
      PROVE  Honest(c, unread[c])'
  <2>1. CASE Connect(d) \/ Finish(d) \/ Crash(d)
    BY <2>1, <1>a DEF Connect, Finish, Crash
  <2>2. ASSUME NEW cmd \in Lines, SendCommand(d, cmd)
        PROVE  Honest(c, unread[c])'
    <3>1. cmd \in Commands /\ (cmd \in Exits => cmd = "x:N")
      BY LinesAssumption DEF Exits
    <3>2. cmd = "x:N" => phase'[d] \in Left
      BY <1>0, <2>2 DEF TypeOK, SendCommand, Left
    <3> QED BY <2>2, <3>1, <3>2, <1>b DEF SendCommand
  <2>3. CASE TypeExit(d) \/ SendLastExit(d)
    <3>1. phase'[d] \in Left
      BY <1>0, <2>3 DEF TypeOK, TypeExit, SendLastExit, Left
    <3> QED BY <2>3, <3>1, <1>b DEF TypeExit, SendLastExit, Commands
  <2> QED BY <1>1, <2>1, <2>2, <2>3 DEF ClientStep
<1>2. CASE MainStep
  <2>1. ASSUME NEW fd \in Fds, Receive(fd)
        PROVE  Honest(c, unread[c])'
    <3>1. CASE unread'[c] = unread[c]
      BY <3>1, <1>a
    <3>2. CASE unread'[c] # unread[c]
      <4>1. unread'[c] = << >>
        BY <1>0, <2>1, <3>2 DEF TypeOK, Receive
      <4> QED BY <4>1 DEF Honest
    <3> QED BY <3>1, <3>2
  <2>2. (\E fd \in Fds : Receive(fd)) \/ UNCHANGED unread
    BY <1>2 DEF MainStep, EpollWait, Accept, AcceptNone, Greet, Disconnect, Push, Purge,
                clientVars, mainVars
  <2> QED BY <2>1, <2>2, <1>a
<1>3. ASSUME NEW w \in Workers, WorkerStep(w)
      PROVE  Honest(c, unread[c])'
  BY <1>3, <1>a DEF WorkerStep, Pop, Reject, Add, Delete, Exit, Purge, clientVars, mainVars
<1>4. CASE UNCHANGED vars
  BY <1>4, <1>a DEF vars, clientVars, mainVars
<1> QED BY <1>1, <1>2, <1>3, <1>4 DEF Next

\* Only Accept connects a descriptor, and one that something names to an heir.
LEMMA StepPeer ==
  ASSUME TypeOK, [Next]_vars, NEW fd \in Fds
  PROVE  /\ heirs \subseteq heirs'
         /\ \/ peer'[fd] \in {peer[fd], Nobody}
            \/ /\ peer[fd] = Nobody
               /\ Named(fd) => peer'[fd] \in heirs'
<1>1. ASSUME NEW c \in Clients, ClientStep(c)
      PROVE  UNCHANGED <<peer, heirs>>
  BY <1>1 DEF ClientStep, Connect, SendCommand, TypeExit, SendLastExit, Finish, Crash,
              mainVars
<1>2. ASSUME NEW c \in Clients, Accept(c)
      PROVE  /\ heirs \subseteq heirs'
             /\ \/ peer'[fd] = peer[fd]
                \/ /\ peer[fd] = Nobody
                   /\ Named(fd) => peer'[fd] \in heirs'
  <2>1. PICK g \in FreeFds : /\ peer' = [peer EXCEPT ![g] = c]
                             /\ heirs' = IF Named(g) THEN heirs \cup {c} ELSE heirs
    BY <1>2 DEF Accept
  <2>2. heirs \subseteq heirs'
    BY <2>1
  <2>3. CASE fd # g
    BY <2>1, <2>2, <2>3 DEF TypeOK
  <2>4. CASE fd = g
    BY <2>1, <2>2, <2>4 DEF TypeOK, FreeFds
  <2> QED BY <2>3, <2>4
<1>3. CASE MainStep
  <2>1. ASSUME NEW g \in Fds, Disconnect(g)
        PROVE  peer'[fd] \in {peer[fd], Nobody} /\ UNCHANGED heirs
    BY <2>1 DEF TypeOK, Disconnect, RemoveClient, mainVars
  <2> QED BY <1>2, <1>3, <2>1
          DEF MainStep, EpollWait, AcceptNone, Greet, Receive, Push, Purge, mainVars
<1>4. ASSUME NEW w \in Workers, WorkerStep(w)
      PROVE  peer'[fd] \in {peer[fd], Nobody} /\ UNCHANGED heirs
  <2>1. CASE Exit(w)
    BY <2>1 DEF TypeOK, Exit, RemoveClient, mainVars
  <2> QED BY <1>4, <2>1 DEF WorkerStep, Pop, Reject, Add, Delete, Purge, mainVars
<1>5. CASE UNCHANGED vars
  BY <1>5 DEF vars
<1> QED BY <1>1, <1>3, <1>4, <1>5 DEF Next

\* Who is connected under a number that something names, is or was so before, or is
\* an heir.
LEMMA StepNamed ==
  ASSUME TypeOK, [Next]_vars, NEW fd \in Fds, Named(fd)
  PROVE  peer'[fd] \in {peer[fd], Nobody} \cup heirs'
BY StepPeer

\* Sound(t) after a step, for a task t that the step does not change.
SoundNext(t) ==
  /\ t.data # << >>
  /\ peer'[t.fd] \in {t.from, Nobody} \cup heirs'
  /\ \A i \in DOMAIN t.data : t.data[i] \in Exits => phase'[t.from] \in Left

LEMMA StepSound ==
  ASSUME IInv, [Next]_vars,
         NEW t \in Task, Named(t.fd), Sound(t)
  PROVE  SoundNext(t)
<1>1. TypeOK /\ t.fd \in Fds /\ t.from \in Clients
  BY DEF IInv, Task
<1>2. peer'[t.fd] \in {t.from, Nobody} \cup heirs'
  BY <1>1, StepNamed, StepPeer DEF Sound
<1>3. \A i \in DOMAIN t.data : t.data[i] \in Exits => phase'[t.from] \in Left
  BY <1>1, StaysLeft DEF Sound, Honest
<1> QED BY <1>2, <1>3 DEF Sound, SoundNext

\* Where the tasks after a step come from.
LEMMA PushingFrom ==
  ASSUME TypeOK, [Next]_vars
  PROVE  \/ pushing' \in {pushing, NoTask}
         \/ \E fd \in Fds : Receive(fd)
BY DEF Next, vars, mainVars, ClientStep, Connect, SendCommand, TypeExit, SendLastExit, Finish,
       Crash, MainStep, EpollWait, Accept, AcceptNone, Greet, Disconnect, Push, Purge,
       WorkerStep, Pop, Reject, Add, Delete, Exit

LEMMA QueueFrom ==
  ASSUME TypeOK, [Next]_vars, NEW i \in DOMAIN queue'
  PROVE  \/ \E j \in DOMAIN queue : queue'[i] = queue[j]
         \/ pushing # NoTask /\ queue'[i] = pushing
<1>1. CASE Push
  BY <1>1 DEF TypeOK, Push
<1>2. ASSUME NEW w \in Workers, Pop(w)
      PROVE  \E j \in DOMAIN queue : queue'[i] = queue[j]
  <2>1. queue \in Seq(Task) /\ queue # << >> /\ queue' = Tail(queue)
    BY <1>2 DEF TypeOK, Pop
  <2> QED BY <2>1
<1>3. Push \/ (\E w \in Workers : Pop(w)) \/ UNCHANGED queue
  BY DEF Next, vars, ClientStep, Connect, SendCommand, TypeExit, SendLastExit, Finish,
         Crash, MainStep, EpollWait, Accept, AcceptNone, Greet, Receive, Disconnect, Purge,
         WorkerStep, Reject, Add, Delete, Exit
<1> QED BY <1>1, <1>2, <1>3

LEMMA TaskFrom ==
  ASSUME TypeOK, [Next]_vars, NEW w \in Workers
  PROVE  \/ task'[w] \in {task[w], NoTask}
         \/ 1 \in DOMAIN queue /\ task'[w] = queue[1]
<1>1. ASSUME NEW v \in Workers, Pop(v)
      PROVE  \/ task'[w] = task[w]
             \/ 1 \in DOMAIN queue /\ task'[w] = queue[1]
  BY <1>1 DEF TypeOK, Pop
<1>2. ASSUME NEW v \in Workers, Reject(v) \/ Add(v) \/ Delete(v) \/ Exit(v)
      PROVE  task'[w] \in {task[w], NoTask}
  BY <1>2 DEF TypeOK, Reject, Add, Delete, Exit
<1>3. \/ \E v \in Workers : Pop(v) \/ Reject(v) \/ Add(v) \/ Delete(v) \/ Exit(v)
      \/ UNCHANGED task
  BY DEF Next, vars, ClientStep, Connect, SendCommand, TypeExit, SendLastExit, Finish,
         Crash, MainStep, EpollWait, Accept, AcceptNone, Greet, Receive, Disconnect, Push,
         Purge, WorkerStep
<1> QED BY <1>1, <1>2, <1>3

LEMMA StepTasksInv ==
  ASSUME IInv, [Next]_vars
  PROVE  TasksInv'
<1>0. TypeOK /\ TasksInv
  BY DEF IInv
<1>1. pushing # NoTask => SoundNext(pushing)
  <2>1. pushing # NoTask => pushing \in Task /\ Named(pushing.fd) /\ Sound(pushing)
    BY <1>0 DEF TypeOK, TasksInv, Named
  <2> QED BY <2>1, StepSound
<1>2. \A j \in DOMAIN queue : SoundNext(queue[j])
  <2>1. \A j \in DOMAIN queue :
          queue[j] \in Task /\ Named(queue[j].fd) /\ Sound(queue[j])
    BY <1>0 DEF TypeOK, TasksInv, Named
  <2> QED BY <2>1, StepSound
<1>3. \A w \in Workers : task[w] # NoTask => SoundNext(task[w])
  <2>1. \A w \in Workers : task[w] # NoTask =>
          task[w] \in Task /\ Named(task[w].fd) /\ Sound(task[w])
    BY <1>0 DEF TypeOK, TasksInv, Named
  <2> QED BY <2>1, StepSound
<1>4. pushing' # NoTask => Sound(pushing)'
  <2>1. ASSUME NEW fd \in Fds, Receive(fd)
        PROVE  Sound(pushing)'
    <3> DEFINE c == peer[fd]
    <3>1. c \in Clients /\ Honest(c, unread[c]) /\ unread[c] # << >>
      BY <1>0, <2>1 DEF TypeOK, Receive, IInv
    <3>2. /\ pushing' = [fd |-> fd, from |-> c, data |-> unread[c]]
          /\ UNCHANGED <<peer, phase, heirs>>
      BY <2>1 DEF Receive
    <3> QED BY <3>1, <3>2 DEF Sound, Honest
  <2>2. CASE pushing' = pushing
    BY <1>1, <2>2 DEF SoundNext, Sound, Honest
  <2> QED BY <1>0, <2>1, <2>2, PushingFrom
<1>5. ASSUME NEW i \in DOMAIN queue'
      PROVE  Sound(queue[i])'
  <2>1. SoundNext(queue'[i])
    BY <1>0, <1>1, <1>2, <1>5, QueueFrom
  <2> QED BY <2>1 DEF SoundNext, Sound, Honest
<1>6. ASSUME NEW w \in Workers, task'[w] # NoTask
      PROVE  Sound(task[w])'
  <2>1. SoundNext(task'[w])
    BY <1>0, <1>2, <1>3, <1>6, TaskFrom
  <2> QED BY <2>1 DEF SoundNext, Sound, Honest
<1> QED BY <1>4, <1>5, <1>6 DEF TasksInv

LEMMA StepPeerInv ==
  ASSUME IInv, [Next]_vars
  PROVE  PeerInv'
<1>0. TypeOK /\ PeerInv
  BY DEF IInv
<1>1. ASSUME NEW c \in Clients, Accept(c)
      PROVE  PeerInv'
  <2>1. c \notin accepted /\ phase[c] # "away" /\ accepted' = accepted \cup {c}
        /\ UNCHANGED phase
    BY <1>1 DEF Accept, Backlog, clientVars, mainVars
  <2>2. PICK fd \in Fds : peer' = [peer EXCEPT ![fd] = c]
    BY <1>1 DEF Accept, FreeFds
  <2> QED BY <1>0, <2>1, <2>2, ClientsAssumption DEF PeerInv, TypeOK
<1>2. ASSUME \A fd \in Fds : peer'[fd] \in {peer[fd], Nobody}, accepted' = accepted
      PROVE  PeerInv'
  BY <1>0, <1>2, StaysLeft DEF PeerInv, TypeOK
<1>3. (\E c \in Clients : Accept(c)) \/ UNCHANGED accepted
  BY DEF Next, vars, mainVars, ClientStep, Connect, SendCommand, TypeExit, SendLastExit, Finish,
         Crash, MainStep, EpollWait, AcceptNone, Greet, Receive, Disconnect, Push,
         Purge, WorkerStep, Pop, Reject, Add, Delete, Exit
<1>4. (\E c \in Clients : Accept(c)) \/ \A fd \in Fds : peer'[fd] \in {peer[fd], Nobody}
  <2>1. ASSUME NEW fd \in Fds, Disconnect(fd)
        PROVE  \A g \in Fds : peer'[g] \in {peer[g], Nobody}
    BY <1>0, <2>1 DEF TypeOK, Disconnect, RemoveClient
  <2>2. ASSUME NEW w \in Workers, Exit(w)
        PROVE  \A g \in Fds : peer'[g] \in {peer[g], Nobody}
    BY <1>0, <2>2 DEF TypeOK, Exit, RemoveClient
  <2>3. \/ \E c \in Clients : Accept(c)
        \/ \E fd \in Fds : Disconnect(fd)
        \/ \E w \in Workers : Exit(w)
        \/ UNCHANGED peer
    BY DEF Next, vars, ClientStep, Connect, SendCommand, TypeExit, SendLastExit,
           Finish, Crash, MainStep, EpollWait, AcceptNone, Greet, Receive, Push, Purge,
           WorkerStep, Pop, Reject, Add, Delete
  <2> QED BY <2>1, <2>2, <2>3
<1> QED BY <1>1, <1>2, <1>3, <1>4

\* What a client has sent stays there until main receives it.
LEMMA UnreadStays ==
  ASSUME TypeOK, [Next]_vars, NEW c \in Clients, unread[c] # << >>, unread'[c] = << >>
  PROVE  \E fd \in Fds : Receive(fd) /\ peer[fd] = c
<1>1. ASSUME NEW d \in Clients, ClientStep(d)
      PROVE  FALSE
  <2>1. ASSUME NEW cmd, Transmit(d, cmd)
        PROVE  FALSE
    <3>1. CASE Dropped(d) \/ c # d
      BY <2>1, <3>1 DEF TypeOK, Transmit
    <3>2. CASE ~Dropped(d) /\ c = d
      <4>1. unread'[c] = Append(unread[c], cmd) /\ unread[c] \in Seq(Commands)
        BY <2>1, <3>2 DEF TypeOK, Transmit
      <4>2. Len(Append(unread[c], cmd)) # 0
        BY <4>1
      <4> QED BY <4>1, <4>2
    <3> QED BY <3>1, <3>2
  <2> QED BY <1>1, <2>1 DEF ClientStep, Connect, SendCommand, TypeExit, SendLastExit,
                            Finish, Crash
<1>2. ASSUME NEW fd \in Fds, Receive(fd)
      PROVE  peer[fd] = c
  BY <1>2 DEF TypeOK, Receive
<1>3. (\E d \in Clients : ClientStep(d)) \/ (\E fd \in Fds : Receive(fd)) \/ UNCHANGED unread
  BY DEF Next, vars, clientVars, mainVars, MainStep, EpollWait, Accept, AcceptNone, Greet, Disconnect,
         Push, Purge, WorkerStep, Pop, Reject, Add, Delete, Exit
<1> QED BY <1>1, <1>2, <1>3

LEMMA StepEventsInv ==
  ASSUME IInv, [Next]_vars
  PROVE  EventsInv'
<1>0. TypeOK /\ PeerInv /\ EventsInv
  BY DEF IInv
<1>1. CASE EpollWait
  <2>1. \A fd \in events' \cap Fds : Readable(fd)
    BY <1>1, Distinct DEF EpollWait
  <2>2. UNCHANGED <<peer, phase, unread>>
    BY <1>1 DEF EpollWait, clientVars, mainVars
  <2> QED BY <2>1, <2>2 DEF EventsInv, Readable, Left
<1>2. CASE ~EpollWait
  <2>1. events' \subseteq events
    BY <1>2 DEF Next, vars, ClientStep, Connect, SendCommand, TypeExit, SendLastExit,
           Finish, Crash, MainStep, Accept, AcceptNone, Greet, Receive, Disconnect, Push,
           Purge, WorkerStep, Pop, Reject, Add, Delete, Exit
  <2>2. SUFFICES ASSUME NEW fd \in events' \cap Fds,
                        peer'[fd] # Nobody, phase'[peer'[fd]] \notin Left,
                        unread'[peer'[fd]] = << >>, peer'[fd] \notin heirs'
                 PROVE  FALSE
    BY DEF EventsInv
  <2> DEFINE c == peer[fd]
  <2>3. fd \in events /\ Named(fd)
    BY <2>1, <2>2 DEF Named
  <2>4. peer'[fd] = c /\ c \in Clients /\ c \notin heirs
    BY <1>0, <2>2, <2>3, StepNamed, StepPeer DEF TypeOK
  <2>5. unread[c] # << >>
    BY <1>0, <2>2, <2>3, <2>4, StaysLeft DEF EventsInv
  <2>6. PICK g \in Fds : Receive(g) /\ peer[g] = c
    BY <1>0, <2>2, <2>4, <2>5, UnreadStays
  <2>7. g = fd
    BY <1>0, <2>2, <2>4, <2>6 DEF PeerInv
  <2> QED BY <2>2, <2>6, <2>7 DEF Receive
<1> QED BY <1>1, <1>2

LEMMA StepPurgeInv ==
  ASSUME IInv, [Next]_vars
  PROVE  PurgeInv'
<1>0. TypeOK /\ PurgeInv
  BY DEF IInv
<1> SUFFICES ASSUME NEW t \in Threads, NEW fd \in Fds, purging'[t] = fd
             PROVE  peer'[fd] \in {Nobody} \cup heirs'
  BY DEF PurgeInv
<1>1. CASE purging[t] = fd
  BY <1>0, <1>1, StepNamed, StepPeer DEF PurgeInv, Named
<1>2. CASE purging[t] # fd
  <2>1. ASSUME NEW u \in Threads, NEW g \in Fds, RemoveClient(u, g)
        PROVE  peer'[fd] = Nobody
    BY <1>0, <1>2, <2>1 DEF TypeOK, RemoveClient
  <2>2. ASSUME NEW g \in Fds, Disconnect(g)
        PROVE  \E u \in Threads : RemoveClient(u, g)
    BY <2>2, Distinct DEF Disconnect
  <2>3. ASSUME NEW w \in Workers, Exit(w)
        PROVE  task[w].fd \in Fds /\ \E u \in Threads : RemoveClient(u, task[w].fd)
    BY <1>0, <2>3 DEF TypeOK, Task, Exit, Threads
  <2>4. ASSUME NEW u \in Threads, Purge(u)
        PROVE  FALSE
    BY <1>0, <1>2, <2>4, Distinct DEF TypeOK, Purge
  <2>5. \/ \E g \in Fds : Disconnect(g)
        \/ \E w \in Workers : Exit(w)
        \/ \E u \in Threads : Purge(u)
    BY <1>2 DEF Next, vars, ClientStep, Connect, SendCommand, TypeExit, SendLastExit,
           Finish, Crash, MainStep, EpollWait, Accept, AcceptNone, Greet, Receive, Push,
           WorkerStep, Pop, Reject, Add, Delete, Threads
  <2> QED BY <2>1, <2>2, <2>3, <2>4, <2>5
<1> QED BY <1>1, <1>2

LEMMA StepIInv ==
  ASSUME IInv, [Next]_vars
  PROVE  IInv'
<1>1. TypeOK'
  BY StepTypeOK DEF IInv
<1>2. \A c \in Clients : Honest(c, unread[c])'
  BY StepUnread
<1>3. TasksInv' /\ PeerInv' /\ EventsInv' /\ PurgeInv'
  BY StepTasksInv, StepPeerInv, StepEventsInv, StepPurgeInv
<1> QED BY <1>1, <1>2, <1>3 DEF IInv

LEMMA Invariant == Spec => []IInv
<1>1. IInv /\ [Next]_vars => IInv'
  BY StepIInv
<1> QED BY <1>1, InitIInv, PTL DEF Spec

LEMMA StepDrops ==
  ASSUME IInv, [Next]_vars,
         NEW fd \in Fds, peer[fd] # Nobody, phase[peer[fd]] = "on", peer[fd] \notin heirs
  PROVE  peer'[fd] = peer[fd]
<1>0. TypeOK /\ TasksInv /\ EventsInv
  BY DEF IInv
<1>1. ASSUME NEW c \in Clients, Accept(c)
      PROVE  peer'[fd] = peer[fd]
  BY <1>0, <1>1 DEF TypeOK, Accept, FreeFds
<1>2. ASSUME NEW g \in Fds, Disconnect(g)
      PROVE  peer'[fd] = peer[fd]
  <2>1. g # fd
    BY <1>0, <1>2 DEF EventsInv, Disconnect, Left
  <2> QED BY <1>0, <1>2, <2>1 DEF TypeOK, Disconnect, RemoveClient
<1>3. ASSUME NEW w \in Workers, Exit(w)
      PROVE  peer'[fd] = peer[fd]
  <2> DEFINE t == task[w]
  <2>1. t \in Task /\ Sound(t) /\ \E exit \in Exits : Parses(t.data, exit)
    BY <1>0, <1>3 DEF TypeOK, TasksInv, Exit
  <2>2. 1 \in DOMAIN t.data /\ t.data[1] \in Exits
    BY <2>1 DEF Task, Parses, Sound
  <2>3. phase[t.from] \in Left
    BY <2>1, <2>2 DEF Sound, Honest
  <2>4. t.fd # fd
    BY <2>1, <2>3 DEF Sound, Left
  <2> QED BY <1>0, <1>3, <2>4 DEF TypeOK, Exit, RemoveClient
<1>4. \/ \E c \in Clients : Accept(c)
      \/ \E g \in Fds : Disconnect(g)
      \/ \E w \in Workers : Exit(w)
      \/ UNCHANGED peer
  BY DEF Next, vars, ClientStep, Connect, SendCommand, TypeExit, SendLastExit,
         Finish, Crash, MainStep, EpollWait, AcceptNone, Greet, Receive, Push, Purge,
         WorkerStep, Pop, Reject, Add, Delete
<1> QED BY <1>1, <1>2, <1>3, <1>4

\* Descriptors are used again while events, tasks and removals under way still name
\* them.  For every number of clients, descriptors and workers, only one that was given
\* such a descriptor is ever disconnected while it plays (main.c 112-157, server.c
\* 191-222).
THEOREM OnlyHeirsDropped == Spec => DropsOnlyHeirs
<1>1. IInv /\ [Next]_vars =>
        [\A fd \in Fds :
           peer[fd] # Nobody /\ phase[peer[fd]] = "on" /\ peer'[fd] # peer[fd]
           => peer[fd] \in heirs]_vars
  BY StepDrops
<1> QED BY <1>1, Invariant, PTL DEF Spec, DropsOnlyHeirs

LEMMA StepKeepsBalls ==
  ASSUME IInv, [Next]_vars,
         NEW fd \in Fds, peer[fd] # Nobody, phase[peer[fd]] = "on", peer[fd] \notin heirs,
         Len(balls'[fd]) < Len(balls[fd])
  PROVE  \E w \in Workers : Deletes(w, peer[fd])
<1>0. TypeOK /\ TasksInv /\ PurgeInv /\ Len(balls[fd]) \in Nat
  BY DEF IInv, TypeOK
<1>a. ASSUME NEW g \in Fds, NEW c \in Clients, AddBall(g, c)
      PROVE  FALSE
  <2>1. \/ balls'[fd] = balls[fd]
        \/ Len(balls'[fd]) = Len(balls[fd]) + 1
    BY <1>0, <1>a, AddBallSound
  <2> QED BY <1>0, <2>1
<1>1. CASE Greet
  <2>1. greeting.fd \in Fds /\ greeting.from \in Clients
    BY <1>0, <1>1 DEF TypeOK, Greet
  <2> QED BY <1>1, <1>a, <2>1 DEF Greet
<1>2. ASSUME NEW w \in Workers, Add(w)
      PROVE  FALSE
  <2>1. task[w].fd \in Fds /\ task[w].from \in Clients
    BY <1>0, <1>2 DEF TypeOK, Task, Add
  <2> QED BY <1>2, <1>a, <2>1 DEF Add
<1>3. ASSUME NEW w \in Workers, Delete(w)
      PROVE  Deletes(w, peer[fd])
  <2>1. task[w] \in Task /\ Sound(task[w]) /\ task'[w] = NoTask
    BY <1>0, <1>3 DEF TypeOK, TasksInv, Delete
  <2>2. task[w].fd = fd
    BY <1>0, <1>3, <2>1 DEF TypeOK, Delete
  <2>3. task[w].from = peer[fd]
    BY <2>1, <2>2 DEF Sound
  <2> QED BY <1>3, <2>1, <2>3 DEF Deletes, Delete
<1>4. ASSUME NEW t \in Threads, Purge(t)
      PROVE  FALSE
  <2>1. purging[t] = fd
    BY <1>0, <1>4 DEF TypeOK, Purge
  <2> QED BY <1>0, <2>1 DEF PurgeInv
<1>5. \/ Greet
      \/ \E w \in Workers : Add(w) \/ Delete(w)
      \/ \E t \in Threads : Purge(t)
      \/ UNCHANGED balls
  BY DEF Next, vars, ClientStep, Connect, SendCommand, TypeExit, SendLastExit, Finish,
         Crash, MainStep, EpollWait, Accept, AcceptNone, Receive, Disconnect, Push,
         WorkerStep, Pop, Reject, Exit, Threads
<1>6. ~ UNCHANGED balls
  BY <1>0
<1> QED BY <1>1, <1>2, <1>3, <1>4, <1>5, <1>6

\* And only such a one loses balls, while it plays, but by its own commands (main.c
\* 122-157, server.c 203-240).
THEOREM BallsAreKept == Spec => KeepsItsBalls
<1>1. IInv /\ [Next]_vars =>
        [\A fd \in Fds :
           peer[fd] # Nobody /\ phase[peer[fd]] = "on" /\ peer[fd] \notin heirs
             /\ Len(balls'[fd]) < Len(balls[fd])
           => \E w \in Workers : Deletes(w, peer[fd])]_vars
  BY StepKeepsBalls
<1> QED BY <1>1, Invariant, PTL DEF Spec, KeepsItsBalls
=============================================================================
