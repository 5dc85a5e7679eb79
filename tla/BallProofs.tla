------------------------------ MODULE BallProofs ------------------------------
(***************************************************************************)
(* What TLAPS proves of one ball on the field (BallMotion, for every field,*)
(* MAX_SPEED and radius) and of the balls on their way to the screens      *)
(* (BallStream, for all clients, workers, buffers and numbers of balls).   *)
(* The two specifications share no variable and no name.                   *)
(***************************************************************************)
EXTENDS BallMotion, BallStream, SequenceLemmas, TLAPS

(***************************************************************************)
(* The motion of a ball: one axis                                          *)
(***************************************************************************)
LEMMA LandingInField ==
  ASSUME NEW p \in Int, NEW v \in Int, radius \in Int, Field \in Int,
         radius <= p, p < Field - radius
  PROVE  radius <= Landing(p, v) /\ Landing(p, v) < Field - radius
BY DEF Landing, HitsWall

LEMMA ReboundSpeed ==
  ASSUME NEW p \in Int, NEW v \in Int, radius \in Int, Field \in Int
  PROVE  /\ Rebound(p, v) \in Int /\ Abs(Rebound(p, v)) = Abs(v)
         /\ Landing(p, v) \in Int
BY DEF Rebound, Landing, Abs

LEMMA ReboundNotStopped ==
  ASSUME NEW p, NEW v \in Int, v # 0
  PROVE  Rebound(p, v) # 0
BY DEF Rebound

\* Both commands act on the magnitude of a velocity alone, and keep it from
\* being 0 and within twice MaxSpeed.
LEMMA DoubledSpeed ==
  ASSUME NEW v \in Int, v # 0, Abs(v) <= 2 * MaxSpeed
  PROVE  /\ Doubled(v) \in Int
         /\ Abs(Doubled(v)) = (IF Abs(v) > MaxSpeed THEN MaxSpeed ELSE Abs(v) * 2)
         /\ Doubled(v) # 0 /\ Abs(Doubled(v)) <= 2 * MaxSpeed
BY SpeedAssumption DEF Doubled, Abs, StartSpeed

LEMMA HalvedSpeed ==
  ASSUME NEW v \in Int, v # 0, Abs(v) <= 2 * MaxSpeed
  PROVE  /\ Halved(v) \in Int
         /\ Abs(Halved(v)) = (IF Abs(v) > 1 THEN Abs(v) \div 2 ELSE 1)
         /\ Halved(v) # 0 /\ Abs(Halved(v)) <= 2 * MaxSpeed
BY SpeedAssumption DEF Halved, Abs, StartSpeed

(***************************************************************************)
(* The motion of a ball: the invariant                                     *)
(***************************************************************************)
MotionInv == MotionTypeOK /\ InField /\ EqualSpeeds

LEMMA SpeedRange ==
  ASSUME NEW v \in Int
  PROVE  v \in -2 * MaxSpeed .. 2 * MaxSpeed <=> Abs(v) <= 2 * MaxSpeed
BY SpeedAssumption DEF Abs

LEMMA MotionInitInv == MotionInit => MotionInv
<1> SUFFICES ASSUME MotionInit PROVE MotionInv
  OBVIOUS
<1>1. radius \in Int /\ Field \in Nat /\ 2 * radius # Field
  BY FieldAssumption DEF MotionInit
<1>2. \A p \in StartPositions(radius) :
        p \in Int /\ (2 * radius < Field => radius <= p /\ p < Field - radius)
  BY <1>1 DEF StartPositions, Abs
<1> QED
  BY <1>1, <1>2, SpeedAssumption DEF MotionInit, MotionInv, MotionTypeOK, InField, EqualSpeeds, Abs, StartSpeed

LEMMA MotionNextInv == MotionInv /\ [MotionNext]_motionVars => MotionInv'
<1> SUFFICES ASSUME MotionInv, [MotionNext]_motionVars PROVE MotionInv'
  OBVIOUS
<1>1. /\ radius \in Int /\ Field \in Int /\ x \in Int /\ y \in Int /\ dx \in Int /\ dy \in Int
      /\ dx # 0 /\ dy # 0 /\ Abs(dx) = Abs(dy)
      /\ Abs(dx) <= 2 * MaxSpeed /\ Abs(dy) <= 2 * MaxSpeed
  BY FieldAssumption, SpeedAssumption, SpeedRange DEF MotionInv, MotionTypeOK, EqualSpeeds, Abs
<1>2. ASSUME dx' \in Int, dy' \in Int, dx' # 0, Abs(dx') = Abs(dy'),
             Abs(dx') <= 2 * MaxSpeed, x' \in Int, y' \in Int, radius' = radius, InField'
      PROVE  MotionInv'
  BY <1>2, SpeedRange DEF MotionInv, MotionTypeOK, EqualSpeeds
<1>3. CASE Move
  <2>1. /\ dx' \in Int /\ dy' \in Int /\ x' \in Int /\ y' \in Int
        /\ Abs(dx') = Abs(dx) /\ Abs(dy') = Abs(dy) /\ radius' = radius
    BY <1>1, <1>3, ReboundSpeed DEF Move
  <2>2. dx' # 0
    BY <1>1, <1>3, ReboundNotStopped DEF Move
  <2>3. InField'
    BY <1>1, <1>3, LandingInField DEF Move, MotionInv, InField
  <2> QED BY <1>1, <1>2, <2>1, <2>2, <2>3
<1>4. CASE SpeedUp
  <2>1. InField'
    BY <1>4 DEF SpeedUp, MotionInv, InField
  <2> QED BY <1>1, <1>2, <1>4, <2>1, DoubledSpeed DEF SpeedUp
<1>5. CASE SpeedDown
  <2>1. InField'
    BY <1>5 DEF SpeedDown, MotionInv, InField
  <2> QED BY <1>1, <1>2, <1>5, <2>1, HalvedSpeed DEF SpeedDown
<1>6. CASE UNCHANGED motionVars
  BY <1>6 DEF motionVars, MotionInv, MotionTypeOK, InField, EqualSpeeds
<1> QED BY <1>3, <1>4, <1>5, <1>6 DEF MotionNext

(***************************************************************************)
(* The motion of a ball: the theorems                                      *)
(***************************************************************************)
\* Velocities stay within twice MAX_SPEED: the clamp before the doubling.
THEOREM MotionTypeCorrect == MotionSpec => []MotionTypeOK
<1>1. MotionInv => MotionTypeOK
  BY DEF MotionInv
<1> QED BY MotionInitInv, MotionNextInv, <1>1, PTL DEF MotionSpec

\* A ball that fits on the field never leaves it, at any speed.
THEOREM StaysInField == MotionSpec => []InField
<1>1. MotionInv => InField
  BY DEF MotionInv
<1> QED BY MotionInitInv, MotionNextInv, <1>1, PTL DEF MotionSpec

\* A ball never stops and keeps the same speed on both axes.
THEOREM SpeedsAgree == MotionSpec => []EqualSpeeds
<1>1. MotionInv => EqualSpeeds
  BY DEF MotionInv
<1> QED BY MotionInitInv, MotionNextInv, <1>1, PTL DEF MotionSpec

LEMMA NextFrameLeaves ==
  ASSUME NEW p \in Int, NEW v \in Int, radius \in Int, Field \in Int,
         v # 0, radius <= p, p < Field - radius,
         Landing(p, v) = p, 2 * Abs(v) < Field - 2 * radius
  PROVE  Landing(p, Rebound(p, v)) # p
BY DEF Landing, Rebound, HitsWall, Abs

\* A bounce costs one frame at most, for every radius and speed below half
\* the free width.
THEOREM OneFrame == MotionSpec => BounceCostsOneFrame
<1> DEFINE A == /\ Move /\ x' = x /\ 2 * Abs(dx) < Field - 2 * radius => Landing(x', dx') # x'
                /\ Move /\ y' = y /\ 2 * Abs(dy) < Field - 2 * radius => Landing(y', dy') # y'
<1>1. ASSUME MotionInv PROVE A
  <2>1. /\ radius \in Int /\ Field \in Int /\ x \in Int /\ y \in Int /\ dx \in Int /\ dy \in Int
        /\ dx # 0 /\ dy # 0
    BY <1>1, FieldAssumption, SpeedAssumption DEF MotionInv, MotionTypeOK, EqualSpeeds, Abs
  <2>2. ASSUME 2 * Abs(dx) < Field - 2 * radius \/ 2 * Abs(dy) < Field - 2 * radius
        PROVE  /\ radius <= x /\ x < Field - radius
               /\ radius <= y /\ y < Field - radius
    <3>1. 2 * radius < Field
      BY <2>1, <2>2 DEF Abs
    <3> QED BY <1>1, <3>1 DEF MotionInv, InField
  <2>3. ASSUME Move, x' = x, 2 * Abs(dx) < Field - 2 * radius PROVE Landing(x', dx') # x'
    BY <2>1, <2>2, <2>3, NextFrameLeaves DEF Move
  <2>4. ASSUME Move, y' = y, 2 * Abs(dy) < Field - 2 * radius PROVE Landing(y', dy') # y'
    BY <2>1, <2>2, <2>4, NextFrameLeaves DEF Move
  <2> QED BY <2>3, <2>4
<1>2. MotionInv /\ [MotionNext]_motionVars => [A]_motionVars
  BY <1>1
<1> QED BY MotionInitInv, MotionNextInv, <1>2, PTL DEF MotionSpec, BounceCostsOneFrame

(***************************************************************************)
(* The broadcast: what the operators on frames and streams return          *)
(***************************************************************************)
LEMMA SerializeIsPieces ==
  ASSUME NEW s \in Seq(Balls)
  PROVE  Serialize(s) \in Seq(Pieces)
<1> DEFINE ss == [i \in 1 .. Len(s) |-> <<First(s[i]), Second(s[i])>>]
<1>1. \A b \in Balls : <<First(b), Second(b)>> \in Seq(Pieces)
  BY DEF First, Second, Pieces
<1>2. Len(s) \in Nat /\ \A i \in 1 .. Len(s) : s[i] \in Balls
  OBVIOUS
<1>3. ss \in Seq(Seq(Pieces))
  BY <1>1, <1>2
<1>4. Serialize(s) = Ext!FlattenSeq(ss)
  BY Zenon DEF Serialize, FlattenSeq, Ext!FlattenSeq
<1> HIDE DEF ss
<1> QED BY <1>3, <1>4, FlattenLayout

LEMMA BallsOfIsBalls ==
  ASSUME NEW c, balls \in Seq(Balls)
  PROVE  BallsOf(c) \in Seq(Balls)
<1> DEFINE ss == [i \in 1 .. Len(balls) |-> IF balls[i].owner = c THEN <<balls[i]>> ELSE << >>]
<1>1. Len(balls) \in Nat /\ \A i \in 1 .. Len(balls) : balls[i] \in Balls
  OBVIOUS
<1>2. \A b \in Balls : <<b>> \in Seq(Balls)
  OBVIOUS
<1>3. << >> \in Seq(Balls)
  OBVIOUS
<1>4. ss \in Seq(Seq(Balls))
  <2> HIDE DEF Balls
  <2> QED BY <1>1, <1>2, <1>3
<1>5. BallsOf(c) = Ext!FlattenSeq(ss)
  BY Zenon DEF BallsOf, FlattenSeq, Ext!FlattenSeq
<1> HIDE DEF ss
<1> QED BY <1>4, <1>5, FlattenLayout

LEMMA MaxExists ==
  ASSUME NEW n \in Nat, NEW S \in SUBSET (0 .. n), S # {}
  PROVE  Max(S) \in S /\ \A m \in S : Max(S) >= m
<1> DEFINE T == {n - m : m \in S}
<1>1. T \in SUBSET Nat /\ T # {}
  OBVIOUS
<1>2. PICK t \in T : \A u \in T : t <= u
  BY <1>1, Least
<1>3. PICK s \in S : t = n - s
  OBVIOUS
<1>4. \A m \in S : s >= m
  <2> SUFFICES ASSUME NEW m \in S
               PROVE  s >= m
    OBVIOUS
  <2>1. n - m \in T
    OBVIOUS
  <2>2. t <= n - m
    BY <1>2, <2>1
  <2> HIDE DEF T
  <2> QED BY <1>3, <2>2
<1> HIDE DEF T
<1>5. \E k \in S : \A m \in S : k >= m
  BY <1>4
<1> QED BY <1>5, Zenon DEF Max

LEMMA EndBeforeRange ==
  ASSUME NEW chunk, NEW i \in Nat \ {0}
  PROVE  EndBefore(chunk, i) \in 0 .. i - 1
<1> DEFINE S == {0} \cup {j \in 1 .. i - 1 : EndsToken(chunk[j])}
<1>1. i - 1 \in Nat /\ S \in SUBSET (0 .. i - 1) /\ S # {}
  OBVIOUS
<1>2. EndBefore(chunk, i) = Max(S)
  BY DEF EndBefore
<1> HIDE DEF S
<1> QED BY <1>1, <1>2, MaxExists

LEMMA TokensArePieces ==
  ASSUME NEW chunk \in Seq(Pieces)
  PROVE  Tokens(chunk) \in Seq(Seq(Pieces))
<1> DEFINE tok(i) == IF EndsToken(chunk[i]) \/ i = Len(chunk)
                       THEN <<SubSeq(chunk, EndBefore(chunk, i) + 1, i)>> ELSE << >>
           ss == [i \in 1 .. Len(chunk) |-> tok(i)]
<1>0. Len(chunk) \in Nat
  OBVIOUS
<1>1. ASSUME NEW i \in 1 .. Len(chunk)
      PROVE  tok(i) \in Seq(Seq(Pieces))
  <2>1. EndBefore(chunk, i) \in 0 .. i - 1
    BY EndBeforeRange
  <2>2. SubSeq(chunk, EndBefore(chunk, i) + 1, i) \in Seq(Pieces)
    <3> HIDE DEF Pieces
    <3> QED BY <2>1
  <2>3. \A t \in Seq(Pieces) : <<t>> \in Seq(Seq(Pieces))
    OBVIOUS
  <2>4. << >> \in Seq(Seq(Pieces))
    OBVIOUS
  <2> QED BY <2>2, <2>3, <2>4
<1>2. Tokens(chunk) = Ext!FlattenSeq(ss)
  BY Zenon DEF Tokens, FlattenSeq, Ext!FlattenSeq
<1> HIDE DEF tok
<1>3. ss \in Seq(Seq(Seq(Pieces)))
  BY <1>0, <1>1
<1> HIDE DEF ss
<1> QED BY <1>2, <1>3, FlattenLayout

\* Whatever is read, a token becomes a ball that some frame had, or Garbage.
LEMMA ParsedIsBalls ==
  ASSUME NEW chunk \in Seq(Pieces)
  PROVE  Parsed(chunk) \in Seq(Balls \cup {Garbage})
<1> DEFINE tokens == Tokens(chunk)
<1>1. tokens \in Seq(Seq(Pieces))
  BY TokensArePieces
<1>2. ASSUME NEW token \in Seq(Pieces)
      PROVE  Scanned(token) \in Balls \cup {Garbage}
  <2>1. CASE Len(token) = 2 /\ token[1] # Reply
    <3>1. token[1] \in Balls \X {1, 2}
      <4>1. 1 \in 1 .. Len(token) /\ Len(token) \in Nat
        BY <2>1
      <4>2. \A i \in 1 .. Len(token) : token[i] \in Pieces
        OBVIOUS
      <4>3. token[1] \in Pieces
        BY <4>1, <4>2
      <4> QED BY <2>1, <4>3 DEF Pieces
    <3>2. token[1][1] \in Balls
      BY <3>1
    <3> QED BY <3>2 DEF Scanned
  <2>2. CASE ~(Len(token) = 2 /\ token[1] # Reply)
    BY <2>2 DEF Scanned
  <2> QED BY <2>1, <2>2
<1> HIDE DEF tokens
<1>3. [i \in 1 .. Len(tokens) |-> Scanned(tokens[i])] \in Seq(Balls \cup {Garbage})
  <2>1. Len(tokens) \in Nat /\ \A i \in 1 .. Len(tokens) : tokens[i] \in Seq(Pieces)
    BY <1>1
  <2> QED BY <1>2, <2>1
<1> QED BY <1>3 DEF Parsed, tokens

(***************************************************************************)
(* The broadcast: the invariant.  Beyond the properties, the types of the  *)
(* variables, and the bound on the balls that keeps room for the first     *)
(* balls of the client that is joining.                                    *)
(***************************************************************************)
Jobs == [at : {"rest", "reply", "serialize", "send"}, client : Clients \cup {Nobody},
         cursor : Nat, own : Seq(Balls)]

StreamTypes ==
  /\ cycle \in [cursor : Nat, frame : Seq(Balls)]
  /\ job \in [Workers -> Jobs]
  /\ stream \in [Clients -> Seq(Pieces)]
  /\ shown \in [Clients -> Seq(Balls \cup {Garbage})]

\* A worker that is busy leads to clients of the list.
Leads(w) ==
  /\ At(w, "reply") => job[w].client \in ToSet(clients)
  /\ At(w, "serialize") \/ At(w, "send") => job[w].cursor \in 1 .. Len(clients)

StreamInv == TypeOK /\ FrameIsCurrent /\ StreamTypes /\ made + Due <= MaxBalls

LEMMA RestJobIs ==
  /\ Rest \in Jobs
  /\ Rest.at = "rest" /\ Rest.client = Nobody /\ Rest.cursor = 0
<1>1. << >> \in Seq(Balls)
  OBVIOUS
<1> QED BY <1>1 DEF Rest, Jobs

LEMMA StreamInitInv == Init => StreamInv
<1> SUFFICES ASSUME Init PROVE StreamInv
  OBVIOUS
<1>1. /\ << >> \in Seq(Balls) /\ << >> \in Seq(Clients) /\ << >> \in Seq(Pieces)
      /\ << >> \in Seq(Balls \cup {Garbage}) /\ Len(<< >>) = 0
  OBVIOUS
<1>2. StreamTypes
  BY <1>1, RestJobIs DEF Init, StreamTypes
<1>3. \A w \in Workers : job[w].at = "rest"
  BY RestJobIs DEF Init
<1>4. \A c \in Clients : Len(stream[c]) <= Buffer[c]
  BY <1>1, StreamAssumption DEF Init
<1>5. TypeOK
  <2>1. /\ clients \in Seq(Clients) /\ joining \in Clients \cup {Nobody}
        /\ balls \in Seq(Balls) /\ made \in 0 .. MaxBalls /\ locked \in BOOLEAN
        /\ cycle.cursor \in IF locked THEN 1 .. Len(clients) ELSE {0}
    <3>1. made = 0 /\ 0 \in 0 .. MaxBalls
      BY StreamAssumption DEF Init
    <3>2. locked = FALSE /\ cycle.cursor = 0
      BY DEF Init
    <3>3. joining \in Clients \cup {Nobody} /\ clients \in Seq(Clients) /\ balls \in Seq(Balls)
      BY <1>1 DEF Init
    <3> QED BY <3>1, <3>2, <3>3
  <2>2. \A w \in Workers : ~At(w, "reply") /\ ~At(w, "serialize") /\ ~At(w, "send")
    BY <1>3 DEF At
  <2> QED BY <1>2, <1>4, <2>1, <2>2 DEF TypeOK, StreamTypes, Jobs
<1>6. made + Due <= MaxBalls
  BY StreamAssumption DEF Init, Due
<1> QED BY <1>2, <1>5, <1>6 DEF StreamInv, FrameIsCurrent, Init

\* A write adds what fits.
LEMMA PutKeeps ==
  ASSUME StreamInv, NEW c \in Clients, NEW pieces \in Seq(Pieces), Put(c, pieces)
  PROVE  /\ stream' \in [Clients -> Seq(Pieces)]
         /\ \A d \in Clients : Len(stream'[d]) <= Buffer[d]
<1> DEFINE space == Buffer[c] - Len(stream[c])
           sent  == IF Len(pieces) <= space THEN Len(pieces) ELSE space
<1>1. /\ stream \in [Clients -> Seq(Pieces)] /\ Buffer[c] \in Nat
      /\ \A d \in Clients : stream[d] \in Seq(Pieces) /\ Len(stream[d]) <= Buffer[d]
  BY StreamAssumption DEF StreamInv, StreamTypes, TypeOK
<1>2. stream' = [stream EXCEPT ![c] = @ \o SubSeq(pieces, 1, sent)]
  BY DEF Put
<1> HIDE DEF Pieces
<1>3. sent \in 0 .. Len(pieces) /\ sent <= space
  BY <1>1
<1> HIDE DEF sent
<1>4. SubSeq(pieces, 1, sent) \in Seq(Pieces) /\ Len(SubSeq(pieces, 1, sent)) = sent
  BY <1>3
<1>5. /\ stream[c] \o SubSeq(pieces, 1, sent) \in Seq(Pieces)
      /\ Len(stream[c] \o SubSeq(pieces, 1, sent)) = Len(stream[c]) + sent
  BY <1>1, <1>4
<1>6. Len(stream[c]) + sent <= Buffer[c]
  <2>1. Len(stream[c]) \in Nat /\ sent \in Nat
    BY <1>1, <1>3
  <2> QED BY <1>1, <1>3, <2>1
<1> QED BY <1>1, <1>2, <1>5, <1>6

LEMMA DeleteIsBalls ==
  ASSUME NEW c, balls \in Seq(Balls)
  PROVE  Delete(c) \in Seq(Balls)
<1> DEFINE mine == {i \in 1 .. Len(balls) : balls[i].owner = c}
<1>1. CASE mine = {}
  BY <1>1 DEF Delete
<1>2. CASE mine # {}
  <2>1. Len(balls) \in Nat /\ mine \in SUBSET (0 .. Len(balls))
    OBVIOUS
  <2>2. Max(mine) \in mine /\ \A j \in mine : Max(mine) >= j
    BY <1>2, <2>1, MaxExists
  <2> DEFINE i == CHOOSE i \in mine : \A j \in mine : j <= i
  <2>3. i \in 1 .. Len(balls)
    <3>1. \E k \in mine : \A j \in mine : j <= k
      BY <2>2
    <3>2. i \in mine
      <4> HIDE DEF mine
      <4> QED BY <3>1
    <3> HIDE DEF i
    <3> QED BY <3>2
  <2>4. Delete(c) = SubSeq(balls, 1, i - 1) \o SubSeq(balls, i + 1, Len(balls))
    BY <1>2, Zenon DEF Delete, RemoveAt
  <2> HIDE DEF i, mine, Balls
  <2>5. /\ i - 1 \in 0 .. Len(balls) /\ SubSeq(balls, 1, i - 1) \in Seq(Balls)
        /\ SubSeq(balls, i + 1, Len(balls)) \in Seq(Balls)
    BY <2>1, <2>3
  <2> QED BY <2>4, <2>5
<1> QED BY <1>1, <1>2

LEMMA NewBallsAreBalls ==
  ASSUME NEW c \in Clients, NEW n \in Nat, made \in Nat, made + n <= MaxBalls
  PROVE  NewBalls(c, n) \in Seq(Balls)
<1>1. MaxBalls \in Nat
  BY StreamAssumption
<1>2. \A i \in 1 .. n : [owner |-> c, num |-> made + i] \in Balls
  BY <1>1 DEF Balls
<1> HIDE DEF Balls
<1> QED BY <1>2 DEF NewBalls

LEMMA StreamNextInv == StreamInv /\ [Next]_vars => StreamInv'
<1> SUFFICES ASSUME StreamInv, [Next]_vars PROVE StreamInv'
  OBVIOUS
<1>1. /\ TypeOK /\ FrameIsCurrent /\ StreamTypes /\ made + Due <= MaxBalls
      /\ made \in 0 .. MaxBalls /\ MaxBalls \in Nat /\ StartBallCount \in Nat \ {0}
      /\ Nobody \notin Clients
      /\ Len(clients) \in Nat
  BY StreamAssumption DEF StreamInv, TypeOK
<1>2. /\ clients \in Seq(Clients) /\ joining \in Clients \cup {Nobody}
      /\ balls \in Seq(Balls) /\ locked \in BOOLEAN
      /\ cycle.frame \in Seq(Balls)
      /\ cycle.cursor \in IF locked THEN 1 .. Len(clients) ELSE {0}
      /\ \A w \in Workers : Leads(w)
      /\ \A c \in Clients : Len(stream[c]) <= Buffer[c]
  BY <1>1 DEF TypeOK, Leads
<1>3. ToSet(clients) \subseteq Clients
  BY <1>2 DEF ToSet
\* TypeOK without what StreamTypes implies.
<1>4. ASSUME StreamTypes',
              clients' \in Seq(Clients), joining' \in Clients \cup {Nobody},
              balls' \in Seq(Balls), made' \in 0 .. MaxBalls, locked' \in BOOLEAN,
              cycle'.cursor \in IF locked' THEN 1 .. Len(clients') ELSE {0},
              \A w \in Workers : Leads(w)',
              \A c \in Clients : Len(stream'[c]) <= Buffer[c]
       PROVE  TypeOK'
  BY <1>4 DEF StreamTypes, TypeOK, Jobs, Leads
<1>5. CASE \E c \in Clients : Connect(c)
  <2>1. PICK c \in Clients : Connect(c)
    BY <1>5
  <2>2. /\ clients' = Append(clients, c) /\ joining' = c /\ made + StartBallCount <= MaxBalls
        /\ UNCHANGED <<balls, made, locked, cycle, job, stream, shown>>
    BY <2>1 DEF Connect
  <2>3. clients' \in Seq(Clients) /\ Len(clients') = Len(clients) + 1
    BY <1>2, <2>2
  <2>4. ToSet(clients) \subseteq ToSet(clients')
    <3>1. \A i \in DOMAIN clients : i \in DOMAIN clients' /\ clients'[i] = clients[i]
      BY <1>2, <2>2
    <3> QED BY <3>1 DEF ToSet
  <2>5. 1 .. Len(clients) \subseteq 1 .. Len(clients')
    BY <1>1, <2>3
  <2>6. StreamTypes'
    BY <1>1, <2>2 DEF StreamTypes
  <2>7. \A w \in Workers : Leads(w)'
    BY <1>2, <2>2, <2>4, <2>5 DEF At, Leads
  <2>8. cycle'.cursor \in IF locked' THEN 1 .. Len(clients') ELSE {0}
    BY <1>2, <2>2, <2>5
  <2>9. TypeOK'
    BY <1>1, <1>2, <2>2, <2>3, <2>6, <2>7, <2>8, <1>4
  <2>10. FrameIsCurrent' /\ made' + Due' <= MaxBalls
    BY <1>1, <2>2 DEF FrameIsCurrent, Due
  <2> QED BY <2>6, <2>9, <2>10 DEF StreamInv
\* The steps that change balls need mutex_ball.
<1>6. ASSUME UNCHANGED <<clients, locked, cycle, stream, shown>>, ~locked,
             joining' \in Clients \cup {Nobody}, balls' \in Seq(Balls), made' \in Nat,
             made' + Due' <= MaxBalls,
             \/ UNCHANGED job
             \/ \E w \in Workers, c \in ToSet(clients) :
                  Become(w, [Rest EXCEPT !.at = "reply", !.client = c])
      PROVE  StreamInv'
  <2>1. StreamTypes' /\ \A w \in Workers : Leads(w)'
    <3>1. CASE UNCHANGED job
      BY <1>1, <1>2, <1>6, <3>1 DEF StreamTypes, At, Leads
    <3>2. ASSUME NEW w \in Workers, NEW c \in ToSet(clients),
                 Become(w, [Rest EXCEPT !.at = "reply", !.client = c])
          PROVE  StreamTypes' /\ \A v \in Workers : Leads(v)'
      <4> DEFINE j == [Rest EXCEPT !.at = "reply", !.client = c]
      <4>1. j \in Jobs /\ j.at = "reply" /\ j.client = c
        BY <1>3, RestJobIs DEF Jobs
      <4> HIDE DEF j
      <4>2. job' = [job EXCEPT ![w] = j]
        BY <3>2 DEF Become, j
      <4>3. StreamTypes'
        BY <1>1, <1>6, <4>1, <4>2 DEF StreamTypes
      <4>4. ASSUME NEW v \in Workers
            PROVE  Leads(v)'
        <5>1. CASE v = w
          BY <1>1, <1>6, <4>1, <4>2, <5>1 DEF StreamTypes, At, Leads
        <5>2. CASE v # w
          BY <1>1, <1>2, <1>6, <4>2, <5>2 DEF StreamTypes, At, Leads
        <5> QED BY <5>1, <5>2
      <4> QED BY <4>3, <4>4
    <3> QED BY <1>6, <3>1, <3>2
  <2>2. Due' \in Nat
    BY <1>1 DEF Due
  <2>3. made' \in 0 .. MaxBalls
    <3>1. \A m, d \in Nat : m + d <= MaxBalls => m \in 0 .. MaxBalls
      BY <1>1
    <3> QED BY <1>6, <2>2, <3>1
  <2>4. TypeOK'
    BY <1>2, <1>6, <2>1, <2>3, <1>4
  <2> QED BY <1>6, <2>1, <2>4 DEF StreamInv, FrameIsCurrent

\* What a worker may become.
<1>7. ASSUME UNCHANGED <<server, locked, cycle, shown>>, NEW w \in Workers,
             stream' \in [Clients -> Seq(Pieces)],
             \A c \in Clients : Len(stream'[c]) <= Buffer[c],
             NEW j \in Jobs, j.at # "reply",
             j.at # "rest" => j.cursor \in 1 .. Len(clients),
             Become(w, j)
      PROVE  StreamInv'
  <2>1. job' = [job EXCEPT ![w] = j]
    BY <1>7 DEF Become
  <2>2. StreamTypes'
    BY <1>1, <1>7, <2>1 DEF StreamTypes, server
  <2>3. \A v \in Workers : Leads(v)'
    <3> SUFFICES ASSUME NEW v \in Workers
                 PROVE  Leads(v)'
      OBVIOUS
    <3>1. clients' = clients
      BY <1>7 DEF server
    <3>2. CASE v = w
      <4>1. job'[v] = j
        BY <1>1, <2>1, <3>2 DEF StreamTypes
      <4> QED BY <1>7, <3>1, <4>1 DEF At, Leads
    <3>3. CASE v # w
      <4>1. job'[v] = job[v]
        BY <1>1, <2>1, <3>3 DEF StreamTypes
      <4> QED BY <1>2, <3>1, <4>1 DEF At, Leads
    <3> QED BY <3>2, <3>3
  <2>4. TypeOK'
    BY <1>1, <1>2, <1>7, <2>2, <2>3, <1>4 DEF server
  <2>5. FrameIsCurrent' /\ made' + Due' <= MaxBalls
    BY <1>1, <1>7 DEF FrameIsCurrent, Due, server
  <2> QED BY <2>2, <2>4, <2>5 DEF StreamInv
<1>8. ASSUME UNCHANGED <<server, locked, cycle, shown>>, NEW w \in Workers,
             stream' \in [Clients -> Seq(Pieces)],
             \A c \in Clients : Len(stream'[c]) <= Buffer[c],
             job[w].cursor \in 1 .. Len(clients), NextClient(w)
      PROVE  StreamInv'
  <2> DEFINE j == IF job[w].cursor = Len(clients) THEN Rest
                  ELSE [Rest EXCEPT !.at = "serialize", !.cursor = job[w].cursor + 1]
  <2>1. j \in Jobs /\ j.at # "reply"
    <3>1. CASE job[w].cursor = Len(clients)
      BY <3>1, RestJobIs
    <3>2. CASE job[w].cursor # Len(clients)
      <4>1. job[w].cursor + 1 \in Nat
        BY <1>1, <1>8
      <4> QED BY <3>2, <4>1, RestJobIs DEF Jobs
    <3> QED BY <3>1, <3>2
  <2>2. j.at # "rest" => j.cursor \in 1 .. Len(clients)
    <3>1. CASE job[w].cursor = Len(clients)
      BY <3>1, RestJobIs
    <3>2. CASE job[w].cursor # Len(clients)
      <4>1. job[w].cursor + 1 \in 1 .. Len(clients)
        BY <1>1, <1>8, <3>2
      <4>2. j.cursor = job[w].cursor + 1
        BY <3>2, RestJobIs DEF Jobs
      <4> QED BY <4>1, <4>2
    <3> QED BY <3>1, <3>2
  <2>3. Become(w, j)
    BY <1>8 DEF NextClient
  <2> HIDE DEF j
  <2> QED BY <1>7, <1>8, <2>1, <2>2, <2>3
<1>9. CASE FirstBalls
  <2>1. /\ joining \in Clients /\ Due = StartBallCount /\ Due' = 0
        /\ made' = made + StartBallCount
    BY <1>1, <1>2, <1>9 DEF FirstBalls, Due
  <2>2. NewBalls(joining, StartBallCount) \in Seq(Balls)
    BY <1>1, <2>1, NewBallsAreBalls
  <2>3. balls' \in Seq(Balls)
    <3> HIDE DEF Balls
    <3> QED BY <1>2, <1>9, <2>2 DEF FirstBalls
  <2> QED BY <1>1, <1>6, <1>9, <2>1, <2>3 DEF FirstBalls
<1>10. ASSUME NEW w \in Workers, NEW c \in Clients, Execute(w, c)
      PROVE  StreamInv'
  <2>1. /\ c \in ToSet(clients) /\ ~locked
        /\ Become(w, [Rest EXCEPT !.at = "reply", !.client = c])
        /\ UNCHANGED <<clients, joining, locked, cycle, stream, shown>>
    BY <1>10 DEF Execute
  <2>2. balls' \in Seq(Balls) /\ made' \in Nat /\ made' + Due' <= MaxBalls
    <3>0. Due' = Due /\ Due \in Nat
      BY <1>1, <2>1 DEF Due
    <3>1. CASE made + Due < MaxBalls /\ balls' = balls \o NewBalls(c, 1) /\ made' = made + 1
      <4>1. NewBalls(c, 1) \in Seq(Balls)
        BY <1>1, <3>0, <3>1, NewBallsAreBalls
      <4>2. balls' \in Seq(Balls)
        BY <1>2, <3>1, <4>1
      <4> QED BY <1>1, <3>0, <3>1, <4>2
    <3>2. CASE balls' = Delete(c) /\ UNCHANGED made
      BY <1>1, <1>2, <3>0, <3>2, DeleteIsBalls
    <3>3. CASE UNCHANGED <<balls, made>>
      BY <1>1, <1>2, <3>0, <3>3
    <3> QED BY <1>10, <3>1, <3>2, <3>3 DEF Execute
  <2> QED BY <1>2, <1>6, <2>1, <2>2
<1>11. ASSUME NEW w \in Workers, NEW c \in Clients, Reject(w, c)
       PROVE  StreamInv'
  <2>1. /\ stream' \in [Clients -> Seq(Pieces)]
        /\ \A d \in Clients : Len(stream'[d]) <= Buffer[d]
    <3>1. <<Reply>> \in Seq(Pieces)
      BY DEF Pieces
    <3> QED BY <1>11, <3>1, PutKeeps DEF Reject
  <2>2. UNCHANGED <<clients, joining, balls, made, locked, cycle, job, shown>>
    BY <1>11 DEF Reject, server
  <2>3. StreamTypes'
    BY <1>1, <2>1, <2>2 DEF StreamTypes
  <2>4. TypeOK'
    BY <1>1, <1>2, <2>1, <2>2, <2>3, <1>4 DEF At, Leads
  <2> QED BY <1>1, <2>2, <2>3, <2>4 DEF StreamInv, FrameIsCurrent, Due
<1>12. ASSUME NEW w \in Workers, ReplyTo(w)
       PROVE  StreamInv'
  <2>1. job[w].client \in ToSet(clients)
    BY <1>2, <1>12 DEF ReplyTo, Leads
  <2>2. /\ stream' \in [Clients -> Seq(Pieces)]
        /\ \A d \in Clients : Len(stream'[d]) <= Buffer[d]
    <3>1. <<Reply>> \in Seq(Pieces)
      BY DEF Pieces
    <3> QED BY <1>3, <1>12, <2>1, <3>1, PutKeeps DEF ReplyTo
  <2> DEFINE j == [Rest EXCEPT !.at = "serialize", !.cursor = 1]
  <2>3. Become(w, j)
    BY <1>12 DEF ReplyTo
  <2>4. 1 \in 1 .. Len(clients)
    BY <1>1, <1>2, <2>1 DEF ToSet
  <2>5. UNCHANGED <<server, locked, cycle, shown>>
    BY <1>12 DEF ReplyTo
  <2>6. j \in Jobs /\ j.at # "reply" /\ j.cursor = 1
    BY RestJobIs DEF Jobs
  <2> HIDE DEF j
  <2> QED BY <1>7, <2>2, <2>3, <2>4, <2>5, <2>6
<1>13. ASSUME NEW w \in Workers, SerializeOwn(w)
       PROVE  StreamInv'
  <2>1. /\ job[w].cursor \in 1 .. Len(clients) /\ UNCHANGED <<server, locked, cycle, stream, shown>>
    BY <1>2, <1>13 DEF SerializeOwn, Leads
  <2>2. /\ stream' \in [Clients -> Seq(Pieces)]
        /\ \A d \in Clients : Len(stream'[d]) <= Buffer[d]
    BY <1>1, <1>2, <2>1 DEF StreamTypes
  <2> DEFINE own == BallsOf(clients[job[w].cursor])
  <2>3. own \in Seq(Balls)
    BY <1>2, BallsOfIsBalls
  <2>4. CASE NextClient(w)
    BY <1>8, <2>1, <2>2, <2>4
  <2>5. CASE Become(w, [job[w] EXCEPT !.at = "send", !.own = own])
    <3> HIDE DEF own
    <3>1. job[w] \in Jobs
      BY <1>1 DEF StreamTypes
    <3> DEFINE j == [job[w] EXCEPT !.at = "send", !.own = own]
    <3>2. j \in Jobs /\ j.at # "reply"
      BY <2>3, <3>1 DEF Jobs
    <3>3. j.cursor = job[w].cursor
      BY <3>1 DEF Jobs
    <3>4. Become(w, j)
      BY <2>5
    <3> HIDE DEF j
    <3> QED BY <1>7, <2>1, <2>2, <3>2, <3>3, <3>4
  <2> QED BY <1>13, <2>4, <2>5 DEF SerializeOwn
<1>14. ASSUME NEW w \in Workers, SendOwn(w)
       PROVE  StreamInv'
  <2>1. /\ job[w].cursor \in 1 .. Len(clients) /\ UNCHANGED <<server, locked, cycle, shown>>
        /\ job[w].own \in Seq(Balls) /\ NextClient(w)
    BY <1>1, <1>2, <1>14 DEF SendOwn, TypeOK, Leads
  <2>2. clients[job[w].cursor] \in Clients
    BY <1>2, <2>1
  <2>3. /\ stream' \in [Clients -> Seq(Pieces)]
        /\ \A d \in Clients : Len(stream'[d]) <= Buffer[d]
    BY <1>14, <2>1, <2>2, SerializeIsPieces, PutKeeps DEF SendOwn
  <2> QED BY <1>8, <2>1, <2>3
<1>15. CASE StartFrame
  <2>1. /\ clients # << >> /\ locked' = TRUE /\ cycle' = [cursor |-> 1, frame |-> balls]
        /\ UNCHANGED <<clients, joining, balls, made, job, stream, shown>>
    BY <1>15 DEF StartFrame, server
  <2>2. StreamTypes'
    BY <1>1, <1>2, <2>1 DEF StreamTypes
  <2>3. cycle'.cursor \in IF locked' THEN 1 .. Len(clients') ELSE {0}
    BY <1>2, <2>1
  <2>4. TypeOK'
    BY <1>2, <1>1, <2>1, <2>2, <2>3, <1>4 DEF At, Leads
  <2> QED BY <1>1, <2>1, <2>2, <2>4 DEF StreamInv, FrameIsCurrent, Due
<1>16. CASE SendFrame
  <2>1. /\ locked /\ cycle.cursor \in 1 .. Len(clients)
        /\ Put(clients[cycle.cursor], Serialize(cycle.frame))
        /\ UNCHANGED <<clients, joining, balls, made, job, shown>>
    BY <1>2, <1>16 DEF SendFrame, server
  <2>2. clients[cycle.cursor] \in Clients
    BY <1>2, <2>1
  <2>3. /\ stream' \in [Clients -> Seq(Pieces)]
        /\ \A d \in Clients : Len(stream'[d]) <= Buffer[d]
    BY <1>2, <2>1, <2>2, SerializeIsPieces, PutKeeps
  <2>4. /\ locked' \in BOOLEAN /\ cycle' \in [cursor : Nat, frame : Seq(Balls)]
        /\ cycle'.cursor \in IF locked' THEN 1 .. Len(clients) ELSE {0}
        /\ locked' => cycle'.frame = cycle.frame
    <3>1. CASE /\ cycle.cursor = Len(clients)
               /\ locked' = FALSE /\ cycle' = [cursor |-> 0, frame |-> << >>]
      <4>1. << >> \in Seq(Balls)
        OBVIOUS
      <4> QED BY <3>1, <4>1
    <3>2. CASE /\ cycle.cursor # Len(clients)
               /\ cycle' = [cycle EXCEPT !.cursor = @ + 1] /\ UNCHANGED locked
      <4>1. cycle.cursor \in Nat /\ cycle \in [cursor : Nat, frame : Seq(Balls)]
        BY <1>1 DEF StreamTypes
      <4>2. /\ cycle' \in [cursor : Nat, frame : Seq(Balls)]
            /\ cycle'.cursor = cycle.cursor + 1 /\ cycle'.frame = cycle.frame
        BY <3>2, <4>1
      <4>3. cycle.cursor + 1 \in 1 .. Len(clients)
        BY <1>1, <2>1, <3>2
      <4> QED BY <2>1, <3>2, <4>2, <4>3
    <3> QED BY <1>16, <3>1, <3>2 DEF SendFrame
  <2>5. StreamTypes'
    BY <1>1, <2>1, <2>3, <2>4 DEF StreamTypes
  <2>6. TypeOK'
    BY <1>1, <1>2, <2>1, <2>3, <2>4, <2>5, <1>4 DEF At, Leads
  <2> QED BY <1>1, <2>1, <2>4, <2>5, <2>6 DEF StreamInv, FrameIsCurrent, Due
<1>17. ASSUME NEW c \in Clients, Recv(c)
       PROVE  StreamInv'
  <2>1. PICK n \in 1 .. Len(stream[c]) :
          /\ stream' = [stream EXCEPT ![c] = SubSeq(@, n + 1, Len(@))]
          /\ shown' = [shown EXCEPT ![c] = Parsed(SubSeq(stream[c], 1, n))]
          /\ UNCHANGED <<clients, joining, balls, made, locked, cycle, job>>
    BY <1>17 DEF Recv, server
  <2>2. stream[c] \in Seq(Pieces) /\ Len(stream[c]) \in Nat
    BY <1>1 DEF StreamTypes
  <2>3. /\ SubSeq(stream[c], 1, n) \in Seq(Pieces)
        /\ SubSeq(stream[c], n + 1, Len(stream[c])) \in Seq(Pieces)
        /\ Len(SubSeq(stream[c], n + 1, Len(stream[c]))) <= Len(stream[c])
    <3> HIDE DEF Pieces
    <3> QED BY <2>2
  <2>4. StreamTypes'
    BY <1>1, <2>1, <2>3, ParsedIsBalls DEF StreamTypes
  <2>5. \A d \in Clients : Len(stream'[d]) <= Buffer[d]
    <3>1. Buffer[c] \in Nat
      BY StreamAssumption
    <3>2. Len(SubSeq(stream[c], n + 1, Len(stream[c]))) \in Nat
      BY <2>3
    <3>3. Len(stream'[c]) <= Buffer[c]
      BY <1>1, <1>2, <2>1, <2>2, <2>3, <3>1, <3>2 DEF StreamTypes
    <3> QED BY <1>1, <1>2, <2>1, <3>3 DEF StreamTypes
  <2>6. TypeOK'
    BY <1>1, <1>2, <2>1, <2>4, <2>5, <1>4 DEF At, Leads
  <2> QED BY <1>1, <2>1, <2>4, <2>6 DEF StreamInv, FrameIsCurrent, Due
<1>18. CASE UNCHANGED vars
  <2>1. UNCHANGED <<clients, joining, balls, made, locked, cycle, job, stream, shown>>
    BY <1>18 DEF vars, server
  <2>2. StreamTypes'
    BY <1>1, <2>1 DEF StreamTypes
  <2>3. TypeOK'
    BY <1>1, <1>2, <2>1, <2>2, <1>4 DEF At, Leads
  <2> QED BY <1>1, <2>1, <2>2, <2>3 DEF StreamInv, FrameIsCurrent, Due
<1> QED
  BY <1>5, <1>9, <1>10, <1>11, <1>12, <1>13, <1>14, <1>15, <1>16, <1>17, <1>18, StreamAssumption
  DEF Next, CycleStep, Broadcasting

(***************************************************************************)
(* The broadcast: the theorems                                             *)
(***************************************************************************)
\* Every text on a connection, every frame and every list on a screen is of balls
\* of the game, a read or a write that cuts a ball included; no connection holds
\* more than fits; the workers and the cycle thread never leave the client list.
THEOREM TypeCorrect == Spec => []TypeOK
<1>1. StreamInv => TypeOK
  BY DEF StreamInv
<1> QED BY StreamInitInv, StreamNextInv, <1>1, PTL DEF Spec

\* A frame of the cycle thread is still true when the last client is sent it.
THEOREM FrameStaysCurrent == Spec => []FrameIsCurrent
<1>1. StreamInv => FrameIsCurrent
  BY DEF StreamInv
<1> QED BY StreamInitInv, StreamNextInv, <1>1, PTL DEF Spec
===============================================================================
