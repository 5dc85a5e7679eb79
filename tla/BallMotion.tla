------------------------------ MODULE BallMotion ------------------------------
(***************************************************************************)
(* One ball of the server's field (server/loaclball.c): how the cycle      *)
(* thread moves it frame by frame and how the speed commands of its owner  *)
(* change its velocity (server/localball_list.c), in any order.            *)
(*                                                                         *)
(* The position is a C float, but starts as an integer and only integers   *)
(* are added to it, far below 2^24: its arithmetic is exact.               *)
(***************************************************************************)
EXTENDS Integers

CONSTANTS Field,     \* the side of the field, 1000
          MaxSpeed,  \* MAX_SPEED; MIN_SPEED is its negation
          Radii      \* the radii of the commands "a:<count>:<radius>"

\* A radius of Field / 2 ends the server: rand() % 0.  Any other integer that
\* sscanf reads makes a ball.
ASSUME FieldAssumption ==
  /\ Field \in Nat \ {0}
  /\ Radii \subseteq Int
  /\ \A r \in Radii : 2 * r # Field

StartSpeed == 2   \* 2.5f stored in an int

ASSUME SpeedAssumption == MaxSpeed \in Nat /\ MaxSpeed >= StartSpeed

VARIABLES radius, x, y, dx, dy

motionVars == <<radius, x, y, dx, dy>>

Abs(v) == IF v < 0 THEN -v ELSE v

(***************************************************************************)
(* create_logical_ball.  rand() is not negative, so rand() % m is smaller  *)
(* than m's magnitude and not negative whatever the sign of m.             *)
(***************************************************************************)
StartPositions(r) == {r + k : k \in 0 .. Abs(Field - 2 * r) - 1}

MotionInit ==
  /\ radius \in Radii
  /\ x \in StartPositions(radius)
  /\ y \in StartPositions(radius)
  /\ dx \in {-StartSpeed, StartSpeed}
  /\ dy \in {-StartSpeed, StartSpeed}

(***************************************************************************)
(* move_logical_ball, on each axis: a step that ends on or behind a wall   *)
(* is answered by a step with the velocity reversed.                       *)
(***************************************************************************)
HitsWall(p) == p <= radius \/ p >= Field - radius

LandingNoStepBack(p, v) == p + v  \* mutant
Landing(p, v) == IF HitsWall(p + v) THEN p + v + (-v) ELSE p + v

ReboundLost(p, v) == v  \* mutant
Rebound(p, v) == IF HitsWall(p + v) THEN -v ELSE v

Move ==
  /\ x' = Landing(x, dx)
  /\ dx' = Rebound(x, dx)
  /\ y' = Landing(y, dy)
  /\ dy' = Rebound(y, dy)
  /\ UNCHANGED radius

(***************************************************************************)
(* speedUpBalls and speedDownBalls; C divides towards zero                 *)
(***************************************************************************)
DoubledUnbounded(v) == v * 2  \* mutant
Doubled(v) ==
  IF v > 0 THEN IF v > MaxSpeed THEN MaxSpeed ELSE v * 2
  ELSE IF v < 0 THEN IF v < -MaxSpeed THEN -MaxSpeed ELSE v * 2
  ELSE v

HalvedFloor(v) == IF v > 0 THEN IF v > 1 THEN v \div 2 ELSE 1 ELSE v \div 2  \* mutant
Halved(v) ==
  IF v > 0 THEN IF v > 1 THEN v \div 2 ELSE 1
  ELSE IF v < 0 THEN IF v < -1 THEN -((-v) \div 2) ELSE -1
  ELSE v

SpeedUp ==
  /\ dx' = Doubled(dx)
  /\ dy' = Doubled(dy)
  /\ UNCHANGED <<radius, x, y>>

SpeedDown ==
  /\ dx' = Halved(dx)
  /\ dy' = Halved(dy)
  /\ UNCHANGED <<radius, x, y>>

MotionNext == Move \/ SpeedUp \/ SpeedDown

MotionSpec == MotionInit /\ [][MotionNext]_motionVars

--------------------------------------------------------------------------------
MotionTypeOK ==
  /\ radius \in Radii
  /\ x \in Int /\ y \in Int
  /\ dx \in -2 * MaxSpeed .. 2 * MaxSpeed
  /\ dy \in -2 * MaxSpeed .. 2 * MaxSpeed

\* A ball that fits between the walls stays between them at every speed,
\* though a speed may exceed the field: no wall is ever passed or even
\* touched from the far side.
InField ==
  2 * radius < Field =>
    /\ radius <= x /\ x < Field - radius
    /\ radius <= y /\ y < Field - radius

\* No sequence of bounces and speed commands stops a ball or makes it faster
\* on one axis than on the other, although each axis is clamped, divided and
\* reversed on its own.
EqualSpeeds == dx # 0 /\ Abs(dx) = Abs(dy)

\* A bounce costs a ball one frame at most: if it could not move on an axis,
\* and crosses less than half the free width in a frame, the next frame
\* moves it away from that wall.
BounceCostsOneFrame ==
  [][/\ Move /\ x' = x /\ 2 * Abs(dx) < Field - 2 * radius => Landing(x', dx') # x'
     /\ Move /\ y' = y /\ 2 * Abs(dy) < Field - 2 * radius => Landing(y', dy') # y'
    ]_motionVars
================================================================================
