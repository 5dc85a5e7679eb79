SPECIFICATION MotionSpec
CONSTANTS
  Field = 17
  MaxSpeed = 5
  Radii <- SomeRadii
INVARIANTS
  MotionTypeOK
  InField
  EqualSpeeds
PROPERTIES
  BounceCostsOneFrame
