SPECIFICATION Spec
CONSTANT NoKey = NoKey
INVARIANTS
  TypeOK
  SuccessIsStar
  CountedIsLinked
PROPERTIES
  OneParentWhenAlone
  DisconnectedWhenAlone
