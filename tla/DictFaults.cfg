SPECIFICATION FairSpec
CONSTANTS
  c1 = c1
  c2 = c2
  c3 = c3
  k1 = k1
  k2 = k2
  e1 = e1
  e2 = e2
  bad = bad
  NoValue = NoValue
  Done = Done
  NoOp = NoOp
  NoReply = NoReply
  Error = Error
  Keys <- MCKeys
  Elems <- MCElems
  Unserializable <- MCUnserializable
  Defaults <- EmptyMap
  Callers <- TwoCallers
  Ops <- MixedOps
  MaxCalls = 4
  Faults <- AllFaults
PROPERTY CallsReturn
