SPECIFICATION Spec
CONSTANTS
  set = set
  read = read
  plc = plc
  session = session
  NoSession = NoSession
  NoOne = NoOne
  p1 = p1
  p2 = p2
  g1 = g1
  g2 = g2
  Operations = {set, read}
  Processes = {p1, p2}
  Resources = {plc}
  Grants = {g1, g2}
  Resource <- MCResource
  Session <- MCSession
  Holder <- MCHolder
  AutoAllowed = {read}
  Scopes = {"ONCE", "SESSION"}
  Uses = {2}
  Validity = 1
  MaxEffects = 2
  LastTime = 1
SYMMETRY Symmetry
INVARIANTS
  EffectOnce
  UsesAddUp
  EffectUnderAuthority
PROPERTIES
  RefusedForGood
CHECK_DEADLOCK FALSE
