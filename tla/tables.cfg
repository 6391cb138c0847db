SPECIFICATION Spec
CONSTANTS
  None = None
  Junk = Junk
  any = any
  e1 = e1
  e2 = e2
  s1 = s1
  s2 = s2
  s9 = s9
  u1 = u1
  x1 = x1
  x2 = x2
  Ids <- MCIds
  Template <- MCTemplate
  Domain <- MCDomain
  Parts <- MCParts
  Units <- MCUnits
INVARIANTS
  TypeOK
  RulesBeforeChecks
  RowsRoundTrip
  ReferencesResolve
  TimelinesDisjoint
  LiveKeysUnique
PROPERTIES
  EventsAppendOnly
  HashesStand
