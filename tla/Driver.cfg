SPECIFICATION Spec
CONSTANTS
  c1 = c1
  c2 = c2
  Hosts <- AllHosts
  NoCard = NoCard
  MaxHandlers = 2
  Card = {c1, c2}
  File = {f1}
INVARIANTS TypeOK OpenReachesReady UnloadsClean PciGivesBack
PROPERTY RaisedIsCleared
CHECK_DEADLOCK FALSE
