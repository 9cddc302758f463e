SPECIFICATION Spec
CONSTANTS
  TableOrder <- MCTables
  LinkOrder <- MCLinks
  Joins <- MCJoins
  Names <- MCNames
  Identifiers <- MCIdentifiers
  NodeNames <- MCNodeNames
  LinkNames <- MCLinkNames
  NoEdge = NoEdge
  NoMapping = NoMapping
  NoDraft = NoDraft
  FirstMapping <- MCFirstMapping
  Tabs = {t1}
  Pools = {c1, c2, c3}
  MaxEdits = 2
  MaxFailures = 1
INVARIANTS
  TypeOK
  NothingLost
  SavedLoads
  LeavingOutIsSafe
  LinksJoinTheirTables
  PoolsInUseAreOpen
PROPERTY
  HeldIdsStand
