SPECIFICATION Spec
CONSTANTS
  TableOrder <- MCTables
  LinkOrder <- MCLinks
  Joins <- MCJoins
  Names <- MCNames
  Identifiers <- MCIdentifiers
  NodeNames <- TakenNames
  LinkNames <- MCLinkNames
  NoEdge = NoEdge
  NoMapping = NoMapping
  NoDraft = NoDraft
  FirstMapping <- MCFirstMapping
  Tabs = {t1}
  Pools = {c1, c2, c3}
  MaxEdits = 2
  MaxFailures = 0
INVARIANT
  LinksJoinTheirTables
