SPECIFICATION Spec
CONSTANTS
  Clusters = {c1, c2}
  NoCluster = NoCluster
  Twins = TRUE
  MaxFetches = 2
  MaxEvents = 1
  MaxActions = 1
INVARIANTS OwnData
PROPERTIES ShowsTruth SidebarFollows
