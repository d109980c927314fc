SPECIFICATION FsSpec
CONSTANTS
  DirPaths <- MCDirPaths
  TableNames <- MCTableNames
  Deployments <- MCDeployments
  FsPathMaxLevel = 3
  RowKeys = {"k", "type"}
INVARIANTS
  TreeConsistent
PROPERTIES
  RefusedLeavesTree
