SPECIFICATION FoldSpec
CONSTANTS
  Adapters <- MCAdapters
  Shapes <- MCShapes
  Policies <- MCPolicies
  Plain <- MCPlain
  Overrides <- MCOverrides
INVARIANTS
  SecretsKept
  Governed
CHECK_DEADLOCK FALSE
