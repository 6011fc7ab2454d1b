\* Every built-in hook, a hook of the user that raises, and a rewriting one.
SPECIFICATION Spec
CONSTANTS
  reviewer = reviewer
  manager = manager
  plain = plain
  broken = broken
  destructive = destructive
  outside = outside
  ignored = ignored
  unresolvable = unresolvable
  ToolNames = {"bash", "read", "lsp"}
  Handled = {"bash", "read"}
  AgentRoles = {reviewer, manager}
  RoleTools <- MCRoleTools
  Arguments = {plain, broken, destructive, outside, ignored, unresolvable}
  Malformed = {broken}
  Destructive = {destructive}
  Outside = {outside}
  Ignored = {ignored, unresolvable}
  Unresolvable = {unresolvable}
  Chain <- MCChain
  HooksTable <- MCHooksTable
  ViaConfig = FALSE
  ConfirmMode = "ask"
  UserVerdicts <- MCUserVerdicts
  NoTarget = NoTarget
  AsGiven = AsGiven
  NoRequest = NoRequest
  MaxEffects = 2
INVARIANTS
  GuardsHold
  OnlyPermittedRun
PROPERTIES
  GateSpec
CHECK_DEADLOCK FALSE
