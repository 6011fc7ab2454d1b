\* CONTEXT.md:130, allow, deny or modify: a modification is dropped.
SPECIFICATION Spec
CONSTANTS
  reviewer = reviewer
  manager = manager
  plain = plain
  broken = broken
  destructive = destructive
  outside = outside
  ignored = ignored
  unresolvable = unresolvable
  ToolNames = {"bash", "read", "lsp"}
  Handled = {"bash", "read"}
  AgentRoles = {reviewer, manager}
  RoleTools <- MCRoleTools
  Arguments = {plain, broken, destructive, outside, ignored, unresolvable}
  Malformed = {broken}
  Destructive = {destructive}
  Outside = {outside}
  Ignored = {ignored, unresolvable}
  Unresolvable = {unresolvable}
  Chain <- MCChain
  HooksTable <- MCHooksTable
  ViaConfig = TRUE
  ConfirmMode = "ask"
  UserVerdicts <- MCUserVerdicts
  NoTarget = NoTarget
  AsGiven = AsGiven
  NoRequest = NoRequest
  MaxEffects = 2
PROPERTIES
  ModificationTakesEffect
CHECK_DEADLOCK FALSE
