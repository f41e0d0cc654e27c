\* Two calls at the same time and one change by the editor.
CONSTANTS
  t1 = t1
  t2 = t2
  a = a
  b = b
  dir = dir
  fix = fix
  key = key
  out = out
  root = root
  nil = nil
  None = nil
  Root = root
  Threads = {t1, t2}
  Paths <- MCPaths
  Area <- MCArea
  Parent <- MCParent
  Linked = {}
  Locked <- MCLocked
  MaxLines = 1
  Granted = {"read_workspace", "write_workspace"}
  BlockedTools = {}
  BlockedScopes = {}
  TaskAsks = FALSE
  Calls <- MCCalls
  Disk0 <- MCDisk
  Edits <- MCEdits
  Chars = {"x", "y", "z", "u", "v", "w", "nl", "s"}
  Secret = "s"
  MaxCalls = 2
  MaxEdits = 1
SYMMETRY MCSymmetry
SPECIFICATION Spec
INVARIANTS LossWasShown  PatchedAsLocated
\* Calls and edits are bounded: the system comes to rest.
CHECK_DEADLOCK FALSE
