CONSTANTS
  s1 = s1
  s2 = s2
  e1 = e1
  e2 = e2
  team = team
  management = management
  Submitters = {s1, s2}
  Editors = {e1}
  Scopes = {team, management}
  Shared = {team}
  Patched = {"archived"}
  MaxFiles = 1
  Sizes = {1}
  MaxVersions = 2
  MaxEdits = 1
  MaxExits = 0
SPECIFICATION Spec
CHECK_DEADLOCK FALSE
INVARIANT CurrentIsNewest
