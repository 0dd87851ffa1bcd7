CONSTANTS
  s1 = s1
  s2 = s2
  e1 = e1
  e2 = e2
  team = team
  management = management
  Submitters = {s1, s2}
  Editors = {e1}
  Scopes = {team, management}
  Shared = {team}
  Patched = {"archived"}
  MaxFiles = 2
  Sizes = {2}
  MaxVersions = 2
  MaxEdits = 1
  MaxExits = 1
SPECIFICATION FairSpec
CHECK_DEADLOCK FALSE
INVARIANTS BytesFollowVersions OnlyStaleEditsRegress ScopeIsCommon
PROPERTIES ClosedTakesNoVersion VersionsSettle
