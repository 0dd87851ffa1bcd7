CONSTANTS
  a1 = a1
  a2 = a2
  s1 = s1
  s2 = s2
  Actors = {a1, a2}
  Sessions = {s1, s2}
  New = New
  NoOne = NoOne
  Pmo = a1
  Old = {s1}
  MaxEntries = 2
  MaxRequests = 1
  MaxMoves = 2
SPECIFICATION FairSpec
CHECK_DEADLOCK FALSE
INVARIANTS OneConversation OwnConversation EntriesKept
PROPERTIES ComposerFreed
