\* Three calls for three jobs; a stored key, and a second name of the Conversation.
CONSTANTS
  j1 = j1
  j2 = j2
  j3 = j3
  byKey = byKey
  byId = byId
  Jobs = {j1, j2, j3}
  OwnKey = {j1}
  Locks = {byKey, byId}
  LockKey <- NameOf
  NoKey = NoKey
  MaxCalls = 3
SPECIFICATION FairSpec
CHECK_DEADLOCK FALSE
INVARIANTS
  OneTurnPerJob
PROPERTIES
  RefusedForTurnOfOthers
  LockIsHandedOn
