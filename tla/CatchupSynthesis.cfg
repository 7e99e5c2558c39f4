\* Catchup creation with store writes that may fail at any step.
CONSTANTS
  u1 = u1  u2 = u2  a = a  b = b  RELAY = RELAY  PROXY = PROXY  CATCHUP = CATCHUP
  Users = {u1, u2}
  Sources = {a, b}
  CatchupIds = {c1, c2, c3}
  Titles = {t1}
  Windows = {w1, w2}
  UserSources <- MCUserSources
  HostedSources = {a, b}
  SourceType <- MCSourceType
  SourceRoot <- MCSourceRoot
  CatchupsRoot <- MCCatchupsRoot
  OutputId = "0"
  PartsVisible <- MCPartsVisible
  StoreMayFail = TRUE
  MaxUserCatchups = 2
  PrefFields = {"favorite"}
  NoDoc = NoDoc
  NoReply = NoReply
SPECIFICATION Spec
SYMMETRY MCSymmetry
CHECK_DEADLOCK FALSE
INVARIANTS TypeOK IdempotentCreateOrFind
