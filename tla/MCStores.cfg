SPECIFICATION StoresSpec
CONSTANTS
  Profiles = {a1, a2, bad}
  Invalid = {bad}
  NoProfile = NoProfile
  Objects = {o1, o2, o3}
  NoObject = NoObject
  People = {p1, p2}
  Urls = {u1, u2}
  NoUrl = NoUrl
  Refresh = {0, 15, 40000}
  MaxContacts = 2
  MaxRequests = 2
  MaxRecords = 2
  MaxCalls = 4
INVARIANTS
  AccountTypeOK LastProfileWins OnlyCurrentCredentials NoGhostRegistration
  ContactsTypeOK SavedUrlIsUsed RefreshSurvivesFailure
  HistoryTypeOK HistoryPageIsCurrent RedialComesBack
PROPERTIES
  QueuedIsInstalled
  PanelFollowsFile ContactsGoOnlyWhenAsked DialogHitsItsRow 
  KeepsTheLog
