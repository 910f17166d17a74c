SPECIFICATION Spec
CONSTANTS
  NULL = NULL
  NoFile = NoFile
  None = None
  Clients = {1, 2}
  KeyIds = {k1, k2}
  KeyLens = {2, 3}
  StoredLen = 2
  MaxStarts = 3
  MaxUserIds = 2
  MaxMade = 3
INVARIANTS
  FileKeyIssued
  NativesUseLiveHandle
  OneLiveHandle
  NoGhostPlayers
PROPERTIES
  StoredKeySticks
