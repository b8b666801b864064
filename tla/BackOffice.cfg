SPECIFICATION OfficeSpec
CONSTANTS
  none = none
  a = a
  b = b
  f = f
  c1 = c1
  c2 = c2
  p1 = p1
  PartnerIds = {1, 2}
  Editors = {a, b}
  Fields = {f}
  LegacyIds <- MCLegacyIds
  NoPartner = none
  MaxSequence = 3
  MaxPartnerOps = 3
  JobIds = {1, 2, 3}
  Callers = {a}
  QueueConcurrency = 1
  ParseConcurrency = 1
  MaxPending = 2
  KeepTerminal = 1
  EpdaAreas = {1, 2}
  EpdaPorts = {p1}
  EpdaClerks = {c1, c2}
  Amounts = {5}
  DefaultAmount = 5
  unset = unset
  Unset = unset
  NoSet = none
  MaxSetId = 3
  MaxEpdaSaves = 3
  MaxPortMoves = 1
  StartGroups <- MCGroups
  Contents = {9, 300, 800}
  Bands = {40, 150, 800}
  Rooms = {30, 200, 500}
  MaxCargoRows = 5
  FirstHeader = 18
  FirstMin = 22
  FirstPad = 5
  FirstMost = 4
  NextHeader = 20
  NextRoom = 700
  NextMin = 30
  NextPad = 6
  NextMost = 3
  MaxContainers = 20
  CellLines = {1, 2, 4}
  FieldHeight = 2005
  MaxFieldLines = 22
  LineStep = 103
  RowPad = 40
  UnderlineGap = 15
  TotalGap = 35
  StorageSlots = {1, 2}
  FolderPaths <- MCFolders
  FilePaths <- MCFiles
  StartBuckets <- MCBuckets
  PageSize = 1
  FolderMost = 3
  KeyLength = 3
  MaxStorageOps = 2
INVARIANTS AutoIdsAreFresh  PagesComplete TotalsCoverTheList 
PROPERTIES SavesReplaceWhatWasSeen LoopsEnd 
CHECK_DEADLOCK FALSE
