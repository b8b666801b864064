SPECIFICATION MaintenanceSpec
CONSTANTS
  r1 = r1
  r2 = r2
  Nobody = Nobody
  Runners <- MCRunners
  Scripts <- MCScripts
  Script <- MCScript
  Facts <- MCFacts
  Prevents <- MCPrevents
  AppFacts <- MCAppFacts
  Families <- MCFamilies
  Starts <- MCStarts
  MaxWrites = 1
  MaxSpoils = 1
  MaxRuns = 3
  MaxFaults = 1
  n1 = n1
  n2 = n2
  image1 = image1
  document1 = document1
  editor1 = editor1
  inquiry1 = inquiry1
  tariff1 = tariff1
  agency = agency
  none = none
  CatalogServices = {agency}
  Freight = agency
  Names = {n1, n2}
  CommodityIds = {1, 2, 3}
  Images = {image1}
  Documents = {document1}
  CatalogEditors = {editor1}
  NoRow = none
  NoName = none
  Free = none
  TypeServices = {agency}
  Agency = agency
  TypeIds = {1, 2}
  NoText = none
  Texts <- MCTexts
  Folded <- MCFolded
  Key <- MCKey
  SqlKey <- MCSqlKey
  CodeOf <- MCCodeOf
  TypeInquiries = {inquiry1}
  TariffSets = {tariff1}
  StartTypes <- MCStartTypes
  StartSources <- MCStartSources
  StartCargo <- MCStartCargo
  StartRates <- MCStartRates
  MaxRates = 2
  MaxEdits = 1
INVARIANTS LedgerTellsTheTruth ExportHoldsWhatWasReplaced PreflightSuffices
PROPERTIES SuccessIsFinal MergeKeepsMeaning TariffsSurvive
CHECK_DEADLOCK FALSE
