SPECIFICATION Spec
CONSTANTS
  None = None
  MoneyUnit = 1
  RatioUnit = 10
  MoneyMax = 50
  DecimalMax = 500
  Header <- MCHeader
  FileRows <- MCFileRows
  FileSettings <- MCFileSettings
  Overlong = {"long"}
  Functional = "MXN"
  Currencies = {"MXN", "USD"}
  MaxRows = 2
  Month <- Months
  Amount <- Amounts
  Account = {1, 2}
  Department = {1, 2}
  CostCenter = {1}
  TypeOf <- Types
  Version = {1, 2}
  StartMonth = 2
  RuleValue <- Values
  Entries <- MCEntries
  Rules <- MCRuleSet
  MaxEntries = 2
  MaxRules = 2
  Id = {1, 2, 3}
  Column = {1, 2}
  PageLimit = 1
  MaxChanges = 1
  CSV_DELIMITERS <- MCDelimiters
  Limits <- MCLimits
  SheetName = {"csv", "plan", "real"}
  Uploads <- MCUploads
  BookLines <- MCBookLines
  MaxLines = 4
  Sniffed = {",", ";"}
  Unset = Unset
  IsoDate <- MCIsoDate
  DecimalText <- MCDecimalText
  Uuid <- MCUuid
  AiMaxResultRows = 2
  Scopes <- MCScopes
  Arguments <- MCArguments
  MaxArguments = 2
  RecordInputs <- MCRecordInputs
  ReviewInputs <- MCReviewInputs
  Environs <- MCEnvirons
  Preflights <- MCPreflights
  GateFolders <- MCGateFolders
  MaxWrites = 2
  NoFile = NoFile
  Torn = Torn
INVARIANTS GatesStandForDecisions  AppliesWhatWasValidated RowsAccounted StaysApplicable ReportsAddUp PreviewMatchesSave PagesComplete
CHECK_DEADLOCK FALSE
