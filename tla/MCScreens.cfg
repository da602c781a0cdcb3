SPECIFICATION Spec
\* Nobody has to go on using a screen.
CHECK_DEADLOCK FALSE
CONSTANTS
  a = a
  b = b
  Records = {a, b}
  Existing = {a, b}
  Blank = Blank
  First = {a, Blank}
  Links = {"seen", "also", "unseen"}
  Shown = {"seen", "also"}
  MaxMoves = 2
  MaxActs = 2
  MaxSaves = 1
  Rows = {1, 2}
  Matching = {2}
  Passing = {1}
  PageSize = 1
  MaxAsks = 2
  MaxChanges = 1
  Tables = {"orders", "users"}
  Start = "orders"
  Keys = {1, 2}
  Narrow = {2}
  PageRows = 1
  MaxClicks = 3
  MaxOthers = 1
  DmlColumns <- MaskedColumns
  Sensitive = {"token", "secret_count"}
  Structural = {"secret_count"}
  Namey <- NamedColumns
  Flags <- FlagColumns
  Bulky = {}
  PeekLimit = 1
  DmlIds = {1, 2}
  DmlValues = {0, 1}
  Editors = {"e1", "e2"}
  Order <- CatalogOrder
  Actions = {"read"}
  MaxToggles = 2
  MaxMatrices = 2
  People = {"p1", "p2"}
  Roles = {"r"}
  MaxDeeds = 4
  MaxElsewhere = 1
  Cells = {"c1", "c2"}
  PeekValues = {"k1", "k2"}
  CacheMax = 1
  MaxPeekActs = 4
  Owners = {"t", "u"}
  ColumnNames = {"c", "d"}
  ColumnAttrs = {"type"}
  AttrValues = {"p", "q"}
  MaxEditActs = 4
  MaxEditOthers = 1
  FormColumns = {"link", "note", "token"}
  PickColumns = {"link"}
  HiddenColumns = {"token"}
  Texts = {"x", "y"}
  NoValue = NoValue
  Searches = {"", "x"}
  MaxRowActs = 4
  MaxRowOthers = 1
INVARIANTS
  TypeOK
  NothingToSaveMeansStored
  AnswersFitTheScreen
  StraysNeedAMove
  SecretsStaySecret
  EditsWereTyped
PROPERTIES
  ScreensComeToRest
  SavesSpareTheRest
