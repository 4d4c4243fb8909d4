SPECIFICATION MCSpec
CONSTANTS
  None = None
  Developer = {1, 2}
  Repo = {1, 2}
  Tags <- MCTags
  MomentumOf <- MCMomentum
  LanguageOf <- MCLanguage
  Evidence <- MCEvidence
  MaxChanges = 5
  MaxDuring = 2
  Covered = {1, 2}
  Person = {1}
  Category = {"agents", "data"}
  Recipe = {"recent", "popular"}
  Catalog = {"agents"}
  Day = {0, 8}
  Stars = {5, 12}
  StaleAfter = 1
  MaxCommits = 6
INVARIANTS GraphIsFaithful ReportIsSound
PROPERTIES ReportsAgree
CHECK_DEADLOCK FALSE
