SPECIFICATION Spec
CONSTANTS
  m1 = m1 m2 = m2 m3 = m3 m4 = m4 c1 = c1 c2 = c2 c3 = c3 r1 = r1 r2 = r2
  Pages = {m1, m2}
  Pictures = {1, 2, 3, 4, 5}
  PictureCategories = {1, 2}
  CategoryOf <- PictureCategory
  Featured <- FeaturedPictures
  HeroIds = {2, 3}
  HeroPool = {2, 3, 4}
  HeroCategories = {1}
  HeroCount = 2
  Replacements = {1, 2}
  InitialSections = 1
  CardsPerSection = 2
  RotationLimit = 3
  SettingTexts = {c1, c2}
  Periods <- NoNumber
  Secrets = {m4}
  Models = {m3}
  DefaultModels = {m3}
  Terms = {1, 2}
  NewTerms = 1
  UsualTerms = 2
  MaxEdits = 2
  UserIds = {m1, m2}
  Names = {m3}
  Keys = {m4}
  MaxWrites = 3
  Tabs = {m1, m2}
  ConversationIds = {1}
  MaxClock = 1
  Images = {m1, m2}
  Tags = {m3}
  Date <- Successive
  Ranges = {{1, 2}, {1}}
  Catalog <- ThreeSeeds
  SeedCategory <- FirstApart
  SeedTags <- Untagged
  All = m4
  PageSize = 1
  Unknown = c3
  SharedItems = {m1, m2}
  Shareable = {m1, m2}
  LogKinds = {m1, m2}
  LogFilters = {{m1}, {m1, m2}}
  Usual = {m1}
  Limit = 1
  MaxEntries = 3
  TabOf <- OwnTab
  Turns = {m3}
  TurnImages = {m4}
  TurnOf <- OneTurn
  FirstImages = {m4}
  Runners = {r1, r2}
  MaxErrors = 1
  Leavers = {m1}
  MaxLapses = 0
  MaxRequests <- RequestsOf
  MaxChanges <- ChangesOf
  MaxFaults <- FaultsOf
INVARIANTS CardsDistinct NavAttended  SetupWhole CacheFollows 
   PageSettled DraftOfOneItem  LoadingIsAttended
PROPERTIES  NothingReverts
SYMMETRY SymmetricRunners
CHECK_DEADLOCK FALSE
