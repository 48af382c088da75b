SPECIFICATION BrowserSpec
CONSTANTS
  Tabs = {t1}
  Jobs = {j1, j2}
  Before = {"none", "legacy", "user"}
  MaxMoves = 3
  MaxFaults = 1
  Menus = {menu, composer}
  Page = composer
  Customs = {custom}
  Bound = FALSE
  light = light zh = zh square = square
  Ratios = {square, wide}
  Themes = {light, dark}
  Languages = {zh}
  Start <- FirstPreferences
  Requests = {first, second}
  MaxChanges = 2
INVARIANTS LogoutSticks ThemeShown
PROPERTIES ComesToRest KeysKept SavingEnds
CHECK_DEADLOCK FALSE
