SPECIFICATION FrontendSpec
CONSTANTS
  \* GameView
  MaxViews = 3
  MaxToggles = 2
  None = None
  \* InputPath
  Players = {1, 2}
  ButtonCount = 2
  Layouts <- MCLayouts
  Keys = {"k1", "k2"}
  MaxSent = 2
  \* LibraryPage
  RomIds = {r1, r2}
  CollectionIds = {c1, c2}
  Labels = {x, y}
  MaxCommands = 5
  Unloaded = Unloaded
  \* SettingsPage
  Slots = {1, 2}
  Actions = {"a", "b"}
  Codes = {"k1", "k2", "k3"}
  DefaultMaps <- MCDefaultMaps
  MaxVolume = 1
  OddVolumes = {3}
  MaxRequests = 3
  MaxEdits = 2
  Nothing = Nothing
INVARIANTS ViewInvariant PauseHitsItsOwnGame InputInvariant PageShowsLibrary SettingsInvariant
PROPERTIES NoOrphan
\* The user may leave the application at rest, and the bounds end a behaviour.
CHECK_DEADLOCK FALSE
