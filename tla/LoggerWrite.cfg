SPECIFICATION Spec
CONSTANTS
  w1 = w1
  w2 = w2
  adm = adm
  adm2 = adm2
  main = main
  h1 = h1
  h2 = h2
  Threads = {w1, w2, adm, main}
  Main = main
  MayCall <- WriteCalls
  MaxCalls <- WriteBounds
  Handlers = {h1, h2}
  NoHandler = NoHandler
  NoThread = NoThread
  InitialHandler = h1
  HasFile = {h1, h2}
  HasConsole = {h1, h2}
  Direct = {}
  LockedInstall = {h1}
  Throwing = {h1}
  LogLevel_Maximum = 0
  MinScreen = 0
  MinPersistent = 0
  MaxLives = 1
  MaxThrows = 1
INVARIANTS FileOrder ConsoleLinesWhole
PROPERTY ImplementsService
