SPECIFICATION Spec
CONSTANTS
  w1 = w1
  w2 = w2
  adm = adm
  adm2 = adm2
  main = main
  h1 = h1
  h2 = h2
  Threads = {w1, adm, adm2, main}
  Main = main
  MayCall <- AdminCalls
  MaxCalls <- AdminBounds
  Handlers = {h1, h2}
  NoHandler = NoHandler
  NoThread = NoThread
  InitialHandler = h1
  HasFile = {h1, h2}
  HasConsole = {h1}
  Direct = {h2}
  LockedInstall = {h1}
  Throwing = {h1}
  LogLevel_Maximum = 1
  MinScreen = 1
  MinPersistent = 0
  MaxLives = 1
  MaxThrows = 1
INVARIANTS TypeOK LockInv FileLinesWhole EmissionCurrent
