SPECIFICATION Spec
CONSTANTS
  NoObject = NoObject
  Plain = {o1}
  Connections = {c1}
  Subscriptions = {s1}
  Messages = {m1, m2}
  PlainHandles = {ho}
  ConnectionHandles = {hc}
  SubscriptionHandles = {hs1}
  MessageHandles = {hm1, hm2}
  LibraryStatuses <- AllStatuses
  IntMod = 4
  SizeMod = 8
  Callbacks = {"own", "override", "default"}
SYMMETRY Alike
CHECK_DEADLOCK FALSE
INVARIANTS NoDangling OnlyMessagesHollow ServersCountKept
PROPERTIES ThrowChangesNothing ImplementsShared
