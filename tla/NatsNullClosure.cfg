SPECIFICATION Spec
CONSTANTS
  NoObject = NoObject
  Plain = {o1}
  Connections = {c1}
  Subscriptions = {s1}
  Messages = {m1, m2}
  PlainHandles = {ho}
  ConnectionHandles = {hc}
  SubscriptionHandles = {hs1}
  MessageHandles = {hm1, hm2}
  LibraryStatuses <- JustOK
  IntMod = 4
  SizeMod = 8
  Callbacks = {"null"}
SYMMETRY Alike
CHECK_DEADLOCK FALSE
INVARIANT NullClosureRefused
