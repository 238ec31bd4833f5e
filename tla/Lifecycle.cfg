SPECIFICATION FairSpec
CONSTANTS
  c1 = c1
  c2 = c2
  Main = Main
  Bus = Bus
  Keepalive = Keepalive
  None = None
  Clients = {c1, c2}
  Early = c1
  Slot <- MCSlot
  Fds = {1, 2}
  Pool = {w1}
  K = 1
  Word = 8
  Kinds = {"connect", "subscribe", "publish"}
  MaxClock = 2
  MaxEvents = 5
  SigEvents = 1
CHECK_DEADLOCK FALSE
INVARIANTS
  TypeOK
  OnlineOwnsFd
  RegistrationIsOwn
  MessagesReachSubscribers
  OnlyKeepaliveKills
PROPERTIES
  NoHastyClose
  SilentClosed
  ShutdownCompletes
