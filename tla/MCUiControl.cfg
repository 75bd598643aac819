SPECIFICATION Spec
CONSTANTS
  wifi = wifi
  phy = phy
  ssid = ssid
  l_wifi = l_wifi
  scores = scores
  game = game
  short = short
  long = long
  Keys = {wifi, ssid, scores}
  Values = {short}
  Namespaces = {phy, l_wifi, game}
  None = None
  NsOf <- mcNsOf
  Class <- mcClass
  BlobKeys = {}
  MaxQueued = 2
  HoldTime = 2
  IdleLock = 3
INVARIANTS TypeOK NoScreenOfDeletedKey ScreensAreCurrent
PROPERTIES SystemNeedsAdvanced ChangesAreConfirmed LocksWhenIdle
