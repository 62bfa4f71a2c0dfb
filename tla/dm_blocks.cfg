\* Two subscribed messages at a time, calls, a puck, a cable, a powerd that
\* comes and goes and a proximity sensor that may refuse.  Of the power key
\* only releases count: it is never held for long.
CONSTANTS
  HasSlider = FALSE
  UiMinimal = FALSE
  DisableLocking = FALSE
  HasTouchpanel = TRUE
  Demo = FALSE
  Emulator = FALSE
  Clients = {c1, c2}
  MaxLed = 1
  MaxDnast = 3
  Sources = {"setProperty", "proximityFailure", "audiod", "inductive", "usb", "onWhenConnected", "powerKey", "sleep", "bootmgr", "setState"}
SPECIFICATION Spec
SYMMETRY ClientSymmetry
INVARIANTS
  DnastMatchesHolders OffOnCallOnlyInCall
PROPERTIES
  ProximityServesHolders
  BlockedKeyDoesNothing
  DnastKeepsPanelOn
  UntimedByKnownCauses
CHECK_DEADLOCK FALSE
