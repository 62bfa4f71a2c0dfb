\* A comment of the code that the code does not keep.
CONSTANTS
  HasSlider = FALSE
  UiMinimal = FALSE
  DisableLocking = FALSE
  HasTouchpanel = TRUE
  Demo = FALSE
  Emulator = FALSE
  Clients = {c1}
  MaxLed = 3
  MaxDnast = 3
  Sources = {"usbDock", "setProperty", "sleep"}
SPECIFICATION Spec
INVARIANTS
  DnastMatchesHolders
CHECK_DEADLOCK FALSE
