\* Every source but the clients of setProperty, the dock and powerd.
CONSTANTS
  HasSlider = TRUE
  UiMinimal = FALSE
  DisableLocking = FALSE
  HasTouchpanel = TRUE
  Demo = FALSE
  Emulator = FALSE
  Clients = {}
  MaxLed = 3
  MaxDnast = 3
  Sources = {"powerKey", "powerKeyDown", "touch", "setState", "lockStatus", "keyboard", "alert", "audiod", "keys", "usb", "inductive", "brightness", "bootmgr", "security", "suspend"}
SPECIFICATION Spec
INVARIANTS
  TimersBelongToState
  LockMatchesState
  PanelFollowsState
  OffOnCallOnlyInCall
PROPERTIES
  UnlockAuthorised
  ImplementsScreen
CHECK_DEADLOCK FALSE
