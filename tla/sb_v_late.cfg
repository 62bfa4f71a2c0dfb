\* What a comment of the code says, and the code does not do.
CONSTANTS
  HasSlider = FALSE
  UiMinimal = FALSE
  DisableLocking = FALSE
  HasTouchpanel = TRUE
  Demo = FALSE
  Emulator = FALSE
  Clients = {}
  MaxLed = 3
  MaxDnast = 1
  Sources = {"powerKey", "powerKeyDown"}
  InOrder = FALSE
  MaxLife = 2
SPECIFICATION MCSpec
INVARIANTS
  RegisteredOnceSettled
CHECK_DEADLOCK FALSE
