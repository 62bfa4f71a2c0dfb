\* powerd is started twice and dies at any time; the power key turns the
\* display on and off meanwhile.
CONSTANTS
  HasSlider = FALSE
  UiMinimal = FALSE
  DisableLocking = FALSE
  HasTouchpanel = TRUE
  Demo = FALSE
  Emulator = FALSE
  Clients = {}
  MaxLed = 3
  MaxDnast = 1
  Sources = {"powerKey", "powerKeyDown", "suspend"}
  InOrder = TRUE
  MaxLife = 2
SPECIFICATION MCSpec
INVARIANTS
  AsleepOnlySuspended
  AwaitedIsComing
  RegisteredOnceSettled
PROPERTIES
  QuestionsAnswered
  SuspendEnds
CHECK_DEADLOCK FALSE
