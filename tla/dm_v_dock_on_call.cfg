\* A comment of the code that the code does not keep.
CONSTANTS
  HasSlider = FALSE
  UiMinimal = FALSE
  DisableLocking = FALSE
  HasTouchpanel = TRUE
  Demo = FALSE
  Emulator = FALSE
  Clients = {c1}
  MaxLed = 3
  MaxDnast = 3
  Sources = {"powerKey", "powerKeyDown", "inductive", "setProperty", "suspend", "setState"}
SPECIFICATION Spec
PROPERTIES
  DockModeNotEnteredOnCall
CHECK_DEADLOCK FALSE
