\* A phone with a keypad and a light sensor, and two subscribers of the sensor.
CONSTANTS
  Clients = {c1, c2}
  OnDevice = TRUE
  AlsEnabled = TRUE
  UiMinimal = FALSE
  HasSlider = TRUE
  HasTouchpanel = TRUE
  OutdoorScale = 250
  DimScale = 50
  DarkScale = 10
  Percent = {5, 100}
  MaxDisabled = 2
SPECIFICATION Spec
INVARIANTS
  PanelTypeOK
  SensorServesScreen
  BrightnessCurrent
  SubscribersKnowDark
  DisablersCounted
PROPERTIES
  KeypadCurrent
SYMMETRY ClientSymmetry
CHECK_DEADLOCK FALSE
