\* A demo build without locking on the emulator, which pushes a DNAST whenever
\* powerd comes or goes; messages whose settings cannot be stored; calls.  What
\* is started settles once nobody does anything any more.
CONSTANTS
  HasSlider = FALSE
  UiMinimal = FALSE
  DisableLocking = TRUE
  HasTouchpanel = TRUE
  Demo = TRUE
  Emulator = TRUE
  Clients = {c1}
  MaxLed = 1
  MaxDnast = 3
  Sources = {"setProperty", "timeout", "prefsFailure", "onWhenConnected", "usbDock", "powerKey", "powerKeyDown", "audiod", "bootmgr", "sleep"}
SPECIFICATION FairSpec
INVARIANTS
  TypeOK
PROPERTIES
  QuietSettles
CHECK_DEADLOCK FALSE
