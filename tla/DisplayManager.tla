--------------------------- MODULE DisplayManager ---------------------------
(***************************************************************************)
(* The display manager of Src/base/DisplayManager.cpp: one object on the   *)
(* main loop that is driven by timers, by the power key and the touch      *)
(* panel, by the calls of other programs on the bus and by the signals of  *)
(* the services it watches.  Each handler runs to completion before the    *)
(* main loop calls the next one, so each is one action; what is left open  *)
(* is the order in which the main loop calls them.                         *)
(*                                                                         *)
(* powerd's suspend and resume signals arrive here at any time; the module *)
(* SuspendBlocker adds the exchange with powerd that precedes them.        *)
(***************************************************************************)
EXTENDS DisplayStates, FiniteSets

CONSTANTS
  Sources,    \* the sources of events that the instance has, see Source
  Clients,    \* messages that may be subscribed to setProperty at a time
  Emulator,   \* hardwareType is HardwareTypeEmulator or HardwareTypeDesktop
  MaxLed,     \* bound: requests waiting at the LED driver
  MaxDnast    \* bound: the DNAST count

Source == {"powerKey", "powerKeyDown", "touch", "setState", "lockStatus",
           "keyboard", "alert", "audiod", "keys", "usb", "inductive", "usbDock",
           "brightness", "bootmgr", "sleep", "setProperty", "timeout",
           "onWhenConnected", "prefsFailure", "proximityFailure", "security",
           "suspend"}

ASSUME InstanceAssumption ==
  /\ Sources \subseteq Source
  /\ IsFiniteSet(Clients)
  /\ Emulator \in BOOLEAN
  /\ MaxLed \in Nat
  /\ MaxDnast \in Nat

VARIABLES
  display,          \* the display record of DisplayStates
  onWhenConnected,  \* m_onWhenConnected: a USB cable keeps the screen on
  online,           \* m_powerdOnline
  alertState,       \* m_alertState; only Off and Dim are ever asked for
  alertTimer,       \* m_alertTimer runs
  powerTimer,       \* m_power runs
  dropPowerKey,     \* m_dropPowerKey
  blockedPowerKey,  \* m_blockedPowerKey
  proximityCount,   \* m_proximityCount
  held              \* what each subscribed setProperty message asks for

alerts == <<alertState, alertTimer>>
powerKey == <<powerTimer, dropPowerKey>>
counts == <<blockedPowerKey, proximityCount, held>>
settings == <<onWhenConnected, online>>
vars == <<display, settings, alerts, powerKey, counts>>

Block == {"requestBlock", "powerKeyBlock", "proximityEnabled"}

TypeOK ==
  /\ display \in Display
  /\ onWhenConnected \in BOOLEAN
  /\ online \in BOOLEAN
  /\ alertState \in {"Off", "Dim", "Undefined"}
  /\ alertTimer \in BOOLEAN
  /\ powerTimer \in BOOLEAN
  /\ dropPowerKey \in BOOLEAN
  /\ blockedPowerKey \in Nat
  /\ proximityCount \in Nat
  /\ held \in [Clients -> SUBSET Block]

-----------------------------------------------------------------------------
(* The constructor.  A stored timeout starts the timer of DisplayOn before *)
(* the state is entered; whether to stay on when connected is stored too.  *)
Boot(passcode) ==
  [state |-> "On", lock |-> "Invalid", timers |-> {}, restore |-> NoRestore,
   displayOn |-> FALSE, backlight |-> FALSE, touch |-> FALSE, led |-> <<>>,
   charger |-> {}, onCall |-> FALSE, proximity |-> FALSE, slider |-> FALSE,
   dnast |-> 0, booted |-> FALSE, passcode |-> passcode]

Init ==
  /\ \E passcode, storedTimeout \in BOOLEAN :
       display = EnterOn(IF storedTimeout
                         THEN StartInactivityTimer(Boot(passcode))
                         ELSE Boot(passcode), "ApiOn")
  /\ onWhenConnected \in BOOLEAN
  /\ online = FALSE
  /\ alertState = "Undefined"
  /\ alertTimer = FALSE
  /\ powerTimer = FALSE
  /\ dropPowerKey = FALSE
  /\ blockedPowerKey = 0
  /\ proximityCount = 0
  /\ held = [c \in Clients |-> {}]

-----------------------------------------------------------------------------
(* A handler leaves the display as d.  The bounds are the only guard that  *)
(* the code does not have.                                                 *)
Becomes(d) ==
  /\ Len(d.led) <= MaxLed
  /\ d.dnast <= MaxDnast
  /\ display' = d

(* The requests that several handlers make.                                *)

On(d) ==
  IF d.state \in {"On", "OnLocked", "OnPuck"} THEN d ELSE HandleEvent(d, "ApiOn")

(* Mutant: a DNAST does not keep the display on. *)
OffAnyway(d) ==
  IF d.state \in {"Off", "OffOnCall"} THEN d ELSE HandleEvent(d, "ApiOff")

Off(d) ==
  IF IsDNAST(d) \/ d.state \in {"Off", "OffOnCall"} THEN d
  ELSE HandleEvent(d, "ApiOff")

Dimmed(d) == IF d.state = "Dim" THEN d ELSE HandleEvent(d, "ApiDim")

Dock(d) == IF d.state = "DockMode" THEN d ELSE HandleEvent(d, "ApiDock")

Undock(d) == IF d.state = "DockMode" THEN HandleEvent(d, "ApiUndock") ELSE d

Lock(d) == HandleEvent(d, "LockScreen")

Unlock(d) == HandleEvent(d, "UnlockScreen")

PushDNAST(d, up) ==
  LET e == [d EXCEPT !.dnast = @ + 1]
  IN  IF ~up \/ e.dnast # 1 THEN e
      ELSE StopInactivityTimer(IF e.state \in {"Off", "Dim"} THEN On(e) ELSE e)

(* Mutant: the timer is not started again. *)
PopDNASTNoTimer(d) == IF d.dnast <= 0 THEN d ELSE [d EXCEPT !.dnast = @ - 1]

PopDNAST(d) ==
  LET e == [d EXCEPT !.dnast = @ - 1]
  IN  IF d.dnast <= 0 THEN d
      ELSE IF online /\ e.dnast <= 0 THEN StartInactivityTimer(e) ELSE e

-----------------------------------------------------------------------------
(* Timers and completions.                                                 *)

ExpireTimer(t) ==
  /\ t \in display.timers
  /\ Becomes(InactivityTimeout(display, t))
  /\ UNCHANGED <<settings, alerts, powerKey, counts>>

(* The LED driver completes its oldest request, which stands for one or    *)
(* several equal ones.                                                     *)
BacklightDone ==
  /\ display.led # <<>>
  /\ \E rest \in {display.led, Tail(display.led)} :
       LET d == [display EXCEPT !.led = rest]
       IN  Becomes(IF Head(display.led) THEN BacklightOnCallback(d)
                                        ELSE BacklightOffCallback(d))
  /\ UNCHANGED <<settings, alerts, powerKey, counts>>

-----------------------------------------------------------------------------
(* Keys and touches.                                                       *)

(* A press starts the timer of power() and has no other effect before the  *)
(* key's release: where nobody presses for long, releases are enough.      *)
PowerKeyDown ==
  /\ "powerKeyDown" \in Sources
  /\ dropPowerKey' = FALSE
  /\ powerTimer' =
       (powerTimer \/ display.state \in {"On", "OnPuck", "DockMode", "Dim"})
  /\ UNCHANGED <<display, settings, alerts, counts>>

(* power(): the key has been held for long; its release is dropped. *)
PowerKeyHeld ==
  /\ powerTimer
  /\ powerTimer' = FALSE
  /\ dropPowerKey' = TRUE
  /\ UNCHANGED <<display, settings, alerts, counts>>

PowerKeyUp ==
  /\ "powerKey" \in Sources
  /\ ~dropPowerKey
  /\ powerTimer' = FALSE
  /\ Becomes(IF \/ blockedPowerKey > 0
                \/ display.onCall /\ display.state = "OnPuck"
             THEN display ELSE HandleEvent(display, "PowerKeyPress"))
  /\ UNCHANGED <<settings, alerts, dropPowerKey, counts>>

Touch ==
  /\ "touch" \in Sources
  /\ display.state = "Dim"
  /\ Becomes(HandleEvent(display, "UserActivity"))
  /\ UNCHANGED <<settings, alerts, powerKey, counts>>

-----------------------------------------------------------------------------
(* Calls of other programs.                                                *)

SetState(value) ==
  /\ "setState" \in Sources
  /\ Becomes(CASE value = "on" -> IF display.state = "DockMode" THEN display
                                  ELSE On(display)
               [] value = "dimmed" -> Dimmed(display)
               [] value = "off" -> Off(display)
               [] value = "unlock" -> Unlock(On(display))
               [] value = "dock" -> Dock(display)
               [] value = "undock" -> Undock(display))
  /\ UNCHANGED <<settings, alerts, powerKey, counts>>

SetLockStatus(status) ==
  /\ "lockStatus" \in Sources
  /\ Becomes(IF status = "lock" THEN Lock(display) ELSE Unlock(display))
  /\ UNCHANGED <<settings, alerts, powerKey, counts>>

(* A Bluetooth keyboard has become active. *)
BluetoothKeyboardActive ==
  /\ "keyboard" \in Sources
  /\ Becomes(Unlock(display))
  /\ UNCHANGED <<settings, alerts, powerKey, counts>>

AlertState(s) == IF s \in {"Off", "Dim"} THEN s ELSE "Undefined"

(* What the display was before the alert, it is to be again. *)
BackFromAlert(d) ==
  CASE alertState = "Off" -> Off(d)
    [] alertState = "Dim" -> Dimmed(d)
    [] OTHER -> d

GenericActivated ==
  /\ alertState' = AlertState(display.state)
  /\ IF display.state \in {"On", "OnLocked", "OnPuck", "DockMode"}
     THEN UNCHANGED <<display, alertTimer>>
     ELSE alertTimer' = TRUE /\ Becomes(On(display))

PhonecallActivated ==
  IF display.state \in {"On", "OnLocked", "OnPuck"}
  THEN UNCHANGED <<display, alerts>>
  ELSE /\ alertTimer' = TRUE
       /\ alertState' = AlertState(display.state)
       /\ Becomes(HandleEvent(display, "IncomingCall"))

PhonecallDeactivated ==
  /\ Becomes(IF display.onCall THEN display
             ELSE HandleEvent(BackFromAlert(display), "IncomingCallDone"))
  /\ UNCHANGED alerts

GenericDeactivated ==
  Becomes(IF display.onCall THEN display ELSE BackFromAlert(display))

CancelAlert ==
  /\ alertState' = "Undefined"
  /\ alertTimer' = FALSE
  /\ UNCHANGED display

Alert ==
  /\ "alert" \in Sources
  /\ \/ GenericActivated
     \/ PhonecallActivated
     \/ PhonecallDeactivated
     \/ GenericDeactivated /\ UNCHANGED alerts
     \/ CancelAlert
  /\ UNCHANGED <<settings, powerKey, counts>>

AlertTimeout ==
  /\ alertTimer
  /\ alertTimer' = FALSE
  /\ GenericDeactivated
  /\ UNCHANGED <<settings, alertState, powerKey, counts>>

-----------------------------------------------------------------------------
(* setProperty and the end of its subscription.                            *)

(* The new timeouts take effect in the current state. *)
SetTimeout(d) == StartInactivityTimer(d)

(* Mutant: as if the cable were always connected. *)
SetOnWhenConnectedAlways(d, on) ==
  IF on = onWhenConnected THEN d
  ELSE IF on THEN PushDNAST(d, online) ELSE PopDNAST(d)

SetOnWhenConnected(d, on) ==
  IF on = onWhenConnected \/ ~IsUSBCharging(d) THEN d
  ELSE IF on THEN PushDNAST(d, online) ELSE PopDNAST(d)

(* The value differs from the present one.  A state that is not meant to   *)
(* be bright only gets the event.                                          *)
SetMaximumBrightness(d) ==
  IF d.state \in {"On", "OnPuck", "DockMode"}
  THEN [d EXCEPT !.led = Request(@, TRUE)]
  ELSE HandleEvent(d, "UpdateBrightness")

(* The sensor may refuse; nobody looks at the result. *)
ProximityOn(d, works) == IF works THEN [d EXCEPT !.proximity = TRUE] ELSE d

(* One call: what it blocks, whether it sets the timeout, what it sets     *)
(* onWhenConnected to (its present value, if the call is silent about it)  *)
(* and whether it changes the brightness.  The timeout and onWhenConnected *)
(* are stored by the preferences service; if that cannot be called the     *)
(* handler gives up there, and the message stays subscribed to what it had *)
(* come to.  The first message that asks for the proximity sensor turns it *)
(* on; if that fails, the message is counted all the same.                 *)
SetProperty(c, asks, timeout, on, bright, stored, works) ==
  LET kept == IF stored THEN asks ELSE asks \ {"proximityEnabled"}
      d1 == IF "requestBlock" \in asks THEN PushDNAST(display, online) ELSE display
      d2 == IF timeout THEN SetTimeout(d1) ELSE d1
      d3 == IF stored THEN SetOnWhenConnected(d2, on) ELSE d2
      d4 == IF stored /\ bright THEN SetMaximumBrightness(d3) ELSE d3
  IN  /\ "setProperty" \in Sources
      /\ held[c] = {}
      /\ timeout => "timeout" \in Sources
      /\ on # onWhenConnected => "onWhenConnected" \in Sources
      /\ bright => "brightness" \in Sources
      /\ ~stored => "prefsFailure" \in Sources
      /\ ~works => /\ "proximityFailure" \in Sources
                   /\ "proximityEnabled" \in kept
                   /\ proximityCount = 0 /\ ~display.proximity
      /\ Becomes(IF "proximityEnabled" \in kept /\ proximityCount = 0
                 THEN ProximityOn(d4, works) ELSE d4)
      /\ onWhenConnected' = IF stored THEN on ELSE onWhenConnected
      /\ blockedPowerKey' = IF "powerKeyBlock" \in asks
                            THEN blockedPowerKey + 1 ELSE blockedPowerKey
      /\ proximityCount' = IF "proximityEnabled" \in kept
                           THEN proximityCount + 1 ELSE proximityCount
      /\ held' = [held EXCEPT ![c] = IF kept = {} THEN {} ELSE asks]
      /\ UNCHANGED <<online, alerts, powerKey>>

(* cancelSubscription() undoes what the message asked for. *)
(* Mutants: the count is not corrected; the count is reset. *)
DecrementUncorrected(n) == n - 1

DecrementToZero(n) == 0

Decrement(n) == IF n > 0 THEN n - 1 ELSE 0

(* Mutant: the sensor is turned off behind a display that is off for it. *)
ProximityReleasedAnywhere(d, count, works) ==
  IF works /\ count = 0 THEN [d EXCEPT !.proximity = FALSE] ELSE d

(* A sensor that refuses to be turned off goes on, and counts as a call.   *)
ProximityReleased(d, count, works) ==
  IF works /\ count = 0 /\ d.state # "OffOnCall"
  THEN [d EXCEPT !.proximity = FALSE] ELSE d

CancelSubscription(c, works) ==
  LET unblocked == IF "requestBlock" \in held[c] THEN PopDNAST(display) ELSE display
  IN  /\ held[c] # {}
      /\ ~works => /\ "proximityFailure" \in Sources
                   /\ "proximityEnabled" \in held[c]
                   /\ Decrement(proximityCount) = 0
                   /\ display.proximity /\ display.state # "OffOnCall"
      /\ held' = [held EXCEPT ![c] = {}]
      /\ blockedPowerKey' = IF "powerKeyBlock" \in held[c]
                            THEN Decrement(blockedPowerKey) ELSE blockedPowerKey
      /\ proximityCount' = IF "proximityEnabled" \in held[c]
                           THEN Decrement(proximityCount) ELSE proximityCount
      /\ Becomes(IF "proximityEnabled" \in held[c]
                 THEN ProximityReleased(unblocked, proximityCount', works)
                 ELSE unblocked)
      /\ UNCHANGED <<settings, alerts, powerKey>>

-----------------------------------------------------------------------------
(* The services it watches.                                                *)

(* audiod: a headset button, and whether a call is on. *)
AudiodCallback(headset, inCall) ==
  LET d == IF headset THEN HandleEvent(display, "UserActivity") ELSE display
      e == [d EXCEPT !.onCall = inCall]
  IN  /\ "audiod" \in Sources
      /\ Becomes(IF inCall = d.onCall THEN d
                 ELSE IF inCall THEN HandleEvent(e, "OnCall")
                 ELSE HandleEvent(HandleEvent(e, "OffCall"), "AlsChange"))
      /\ UNCHANGED <<settings, alerts, powerKey, counts>>

(* The slider's position is only noted. *)
SliderCallback(open) ==
  /\ "keys" \in Sources
  /\ Becomes([display EXCEPT !.slider = open])
  /\ UNCHANGED <<settings, alerts, powerKey, counts>>

(* updateState() for the four charger events. *)
ChargerEvent(d, c, connected) ==
  CASE c = "usb" /\ connected ->
         HandleEvent(IF onWhenConnected THEN PushDNAST(d, online) ELSE d, "UsbIn")
    [] c = "usb" /\ ~connected ->
         HandleEvent(IF onWhenConnected THEN PopDNAST(d) ELSE d, "UsbOut")
    [] c = "inductive" /\ connected -> HandleEvent(d, "OnPuck")
    [] c = "inductive" /\ ~connected -> HandleEvent(d, "OffPuck")

Attach(chargers, c, connected) ==
  IF connected THEN chargers \cup {c} ELSE chargers \ {c}

ChargerCallback(c, connected) ==
  LET new == Attach(display.charger, c, connected)
      d == [display EXCEPT !.charger = new]
      e == IF new = display.charger THEN d ELSE ChargerEvent(d, c, connected)
  IN  /\ c \in Sources
      /\ Becomes(HandleEvent(e, "UpdateBrightness"))
      /\ UNCHANGED <<settings, alerts, powerKey, counts>>

(* The dock's status carries both chargers.  The states hear of the change *)
(* before m_chargerConnected does.                                         *)
UsbDockCallback(dock, usb) ==
  LET old == display.charger
      docked == Attach(old, "inductive", dock)
      new == Attach(docked, "usb", usb)
      d == IF docked = old THEN display ELSE ChargerEvent(display, "inductive", dock)
      e == IF new = old \/ "inductive" \in old THEN d ELSE ChargerEvent(d, "usb", usb)
  IN  /\ "usbDock" \in Sources
      /\ Becomes(HandleEvent([e EXCEPT !.charger = new], "UpdateBrightness"))
      /\ UNCHANGED <<settings, alerts, powerKey, counts>>

(* A new battery level, a new light region, or automatic brightness turned *)
(* off.                                                                    *)
UpdateBrightness ==
  /\ "brightness" \in Sources
  /\ Becomes(HandleEvent(display, "UpdateBrightness"))
  /\ UNCHANGED <<settings, alerts, powerKey, counts>>

(* The boot manager reports that the system is up: for the first time, or  *)
(* again after the user interface was restarted.                           *)
MarkBootFinished ==
  /\ "bootmgr" \in Sources
  /\ Becomes([(IF display.booted THEN On(display) ELSE display)
                EXCEPT !.booted = TRUE])
  /\ UNCHANGED <<settings, alerts, powerKey, counts>>

(* powerd appears on the bus or leaves it.  A display that must never go   *)
(* dark says so every time.                                                *)
PowerdServiceNotification(connected) ==
  LET d == IF connected THEN On(display) ELSE display
  IN  /\ "sleep" \in Sources
      /\ online' = connected
      /\ Becomes(IF Emulator THEN PushDNAST(d, connected) ELSE d)
      /\ UNCHANGED <<onWhenConnected, alerts, powerKey, counts>>

(* Security sets or clears the passcode, or a policy begins or ceases to   *)
(* require one.  The display manager only ever asks.                       *)
PasscodeChange ==
  /\ "security" \in Sources
  /\ Becomes([display EXCEPT !.passcode = ~@])
  /\ UNCHANGED <<settings, alerts, powerKey, counts>>

-----------------------------------------------------------------------------
(* What SuspendBlocker asks for.                                           *)

AllowSuspend(d) == d.state = "Off" /\ ~d.backlight

SetSuspended(suspended) ==
  /\ Becomes(HandleEvent(display, IF suspended THEN "PowerdSuspend"
                                               ELSE "PowerdResume"))
  /\ UNCHANGED <<settings, alerts, powerKey, counts>>

Suspend == "suspend" \in Sources /\ SetSuspended(TRUE)

Resume == "suspend" \in Sources /\ SetSuspended(FALSE)

-----------------------------------------------------------------------------

Timeouts == \E t \in Timer : ExpireTimer(t)

UnlockRequest ==
  \/ SetState("unlock")
  \/ SetLockStatus("unlock")
  \/ BluetoothKeyboardActive

(* Everything but what SuspendBlocker asks for. *)
DisplayNext ==
  \/ Timeouts
  \/ BacklightDone
  \/ PowerKeyDown \/ PowerKeyHeld \/ PowerKeyUp
  \/ Touch
  \/ UnlockRequest
  \/ \E value \in {"on", "dimmed", "off", "dock", "undock"} : SetState(value)
  \/ SetLockStatus("lock")
  \/ Alert \/ AlertTimeout
  \/ \E c \in Clients, asks \in SUBSET Block,
        timeout, on, bright, stored, works \in BOOLEAN :
       SetProperty(c, asks, timeout, on, bright, stored, works)
  \/ \E c \in Clients, works \in BOOLEAN : CancelSubscription(c, works)
  \/ \E headset, inCall \in BOOLEAN : AudiodCallback(headset, inCall)
  \/ \E open \in BOOLEAN : SliderCallback(open)
  \/ \E c \in Charger, connected \in BOOLEAN : ChargerCallback(c, connected)
  \/ \E dock, usb \in BOOLEAN : UsbDockCallback(dock, usb)
  \/ UpdateBrightness
  \/ MarkBootFinished
  \/ \E connected \in BOOLEAN : PowerdServiceNotification(connected)
  \/ PasscodeChange

Next == DisplayNext \/ Suspend \/ Resume

Spec == Init /\ [][Next]_vars

(* The main loop serves its timers, the LED driver answers every request,  *)
(* and powerd resumes the device some time after it has suspended it.      *)
Fairness ==
  /\ \A t \in Timer : WF_vars(ExpireTimer(t))
  /\ WF_vars(BacklightDone)
  /\ WF_vars(Resume)

FairSpec == Spec /\ Fairness

-----------------------------------------------------------------------------
(* Invariants.                                                             *)

(* A timer only runs in the state that owns it, and never two of them, in  *)
(* whatever way changeDisplayState() calls were nested.                    *)
TimersBelongToState == TimersBelong(display)

(* m_lockState agrees with the state, although enter() changes it in the   *)
(* middle of a transition and a refused unlock changes it twice.           *)
LockMatchesState == LockMatches(display)

(* The panel is wanted in the lit states only, and once the LED driver has *)
(* caught up backlight and touch panel agree with the state.               *)
PanelFollowsState == PanelFollows(display)

(* The display is dark for a call only while it believes in the call: the  *)
(* end of the call and the end of the proximity sensor both lead out.      *)
OffOnCallOnlyInCall == DarkForCall(display)

Holders(b) == {c \in Clients : b \in held[c]}

(* The DNAST count is what the clients and the USB cable hold, whatever    *)
(* the order of cables, settings, clients that vanish and powerd restarts. *)
DnastMatchesHolders ==
  display.dnast = Cardinality(Holders("requestBlock"))
                  + (IF IsUSBCharging(display) /\ onWhenConnected THEN 1 ELSE 0)

-----------------------------------------------------------------------------
(* What a step may never do.                                               *)

(* With a passcode set the screen is unlocked only at somebody's request,  *)
(* or for a call: no key, timer, charger, alert or resume unlocks it.      *)
UnlockAuthorised ==
  [][ /\ display.lock # "Unlocked" /\ display'.lock = "Unlocked"
      /\ display.passcode
      => UnlockRequest \/ IsOnCall(display) \/ IsOnCall(display') ]_vars

(* While a client blocks the power key, the key does nothing. *)
BlockedKeyDoesNothing ==
  [][ Holders("powerKeyBlock") # {} /\ PowerKeyUp => UNCHANGED display ]_vars

(* While somebody holds a DNAST the panel goes dark by the power key only. *)
DnastKeepsPanelOn ==
  [][ IsDNAST(display) /\ IsDNAST(display') /\ display.displayOn
      => display'.displayOn \/ PowerKeyUp ]_vars

(* proximityOn() or proximityOff() has failed. *)
ProximityRefuses ==
  \/ \E c \in Clients, asks \in SUBSET Block, timeout, on, bright, stored \in BOOLEAN :
       SetProperty(c, asks, timeout, on, bright, stored, FALSE)
  \/ \E c \in Clients : CancelSubscription(c, FALSE)

ProximityWanted == Holders("proximityEnabled") # {}

(* Among its clients come and gone in any order, the sensor parts from     *)
(* them in two ways only: it refuses, or the last of them leaves while the *)
(* display is dark for a call.  A wanted sensor that is off has refused    *)
(* the client that asked first; one that is on unwanted has refused to be  *)
(* turned off or was left on.                                              *)
ProximityServesHolders ==
  [][ /\ ProximityWanted' /\ ~display'.proximity
         => (ProximityWanted /\ ~display.proximity) \/ ProximityRefuses
      /\ ~ProximityWanted' /\ display'.proximity
         => \/ ~ProximityWanted /\ display.proximity
            \/ display.state = "OffOnCall"
            \/ ProximityRefuses ]_vars

(* Lit, and neither held so nor timed. *)
Untimed(d) ==
  /\ d.state \in {"On", "OnLocked", "Dim", "OnPuck"}
  /\ d.timers = {}
  /\ ~IsDNAST(d)
  /\ ~(d.state = "OnPuck" /\ IsOnCall(d))

(* The display is left lit without a timer in three ways only: a timer has *)
(* fired before the boot was over, a DNAST was popped with powerd away, or *)
(* the proximity sensor, which OnPuck takes for a call, was turned off.    *)
(* (A cable that the dock's status has hidden from the DNAST count is a    *)
(* fourth, with powerd away: a message that sets the timeout, blocks it    *)
(* and ends onWhenConnected then pops its own DNAST.)                      *)
UntimedByKnownCauses ==
  [][ ~Untimed(display) /\ Untimed(display')
      => \/ ~display.booted /\ Timeouts
         \/ ~online /\ IsDNAST(display)
         \/ display.proximity /\ ~display'.proximity ]_vars

-----------------------------------------------------------------------------
(* What the user may rely on: see Screen.                                  *)

FaceOf(s) ==
  CASE s \in {"On", "OnPuck"} -> "open"
    [] s = "OnLocked" -> "locked"
    [] s = "DockMode" -> "dock"
    [] s = "Dim" -> "dim"
    [] s = "OffSuspended" -> "asleep"
    [] OTHER -> "dark"

Abstract == INSTANCE Screen WITH
  face <- FaceOf(display.state), lock <- display.lock,
  secured <- display.passcode, call <- IsOnCall(display)

(* The display manager implements Screen: in whatever way its handlers     *)
(* nest, a step of it takes the screen that other programs see by one step *)
(* of Screen or leaves it.                                                 *)
ImplementsScreen == Abstract!ScreenSpec

-----------------------------------------------------------------------------
(* Liveness.                                                               *)

Idle == Timeouts \/ BacklightDone

(* Once nobody does anything any more, and the boot is over and no DNAST   *)
(* held, an armed inactivity timer is followed by darkness or dock mode,   *)
(* and backlight and touch panel catch up.                                 *)
QuietSettles ==
  <>[][Idle]_vars
  => \/ []<>(~display.booted \/ IsDNAST(display) \/ Untimed(display))
     \/ <>[](/\ \/ display.state \in Dark \cup {"DockMode"}
                \/ display.state = "OnPuck" /\ IsOnCall(display)
             /\ display.backlight = display.displayOn)

-----------------------------------------------------------------------------
(* What the comments of the code say, and the code does not do.            *)

(* DisplayDockMode::enter(): "should never be in DisplayDockMode when on a *)
(* call".  The state to resume to is chosen before the sensor is turned on. *)
DockModeNotEnteredOnCall ==
  [][ display.state # "DockMode" /\ display'.state = "DockMode"
      => ~IsOnCall(display') ]_vars

=============================================================================
