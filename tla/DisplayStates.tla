--------------------------- MODULE DisplayStates ---------------------------
(***************************************************************************)
(* The eight display states of Src/base/DisplayStates.cpp.                 *)
(*                                                                         *)
(* A handler of the display runs to completion on the main loop, calling   *)
(* other handlers on the way: handleEvent() calls changeDisplayState(),    *)
(* which leaves one state and enters the next, which may lock the screen   *)
(* and so change the state once more.  The module therefore describes a    *)
(* handler as an operator from the display record before the call to the   *)
(* display record after it, and a nested call as the composition of two    *)
(* operators.  DisplayManager turns them into actions.                     *)
(*                                                                         *)
(* The fields of a display record d, and the members they stand for:       *)
(*   state      m_currentState->state()                                    *)
(*   lock       m_lockState                                                *)
(*   timers     the inactivity timers of the state objects that run        *)
(*   restore    m_restoreState and m_restoreDisplayEvent of OffSuspended   *)
(*   displayOn, backlight, touch    m_displayOn, m_backlightIsOn,          *)
(*              m_touchpanelIsOn                                           *)
(*   led        backlight requests the LED driver has not yet completed    *)
(*   charger    m_chargerConnected, as the set of its bits                 *)
(*   onCall, proximity    m_onCall, m_proximityEnabled                     *)
(*   slider     m_sliderOpen                                               *)
(*   dnast      m_dnast, the "do not allow screen timeout" count           *)
(*   booted     m_bootFinished                                             *)
(*   passcode   what unlockRequiresPasscode() would answer                 *)
(* DisplayManager adds fields that the states do not read.                 *)
(***************************************************************************)
EXTENDS Integers, Sequences

CONSTANTS
  HasSlider,      \* the device has a sliding keyboard
  UiMinimal,      \* Settings uiType is UI_MINIMAL
  DisableLocking, \* Settings disableLocking
  HasTouchpanel,  \* the host has an input control for the touch panel
  Demo            \* m_demo: the build name is Nova-Demo

ASSUME SettingsAssumption ==
  /\ HasSlider \in BOOLEAN
  /\ UiMinimal \in BOOLEAN
  /\ DisableLocking \in BOOLEAN
  /\ HasTouchpanel \in BOOLEAN
  /\ Demo \in BOOLEAN

-----------------------------------------------------------------------------

State == {"Off", "OffOnCall", "On", "OnLocked", "Dim", "OnPuck", "DockMode",
          "OffSuspended"}

Event == {"PowerKeyPress", "PowerKeyHold", "OnPuck", "OffPuck", "UsbIn",
          "UsbOut", "IncomingCall", "IncomingCallDone", "OnCall", "OffCall",
          "SliderOpen", "SliderClose", "AlsChange", "ProximityOn",
          "ProximityOff", "ApiOn", "ApiDim", "ApiOff", "UserActivity",
          "UpdateBrightness", "LockScreen", "UnlockScreen", "Timeout",
          "ApiDock", "ApiUndock", "PowerdSuspend", "PowerdResume",
          "UserActivityExternalInput", "HomeKeyPress"}

LockState == {"Invalid", "Locked", "Unlocked", "DockMode"}

Charger == {"usb", "inductive"}

(* The states in which the panel is meant to be dark. *)
Dark == {"Off", "OffOnCall", "OffSuspended"}

(* Each state object owns its inactivity timers.  DisplayDockMode has one  *)
(* that nothing starts.                                                    *)
Timer == {"OnUser", "OnInternal", "OnLocked", "Dim", "OnPuck"}

TimersOf(s) ==
  CASE s = "On" -> {"OnUser", "OnInternal"}
    [] s \in {"OnLocked", "Dim", "OnPuck"} -> {s}
    [] OTHER -> {}

(* The records of a display, in the types of the members.                  *)
Display ==
  [state : State, lock : LockState, timers : SUBSET Timer,
   restore : [state : State, event : Event],
   displayOn : BOOLEAN, backlight : BOOLEAN, touch : BOOLEAN,
   led : Seq(BOOLEAN), charger : SUBSET Charger,
   onCall : BOOLEAN, proximity : BOOLEAN, slider : BOOLEAN,
   dnast : Nat, booted : BOOLEAN, passcode : BOOLEAN]

-----------------------------------------------------------------------------
(* What the states ask of the display manager.                             *)

IsUSBCharging(d) == "usb" \in d.charger

(* Any charger counts as the puck, a USB cable as well. *)
IsOnPuck(d) == d.charger # {}

IsOnCall(d) == d.onCall \/ d.proximity

IsDNAST(d) == d.dnast > 0

IsDisplayUnlocked(d) ==
  \/ IsUSBCharging(d)
  \/ HasSlider /\ d.slider
  \/ UiMinimal
  \/ DisableLocking

-----------------------------------------------------------------------------
(* Backlight and touch panel.  The LED driver answers a request through a  *)
(* callback some time later; equal requests in a row are kept once.        *)

Request(q, on) == IF q # <<>> /\ q[Len(q)] = on THEN q ELSE Append(q, on)

(* displayOn(): the backlight first, the touch panel when it has come on. *)
ScreenOn(d) == [d EXCEPT !.displayOn = TRUE, !.led = Request(@, TRUE)]

(* displayDim() asks for a tenth of the brightness: still a lit backlight. *)
ScreenDim(d) == [d EXCEPT !.displayOn = TRUE, !.led = Request(@, TRUE)]

(* displayOff(): the touch panel first, at once; only then, and only if    *)
(* there is a touch panel to turn off, the backlight.                      *)
ScreenOff(d) ==
  [d EXCEPT !.displayOn = FALSE,
            !.touch = @ /\ ~HasTouchpanel,
            !.led = IF HasTouchpanel THEN Request(@, FALSE) ELSE @]

(* Mutant: the touch panel is turned on whether or not it is still wanted. *)
BacklightOnCallbackUnchecked(d) ==
  [d EXCEPT !.backlight = TRUE, !.touch = HasTouchpanel]

(* backlightOnCallback(): the touch panel follows if it is still wanted. *)
BacklightOnCallback(d) ==
  [d EXCEPT !.backlight = TRUE, !.touch = @ \/ (HasTouchpanel /\ d.displayOn)]

(* Mutant: the flag is forgotten. *)
BacklightOffCallbackForgets(d) == d

BacklightOffCallback(d) == [d EXCEPT !.backlight = FALSE]

-----------------------------------------------------------------------------
(* Inactivity timers.                                                      *)

StopInactivityTimer(d) == [d EXCEPT !.timers = @ \ TimersOf(d.state)]

(* The timer that startInactivityTimer() of the state starts. *)
InactivityTimer(d) ==
  CASE d.state = "On" /\ ~IsDNAST(d) -> {"OnUser"}
    [] d.state = "OnLocked" /\ ~IsDNAST(d) -> {"OnLocked"}
    [] d.state = "Dim" -> {"Dim"}
    [] d.state = "OnPuck" /\ ~IsDNAST(d) /\ ~IsOnCall(d) -> {"OnPuck"}
    [] OTHER -> {}

StartInactivityTimer(d) ==
  [d EXCEPT !.timers = (@ \ TimersOf(d.state)) \cup InactivityTimer(d)]

(* The quick timer of DisplayOn, unless the slow one is running. *)
StartInternalInactivityTimer(d) ==
  IF IsDNAST(d) \/ "OnUser" \in d.timers
  THEN d
  ELSE [d EXCEPT !.timers = @ \cup {"OnInternal"}]

-----------------------------------------------------------------------------
(* Leaving and entering a state, and the lock.                             *)

(* What DisplayOffSuspended holds before it has been entered.  The members  *)
(* are overwritten whenever it is entered, so what it noted is forgotten    *)
(* when it is left.                                                        *)
NoRestore == [state |-> "Off", event |-> "PowerdResume"]

(* Mutant: the timers of the state that is left go on. *)
LeaveRunning(d) == [d EXCEPT !.restore =
                      IF d.state = "OffSuspended" THEN NoRestore ELSE @]

Leave(d) == [StopInactivityTimer(d) EXCEPT !.restore =
               IF d.state = "OffSuspended" THEN NoRestore ELSE @]

SetLock(d, l) == [d EXCEPT !.lock = l]

(* Mutant: turning the screen on counts as a request to unlock it. *)
UnlockRefusedNotByApi(d, ev) ==
  /\ d.lock # "Unlocked"
  /\ d.passcode
  /\ ev \notin {"UnlockScreen", "ApiOn"}
  /\ ~IsOnCall(d)

(* updateLockState(DisplayLockUnlocked) takes m_lockState to Unlocked and  *)
(* then finds that a passcode is needed.                                   *)
UnlockRefused(d, ev) ==
  /\ d.lock # "Unlocked"
  /\ d.passcode
  /\ ev # "UnlockScreen"
  /\ ~IsOnCall(d)

EnterOff(d, old) ==
  LET e == [d EXCEPT !.state = "Off"] IN
  IF old = "OffSuspended" THEN e ELSE SetLock(ScreenOff(e), "Locked")

EnterOffOnCall(d) == ScreenOff([d EXCEPT !.state = "OffOnCall"])

EnterOnLocked(d) ==
  StartInactivityTimer(
    ScreenOn(SetLock([d EXCEPT !.state = "OnLocked"], "Locked")))

(* A refused unlock calls lock(): the state just entered handles           *)
(* LockScreen, leaves, and OnLocked is entered.  Back in enter(), nothing  *)
(* more happens.                                                           *)
LockInstead(d) ==
  LET e == SetLock(d, "Unlocked")
      f == IF d.state = "On" THEN StartInactivityTimer(e) ELSE e
  IN  EnterOnLocked(Leave(f))

EnterOn(d, ev) ==
  LET e == [d EXCEPT !.state = "On"]
      u == ScreenOn(SetLock(e, "Unlocked"))
  IN  IF UnlockRefused(e, ev) THEN LockInstead(e)
      ELSE IF ev = "ApiOn" THEN StartInternalInactivityTimer(u)
      ELSE StartInactivityTimer(u)

EnterOnPuck(d, ev) ==
  LET e == ScreenOn([d EXCEPT !.state = "OnPuck"])
  IN  IF UnlockRefused(e, ev) THEN LockInstead(e)
      ELSE StartInactivityTimer(SetLock(e, "Unlocked"))

EnterDim(d) == StartInactivityTimer(ScreenDim([d EXCEPT !.state = "Dim"]))

(* Mutant: the lock state is not told. *)
EnterDockModeUnlocked(d) == ScreenOn([d EXCEPT !.state = "DockMode"])

EnterDockMode(d) == ScreenOn(SetLock([d EXCEPT !.state = "DockMode"], "DockMode"))

EnterOffSuspended(d, old) ==
  ScreenOff([d EXCEPT !.state = "OffSuspended",
                      !.restore = [state |-> old, event |-> "PowerdResume"]])

(* DisplayManager::changeDisplayState(): the new state object becomes the  *)
(* current one before its enter() runs.                                    *)
Enter(d, s, ev) ==
  CASE s = "Off" -> EnterOff(d, d.state)
    [] s = "OffOnCall" -> EnterOffOnCall(d)
    [] s = "On" -> EnterOn(d, ev)
    [] s = "OnLocked" -> EnterOnLocked(d)
    [] s = "Dim" -> EnterDim(d)
    [] s = "OnPuck" -> EnterOnPuck(d, ev)
    [] s = "DockMode" -> EnterDockMode(d)
    [] s = "OffSuspended" -> EnterOffSuspended(d, d.state)

ChangeDisplayState(d, s, ev) ==
  IF s = d.state THEN d ELSE Enter(Leave(d), s, ev)

-----------------------------------------------------------------------------
(* handleEvent().  Target is the state the handler changes to, or the state *)
(* the display is in when it does not change; SideEffect is what the        *)
(* handler does besides.  m_proximityActivated is never set in this         *)
(* program, so the tests of isProximityActivated() always let through.      *)

(* Wake without asking for a lock screen. *)
UnlockedTarget(d) == IF IsOnPuck(d) THEN "OnPuck" ELSE "On"

(* Wake to the lock screen, unless the puck or the device overrides it. *)
LockedTarget(d) ==
  IF IsOnPuck(d) THEN "OnPuck"
  ELSE IF IsDisplayUnlocked(d) THEN "On" ELSE "OnLocked"

(* Placed on the puck: dock mode, unless there is something to show. *)
DockTarget(d) ==
  IF IsDisplayUnlocked(d) \/ IsOnCall(d) THEN "OnPuck" ELSE "DockMode"

(* Wake by a key. *)
KeyTarget(d) ==
  IF IsOnPuck(d) THEN DockTarget(d)
  ELSE IF IsDisplayUnlocked(d) \/ IsOnCall(d) THEN "On" ELSE "OnLocked"

(* Turn off by inactivity, the power key or the API. *)
SleepTarget(d) ==
  IF IsOnCall(d) THEN "OffOnCall"
  ELSE IF IsOnPuck(d) THEN "DockMode" ELSE "Off"

OffTarget(d, ev) ==
  CASE ev = "PowerKeyPress" -> IF d.backlight THEN "Off" ELSE KeyTarget(d)
    [] ev = "HomeKeyPress" -> KeyTarget(d)
    [] ev \in {"PowerKeyHold", "IncomingCall", "OnCall", "UserActivity"} ->
         LockedTarget(d)
    [] ev \in {"UsbIn", "SliderOpen", "UserActivityExternalInput"} ->
         UnlockedTarget(d)
    [] ev = "OnPuck" -> DockTarget(d)
    [] ev = "ApiOn" -> IF IsOnPuck(d) /\ ~IsOnCall(d)
                       THEN "DockMode" ELSE LockedTarget(d)
    [] ev = "ApiDock" /\ ~IsOnCall(d) -> "DockMode"
    [] ev = "PowerdSuspend" -> "OffSuspended"
    [] OTHER -> "Off"

(* Mutant: the end of the call is overlooked. *)
OffOnCallTargetForever(d, ev) ==
  IF ev \in {"PowerKeyPress", "ApiOn", "UserActivity"} THEN UnlockedTarget(d)
  ELSE "OffOnCall"

(* Mutant: powerd's suspend is taken for granted during a call. *)
OffOnCallTargetSuspends(d, ev) ==
  CASE ev = "PowerdSuspend" -> "OffSuspended"
    [] ev \in {"OffCall", "ProximityOff", "ApiOn", "UserActivity"} ->
         UnlockedTarget(d)
    [] OTHER -> "OffOnCall"

OffOnCallTarget(d, ev) ==
  CASE ev = "PowerKeyPress" ->
         IF d.backlight THEN "OffOnCall" ELSE UnlockedTarget(d)
    [] ev \in {"PowerKeyHold", "IncomingCall", "OffCall", "SliderOpen",
               "ProximityOff", "ApiOn", "UserActivity",
               "UserActivityExternalInput", "HomeKeyPress"} ->
         UnlockedTarget(d)
    [] ev = "OnPuck" -> "OnPuck"
    [] OTHER -> "OffOnCall"

OnTarget(d, ev) ==
  CASE ev = "PowerKeyPress" -> IF d.backlight THEN SleepTarget(d) ELSE "On"
    [] ev = "ApiOff" -> SleepTarget(d)
    [] ev = "OnPuck" -> "OnPuck"
    [] ev = "ProximityOn" -> "OffOnCall"
    [] ev = "ApiDim" -> "Dim"
    [] ev = "LockScreen" /\ ~IsOnCall(d) -> "OnLocked"
    [] ev = "ApiDock" /\ ~IsOnCall(d) -> "DockMode"
    [] OTHER -> "On"

OnLockedTarget(d, ev) ==
  CASE ev = "ApiOff" \/ (ev = "PowerKeyPress" /\ d.backlight) ->
         IF IsOnCall(d) THEN "OffOnCall" ELSE "Off"
    [] ev = "ProximityOn" -> "OffOnCall"
    [] ev = "ApiDock" /\ ~IsOnCall(d) -> "DockMode"
    [] ev = "UnlockScreen" -> IF IsOnPuck(d) THEN DockTarget(d) ELSE "On"
    [] OTHER -> "OnLocked"

DimTarget(d, ev) ==
  CASE ev \in {"PowerKeyPress", "SliderClose", "ApiOff"} -> SleepTarget(d)
    [] ev \in {"PowerKeyHold", "UsbIn", "IncomingCall", "ApiOn",
               "HomeKeyPress", "UserActivity", "UserActivityExternalInput"} ->
         UnlockedTarget(d)
    [] ev = "OnPuck" -> "OnPuck"
    [] ev = "OffPuck" -> "On"
    [] ev = "ProximityOn" /\ IsOnCall(d) -> "OffOnCall"
    [] ev = "LockScreen" -> "OnLocked"
    [] ev = "ApiDock" /\ ~IsOnCall(d) -> "DockMode"
    [] OTHER -> "Dim"

OnPuckTarget(d, ev) ==
  CASE ev = "PowerKeyPress" -> IF IsOnCall(d) THEN "Off" ELSE "DockMode"
    [] ev = "ApiOff" -> IF IsOnCall(d) THEN "OffOnCall" ELSE "DockMode"
    [] ev = "OffPuck" -> "On"
    [] ev = "ApiDock" /\ ~IsOnCall(d) -> "DockMode"
    [] ev = "LockScreen" /\ ~IsOnCall(d) -> "OnLocked"
    [] OTHER -> "OnPuck"

DockModeTarget(d, ev) ==
  CASE ev = "PowerKeyPress" -> "Off"
    [] ev = "OffPuck" -> "On"
    [] ev \in {"OnCall", "ApiOn", "ApiUndock", "HomeKeyPress"} ->
         UnlockedTarget(d)
    [] ev = "LockScreen" /\ ~IsOnCall(d) -> "OnLocked"
    [] OTHER -> "DockMode"

(* OffSuspended changes state on resume only; until then it notes in       *)
(* m_restoreState the state that an event would have led to.               *)
OffSuspendedTarget(d, ev) ==
  IF ev = "PowerdResume" THEN d.restore.state ELSE "OffSuspended"

RestoreTarget(d, ev) ==
  CASE ev \in {"PowerKeyPress", "HomeKeyPress"} -> KeyTarget(d)
    [] ev \in {"PowerKeyHold", "IncomingCall", "OnCall", "ApiOn"} ->
         LockedTarget(d)
    [] ev = "UserActivity" /\ (IsOnPuck(d) \/ IsDisplayUnlocked(d)) ->
         UnlockedTarget(d)
    [] ev \in {"UsbIn", "SliderOpen", "UserActivityExternalInput"} ->
         UnlockedTarget(d)
    [] ev = "OnPuck" -> DockTarget(d)
    [] OTHER -> d.restore.state

Target(d, ev) ==
  CASE d.state = "Off" -> OffTarget(d, ev)
    [] d.state = "OffOnCall" -> OffOnCallTarget(d, ev)
    [] d.state = "On" -> OnTarget(d, ev)
    [] d.state = "OnLocked" -> OnLockedTarget(d, ev)
    [] d.state = "Dim" -> DimTarget(d, ev)
    [] d.state = "OnPuck" -> OnPuckTarget(d, ev)
    [] d.state = "DockMode" -> DockModeTarget(d, ev)
    [] d.state = "OffSuspended" -> OffSuspendedTarget(d, ev)

OffOnCallSideEffect(d, ev) ==
  CASE ev = "LockScreen" -> SetLock(d, "Locked")
    [] ev = "UnlockScreen" -> SetLock(d, "Unlocked")
    [] OTHER -> d

(* Every event restarts the user timer, except a change of the light. *)
OnSideEffect(d, ev) ==
  LET light == {"AlsChange", "UpdateBrightness"}
      e == IF ev \in light THEN d ELSE StartInactivityTimer(d)
  IN  IF ev \in light \cup {"SliderOpen"} THEN ScreenOn(e) ELSE e

(* Mutant: the timer is not started when the call is over. *)
OnPuckSideEffectNoRestart(d, ev) ==
  CASE ev = "OnCall" -> StopInactivityTimer(d)
    [] ev \in {"AlsChange", "UpdateBrightness"} -> ScreenOn(d)
    [] OTHER -> d

OnPuckSideEffect(d, ev) ==
  CASE ev = "OnCall" -> StopInactivityTimer(d)
    [] ev = "OffCall" /\ ~IsOnCall(d) -> StartInactivityTimer(d)
    [] ev \in {"AlsChange", "UpdateBrightness"} -> ScreenOn(d)
    [] OTHER -> d

(* What RestoreTarget leaves alone keeps its event as well. *)
OffSuspendedSideEffect(d, ev) ==
  LET noted == \/ ev \in {"PowerKeyPress", "HomeKeyPress", "PowerKeyHold",
                          "IncomingCall", "OnCall", "ApiOn", "UsbIn", "OnPuck",
                          "SliderOpen", "UserActivityExternalInput"}
               \/ ev = "UserActivity" /\ (IsOnPuck(d) \/ IsDisplayUnlocked(d))
  IN  IF noted
      THEN [d EXCEPT !.restore = [state |-> RestoreTarget(d, ev), event |-> ev]]
      ELSE d

SideEffect(d, ev) ==
  CASE d.state = "OffOnCall" -> OffOnCallSideEffect(d, ev)
    [] d.state = "On" -> OnSideEffect(d, ev)
    [] d.state = "OnLocked" /\ ev \in {"AlsChange", "UpdateBrightness"} ->
         ScreenOn(d)
    [] d.state = "OnPuck" -> OnPuckSideEffect(d, ev)
    [] d.state = "DockMode" /\ ev = "UpdateBrightness" -> ScreenOn(d)
    [] d.state = "OffSuspended" -> OffSuspendedSideEffect(d, ev)
    [] OTHER -> d

(* OffSuspended resumes with the event it has noted. *)
Cause(d, ev) ==
  IF d.state = "OffSuspended" /\ ev = "PowerdResume"
  THEN d.restore.event ELSE ev

HandleEvent(d, ev) ==
  ChangeDisplayState(SideEffect(d, ev), Target(d, ev), Cause(d, ev))

-----------------------------------------------------------------------------
(* An inactivity timer fires.  It is no longer running; if the user has    *)
(* been active since it is started again, which changes nothing here.      *)
(* Otherwise it may be that nobody is to be sent to sleep now, and then it *)
(* is not started again.                                                   *)
TimeoutTarget(d, t) ==
  CASE t = "OnUser" ->
         IF ~Demo THEN "Dim" ELSE IF IsOnCall(d) THEN "OffOnCall" ELSE "Off"
    [] t = "OnInternal" -> IF IsOnCall(d) THEN "OffOnCall" ELSE "Off"
    [] t \in {"OnLocked", "Dim"} -> SleepTarget(d)
    [] t = "OnPuck" -> "DockMode"

TimeoutIgnored(d, t) ==
  \/ ~d.booted
  \/ IsDNAST(d)
  \/ t = "OnPuck" /\ IsOnCall(d)

InactivityTimeout(d, t) ==
  LET e == [d EXCEPT !.timers = @ \ {t}]
  IN  IF TimeoutIgnored(d, t) THEN e
      ELSE ChangeDisplayState(e, TimeoutTarget(d, t), "Timeout")

-----------------------------------------------------------------------------
(* What every handler is to preserve.                                      *)

(* A timer only runs in the state that owns it, and never two of them:     *)
(* changeDisplayState() leaves no timer behind, however a refused unlock   *)
(* nests the calls, and the two timers of DisplayOn exclude each other.    *)
TimersBelong(d) ==
  /\ d.timers \subseteq TimersOf(d.state)
  /\ ~({"OnUser", "OnInternal"} \subseteq d.timers)

(* m_lockState agrees with the state, although it is changed by enter() in *)
(* the middle of a transition and a refused unlock changes it twice.       *)
LockMatches(d) ==
  /\ d.state \in {"On", "OnPuck", "Dim"} => d.lock = "Unlocked"
  /\ d.state \in {"Off", "OnLocked", "OffSuspended"} => d.lock = "Locked"
  /\ d.state = "DockMode" => d.lock = "DockMode"
  /\ d.state = "OffOnCall" => d.lock \in {"Locked", "Unlocked"}

(* The last request to the LED driver is for what is wanted, so when the   *)
(* driver has caught up backlight and touch panel are what is wanted, in   *)
(* whatever order completions and changes of state came; and a panel that  *)
(* is not wanted never takes touches.                                      *)
PanelServed(d) ==
  HasTouchpanel =>
    /\ d.touch => d.displayOn
    /\ IF d.led = <<>>
       THEN d.backlight = d.displayOn /\ d.touch = d.displayOn
       ELSE d.led[Len(d.led)] = d.displayOn

(* The panel is wanted in the lit states only. *)
PanelFollows(d) ==
  /\ d.displayOn = (d.state \notin Dark)
  /\ PanelServed(d)

(* OffSuspended was entered from Off, and resumes to a state that sets its *)
(* own lock state; nothing that it has noted is a request to unlock.       *)
RestoreNoted(d) ==
  d.state = "OffSuspended" =>
    /\ d.restore.state \in {"Off", "On", "OnLocked", "OnPuck", "DockMode"}
    /\ d.restore.event # "UnlockScreen"

(* The display is dark for a call only while it believes in the call. *)
DarkForCall(d) == d.state = "OffOnCall" => IsOnCall(d)

=============================================================================
