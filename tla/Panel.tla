-------------------------------- MODULE Panel --------------------------------
(***************************************************************************)
(* What the display manager sends to the panel, the keypad and its         *)
(* subscribers, and the ambient light sensor that it starts and stops for  *)
(* that.  The display itself is Screen, which the display manager          *)
(* implements: a handler takes the screen by one step of it, or leaves it, *)
(* and this module says what else it does.  In the code                    *)
(*   face                         is what getDisplayState() stands for,    *)
(*   panel.max ... panel.slider   are fields of DisplayManager,            *)
(*   panel.region ... disabled    are fields of AmbientLightSensor,        *)
(*   panel.lit                    is m_displayOn,                          *)
(*   panel.told, sent, keys       are the last notification, and the last  *)
(*                                request to the LED driver, where -1      *)
(*                                turns the display off.                   *)
(* displayOn(), start(), on() and the signal currentRegionChanged() call   *)
(* each other; each of them finds its own work done the second time.       *)
(***************************************************************************)
EXTENDS Screen, Integers, FiniteSets

CONSTANTS
  Clients,      \* messages of the sensor's subscribers
  OnDevice,     \* BOOLEAN: the hardware type is a device
  AlsEnabled,   \* BOOLEAN: the setting enableAls
  UiMinimal,    \* BOOLEAN: the minimal user interface
  HasSlider,    \* BOOLEAN: there is a keypad to slide out
  HasTouchpanel, \* BOOLEAN: the host has a touch panel to turn off
  OutdoorScale, \* the settings backlight...Scale, in percent
  DimScale,
  DarkScale,
  Percent,      \* the values that batteries and callers send
  MaxDisabled   \* bound on the calls that disable the sensor

ASSUME PanelAssumption ==
  /\ IsFiniteSet(Clients)
  /\ {OnDevice, AlsEnabled, UiMinimal, HasSlider, HasTouchpanel} \subseteq BOOLEAN
  /\ {OutdoorScale, DimScale, DarkScale} \subseteq Nat
  /\ Percent \subseteq Int
  /\ MaxDisabled \in Nat

VARIABLES
  panel,  \* the record described above
  wants   \* what each client's message has asked of the sensor

vars == <<screenVars, panel, wants>>

Region == {"undefined", "dark", "dim", "indoor", "outdoor", "sunny"}

DEFAULT_BRIGHTNESS == 40

(* qBound(). *)
Bound(low, b, high) == IF b < low THEN low ELSE IF b > high THEN high ELSE b

Disabling == {c \in Clients : wants[c] = "disabled"}
Subscribed == {c \in Clients : wants[c] # "none"}

-----------------------------------------------------------------------------
(* How bright.                                                             *)

(* A low battery costs up to 20, if nothing charges it. *)
Drain(p) ==
  IF p.charged THEN 0
  ELSE (IF p.battery < 30 THEN 5 ELSE 0) + (IF p.battery < 20 THEN 5 ELSE 0)
       + (IF p.battery < 10 THEN 10 ELSE 0)

Scaled(p, b) ==
  CASE p.region \in {"outdoor", "sunny"} -> (OutdoorScale * b) \div 100
    [] p.region = "dim" -> (DimScale * b) \div 100
    [] p.region = "dark" -> (DarkScale * b) \div 100
    [] OTHER -> b

DisplayBrightness(p) ==
  IF UiMinimal THEN 100
  ELSE LET b == p.max - Drain(p)
       IN  Bound(1, IF p.pref THEN Scaled(p, b) ELSE b, 100)

(* The keypad is not lit outside, whether or not the sensor is in use. *)
KeypadBrightness(f, p) ==
  IF \/ HasSlider /\ ~p.slider
     \/ f \in {"dark", "dim", "dock"}
     \/ p.region \in {"outdoor", "sunny"}
  THEN 0 ELSE Bound(0, p.max - Drain(p), 100)

BacklightOn(f, p) ==
  [p EXCEPT !.sent = DisplayBrightness(p), !.keys = KeypadBrightness(f, p)]

-----------------------------------------------------------------------------
(* The sensor.  The signal of a changed region reaches updateBrightness(), *)
(* where a lit panel gets its new brightness.                              *)

(* Mutant: the signal is not connected. *)
SetCurrentRegionUnheard(f, p, r) == [p EXCEPT !.region = r]

SetCurrentRegion(f, p, r) ==
  LET q == [p EXCEPT !.region = r]
  IN  IF p.region # r /\ f \in Bright THEN BacklightOn(f, q) ELSE q

SensorOn(f, p) ==
  IF OnDevice /\ p.alsDisplayOn /\ ~p.alsIsOn /\ AlsEnabled
  THEN SetCurrentRegion(f, [p EXCEPT !.alsIsOn = TRUE], "indoor")
  ELSE p

(* Mutant: a sensor with subscribers is left on. *)
SensorOffServes(p) ==
  IF p.alsDisplayOn \/ p.subscriptions > 0 THEN p
  ELSE [p EXCEPT !.alsIsOn = FALSE]

SensorOff(p) ==
  IF p.alsDisplayOn /\ (AlsEnabled \/ p.subscriptions > 0) THEN p
  ELSE [p EXCEPT !.alsIsOn = FALSE]

Start(f, p) == SensorOn(f, [p EXCEPT !.alsDisplayOn = TRUE])

Stop(p) == SensorOff([p EXCEPT !.alsDisplayOn = FALSE])

-----------------------------------------------------------------------------
(* What the states' enter() and events call.  The dock has a notification  *)
(* of its own, which says displayOn too.                                   *)

(* What is posted to the subscribers of the display's status, of what the  *)
(* panel does.                                                             *)
Notification == {"displayOn", "displayDimmed", "displayOff"}

DisplayOn(f, p) ==
  LET q == BacklightOn(f, [p EXCEPT !.lit = TRUE,
                             !.told = IF p.lit THEN @ ELSE "displayOn"])
  IN  IF p.pref /\ ~UiMinimal THEN Start(f, q) ELSE q

DisplayDim(p) ==
  Stop([p EXCEPT !.lit = TRUE, !.told = "displayDimmed", !.keys = 0,
          !.sent = Bound(1, DisplayBrightness(p) \div 10, 100)])

(* The touch panel is turned off first, and its completion turns off the   *)
(* lights, dark already or not; a host without one never gets there.       *)
BacklightOff(p) ==
  IF HasTouchpanel THEN [p EXCEPT !.keys = 0, !.sent = -1] ELSE p

(* Mutant: only who was told that the display is on is told of its end. *)
DisplayOffFromOn(p) ==
  Stop(BacklightOff([p EXCEPT !.lit = FALSE,
                       !.told = IF @ = "displayOn" THEN "displayOff" ELSE @]))

DisplayOff(p) ==
  Stop(BacklightOff([p EXCEPT !.lit = FALSE,
                       !.told = IF p.lit THEN "displayOff" ELSE @]))

(* Mutant: the lock screen does not know the event. *)
UpdateBrightnessUnlocked(f, p) ==
  IF f \in Bright \ {"locked"} THEN DisplayOn(f, p) ELSE p

(* The event UpdateBrightness: the dimmed panel keeps what it has. *)
UpdateBrightness(f, p) == IF f \in Bright THEN DisplayOn(f, p) ELSE p

Enter(f, p) ==
  CASE f \in Bright -> DisplayOn(f, p)
    [] f = "dim" -> DisplayDim(p)
    [] OTHER -> DisplayOff(p)

(* What a handler leaves of p, having taken the screen where it is now. *)
Entered(p) == IF face' = face THEN p ELSE Enter(face', p)

ScreenMoves == ScreenNext \/ UNCHANGED screenVars

-----------------------------------------------------------------------------

Init ==
  /\ ScreenInit
  /\ wants = [c \in Clients |-> "none"]
  /\ \E max \in {Bound(1, v, 100) : v \in Percent} \cup {DEFAULT_BRIGHTNESS},
        pref \in BOOLEAN :
       panel = Enter(face,
         [max |-> max, battery |-> 100, charged |-> FALSE, pref |-> pref,
          slider |-> FALSE, region |-> "undefined", alsIsOn |-> FALSE,
          alsDisplayOn |-> FALSE, subscriptions |-> 0, disabled |-> 0,
          lit |-> FALSE, told |-> "displayOff", sent |-> -1, keys |-> 0])

(* Whatever changes the screen; On is entered again for OnPuck. *)
ScreenStep ==
  /\ ScreenNext
  /\ panel' \in {Entered(panel), UpdateBrightness(face', Entered(panel))}
  /\ UNCHANGED wants

BatteryCallback(level) ==
  /\ level # panel.battery
  /\ panel' = UpdateBrightness(face, [panel EXCEPT !.battery = level])
  /\ UNCHANGED <<screenVars, wants>>

(* The charger's event may change the screen, before the brightness. *)
ChargerCallback(charged) ==
  /\ ScreenMoves
  /\ panel' = UpdateBrightness(face', [Entered(panel) EXCEPT !.charged = charged])
  /\ UNCHANGED wants

(* The keys service says once where the slider is, and again when it has   *)
(* been restarted.  The answer is only noted.                              *)
SliderCallback(open) ==
  /\ panel' = [panel EXCEPT !.slider = open]
  /\ UNCHANGED <<screenVars, wants>>

(* setProperty drops the value where the panel is locked, dim or dark. *)
SetMaximumBrightness(value) ==
  LET max == Bound(1, value, 100)
  IN  /\ max # panel.max
      /\ panel' = IF face \in {"open", "dock"}
                  THEN BacklightOn(face, [panel EXCEPT !.max = max])
                  ELSE UpdateBrightness(face, panel)
      /\ UNCHANGED <<screenVars, wants>>

(* The user turns the sensor on or off in the preferences. *)
SlotAlsEnabled(enable) ==
  LET p == [panel EXCEPT !.pref = enable]
  IN  /\ panel' = IF ~enable THEN UpdateBrightness(face, Stop(p))
                  ELSE IF face \in Bright THEN Start(face, p) ELSE p
      /\ UNCHANGED <<screenVars, wants>>

ReadingChanged(level) ==
  /\ panel.alsIsOn
  /\ panel' = SetCurrentRegion(face, panel,
                IF panel.disabled > 0 THEN "undefined" ELSE level)
  /\ UNCHANGED <<screenVars, wants>>

ControlStatus(c, disable) ==
  /\ OnDevice
  /\ wants[c] = "none"
  /\ disable => panel.disabled < MaxDisabled
  /\ wants' = [wants EXCEPT ![c] = IF disable THEN "disabled" ELSE "status"]
  /\ LET p == SensorOn(face, [panel EXCEPT !.subscriptions = @ + 1])
     IN  panel' = IF disable THEN [p EXCEPT !.disabled = @ + 1] ELSE p
  /\ UNCHANGED screenVars

(* Mutant: whoever is the last to leave is taken to have disabled it. *)
CancelSubscriptionAny(c) ==
  LET p == [panel EXCEPT !.subscriptions = @ - 1]
  IN  /\ wants[c] # "none"
      /\ wants' = [wants EXCEPT ![c] = "none"]
      /\ panel' = IF p.subscriptions # 0 THEN p
                  ELSE SensorOff([p EXCEPT !.disabled = @ - 1])
      /\ UNCHANGED screenVars

(* Mutant: what a subscriber asked for is undone for all of them. *)
CancelSubscriptionEnables(c) ==
  /\ wants[c] # "none"
  /\ wants' = [wants EXCEPT ![c] = "none"]
  /\ panel' = [panel EXCEPT !.subscriptions = @ - 1,
                 !.disabled = IF wants[c] = "disabled" THEN 0 ELSE @]
  /\ UNCHANGED screenVars

(* Only the last subscriber to leave takes back what it asked for. *)
CancelSubscription(c) ==
  LET p == [panel EXCEPT !.subscriptions = @ - 1]
  IN  /\ wants[c] # "none"
      /\ wants' = [wants EXCEPT ![c] = "none"]
      /\ panel' =
           IF p.subscriptions # 0 THEN p
           ELSE SensorOff([p EXCEPT !.disabled =
                             IF wants[c] = "disabled" THEN @ - 1 ELSE @])
      /\ UNCHANGED screenVars

Next ==
  \/ ScreenStep
  \/ \E level \in Percent : BatteryCallback(level)
  \/ \E charged \in BOOLEAN : ChargerCallback(charged)
  \/ \E open \in BOOLEAN : SliderCallback(open)
  \/ \E value \in Percent : SetMaximumBrightness(value)
  \/ \E enable \in BOOLEAN : SlotAlsEnabled(enable)
  \/ \E level \in Region : ReadingChanged(level)
  \/ \E c \in Clients, disable \in BOOLEAN : ControlStatus(c, disable)
  \/ \E c \in Clients : CancelSubscription(c)

Spec == Init /\ [][Next]_vars

-----------------------------------------------------------------------------
(* Invariants.                                                             *)

PanelType ==
  [max : 1..100, battery : Int, charged : BOOLEAN, pref : BOOLEAN,
   slider : BOOLEAN, region : Region, alsIsOn : BOOLEAN,
   alsDisplayOn : BOOLEAN, subscriptions : Nat, disabled : Nat,
   lit : BOOLEAN, told : Notification,
   sent : -1..100, keys : 0..100]

(* The types of the screen and of the panel; the counts of the sensor's    *)
(* subscribers are never negative.                                         *)
PanelTypeOK ==
  /\ ScreenOK
  /\ wants \in [Clients -> {"none", "status", "disabled"}]
  /\ panel \in PanelType

(* The sensor measures while the panel is bright and the user wants it to, *)
(* and at no other time: it costs power, and the panel needs it.  Clients, *)
(* dimming, locks and the preference come in any order.                    *)
SensorServesScreen ==
  OnDevice /\ AlsEnabled /\ ~UiMinimal
  => (panel.alsIsOn <=> face \in Bright /\ panel.pref)

(* A bright panel has been sent the brightness that its battery, charger,  *)
(* light, limit and preference ask for now, whatever changed while it was  *)
(* dim or dark.                                                            *)
BrightnessCurrent == face \in Bright => panel.sent = DisplayBrightness(panel)

(* Subscribers of the display's status have last been told of darkness if  *)
(* and only if it is dark, and of a dimmed panel if it is dim.  (They are  *)
(* not told that a dimmed panel is bright again.)                          *)
SubscribersKnowDark ==
  /\ panel.lit <=> face \notin {"dark", "asleep"}
  /\ panel.told = "displayOff" <=> ~panel.lit
  /\ face = "dim" => panel.told = "displayDimmed"

(* A client that has disabled the sensor is counted as long as it stays,   *)
(* whoever else comes and goes.                                            *)
DisablersCounted ==
  /\ panel.subscriptions = Cardinality(Subscribed)
  /\ panel.disabled >= Cardinality(Disabling)

-----------------------------------------------------------------------------
(* What a step may never do.                                               *)

(* The keypad has the light that the screen, the slider, the battery, the  *)
(* charger, the limit and the light region ask for.                        *)
KeypadFits(f, p) ==
  IF f \in Bright THEN p.keys = KeypadBrightness(f, p)
                  ELSE f = "dim" \/ HasTouchpanel => p.keys = 0

SliderAnswers == \E open \in BOOLEAN : SliderCallback(open)

(* The light of the keypad is current.  Only an answer about the slider,   *)
(* which is noted and nothing else, leaves it out of date, under a closed  *)
(* slider or an open one; and no longer than until the screen, or what the *)
(* keypad should have, changes next.                                       *)
KeypadStep ==
  ~KeypadFits(face', panel')
  => \/ SliderAnswers
     \/ /\ ~KeypadFits(face, panel)
        /\ UNCHANGED <<face, panel.keys, KeypadBrightness(face, panel)>>

KeypadCurrent == KeypadFits(face, panel) /\ [][KeypadStep]_vars

=============================================================================
