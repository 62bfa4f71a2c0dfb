---------------------------- MODULE Panel_proofs ----------------------------
(***************************************************************************)
(* The panel, its brightness and the light sensor for any scales, limits,  *)
(* batteries and clients.  Sensible says what holds of the panel's record  *)
(* in the middle of a handler, when the screen has moved or an input has   *)
(* changed; Fits says how it agrees with the screen when the handler       *)
(* returns.  Whatever enter() is called for leads from the one to the      *)
(* other.  The keypad's light under a bright screen is followed from step  *)
(* to step: a handler gives it the present one or leaves it (KeysDone).    *)
(***************************************************************************)
EXTENDS Panel, FiniteSetTheorems, TLAPS

Sensible(p) ==
  /\ p \in PanelType
  /\ p.alsIsOn <=> (p.alsDisplayOn /\ OnDevice /\ AlsEnabled)
  /\ ~UiMinimal /\ p.alsDisplayOn => p.pref
  /\ (OnDevice /\ AlsEnabled) \/ p.region = "undefined"
  /\ p.told = "displayOff" <=> ~p.lit

Served(f, p) ==
  /\ p.alsDisplayOn => f \in Bright
  /\ ~UiMinimal /\ f \in Bright /\ p.pref => p.alsDisplayOn

Announced(f, p) ==
  /\ p.lit <=> f \notin {"dark", "asleep"}
  /\ f = "dim" => p.told = "displayDimmed"

KeysOff(f, p) == f \notin Bright /\ (f = "dim" \/ HasTouchpanel) => p.keys = 0

Fits(f, p) ==
  /\ Sensible(p)
  /\ Served(f, p)
  /\ Announced(f, p)
  /\ KeysOff(f, p)
  /\ f \in Bright => p.sent = DisplayBrightness(p)

SameInputs(p, q) ==
  /\ q.max = p.max
  /\ q.battery = p.battery
  /\ q.charged = p.charged
  /\ q.pref = p.pref
  /\ q.region = p.region

(* How bright. *)
LEMMA BoundIn ==
  ASSUME NEW b \in Int
  PROVE  Bound(0, b, 100) \in 0 .. 100 /\ Bound(1, b, 100) \in 1 .. 100
  BY DEF Bound

LEMMA DrainInt == ASSUME NEW p \in PanelType PROVE Drain(p) \in Int
  BY DEF Drain, PanelType, Notification

LEMMA ScaledInt ==
  ASSUME NEW p \in PanelType, NEW b \in Int
  PROVE  Scaled(p, b) \in Int
  <1>1. \A x \in Nat : x * b \in Int
    OBVIOUS
  <1>2. \A y \in Int : y \div 100 \in Int
    OBVIOUS
  <1> QED BY <1>1, <1>2, PanelAssumption DEF Scaled

LEMMA BrightnessIn ==
  ASSUME NEW p \in PanelType
  PROVE  DisplayBrightness(p) \in 1 .. 100
  <1> DEFINE b == p.max - Drain(p)
  <1>1. b \in Int
    BY DrainInt DEF PanelType, Notification
  <1>2. Scaled(p, b) \in Int
    BY <1>1, ScaledInt
  <1>3. (IF p.pref THEN Scaled(p, b) ELSE b) \in Int
    BY <1>1, <1>2
  <1>4. DisplayBrightness(p)
        = IF UiMinimal THEN 100
          ELSE Bound(1, IF p.pref THEN Scaled(p, b) ELSE b, 100)
    BY DEF DisplayBrightness
  <1> HIDE DEF b
  <1>5. Bound(1, IF p.pref THEN Scaled(p, b) ELSE b, 100) \in 1 .. 100
    BY <1>3, BoundIn, Zenon
  <1>6. 100 \in 1 .. 100
    OBVIOUS
  <1> QED BY <1>4, <1>5, <1>6

LEMMA KeypadIn ==
  ASSUME NEW p \in PanelType, NEW f
  PROVE  KeypadBrightness(f, p) \in 0 .. 100
  <1>1. p.max - Drain(p) \in Int
    BY DrainInt DEF PanelType, Notification
  <1>2. Bound(0, p.max - Drain(p), 100) \in 0 .. 100
    BY <1>1, BoundIn, Zenon
  <1>3. 0 \in 0 .. 100
    OBVIOUS
  <1> QED BY <1>2, <1>3, Zenon DEF KeypadBrightness

LEMMA BrightnessSame ==
  ASSUME NEW p, NEW q, SameInputs(p, q)
  PROVE  DisplayBrightness(q) = DisplayBrightness(p)
  <1>1. Drain(q) = Drain(p)
    BY DEF Drain, SameInputs
  <1>2. \A b : Scaled(q, b) = Scaled(p, b)
    BY DEF Scaled, SameInputs
  <1> QED BY <1>1, <1>2 DEF DisplayBrightness, SameInputs

LEMMA BacklightOnFits ==
  ASSUME NEW f \in Bright, NEW p \in PanelType
  PROVE  /\ BacklightOn(f, p) \in PanelType
         /\ BacklightOn(f, p).sent = DisplayBrightness(BacklightOn(f, p))
  <1> DEFINE q == BacklightOn(f, p)
  <1>1. /\ DisplayBrightness(p) \in -1 .. 100
        /\ KeypadBrightness(f, p) \in 0 .. 100
    BY BrightnessIn, KeypadIn
  <1>2. q \in PanelType
    BY <1>1 DEF BacklightOn, PanelType, Notification
  <1>3. SameInputs(p, q) /\ q.sent = DisplayBrightness(p)
    BY DEF BacklightOn, SameInputs, PanelType, Notification
  <1> QED BY <1>2, <1>3, BrightnessSame

-----------------------------------------------------------------------------
(* What the sensor does to the panel.                                      *)

(* What no handler of the screen touches. *)
Kept(p, q) ==
  /\ q.max = p.max
  /\ q.pref = p.pref
  /\ q.slider = p.slider
  /\ q.subscriptions = p.subscriptions
  /\ q.disabled = p.disabled

(* Fits, but for the sensor, of a bright screen. *)
Shows(f, p) ==
  /\ p \in PanelType
  /\ p.lit
  /\ p.told # "displayOff"
  /\ p.sent = DisplayBrightness(p)

LEMMA SetCurrentRegionFits ==
  ASSUME NEW f \in Bright, NEW p \in PanelType, NEW r \in Region
  PROVE  LET q == SetCurrentRegion(f, p, r)
         IN  /\ q \in PanelType
             /\ Kept(p, q)
             /\ q.region = r
             /\ q.alsIsOn = p.alsIsOn /\ q.alsDisplayOn = p.alsDisplayOn
             /\ q.lit = p.lit /\ q.told = p.told
             /\ Shows(f, p) => Shows(f, q)
  <1> DEFINE q == SetCurrentRegion(f, p, r)
             e == [p EXCEPT !.region = r]
  <1>1. e \in PanelType /\ e.region = r /\ Kept(p, e)
    BY DEF PanelType, Notification, Kept
  <1>2. CASE p.region = r
    <2>1. e = p
      BY <1>2 DEF PanelType, Notification
    <2>2. q = p
      BY <1>2, <2>1 DEF SetCurrentRegion
    <2> QED BY <1>2, <2>2 DEF Kept
  <1>3. CASE p.region # r
    <2>1. q = BacklightOn(f, e)
      BY <1>3 DEF SetCurrentRegion
    <2>2. /\ q \in PanelType
          /\ q.sent = DisplayBrightness(q)
      BY <1>1, <2>1, BacklightOnFits
    <2>3. /\ Kept(e, q) /\ q.region = e.region
          /\ q.alsIsOn = e.alsIsOn /\ q.alsDisplayOn = e.alsDisplayOn
          /\ q.lit = e.lit /\ q.told = e.told
      BY <1>1, <2>1 DEF BacklightOn, PanelType, Notification, Kept
    <2>4. /\ e.alsIsOn = p.alsIsOn /\ e.alsDisplayOn = p.alsDisplayOn
          /\ e.lit = p.lit /\ e.told = p.told
      BY DEF PanelType, Notification
    <2> HIDE DEF q, e
    <2> QED BY <1>1, <2>2, <2>3, <2>4 DEF Kept, Shows, q
  <1> QED BY <1>2, <1>3

LEMMA StartFits ==
  ASSUME NEW f \in Bright, NEW p, Sensible(p), Shows(f, p),
         ~UiMinimal => p.pref
  PROVE  Fits(f, Start(f, p)) /\ Kept(p, Start(f, p))
  <1> DEFINE e == [p EXCEPT !.alsDisplayOn = TRUE]
             on == [e EXCEPT !.alsIsOn = TRUE]
             q == Start(f, p)
  <1>1. e \in PanelType /\ Kept(p, e) /\ e.alsDisplayOn /\ e.slider = p.slider
        /\ e.lit /\ e.told = p.told /\ e.keys = p.keys /\ e.sent = p.sent
        /\ e.region = p.region /\ e.alsIsOn = p.alsIsOn
        /\ SameInputs(p, e)
    BY DEF Shows, PanelType, Notification, Kept, SameInputs
  <1>2. on \in PanelType /\ Kept(e, on) /\ on.alsDisplayOn /\ on.alsIsOn
        /\ on.lit /\ on.told = p.told /\ on.keys = p.keys /\ on.sent = p.sent
        /\ on.slider = p.slider /\ SameInputs(p, on)
    BY <1>1 DEF Shows, PanelType, Notification, Kept, SameInputs
  <1>3. Shows(f, e) /\ Shows(f, on)
    BY <1>1, <1>2, BrightnessSame DEF Shows, KeysOff
  <1>4. CASE OnDevice /\ AlsEnabled /\ ~p.alsIsOn
    <2>1. q = SetCurrentRegion(f, on, "indoor")
      BY <1>1, <1>4 DEF Start, SensorOn
    <2>2. "indoor" \in Region
      BY DEF Region
    <2>3. /\ q \in PanelType
          /\ Kept(on, q)
          /\ q.alsIsOn /\ q.alsDisplayOn
          /\ Shows(f, q)
      BY <1>2, <1>3, <2>1, <2>2, SetCurrentRegionFits
    <2>4. Kept(p, q)
      BY <1>1, <1>2, <2>3 DEF Kept
    <2> HIDE DEF q
    <2>5. q.pref = p.pref
      BY <2>4 DEF Kept
    <2>6. Sensible(q)
      BY <1>4, <2>3, <2>5 DEF Sensible, Shows
    <2> QED BY <2>3, <2>4, <2>6 DEF Fits, Served, Announced, KeysOff, Shows, Bright, q
  <1>5. CASE ~(OnDevice /\ AlsEnabled /\ ~p.alsIsOn)
    <2>1. q = e
      BY <1>1, <1>5 DEF Start, SensorOn
    <2>2. Sensible(e)
      BY <1>1, <1>5 DEF Sensible, Kept, Shows
    <2>3. Fits(f, e)
      BY <1>1, <1>3, <2>2 DEF Fits, Served, Announced, KeysOff, Shows, Bright
    <2> QED BY <1>1, <2>1, <2>3
  <1> QED BY <1>4, <1>5

(* A sensor that starts in another light than indoors sends the brightness *)
(* itself, whatever the panel had.                                         *)
LEMMA StartsAnew ==
  ASSUME NEW f \in Bright, NEW p, Sensible(p), p.lit, p.pref,
         OnDevice, AlsEnabled, ~p.alsIsOn, p.region # "indoor"
  PROVE  Fits(f, Start(f, p)) /\ Kept(p, Start(f, p))
  <1> DEFINE e == [p EXCEPT !.alsDisplayOn = TRUE]
             on == [e EXCEPT !.alsIsOn = TRUE]
             in == [on EXCEPT !.region = "indoor"]
             q == Start(f, p)
  <1>1. /\ e \in PanelType /\ e.alsDisplayOn
        /\ e.region = p.region /\ ~e.alsIsOn
    BY DEF Sensible, PanelType, Notification
  <1>2. on \in PanelType /\ on.region # "indoor"
    <2> HIDE DEF e
    <2> QED BY <1>1 DEF PanelType, Notification
  <1>3. in \in PanelType
    BY <1>2 DEF PanelType, Notification, Region
  <1>4. /\ Kept(p, in) /\ in.alsIsOn /\ in.alsDisplayOn
        /\ in.lit /\ in.told = p.told /\ in.region = "indoor"
    BY DEF Sensible, PanelType, Notification, Kept
  <1>5. q = BacklightOn(f, in)
    BY <1>1, <1>2 DEF Start, SensorOn, SetCurrentRegion
  <1> HIDE DEF in
  <1>6. /\ q \in PanelType
        /\ q.sent = DisplayBrightness(q)
    BY <1>3, <1>5, BacklightOnFits
  <1>7. /\ Kept(in, q) /\ q.region = in.region
        /\ q.alsIsOn = in.alsIsOn /\ q.alsDisplayOn = in.alsDisplayOn
        /\ q.lit = in.lit /\ q.told = in.told
    BY <1>3, <1>5 DEF BacklightOn, PanelType, Notification, Kept
  <1> HIDE DEF q
  <1>8. Kept(p, q) /\ q.pref
    BY <1>4, <1>7 DEF Kept
  <1>9. Sensible(q)
    BY <1>4, <1>6, <1>7, <1>8 DEF Sensible
  <1> QED BY <1>4, <1>6, <1>7, <1>8, <1>9
          DEF Fits, Served, Announced, KeysOff, Bright, q

LEMMA StopFits ==
  ASSUME NEW p \in PanelType
  PROVE  /\ Stop(p) = [p EXCEPT !.alsDisplayOn = FALSE, !.alsIsOn = FALSE]
         /\ Kept(p, Stop(p)) /\ SameInputs(p, Stop(p))
  BY DEF Stop, SensorOff, PanelType, Notification, Kept, SameInputs

-----------------------------------------------------------------------------
(* Whatever the screen was, what enter() calls makes the panel fit it.     *)

Tell(p, t) == [p EXCEPT !.lit = (t # "displayOff"), !.told = t]

LEMMA Told ==
  ASSUME NEW p \in PanelType, NEW t \in {"displayDimmed", "displayOff"}
  PROVE  /\ Tell(p, t) \in PanelType
         /\ Kept(p, Tell(p, t)) /\ Tell(p, t).region = p.region
         /\ Tell(p, t).lit <=> t # "displayOff"
         /\ Tell(p, t).told = t
  <1>1. Tell(p, t) \in PanelType
    BY DEF Tell, PanelType, Notification
  <1>2. /\ Kept(p, Tell(p, t)) /\ Tell(p, t).region = p.region
        /\ Tell(p, t).lit <=> t # "displayOff"
        /\ Tell(p, t).told = t
    BY DEF Tell, PanelType, Notification, Kept
  <1> QED BY <1>1, <1>2

Send(p, b) == [p EXCEPT !.keys = 0, !.sent = b]

LEMMA Sent ==
  ASSUME NEW p \in PanelType, NEW b \in -1 .. 100
  PROVE  /\ Send(p, b) \in PanelType
         /\ Kept(p, Send(p, b)) /\ Send(p, b).region = p.region
         /\ Send(p, b).lit = p.lit /\ Send(p, b).told = p.told
         /\ Send(p, b).keys = 0
  <1> DEFINE c == [p EXCEPT !.keys = 0]
             e == [c EXCEPT !.sent = b]
  <1>1. Send(p, b) \in PanelType
    <2>1. c \in PanelType
      BY DEF PanelType, Notification
    <2>2. e \in PanelType
      <3> HIDE DEF c
      <3> QED BY <2>1 DEF PanelType, Notification
    <2>3. Send(p, b) = e
      BY DEF Send, PanelType, Notification
    <2> QED BY <2>2, <2>3
  <1>2. /\ Kept(p, Send(p, b)) /\ Send(p, b).region = p.region
        /\ Send(p, b).lit = p.lit /\ Send(p, b).told = p.told
        /\ Send(p, b).keys = 0
    BY DEF Send, PanelType, Notification, Kept
  <1> QED BY <1>1, <1>2

LEMMA Stopped ==
  ASSUME NEW e \in PanelType
  PROVE  /\ Stop(e) \in PanelType
         /\ Kept(e, Stop(e)) /\ Stop(e).region = e.region
         /\ Stop(e).lit = e.lit /\ Stop(e).told = e.told
         /\ Stop(e).keys = e.keys
         /\ ~Stop(e).alsDisplayOn /\ ~Stop(e).alsIsOn
  BY StopFits DEF PanelType, Notification, Kept

LEMMA DisplayOnFits ==
  ASSUME NEW f \in Bright, NEW p, Sensible(p)
  PROVE  Fits(f, DisplayOn(f, p)) /\ Kept(p, DisplayOn(f, p))
  <1> DEFINE e == [p EXCEPT !.lit = TRUE,
                     !.told = IF p.lit THEN @ ELSE "displayOn"]
             q == BacklightOn(f, e)
  <1>1. e \in PanelType /\ e.lit /\ e.told # "displayOff" /\ Kept(p, e)
        /\ e.region = p.region /\ e.alsIsOn = p.alsIsOn
        /\ e.alsDisplayOn = p.alsDisplayOn
    BY DEF Sensible, PanelType, Notification, Kept
  <1>2. /\ q \in PanelType
        /\ q.sent = DisplayBrightness(q)
    BY <1>1, BacklightOnFits
  <1>3. /\ Kept(e, q) /\ q.region = e.region
        /\ q.alsIsOn = e.alsIsOn /\ q.alsDisplayOn = e.alsDisplayOn
        /\ q.lit = e.lit /\ q.told = e.told
    BY <1>1 DEF BacklightOn, PanelType, Notification, Kept
  <1>4. DisplayOn(f, p) = IF p.pref /\ ~UiMinimal THEN Start(f, q) ELSE q
    BY DEF DisplayOn
  <1> HIDE DEF e, q
  <1>5. Sensible(q) /\ Shows(f, q) /\ Kept(p, q)
    BY <1>1, <1>2, <1>3 DEF Sensible, Shows, Kept
  <1>6. CASE p.pref /\ ~UiMinimal
    BY <1>4, <1>5, <1>6, StartFits DEF Kept
  <1>7. CASE ~(p.pref /\ ~UiMinimal)
    BY <1>4, <1>5, <1>7
       DEF Fits, Served, Announced, KeysOff, Shows, Sensible, Kept, Bright
  <1> QED BY <1>6, <1>7

LEMMA DisplayDimFits ==
  ASSUME NEW p, Sensible(p)
  PROVE  Fits("dim", DisplayDim(p)) /\ Kept(p, DisplayDim(p))
  <1> DEFINE b == Bound(1, DisplayBrightness(p) \div 10, 100)
             d == Tell(p, "displayDimmed")
             e == Send(d, b)
             q == DisplayDim(p)
  <1>1. p \in PanelType
    BY DEF Sensible
  <1>2. b \in -1 .. 100
    <2>1. DisplayBrightness(p) \in 1 .. 100
      BY <1>1, BrightnessIn
    <2>2. DisplayBrightness(p) \div 10 \in Int
      BY <2>1
    <2>3. b \in 1 .. 100
      BY <2>2, BoundIn, Zenon
    <2> QED BY <2>3
  <1>3. q = Stop(e)
    BY <1>1 DEF DisplayDim, Tell, Send, PanelType, Notification
  <1> HIDE DEF b
  <1>4. d \in PanelType /\ Kept(p, d) /\ d.region = p.region
        /\ d.lit /\ d.told = "displayDimmed"
    BY <1>1, Told
  <1> HIDE DEF d
  <1>5. e \in PanelType /\ Kept(d, e) /\ e.region = d.region
        /\ e.lit = d.lit /\ e.told = d.told /\ e.keys = 0
    BY <1>2, <1>4, Sent
  <1> HIDE DEF e
  <1>6. /\ q \in PanelType /\ Kept(e, q) /\ q.region = e.region
        /\ q.lit /\ q.told = "displayDimmed" /\ q.keys = 0
        /\ ~q.alsDisplayOn /\ ~q.alsIsOn
    BY <1>3, <1>4, <1>5, Stopped
  <1> HIDE DEF q
  <1>7. Kept(p, q)
    BY <1>4, <1>5, <1>6 DEF Kept
  <1>8. Sensible(q)
    BY <1>4, <1>5, <1>6 DEF Sensible
  <1>9. Fits("dim", q)
    BY <1>6, <1>8 DEF Fits, Served, Announced, KeysOff, Bright
  <1> QED BY <1>7, <1>9 DEF q

LEMMA DisplayOffFits ==
  ASSUME NEW p, Sensible(p), NEW f \in {"dark", "asleep"}
  PROVE  Fits(f, DisplayOff(p)) /\ Kept(p, DisplayOff(p))
  <1> DEFINE d == Tell(p, "displayOff")
             e == BacklightOff(d)
             q == DisplayOff(p)
  <1>1. p \in PanelType /\ (~p.lit => p.told = "displayOff")
    BY DEF Sensible
  <1>2. q = Stop(e)
    BY <1>1 DEF DisplayOff, Tell, PanelType, Notification
  <1>3. d \in PanelType /\ Kept(p, d) /\ d.region = p.region
        /\ ~d.lit /\ d.told = "displayOff"
    BY <1>1, Told
  <1> HIDE DEF d
  <1>4. e \in PanelType /\ Kept(d, e) /\ e.region = d.region
        /\ e.lit = d.lit /\ e.told = d.told /\ (HasTouchpanel => e.keys = 0)
    <2>1. CASE HasTouchpanel
      <3>1. e = Send(d, -1) /\ -1 \in -1 .. 100
        BY <2>1 DEF BacklightOff, Send
      <3> QED BY <1>3, <3>1, Sent
    <2>2. CASE ~HasTouchpanel
      BY <1>3, <2>2 DEF BacklightOff, Kept
    <2> QED BY <2>1, <2>2
  <1> HIDE DEF e
  <1>5. /\ q \in PanelType /\ Kept(e, q) /\ q.region = e.region
        /\ ~q.lit /\ q.told = "displayOff" /\ (HasTouchpanel => q.keys = 0)
        /\ ~q.alsDisplayOn /\ ~q.alsIsOn
    BY <1>2, <1>3, <1>4, Stopped
  <1> HIDE DEF q
  <1>6. Kept(p, q)
    BY <1>3, <1>4, <1>5 DEF Kept
  <1>7. Sensible(q)
    BY <1>3, <1>4, <1>5 DEF Sensible
  <1>8. Fits(f, q)
    BY <1>5, <1>7 DEF Fits, Served, Announced, KeysOff, Bright
  <1> QED BY <1>6, <1>8 DEF q

LEMMA EnterFits ==
  ASSUME NEW f \in Face, NEW p, Sensible(p)
  PROVE  Fits(f, Enter(f, p)) /\ Kept(p, Enter(f, p))
  <1>1. CASE f \in Bright
    <2>1. Enter(f, p) = DisplayOn(f, p)
      BY <1>1 DEF Enter, Bright
    <2> QED BY <1>1, <2>1, DisplayOnFits
  <1>2. CASE f = "dim"
    <2>1. Enter(f, p) = DisplayDim(p)
      BY <1>2 DEF Enter, Bright
    <2> QED BY <1>2, <2>1, DisplayDimFits
  <1>3. CASE f \in {"dark", "asleep"}
    <2>1. Enter(f, p) = DisplayOff(p)
      BY <1>3 DEF Enter, Bright
    <2> QED BY <1>3, <2>1, DisplayOffFits
  <1> QED BY <1>1, <1>2, <1>3 DEF Face, Bright

LEMMA UpdateFits ==
  ASSUME NEW f \in Face, NEW p, Sensible(p), f \notin Bright => Fits(f, p)
  PROVE  /\ Fits(f, UpdateBrightness(f, p))
         /\ Kept(p, UpdateBrightness(f, p))
  <1>1. CASE f \in Bright
    BY <1>1, DisplayOnFits DEF UpdateBrightness
  <1>2. CASE f \notin Bright
    BY <1>2 DEF UpdateBrightness, Kept
  <1> QED BY <1>1, <1>2

-----------------------------------------------------------------------------
(* The keypad of a bright screen.  An operation gives it the light that it *)
(* should have, or leaves both that light and the one it has.              *)

KeysKept(f, p, q) ==
  q.keys = p.keys /\ KeypadBrightness(f, q) = KeypadBrightness(f, p)

KeysDone(f, p, q) == KeypadFits(f, q) \/ KeysKept(f, p, q)

LEMMA KeypadSame ==
  ASSUME NEW f, NEW p, NEW q, SameInputs(p, q), q.slider = p.slider
  PROVE  KeypadBrightness(f, q) = KeypadBrightness(f, p)
  <1>1. Drain(q) = Drain(p)
    BY DEF Drain, SameInputs
  <1> QED BY <1>1 DEF KeypadBrightness, SameInputs

LEMMA BacklightOnKeys ==
  ASSUME NEW f \in Bright, NEW p \in PanelType
  PROVE  KeypadFits(f, BacklightOn(f, p))
  <1> DEFINE q == BacklightOn(f, p)
  <1>1. SameInputs(p, q) /\ q.slider = p.slider
        /\ q.keys = KeypadBrightness(f, p)
    BY DEF BacklightOn, SameInputs, PanelType, Notification
  <1>2. KeypadBrightness(f, q) = KeypadBrightness(f, p)
    <2> HIDE DEF q
    <2> QED BY <1>1, KeypadSame
  <1> QED BY <1>1, <1>2 DEF KeypadFits

LEMMA SetCurrentRegionKeys ==
  ASSUME NEW f \in Bright, NEW p \in PanelType, NEW r \in Region
  PROVE  KeysDone(f, p, SetCurrentRegion(f, p, r))
  <1> DEFINE e == [p EXCEPT !.region = r]
  <1>1. e \in PanelType
    BY DEF PanelType, Notification
  <1>2. CASE p.region = r
    <2>1. e = p
      BY <1>2 DEF PanelType, Notification
    <2> QED BY <1>2, <2>1 DEF SetCurrentRegion, KeysDone, KeysKept
  <1>3. CASE p.region # r
    <2>1. SetCurrentRegion(f, p, r) = BacklightOn(f, e)
      BY <1>3 DEF SetCurrentRegion
    <2> HIDE DEF e
    <2> QED BY <1>1, <2>1, BacklightOnKeys DEF KeysDone
  <1> QED BY <1>2, <1>3

LEMMA SensorOnKeys ==
  ASSUME NEW f \in Face, NEW p \in PanelType
  PROVE  /\ SensorOn(f, p) \in PanelType
         /\ f \in Bright => KeysDone(f, p, SensorOn(f, p))
  <1> DEFINE e == [p EXCEPT !.alsIsOn = TRUE]
             q == SetCurrentRegion(f, e, "indoor")
  <1>1. /\ e \in PanelType /\ e.keys = p.keys /\ e.slider = p.slider
        /\ SameInputs(p, e) /\ "indoor" \in Region
    BY DEF PanelType, Notification, SameInputs, Region
  <1>2. SensorOn(f, p) = p \/ SensorOn(f, p) = q
    BY DEF SensorOn
  <1>3. \A x : KeypadBrightness(x, e) = KeypadBrightness(x, p)
    <2> HIDE DEF e
    <2> QED BY <1>1, KeypadSame
  <1> HIDE DEF e
  <1>4. q \in PanelType
    <2>1. CASE f \in Bright
      BY <1>1, <2>1, SetCurrentRegionFits
    <2>2. CASE f \notin Bright
      BY <1>1, <2>2 DEF SetCurrentRegion, PanelType, Notification
    <2> QED BY <2>1, <2>2
  <1>5. f \in Bright => KeysDone(f, e, q)
    BY <1>1, SetCurrentRegionKeys
  <1> HIDE DEF q
  <1>6. f \in Bright => KeysDone(f, p, q)
    BY <1>1, <1>3, <1>5 DEF KeysDone, KeysKept
  <1>7. KeysDone(f, p, p)
    BY DEF KeysDone, KeysKept
  <1> QED BY <1>2, <1>4, <1>6, <1>7

LEMMA StartKeys ==
  ASSUME NEW f \in Bright, NEW p \in PanelType
  PROVE  KeysDone(f, p, Start(f, p))
  <1> DEFINE e == [p EXCEPT !.alsDisplayOn = TRUE]
  <1>1. /\ e \in PanelType /\ e.keys = p.keys /\ e.slider = p.slider
        /\ SameInputs(p, e)
    BY DEF PanelType, Notification, SameInputs
  <1>2. Start(f, p) = SensorOn(f, e)
    BY DEF Start
  <1> HIDE DEF e
  <1>3. KeypadBrightness(f, e) = KeypadBrightness(f, p)
    BY <1>1, KeypadSame
  <1>4. KeysDone(f, e, Start(f, p))
    BY <1>1, <1>2, SensorOnKeys DEF Face
  <1> QED BY <1>1, <1>3, <1>4 DEF KeysDone, KeysKept

LEMMA DisplayOnKeys ==
  ASSUME NEW f \in Bright, NEW p \in PanelType
  PROVE  KeypadFits(f, DisplayOn(f, p))
  <1> DEFINE e == [p EXCEPT !.lit = TRUE,
                     !.told = IF p.lit THEN @ ELSE "displayOn"]
             q == BacklightOn(f, e)
  <1>1. e \in PanelType
    BY DEF PanelType, Notification
  <1>2. DisplayOn(f, p) = IF p.pref /\ ~UiMinimal THEN Start(f, q) ELSE q
    BY DEF DisplayOn
  <1> HIDE DEF e
  <1>3. q \in PanelType /\ KeypadFits(f, q)
    BY <1>1, BacklightOnFits, BacklightOnKeys
  <1> HIDE DEF q
  <1>4. KeysDone(f, q, Start(f, q))
    BY <1>3, StartKeys
  <1>5. KeypadFits(f, Start(f, q))
    BY <1>3, <1>4 DEF KeysDone, KeysKept, KeypadFits
  <1> QED BY <1>2, <1>3, <1>5

LEMMA BrightKeys ==
  ASSUME NEW f \in Bright, NEW p \in PanelType
  PROVE  KeypadFits(f, Enter(f, p)) /\ KeypadFits(f, UpdateBrightness(f, p))
  <1>1. KeypadFits(f, DisplayOn(f, p))
    BY DisplayOnKeys
  <1>2. Enter(f, p) = DisplayOn(f, p)
    BY DEF Enter, Bright
  <1>3. UpdateBrightness(f, p) = DisplayOn(f, p)
    BY DEF UpdateBrightness
  <1> QED BY <1>1, <1>2, <1>3

-----------------------------------------------------------------------------
(* The actions.                                                            *)

PanelInv ==
  /\ ScreenOK
  /\ wants \in [Clients -> {"none", "status", "disabled"}]
  /\ Fits(face, panel)
  /\ DisablersCounted

LEMMA ScreenKept ==
  ASSUME ScreenOK, ScreenMoves
  PROVE  ScreenOK' /\ face' \in Face
  <1>1. CASE UNCHANGED screenVars
    BY <1>1 DEF ScreenOK, screenVars
  <1>2. CASE ScreenNext
    <2>1. CASE \E f \in Bright : Show(f)
      BY <2>1 DEF ScreenOK, Show, Face, Bright, LockOn
    <2>2. CASE Dim
      BY <2>2 DEF ScreenOK, Dim, Face, Bright, LockOn
    <2>3. CASE Darken \/ StayDark
      BY <2>3 DEF ScreenOK, Darken, StayDark, Face, Bright, LockOn
    <2>4. CASE CallChanges \/ PasscodeChanges
      BY <2>4 DEF ScreenOK, CallChanges, PasscodeChanges, Face, Bright, LockOn
    <2>5. CASE FallAsleep
      BY <2>5 DEF ScreenOK, FallAsleep, Face, Bright, LockOn
    <2>6. CASE \E f \in Bright \cup {"dark"} : WakeUp(f)
      BY <2>6 DEF ScreenOK, WakeUp, Face, Bright, LockOn
    <2> QED BY <1>2, <2>1, <2>2, <2>3, <2>4, <2>5, <2>6 DEF ScreenNext
  <1> QED BY <1>1, <1>2 DEF ScreenMoves

(* Any field that may change under the screen leaves the panel sensible,   *)
(* and still fitting a screen that is not bright.                          *)
LEMMA InputFits ==
  ASSUME NEW f \in Face, NEW p, NEW q \in PanelType, Sensible(p),
         Fits(f, p) \/ f \in Bright,
         q.alsIsOn = p.alsIsOn, q.alsDisplayOn = p.alsDisplayOn,
         q.region = p.region, q.lit = p.lit, q.told = p.told,
         q.keys = p.keys, q.pref = p.pref
  PROVE  Sensible(q) /\ (f \notin Bright => Fits(f, q))
  BY DEF Sensible, Fits, Served, Announced, KeysOff, Bright

LEMMA EnteredFits ==
  ASSUME ScreenOK, ScreenMoves, NEW p, Sensible(p),
         Fits(face, p) \/ face \in Bright
  PROVE  /\ face' \in Face
         /\ Sensible(Entered(p)) /\ Kept(p, Entered(p))
         /\ Fits(face', Entered(p)) \/ face' \in Bright
         /\ Fits(face, p) => Fits(face', Entered(p))
  <1>1. face' \in Face
    BY ScreenKept
  <1>2. CASE face' = face
    BY <1>1, <1>2 DEF Entered, Kept
  <1>3. CASE face' # face
    <2>1. Entered(p) = Enter(face', p)
      BY <1>3 DEF Entered
    <2> QED BY <1>1, <2>1, EnterFits DEF Fits
  <1> QED BY <1>2, <1>3

LEMMA CountsKept ==
  ASSUME DisablersCounted, UNCHANGED wants,
         panel'.subscriptions = panel.subscriptions,
         panel'.disabled = panel.disabled
  PROVE  DisablersCounted'
  BY DEF DisablersCounted, Subscribed, Disabling

(* Neither the counts of the clients nor the slider matter to Fits. *)
LEMMA InputsKept ==
  ASSUME PanelInv, UNCHANGED screenVars, panel' \in PanelType,
         panel'.alsIsOn = panel.alsIsOn,
         panel'.alsDisplayOn = panel.alsDisplayOn,
         panel'.region = panel.region, panel'.lit = panel.lit,
         panel'.told = panel.told, panel'.keys = panel.keys,
         panel'.pref = panel.pref, panel'.sent = panel.sent,
         panel'.max = panel.max,
         panel'.battery = panel.battery, panel'.charged = panel.charged
  PROVE  ScreenOK' /\ Fits(face, panel)'
  <1>1. Fits(face, panel) /\ face' = face
    BY DEF PanelInv, screenVars
  <1>2. DisplayBrightness(panel') = DisplayBrightness(panel)
    BY BrightnessSame DEF SameInputs
  <1>3. Fits(face', panel')
    BY <1>1, <1>2 DEF Fits, Sensible, Served, Announced, KeysOff
  <1> QED BY <1>3 DEF PanelInv, ScreenOK, screenVars

LEMMA ScreenStepKeeps ==
  ASSUME PanelInv, ScreenStep
  PROVE  PanelInv'
  <1> DEFINE p == Entered(panel)
  <1>1. ScreenMoves /\ ScreenOK' /\ face' \in Face
    BY ScreenKept DEF ScreenStep, ScreenMoves, PanelInv
  <1>2. Fits(face', p) /\ Kept(panel, p)
    BY <1>1, EnteredFits DEF PanelInv, Fits
  <1>3. /\ Fits(face', UpdateBrightness(face', p))
        /\ Kept(p, UpdateBrightness(face', p))
    BY <1>1, <1>2, UpdateFits DEF Fits
  <1>4. panel' = p \/ panel' = UpdateBrightness(face', p)
    BY DEF ScreenStep
  <1>5. Fits(face', panel') /\ Kept(panel, panel')
    BY <1>2, <1>3, <1>4 DEF Kept
  <1>6. DisablersCounted'
    BY <1>5, CountsKept DEF Kept, PanelInv, ScreenStep
  <1> QED BY <1>1, <1>5, <1>6 DEF PanelInv, ScreenStep

LEMMA BatteryKeeps ==
  ASSUME PanelInv, NEW level \in Percent, BatteryCallback(level)
  PROVE  PanelInv'
  <1> DEFINE p == [panel EXCEPT !.battery = level]
  <1>0. level \in Int
    BY PanelAssumption
  <1>1. face \in Face /\ Fits(face, panel) /\ Sensible(panel)
    BY DEF PanelInv, ScreenOK, Fits
  <1>2. /\ p \in PanelType
        /\ p.alsIsOn = panel.alsIsOn /\ p.alsDisplayOn = panel.alsDisplayOn
        /\ p.region = panel.region /\ p.lit = panel.lit
        /\ p.told = panel.told /\ p.keys = panel.keys
        /\ p.pref = panel.pref /\ Kept(panel, p)
    BY <1>0, <1>1 DEF Sensible, PanelType, Notification, Kept
  <1>3. Sensible(p) /\ (face \notin Bright => Fits(face, p))
    BY <1>1, <1>2, InputFits
  <1>4. Fits(face, panel') /\ Kept(p, panel')
    BY <1>1, <1>3, UpdateFits DEF BatteryCallback
  <1>5. UNCHANGED <<screenVars, wants>>
    BY DEF BatteryCallback
  <1>6. Kept(panel, panel')
    BY <1>2, <1>4 DEF Kept
  <1>7. DisablersCounted'
    BY <1>5, <1>6, CountsKept DEF Kept, PanelInv
  <1> QED BY <1>4, <1>5, <1>7 DEF PanelInv, ScreenOK, screenVars

LEMMA ChargerKeeps ==
  ASSUME PanelInv, NEW charged \in BOOLEAN, ChargerCallback(charged)
  PROVE  PanelInv'
  <1> DEFINE p == Entered(panel)
             e == [p EXCEPT !.charged = charged]
  <1>1. ScreenMoves /\ ScreenOK' /\ face' \in Face
    BY ScreenKept DEF ChargerCallback, PanelInv
  <1>2. Fits(face', p) /\ Sensible(p) /\ Kept(panel, p)
    BY <1>1, EnteredFits DEF PanelInv, Fits
  <1>3. panel' = UpdateBrightness(face', e)
    BY DEF ChargerCallback
  <1> HIDE DEF p
  <1>4. /\ e \in PanelType
        /\ e.alsIsOn = p.alsIsOn /\ e.alsDisplayOn = p.alsDisplayOn
        /\ e.region = p.region /\ e.lit = p.lit
        /\ e.told = p.told /\ e.keys = p.keys
        /\ e.pref = p.pref /\ Kept(p, e)
    BY <1>2 DEF Sensible, PanelType, Notification, Kept
  <1> HIDE DEF e
  <1>5. Sensible(e) /\ (face' \notin Bright => Fits(face', e))
    BY <1>1, <1>2, <1>4, InputFits
  <1>6. Fits(face', panel') /\ Kept(e, panel')
    BY <1>1, <1>3, <1>5, UpdateFits
  <1>7. Kept(panel, panel')
    BY <1>2, <1>4, <1>6 DEF Kept
  <1>8. DisablersCounted'
    BY <1>7, CountsKept DEF Kept, PanelInv, ChargerCallback
  <1> QED BY <1>1, <1>6, <1>8 DEF PanelInv, ChargerCallback

LEMMA SliderCallbackKeeps ==
  ASSUME PanelInv, NEW open \in BOOLEAN, SliderCallback(open)
  PROVE  PanelInv'
  <1>1. Fits(face, panel) /\ panel \in PanelType
    BY DEF PanelInv, Fits, Sensible
  <1>2. panel' = [panel EXCEPT !.slider = open]
    BY DEF SliderCallback
  <1>3. /\ panel' \in PanelType
        /\ panel'.alsIsOn = panel.alsIsOn
        /\ panel'.alsDisplayOn = panel.alsDisplayOn
        /\ panel'.region = panel.region /\ panel'.lit = panel.lit
        /\ panel'.told = panel.told /\ panel'.keys = panel.keys
        /\ panel'.pref = panel.pref /\ panel'.sent = panel.sent
        /\ panel'.max = panel.max /\ panel'.battery = panel.battery
        /\ panel'.charged = panel.charged
        /\ panel'.subscriptions = panel.subscriptions
        /\ panel'.disabled = panel.disabled
    BY <1>1, <1>2 DEF PanelType, Notification
  <1>4. UNCHANGED <<screenVars, wants>>
    BY DEF SliderCallback
  <1>5. ScreenOK' /\ Fits(face, panel)'
    BY <1>3, <1>4, InputsKept
  <1>6. DisablersCounted'
    BY <1>3, <1>4, CountsKept DEF PanelInv
  <1> QED BY <1>4, <1>5, <1>6 DEF PanelInv

LEMMA SetMaximumBrightnessKeeps ==
  ASSUME PanelInv, NEW value \in Percent, SetMaximumBrightness(value)
  PROVE  PanelInv'
  <1> DEFINE m == Bound(1, value, 100)
             p == [panel EXCEPT !.max = m]
  <1>1. face \in Face /\ Fits(face, panel) /\ Sensible(panel)
    BY DEF PanelInv, ScreenOK, Fits
  <1>2. m \in 1 .. 100
    <2>1. value \in Int
      BY PanelAssumption
    <2> QED BY <2>1, BoundIn, Zenon
  <1>3. panel' = IF face \in {"open", "dock"} THEN BacklightOn(face, p)
                 ELSE UpdateBrightness(face, panel)
    BY DEF SetMaximumBrightness
  <1>4. UNCHANGED <<screenVars, wants>>
    BY DEF SetMaximumBrightness
  <1> HIDE DEF m
  <1>5. CASE face \in {"open", "dock"}
    <2> DEFINE q == BacklightOn(face, p)
    <2>0. panel' = q /\ face \in Bright
      BY <1>3, <1>5 DEF Bright
    <2>1. /\ p \in PanelType
          /\ p.alsIsOn = panel.alsIsOn /\ p.alsDisplayOn = panel.alsDisplayOn
          /\ p.region = panel.region /\ p.lit = panel.lit
          /\ p.told = panel.told /\ p.pref = panel.pref
          /\ p.subscriptions = panel.subscriptions
          /\ p.disabled = panel.disabled
      BY <1>1, <1>2 DEF Sensible, PanelType, Notification
    <2>2. /\ q \in PanelType
          /\ q.sent = DisplayBrightness(q)
      BY <2>0, <2>1, BacklightOnFits
    <2>3. /\ q.alsIsOn = p.alsIsOn /\ q.alsDisplayOn = p.alsDisplayOn
          /\ q.region = p.region /\ q.lit = p.lit
          /\ q.told = p.told /\ q.pref = p.pref
          /\ q.subscriptions = p.subscriptions
          /\ q.disabled = p.disabled
      BY <2>1 DEF BacklightOn, PanelType, Notification
    <2> HIDE DEF p, q
    <2>4. Fits(face, q)
      BY <1>1, <2>0, <2>1, <2>2, <2>3
         DEF Fits, Sensible, Served, Announced, KeysOff
    <2>5. DisablersCounted'
      BY <1>4, <2>0, <2>1, <2>3, CountsKept DEF PanelInv
    <2> QED BY <1>4, <2>0, <2>4, <2>5 DEF PanelInv, ScreenOK, screenVars
  <1>6. CASE face \notin {"open", "dock"}
    <2>1. Fits(face, panel') /\ Kept(panel, panel')
      BY <1>1, <1>3, <1>6, UpdateFits
    <2>2. DisablersCounted'
      BY <1>4, <2>1, CountsKept DEF Kept, PanelInv
    <2> QED BY <1>4, <2>1, <2>2 DEF PanelInv, ScreenOK, screenVars
  <1> QED BY <1>5, <1>6

LEMMA SlotAlsEnabledKeeps ==
  ASSUME PanelInv, NEW enable \in BOOLEAN, SlotAlsEnabled(enable)
  PROVE  PanelInv'
  <1> DEFINE p == [panel EXCEPT !.pref = enable]
  <1>1. face \in Face /\ Fits(face, panel) /\ Sensible(panel)
    BY DEF PanelInv, ScreenOK, Fits
  <1>2. /\ p \in PanelType
        /\ p.alsIsOn = panel.alsIsOn /\ p.alsDisplayOn = panel.alsDisplayOn
        /\ p.region = panel.region /\ p.lit = panel.lit
        /\ p.told = panel.told /\ p.keys = panel.keys
        /\ p.sent = panel.sent /\ p.slider = panel.slider
        /\ p.max = panel.max /\ p.battery = panel.battery
        /\ p.charged = panel.charged
        /\ p.subscriptions = panel.subscriptions
        /\ p.disabled = panel.disabled
        /\ p.pref <=> enable
    BY <1>1 DEF Sensible, PanelType, Notification
  <1>3. panel' = IF ~enable THEN UpdateBrightness(face, Stop(p))
                 ELSE IF face \in Bright THEN Start(face, p) ELSE p
    BY DEF SlotAlsEnabled
  <1>4. UNCHANGED <<screenVars, wants>>
    BY DEF SlotAlsEnabled
  <1> HIDE DEF p
  <1>5. CASE ~enable
    <2>1. /\ Stop(p) \in PanelType
          /\ Kept(p, Stop(p)) /\ Stop(p).region = p.region
          /\ Stop(p).lit = p.lit /\ Stop(p).told = p.told
          /\ Stop(p).keys = p.keys
          /\ ~Stop(p).alsDisplayOn /\ ~Stop(p).alsIsOn
      BY <1>2, Stopped
    <2>2. Sensible(Stop(p))
      BY <1>1, <1>2, <2>1 DEF Sensible
    <2>3. face \notin Bright => Fits(face, Stop(p))
      BY <1>1, <1>2, <2>1, <2>2
         DEF Fits, Served, Announced, KeysOff, Bright
    <2>4. Fits(face, panel') /\ Kept(Stop(p), panel')
      BY <1>1, <1>3, <1>5, <2>2, <2>3, UpdateFits
    <2>5. DisablersCounted'
      BY <1>2, <1>4, <2>1, <2>4, CountsKept DEF Kept, PanelInv
    <2> QED BY <1>4, <2>4, <2>5 DEF PanelInv, ScreenOK, screenVars
  <1>6. CASE enable /\ face \notin Bright
    <2>1. panel' = p
      BY <1>3, <1>6
    <2>2. Fits(face, p)
      BY <1>1, <1>2, <1>6
         DEF Fits, Sensible, Served, Announced, KeysOff
    <2>3. DisablersCounted'
      BY <1>2, <1>4, <2>1, CountsKept DEF PanelInv
    <2> QED BY <1>4, <2>1, <2>2, <2>3 DEF PanelInv, ScreenOK, screenVars
  <1>7. CASE enable /\ face \in Bright
    <2>1. panel' = Start(face, p)
      BY <1>3, <1>7
    <2>2. Sensible(p)
      BY <1>1, <1>2, <1>7 DEF Sensible
    <2>3. p.lit /\ p.told # "displayOff" /\ p.pref
      BY <1>1, <1>2, <1>7 DEF Fits, Announced, Sensible, KeysOff, Bright
    <2> DEFINE Same == panel.pref \/ UiMinimal
                       \/ panel.region \in {"indoor", "undefined"}
    <2>4. ASSUME Same
          PROVE  Fits(face, Start(face, p)) /\ Kept(p, Start(face, p))
      <3>1. DisplayBrightness(p) = DisplayBrightness(panel)
        <4>1. CASE panel.pref
          <5>1. p.pref = panel.pref
            BY <1>1, <1>2, <2>3, <4>1 DEF Sensible, PanelType, Notification
          <5> QED BY <1>2, <5>1, BrightnessSame DEF SameInputs
        <4>2. CASE UiMinimal
          BY <4>2 DEF DisplayBrightness
        <4>3. CASE panel.region \in {"indoor", "undefined"}
          <5>1. Drain(p) = Drain(panel)
            BY <1>2 DEF Drain
          <5>2. \A b : Scaled(p, b) = b /\ Scaled(panel, b) = b
            BY <1>2, <4>3 DEF Scaled
          <5> QED BY <1>2, <5>1, <5>2 DEF DisplayBrightness
        <4> QED BY <2>4, <4>1, <4>2, <4>3
      <3>2. Shows(face, p)
        BY <1>1, <1>2, <1>7, <2>3, <3>1 DEF Shows, Fits
      <3> QED BY <1>7, <2>2, <2>3, <3>2, StartFits
    <2>5. ASSUME ~Same
          PROVE  Fits(face, Start(face, p)) /\ Kept(p, Start(face, p))
      <3>1. OnDevice /\ AlsEnabled /\ ~p.alsIsOn /\ p.region # "indoor"
        BY <1>1, <1>2, <2>5 DEF Sensible
      <3> QED BY <1>7, <2>2, <2>3, <3>1, StartsAnew
    <2>6. Fits(face, panel') /\ Kept(p, panel')
      BY <2>1, <2>4, <2>5
    <2>7. DisablersCounted'
      BY <1>2, <1>4, <2>6, CountsKept DEF Kept, PanelInv
    <2> QED BY <1>4, <2>6, <2>7 DEF PanelInv, ScreenOK, screenVars
  <1> QED BY <1>5, <1>6, <1>7
LEMMA ReadingChangedKeeps ==
  ASSUME PanelInv, NEW level \in Region, ReadingChanged(level)
  PROVE  PanelInv'
  <1> DEFINE r == IF panel.disabled > 0 THEN "undefined" ELSE level
  <1>1. Fits(face, panel) /\ Sensible(panel) /\ panel.alsIsOn
    BY DEF PanelInv, Fits, ReadingChanged
  <1>2. face \in Bright /\ Shows(face, panel)
    BY <1>1 DEF Fits, Sensible, Served, Announced, Shows, Bright
  <1>3. r \in Region
    BY DEF Region
  <1>4. panel' = SetCurrentRegion(face, panel, r)
    BY DEF ReadingChanged
  <1> HIDE DEF r
  <1>5. /\ Kept(panel, panel')
        /\ panel'.alsIsOn = panel.alsIsOn
        /\ panel'.alsDisplayOn = panel.alsDisplayOn
        /\ Shows(face, panel')
    BY <1>1, <1>2, <1>3, <1>4, SetCurrentRegionFits DEF Shows
  <1>6. Fits(face, panel')
    BY <1>1, <1>2, <1>5
       DEF Fits, Sensible, Served, Announced, KeysOff, Shows, Kept, Bright
  <1>7. UNCHANGED <<screenVars, wants>>
    BY DEF ReadingChanged
  <1>8. DisablersCounted'
    BY <1>5, <1>7, CountsKept DEF Kept, PanelInv
  <1> QED BY <1>6, <1>7, <1>8 DEF PanelInv, ScreenOK, screenVars

LEMMA SubsetsFinite ==
  /\ IsFiniteSet(Subscribed) /\ Cardinality(Subscribed) \in Nat
  /\ IsFiniteSet(Disabling) /\ Cardinality(Disabling) \in Nat
  BY PanelAssumption, FS_Subset, FS_CardinalityType DEF Subscribed, Disabling

LEMMA ControlStatusKeeps ==
  ASSUME PanelInv, NEW c \in Clients, NEW disable \in BOOLEAN,
         ControlStatus(c, disable)
  PROVE  PanelInv'
  <1> DEFINE s == [panel EXCEPT !.subscriptions = @ + 1]
             e == [s EXCEPT !.disabled = @ + 1]
  <1>1. panel \in PanelType /\ Sensible(panel)
    BY DEF PanelInv, Fits, Sensible
  <1>2. s \in PanelType /\ s.subscriptions = panel.subscriptions + 1
        /\ s.disabled = panel.disabled
        /\ s.alsIsOn = panel.alsIsOn /\ s.alsDisplayOn = panel.alsDisplayOn
        /\ s.region = panel.region /\ s.lit = panel.lit
        /\ s.told = panel.told /\ s.keys = panel.keys
        /\ s.pref = panel.pref /\ s.sent = panel.sent
        /\ s.slider = panel.slider /\ s.max = panel.max
        /\ s.battery = panel.battery /\ s.charged = panel.charged
    BY <1>1 DEF PanelType, Notification
  <1>3. SensorOn(face, s) = s
    BY <1>1, <1>2 DEF SensorOn, Sensible
  <1>4. panel' = IF disable THEN e ELSE s
    BY <1>3 DEF ControlStatus
  <1> HIDE DEF s
  <1>5. e \in PanelType /\ e.subscriptions = s.subscriptions
        /\ e.disabled = s.disabled + 1
        /\ e.alsIsOn = s.alsIsOn /\ e.alsDisplayOn = s.alsDisplayOn
        /\ e.region = s.region /\ e.lit = s.lit
        /\ e.told = s.told /\ e.keys = s.keys
        /\ e.pref = s.pref /\ e.sent = s.sent
        /\ e.slider = s.slider /\ e.max = s.max
        /\ e.battery = s.battery /\ e.charged = s.charged
    BY <1>2 DEF PanelType, Notification
  <1> HIDE DEF e
  <1>6. ScreenOK' /\ Fits(face, panel)'
    <2>1. UNCHANGED screenVars
      BY DEF ControlStatus
    <2>2. CASE disable
      <3>1. panel' = e
        BY <1>4, <2>2
      <3> QED BY <1>2, <1>5, <2>1, <3>1, InputsKept
    <2>3. CASE ~disable
      <3>1. panel' = s
        BY <1>4, <2>3
      <3> QED BY <1>2, <2>1, <3>1, InputsKept
    <2> QED BY <2>2, <2>3
  <1>7. /\ wants' \in [Clients -> {"none", "status", "disabled"}]
        /\ Subscribed' = Subscribed \cup {c} /\ c \notin Subscribed
        /\ Disabling' = IF disable THEN Disabling \cup {c} ELSE Disabling
        /\ c \notin Disabling
    BY DEF ControlStatus, PanelInv, Subscribed, Disabling
  <1>8. /\ Cardinality(Subscribed') = Cardinality(Subscribed) + 1
        /\ disable => Cardinality(Disabling') = Cardinality(Disabling) + 1
    BY <1>7, SubsetsFinite, FS_AddElement
  <1>9. DisablersCounted'
    <2>1. /\ panel.subscriptions = Cardinality(Subscribed)
          /\ panel.disabled >= Cardinality(Disabling)
          /\ panel.disabled \in Nat
      BY <1>1 DEF PanelInv, DisablersCounted, PanelType, Notification
    <2>2. CASE disable
      BY <1>2, <1>4, <1>5, <1>8, <2>1, <2>2, SubsetsFinite
         DEF DisablersCounted
    <2>3. CASE ~disable
      BY <1>2, <1>4, <1>7, <1>8, <2>1, <2>3 DEF DisablersCounted
    <2> QED BY <2>2, <2>3
  <1> QED BY <1>6, <1>7, <1>9 DEF PanelInv

LEMMA CancelSubscriptionKeeps ==
  ASSUME PanelInv, NEW c \in Clients, CancelSubscription(c)
  PROVE  PanelInv'
  <1> DEFINE p == [panel EXCEPT !.subscriptions = @ - 1]
             n == IF wants[c] = "disabled" THEN panel.disabled - 1
                  ELSE panel.disabled
             e == [p EXCEPT !.disabled = n]
  <1>1. panel \in PanelType /\ Sensible(panel)
    BY DEF PanelInv, Fits, Sensible
  <1>2. /\ wants' \in [Clients -> {"none", "status", "disabled"}]
        /\ Subscribed' = Subscribed \ {c} /\ c \in Subscribed
        /\ Disabling' = Disabling \ {c}
        /\ c \in Disabling <=> wants[c] = "disabled"
        /\ Disabling' \subseteq Subscribed'
    BY DEF CancelSubscription, PanelInv, Subscribed, Disabling
  <1>3. /\ Cardinality(Subscribed') = Cardinality(Subscribed) - 1
        /\ Cardinality(Subscribed) - 1 \in Nat
        /\ IsFiniteSet(Subscribed')
    <2>1. /\ IsFiniteSet(Subscribed \ {c})
          /\ Cardinality(Subscribed \ {c}) = Cardinality(Subscribed) - 1
      BY <1>2, SubsetsFinite, FS_RemoveElement
    <2>2. Cardinality(Subscribed \ {c}) \in Nat
      BY <2>1, FS_CardinalityType
    <2> QED BY <1>2, <2>1, <2>2
  <1>4. /\ Cardinality(Disabling') =
             IF c \in Disabling THEN Cardinality(Disabling) - 1
             ELSE Cardinality(Disabling)
        /\ Cardinality(Disabling') \in Nat
        /\ Cardinality(Disabling') =< Cardinality(Subscribed')
    BY <1>2, <1>3, SubsetsFinite, FS_RemoveElement, FS_Subset,
       FS_CardinalityType
  <1>5. /\ panel.subscriptions = Cardinality(Subscribed)
        /\ panel.disabled >= Cardinality(Disabling)
        /\ panel.disabled \in Nat
    BY <1>1 DEF PanelInv, DisablersCounted, PanelType, Notification
  <1>6. n \in Nat /\ n >= Cardinality(Disabling')
    BY <1>2, <1>4, <1>5, SubsetsFinite
  <1>7. p \in PanelType /\ p.subscriptions = Cardinality(Subscribed')
        /\ p.disabled = panel.disabled
        /\ p.alsIsOn = panel.alsIsOn /\ p.alsDisplayOn = panel.alsDisplayOn
        /\ p.region = panel.region /\ p.lit = panel.lit
        /\ p.told = panel.told /\ p.keys = panel.keys
        /\ p.pref = panel.pref /\ p.sent = panel.sent
        /\ p.slider = panel.slider /\ p.max = panel.max
        /\ p.battery = panel.battery /\ p.charged = panel.charged
    BY <1>1, <1>3, <1>5 DEF PanelType, Notification
  <1>8. panel' = IF p.subscriptions # 0 THEN p ELSE SensorOff(e)
    BY <1>1 DEF CancelSubscription, PanelType, Notification
  <1> HIDE DEF p, n
  <1>9. e \in PanelType /\ e.subscriptions = p.subscriptions
        /\ e.disabled = n
        /\ e.alsIsOn = p.alsIsOn /\ e.alsDisplayOn = p.alsDisplayOn
        /\ e.region = p.region /\ e.lit = p.lit
        /\ e.told = p.told /\ e.keys = p.keys
        /\ e.pref = p.pref /\ e.sent = p.sent
        /\ e.slider = p.slider /\ e.max = p.max
        /\ e.battery = p.battery /\ e.charged = p.charged
    BY <1>6, <1>7 DEF PanelType, Notification
  <1>10. SensorOff(e) = e
    <2>1. CASE e.alsDisplayOn /\ (AlsEnabled \/ e.subscriptions > 0)
      BY <2>1 DEF SensorOff
    <2>2. CASE ~(e.alsDisplayOn /\ (AlsEnabled \/ e.subscriptions > 0))
      <3>1. e.alsIsOn = FALSE
        BY <1>1, <1>7, <1>9, <2>2 DEF Sensible, PanelType, Notification
      <3>2. [e EXCEPT !.alsIsOn = FALSE] = e
        <4> HIDE DEF e
        <4> QED BY <1>9, <3>1 DEF PanelType, Notification
      <3> QED BY <2>2, <3>2 DEF SensorOff
    <2> QED BY <2>1, <2>2
  <1> HIDE DEF e
  <1>11. panel' = p \/ panel' = e
    BY <1>8, <1>10
  <1>12. ScreenOK' /\ Fits(face, panel)'
    <2>1. UNCHANGED screenVars
      BY DEF CancelSubscription
    <2> QED BY <1>7, <1>9, <1>11, <2>1, InputsKept
  <1>13. DisablersCounted'
    BY <1>4, <1>5, <1>6, <1>7, <1>9, <1>11, SubsetsFinite
       DEF DisablersCounted
  <1> QED BY <1>2, <1>12, <1>13 DEF PanelInv

(* What a step leaves of the keypad's light. *)
KeysStep == KeysDone(face, panel, panel') /\ face' = face

LEMMA ScreenKeys ==
  ASSUME PanelInv, ScreenStep, face' \in Bright
  PROVE  KeypadFits(face', panel') \/ KeysStep
  <1> DEFINE p == Entered(panel)
  <1>1. ScreenMoves /\ panel \in PanelType /\ Fits(face, panel)
    BY DEF ScreenStep, ScreenMoves, PanelInv, Fits, Sensible
  <1>2. p \in PanelType
    BY <1>1, EnteredFits DEF PanelInv, Fits, Sensible
  <1>3. p = (IF face' = face THEN panel ELSE Enter(face', panel))
    BY DEF Entered
  <1>4. panel' = p \/ panel' = UpdateBrightness(face', p)
    BY DEF ScreenStep
  <1> HIDE DEF p
  <1>5. CASE panel' = UpdateBrightness(face', p)
    BY <1>2, <1>5, BrightKeys
  <1>6. CASE panel' = p
    BY <1>1, <1>3, <1>6, BrightKeys DEF KeysStep, KeysDone, KeysKept
  <1> QED BY <1>4, <1>5, <1>6

LEMMA ChargerKeys ==
  ASSUME PanelInv, NEW charged \in BOOLEAN, ChargerCallback(charged),
         face' \in Bright
  PROVE  KeypadFits(face', panel')
  <1> DEFINE p == Entered(panel)
             e == [p EXCEPT !.charged = charged]
  <1>1. p \in PanelType
    BY EnteredFits DEF ChargerCallback, PanelInv, Fits, Sensible
  <1>2. panel' = UpdateBrightness(face', e)
    BY DEF ChargerCallback
  <1> HIDE DEF p
  <1>3. e \in PanelType
    BY <1>1 DEF PanelType, Notification
  <1> HIDE DEF e
  <1> QED BY <1>2, <1>3, BrightKeys

LEMMA BatteryKeys ==
  ASSUME PanelInv, NEW level \in Percent, BatteryCallback(level),
         face \in Bright
  PROVE  KeypadFits(face, panel')
  <1> DEFINE e == [panel EXCEPT !.battery = level]
  <1>1. e \in PanelType
    BY PanelAssumption DEF PanelInv, Fits, Sensible, PanelType, Notification
  <1>2. panel' = UpdateBrightness(face, e)
    BY DEF BatteryCallback
  <1> HIDE DEF e
  <1> QED BY <1>1, <1>2, BrightKeys

LEMMA SetMaximumBrightnessKeys ==
  ASSUME PanelInv, NEW value \in Percent, SetMaximumBrightness(value),
         face \in Bright
  PROVE  KeypadFits(face, panel')
  <1> DEFINE m == Bound(1, value, 100)
             e == [panel EXCEPT !.max = m]
  <1>1. m \in 1 .. 100
    <2>1. value \in Int
      BY PanelAssumption
    <2> QED BY <2>1, BoundIn, Zenon
  <1>2. panel' = IF face \in {"open", "dock"} THEN BacklightOn(face, e)
                 ELSE UpdateBrightness(face, panel)
    BY DEF SetMaximumBrightness
  <1> HIDE DEF m
  <1>3. panel \in PanelType /\ e \in PanelType
    BY <1>1 DEF PanelInv, Fits, Sensible, PanelType, Notification
  <1> HIDE DEF e
  <1> QED BY <1>2, <1>3, BacklightOnKeys, BrightKeys

LEMMA SlotAlsEnabledKeys ==
  ASSUME PanelInv, NEW enable \in BOOLEAN, SlotAlsEnabled(enable),
         face \in Bright
  PROVE  KeysDone(face, panel, panel')
  <1> DEFINE e == [panel EXCEPT !.pref = enable]
  <1>1. /\ e \in PanelType /\ e.keys = panel.keys
        /\ e.slider = panel.slider
        /\ e.max = panel.max /\ e.battery = panel.battery
        /\ e.charged = panel.charged /\ e.region = panel.region
    BY DEF PanelInv, Fits, Sensible, PanelType, Notification
  <1>2. panel' = IF ~enable THEN UpdateBrightness(face, Stop(e))
                 ELSE Start(face, e)
    BY DEF SlotAlsEnabled
  <1> HIDE DEF e
  <1>3. CASE ~enable
    BY <1>1, <1>2, <1>3, Stopped, BrightKeys DEF KeysDone
  <1>4. CASE enable
    <2>1. KeysDone(face, e, panel')
      BY <1>1, <1>2, <1>4, StartKeys
    <2>2. KeypadBrightness(face, e) = KeypadBrightness(face, panel)
      BY <1>1 DEF KeypadBrightness, Drain
    <2> QED BY <1>1, <2>1, <2>2 DEF KeysDone, KeysKept
  <1> QED BY <1>3, <1>4

LEMMA ReadingChangedKeys ==
  ASSUME PanelInv, NEW level \in Region, ReadingChanged(level),
         face \in Bright
  PROVE  KeysDone(face, panel, panel')
  <1> DEFINE r == IF panel.disabled > 0 THEN "undefined" ELSE level
  <1>1. r \in Region
    BY DEF Region
  <1>2. panel' = SetCurrentRegion(face, panel, r)
    BY DEF ReadingChanged
  <1> HIDE DEF r
  <1> QED BY <1>1, <1>2, SetCurrentRegionKeys DEF PanelInv, Fits, Sensible

LEMMA ControlStatusKeys ==
  ASSUME PanelInv, NEW c \in Clients, NEW disable \in BOOLEAN,
         ControlStatus(c, disable), face \in Bright
  PROVE  KeysDone(face, panel, panel')
  <1> DEFINE s == [panel EXCEPT !.subscriptions = @ + 1]
             e == SensorOn(face, s)
             d == [e EXCEPT !.disabled = @ + 1]
  <1>1. s \in PanelType /\ s.keys = panel.keys /\ s.slider = panel.slider
        /\ SameInputs(panel, s)
    BY DEF PanelInv, Fits, Sensible, PanelType, Notification, SameInputs
  <1>2. panel' = IF disable THEN d ELSE e
    BY DEF ControlStatus
  <1> HIDE DEF s
  <1>3. KeypadBrightness(face, s) = KeypadBrightness(face, panel)
    BY <1>1, KeypadSame
  <1>4. e \in PanelType /\ KeysDone(face, s, e)
    BY <1>1, SensorOnKeys DEF Face
  <1> HIDE DEF e
  <1>5. d.keys = e.keys /\ d.slider = e.slider /\ SameInputs(e, d)
    BY <1>4 DEF PanelType, Notification, SameInputs
  <1> HIDE DEF d
  <1>6. KeypadBrightness(face, d) = KeypadBrightness(face, e)
    BY <1>5, KeypadSame
  <1> QED BY <1>1, <1>2, <1>3, <1>4, <1>5, <1>6
          DEF KeysDone, KeysKept, KeypadFits

LEMMA CancelSubscriptionKeys ==
  ASSUME PanelInv, NEW c \in Clients, CancelSubscription(c)
  PROVE  KeysDone(face, panel, panel')
  <1>1. panel \in PanelType
    BY DEF PanelInv, Fits, Sensible
  <1>2. panel'.keys = panel.keys /\ panel'.slider = panel.slider
        /\ SameInputs(panel, panel')
    BY <1>1 DEF CancelSubscription, SensorOff, SameInputs, PanelType,
                Notification
  <1>3. KeypadBrightness(face, panel') = KeypadBrightness(face, panel)
    BY <1>2, KeypadSame
  <1> QED BY <1>2, <1>3 DEF KeysDone, KeysKept

(* A bright screen's keypad, after any step but the slider's answer. *)
LEMMA KeysStepped ==
  ASSUME PanelInv, [Next]_vars, face' \in Bright, ~SliderAnswers
  PROVE  KeypadFits(face', panel') \/ KeysStep
  <1>1. CASE ScreenStep
    BY <1>1, ScreenKeys
  <1>2. CASE \E level \in Percent : BatteryCallback(level)
    BY <1>2, BatteryKeys DEF BatteryCallback, screenVars
  <1>3. CASE \E charged \in BOOLEAN : ChargerCallback(charged)
    BY <1>3, ChargerKeys
  <1>4. CASE \E value \in Percent : SetMaximumBrightness(value)
    BY <1>4, SetMaximumBrightnessKeys DEF SetMaximumBrightness, screenVars
  <1>5. CASE \E enable \in BOOLEAN : SlotAlsEnabled(enable)
    BY <1>5, SlotAlsEnabledKeys DEF SlotAlsEnabled, screenVars, KeysStep
  <1>6. CASE \E level \in Region : ReadingChanged(level)
    BY <1>6, ReadingChangedKeys DEF ReadingChanged, screenVars, KeysStep
  <1>7. CASE \E c \in Clients, disable \in BOOLEAN : ControlStatus(c, disable)
    BY <1>7, ControlStatusKeys DEF ControlStatus, screenVars, KeysStep
  <1>8. CASE \E c \in Clients : CancelSubscription(c)
    BY <1>8, CancelSubscriptionKeys
       DEF CancelSubscription, screenVars, KeysStep
  <1>9. CASE UNCHANGED vars
    BY <1>9 DEF vars, screenVars, KeysStep, KeysDone, KeysKept
  <1> QED BY <1>1, <1>2, <1>3, <1>4, <1>5, <1>6, <1>7, <1>8, <1>9
          DEF Next, SliderAnswers

LEMMA PanelInitially == Init => PanelInv /\ KeypadFits(face, panel)
  <1> SUFFICES ASSUME Init PROVE PanelInv /\ KeypadFits(face, panel)
    OBVIOUS
  <1>1. ScreenOK
    BY DEF Init, ScreenInit, ScreenOK, Face, Bright, LockOn
  <1>2. wants = [c \in Clients |-> "none"]
    BY DEF Init
  <1>3. PICK max \in {Bound(1, v, 100) : v \in Percent} \cup {DEFAULT_BRIGHTNESS},
             pref \in BOOLEAN :
          panel = Enter(face,
            [max |-> max, battery |-> 100, charged |-> FALSE, pref |-> pref,
             slider |-> FALSE, region |-> "undefined", alsIsOn |-> FALSE,
             alsDisplayOn |-> FALSE, subscriptions |-> 0, disabled |-> 0,
             lit |-> FALSE, told |-> "displayOff", sent |-> -1, keys |-> 0])
    BY DEF Init
  <1> DEFINE p == [max |-> max, battery |-> 100, charged |-> FALSE,
             pref |-> pref, slider |-> FALSE, region |-> "undefined",
             alsIsOn |-> FALSE, alsDisplayOn |-> FALSE, subscriptions |-> 0,
             disabled |-> 0, lit |-> FALSE, told |-> "displayOff",
             sent |-> -1, keys |-> 0]
  <1>4. max \in 1 .. 100
    <2>1. \A v \in Percent : Bound(1, v, 100) \in 1 .. 100
      BY PanelAssumption, BoundIn
    <2> QED BY <2>1 DEF DEFAULT_BRIGHTNESS
  <1>5. Sensible(p) /\ p.subscriptions = 0 /\ p.disabled = 0
    BY <1>4 DEF Sensible, PanelType, Notification, Region
  <1>6. panel = Enter(face, p) /\ face \in Face
    BY <1>1, <1>3 DEF ScreenOK
  <1> HIDE DEF p
  <1>7. Fits(face, panel) /\ Kept(p, panel)
    BY <1>5, <1>6, EnterFits
  <1>8. Subscribed = {} /\ Disabling = {}
    BY <1>2 DEF Subscribed, Disabling
  <1>9. DisablersCounted
    BY <1>5, <1>7, <1>8, FS_EmptySet DEF DisablersCounted, Kept
  <1>10. wants \in [Clients -> {"none", "status", "disabled"}]
    BY <1>2
  <1>11. KeypadFits(face, panel)
    BY <1>1, <1>5, <1>6, BrightKeys DEF Init, ScreenInit, Bright, Sensible
  <1> QED BY <1>1, <1>7, <1>9, <1>10, <1>11 DEF PanelInv

LEMMA PanelStep == PanelInv /\ [Next]_vars => PanelInv'
  <1> SUFFICES ASSUME PanelInv, [Next]_vars PROVE PanelInv'
    OBVIOUS
  <1>1. CASE ScreenStep
    BY <1>1, ScreenStepKeeps
  <1>2. CASE \E level \in Percent : BatteryCallback(level)
    BY <1>2, BatteryKeeps
  <1>3. CASE \E charged \in BOOLEAN : ChargerCallback(charged)
    BY <1>3, ChargerKeeps
  <1>4. CASE \E open \in BOOLEAN : SliderCallback(open)
    BY <1>4, SliderCallbackKeeps
  <1>5. CASE \E value \in Percent : SetMaximumBrightness(value)
    BY <1>5, SetMaximumBrightnessKeeps
  <1>6. CASE \E enable \in BOOLEAN : SlotAlsEnabled(enable)
    BY <1>6, SlotAlsEnabledKeeps
  <1>7. CASE \E level \in Region : ReadingChanged(level)
    BY <1>7, ReadingChangedKeeps
  <1>8. CASE \E c \in Clients, disable \in BOOLEAN : ControlStatus(c, disable)
    BY <1>8, ControlStatusKeeps
  <1>9. CASE \E c \in Clients : CancelSubscription(c)
    BY <1>9, CancelSubscriptionKeeps
  <1>10. CASE UNCHANGED vars
    BY <1>10 DEF vars, screenVars, PanelInv, ScreenOK, DisablersCounted,
                 Subscribed, Disabling
  <1> QED BY <1>1, <1>2, <1>3, <1>4, <1>5, <1>6, <1>7, <1>8, <1>9,
             <1>10 DEF Next

LEMMA PanelAlways == Spec => []PanelInv
  BY PanelInitially, PanelStep, PTL DEF Spec

-----------------------------------------------------------------------------

(* The type invariant: brightness values stay between 0 and 100 for any    *)
(* scales, and the sensor's counts never fall below zero.                  *)
THEOREM PanelTypesAlways == Spec => []PanelTypeOK
  <1>1. PanelInv => PanelTypeOK
    BY DEF PanelInv, PanelTypeOK, Fits, Sensible
  <1> QED BY <1>1, PanelAlways, PTL

(* The sensor of AmbientLightSensor runs while the screen is bright and    *)
(* the preference set, whatever its clients, the dimming and the locks do. *)
THEOREM SensorServesScreenAlways == Spec => []SensorServesScreen
  <1>1. PanelInv => SensorServesScreen
    BY DEF PanelInv, SensorServesScreen, Fits, Sensible, Served
  <1> QED BY <1>1, PanelAlways, PTL

(* getDisplayBrightness() of now is what the driver was sent last, on a    *)
(* bright screen.                                                          *)
THEOREM BrightnessCurrentAlways == Spec => []BrightnessCurrent
  <1>1. PanelInv => BrightnessCurrent
    BY DEF PanelInv, BrightnessCurrent, Fits
  <1> QED BY <1>1, PanelAlways, PTL

(* Who listens to notifySubscribers() knows when it is dark.               *)
THEOREM SubscribersKnowDarkAlways == Spec => []SubscribersKnowDark
  <1>1. PanelInv => SubscribersKnowDark
    BY DEF PanelInv, SubscribersKnowDark, Fits, Sensible, Announced
  <1> QED BY <1>1, PanelAlways, PTL

(* getKeypadBrightness() of now is what the keypad has, from one change to *)
(* the next, but for a slider that has been noted only.                    *)
THEOREM KeypadCurrentAlways == Spec => KeypadCurrent
  <1>1. PanelInv /\ PanelInv' /\ [Next]_vars => [KeypadStep]_vars
    <2> SUFFICES ASSUME PanelInv, PanelInv', [Next]_vars,
                        ~KeypadFits(face', panel'), ~SliderAnswers
                 PROVE  /\ ~KeypadFits(face, panel)
                        /\ UNCHANGED <<face, panel.keys,
                                       KeypadBrightness(face, panel)>>
      BY DEF KeypadStep
    <2>1. face' \in Bright
      BY DEF PanelInv, Fits, KeysOff, KeypadFits
    <2>2. KeysDone(face, panel, panel') /\ face' = face
      BY <2>1, KeysStepped DEF KeysStep
    <2> QED BY <2>1, <2>2 DEF KeysDone, KeysKept, KeypadFits
  <1> QED BY <1>1, PanelInitially, PanelStep, PTL DEF Spec, KeypadCurrent

(* Every client that has disabled the sensor is counted, for any finite    *)
(* set of clients.                                                         *)
THEOREM DisablersCountedAlways == Spec => []DisablersCounted
  <1>1. PanelInv => DisablersCounted
    BY DEF PanelInv
  <1> QED BY <1>1, PanelAlways, PTL

=============================================================================
