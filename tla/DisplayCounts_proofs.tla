------------------------ MODULE DisplayCounts_proofs ------------------------
(***************************************************************************)
(* The counts that clients, the cable and the display manager share, for   *)
(* any finite set of clients: the DNAST count is the number of those who   *)
(* hold one, and the proximity sensor, where it does not refuse, serves    *)
(* who asked for it.  And what rests on the DNAST count: when a lit        *)
(* display is left without a timer.                                        *)
(*                                                                         *)
(* They are about instances without the dock, the emulator or a            *)
(* preferences service that fails, as far as each needs it: with those     *)
(* they do not hold.                                                       *)
(***************************************************************************)
EXTENDS DisplayManager_proofs

(* A handler comes from d to e, in order, and leaves n for the count.      *)
Shifted(d, e, n) ==
  /\ Good(e)
  /\ e.dnast = n
  /\ e.charger = d.charger
  /\ e.proximity = d.proximity

Carried(d, e) == Shifted(d, e, d.dnast)

LEMMA SameCarried ==
  ASSUME NEW d, NEW e, Good(e), SameInputs(d, e)
  PROVE  Carried(d, e)
  BY DEF Carried, Shifted, SameInputs

LEMMA EventCarried ==
  ASSUME NEW d, Good(d), NEW ev \in Event
  PROVE  Carried(d, HandleEvent(d, ev))
  BY HandleEventGood, SameCarried

LEMMA NoteDnastShifts ==
  ASSUME NEW d, Good(d), NEW v \in Nat
  PROVE  Shifted(d, [d EXCEPT !.dnast = v], v)
  <1> DEFINE e == [d EXCEPT !.dnast = v]
  <1>1. d \in Display
    BY DEF Good, Ordered
  <1>2. /\ e \in Display /\ SameScreen(d, e)
        /\ e.dnast = v /\ e.charger = d.charger /\ e.proximity = d.proximity
    BY <1>1 DEF Display, SameScreen
  <1> HIDE DEF e
  <1>3. Good(e)
    BY <1>2, ScreenGood
  <1> QED BY <1>2, <1>3 DEF Shifted, e

(* The requests that several handlers make. *)
LEMMA RequestsCarried ==
  ASSUME NEW d, Good(d)
  PROVE  /\ Carried(d, On(d))
         /\ Carried(d, Off(d))
         /\ Carried(d, Dimmed(d))
         /\ Carried(d, Dock(d))
         /\ Carried(d, Undock(d))
         /\ Carried(d, Lock(d))
         /\ Carried(d, Unlock(d))
  <1>1. Carried(d, d)
    BY DEF Carried, Shifted
  <1>2. {"ApiOn", "ApiOff", "ApiDim", "ApiDock", "ApiUndock", "LockScreen",
         "UnlockScreen"} \subseteq Event
    BY DEF Event
  <1> QED
    BY <1>1, <1>2, EventCarried DEF On, Off, Dimmed, Dock, Undock, Lock, Unlock

LEMMA PushShifts ==
  ASSUME NEW d, Good(d), NEW up
  PROVE  Shifted(d, PushDNAST(d, up), d.dnast + 1)
  <1> DEFINE e == [d EXCEPT !.dnast = @ + 1]
             f == IF e.state \in {"Off", "Dim"} THEN On(e) ELSE e
  <1>1. Shifted(d, e, d.dnast + 1)
    <2>1. d.dnast + 1 \in Nat
      BY DEF Good, Ordered, Display
    <2> QED BY <2>1, NoteDnastShifts
  <1> HIDE DEF e
  <1>2. Carried(e, f)
    BY <1>1, RequestsCarried DEF Shifted, Carried
  <1> HIDE DEF f
  <1>3. Carried(f, StopInactivityTimer(f))
    BY <1>2, TimerStoppedGood, SameCarried DEF Carried, Shifted, Same
  <1>4. PushDNAST(d, up) = e \/ PushDNAST(d, up) = StopInactivityTimer(f)
    BY DEF PushDNAST, e, f
  <1> QED BY <1>1, <1>2, <1>3, <1>4 DEF Carried, Shifted

LEMMA TimerCarried ==
  ASSUME NEW d, Good(d)
  PROVE  Carried(d, StartInactivityTimer(d))
  <1>1. Ordered(d) /\ d.timers \subseteq TimersOf(d.state)
    BY DEF Good, TimersBelong
  <1> QED BY <1>1, TimerStartedGood, SameCarried DEF Same

(* What is not held is not popped. *)
LEMMA PopShifts ==
  ASSUME NEW d, Good(d)
  PROVE  Shifted(d, PopDNAST(d), IF d.dnast > 0 THEN d.dnast - 1 ELSE d.dnast)
  <1> DEFINE e == [d EXCEPT !.dnast = @ - 1]
  <1>1. d.dnast \in Nat
    BY DEF Good, Ordered, Display
  <1>2. CASE d.dnast = 0
    BY <1>2 DEF PopDNAST, Shifted
  <1>3. CASE d.dnast # 0
    <2>1. d.dnast - 1 \in Nat /\ d.dnast > 0 /\ ~(d.dnast <= 0)
      BY <1>1, <1>3
    <2>2. Shifted(d, e, d.dnast - 1)
      BY <2>1, NoteDnastShifts
    <2>3. PopDNAST(d) = e \/ PopDNAST(d) = StartInactivityTimer(e)
      BY <2>1 DEF PopDNAST
    <2> HIDE DEF e
    <2>4. Carried(e, StartInactivityTimer(e))
      BY <2>2, TimerCarried DEF Shifted
    <2> QED BY <2>1, <2>2, <2>3, <2>4 DEF Carried, Shifted
  <1> QED BY <1>2, <1>3

-----------------------------------------------------------------------------
(* The handlers that count nothing.                                        *)

LEMMA AlertCarried ==
  ASSUME Good(display), alertState \in {"Off", "Dim", "Undefined"},
         Alert \/ AlertTimeout
  PROVE  Carried(display, display')
  <1> DEFINE d == BackFromAlert(display)
  <1>1. Carried(display, display) /\ Carried(display, d)
    BY RequestsCarried DEF BackFromAlert, Carried, Shifted
  <1>2. Good(d)
    BY <1>1 DEF Carried, Shifted
  <1> HIDE DEF d
  <1>3. Carried(d, HandleEvent(d, "IncomingCallDone"))
    BY <1>2, EventCarried DEF Event
  <1>4. /\ Carried(display, HandleEvent(d, "IncomingCallDone"))
        /\ Carried(display, HandleEvent(display, "IncomingCall"))
        /\ Carried(display, On(display))
    BY <1>1, <1>3, EventCarried, RequestsCarried DEF Carried, Shifted, Event
  <1>5. \/ display' = display \/ display' = On(display) \/ display' = d
        \/ display' = HandleEvent(display, "IncomingCall")
        \/ display' = HandleEvent(d, "IncomingCallDone")
    BY DEF Alert, AlertTimeout, GenericActivated, PhonecallActivated, Becomes,
           PhonecallDeactivated, GenericDeactivated, CancelAlert, d
  <1> QED BY <1>1, <1>4, <1>5

LEMMA AudiodCarried ==
  ASSUME Good(display), NEW headset \in BOOLEAN, NEW inCall \in BOOLEAN,
         AudiodCallback(headset, inCall)
  PROVE  Carried(display, display')
  <1> DEFINE d == IF headset THEN HandleEvent(display, "UserActivity") ELSE display
             e == [d EXCEPT !.onCall = inCall]
             f == HandleEvent(e, "OffCall")
  <1>0. {"UserActivity", "OnCall", "OffCall", "AlsChange"} \subseteq Event
    BY DEF Event
  <1>1. display' \in {d, HandleEvent(e, "OnCall"), HandleEvent(f, "AlsChange")}
    BY DEF AudiodCallback, Becomes
  <1>2. Carried(display, d)
    BY <1>0, EventCarried DEF Carried, Shifted
  <1> HIDE DEF d
  <1>3. Carried(d, e)
    <2>1. Good(d) /\ d \in Display
      BY <1>2 DEF Carried, Shifted, Good, Ordered
    <2>2. Good(e)
      BY <2>1, NoteOnCall
    <2>3. e.dnast = d.dnast /\ e.charger = d.charger /\ e.proximity = d.proximity
      BY <2>1 DEF Display
    <2> QED BY <2>2, <2>3 DEF Carried, Shifted
  <1> HIDE DEF e
  <1>4. Carried(e, f) /\ Carried(e, HandleEvent(e, "OnCall"))
    BY <1>0, <1>3, EventCarried DEF Carried, Shifted
  <1> HIDE DEF f
  <1>5. Carried(f, HandleEvent(f, "AlsChange"))
    BY <1>0, <1>4, EventCarried DEF Carried, Shifted
  <1> QED BY <1>1, <1>2, <1>3, <1>4, <1>5 DEF Carried, Shifted

(* The fields of a record that some handlers write.  That the display is   *)
(* in order after any step is known (StepInv).                             *)
LEMMA FieldsCarried ==
  ASSUME Good(display), Good(display'),
         \/ BacklightDone \/ MarkBootFinished \/ PasscodeChange
         \/ \E open \in BOOLEAN : SliderCallback(open)
  PROVE  Carried(display, display')
  <1>1. display \in Display
    BY DEF Good, Ordered
  <1>2. CASE BacklightDone
    <2>1. PICK rest \in {display.led, Tail(display.led)} :
            display' = IF Head(display.led)
                       THEN BacklightOnCallback([display EXCEPT !.led = rest])
                       ELSE BacklightOffCallback([display EXCEPT !.led = rest])
      BY <1>2 DEF BacklightDone, Becomes
    <2> QED BY <1>1, <2>1 DEF BacklightOnCallback, BacklightOffCallback, Carried,
                              Shifted, Display
  <1>3. CASE MarkBootFinished
    <2> DEFINE d == IF display.booted THEN On(display) ELSE display
    <2>1. Carried(display, d)
      BY RequestsCarried DEF Carried, Shifted
    <2>2. d \in Display /\ display' = [d EXCEPT !.booted = TRUE]
      BY <1>3, <2>1 DEF MarkBootFinished, Becomes, Carried, Shifted, Good, Ordered
    <2> HIDE DEF d
    <2> QED BY <2>1, <2>2 DEF Carried, Shifted, Display
  <1>4. CASE PasscodeChange
    BY <1>1, <1>4 DEF PasscodeChange, Becomes, Carried, Shifted, Display
  <1>5. CASE \E open \in BOOLEAN : SliderCallback(open)
    BY <1>1, <1>5 DEF SliderCallback, Becomes, Carried, Shifted, Display
  <1> QED BY <1>2, <1>3, <1>4, <1>5

(* The handlers of an event, of two requests or of none. *)
Simple ==
  \/ Timeouts
  \/ PowerKeyDown \/ PowerKeyHeld \/ PowerKeyUp
  \/ Touch
  \/ UnlockRequest
  \/ \E value \in {"on", "dimmed", "off", "dock", "undock"} : SetState(value)
  \/ SetLockStatus("lock")
  \/ UpdateBrightness
  \/ Suspend \/ Resume

LEMMA SimpleCarried ==
  ASSUME Good(display), Simple
  PROVE  Carried(display, display')
  <1>1. Carried(display, display) /\ Good(On(display))
    BY RequestsCarried DEF Carried, Shifted
  <1>2. Carried(display, Unlock(On(display)))
    BY <1>1, RequestsCarried DEF Carried, Shifted
  <1>3. \A ev \in {"PowerKeyPress", "UserActivity", "UpdateBrightness",
                   "PowerdSuspend", "PowerdResume"} :
          Carried(display, HandleEvent(display, ev))
    BY EventCarried DEF Event
  <1>4. \A t \in display.timers : Carried(display, InactivityTimeout(display, t))
    BY TimeoutGood, SameCarried
  <1>5. CASE Timeouts
    BY <1>4, <1>5 DEF Timeouts, ExpireTimer, Becomes
  <1>6. CASE PowerKeyDown \/ PowerKeyHeld \/ PowerKeyUp \/ Touch \/ UpdateBrightness
             \/ Suspend \/ Resume
    BY <1>1, <1>3, <1>6 DEF PowerKeyDown, PowerKeyHeld, PowerKeyUp, Touch,
       UpdateBrightness, Suspend, Resume, SetSuspended, Becomes
  <1>7. CASE UnlockRequest \/ SetLockStatus("lock")
    BY <1>2, <1>7, RequestsCarried DEF UnlockRequest, SetState, SetLockStatus,
       BluetoothKeyboardActive, Becomes
  <1>8. CASE \E value \in {"on", "dimmed", "off", "dock", "undock"} : SetState(value)
    BY <1>1, <1>8, RequestsCarried DEF SetState, Becomes
  <1> QED BY <1>5, <1>6, <1>7, <1>8 DEF Simple

-----------------------------------------------------------------------------
(* The handlers that count.                                                *)

(* What the cable adds to the DNAST count. *)
Cable(chargers, on) == IF "usb" \in chargers /\ on THEN 1 ELSE 0

LEMMA ChargerShifts ==
  ASSUME Good(display), display'.charger \in SUBSET Charger,
         NEW c \in Charger, NEW connected \in BOOLEAN, ChargerCallback(c, connected),
         display.dnast >= Cable(display.charger, onWhenConnected)
  PROVE  /\ display'.dnast = display.dnast
                             - Cable(display.charger, onWhenConnected)
                             + Cable(display'.charger, onWhenConnected)
         /\ display'.proximity = display.proximity
  <1> DEFINE new == Attach(display.charger, c, connected)
             d == [display EXCEPT !.charger = new]
             m == IF ~onWhenConnected THEN d
                  ELSE IF connected THEN PushDNAST(d, online) ELSE PopDNAST(d)
             e == IF new = display.charger THEN d ELSE ChargerEvent(d, c, connected)
  <1>1. display \in Display /\ display.dnast \in Nat
    BY DEF Good, Ordered, Display
  <1>2. display' = HandleEvent(e, "UpdateBrightness")
    BY DEF ChargerCallback, Becomes
  <1>3. /\ Good(d) /\ d.charger = new /\ d.dnast = display.dnast
        /\ d.proximity = display.proximity
    <2>1. new \in SUBSET Charger
      BY <1>1 DEF Attach, Display
    <2>2. /\ d \in Display /\ SameScreen(display, d) /\ d.charger = new
          /\ d.dnast = display.dnast /\ d.proximity = display.proximity
      BY <1>1, <2>1 DEF Display, SameScreen
    <2> HIDE DEF d, new
    <2> QED BY <2>2, ScreenGood
  <1>4. /\ "usb" \in new <=> IF c = "usb" THEN connected ELSE "usb" \in display.charger
        /\ new # display.charger /\ ~connected => c \in display.charger
        /\ new # display.charger /\ connected => c \notin display.charger
    BY DEF Attach
  <1> HIDE DEF d, new
  <1>5. Shifted(d, m, IF ~onWhenConnected THEN d.dnast
                      ELSE IF connected THEN d.dnast + 1
                      ELSE IF d.dnast > 0 THEN d.dnast - 1 ELSE d.dnast)
    <2>1. Shifted(d, d, d.dnast)
      BY <1>3 DEF Shifted
    <2>2. Shifted(d, PushDNAST(d, online), d.dnast + 1)
      BY <1>3, PushShifts
    <2>3. Shifted(d, PopDNAST(d), IF d.dnast > 0 THEN d.dnast - 1 ELSE d.dnast)
      BY <1>3, PopShifts
    <2> QED BY <2>1, <2>2, <2>3
  <1>6. c = "usb" \/ c = "inductive"
    BY DEF Charger
  <1> HIDE DEF m
  <1>7. CASE new = display.charger
    <2>1. e = d
      BY <1>7
    <2>2. Carried(d, display')
      BY <1>2, <1>3, <2>1, EventCarried DEF Event
    <2> QED BY <1>1, <1>3, <1>7, <2>2 DEF Carried, Shifted, Cable
  <1>8. CASE new # display.charger /\ c = "inductive"
    <2>1. e \in {HandleEvent(d, "OnPuck"), HandleEvent(d, "OffPuck")}
      BY <1>8 DEF ChargerEvent
    <2>2. Carried(d, e)
      BY <1>3, <2>1, EventCarried DEF Event
    <2> HIDE DEF e
    <2>3. Carried(e, display')
      BY <1>2, <2>2, EventCarried DEF Carried, Shifted, Event
    <2>4. /\ display'.dnast = display.dnast /\ display'.charger = new
          /\ display'.proximity = display.proximity
      BY <1>3, <2>2, <2>3 DEF Carried, Shifted
    <2> QED BY <1>1, <1>4, <1>8, <2>4 DEF Cable
  <1>9. CASE new # display.charger /\ c = "usb"
    <2>1. e \in {HandleEvent(m, "UsbIn"), HandleEvent(m, "UsbOut")}
      BY <1>9 DEF ChargerEvent, m
    <2>2. Carried(m, e)
      BY <1>5, <2>1, EventCarried DEF Shifted, Event
    <2> HIDE DEF e
    <2>3. Carried(e, display')
      BY <1>2, <2>2, EventCarried DEF Carried, Shifted, Event
    <2>4. /\ display'.dnast = m.dnast /\ display'.charger = new
          /\ display'.proximity = display.proximity
      BY <1>3, <1>5, <2>2, <2>3 DEF Carried, Shifted
    <2>5. m.dnast = IF ~onWhenConnected THEN display.dnast
                    ELSE IF connected THEN display.dnast + 1
                    ELSE IF display.dnast > 0 THEN display.dnast - 1 ELSE display.dnast
      BY <1>3, <1>5 DEF Shifted
    <2> QED BY <1>1, <1>4, <1>9, <2>4, <2>5 DEF Cable
  <1> QED BY <1>6, <1>7, <1>8, <1>9

LEMMA MaximumBrightnessCarried ==
  ASSUME NEW d, Good(d)
  PROVE  Carried(d, SetMaximumBrightness(d))
  <1> DEFINE e == SetMaximumBrightness(d)
  <1>1. CASE d.state \notin {"On", "OnPuck", "DockMode"}
    BY <1>1, EventCarried DEF SetMaximumBrightness, Event
  <1>2. CASE d.state \in {"On", "OnPuck", "DockMode"}
    <2>1. d \in Display /\ d.displayOn = TRUE
      BY <1>2 DEF Good, Ordered, PanelFollows, Dark
    <2>2. e = ScreenOn(d)
      BY <1>2, <2>1 DEF SetMaximumBrightness, ScreenOn, Display
    <2>3. Good(ScreenOn(d)) /\ Same(d, ScreenOn(d))
      BY <1>2, LitGood DEF Dark
    <2> QED BY <2>2, <2>3, SameCarried DEF Same
  <1> QED BY <1>1, <1>2

LEMMA PropertyShifts ==
  ASSUME Good(display), NEW c, NEW asks, NEW timeout \in BOOLEAN,
         NEW on \in BOOLEAN, NEW bright \in BOOLEAN, NEW stored \in BOOLEAN,
         NEW works \in BOOLEAN,
         SetProperty(c, asks, timeout, on, bright, stored, works),
         Safe(display), onWhenConnected \in BOOLEAN,
         display.dnast >= Cable(display.charger, onWhenConnected)
  PROVE  display'.dnast = display.dnast
                          + (IF "requestBlock" \in asks THEN 1 ELSE 0)
                          - Cable(display.charger, onWhenConnected)
                          + Cable(display'.charger, onWhenConnected')
  <1> DEFINE d1 == IF "requestBlock" \in asks THEN PushDNAST(display, online)
                                              ELSE display
             d2 == IF timeout THEN SetTimeout(d1) ELSE d1
             d3 == IF stored THEN SetOnWhenConnected(d2, on) ELSE d2
             d4 == IF stored /\ bright THEN SetMaximumBrightness(d3) ELSE d3
             one == IF "requestBlock" \in asks THEN 1 ELSE 0
             was == Cable(display.charger, onWhenConnected)
             is == Cable(display.charger, onWhenConnected')
  <1>0. display.dnast \in Nat /\ one \in {0, 1} /\ was \in {0, 1} /\ is \in {0, 1}
    BY DEF Good, Ordered, Display, Cable
  <1>1. /\ display' \in {d4, [d4 EXCEPT !.proximity = TRUE]}
        /\ onWhenConnected' = IF stored THEN on ELSE onWhenConnected
    BY DEF SetProperty, Becomes, ProximityOn
  <1>2. Shifted(display, d1, display.dnast + one)
    BY <1>0, PushShifts DEF Shifted
  <1> HIDE DEF d1
  <1>3. Carried(d1, d2)
    BY <1>2, TimerCarried DEF SetTimeout, Carried, Shifted
  <1> HIDE DEF d2
  <1>4. Shifted(d2, d3, d2.dnast - was + is)
    <2>1. /\ Good(d2) /\ d2.dnast = display.dnast + one
          /\ d2.charger = display.charger
      BY <1>2, <1>3 DEF Carried, Shifted
    <2>2. CASE ~stored \/ on = onWhenConnected \/ "usb" \notin display.charger
      <3>1. d3 = d2 /\ is = was
        BY <1>1, <2>1, <2>2 DEF SetOnWhenConnected, IsUSBCharging, Cable
      <3>2. d2.dnast - was + is = d2.dnast
        BY <1>0, <2>1, <3>1
      <3> QED BY <2>1, <3>1, <3>2 DEF Shifted
    <2>3. CASE stored /\ on # onWhenConnected /\ "usb" \in display.charger /\ on
      <3>1. d3 = PushDNAST(d2, online) /\ was = 0 /\ is = 1
        BY <1>1, <2>1, <2>3 DEF SetOnWhenConnected, IsUSBCharging, Cable
      <3>2. d2.dnast - was + is = d2.dnast + 1
        BY <1>0, <2>1, <3>1
      <3> QED BY <2>1, <3>1, <3>2, PushShifts
    <2>4. CASE stored /\ on # onWhenConnected /\ "usb" \in display.charger /\ ~on
      <3>1. d3 = PopDNAST(d2) /\ was = 1 /\ is = 0
        BY <1>1, <2>1, <2>4 DEF SetOnWhenConnected, IsUSBCharging, Cable
      <3>2. d2.dnast > 0 /\ d2.dnast - was + is = d2.dnast - 1
        BY <1>0, <2>1, <3>1
      <3> QED BY <2>1, <3>1, <3>2, PopShifts
    <2> QED BY <2>2, <2>3, <2>4
  <1> HIDE DEF d3
  <1>5. Good(d3)
    BY <1>4 DEF Shifted
  <1>6. Carried(d3, d4)
    BY <1>5, MaximumBrightnessCarried DEF Carried, Shifted
  <1> HIDE DEF d4
  <1>7. /\ d4 \in Display
        /\ d4.dnast = display.dnast + one - was + is
        /\ d4.charger = display.charger
    BY <1>0, <1>2, <1>3, <1>4, <1>6 DEF Carried, Shifted, Good, Ordered
  <1>8. display'.dnast = d4.dnast /\ display'.charger = d4.charger
    BY <1>1, <1>7 DEF Display
  <1> QED BY <1>7, <1>8

LEMMA CancelShifts ==
  ASSUME Good(display), NEW c, NEW works \in BOOLEAN, CancelSubscription(c, works)
  PROVE  /\ display'.dnast = IF "requestBlock" \in held[c] /\ display.dnast > 0
                             THEN display.dnast - 1 ELSE display.dnast
         /\ display'.charger = display.charger
         /\ \/ display'.proximity = display.proximity
            \/ "proximityEnabled" \in held[c] /\ proximityCount' = 0
         /\ /\ works /\ display.state # "OffOnCall"
            /\ "proximityEnabled" \in held[c] /\ proximityCount' = 0
            => ~display'.proximity
  <1> DEFINE m == IF "requestBlock" \in held[c] THEN PopDNAST(display) ELSE display
  <1>1. Shifted(display, m, IF "requestBlock" \in held[c] /\ display.dnast > 0
                            THEN display.dnast - 1 ELSE display.dnast)
    BY PopShifts DEF Shifted
  <1>2. \/ display' = m
        \/ /\ display' = [m EXCEPT !.proximity = FALSE]
           /\ "proximityEnabled" \in held[c] /\ proximityCount' = 0
    BY DEF CancelSubscription, Becomes, ProximityReleased
  <1>3. m.state = display.state
    <2>1. display \in Display /\ [display EXCEPT !.dnast = @ - 1].state = display.state
      BY DEF Good, Ordered, Display
    <2> DEFINE e == [display EXCEPT !.dnast = @ - 1]
    <2>2. m \in {display, e, StartInactivityTimer(e)}
      BY DEF PopDNAST
    <2>3. StartInactivityTimer(e).state = e.state
      BY <2>1 DEF StartInactivityTimer, StopInactivityTimer, Display
    <2> QED BY <2>1, <2>2, <2>3
  <1>4. works /\ m.state # "OffOnCall" /\ "proximityEnabled" \in held[c]
        /\ proximityCount' = 0 => display' = [m EXCEPT !.proximity = FALSE]
    BY DEF CancelSubscription, Becomes, ProximityReleased
  <1> HIDE DEF m
  <1>5. m \in Display
    BY <1>1 DEF Shifted, Good, Ordered
  <1>6. /\ display'.dnast = m.dnast /\ display'.charger = m.charger
        /\ \/ display'.proximity = m.proximity
           \/ "proximityEnabled" \in held[c] /\ proximityCount' = 0
    BY <1>2, <1>5 DEF Display
  <1>7. works /\ display.state # "OffOnCall" /\ "proximityEnabled" \in held[c]
        /\ proximityCount' = 0 => ~display'.proximity
    BY <1>5, <1>3, <1>4 DEF Display
  <1> QED BY <1>1, <1>6, <1>7 DEF Shifted

-----------------------------------------------------------------------------
(* What any step does to the counts.                                       *)

Inert == Carried(display, display') /\ UNCHANGED <<onWhenConnected, counts>>

SomeSetProperty ==
  \E c \in Clients, asks \in SUBSET Block,
     timeout, on, bright, stored, works \in BOOLEAN :
    SetProperty(c, asks, timeout, on, bright, stored, works)

SomeCancel ==
  \E c \in Clients, works \in BOOLEAN : CancelSubscription(c, works)

SomeCharger == \E c \in Charger, connected \in BOOLEAN : ChargerCallback(c, connected)

SomeDock == \E dock, usb \in BOOLEAN : UsbDockCallback(dock, usb)

SomePowerd == \E connected \in BOOLEAN : PowerdServiceNotification(connected)

LEMMA PowerdInert ==
  ASSUME Good(display), SomePowerd, ~Emulator
  PROVE  Inert
  <1>1. PICK connected \in BOOLEAN : PowerdServiceNotification(connected)
    BY DEF SomePowerd
  <1>2. Carried(display, display) /\ Carried(display, On(display))
    BY RequestsCarried DEF Carried, Shifted
  <1> QED BY <1>1, <1>2 DEF PowerdServiceNotification, Becomes, Inert, counts

LEMMA StepKinds ==
  ASSUME Inv, Inv', [Next]_vars
  PROVE  \/ Inert
         \/ SomeCharger
         \/ SomeSetProperty
         \/ SomeCancel
         \/ SomeDock
         \/ SomePowerd
  <1>1. Good(display) /\ Good(display') /\ alertState \in {"Off", "Dim", "Undefined"}
    BY DEF Inv, Safe, TypeOK
  <1>2. CASE UNCHANGED vars
    BY <1>1, <1>2 DEF vars, settings, Inert, Carried, Shifted
  <1>3. CASE Simple
    <2>1. UNCHANGED <<onWhenConnected, counts>>
      BY <1>3 DEF Simple, Timeouts, ExpireTimer, PowerKeyDown, PowerKeyHeld,
         PowerKeyUp, Touch, UnlockRequest, SetState, SetLockStatus,
         BluetoothKeyboardActive, UpdateBrightness, Suspend, Resume, SetSuspended,
         settings
    <2> QED BY <1>1, <1>3, <2>1, SimpleCarried DEF Inert
  <1>4. CASE Alert \/ AlertTimeout
    <2>1. UNCHANGED <<onWhenConnected, counts>>
      BY <1>4 DEF Alert, AlertTimeout, settings
    <2> QED BY <1>1, <1>4, <2>1, AlertCarried DEF Inert
  <1>5. CASE \E headset, inCall \in BOOLEAN : AudiodCallback(headset, inCall)
    <2>1. UNCHANGED <<onWhenConnected, counts>>
      BY <1>5 DEF AudiodCallback, settings
    <2> QED BY <1>1, <1>5, <2>1, AudiodCarried DEF Inert
  <1>6. CASE \/ BacklightDone \/ MarkBootFinished \/ PasscodeChange
             \/ \E open \in BOOLEAN : SliderCallback(open)
    <2>1. UNCHANGED <<onWhenConnected, counts>>
      BY <1>6 DEF BacklightDone, MarkBootFinished, PasscodeChange, SliderCallback,
         settings
    <2> QED BY <1>1, <1>6, <2>1, FieldsCarried DEF Inert
  <1> QED
    BY <1>2, <1>3, <1>4, <1>5, <1>6 DEF Next, DisplayNext, Simple, SomeCharger,
       SomeSetProperty, SomeCancel, SomeDock, SomePowerd

-----------------------------------------------------------------------------
(* A client's message comes and goes: who holds a block, before and after. *)

LEMMA HolderAdded ==
  ASSUME NEW b \in Block, held \in [Clients -> SUBSET Block],
         NEW c \in Clients, NEW new \in SUBSET Block, held[c] = {},
         held' = [held EXCEPT ![c] = new]
  PROVE  /\ Cardinality(Holders(b)') = Cardinality(Holders(b))
                                       + (IF b \in new THEN 1 ELSE 0)
         /\ Holders(b) \subseteq Holders(b)'
         /\ b \notin new => Holders(b)' = Holders(b)
  <1>1. c \notin Holders(b) /\ IsFiniteSet(Holders(b))
    BY HoldersFinite DEF Holders
  <1>2. Holders(b)' = IF b \in new THEN Holders(b) \cup {c} ELSE Holders(b)
    BY DEF Holders
  <1>3. /\ Cardinality(Holders(b) \cup {c}) = Cardinality(Holders(b)) + 1
        /\ Cardinality(Holders(b)) \in Nat
    BY <1>1, FS_AddElement, FS_CardinalityType
  <1> QED BY <1>2, <1>3

LEMMA HolderRemoved ==
  ASSUME NEW b \in Block, held \in [Clients -> SUBSET Block],
         NEW c \in Clients, held' = [held EXCEPT ![c] = {}]
  PROVE  /\ Cardinality(Holders(b)') = IF b \in held[c]
                                       THEN Cardinality(Holders(b)) - 1
                                       ELSE Cardinality(Holders(b))
         /\ b \in held[c] => Cardinality(Holders(b)) > 0
         /\ Holders(b)' \subseteq Holders(b)
         /\ b \notin held[c] => Holders(b)' = Holders(b)
         /\ Cardinality(Holders(b)) \in Nat
  <1>1. /\ c \in Holders(b) <=> b \in held[c]
        /\ Holders(b)' = Holders(b) \ {c}
    BY DEF Holders
  <1>2. IsFiniteSet(Holders(b)) /\ Cardinality(Holders(b)) \in Nat
    BY HoldersFinite, FS_CardinalityType
  <1>3. CASE c \in Holders(b)
    <2>1. Cardinality(Holders(b) \ {c}) = Cardinality(Holders(b)) - 1
      BY <1>2, <1>3, FS_RemoveElement
    <2>2. Cardinality(Holders(b)) # 0
      BY <1>2, <1>3, FS_EmptySet
    <2> QED BY <1>1, <1>2, <1>3, <2>1, <2>2
  <1>4. CASE c \notin Holders(b)
    <2>1. Holders(b)' = Holders(b)
      BY <1>1, <1>4
    <2> QED BY <1>1, <1>2, <1>4, <2>1
  <1> QED BY <1>3, <1>4

LEMMA DnastStep ==
  ASSUME Inv, Inv', [Next]_vars, "usbDock" \notin Sources, ~Emulator,
         DnastMatchesHolders
  PROVE  DnastMatchesHolders'
  <1> DEFINE H == Holders("requestBlock")
             on == Cable(display.charger, onWhenConnected)
  <1>1. /\ Good(display) /\ Safe(display) /\ onWhenConnected \in BOOLEAN
        /\ held \in [Clients -> SUBSET Block] /\ "requestBlock" \in Block
        /\ display'.charger \in SUBSET Charger
    BY DEF Inv, Safe, TypeOK, Display, Block
  <1>2. Cardinality(H) \in Nat
    BY HoldersFinite, FS_CardinalityType
  <1>3. display.dnast = Cardinality(H) + on /\ on \in {0, 1} /\ on' \in {0, 1}
    BY DEF DnastMatchesHolders, IsUSBCharging, Cable
  <1>4. ASSUME display'.dnast = Cardinality(H)' + on'
        PROVE  DnastMatchesHolders'
    BY <1>4 DEF DnastMatchesHolders, IsUSBCharging, Cable
  <1>5. display.dnast >= on /\ (display.dnast > 0 <=> display.dnast # 0)
    BY <1>2, <1>3
  <1>6. CASE Inert
    BY <1>3, <1>4, <1>6 DEF Inert, Carried, Shifted, counts, Holders
  <1>7. CASE SomeCharger
    <2>1. PICK c \in Charger, connected \in BOOLEAN : ChargerCallback(c, connected)
      BY <1>7 DEF SomeCharger
    <2>2. UNCHANGED <<onWhenConnected, held>>
      BY <2>1 DEF ChargerCallback, settings, counts
    <2>3. display'.dnast = display.dnast - on + on'
      BY <1>1, <1>5, <2>1, <2>2, ChargerShifts
    <2>4. Cardinality(H)' = Cardinality(H)
      BY <2>2 DEF Holders
    <2> QED BY <1>2, <1>3, <1>4, <2>3, <2>4
  <1>8. CASE SomeSetProperty
    <2>1. PICK c \in Clients, asks \in SUBSET Block, timeout \in BOOLEAN,
               w \in BOOLEAN, bright \in BOOLEAN, stored \in BOOLEAN,
               works \in BOOLEAN :
            SetProperty(c, asks, timeout, w, bright, stored, works)
      BY <1>8 DEF SomeSetProperty
    <2> DEFINE kept == IF stored THEN asks ELSE asks \ {"proximityEnabled"}
               new == IF kept = {} THEN {} ELSE asks
    <2>2. held[c] = {} /\ held' = [held EXCEPT ![c] = new]
      BY <2>1 DEF SetProperty
    <2>3. new \in SUBSET Block /\ ("requestBlock" \in new <=> "requestBlock" \in asks)
      OBVIOUS
    <2>4. display'.dnast = display.dnast
                           + (IF "requestBlock" \in asks THEN 1 ELSE 0) - on + on'
      BY <1>1, <1>5, <2>1, PropertyShifts
    <2> HIDE DEF new
    <2>5. Cardinality(H)' = Cardinality(H) + (IF "requestBlock" \in asks THEN 1 ELSE 0)
      BY <1>1, <2>2, <2>3, HolderAdded
    <2> QED BY <1>2, <1>3, <1>4, <2>4, <2>5
  <1>9. CASE SomeCancel
    <2>1. PICK c \in Clients, works \in BOOLEAN : CancelSubscription(c, works)
      BY <1>9 DEF SomeCancel
    <2>2. held' = [held EXCEPT ![c] = {}] /\ onWhenConnected' = onWhenConnected
      BY <2>1 DEF CancelSubscription, settings
    <2>3. /\ display'.dnast = IF "requestBlock" \in held[c] /\ display.dnast > 0
                              THEN display.dnast - 1 ELSE display.dnast
          /\ display'.charger = display.charger
      BY <1>1, <2>1, CancelShifts
    <2>4. /\ Cardinality(H)' = IF "requestBlock" \in held[c]
                               THEN Cardinality(H) - 1 ELSE Cardinality(H)
          /\ "requestBlock" \in held[c] => Cardinality(H) > 0
      BY <1>1, <2>2, HolderRemoved
    <2>5. on' = on
      BY <2>2, <2>3
    <2>6. "requestBlock" \in held[c] => display.dnast > 0
      BY <1>2, <1>3, <2>4
    <2> QED BY <1>2, <1>3, <1>4, <2>3, <2>4, <2>5, <2>6
  <1>10. ~SomeDock
    BY DEF SomeDock, UsbDockCallback
  <1>11. CASE SomePowerd
    BY <1>1, <1>6, <1>11, PowerdInert
  <1> QED BY <1>6, <1>7, <1>8, <1>9, <1>10, <1>11, StepKinds

(* Nothing is counted when the display comes up. *)
LEMMA NothingCounted ==
  ASSUME Init
  PROVE  display.dnast = 0 /\ display.charger = {} /\ \A b \in Block : Holders(b) = {}
  <1>1. PICK passcode \in BOOLEAN, storedTimeout \in BOOLEAN :
          display = EnterOn(IF storedTimeout
                            THEN StartInactivityTimer(Boot(passcode))
                            ELSE Boot(passcode), "ApiOn")
    BY DEF Init
  <1> DEFINE b == Boot(passcode)
             t == StartInactivityTimer(b)
             d == IF storedTimeout THEN t ELSE b
  <1>2. /\ b \in Display /\ b.timers = {} /\ b.state = "On" /\ b.dnast = 0
        /\ b.charger = {} /\ b.onCall = FALSE /\ b.proximity = FALSE
    BY EmptySeq DEF Boot, Display, State, LockState, Charger, Event, NoRestore
  <1> HIDE DEF b
  <1>3. t \in Display /\ t.timers \subseteq {"OnUser"} /\ t.dnast = 0 /\ t.charger = {}
    BY <1>2 DEF StartInactivityTimer, InactivityTimer, IsDNAST, TimersOf,
                StopInactivityTimer, Display, Timer
  <1> HIDE DEF t
  <1>4. d \in Display /\ d.timers \subseteq {"OnUser"} /\ d.dnast = 0 /\ d.charger = {}
    BY <1>2, <1>3
  <1> HIDE DEF d
  <1>5. SameInputs(d, EnterOn(d, "ApiOn"))
    BY <1>4, EnterOnGood DEF Event
  <1>6. display = EnterOn(d, "ApiOn")
    BY <1>1 DEF d, t, b
  <1>7. \A b1 \in Block : Holders(b1) = {}
    BY DEF Init, Holders
  <1> QED BY <1>4, <1>5, <1>6, <1>7 DEF SameInputs

LEMMA DnastInit == ASSUME Init PROVE DnastMatchesHolders
  BY NothingCounted, FS_EmptySet DEF DnastMatchesHolders, IsUSBCharging, Block

(* Whoever keeps the display awake is still there: the DNAST count is the  *)
(* number of the subscribed messages that asked for it, and one for a      *)
(* cable that keeps the display on.                                        *)
THEOREM DnastMatchesHoldersAlways ==
  ASSUME "usbDock" \notin Sources, ~Emulator
  PROVE  Spec => []DnastMatchesHolders
  <1>1. Inv /\ Inv' /\ DnastMatchesHolders /\ [Next]_vars => DnastMatchesHolders'
    BY DnastStep
  <1>2. Init => DnastMatchesHolders
    BY DnastInit
  <1> QED BY <1>1, <1>2, Invariance, PTL DEF Spec

-----------------------------------------------------------------------------
(* The proximity sensor: the handlers that move the DNAST count as well    *)
(* leave it alone.                                                         *)

LEMMA ChargerEventShows ==
  ASSUME NEW d, Good(d), NEW c \in Charger, NEW connected \in BOOLEAN
  PROVE  /\ Good(ChargerEvent(d, c, connected))
         /\ ChargerEvent(d, c, connected).proximity = d.proximity
  <1> DEFINE m == IF ~onWhenConnected THEN d
                  ELSE IF connected THEN PushDNAST(d, online) ELSE PopDNAST(d)
  <1>1. Good(m) /\ m.proximity = d.proximity
    BY PushShifts, PopShifts DEF Shifted
  <1>2. \/ ChargerEvent(d, c, connected) \in {HandleEvent(m, "UsbIn"),
                                             HandleEvent(m, "UsbOut")}
        \/ ChargerEvent(d, c, connected) \in {HandleEvent(d, "OnPuck"),
                                             HandleEvent(d, "OffPuck")}
    BY DEF ChargerEvent, Charger
  <1> HIDE DEF m
  <1> QED BY <1>1, <1>2, EventCarried DEF Carried, Shifted, Event

LEMMA PropertyShows ==
  ASSUME Good(display), NEW c, NEW asks, NEW timeout \in BOOLEAN,
         NEW on \in BOOLEAN, NEW bright \in BOOLEAN, NEW works \in BOOLEAN,
         SetProperty(c, asks, timeout, on, bright, TRUE, works)
  PROVE  display'.proximity
         <=> \/ display.proximity
             \/ "proximityEnabled" \in asks /\ proximityCount = 0 /\ works
  <1> DEFINE d1 == IF "requestBlock" \in asks THEN PushDNAST(display, online)
                                              ELSE display
             d2 == IF timeout THEN SetTimeout(d1) ELSE d1
             d3 == SetOnWhenConnected(d2, on)
             d4 == IF bright THEN SetMaximumBrightness(d3) ELSE d3
  <1>1. display' = IF "proximityEnabled" \in asks /\ proximityCount = 0 /\ works
                   THEN [d4 EXCEPT !.proximity = TRUE] ELSE d4
    BY DEF SetProperty, Becomes, ProximityOn
  <1>2. Good(d1) /\ d1.proximity = display.proximity
    BY PushShifts DEF Shifted
  <1> HIDE DEF d1
  <1>3. Good(d2) /\ d2.proximity = display.proximity
    BY <1>2, TimerCarried DEF SetTimeout, Carried, Shifted
  <1> HIDE DEF d2
  <1>4. Good(d3) /\ d3.proximity = display.proximity
    <2>1. d3 \in {d2, PushDNAST(d2, online), PopDNAST(d2)}
      BY DEF SetOnWhenConnected
    <2> QED BY <1>3, <2>1, PushShifts, PopShifts DEF Shifted
  <1> HIDE DEF d3
  <1>5. Good(d4) /\ d4 \in Display /\ d4.proximity = display.proximity
    BY <1>4, MaximumBrightnessCarried DEF Carried, Shifted, Good, Ordered
  <1> HIDE DEF d4
  <1> QED BY <1>1, <1>5 DEF Display

LEMMA DockShows ==
  ASSUME Good(display), SomeDock
  PROVE  display'.proximity = display.proximity
  <1>1. PICK dock \in BOOLEAN, usb \in BOOLEAN : UsbDockCallback(dock, usb)
    BY DEF SomeDock
  <1> DEFINE old == display.charger
             docked == Attach(old, "inductive", dock)
             new == Attach(docked, "usb", usb)
             d == IF docked = old THEN display
                                  ELSE ChargerEvent(display, "inductive", dock)
             e == IF new = old \/ "inductive" \in old THEN d
                                  ELSE ChargerEvent(d, "usb", usb)
             f == [e EXCEPT !.charger = new]
  <1>2. display' = HandleEvent(f, "UpdateBrightness")
    BY <1>1 DEF UsbDockCallback, Becomes
  <1>3. new \in SUBSET Charger
    BY DEF Good, Ordered, Display, Charger, Attach
  <1> HIDE DEF new, docked
  <1>4. Good(d) /\ d.proximity = display.proximity
    BY ChargerEventShows DEF Charger
  <1> HIDE DEF d
  <1>5. Good(e) /\ e.proximity = display.proximity
    BY <1>4, ChargerEventShows DEF Charger
  <1> HIDE DEF e
  <1>6. f \in Display /\ SameScreen(e, f) /\ f.proximity = display.proximity
    BY <1>3, <1>5 DEF Good, Ordered, Display, SameScreen
  <1> HIDE DEF f
  <1>7. Good(f)
    BY <1>5, <1>6, ScreenGood
  <1> QED BY <1>2, <1>6, <1>7, EventCarried DEF Carried, Shifted, Event

LEMMA PowerdShows ==
  ASSUME Good(display), SomePowerd
  PROVE  display'.proximity = display.proximity
  <1>1. PICK connected \in BOOLEAN : PowerdServiceNotification(connected)
    BY DEF SomePowerd
  <1> DEFINE d == IF connected THEN On(display) ELSE display
  <1>2. Carried(display, d)
    BY RequestsCarried DEF Carried, Shifted
  <1>3. display' = IF Emulator THEN PushDNAST(d, connected) ELSE d
    BY <1>1 DEF PowerdServiceNotification, Becomes
  <1> HIDE DEF d
  <1> QED BY <1>2, <1>3, PushShifts DEF Carried, Shifted

LEMMA ChargerShows ==
  ASSUME Good(display), SomeCharger
  PROVE  display'.proximity = display.proximity
  <1>1. PICK c \in Charger, connected \in BOOLEAN : ChargerCallback(c, connected)
    BY DEF SomeCharger
  <1> DEFINE new == Attach(display.charger, c, connected)
             d == [display EXCEPT !.charger = new]
             e == IF new = display.charger THEN d ELSE ChargerEvent(d, c, connected)
  <1>2. display' = HandleEvent(e, "UpdateBrightness")
    BY <1>1 DEF ChargerCallback, Becomes
  <1>3. d \in Display /\ SameScreen(display, d) /\ d.proximity = display.proximity
    BY DEF Good, Ordered, Attach, Display, SameScreen, Charger
  <1> HIDE DEF d
  <1>4. Good(d)
    BY <1>3, ScreenGood
  <1>5. Good(e) /\ e.proximity = display.proximity
    BY <1>3, <1>4, ChargerEventShows
  <1> HIDE DEF e
  <1> QED BY <1>2, <1>5, EventCarried DEF Carried, Shifted, Event

(* The clients of the sensor are counted. *)
ProximityCounted == proximityCount = Cardinality(Holders("proximityEnabled"))

(* The steps of no client leave the sensor, its count and its clients. *)
LEMMA OthersShow ==
  ASSUME Inv, Inv', [Next]_vars, ~SomeSetProperty, ~SomeCancel
  PROVE  display'.proximity = display.proximity /\ UNCHANGED counts
  <1>1. Good(display)
    BY DEF Inv, Safe
  <1>2. CASE Inert
    BY <1>2 DEF Inert, Carried, Shifted
  <1>3. CASE SomeCharger
    BY <1>1, <1>3, ChargerShows DEF SomeCharger, ChargerCallback
  <1>4. CASE SomeDock
    BY <1>1, <1>4, DockShows DEF SomeDock, UsbDockCallback
  <1>5. CASE SomePowerd
    BY <1>1, <1>5, PowerdShows DEF SomePowerd, PowerdServiceNotification
  <1> QED BY <1>2, <1>3, <1>4, <1>5, StepKinds

(* The property of one step. *)
ProximityServesHoldersStep ==
  /\ ProximityWanted' /\ ~display'.proximity
     => (ProximityWanted /\ ~display.proximity) \/ ProximityRefuses
  /\ ~ProximityWanted' /\ display'.proximity
     => \/ ~ProximityWanted /\ display.proximity
        \/ display.state = "OffOnCall"
        \/ ProximityRefuses

LEMMA ProximityStep ==
  ASSUME Inv, Inv', [Next]_vars, "prefsFailure" \notin Sources, ProximityCounted
  PROVE  ProximityCounted' /\ ProximityServesHoldersStep
  <1> DEFINE H == Holders("proximityEnabled")
  <1>1. /\ Good(display) /\ Safe(display) /\ proximityCount \in Nat
        /\ held \in [Clients -> SUBSET Block] /\ "proximityEnabled" \in Block
    BY DEF Inv, Safe, TypeOK, Block
  <1>2. Cardinality(H) \in Nat /\ (H = {} <=> Cardinality(H) = 0)
    BY HoldersFinite, FS_CardinalityType, FS_EmptySet
  <1>3. proximityCount = Cardinality(H) /\ (ProximityWanted <=> H # {})
    BY DEF ProximityCounted, ProximityWanted
  <1>4. ProximityWanted' <=> H' # {}
    BY DEF ProximityWanted
  <1>5. CASE ~SomeSetProperty /\ ~SomeCancel
    <2>1. display'.proximity = display.proximity /\ UNCHANGED counts
      BY <1>5, OthersShow
    <2>2. H' = H /\ proximityCount' = proximityCount
      BY <2>1 DEF counts, Holders
    <2> QED BY <1>3, <1>4, <2>1, <2>2 DEF ProximityCounted, ProximityServesHoldersStep
  <1>6. CASE SomeSetProperty
    <2>1. PICK c \in Clients, asks \in SUBSET Block, timeout \in BOOLEAN,
               on \in BOOLEAN, bright \in BOOLEAN, stored \in BOOLEAN,
               works \in BOOLEAN :
            SetProperty(c, asks, timeout, on, bright, stored, works)
      BY <1>6 DEF SomeSetProperty
    <2> DEFINE asked == "proximityEnabled" \in asks
    <2>2. /\ held[c] = {}
          /\ held' = [held EXCEPT ![c] = asks]
          /\ proximityCount' = IF asked THEN proximityCount + 1 ELSE proximityCount
          /\ stored
      <3>1. stored
        BY <2>1 DEF SetProperty
      <3>2. (IF asks = {} THEN {} ELSE asks) = asks
        OBVIOUS
      <3> QED BY <2>1, <3>1, <3>2 DEF SetProperty
    <2>3. /\ Cardinality(H)' = Cardinality(H) + (IF asked THEN 1 ELSE 0)
          /\ H \subseteq H'
          /\ ~asked => H' = H
      BY <1>1, <2>2, HolderAdded
    <2>4. display'.proximity
          <=> display.proximity \/ (asked /\ proximityCount = 0 /\ works)
      <3>1. SetProperty(c, asks, timeout, on, bright, TRUE, works)
        <4>1. stored = TRUE
          BY <2>2
        <4> QED BY <2>1, <4>1
      <3> QED BY <1>1, <3>1, PropertyShows
    <2>5. proximityCount' = Cardinality(H)'
      BY <1>2, <1>3, <2>2, <2>3
    <2>6. works \/ ProximityRefuses
      BY <2>1 DEF ProximityRefuses
    <2>7. H' # {} /\ ~display'.proximity
          => (H # {} /\ ~display.proximity) \/ ProximityRefuses
      <3>1. CASE ~asked
        BY <2>3, <2>4, <3>1
      <3>2. CASE asked
        BY <1>2, <1>3, <2>4, <2>6, <3>2
      <3> QED BY <3>1, <3>2
    <2>8. H' = {} /\ display'.proximity => H = {} /\ display.proximity
      <3>1. CASE ~asked
        BY <2>3, <2>4, <3>1
      <3>2. CASE asked
        <4>1. c \in H'
          BY <1>1, <2>2, <3>2 DEF Holders
        <4> QED BY <4>1
      <3> QED BY <3>1, <3>2
    <2> QED BY <1>3, <1>4, <2>5, <2>7, <2>8
            DEF ProximityCounted, ProximityServesHoldersStep
  <1>7. CASE SomeCancel
    <2>1. PICK c \in Clients, works \in BOOLEAN : CancelSubscription(c, works)
      BY <1>7 DEF SomeCancel
    <2> DEFINE asked == "proximityEnabled" \in held[c]
    <2>2. /\ held' = [held EXCEPT ![c] = {}]
          /\ proximityCount' = IF asked THEN Decrement(proximityCount)
                                        ELSE proximityCount
      BY <2>1 DEF CancelSubscription
    <2>3. /\ Cardinality(H)' = IF asked THEN Cardinality(H) - 1 ELSE Cardinality(H)
          /\ asked => Cardinality(H) > 0
          /\ H' \subseteq H
          /\ ~asked => H' = H
      BY <1>1, <2>2, HolderRemoved
    <2>4. proximityCount' = Cardinality(H)'
      BY <1>2, <1>3, <2>2, <2>3 DEF Decrement
    <2>5. /\ display'.proximity = display.proximity \/ (asked /\ proximityCount' = 0)
          /\ works /\ display.state # "OffOnCall" /\ asked /\ proximityCount' = 0
             => ~display'.proximity
      BY <1>1, <2>1, CancelShifts
    <2>6. proximityCount' = 0 <=> H' = {}
      <3>1. IsFiniteSet(H')
        BY <2>3, HoldersFinite, FS_Subset
      <3> QED BY <2>4, <3>1, FS_EmptySet
    <2>7. works \/ ProximityRefuses
      BY <2>1 DEF ProximityRefuses
    <2>8. H' # {} /\ ~display'.proximity => H # {} /\ ~display.proximity
      BY <2>3, <2>5, <2>6
    <2>9. H' = {} /\ display'.proximity
          => \/ H = {} /\ display.proximity
             \/ display.state = "OffOnCall"
             \/ ProximityRefuses
      <3>1. CASE ~asked
        BY <2>3, <2>5, <3>1
      <3>2. CASE asked
        BY <2>5, <2>6, <2>7, <3>2
      <3> QED BY <3>1, <3>2
    <2> QED BY <1>3, <1>4, <2>4, <2>8, <2>9
            DEF ProximityCounted, ProximityServesHoldersStep
  <1> QED BY <1>5, <1>6, <1>7

(* The proximity sensor serves who asked for it.  It may be off for a      *)
(* client, or on for none, but it comes to that in the steps of one        *)
(* client only: by refusing to be turned on for the first or off after     *)
(* the last, or, left on, when the last leaves while the display is dark   *)
(* for a call.  No other order of requests, departures, calls and alerts   *)
(* parts the sensor and its clients: the count is who is there.            *)
THEOREM ProximityServesHoldersAlways ==
  ASSUME "prefsFailure" \notin Sources
  PROVE  Spec => ProximityServesHolders
  <1>1. Inv /\ Inv' /\ ProximityCounted /\ [Next]_vars
        => ProximityCounted' /\ ProximityServesHoldersStep
    BY ProximityStep
  <1>2. Init => ProximityCounted
    BY NothingCounted, FS_EmptySet DEF Init, ProximityCounted, Block
  <1> QED BY <1>1, <1>2, Invariance, PTL
          DEF Spec, ProximityServesHolders, ProximityServesHoldersStep

-----------------------------------------------------------------------------
(* The inactivity timer is started whenever it is wanted.                  *)

Tended(d) == ~Untimed(d)

LEMMA AlikeTended ==
  ASSUME NEW d, Tended(d), NEW e, e.state = d.state, e.timers = d.timers,
         e.dnast = d.dnast, IsOnCall(d) => IsOnCall(e)
  PROVE  Tended(e)
  BY DEF Tended, Untimed, IsDNAST

LEMMA SameScreenTended ==
  ASSUME NEW d, Tended(d), NEW e, SameScreen(d, e), e.dnast = d.dnast,
         IsOnCall(d) => IsOnCall(e)
  PROVE  Tended(e)
  BY AlikeTended DEF SameScreen

LEMMA TimerTends ==
  ASSUME NEW d \in Display
  PROVE  Tended(StartInactivityTimer(d))
  <1> DEFINE e == StartInactivityTimer(d)
  <1>1. e = [d EXCEPT !.timers = (d.timers \ TimersOf(d.state))
                                 \cup InactivityTimer(d)]
    BY DEF StartInactivityTimer
  <1>2. /\ e.timers = (d.timers \ TimersOf(d.state)) \cup InactivityTimer(d)
        /\ e.state = d.state /\ e.dnast = d.dnast
        /\ e.onCall = d.onCall /\ e.proximity = d.proximity
    BY <1>1 DEF Display
  <1> HIDE DEF e
  <1>3. e.timers = {} => InactivityTimer(d) = {}
    BY <1>2
  <1>4. Tended(e)
    <2>1. CASE d.state = "On"
      BY <1>2, <1>3, <2>1 DEF InactivityTimer, Tended, Untimed, IsDNAST
    <2>2. CASE d.state = "OnLocked"
      BY <1>2, <1>3, <2>2 DEF InactivityTimer, Tended, Untimed, IsDNAST
    <2>3. CASE d.state = "Dim"
      BY <1>2, <1>3, <2>3 DEF InactivityTimer, Tended, Untimed, IsDNAST
    <2>4. CASE d.state = "OnPuck"
      BY <1>2, <1>3, <2>4 DEF InactivityTimer, Tended, Untimed, IsDNAST, IsOnCall
    <2>5. CASE d.state \notin {"On", "OnLocked", "Dim", "OnPuck"}
      BY <1>2, <2>5 DEF Tended, Untimed
    <2> QED BY <2>1, <2>2, <2>3, <2>4, <2>5
  <1> QED BY <1>4 DEF e

(* Whatever state is entered, its timer is started. *)
LEMMA EnterOnLockedTends ==
  ASSUME NEW d \in Display, d.timers = {}
  PROVE  Tended(EnterOnLocked(d))
  <1> DEFINE a == SetLock([d EXCEPT !.state = "OnLocked"], "Locked")
  <1>1. Moved(d, a, "OnLocked", "Locked")
    BY BecomesCurrent DEF State, LockState
  <1>2. a \in Display
    BY <1>1 DEF Moved
  <1> HIDE DEF a
  <1>3. ScreenOn(a) \in Display
    BY <1>2, ScreenOnServes
  <1>4. Tended(StartInactivityTimer(ScreenOn(a)))
    BY <1>3, TimerTends
  <1> QED BY <1>4 DEF EnterOnLocked, a

LEMMA LockInsteadTends ==
  ASSUME NEW d \in Display, d.state \in {"On", "OnPuck"},
         d.timers \subseteq TimersOf(d.state)
  PROVE  Tended(LockInstead(d))
  <1> DEFINE a == SetLock(d, "Unlocked")
             b == IF d.state = "On" THEN StartInactivityTimer(a) ELSE a
             c == Leave(b)
  <1>1. a \in Display /\ a.state = d.state /\ a.timers = d.timers
    BY DEF SetLock, Display, LockState
  <1> HIDE DEF a
  <1>2. /\ StartInactivityTimer(a) \in Display
        /\ StartInactivityTimer(a) = [a EXCEPT !.timers = StartInactivityTimer(a).timers]
        /\ TimersBelong(StartInactivityTimer(a))
    BY <1>1, StartsOwnTimer
  <1>3. b \in Display /\ b.timers \subseteq TimersOf(b.state)
    BY <1>1, <1>2 DEF TimersBelong
  <1> HIDE DEF b
  <1>4. c \in Display /\ c = [b EXCEPT !.timers = {}, !.restore = c.restore]
    BY <1>3, LeaveStopsTimers
  <1> HIDE DEF c
  <1>5. c.timers = {}
    BY <1>3, <1>4 DEF Display
  <1>6. Tended(EnterOnLocked(c))
    BY <1>4, <1>5, EnterOnLockedTends
  <1> QED BY <1>6 DEF LockInstead, c, b, a

LEMMA QuickTimerTends ==
  ASSUME NEW d \in Display, d.timers = {}
  PROVE  Tended(StartInternalInactivityTimer(d))
  <1>1. CASE IsDNAST(d)
    BY <1>1 DEF StartInternalInactivityTimer, Tended, Untimed
  <1>2. CASE ~IsDNAST(d)
    <2>1. StartInternalInactivityTimer(d) = [d EXCEPT !.timers = @ \cup {"OnInternal"}]
      BY <1>2 DEF StartInternalInactivityTimer
    <2>2. StartInternalInactivityTimer(d).timers = d.timers \cup {"OnInternal"}
      BY <2>1 DEF Display
    <2> QED BY <2>2 DEF Tended, Untimed
  <1> QED BY <1>1, <1>2

LEMMA EnterOnTends ==
  ASSUME NEW d \in Display, d.timers = {}, NEW ev
  PROVE  Tended(EnterOn(d, ev))
  <1> DEFINE a == [d EXCEPT !.state = "On"]
             b == SetLock(a, "Unlocked")
             c == ScreenOn(b)
  <1>1. Moved(d, a, "On", d.lock) /\ Moved(d, b, "On", "Unlocked")
    BY CurrentOnly, BecomesCurrent DEF State, LockState
  <1>2. /\ a \in Display /\ a.state = "On" /\ a.timers = {}
        /\ b \in Display /\ b.timers = {}
    BY <1>1 DEF Moved
  <1>3. EnterOn(d, ev) \in {LockInstead(a), StartInternalInactivityTimer(c),
                            StartInactivityTimer(c)}
    BY DEF EnterOn
  <1> HIDE DEF a, b
  <1>4. c \in Display /\ c = [b EXCEPT !.displayOn = TRUE, !.led = c.led]
    BY <1>2, ScreenOnServes
  <1> HIDE DEF c
  <1>5. c.timers = {}
    BY <1>2, <1>4 DEF Display
  <1>6. /\ Tended(LockInstead(a)) /\ Tended(StartInternalInactivityTimer(c))
        /\ Tended(StartInactivityTimer(c))
    BY <1>2, <1>4, <1>5, LockInsteadTends, QuickTimerTends, TimerTends
  <1> QED BY <1>3, <1>6

LEMMA EnterOnPuckTends ==
  ASSUME NEW d \in Display, d.timers = {}, NEW ev
  PROVE  Tended(EnterOnPuck(d, ev))
  <1> DEFINE a == [d EXCEPT !.state = "OnPuck"]
             b == ScreenOn(a)
             c == SetLock(b, "Unlocked")
  <1>1. Moved(d, a, "OnPuck", d.lock)
    BY CurrentOnly DEF State
  <1>2. a \in Display /\ a.state = "OnPuck" /\ a.timers = {}
    BY <1>1 DEF Moved
  <1>3. EnterOnPuck(d, ev) \in {LockInstead(b), StartInactivityTimer(c)}
    BY DEF EnterOnPuck
  <1> HIDE DEF a
  <1>4. b \in Display /\ b = [a EXCEPT !.displayOn = TRUE, !.led = b.led]
    BY <1>2, ScreenOnServes
  <1> HIDE DEF b
  <1>5. b.timers = {} /\ b.state = "OnPuck"
    BY <1>2, <1>4 DEF Display
  <1>6. c \in Display
    BY <1>4 DEF SetLock, Display, LockState
  <1> HIDE DEF c
  <1> QED BY <1>3, <1>4, <1>5, <1>6, LockInsteadTends, TimerTends

LEMMA EnterTends ==
  ASSUME NEW d \in Display, d.timers = {}, NEW s \in State, NEW ev \in Event,
         MayEnter(d, s)
  PROVE  Tended(Enter(d, s, ev))
  <1> DEFINE a == [d EXCEPT !.state = s]
             e == Enter(d, s, ev)
  <1>1. CASE s = "On"
    BY <1>1, EnterOnTends DEF Enter
  <1>2. CASE s = "OnLocked"
    BY <1>2, EnterOnLockedTends DEF Enter
  <1>3. CASE s = "OnPuck"
    BY <1>3, EnterOnPuckTends DEF Enter
  <1>4. CASE s = "Dim"
    <2>1. Moved(d, a, s, d.lock)
      BY CurrentOnly
    <2>2. e = StartInactivityTimer(ScreenOn(a))
      BY <1>4 DEF Enter, EnterDim, ScreenDim, ScreenOn
    <2> HIDE DEF a, e
    <2>3. ScreenOn(a) \in Display
      BY <2>1, ScreenOnServes DEF Moved
    <2> QED BY <2>2, <2>3, TimerTends DEF e
  <1>5. CASE s \notin {"On", "OnLocked", "Dim", "OnPuck"}
    <2>1. e.state \in Outcome(s)
      BY EnterGood DEF Entered
    <2> HIDE DEF e
    <2>2. e.state \notin {"On", "OnLocked", "Dim", "OnPuck"}
      BY <1>5, <2>1 DEF Outcome
    <2> QED BY <2>2 DEF Tended, Untimed, e
  <1> QED BY <1>1, <1>2, <1>3, <1>4, <1>5

LEMMA ChangeTends ==
  ASSUME NEW d, Good(d), NEW s \in State, NEW ev \in Event, s # d.state,
         MayEnter(d, s)
  PROVE  Tended(ChangeDisplayState(d, s, ev))
  <1> DEFINE f == Leave(d)
  <1>1. ChangeDisplayState(d, s, ev) = Enter(f, s, ev)
    BY DEF ChangeDisplayState
  <1>2. d \in Display /\ d.timers \subseteq TimersOf(d.state)
    BY DEF Good, Ordered, TimersBelong
  <1>3. f \in Display /\ f = [d EXCEPT !.timers = {}, !.restore = f.restore]
    BY <1>2, LeaveStopsTimers
  <1> HIDE DEF f
  <1>4. /\ f.timers = {} /\ f.state = d.state /\ f.lock = d.lock
        /\ f.displayOn = d.displayOn /\ f.touch = d.touch /\ f.led = d.led
        /\ f.backlight = d.backlight
    BY <1>2, <1>3 DEF Display
  <1>5. PanelServed(d) => PanelServed(f)
    BY <1>4 DEF PanelServed
  <1>6. MayEnter(f, s)
    BY <1>4, <1>5 DEF MayEnter
  <1> QED BY <1>1, <1>3, <1>4, <1>6, EnterTends

(* What a handler does besides changing state leaves the display tended.   *)
LEMMA SideEffectTends ==
  ASSUME NEW d, Good(d), NEW ev \in Event, ev = "OnCall" => IsOnCall(d),
         Tended(d) \/ (ev = "OffCall" /\ d.state = "OnPuck")
  PROVE  Tended(SideEffect(d, ev))
  <1> DEFINE e == SideEffect(d, ev)
  <1>1. d \in Display /\ d.state \in State
    BY DEF Good, Ordered, Display
  <1>2. e.state = d.state
    BY SideEffectGood
  <1>3. Tended(StartInactivityTimer(d))
    BY <1>1, TimerTends
  <1>4. ASSUME NEW f \in Display, Tended(f)
        PROVE  Tended(ScreenOn(f))
    <2> DEFINE g == ScreenOn(f)
    <2>1. g = [f EXCEPT !.displayOn = TRUE, !.led = g.led]
      BY ScreenOnServes
    <2> HIDE DEF g
    <2>2. /\ g.state = f.state /\ g.timers = f.timers /\ g.dnast = f.dnast
          /\ g.onCall = f.onCall /\ g.proximity = f.proximity
      BY <1>4, <2>1 DEF Display
    <2>3. Tended(g)
      BY <1>4, <2>2, AlikeTended DEF IsOnCall
    <2> QED BY <2>3 DEF g
  <1> HIDE DEF e
  <1>5. CASE d.state = "On"
    <2> DEFINE f == IF ev \in {"AlsChange", "UpdateBrightness"} THEN d
                    ELSE StartInactivityTimer(d)
    <2>1. e \in {f, ScreenOn(f)}
      BY <1>5 DEF SideEffect, OnSideEffect, e
    <2>2. Good(StartInactivityTimer(d))
      BY TimerCarried DEF Carried, Shifted
    <2>3. f \in Display /\ Tended(f)
      BY <1>1, <1>3, <1>5, <2>2 DEF Good, Ordered
    <2> HIDE DEF f
    <2>4. Tended(e)
      BY <1>4, <2>1, <2>3
    <2> QED BY <2>4 DEF e
  <1>6. CASE d.state = "OnPuck"
    <2>1. Tended(e)
      <3>1. CASE ev = "OnCall"
        <4>1. e = StopInactivityTimer(d)
          BY <1>6, <3>1 DEF SideEffect, OnPuckSideEffect, e
        <4>2. SameInputs(d, e)
          BY SideEffectGood DEF e
        <4>3. e.state = "OnPuck" /\ IsOnCall(e)
          BY <1>2, <1>6, <3>1, <4>2 DEF SameInputs, IsOnCall
        <4> QED BY <4>3 DEF Tended, Untimed
      <3>2. CASE ev = "OffCall" /\ ~IsOnCall(d)
        BY <1>3, <1>6, <3>2 DEF SideEffect, OnPuckSideEffect, e
      <3>3. CASE ev = "OffCall" /\ IsOnCall(d)
        <4>1. e = d
          BY <1>6, <3>3 DEF SideEffect, OnPuckSideEffect, e
        <4> QED BY <3>3, <4>1 DEF Tended, Untimed
      <3>4. CASE ev \notin {"OnCall", "OffCall"}
        <4>1. e \in {d, ScreenOn(d)}
          BY <1>6, <3>4 DEF SideEffect, OnPuckSideEffect, e
        <4> QED BY <1>1, <1>4, <3>4, <4>1
      <3> QED BY <3>1, <3>2, <3>3, <3>4
    <2> QED BY <2>1 DEF e
  <1>7. CASE d.state \in {"OnLocked", "Dim"}
    <2>1. e \in {d, ScreenOn(d)}
      BY <1>7 DEF SideEffect, e
    <2>2. Tended(e)
      BY <1>1, <1>4, <1>7, <2>1
    <2> QED BY <2>2 DEF e
  <1>8. CASE d.state \notin {"On", "OnLocked", "Dim", "OnPuck"}
    <2>1. Tended(e)
      BY <1>2, <1>8 DEF Tended, Untimed
    <2> QED BY <2>1 DEF e
  <1> QED BY <1>5, <1>6, <1>7, <1>8

(* No event takes the timer away but that of a call, in OnPuck; its end    *)
(* brings it back.                                                         *)
LEMMA EventTends ==
  ASSUME NEW d, Good(d), NEW ev \in Event, ev = "OnCall" => IsOnCall(d),
         Tended(d) \/ (ev = "OffCall" /\ d.state = "OnPuck")
  PROVE  Tended(HandleEvent(d, ev))
  <1> DEFINE f == SideEffect(d, ev)
             s == Target(d, ev)
             cause == Cause(d, ev)
  <1>1. Good(f) /\ f.state = d.state /\ Tended(f)
    BY SideEffectGood, SideEffectTends
  <1>2. cause \in Event
    BY DEF Cause, Good, Ordered, Display
  <1>3. /\ s \in State
        /\ s # d.state =>
             /\ s = "OffOnCall" => d.state \in {"On", "OnLocked", "Dim", "OnPuck"}
             /\ s = "Dim" => d.state = "On"
             /\ s = "OffSuspended" => d.state = "Off"
    BY TargetFits
  <1> HIDE DEF f, s, cause
  <1>4. s # f.state => MayEnter(f, s)
    BY <1>1, <1>3, FittingMayEnter
  <1>5. CASE s = f.state
    <2>1. ChangeDisplayState(f, s, cause) = f
      BY <1>5 DEF ChangeDisplayState
    <2> QED BY <1>1, <2>1 DEF HandleEvent, f, s, cause
  <1>6. CASE s # f.state
    <2>1. Tended(ChangeDisplayState(f, s, cause))
      BY <1>1, <1>2, <1>3, <1>4, <1>6, ChangeTends
    <2> QED BY <2>1 DEF HandleEvent, f, s, cause
  <1> QED BY <1>5, <1>6

(* A timer that is not ignored always leads to another state.              *)
LEMMA TimeoutTends ==
  ASSUME NEW d, Good(d), NEW t \in d.timers, d.booted
  PROVE  Tended(InactivityTimeout(d, t))
  <1> DEFINE f == [d EXCEPT !.timers = @ \ {t}]
             s == TimeoutTarget(d, t)
  <1>1. d \in Display /\ TimersBelong(d) /\ d.state \in State
    BY DEF Good, Ordered, Display
  <1>2. f \in Display /\ f.timers = d.timers \ {t} /\ f = [d EXCEPT !.timers = f.timers]
    BY <1>1 DEF Display
  <1> HIDE DEF f
  <1>3. Ordered(f) /\ Same(d, f)
    BY <1>1, <1>2, OtherTimersOrdered DEF Good
  <1>4. Good(f) /\ f.state = d.state /\ f.dnast = d.dnast
        /\ (IsOnCall(f) <=> IsOnCall(d))
    BY <1>1, <1>2, <1>3 DEF Good, TimersBelong, Same, SameInputs, IsOnCall
  <1>5. t \in TimersOf(d.state)
    BY <1>1 DEF TimersBelong
  <1>6. CASE TimeoutIgnored(d, t)
    <2>1. InactivityTimeout(d, t) = f
      BY <1>6, Zenon DEF InactivityTimeout, f
    <2>2. t = "OnPuck" => d.state = "OnPuck"
      BY <1>1, <1>5 DEF TimersOf, State
    <2>3. Tended(f)
      BY <1>4, <1>6, <2>2 DEF TimeoutIgnored, Tended, Untimed, IsDNAST
    <2> QED BY <2>1, <2>3
  <1>7. CASE ~TimeoutIgnored(d, t)
    <2>1. InactivityTimeout(d, t) = ChangeDisplayState(f, s, "Timeout")
      BY <1>7, Zenon DEF InactivityTimeout, f, s
    <2>2. /\ s \in {"Dim", "OffOnCall", "Off", "DockMode"}
          /\ d.state \in {"On", "OnLocked", "Dim", "OnPuck"}
          /\ s = "Dim" => d.state = "On"
          /\ s # d.state
      BY <1>1, <1>5 DEF TimeoutTarget, SleepTarget, TimersOf, State
    <2> HIDE DEF s
    <2>3. s \in State /\ "Timeout" \in Event
      BY <2>2 DEF State, Event
    <2>4. MayEnter(f, s)
      BY <1>4, <2>2, <2>3, FittingMayEnter
    <2>5. Tended(ChangeDisplayState(f, s, "Timeout"))
      BY <1>4, <2>2, <2>3, <2>4, ChangeTends
    <2> QED BY <2>1, <2>5
  <1> QED BY <1>6, <1>7

LEMMA RequestsTend ==
  ASSUME NEW d, Good(d), Tended(d)
  PROVE  /\ Tended(On(d))
         /\ Tended(Off(d))
         /\ Tended(Dimmed(d))
         /\ Tended(Dock(d))
         /\ Tended(Undock(d))
         /\ Tended(Lock(d))
         /\ Tended(Unlock(d))
  <1>1. \A ev \in {"ApiOn", "ApiOff", "ApiDim", "ApiDock", "ApiUndock", "LockScreen",
                   "UnlockScreen"} : Tended(HandleEvent(d, ev))
    BY EventTends DEF Event
  <1> QED BY <1>1 DEF On, Off, Dimmed, Dock, Undock, Lock, Unlock

(* Whoever pushes a DNAST holds it; whoever pops the last one starts the   *)
(* timer, if powerd is there.                                              *)
LEMMA PushTends ==
  ASSUME NEW d, Good(d), NEW up
  PROVE  Tended(PushDNAST(d, up))
  <1>1. d.dnast \in Nat /\ PushDNAST(d, up).dnast = d.dnast + 1
    BY PushShifts DEF Shifted, Good, Ordered, Display
  <1> QED BY <1>1 DEF Tended, Untimed, IsDNAST

LEMMA PopTends ==
  ASSUME NEW d, Good(d), Tended(d), online \/ ~IsDNAST(d)
  PROVE  Tended(PopDNAST(d))
  <1> DEFINE e == [d EXCEPT !.dnast = @ - 1]
  <1>1. d.dnast \in Nat /\ d \in Display
    BY DEF Good, Ordered, Display
  <1>2. CASE d.dnast = 0
    BY <1>2 DEF PopDNAST
  <1>3. CASE d.dnast # 0
    <2>1. d.dnast - 1 \in Nat /\ d.dnast > 0 /\ ~(d.dnast <= 0) /\ online
      BY <1>1, <1>3 DEF IsDNAST
    <2>2. e \in Display /\ e.dnast = d.dnast - 1
      BY <1>1, <2>1 DEF Display
    <2>3. PopDNAST(d) = IF e.dnast <= 0 THEN StartInactivityTimer(e) ELSE e
      BY <2>1 DEF PopDNAST
    <2> HIDE DEF e
    <2>4. Tended(StartInactivityTimer(e))
      BY <2>2, TimerTends
    <2>5. ~(e.dnast <= 0) => Tended(e)
      BY <2>1, <2>2 DEF Tended, Untimed, IsDNAST
    <2> QED BY <2>3, <2>4, <2>5
  <1> QED BY <1>2, <1>3

LEMMA MaximumBrightnessTends ==
  ASSUME NEW d, Good(d), Tended(d)
  PROVE  Tended(SetMaximumBrightness(d))
  <1> DEFINE e == [d EXCEPT !.led = Request(@, TRUE)]
  <1>1. SetMaximumBrightness(d) \in {e, HandleEvent(d, "UpdateBrightness")}
    BY DEF SetMaximumBrightness
  <1>2. /\ e.state = d.state /\ e.timers = d.timers /\ e.dnast = d.dnast
        /\ e.onCall = d.onCall /\ e.proximity = d.proximity
    BY DEF Good, Ordered, Display
  <1> HIDE DEF e
  <1>3. Tended(e)
    BY <1>2, AlikeTended DEF IsOnCall
  <1> QED BY <1>1, <1>3, EventTends DEF Event

-----------------------------------------------------------------------------
(* What may leave it untended.                                             *)

(* The causes that UntimedByKnownCauses names do not apply.                *)
NoCause ==
  /\ Timeouts => display.booted
  /\ online \/ ~IsDNAST(display)
  /\ display.proximity => display'.proximity

LEMMA SimpleTends ==
  ASSUME Good(display), Tended(display), NoCause, Simple
  PROVE  Tended(display')
  <1>1. Good(On(display)) /\ Tended(On(display))
    BY RequestsCarried, RequestsTend DEF Carried, Shifted
  <1>2. Tended(Unlock(On(display)))
    BY <1>1, RequestsTend
  <1>3. \A ev \in {"PowerKeyPress", "UserActivity", "UpdateBrightness",
                   "PowerdSuspend", "PowerdResume"} :
          Tended(HandleEvent(display, ev))
    BY EventTends DEF Event
  <1>4. CASE Timeouts
    <2>1. PICK t \in Timer : ExpireTimer(t)
      BY <1>4 DEF Timeouts
    <2>2. /\ t \in display.timers /\ display.booted
          /\ display' = InactivityTimeout(display, t)
      BY <1>4, <2>1 DEF ExpireTimer, Becomes, NoCause
    <2> QED BY <2>2, TimeoutTends
  <1>5. CASE PowerKeyDown \/ PowerKeyHeld \/ PowerKeyUp \/ Touch \/ UpdateBrightness
             \/ Suspend \/ Resume
    BY <1>3, <1>5 DEF PowerKeyDown, PowerKeyHeld, PowerKeyUp, Touch,
       UpdateBrightness, Suspend, Resume, SetSuspended, Becomes
  <1>6. CASE UnlockRequest \/ SetLockStatus("lock")
    BY <1>2, <1>6, RequestsTend DEF UnlockRequest, SetState, SetLockStatus,
       BluetoothKeyboardActive, Becomes
  <1>7. CASE \E value \in {"on", "dimmed", "off", "dock", "undock"} : SetState(value)
    BY <1>1, <1>7, RequestsTend DEF SetState, Becomes
  <1> QED BY <1>4, <1>5, <1>6, <1>7 DEF Simple

LEMMA AlertTends ==
  ASSUME Good(display), Tended(display), alertState \in {"Off", "Dim", "Undefined"},
         Alert \/ AlertTimeout
  PROVE  Tended(display')
  <1> DEFINE d == BackFromAlert(display)
  <1>1. Good(d) /\ Tended(d)
    BY RequestsCarried, RequestsTend DEF BackFromAlert, Carried, Shifted
  <1> HIDE DEF d
  <1>2. /\ Tended(HandleEvent(d, "IncomingCallDone"))
        /\ Tended(HandleEvent(display, "IncomingCall"))
        /\ Tended(On(display))
    BY <1>1, EventTends, RequestsTend DEF Event
  <1>3. \/ display' = display \/ display' = On(display) \/ display' = d
        \/ display' = HandleEvent(display, "IncomingCall")
        \/ display' = HandleEvent(d, "IncomingCallDone")
    BY DEF Alert, AlertTimeout, GenericActivated, PhonecallActivated, Becomes,
           PhonecallDeactivated, GenericDeactivated, CancelAlert, d
  <1> QED BY <1>1, <1>2, <1>3

(* A call takes the timer of OnPuck away while it lasts.                   *)
LEMMA AudiodTends ==
  ASSUME Good(display), Tended(display), NEW headset \in BOOLEAN,
         NEW inCall \in BOOLEAN, AudiodCallback(headset, inCall)
  PROVE  Tended(display')
  <1> DEFINE d == IF headset THEN HandleEvent(display, "UserActivity") ELSE display
             e == [d EXCEPT !.onCall = inCall]
             f == HandleEvent(e, "OffCall")
  <1>1. display' = IF inCall = d.onCall THEN d
                   ELSE IF inCall THEN HandleEvent(e, "OnCall")
                   ELSE HandleEvent(f, "AlsChange")
    BY DEF AudiodCallback, Becomes
  <1>2. Good(d) /\ Tended(d)
    BY EventCarried, EventTends DEF Carried, Shifted, Event
  <1> HIDE DEF d
  <1>3. /\ Good(e) /\ SameScreen(d, e) /\ e.onCall = inCall
        /\ e.proximity = d.proximity
    BY <1>2, NoteOnCall
  <1>4. e.dnast = d.dnast
    BY <1>2 DEF Good, Ordered, Display
  <1> HIDE DEF e
  <1>5. CASE inCall
    <2>1. Tended(e) /\ IsOnCall(e)
      BY <1>2, <1>3, <1>4, <1>5, SameScreenTended DEF IsOnCall
    <2>2. Tended(HandleEvent(e, "OnCall"))
      BY <1>3, <2>1, EventTends DEF Event
    <2> QED BY <1>1, <1>2, <1>5, <2>2
  <1>6. CASE ~inCall
    <2>1. Tended(e) \/ e.state = "OnPuck"
      BY <1>2, <1>3, <1>4 DEF Tended, Untimed, IsDNAST, SameScreen
    <2>2. Good(f) /\ Tended(f)
      BY <1>3, <2>1, EventCarried, EventTends DEF Carried, Shifted, Event
    <2> HIDE DEF f
    <2>3. Tended(HandleEvent(f, "AlsChange"))
      BY <2>2, EventTends DEF Event
    <2> QED BY <1>1, <1>2, <1>6, <2>3
  <1> QED BY <1>5, <1>6

LEMMA FieldsTend ==
  ASSUME Good(display), Tended(display),
         \/ BacklightDone \/ MarkBootFinished \/ PasscodeChange
         \/ \E open \in BOOLEAN : SliderCallback(open)
  PROVE  Tended(display')
  <1>0. display \in Display
    BY DEF Good, Ordered
  <1>1. ASSUME NEW d, d \in Display, Tended(d), display'.state = d.state,
               display'.timers = d.timers, display'.dnast = d.dnast,
               display'.onCall = d.onCall, display'.proximity = d.proximity
        PROVE  Tended(display')
    BY <1>1, AlikeTended DEF IsOnCall
  <1>2. CASE BacklightDone
    <2>1. PICK rest \in {display.led, Tail(display.led)} :
            display' = IF Head(display.led)
                       THEN BacklightOnCallback([display EXCEPT !.led = rest])
                       ELSE BacklightOffCallback([display EXCEPT !.led = rest])
      BY <1>2 DEF BacklightDone, Becomes
    <2>2. /\ display'.state = display.state /\ display'.timers = display.timers
          /\ display'.dnast = display.dnast /\ display'.onCall = display.onCall
          /\ display'.proximity = display.proximity
      BY <1>0, <2>1 DEF BacklightOnCallback, BacklightOffCallback, Display
    <2> QED BY <1>0, <1>1, <2>2
  <1>3. CASE MarkBootFinished
    <2> DEFINE d == IF display.booted THEN On(display) ELSE display
    <2>1. d \in Display /\ Tended(d)
      BY <1>0, RequestsCarried, RequestsTend DEF Carried, Shifted, Good, Ordered
    <2>2. display' = [d EXCEPT !.booted = TRUE]
      BY <1>3 DEF MarkBootFinished, Becomes
    <2> HIDE DEF d
    <2>3. /\ display'.state = d.state /\ display'.timers = d.timers
          /\ display'.dnast = d.dnast /\ display'.onCall = d.onCall
          /\ display'.proximity = d.proximity
      BY <2>1, <2>2 DEF Display
    <2> QED BY <1>1, <2>1, <2>3
  <1>4. CASE PasscodeChange
    <2>1. /\ display'.state = display.state /\ display'.timers = display.timers
          /\ display'.dnast = display.dnast /\ display'.onCall = display.onCall
          /\ display'.proximity = display.proximity
      BY <1>0, <1>4 DEF PasscodeChange, Becomes, Display
    <2> QED BY <1>0, <1>1, <2>1
  <1>5. CASE \E open \in BOOLEAN : SliderCallback(open)
    <2>1. /\ display'.state = display.state /\ display'.timers = display.timers
          /\ display'.dnast = display.dnast /\ display'.onCall = display.onCall
          /\ display'.proximity = display.proximity
      BY <1>0, <1>5 DEF SliderCallback, Becomes, Display
    <2> QED BY <1>0, <1>1, <2>1
  <1> QED BY <1>2, <1>3, <1>4, <1>5

LEMMA ChargerEventTends ==
  ASSUME NEW d, Good(d), Tended(d), NEW c \in Charger, NEW connected \in BOOLEAN,
         online \/ ~IsDNAST(d)
  PROVE  /\ Good(ChargerEvent(d, c, connected))
         /\ Tended(ChargerEvent(d, c, connected))
         /\ c = "inductive" => ChargerEvent(d, c, connected).dnast = d.dnast
  <1> DEFINE m == IF ~onWhenConnected THEN d
                  ELSE IF connected THEN PushDNAST(d, online) ELSE PopDNAST(d)
  <1>1. Good(m) /\ Tended(m)
    BY PushShifts, PopShifts, PushTends, PopTends DEF Shifted
  <1>2. /\ c = "usb" => ChargerEvent(d, c, connected)
                        \in {HandleEvent(m, "UsbIn"), HandleEvent(m, "UsbOut")}
        /\ c = "inductive" => ChargerEvent(d, c, connected)
                        \in {HandleEvent(d, "OnPuck"), HandleEvent(d, "OffPuck")}
        /\ c = "usb" \/ c = "inductive"
    BY DEF ChargerEvent, Charger
  <1> HIDE DEF m
  <1>3. /\ \A ev \in {"UsbIn", "UsbOut"} :
             Good(HandleEvent(m, ev)) /\ Tended(HandleEvent(m, ev))
        /\ \A ev \in {"OnPuck", "OffPuck"} :
             /\ Good(HandleEvent(d, ev)) /\ Tended(HandleEvent(d, ev))
             /\ HandleEvent(d, ev).dnast = d.dnast
    BY <1>1, EventCarried, EventTends DEF Carried, Shifted, Event
  <1> QED BY <1>2, <1>3

(* The chargers are not what a timer asks for. *)
LEMMA NoteChargerTends ==
  ASSUME NEW d, Good(d), Tended(d), NEW v \in SUBSET Charger
  PROVE  LET e == [d EXCEPT !.charger = v]
         IN  Good(e) /\ Tended(e) /\ e.dnast = d.dnast
  <1> DEFINE e == [d EXCEPT !.charger = v]
  <1>1. /\ e \in Display /\ SameScreen(d, e) /\ e.dnast = d.dnast
        /\ e.onCall = d.onCall /\ e.proximity = d.proximity
    BY DEF Good, Ordered, Display, SameScreen
  <1> HIDE DEF e
  <1>2. Good(e) /\ Tended(e)
    BY <1>1, ScreenGood, SameScreenTended DEF IsOnCall
  <1> QED BY <1>1, <1>2 DEF e

LEMMA ChargersTend ==
  ASSUME Good(display), Tended(display), NoCause, SomeCharger \/ SomeDock
  PROVE  Tended(display')
  <1>0. display.charger \in SUBSET Charger
    BY DEF Good, Ordered, Display
  <1>1. CASE SomeCharger
    <2>1. PICK c \in Charger, connected \in BOOLEAN : ChargerCallback(c, connected)
      BY <1>1 DEF SomeCharger
    <2> DEFINE new == Attach(display.charger, c, connected)
               d == [display EXCEPT !.charger = new]
               e == IF new = display.charger THEN d ELSE ChargerEvent(d, c, connected)
    <2>2. display' = HandleEvent(e, "UpdateBrightness")
      BY <2>1 DEF ChargerCallback, Becomes
    <2>3. new \in SUBSET Charger
      BY <1>0 DEF Attach
    <2> HIDE DEF new
    <2>4. Good(d) /\ Tended(d) /\ d.dnast = display.dnast
      BY <2>3, NoteChargerTends
    <2> HIDE DEF d
    <2>5. Good(e) /\ Tended(e)
      BY <2>4, ChargerEventTends DEF NoCause, IsDNAST
    <2> HIDE DEF e
    <2> QED BY <2>2, <2>5, EventTends DEF Event
  <1>2. CASE SomeDock
    <2>1. PICK dock \in BOOLEAN, usb \in BOOLEAN : UsbDockCallback(dock, usb)
      BY <1>2 DEF SomeDock
    <2> DEFINE old == display.charger
               docked == Attach(old, "inductive", dock)
               new == Attach(docked, "usb", usb)
               d == IF docked = old THEN display
                                    ELSE ChargerEvent(display, "inductive", dock)
               e == IF new = old \/ "inductive" \in old THEN d
                                    ELSE ChargerEvent(d, "usb", usb)
               f == [e EXCEPT !.charger = new]
    <2>2. display' = HandleEvent(f, "UpdateBrightness")
      BY <2>1 DEF UsbDockCallback, Becomes
    <2>3. new \in SUBSET Charger
      BY <1>0 DEF Charger, Attach
    <2> HIDE DEF new, docked
    <2>4. Good(d) /\ Tended(d) /\ d.dnast = display.dnast
      BY ChargerEventTends DEF NoCause, Charger
    <2> HIDE DEF d
    <2>5. Good(e) /\ Tended(e)
      BY <2>4, ChargerEventTends DEF NoCause, Charger, IsDNAST
    <2> HIDE DEF e
    <2>6. Good(f) /\ Tended(f)
      BY <2>3, <2>5, NoteChargerTends
    <2> HIDE DEF f
    <2> QED BY <2>2, <2>6, EventTends DEF Event
  <1> QED BY <1>1, <1>2

LEMMA PowerdTends ==
  ASSUME Good(display), Tended(display), SomePowerd
  PROVE  Tended(display')
  <1>1. PICK connected \in BOOLEAN : PowerdServiceNotification(connected)
    BY DEF SomePowerd
  <1> DEFINE d == IF connected THEN On(display) ELSE display
  <1>2. Good(d) /\ Tended(d)
    BY RequestsCarried, RequestsTend DEF Carried, Shifted
  <1>3. display' = IF Emulator THEN PushDNAST(d, connected) ELSE d
    BY <1>1 DEF PowerdServiceNotification, Becomes
  <1> HIDE DEF d
  <1> QED BY <1>2, <1>3, PushTends

(* A message that blocks the timeout, sets it and no longer wants the      *)
(* display on for the cable pushes a DNAST and pops one.  It pops its own, *)
(* and with powerd away starts no timer again, unless the cable's is there *)
(* to be popped.                                                           *)
LEMMA PropertyTends ==
  ASSUME Good(display), Tended(display), NoCause, SomeSetProperty,
         onWhenConnected \in BOOLEAN,
         \/ "timeout" \notin Sources
         \/ display.dnast >= Cable(display.charger, onWhenConnected)
  PROVE  Tended(display')
  <1>1. PICK c \in Clients, asks \in SUBSET Block, timeout \in BOOLEAN,
             on \in BOOLEAN, bright \in BOOLEAN, stored \in BOOLEAN,
             works \in BOOLEAN :
          SetProperty(c, asks, timeout, on, bright, stored, works)
    BY DEF SomeSetProperty
  <1> DEFINE asked == "requestBlock" \in asks
             d1 == IF asked THEN PushDNAST(display, online) ELSE display
             d2 == IF timeout THEN SetTimeout(d1) ELSE d1
             d3 == IF stored THEN SetOnWhenConnected(d2, on) ELSE d2
             d4 == IF stored /\ bright THEN SetMaximumBrightness(d3) ELSE d3
             shown == [d4 EXCEPT !.proximity = TRUE]
  <1>2. display' \in {d4, shown} /\ (timeout => "timeout" \in Sources)
    BY <1>1 DEF SetProperty, Becomes, ProximityOn
  <1>3. /\ Good(d1) /\ Tended(d1) /\ d1.charger = display.charger
        /\ d1.dnast = IF asked THEN display.dnast + 1 ELSE display.dnast
        /\ display.dnast \in Nat
    BY PushShifts, PushTends DEF Shifted, Good, Ordered, Display
  <1>4. asked /\ ~online => d1 = [display EXCEPT !.dnast = @ + 1]
    BY DEF PushDNAST
  <1> HIDE DEF d1
  <1>5. Good(d2) /\ Tended(d2) /\ d2.dnast = d1.dnast /\ d2.charger = d1.charger
    <2>1. d1 \in Display
      BY <1>3 DEF Good, Ordered
    <2> QED BY <1>3, <2>1, TimerCarried, TimerTends DEF SetTimeout, Carried, Shifted
  <1>6. ~timeout => d2 = d1
    OBVIOUS
  <1> HIDE DEF d2
  <1>7. Good(d3) /\ Tended(d3)
    <2>1. d3 \in {d2, PushDNAST(d2, online), PopDNAST(d2)}
      BY DEF SetOnWhenConnected
    <2>2. Good(d3)
      BY <1>5, <2>1, PushShifts, PopShifts DEF Shifted
    <2>3. CASE d3 \in {d2, PushDNAST(d2, online)}
      BY <1>5, <2>2, <2>3, PushTends
    <2>4. CASE d3 = PopDNAST(d2) /\ (online \/ ~asked)
      <3>1. online \/ ~IsDNAST(d2)
        BY <1>3, <1>5, <2>4 DEF NoCause, IsDNAST
      <3> QED BY <1>5, <2>2, <2>4, <3>1, PopTends
    <2>5. CASE d3 = PopDNAST(d2) /\ ~online /\ asked /\ ~timeout
      <3>1. d2 = [display EXCEPT !.dnast = @ + 1] /\ d2.dnast = display.dnast + 1
        BY <1>3, <1>4, <1>5, <1>6, <2>5
      <3>2. d3 = [d2 EXCEPT !.dnast = @ - 1]
        BY <1>3, <2>5, <3>1 DEF PopDNAST
      <3> HIDE DEF d3
      <3>3. display \in Display /\ display.dnast \in Nat
        BY <1>3 DEF Good, Ordered
      <3>4. /\ d2.state = display.state /\ d2.timers = display.timers
            /\ d2.onCall = display.onCall /\ d2.proximity = display.proximity
            /\ d2 \in Display
        BY <1>5, <3>1, <3>3 DEF Display, Good, Ordered
      <3>5. /\ d3.state = d2.state /\ d3.timers = d2.timers
            /\ d3.onCall = d2.onCall /\ d3.proximity = d2.proximity
            /\ d3.dnast = d2.dnast - 1
        BY <3>2, <3>4 DEF Display
      <3>6. d3.dnast = display.dnast
        BY <3>1, <3>3, <3>5
      <3>7. Tended(d3)
        BY <3>4, <3>5, <3>6, AlikeTended DEF IsOnCall
      <3> QED BY <2>2, <3>7 DEF d3
    <2>6. CASE ~online /\ timeout /\ d3 # d2 /\ d3 # PushDNAST(d2, online)
      <3>1. "usb" \in display.charger /\ on # onWhenConnected /\ ~on
        BY <1>3, <1>5, <2>6 DEF SetOnWhenConnected, IsUSBCharging
      <3>2. Cable(display.charger, onWhenConnected) = 1
        BY <3>1 DEF Cable
      <3>3. display.dnast >= 1 /\ IsDNAST(display)
        BY <1>2, <1>3, <2>6, <3>2 DEF IsDNAST
      <3> QED BY <2>6, <3>3 DEF NoCause
    <2> HIDE DEF d3
    <2> QED BY <2>1, <2>2, <2>3, <2>4, <2>5, <2>6
  <1> HIDE DEF d3
  <1>8. Good(d4) /\ Tended(d4)
    BY <1>7, MaximumBrightnessCarried, MaximumBrightnessTends DEF Carried, Shifted
  <1> HIDE DEF d4
  <1>9. /\ SameScreen(d4, shown) /\ shown.dnast = d4.dnast /\ shown.proximity
    BY <1>8 DEF Good, Ordered, Display, SameScreen
  <1> HIDE DEF shown
  <1>10. Tended(shown)
    BY <1>8, <1>9, SameScreenTended DEF IsOnCall
  <1> QED BY <1>2, <1>8, <1>10

LEMMA CancelTends ==
  ASSUME Good(display), Tended(display), NoCause,
         NEW c \in Clients, NEW works \in BOOLEAN, CancelSubscription(c, works)
  PROVE  Tended(display')
  <1> DEFINE m == IF "requestBlock" \in held[c] THEN PopDNAST(display) ELSE display
  <1>1. display' \in {m, [m EXCEPT !.proximity = FALSE]}
    BY DEF CancelSubscription, Becomes, ProximityReleased
  <1>2. Good(m) /\ Tended(m) /\ m.proximity = display.proximity
    BY PopShifts, PopTends DEF Shifted, NoCause
  <1> HIDE DEF m
  <1>3. m \in Display
    BY <1>2 DEF Good, Ordered
  <1>4. CASE display' = m
    BY <1>2, <1>4
  <1>5. CASE display' = [m EXCEPT !.proximity = FALSE]
    <2>1. /\ display'.state = m.state /\ display'.timers = m.timers
          /\ display'.dnast = m.dnast /\ display'.onCall = m.onCall
          /\ display'.proximity = FALSE
      BY <1>3, <1>5 DEF Display
    <2>2. ~m.proximity
      BY <1>2, <2>1 DEF NoCause
    <2> QED BY <1>2, <2>1, <2>2, AlikeTended DEF IsOnCall
  <1> QED BY <1>1, <1>4, <1>5

LEMMA TendedStep ==
  ASSUME Inv, [Next]_vars, Tended(display), NoCause,
         \/ "timeout" \notin Sources
         \/ display.dnast >= Cable(display.charger, onWhenConnected)
  PROVE  Tended(display')
  <1>1. /\ Good(display) /\ alertState \in {"Off", "Dim", "Undefined"}
        /\ onWhenConnected \in BOOLEAN
    BY DEF Inv, Safe, TypeOK
  <1>2. CASE UNCHANGED vars
    BY <1>2 DEF vars, Tended, Untimed, IsDNAST, IsOnCall
  <1>3. CASE Simple
    BY <1>1, <1>3, SimpleTends
  <1>4. CASE Alert \/ AlertTimeout
    BY <1>1, <1>4, AlertTends
  <1>5. CASE \E headset, inCall \in BOOLEAN : AudiodCallback(headset, inCall)
    BY <1>1, <1>5, AudiodTends
  <1>6. CASE \/ BacklightDone \/ MarkBootFinished \/ PasscodeChange
             \/ \E open \in BOOLEAN : SliderCallback(open)
    BY <1>1, <1>6, FieldsTend
  <1>7. CASE SomeCharger \/ SomeDock
    BY <1>1, <1>7, ChargersTend
  <1>8. CASE SomePowerd
    BY <1>1, <1>8, PowerdTends
  <1>9. CASE SomeSetProperty
    BY <1>1, <1>9, PropertyTends
  <1>10. CASE SomeCancel
    BY <1>1, <1>10, CancelTends DEF SomeCancel
  <1> QED
    BY <1>2, <1>3, <1>4, <1>5, <1>6, <1>7, <1>8, <1>9, <1>10
       DEF Next, DisplayNext, Simple, SomeCharger, SomeSetProperty, SomeCancel,
           SomeDock, SomePowerd

(* The property of one step. *)
UntimedByKnownCausesStep ==
  ~Untimed(display) /\ Untimed(display')
  => \/ ~display.booted /\ Timeouts
     \/ ~online /\ IsDNAST(display)
     \/ display.proximity /\ ~display'.proximity

LEMMA UntimedStep ==
  ASSUME Inv, [Next]_vars,
         \/ "timeout" \notin Sources
         \/ display.dnast >= Cable(display.charger, onWhenConnected)
  PROVE  UntimedByKnownCausesStep
  BY TendedStep DEF UntimedByKnownCausesStep, Tended, NoCause

(* A lit display that nothing holds is timed.  Handlers stop the timer in  *)
(* several places and rely on whatever follows to start one: there are     *)
(* three ways only in which none does, and no order of events, no refused  *)
(* unlock and no end of a call is among them.  (Where the timeout can be   *)
(* set, the cable has to be counted: see PropertyTends.)                   *)
THEOREM UntimedByKnownCausesAlways ==
  ASSUME "timeout" \notin Sources \/ ("usbDock" \notin Sources /\ ~Emulator)
  PROVE  Spec => UntimedByKnownCauses
  <1>1. CASE "timeout" \notin Sources
    <2>1. Inv /\ [Next]_vars => UntimedByKnownCausesStep
      BY <1>1, UntimedStep
    <2> QED BY <2>1, Invariance, PTL
            DEF Spec, UntimedByKnownCauses, UntimedByKnownCausesStep
  <1>2. CASE "usbDock" \notin Sources /\ ~Emulator
    <2>1. Inv /\ DnastMatchesHolders
          => display.dnast >= Cable(display.charger, onWhenConnected)
      <3>1. Cardinality(Holders("requestBlock")) \in Nat
        BY HoldersFinite, FS_CardinalityType
      <3> QED BY <3>1 DEF DnastMatchesHolders, IsUSBCharging, Cable
    <2>2. Inv /\ DnastMatchesHolders /\ [Next]_vars => UntimedByKnownCausesStep
      BY <2>1, UntimedStep
    <2>3. Spec => []DnastMatchesHolders
      BY <1>2, DnastMatchesHoldersAlways
    <2> QED BY <2>2, <2>3, Invariance, PTL
            DEF Spec, UntimedByKnownCauses, UntimedByKnownCausesStep
  <1> QED BY <1>1, <1>2

=============================================================================
