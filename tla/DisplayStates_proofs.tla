------------------------ MODULE DisplayStates_proofs ------------------------
(***************************************************************************)
(* What a handler of the display does to any display record, whatever the  *)
(* device: it keeps the record in order (Good), it changes nothing that    *)
(* belongs to the display manager (SameInputs), and it opens no lock that  *)
(* nobody asked it to open (StaysLocked).  The lemmas go up the calls:     *)
(* timers and panel, enter(), changeDisplayState(), handleEvent() and the  *)
(* inactivity timers.                                                      *)
(***************************************************************************)
EXTENDS DisplayStates, SequenceTheorems, TLAPS

(* In order but for the timers; in order. *)
Ordered(d) ==
  /\ d \in Display
  /\ LockMatches(d)
  /\ PanelFollows(d)
  /\ RestoreNoted(d)

Good(d) == Ordered(d) /\ TimersBelong(d)

(* The members that no state changes. *)
SameInputs(d, e) ==
  /\ e.charger = d.charger
  /\ e.onCall = d.onCall
  /\ e.proximity = d.proximity
  /\ e.slider = d.slider
  /\ e.dnast = d.dnast
  /\ e.booted = d.booted
  /\ e.passcode = d.passcode

StaysLocked(d, e) ==
  d.passcode /\ ~IsOnCall(d) /\ d.lock # "Unlocked" => e.lock # "Unlocked"

-----------------------------------------------------------------------------
(* Timers and panel.                                                       *)

(* A request to the LED driver leaves it with a queue that ends in it. *)
LEMMA RequestLast ==
  ASSUME NEW q \in Seq(BOOLEAN), NEW on \in BOOLEAN
  PROVE  /\ Request(q, on) \in Seq(BOOLEAN)
         /\ Request(q, on) # <<>>
         /\ Request(q, on)[Len(Request(q, on))] = on
  <1>1. CASE q # <<>> /\ q[Len(q)] = on
    BY <1>1, Zenon DEF Request
  <1>2. CASE ~(q # <<>> /\ q[Len(q)] = on)
    <2>1. Request(q, on) = Append(q, on)
      BY <1>2, Zenon DEF Request
    <2>2. /\ Append(q, on) \in Seq(BOOLEAN)
          /\ Append(q, on) # <<>>
          /\ Append(q, on)[Len(Append(q, on))] = on
      BY AppendProperties
    <2> QED BY <2>1, <2>2, Zenon
  <1> QED BY <1>1, <1>2, Zenon

(* What turning the panel on or off comes to, besides the members that it  *)
(* has nothing to do with.                                                 *)
LEMMA ScreenOnServes ==
  ASSUME NEW d \in Display
  PROVE  /\ ScreenOn(d) \in Display
         /\ ScreenOn(d) = [d EXCEPT !.displayOn = TRUE, !.led = ScreenOn(d).led]
         /\ PanelServed(ScreenOn(d))
  <1>1. d.led \in Seq(BOOLEAN)
    BY DEF Display
  <1>2. /\ Request(d.led, TRUE) \in Seq(BOOLEAN)
        /\ Request(d.led, TRUE) # <<>>
        /\ Request(d.led, TRUE)[Len(Request(d.led, TRUE))] = TRUE
    BY <1>1, RequestLast
  <1>3. ScreenOn(d) \in Display
    BY <1>2 DEF ScreenOn, Display
  <1>4. ScreenOn(d) = [d EXCEPT !.displayOn = TRUE, !.led = ScreenOn(d).led]
    BY DEF ScreenOn, Display
  <1>5. PanelServed(ScreenOn(d))
    BY <1>2 DEF PanelServed, ScreenOn, Display
  <1> QED BY <1>3, <1>4, <1>5

LEMMA ScreenOffServes ==
  ASSUME NEW d \in Display
  PROVE  /\ ScreenOff(d) \in Display
         /\ ScreenOff(d) = [d EXCEPT !.displayOn = FALSE,
                                     !.touch = ScreenOff(d).touch,
                                     !.led = ScreenOff(d).led]
         /\ PanelServed(ScreenOff(d))
  <1>1. d.led \in Seq(BOOLEAN)
    BY DEF Display
  <1>2. /\ Request(d.led, FALSE) \in Seq(BOOLEAN)
        /\ Request(d.led, FALSE) # <<>>
        /\ Request(d.led, FALSE)[Len(Request(d.led, FALSE))] = FALSE
    BY <1>1, RequestLast
  <1>3. ScreenOff(d) \in Display
    BY <1>1, <1>2, SettingsAssumption DEF ScreenOff, Display
  <1>4. ScreenOff(d) = [d EXCEPT !.displayOn = FALSE,
                                 !.touch = ScreenOff(d).touch,
                                 !.led = ScreenOff(d).led]
    BY DEF ScreenOff, Display
  <1>5. PanelServed(ScreenOff(d))
    BY <1>2 DEF PanelServed, ScreenOff, Display
  <1> QED BY <1>3, <1>4, <1>5

(* Starting a timer changes the timers only, and starts the state's own. *)
LEMMA StartsOwnTimer ==
  ASSUME NEW d \in Display, d.timers \subseteq TimersOf(d.state)
  PROVE  LET e == StartInactivityTimer(d)
         IN  /\ e \in Display
             /\ e = [d EXCEPT !.timers = e.timers]
             /\ TimersBelong(e)
  BY DEF StartInactivityTimer, InactivityTimer, TimersOf, TimersBelong, Display,
         Timer, State

LEMMA StartsQuickTimer ==
  ASSUME NEW d \in Display, d.state = "On", TimersBelong(d)
  PROVE  LET e == StartInternalInactivityTimer(d)
         IN  /\ e \in Display
             /\ e = [d EXCEPT !.timers = e.timers]
             /\ TimersBelong(e)
  <1>1. CASE IsDNAST(d) \/ "OnUser" \in d.timers
    <2>1. StartInternalInactivityTimer(d) = d
      BY <1>1, Zenon DEF StartInternalInactivityTimer
    <2>2. d = [d EXCEPT !.timers = d.timers]
      BY DEF Display
    <2> QED BY <2>1, <2>2
  <1>2. CASE ~(IsDNAST(d) \/ "OnUser" \in d.timers)
    <2>1. StartInternalInactivityTimer(d)
            = [d EXCEPT !.timers = @ \cup {"OnInternal"}]
      BY <1>2, Zenon DEF StartInternalInactivityTimer
    <2> QED BY <1>2, <2>1 DEF TimersOf, TimersBelong, Display, Timer
  <1> QED BY <1>1, <1>2

LEMMA LeaveStopsTimers ==
  ASSUME NEW d \in Display, d.timers \subseteq TimersOf(d.state)
  PROVE  LET e == Leave(d)
         IN  /\ e \in Display
             /\ e = [d EXCEPT !.timers = {}, !.restore = e.restore]
             /\ d.state # "OffSuspended" => e.restore = d.restore
  BY DEF Leave, StopInactivityTimer, TimersOf, Display, NoRestore, State, Event

-----------------------------------------------------------------------------
(* A record is in order, but for its timers, as soon as the panel has been *)
(* told; then the timers put it in order.                                  *)

Same(d, e) == SameInputs(d, e) /\ e.state = d.state /\ e.lock = d.lock

LEMMA LitOrdered ==
  ASSUME NEW d \in Display, d.state \notin Dark, LockMatches(d)
  PROVE  LET e == ScreenOn(d)
         IN  Ordered(e) /\ Same(d, e) /\ e.timers = d.timers
  <1> DEFINE e == ScreenOn(d)
  <1>1. /\ e \in Display
        /\ e = [d EXCEPT !.displayOn = TRUE, !.led = e.led]
        /\ PanelServed(e)
    BY ScreenOnServes
  <1> HIDE DEF e
  <1>2. e.state = d.state /\ e.lock = d.lock /\ e.timers = d.timers
    BY <1>1 DEF Display
  <1>3. e.displayOn = TRUE
    BY <1>1 DEF Display
  <1>4. SameInputs(d, e)
    BY <1>1 DEF Display, SameInputs
  <1>5. LockMatches(e) /\ RestoreNoted(e)
    BY <1>2 DEF LockMatches, RestoreNoted, Dark
  <1>6. PanelFollows(e)
    BY <1>1, <1>2, <1>3 DEF PanelFollows
  <1> QED BY <1>1, <1>2, <1>4, <1>5, <1>6 DEF Ordered, Same, e

LEMMA DarkOrdered ==
  ASSUME NEW d \in Display, d.state \in Dark, LockMatches(d), RestoreNoted(d)
  PROVE  LET e == ScreenOff(d)
         IN  Ordered(e) /\ Same(d, e) /\ e.timers = d.timers
  <1> DEFINE e == ScreenOff(d)
  <1>1. /\ e \in Display
        /\ e = [d EXCEPT !.displayOn = FALSE, !.touch = e.touch, !.led = e.led]
        /\ PanelServed(e)
    BY ScreenOffServes
  <1> HIDE DEF e
  <1>2. /\ e.state = d.state /\ e.lock = d.lock /\ e.timers = d.timers
        /\ e.restore = d.restore
    BY <1>1 DEF Display
  <1>3. e.displayOn = FALSE
    BY <1>1 DEF Display
  <1>4. SameInputs(d, e)
    BY <1>1 DEF Display, SameInputs
  <1>5. LockMatches(e) /\ RestoreNoted(e)
    BY <1>2 DEF LockMatches, RestoreNoted
  <1>6. PanelFollows(e)
    BY <1>1, <1>2, <1>3 DEF PanelFollows
  <1> QED BY <1>1, <1>2, <1>4, <1>5, <1>6 DEF Ordered, Same, e

(* Timers apart, a record in order stays so. *)
LEMMA OtherTimersOrdered ==
  ASSUME NEW d \in Display, NEW e \in Display, Ordered(d),
         e = [d EXCEPT !.timers = e.timers]
  PROVE  Ordered(e) /\ Same(d, e)
  <1>1. /\ e.state = d.state /\ e.lock = d.lock /\ e.restore = d.restore
        /\ e.displayOn = d.displayOn /\ e.touch = d.touch /\ e.led = d.led
        /\ e.backlight = d.backlight
    BY DEF Display
  <1>2. SameInputs(d, e)
    BY DEF Display, SameInputs
  <1>3. LockMatches(e) /\ RestoreNoted(e)
    BY <1>1 DEF LockMatches, RestoreNoted, Ordered
  <1>4. PanelFollows(e)
    BY <1>1 DEF PanelFollows, PanelServed, Ordered
  <1> QED BY <1>1, <1>2, <1>3, <1>4 DEF Ordered, Same

LEMMA TimerStartedGood ==
  ASSUME NEW d, Ordered(d), d.timers \subseteq TimersOf(d.state)
  PROVE  Good(StartInactivityTimer(d)) /\ Same(d, StartInactivityTimer(d))
  BY StartsOwnTimer, OtherTimersOrdered DEF Good, Ordered

LEMMA QuickTimerStartedGood ==
  ASSUME NEW d, Good(d), d.state = "On"
  PROVE  /\ Good(StartInternalInactivityTimer(d))
         /\ Same(d, StartInternalInactivityTimer(d))
  BY StartsQuickTimer, OtherTimersOrdered DEF Good, Ordered

-----------------------------------------------------------------------------
(* enter(): a record whose timers have been stopped comes to be in order.  *)

(* To enter On or OnPuck may end in OnLocked. *)
Outcome(s) == IF s \in {"On", "OnPuck"} THEN {s, "OnLocked"} ELSE {s}

Entered(d, e, s, ev) ==
  /\ Good(e)
  /\ SameInputs(d, e)
  /\ e.state \in Outcome(s)
  /\ ev # "UnlockScreen" => StaysLocked(d, e)

(* What the lock state and the panel have to be for enter() to leave the   *)
(* rest alone.                                                             *)
MayEnter(d, s) ==
  /\ s = "OffOnCall" => d.lock \in {"Locked", "Unlocked"}
  /\ s = "Dim" => d.lock = "Unlocked"
  /\ s = "OffSuspended" => d.lock = "Locked" /\ d.state = "Off"
  /\ s = "Off" /\ d.state = "OffSuspended" =>
       d.lock = "Locked" /\ d.displayOn = FALSE /\ PanelServed(d)

(* Becoming the current state and telling the lock state. *)
Moved(d, e, s, l) ==
  /\ e \in Display
  /\ e.state = s
  /\ e.lock = l
  /\ e.timers = d.timers
  /\ e.restore = d.restore
  /\ SameInputs(d, e)

LEMMA BecomesCurrent ==
  ASSUME NEW d \in Display, NEW s \in State, NEW l \in LockState
  PROVE  Moved(d, SetLock([d EXCEPT !.state = s], l), s, l)
  <1> DEFINE e == SetLock([d EXCEPT !.state = s], l)
  <1>1. e \in Display
    BY DEF SetLock, Display
  <1>2. e.state = s /\ e.lock = l /\ e.timers = d.timers /\ e.restore = d.restore
    BY DEF SetLock, Display
  <1>3. SameInputs(d, e)
    BY DEF SetLock, Display, SameInputs
  <1> QED BY <1>1, <1>2, <1>3 DEF Moved

LEMMA EnterOnLockedGood ==
  ASSUME NEW d \in Display, d.timers = {}
  PROVE  LET e == EnterOnLocked(d)
         IN  Good(e) /\ SameInputs(d, e) /\ e.state = "OnLocked" /\ e.lock = "Locked"
  <1> DEFINE a == SetLock([d EXCEPT !.state = "OnLocked"], "Locked")
             b == ScreenOn(a)
             e == StartInactivityTimer(b)
  <1>1. /\ a \in Display /\ a.state = "OnLocked" /\ a.lock = "Locked" /\ a.timers = {}
        /\ SameInputs(d, a)
    <2>1. "OnLocked" \in State /\ "Locked" \in LockState
      BY DEF State, LockState
    <2>2. Moved(d, a, "OnLocked", "Locked")
      BY <2>1, BecomesCurrent
    <2> QED BY <2>2 DEF Moved
  <1> HIDE DEF a
  <1>2. Ordered(b) /\ Same(a, b) /\ b.timers = {}
    BY <1>1, LitOrdered DEF LockMatches, Dark
  <1> HIDE DEF b
  <1>3. Good(e) /\ Same(b, e)
    BY <1>2, TimerStartedGood
  <1> HIDE DEF e
  <1>4. EnterOnLocked(d) = e
    BY DEF EnterOnLocked, e, b, a
  <1> QED BY <1>1, <1>2, <1>3, <1>4 DEF Same, SameInputs

(* Whatever state d is in: the caller has told the lock state Unlocked,    *)
(* and the screen is locked all the same.                                  *)
LEMMA LockInsteadGood ==
  ASSUME NEW d \in Display, d.state \in {"On", "OnPuck"},
         d.timers \subseteq TimersOf(d.state)
  PROVE  LET e == LockInstead(d)
         IN  Good(e) /\ SameInputs(d, e) /\ e.state = "OnLocked" /\ e.lock = "Locked"
  <1> DEFINE a == SetLock(d, "Unlocked")
             b == IF d.state = "On" THEN StartInactivityTimer(a) ELSE a
             c == Leave(b)
             e == EnterOnLocked(c)
  <1>1. a \in Display /\ a.state = d.state /\ a.timers = d.timers
    BY DEF SetLock, Display, LockState
  <1>2. SameInputs(d, a)
    BY DEF SetLock, Display, SameInputs
  <1> HIDE DEF a, b
  <1>3. b \in Display /\ b = [a EXCEPT !.timers = b.timers]
                      /\ b.timers \subseteq TimersOf(a.state)
    <2>1. CASE d.state = "On"
      <3>1. b = StartInactivityTimer(a)
        BY <2>1 DEF b
      <3>2. b \in Display /\ b = [a EXCEPT !.timers = b.timers] /\ TimersBelong(b)
        BY <1>1, <3>1, StartsOwnTimer
      <3>3. b.state = a.state
        BY <1>1, <3>2 DEF Display
      <3> QED BY <3>2, <3>3 DEF TimersBelong
    <2>2. CASE d.state # "On"
      <3>1. a = [a EXCEPT !.timers = a.timers]
        BY <1>1 DEF Display
      <3>2. b = a
        BY <2>2 DEF b
      <3> QED BY <1>1, <3>1, <3>2
    <2> QED BY <2>1, <2>2
  <1>4. b.state = a.state /\ SameInputs(a, b)
    BY <1>1, <1>3 DEF Display, SameInputs
  <1>5. c \in Display /\ c = [b EXCEPT !.timers = {}, !.restore = c.restore]
    BY <1>3, <1>4, LeaveStopsTimers
  <1> HIDE DEF c
  <1>6. c.timers = {} /\ SameInputs(b, c)
    BY <1>3, <1>5 DEF Display, SameInputs
  <1>7. Good(e) /\ SameInputs(c, e) /\ e.state = "OnLocked" /\ e.lock = "Locked"
    BY <1>5, <1>6, EnterOnLockedGood
  <1> HIDE DEF e
  <1>8. LockInstead(d) = e
    BY DEF LockInstead, e, c, b, a
  <1> QED BY <1>2, <1>4, <1>6, <1>7, <1>8 DEF SameInputs

LEMMA CurrentOnly ==
  ASSUME NEW d \in Display, NEW s \in State
  PROVE  Moved(d, [d EXCEPT !.state = s], s, d.lock)
  <1> DEFINE e == [d EXCEPT !.state = s]
  <1>1. e \in Display
    BY DEF Display
  <1>2. e.state = s /\ e.lock = d.lock /\ e.timers = d.timers /\ e.restore = d.restore
    BY DEF Display
  <1>3. SameInputs(d, e)
    BY DEF Display, SameInputs
  <1> QED BY <1>1, <1>2, <1>3 DEF Moved

(* The lock state may be told before the panel or after it. *)
LEMMA LockThenScreen ==
  ASSUME NEW d \in Display, NEW l \in LockState
  PROVE  /\ SetLock(ScreenOff(d), l) = ScreenOff(SetLock(d, l))
         /\ SetLock(ScreenOn(d), l) = ScreenOn(SetLock(d, l))
  BY DEF SetLock, ScreenOff, ScreenOn, Display

(* In the dark and with nothing timed, the record is in order at once. *)
LEMMA DarkEntered ==
  ASSUME NEW d \in Display, NEW a, NEW s \in Dark, NEW l, d.timers = {},
         Moved(d, a, s, l), LockMatches(a), RestoreNoted(a)
  PROVE  LET e == ScreenOff(a)
         IN  Good(e) /\ SameInputs(d, e) /\ e.state = s /\ e.lock = l
  <1> DEFINE e == ScreenOff(a)
  <1>1. a \in Display /\ a.state = s /\ a.lock = l /\ a.timers = {} /\ SameInputs(d, a)
    BY DEF Moved
  <1>2. Ordered(e) /\ Same(a, e) /\ e.timers = {}
    BY <1>1, DarkOrdered
  <1>3. TimersBelong(e)
    BY <1>2 DEF TimersBelong
  <1> QED BY <1>1, <1>2, <1>3 DEF Good, Same, SameInputs

(* In the light, once the timer is started. *)
LEMMA LitEntered ==
  ASSUME NEW d \in Display, NEW a, NEW s \in State \ Dark, NEW l, d.timers = {},
         Moved(d, a, s, l), LockMatches(a)
  PROVE  LET e == ScreenOn(a)
             f == StartInactivityTimer(e)
         IN  /\ Good(e) /\ SameInputs(d, e) /\ e.state = s /\ e.lock = l
             /\ Good(f) /\ SameInputs(d, f) /\ f.state = s /\ f.lock = l
  <1> DEFINE e == ScreenOn(a)
             f == StartInactivityTimer(e)
  <1>1. a \in Display /\ a.state = s /\ a.lock = l /\ a.timers = {} /\ SameInputs(d, a)
    BY DEF Moved
  <1>2. Ordered(e) /\ Same(a, e) /\ e.timers = {}
    BY <1>1, LitOrdered
  <1>3. TimersBelong(e)
    BY <1>2 DEF TimersBelong
  <1>4. Good(f) /\ Same(e, f)
    BY <1>2, TimerStartedGood
  <1> QED BY <1>1, <1>2, <1>3, <1>4 DEF Good, Same, SameInputs

LEMMA EnterOnGood ==
  ASSUME NEW d \in Display, d.timers \subseteq {"OnUser"}, NEW ev \in Event
  PROVE  LET e == EnterOn(d, ev)
         IN  /\ Good(e) /\ SameInputs(d, e) /\ e.state \in {"On", "OnLocked"}
             /\ ev # "UnlockScreen" => StaysLocked(d, e)
  <1> DEFINE a == [d EXCEPT !.state = "On"]
             b == SetLock(a, "Unlocked")
             c == ScreenOn(b)
             e == EnterOn(d, ev)
  <1>1. a \in Display /\ a.state = "On" /\ a.lock = d.lock /\ a.timers = d.timers
        /\ SameInputs(d, a)
    <2>1. Moved(d, a, "On", d.lock)
      BY CurrentOnly DEF State
    <2> QED BY <2>1 DEF Moved
  <1>2. Moved(d, b, "On", "Unlocked")
    BY BecomesCurrent DEF State, LockState
  <1>3. b \in Display /\ b.state = "On" /\ b.lock = "Unlocked" /\ b.timers = d.timers
        /\ SameInputs(d, b)
    BY <1>2 DEF Moved
  <1> HIDE DEF a, b
  <1>4. Ordered(c) /\ Same(b, c) /\ c.timers = d.timers
    BY <1>3, LitOrdered DEF LockMatches, Dark
  <1> HIDE DEF c
  <1>5. /\ c.state = "On" /\ c.timers \subseteq TimersOf(c.state) /\ Good(c)
        /\ a.timers \subseteq TimersOf(a.state)
        /\ SameInputs(d, c)
    BY <1>1, <1>3, <1>4 DEF Same, SameInputs, TimersOf, Good, TimersBelong
  <1>6. CASE UnlockRefused(a, ev)
    <2>1. e = LockInstead(a)
      BY <1>6, Zenon DEF EnterOn, e, a
    <2>2. Good(e) /\ SameInputs(a, e) /\ e.state = "OnLocked" /\ e.lock = "Locked"
      BY <1>1, <1>5, <2>1, LockInsteadGood
    <2> HIDE DEF e
    <2> QED BY <1>1, <2>2 DEF SameInputs, StaysLocked, e
  <1>7. CASE ~UnlockRefused(a, ev)
    <2>1. e = IF ev = "ApiOn" THEN StartInternalInactivityTimer(c)
              ELSE StartInactivityTimer(c)
      BY <1>7, Zenon DEF EnterOn, e, a, b, c
    <2>2. Good(e) /\ Same(c, e)
      BY <1>4, <1>5, <2>1, TimerStartedGood, QuickTimerStartedGood
    <2>3. ev # "UnlockScreen" => StaysLocked(d, e)
      BY <1>1, <1>7 DEF UnlockRefused, StaysLocked, IsOnCall, SameInputs
    <2> HIDE DEF e
    <2> QED BY <1>5, <2>2, <2>3 DEF Same, SameInputs, e
  <1> QED BY <1>6, <1>7

LEMMA EnterOnPuckGood ==
  ASSUME NEW d \in Display, d.timers = {}, NEW ev \in Event
  PROVE  LET e == EnterOnPuck(d, ev)
         IN  /\ Good(e) /\ SameInputs(d, e) /\ e.state \in {"OnPuck", "OnLocked"}
             /\ ev # "UnlockScreen" => StaysLocked(d, e)
  <1> DEFINE a == [d EXCEPT !.state = "OnPuck"]
             b == ScreenOn(a)
             c == SetLock(a, "Unlocked")
             e == EnterOnPuck(d, ev)
  <1>1. a \in Display /\ a.state = "OnPuck" /\ a.lock = d.lock /\ a.timers = {}
        /\ SameInputs(d, a)
    <2>1. Moved(d, a, "OnPuck", d.lock)
      BY CurrentOnly DEF State
    <2> QED BY <2>1 DEF Moved
  <1>2. Moved(d, c, "OnPuck", "Unlocked")
    BY BecomesCurrent DEF State, LockState
  <1>3. LockMatches(c)
    BY <1>2 DEF Moved, LockMatches
  <1>5. /\ b \in Display
        /\ b.state = "OnPuck" /\ b.timers = {} /\ b.lock = d.lock
        /\ SameInputs(a, b)
    <2>1. b \in Display /\ b = [a EXCEPT !.displayOn = TRUE, !.led = b.led]
      BY <1>1, ScreenOnServes
    <2>2. b.state = a.state /\ b.timers = a.timers /\ b.lock = a.lock
      BY <1>1, <2>1 DEF Display
    <2>3. SameInputs(a, b)
      BY <1>1, <2>1 DEF Display, SameInputs
    <2> QED BY <1>1, <2>1, <2>2, <2>3
  <1>6. SetLock(b, "Unlocked") = ScreenOn(c)
    BY <1>1, LockThenScreen DEF LockState
  <1>7. CASE UnlockRefused(b, ev)
    <2>1. e = LockInstead(b)
      BY <1>7, Zenon DEF EnterOnPuck, e, a, b
    <2> HIDE DEF b, e
    <2>2. Good(e) /\ SameInputs(b, e) /\ e.state = "OnLocked" /\ e.lock = "Locked"
      BY <1>5, <2>1, LockInsteadGood
    <2> QED BY <1>1, <1>5, <2>2 DEF SameInputs, StaysLocked, e
  <1>8. CASE ~UnlockRefused(b, ev)
    <2>1. e = StartInactivityTimer(ScreenOn(c))
      BY <1>6, <1>8, Zenon DEF EnterOnPuck, e, a, b
    <2>2. "OnPuck" \in State \ Dark
      BY DEF State, Dark
    <2> HIDE DEF e, c
    <2>3. Good(e) /\ SameInputs(d, e) /\ e.state = "OnPuck"
      BY <1>2, <1>3, <2>1, <2>2, LitEntered
    <2>4. ev # "UnlockScreen" => StaysLocked(d, e)
      BY <1>1, <1>5, <1>8 DEF UnlockRefused, StaysLocked, IsOnCall, SameInputs
    <2> QED BY <2>3, <2>4 DEF e
  <1> QED BY <1>7, <1>8

LEMMA EnterOffGood ==
  ASSUME NEW d \in Display, d.timers = {}, NEW old, MayEnter(d, "Off"),
         old = d.state
  PROVE  LET e == EnterOff(d, old)
         IN  Good(e) /\ SameInputs(d, e) /\ e.state = "Off" /\ e.lock = "Locked"
  <1> DEFINE a == [d EXCEPT !.state = "Off"]
             b == SetLock(a, "Locked")
             e == EnterOff(d, old)
  <1>1. Moved(d, a, "Off", d.lock)
    BY CurrentOnly DEF State
  <1>2. CASE old = "OffSuspended"
    <2>1. e = a
      BY <1>2, Zenon DEF EnterOff, e, a
    <2>2. d.lock = "Locked" /\ d.displayOn = FALSE /\ PanelServed(d)
      BY <1>2 DEF MayEnter
    <2>3. a.displayOn = FALSE /\ PanelServed(a)
      BY <2>2 DEF PanelServed, Display
    <2> HIDE DEF a, e
    <2>4. Ordered(a) /\ TimersBelong(a)
      BY <1>1, <2>2, <2>3 DEF Moved, Ordered, TimersBelong, LockMatches,
                              PanelFollows, RestoreNoted, Dark
    <2> QED BY <1>1, <2>1, <2>2, <2>4 DEF Good, Moved, e
  <1>3. CASE old # "OffSuspended"
    <2>1. e = SetLock(ScreenOff(a), "Locked")
      BY <1>3, Zenon DEF EnterOff, e, a
    <2>2. e = ScreenOff(b)
      BY <1>1, <2>1, LockThenScreen DEF LockState, Moved
    <2>3. Moved(d, b, "Off", "Locked")
      BY BecomesCurrent DEF State, LockState
    <2>4. LockMatches(b) /\ RestoreNoted(b) /\ "Off" \in Dark
      BY <2>3 DEF Moved, LockMatches, RestoreNoted, Dark
    <2> HIDE DEF b, e
    <2>5. Good(e) /\ SameInputs(d, e) /\ e.state = "Off" /\ e.lock = "Locked"
      BY <2>2, <2>3, <2>4, DarkEntered
    <2> QED BY <2>5 DEF e
  <1> QED BY <1>2, <1>3

LEMMA EnterGood ==
  ASSUME NEW d \in Display, d.timers = {}, NEW s \in State, NEW ev \in Event,
         MayEnter(d, s)
  PROVE  Entered(d, Enter(d, s, ev), s, ev)
  <1> DEFINE a == [d EXCEPT !.state = s]
             e == Enter(d, s, ev)
  <1>1. Moved(d, a, s, d.lock)
    BY CurrentOnly
  <1>2. CASE s = "Off"
    <2>1. e = EnterOff(d, d.state)
      BY <1>2 DEF Enter
    <2> HIDE DEF e
    <2>2. Good(e) /\ SameInputs(d, e) /\ e.state = "Off" /\ e.lock = "Locked"
      BY <1>2, <2>1, EnterOffGood
    <2> QED BY <1>2, <2>2 DEF Entered, Outcome, StaysLocked, e
  <1>3. CASE s = "OffOnCall"
    <2>1. e = ScreenOff(a)
      BY <1>3 DEF Enter, EnterOffOnCall
    <2>2. LockMatches(a) /\ RestoreNoted(a) /\ s \in Dark
      BY <1>1, <1>3 DEF Moved, MayEnter, LockMatches, RestoreNoted, Dark
    <2> HIDE DEF a, e
    <2>3. Good(e) /\ SameInputs(d, e) /\ e.state = s /\ e.lock = d.lock
      BY <1>1, <2>1, <2>2, DarkEntered
    <2> QED BY <1>3, <2>3 DEF Entered, Outcome, StaysLocked, e
  <1>4. CASE s = "On"
    <2>1. e = EnterOn(d, ev)
      BY <1>4 DEF Enter
    <2> HIDE DEF e
    <2>2. /\ Good(e) /\ SameInputs(d, e) /\ e.state \in {"On", "OnLocked"}
          /\ ev # "UnlockScreen" => StaysLocked(d, e)
      BY <2>1, EnterOnGood
    <2> QED BY <1>4, <2>2 DEF Entered, Outcome, e
  <1>5. CASE s = "OnLocked"
    <2>1. e = EnterOnLocked(d)
      BY <1>5 DEF Enter
    <2> HIDE DEF e
    <2>2. Good(e) /\ SameInputs(d, e) /\ e.state = "OnLocked" /\ e.lock = "Locked"
      BY <2>1, EnterOnLockedGood
    <2> QED BY <1>5, <2>2 DEF Entered, Outcome, StaysLocked, e
  <1>6. CASE s = "Dim"
    <2>1. ScreenDim(a) = ScreenOn(a)
      BY DEF ScreenDim, ScreenOn
    <2>2. e = StartInactivityTimer(ScreenOn(a))
      BY <1>6, <2>1 DEF Enter, EnterDim
    <2>3. LockMatches(a) /\ s \in State \ Dark /\ d.lock = "Unlocked"
      BY <1>1, <1>6 DEF Moved, MayEnter, LockMatches, Dark
    <2> HIDE DEF a, e
    <2>4. Good(e) /\ SameInputs(d, e) /\ e.state = s
      BY <1>1, <2>2, <2>3, LitEntered
    <2> QED BY <1>6, <2>3, <2>4 DEF Entered, Outcome, StaysLocked, e
  <1>7. CASE s = "OnPuck"
    <2>1. e = EnterOnPuck(d, ev)
      BY <1>7 DEF Enter
    <2> HIDE DEF e
    <2>2. /\ Good(e) /\ SameInputs(d, e) /\ e.state \in {"OnPuck", "OnLocked"}
          /\ ev # "UnlockScreen" => StaysLocked(d, e)
      BY <2>1, EnterOnPuckGood
    <2> QED BY <1>7, <2>2 DEF Entered, Outcome, e
  <1>8. CASE s = "DockMode"
    <2> DEFINE b == SetLock([d EXCEPT !.state = "DockMode"], "DockMode")
    <2>1. e = ScreenOn(b)
      BY <1>8 DEF Enter, EnterDockMode
    <2>2. Moved(d, b, "DockMode", "DockMode")
      BY BecomesCurrent DEF State, LockState
    <2>3. LockMatches(b) /\ "DockMode" \in State \ Dark
      BY <2>2 DEF Moved, LockMatches, State, Dark
    <2> HIDE DEF b, e
    <2>4. Good(e) /\ SameInputs(d, e) /\ e.state = "DockMode" /\ e.lock = "DockMode"
      BY <2>1, <2>2, <2>3, LitEntered
    <2> QED BY <1>8, <2>4 DEF Entered, Outcome, StaysLocked, e
  <1>9. CASE s = "OffSuspended"
    <2> DEFINE r == [state |-> "Off", event |-> "PowerdResume"]
               b == [d EXCEPT !.state = "OffSuspended", !.restore = r]
    <2>1. e = ScreenOff(b)
      BY <1>9 DEF Enter, EnterOffSuspended, MayEnter
    <2>2. r \in [state : State, event : Event]
      BY DEF State, Event
    <2>3. /\ b \in Display /\ b.state = "OffSuspended" /\ b.lock = d.lock
          /\ b.timers = {} /\ b.restore = r
      BY <2>2 DEF Display, State
    <2>4. SameInputs(d, b)
      BY DEF Display, SameInputs
    <2>5. d.lock = "Locked"
      BY <1>9 DEF MayEnter
    <2>6. LockMatches(b) /\ RestoreNoted(b) /\ b.state \in Dark
      BY <2>3, <2>5 DEF LockMatches, RestoreNoted, Dark
    <2> HIDE DEF b, e
    <2>7. Ordered(e) /\ Same(b, e) /\ e.timers = {}
      BY <2>1, <2>3, <2>6, DarkOrdered
    <2>8. TimersBelong(e)
      BY <2>7 DEF TimersBelong
    <2> QED BY <1>9, <2>3, <2>4, <2>5, <2>7, <2>8
            DEF Good, Same, SameInputs, Entered, Outcome, StaysLocked, e
  <1> QED BY <1>2, <1>3, <1>4, <1>5, <1>6, <1>7, <1>8, <1>9 DEF State

-----------------------------------------------------------------------------
(* changeDisplayState().                                                   *)

LEMMA ChangeGood ==
  ASSUME NEW d, Good(d), NEW s \in State, NEW ev \in Event,
         s # d.state => MayEnter(d, s)
  PROVE  Entered(d, ChangeDisplayState(d, s, ev), s, ev)
  <1>1. CASE s = d.state
    <2>1. ChangeDisplayState(d, s, ev) = d
      BY <1>1 DEF ChangeDisplayState
    <2> QED BY <1>1, <2>1 DEF Entered, Outcome, SameInputs, StaysLocked
  <1>2. CASE s # d.state
    <2> DEFINE f == Leave(d)
               e == Enter(f, s, ev)
    <2>1. ChangeDisplayState(d, s, ev) = e
      BY <1>2 DEF ChangeDisplayState
    <2>2. d \in Display /\ d.timers \subseteq TimersOf(d.state)
      BY DEF Good, Ordered, TimersBelong
    <2>3. f \in Display /\ f = [d EXCEPT !.timers = {}, !.restore = f.restore]
      BY <2>2, LeaveStopsTimers
    <2> HIDE DEF f
    <2>4. /\ f.timers = {} /\ f.state = d.state /\ f.lock = d.lock
          /\ f.displayOn = d.displayOn /\ f.touch = d.touch /\ f.led = d.led
          /\ f.backlight = d.backlight
      BY <2>2, <2>3 DEF Display
    <2>5. SameInputs(d, f)
      BY <2>2, <2>3 DEF Display, SameInputs
    <2>6. PanelServed(d) => PanelServed(f)
      BY <2>4 DEF PanelServed
    <2>7. MayEnter(f, s)
      BY <1>2, <2>4, <2>6 DEF MayEnter
    <2>8. Entered(f, e, s, ev)
      BY <2>3, <2>4, <2>7, EnterGood
    <2> HIDE DEF e
    <2> QED BY <2>1, <2>4, <2>5, <2>8 DEF Entered, SameInputs, StaysLocked, IsOnCall
  <1> QED BY <1>1, <1>2

-----------------------------------------------------------------------------
(* handleEvent().                                                          *)

LEMMA LitGood ==
  ASSUME NEW d, Good(d), d.state \notin Dark
  PROVE  Good(ScreenOn(d)) /\ Same(d, ScreenOn(d))
  <1>1. d \in Display /\ LockMatches(d)
    BY DEF Good, Ordered
  <1>2. Ordered(ScreenOn(d)) /\ Same(d, ScreenOn(d)) /\ ScreenOn(d).timers = d.timers
    BY <1>1, LitOrdered
  <1> QED BY <1>2 DEF Good, Same, TimersBelong

LEMMA TimerStoppedGood ==
  ASSUME NEW d, Good(d)
  PROVE  Good(StopInactivityTimer(d)) /\ Same(d, StopInactivityTimer(d))
  <1> DEFINE e == StopInactivityTimer(d)
  <1>1. d \in Display /\ d.timers \subseteq TimersOf(d.state)
    BY DEF Good, Ordered, TimersBelong
  <1>2. e \in Display /\ e.timers = {}
    BY <1>1 DEF StopInactivityTimer, Display
  <1>3. e = [d EXCEPT !.timers = e.timers]
    BY <1>1 DEF StopInactivityTimer, Display
  <1> HIDE DEF e
  <1>4. Ordered(e) /\ Same(d, e)
    BY <1>1, <1>2, <1>3, OtherTimersOrdered DEF Good
  <1> QED BY <1>2, <1>4 DEF Good, TimersBelong, e

(* What the handler does besides changing state leaves the state alone.    *)
LEMMA SideEffectGood ==
  ASSUME NEW d, Good(d), NEW ev \in Event
  PROVE  LET e == SideEffect(d, ev)
         IN  /\ Good(e) /\ SameInputs(d, e) /\ e.state = d.state
             /\ ev # "UnlockScreen" => StaysLocked(d, e)
  <1> DEFINE e == SideEffect(d, ev)
             Goal(f) == /\ Good(f) /\ SameInputs(d, f) /\ f.state = d.state
                        /\ ev # "UnlockScreen" => StaysLocked(d, f)
  <1>1. d \in Display /\ d.state \in State /\ d.timers \subseteq TimersOf(d.state)
    BY DEF Good, Ordered, TimersBelong, Display
  <1>2. ASSUME NEW f, Good(f), Same(d, f)
        PROVE  Goal(f)
    BY <1>2 DEF Same, StaysLocked
  <1>3. Goal(d)
    BY <1>2 DEF Same, SameInputs
  <1>4. ASSUME d.state \notin Dark
        PROVE  Goal(ScreenOn(d))
    BY <1>2, <1>4, LitGood
  <1>5. Good(StartInactivityTimer(d)) /\ Same(d, StartInactivityTimer(d))
    BY <1>1, TimerStartedGood DEF Good
  <1>6. CASE d.state = "OffOnCall"
    <2>1. e = OffOnCallSideEffect(d, ev)
      BY <1>6 DEF SideEffect
    <2>2. ASSUME NEW l \in {"Locked", "Unlocked"}, l = "Unlocked" => ev = "UnlockScreen"
          PROVE  Goal(SetLock(d, l))
      <3> DEFINE f == SetLock(d, l)
      <3>1. f \in Display /\ f.state = d.state /\ f.lock = l /\ f.timers = d.timers
        BY <1>1 DEF SetLock, Display, LockState
      <3>2. /\ f.displayOn = d.displayOn /\ f.touch = d.touch /\ f.led = d.led
            /\ f.backlight = d.backlight
        BY <1>1 DEF SetLock, Display
      <3>3. SameInputs(d, f)
        BY <1>1 DEF SetLock, Display, SameInputs
      <3> HIDE DEF f
      <3>4. Good(f)
        BY <1>6, <3>1, <3>2 DEF Good, Ordered, TimersBelong, LockMatches,
                                 PanelFollows, PanelServed, RestoreNoted
      <3>5. ev # "UnlockScreen" => StaysLocked(d, f)
        BY <2>2, <3>1 DEF StaysLocked
      <3> QED BY <3>1, <3>3, <3>4, <3>5 DEF f
    <2> HIDE DEF Goal
    <2> QED BY <1>3, <2>1, <2>2 DEF OffOnCallSideEffect, Goal
  <1>7. CASE d.state = "On"
    <2> DEFINE light == {"AlsChange", "UpdateBrightness"}
               f == IF ev \in light THEN d ELSE StartInactivityTimer(d)
    <2>1. e = IF ev \in light \cup {"SliderOpen"} THEN ScreenOn(f) ELSE f
      BY <1>7 DEF SideEffect, OnSideEffect
    <2>2. Good(f) /\ Same(d, f)
      BY <1>5 DEF Same, SameInputs
    <2> HIDE DEF f
    <2>3. Good(ScreenOn(f)) /\ Same(f, ScreenOn(f))
      BY <1>7, <2>2, LitGood DEF Same, Dark
    <2>4. Good(e) /\ Same(d, e)
      BY <2>1, <2>2, <2>3 DEF Same, SameInputs
    <2> HIDE DEF e, Goal
    <2>5. Goal(e)
      BY <1>2, <2>4
    <2> QED BY <2>5 DEF Goal, e
  <1>8. CASE d.state = "OnPuck"
    <2>1. e = OnPuckSideEffect(d, ev)
      BY <1>8 DEF SideEffect
    <2>2. Goal(StopInactivityTimer(d)) /\ Goal(StartInactivityTimer(d))
      BY <1>2, <1>5, TimerStoppedGood
    <2>3. Goal(ScreenOn(d))
      BY <1>4, <1>8 DEF Dark
    <2> HIDE DEF Goal
    <2> QED BY <1>3, <2>1, <2>2, <2>3 DEF OnPuckSideEffect, Goal
  <1>9. CASE d.state = "OffSuspended"
    <2>1. e = OffSuspendedSideEffect(d, ev)
      BY <1>9 DEF SideEffect
    <2> DEFINE r == [state |-> RestoreTarget(d, ev), event |-> ev]
               f == [d EXCEPT !.restore = r]
    <2>2. CASE e = d
      BY <1>3, <2>2
    <2>3. CASE e = f /\ ev # "UnlockScreen"
      <3>1. d.restore.state \in {"Off", "On", "OnLocked", "OnPuck", "DockMode"}
        BY <1>9 DEF Good, Ordered, RestoreNoted
      <3>2. RestoreTarget(d, ev) \in {"Off", "On", "OnLocked", "OnPuck", "DockMode"}
        BY <3>1 DEF RestoreTarget, KeyTarget, LockedTarget, UnlockedTarget, DockTarget
      <3>3. f \in Display /\ f.restore = r
        BY <1>1, <3>2 DEF Display, State
      <3>4. /\ f.state = d.state /\ f.lock = d.lock /\ f.timers = d.timers
            /\ f.displayOn = d.displayOn /\ f.touch = d.touch /\ f.led = d.led
            /\ f.backlight = d.backlight
        BY <1>1 DEF Display
      <3>5. SameInputs(d, f)
        BY <1>1 DEF Display, SameInputs
      <3>6. r.state = RestoreTarget(d, ev) /\ r.event = ev
        OBVIOUS
      <3> HIDE DEF f, r
      <3>7. Good(f)
        BY <2>3, <3>2, <3>3, <3>4, <3>6
           DEF Good, Ordered, TimersBelong, LockMatches, PanelFollows, PanelServed,
               RestoreNoted
      <3> HIDE DEF Goal
      <3>8. Goal(f)
        BY <1>2, <3>4, <3>5, <3>7 DEF Same
      <3> QED BY <2>3, <3>8 DEF Goal
    <2>4. e = d \/ (e = f /\ ev # "UnlockScreen")
      BY <2>1 DEF OffSuspendedSideEffect
    <2> QED BY <2>2, <2>3, <2>4
  <1>10. CASE d.state \in {"OnLocked", "DockMode"}
    <2>1. e = ScreenOn(d) \/ e = d
      BY <1>10 DEF SideEffect
    <2>2. Goal(ScreenOn(d))
      BY <1>4, <1>10 DEF Dark
    <2> HIDE DEF e, Goal
    <2>3. Goal(e)
      BY <1>3, <2>1, <2>2
    <2> QED BY <2>3 DEF Goal, e
  <1>11. CASE d.state \in {"Off", "Dim"}
    <2>1. e = d
      BY <1>11 DEF SideEffect
    <2> QED BY <1>3, <2>1
  <1> QED BY <1>1, <1>6, <1>7, <1>8, <1>9, <1>10, <1>11 DEF State

(* A handler only changes to a state that takes the lock and the panel as  *)
(* they are, or that sets them.                                            *)
LEMMA TargetFits ==
  ASSUME NEW d, Good(d), NEW ev \in Event
  PROVE  LET s == Target(d, ev)
         IN  /\ s \in State
             /\ s # d.state =>
                  /\ s = "OffOnCall" => d.state \in {"On", "OnLocked", "Dim", "OnPuck"}
                  /\ s = "Dim" => d.state = "On"
                  /\ s = "OffSuspended" => d.state = "Off"
  <1>1. d.state \in State
    BY DEF Good, Ordered, Display
  <1>2. CASE d.state = "Off"
    BY <1>2 DEF Target, State, OffTarget, KeyTarget, LockedTarget, UnlockedTarget,
                DockTarget
  <1>3. CASE d.state = "OffOnCall"
    BY <1>3 DEF Target, State, OffOnCallTarget, UnlockedTarget
  <1>4. CASE d.state = "On"
    BY <1>4 DEF Target, State, OnTarget, SleepTarget
  <1>5. CASE d.state = "OnLocked"
    BY <1>5 DEF Target, State, OnLockedTarget, DockTarget
  <1>6. CASE d.state = "Dim"
    BY <1>6 DEF Target, State, DimTarget, SleepTarget, UnlockedTarget
  <1>7. CASE d.state = "OnPuck"
    BY <1>7 DEF Target, State, OnPuckTarget
  <1>8. CASE d.state = "DockMode"
    BY <1>8 DEF Target, State, DockModeTarget, UnlockedTarget
  <1>9. CASE d.state = "OffSuspended"
    <2>1. Target(d, ev) = OffSuspendedTarget(d, ev)
      BY <1>9 DEF Target
    <2> QED BY <1>9, <2>1 DEF Good, Ordered, RestoreNoted, State, OffSuspendedTarget
  <1> QED BY <1>1, <1>2, <1>3, <1>4, <1>5, <1>6, <1>7, <1>8, <1>9 DEF State

LEMMA FittingMayEnter ==
  ASSUME NEW d, Good(d), NEW s \in State, s # d.state,
         s = "OffOnCall" => d.state \in {"On", "OnLocked", "Dim", "OnPuck"},
         s = "Dim" => d.state = "On",
         s = "OffSuspended" => d.state = "Off"
  PROVE  MayEnter(d, s)
  <1>1. LockMatches(d) /\ PanelServed(d) /\ d.displayOn = (d.state \notin Dark)
    BY DEF Good, Ordered, PanelFollows
  <1>2. d.state = "OffSuspended" =>
          d.lock = "Locked" /\ d.displayOn = FALSE /\ PanelServed(d)
    BY <1>1 DEF LockMatches, Dark
  <1> QED BY <1>1, <1>2 DEF MayEnter, LockMatches

(* No handler puts the display out of order, and none opens the lock but   *)
(* that of UnlockScreen.                                                   *)
LEMMA HandleEventGood ==
  ASSUME NEW d, Good(d), NEW ev \in Event
  PROVE  LET e == HandleEvent(d, ev)
         IN  /\ Good(e)
             /\ SameInputs(d, e)
             /\ e.state \in Outcome(Target(d, ev))
             /\ ev # "UnlockScreen" => StaysLocked(d, e)
  <1> DEFINE f == SideEffect(d, ev)
             s == Target(d, ev)
             cause == Cause(d, ev)
             e == ChangeDisplayState(f, s, cause)
  <1>1. HandleEvent(d, ev) = e
    BY DEF HandleEvent
  <1>2. /\ Good(f) /\ SameInputs(d, f) /\ f.state = d.state
        /\ ev # "UnlockScreen" => StaysLocked(d, f)
    BY SideEffectGood
  <1>3. cause \in Event /\ (ev # "UnlockScreen" => cause # "UnlockScreen")
    BY DEF Cause, Good, Ordered, RestoreNoted, Display
  <1>4. s \in State
    BY TargetFits
  <1>5. s # d.state =>
          /\ s = "OffOnCall" => d.state \in {"On", "OnLocked", "Dim", "OnPuck"}
          /\ s = "Dim" => d.state = "On"
          /\ s = "OffSuspended" => d.state = "Off"
    BY TargetFits
  <1> HIDE DEF f, s, cause
  <1>6. s # f.state => MayEnter(f, s)
    BY <1>2, <1>4, <1>5, FittingMayEnter
  <1>7. Entered(f, e, s, cause)
    BY <1>2, <1>3, <1>4, <1>6, ChangeGood
  <1> HIDE DEF e
  <1> QED BY <1>1, <1>2, <1>3, <1>7
          DEF Entered, SameInputs, StaysLocked, IsOnCall, s

LEMMA TimeoutGood ==
  ASSUME NEW d, Good(d), NEW t \in d.timers
  PROVE  LET e == InactivityTimeout(d, t)
         IN  /\ Good(e)
             /\ SameInputs(d, e)
             /\ e.state \in {d.state} \cup Outcome(TimeoutTarget(d, t))
             /\ StaysLocked(d, e)
  <1> DEFINE f == [d EXCEPT !.timers = @ \ {t}]
             s == TimeoutTarget(d, t)
             e == ChangeDisplayState(f, s, "Timeout")
  <1>1. d \in Display /\ TimersBelong(d)
    BY DEF Good, Ordered
  <1>2. f \in Display /\ f.timers = d.timers \ {t} /\ f = [d EXCEPT !.timers = f.timers]
    BY <1>1 DEF Display
  <1> HIDE DEF f
  <1>3. Ordered(f) /\ Same(d, f)
    BY <1>1, <1>2, OtherTimersOrdered DEF Good
  <1>4. TimersBelong(f)
    BY <1>1, <1>2, <1>3 DEF TimersBelong, Same
  <1>5. Good(f) /\ SameInputs(d, f) /\ f.state = d.state /\ f.lock = d.lock
    BY <1>3, <1>4 DEF Good, Same
  <1>6. CASE TimeoutIgnored(d, t)
    <2>1. InactivityTimeout(d, t) = f
      BY <1>6, Zenon DEF InactivityTimeout, f
    <2> QED BY <1>5, <2>1 DEF StaysLocked
  <1>7. CASE ~TimeoutIgnored(d, t)
    <2>1. InactivityTimeout(d, t) = e
      BY <1>7, Zenon DEF InactivityTimeout, f, e, s
    <2>2. t \in TimersOf(d.state) /\ d.state \in State
      BY <1>1 DEF TimersBelong, Display
    <2>3. /\ s \in {"Dim", "OffOnCall", "Off", "DockMode"}
          /\ d.state \in {"On", "OnLocked", "Dim", "OnPuck"}
          /\ s = "Dim" => d.state = "On"
          /\ s = "OffOnCall" => d.state \in {"On", "OnLocked", "Dim", "OnPuck"}
      BY <2>2 DEF TimeoutTarget, SleepTarget, TimersOf, State
    <2> HIDE DEF s
    <2>4. s \in State /\ "Timeout" \in Event
      BY <2>3 DEF State, Event
    <2>5. s # f.state => MayEnter(f, s)
      BY <1>5, <2>3, <2>4, FittingMayEnter
    <2>6. Entered(f, e, s, "Timeout")
      BY <1>5, <2>4, <2>5, ChangeGood
    <2> HIDE DEF e
    <2> QED BY <1>5, <2>1, <2>6
            DEF Entered, SameInputs, StaysLocked, IsOnCall, s
  <1> QED BY <1>6, <1>7

-----------------------------------------------------------------------------
(* Which events lead into the dark.                                        *)

(* Only the proximity sensor makes it dark for a call that nobody makes,   *)
(* and the end of a call is noticed.                                       *)
LEMMA HandleEventDarkForCall ==
  ASSUME NEW d, Good(d), NEW ev \in Event \ {"ProximityOn"},
         DarkForCall(d) \/ ev = "OffCall"
  PROVE  DarkForCall(HandleEvent(d, ev))
  <1> DEFINE s == Target(d, ev)
             e == HandleEvent(d, ev)
  <1>1. SameInputs(d, e) /\ e.state \in Outcome(s)
    BY HandleEventGood
  <1>2. d.state \in State
    BY DEF Good, Ordered, Display
  <1>3. s = "OffOnCall" => IsOnCall(d)
    <2>1. CASE d.state = "Off"
      BY <2>1 DEF Target, OffTarget, KeyTarget, LockedTarget, UnlockedTarget,
                  DockTarget
    <2>2. CASE d.state = "OffOnCall"
      BY <2>2 DEF Target, OffOnCallTarget, UnlockedTarget, DarkForCall
    <2>3. CASE d.state = "On"
      BY <2>3 DEF Target, OnTarget, SleepTarget
    <2>4. CASE d.state = "OnLocked"
      BY <2>4 DEF Target, OnLockedTarget, DockTarget
    <2>5. CASE d.state = "Dim"
      BY <2>5 DEF Target, DimTarget, SleepTarget, UnlockedTarget
    <2>6. CASE d.state = "OnPuck"
      BY <2>6 DEF Target, OnPuckTarget
    <2>7. CASE d.state = "DockMode"
      BY <2>7 DEF Target, DockModeTarget, UnlockedTarget
    <2>8. CASE d.state = "OffSuspended"
      BY <2>8 DEF Target, OffSuspendedTarget, Good, Ordered, RestoreNoted
    <2> QED BY <1>2, <2>1, <2>2, <2>3, <2>4, <2>5, <2>6, <2>7, <2>8 DEF State
  <1> HIDE DEF s, e
  <1>4. e.state = "OffOnCall" => s = "OffOnCall"
    BY <1>1 DEF Outcome
  <1> QED BY <1>1, <1>3, <1>4 DEF DarkForCall, IsOnCall, SameInputs, e

LEMMA TimeoutDarkForCall ==
  ASSUME NEW d, Good(d), NEW t \in d.timers, DarkForCall(d)
  PROVE  DarkForCall(InactivityTimeout(d, t))
  <1> DEFINE s == TimeoutTarget(d, t)
             e == InactivityTimeout(d, t)
  <1>1. SameInputs(d, e) /\ e.state \in {d.state} \cup Outcome(s)
    BY TimeoutGood
  <1>2. t \in Timer
    BY DEF Good, Ordered, Display
  <1>3. s = "OffOnCall" => IsOnCall(d)
    BY <1>2 DEF TimeoutTarget, SleepTarget, Timer
  <1> HIDE DEF s, e
  <1>4. e.state = "OffOnCall" => s = "OffOnCall" \/ d.state = "OffOnCall"
    BY <1>1 DEF Outcome
  <1> QED BY <1>1, <1>3, <1>4 DEF DarkForCall, IsOnCall, SameInputs, e

(* The events that turn a lit panel off. *)
Darkening == {"PowerKeyPress", "SliderClose", "ApiOff", "ProximityOn"}

LEMMA HandleEventStaysLit ==
  ASSUME NEW d, Good(d), NEW ev \in Event \ Darkening, d.state \notin Dark
  PROVE  HandleEvent(d, ev).state \notin Dark
  <1> DEFINE s == Target(d, ev)
             e == HandleEvent(d, ev)
  <1>1. e.state \in Outcome(s)
    BY HandleEventGood
  <1>2. d.state \in {"On", "OnLocked", "Dim", "OnPuck", "DockMode"}
    BY DEF Good, Ordered, Display, State, Dark
  <1>3. s \notin Dark
    <2>1. CASE d.state = "On"
      BY <2>1 DEF Target, OnTarget, Darkening, Dark
    <2>2. CASE d.state = "OnLocked"
      BY <2>2 DEF Target, OnLockedTarget, DockTarget, Darkening, Dark
    <2>3. CASE d.state = "Dim"
      BY <2>3 DEF Target, DimTarget, UnlockedTarget, Darkening, Dark
    <2>4. CASE d.state = "OnPuck"
      BY <2>4 DEF Target, OnPuckTarget, Darkening, Dark
    <2>5. CASE d.state = "DockMode"
      BY <2>5 DEF Target, DockModeTarget, UnlockedTarget, Darkening, Dark
    <2> QED BY <1>2, <2>1, <2>2, <2>3, <2>4, <2>5
  <1> HIDE DEF s, e
  <1>4. e.state \notin Dark
    BY <1>1, <1>3 DEF Outcome, Dark
  <1> QED BY <1>4 DEF e

=============================================================================
