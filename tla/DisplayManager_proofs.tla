------------------------ MODULE DisplayManager_proofs ------------------------
(***************************************************************************)
(* Theorems about the display manager, for every device, every set of      *)
(* clients and every bound.                                                *)
(*                                                                         *)
(* The inductive invariant Inv is TypeOK and, of the display record, Good  *)
(* of DisplayStates_proofs and DarkForCall.  Good is needed as a whole:    *)
(* that the lock state agrees with the state rests on the timers belonging *)
(* to it (only DisplayOn's timer leads to Dim, which sets no lock state),  *)
(* and on what OffSuspended has noted (it resumes to no such state).       *)
(***************************************************************************)
EXTENDS DisplayManager, DisplayStates_proofs, FiniteSetTheorems

Safe(d) == Good(d) /\ DarkForCall(d)

(* The events that do not dim the panel, turn it off, suspend or resume    *)
(* it, and are no request to unlock it.                                    *)
CalmEvent == Event \ (Darkening \cup {"UnlockScreen", "ApiDim", "PowerdSuspend",
                                       "PowerdResume"})

(* From d to e the panel is not newly dimmed, and neither goes to sleep    *)
(* nor comes back; if it is dark for a call it was.                        *)
Steady(d, e) ==
  /\ e.state = "Dim" => d.state = "Dim"
  /\ e.state = "OffSuspended" <=> d.state = "OffSuspended"
  /\ e.state = "OffOnCall" => d.state = "OffOnCall"
  /\ d.state \notin Dark => e.state \notin Dark

(* A handler that comes from d to e is calm if nobody asked it to unlock   *)
(* the screen, to dim it or to turn it off.                                *)
Calm(d, e) ==
  /\ Safe(e)
  /\ IsOnCall(e) <=> IsOnCall(d)
  /\ e.passcode <=> d.passcode
  /\ StaysLocked(d, e)
  /\ Steady(d, e)
  /\ e.state = "OffOnCall" /\ e.lock = "Unlocked" => d.lock = "Unlocked"

LEMMA CalmTwice ==
  ASSUME NEW d, NEW e, NEW f, Calm(d, e), Calm(e, f)
  PROVE  Calm(d, f)
  BY DEF Calm, StaysLocked, Steady

LEMMA CalmNothing ==
  ASSUME NEW d, Safe(d)
  PROVE  Calm(d, d)
  BY DEF Calm, StaysLocked, Steady

LEMMA SameCalm ==
  ASSUME NEW d, NEW e, Safe(d), Good(e), Same(d, e)
  PROVE  Calm(d, e)
  BY DEF Calm, Safe, Same, SameInputs, DarkForCall, IsOnCall, StaysLocked, Steady

(* Where an event leads that is no darkening one: not to Dim, to the dark  *)
(* of a call or to sleep, and not back from sleep.                         *)
LEMMA EventSteady ==
  ASSUME NEW d, Good(d), NEW ev \in Event \ Darkening,
         ev \notin {"ApiDim", "PowerdSuspend", "PowerdResume"}
  PROVE  Steady(d, HandleEvent(d, ev))
  <1> DEFINE s == Target(d, ev)
             e == HandleEvent(d, ev)
  <1>1. e.state \in Outcome(s)
    BY HandleEventGood
  <1>2. d.state \notin Dark => e.state \notin Dark
    BY HandleEventStaysLit
  <1>3. /\ s # d.state =>
             /\ s = "OffOnCall" => d.state \in {"On", "OnLocked", "Dim", "OnPuck"}
             /\ s = "Dim" => d.state = "On"
             /\ s = "OffSuspended" => d.state = "Off"
    BY TargetFits
  <1>4. d.state = "On" => s # "Dim"
    BY DEF Target, OnTarget, SleepTarget, Darkening
  <1>5. d.state = "Off" => s # "OffSuspended"
    BY DEF Target, OffTarget, KeyTarget, LockedTarget, UnlockedTarget, DockTarget
  <1>6. d.state = "OffSuspended" => s = "OffSuspended"
    BY DEF Target, OffSuspendedTarget
  <1> HIDE DEF s, e
  <1>7. Steady(d, e)
    BY <1>1, <1>2, <1>3, <1>4, <1>5, <1>6 DEF Outcome, Steady, Dark
  <1> QED BY <1>7 DEF e

(* In the dark of a call only a request opens the lock.                    *)
LEMMA EventLocksDark ==
  ASSUME NEW d, Good(d), NEW ev \in Event, ev # "UnlockScreen",
         d.state = "OffOnCall", HandleEvent(d, ev).state = "OffOnCall",
         HandleEvent(d, ev).lock = "Unlocked"
  PROVE  d.lock = "Unlocked"
  <1> DEFINE f == SideEffect(d, ev)
             s == Target(d, ev)
  <1>1. HandleEvent(d, ev) = ChangeDisplayState(f, s, Cause(d, ev))
    BY DEF HandleEvent
  <1>2. HandleEvent(d, ev).state \in Outcome(s)
    BY HandleEventGood
  <1>3. f \in {d, SetLock(d, "Locked")}
    BY DEF SideEffect, OffOnCallSideEffect
  <1>4. d \in Display
    BY DEF Good, Ordered
  <1> HIDE DEF s
  <1>5. s = "OffOnCall"
    BY <1>2 DEF Outcome
  <1>6. f.state = "OffOnCall" /\ (f = d \/ f.lock = "Locked")
    BY <1>3, <1>4 DEF SetLock, Display
  <1> HIDE DEF f
  <1>7. HandleEvent(d, ev) = f
    BY <1>1, <1>5, <1>6 DEF ChangeDisplayState
  <1> QED BY <1>6, <1>7

LEMMA EventCalm ==
  ASSUME NEW d, Safe(d), NEW ev \in CalmEvent
  PROVE  Calm(d, HandleEvent(d, ev))
  <1>1. /\ Good(d) /\ DarkForCall(d) /\ ev \in Event /\ ev # "UnlockScreen"
        /\ ev \in Event \ {"ProximityOn"} /\ ev \in Event \ Darkening
        /\ ev \notin {"ApiDim", "PowerdSuspend", "PowerdResume"}
    BY DEF Safe, Darkening, CalmEvent
  <1> DEFINE e == HandleEvent(d, ev)
  <1>2. Good(e) /\ SameInputs(d, e) /\ StaysLocked(d, e)
    BY <1>1, HandleEventGood
  <1>3. DarkForCall(e)
    BY <1>1, HandleEventDarkForCall
  <1>4. Steady(d, e)
    BY <1>1, EventSteady
  <1>5. e.state = "OffOnCall" /\ e.lock = "Unlocked" => d.lock = "Unlocked"
    BY <1>1, <1>4, EventLocksDark DEF Steady
  <1> HIDE DEF e
  <1>6. (IsOnCall(e) <=> IsOnCall(d)) /\ (e.passcode <=> d.passcode)
    BY <1>2 DEF SameInputs, IsOnCall
  <1> QED BY <1>2, <1>3, <1>4, <1>5, <1>6 DEF Calm, Safe, e

-----------------------------------------------------------------------------
(* What a handler may do to the screen that other programs see, unless it  *)
(* suspends or resumes the device: only On and OnPuck are dimmed, sleep is *)
(* kept, and who goes dark for a call does not open the lock by it.        *)
Seen(d, e) ==
  /\ e.state = "Dim" =>
       \/ d.state = "Dim"
       \/ d.state \in {"On", "OnPuck"} /\ (IsOnCall(e) <=> IsOnCall(d))
  /\ e.state = "OffSuspended" <=> d.state = "OffSuspended"
  /\ e.state = "OffOnCall" /\ e.lock = "Unlocked"
       => d.lock = "Unlocked" \/ d.state = "OffOnCall"
  /\ e.passcode <=> d.passcode

LEMMA SteadySeen ==
  ASSUME NEW d, NEW e, Steady(d, e), e.passcode <=> d.passcode
  PROVE  Seen(d, e)
  BY DEF Steady, Seen

LEMMA SeenThenCalm ==
  ASSUME NEW d, NEW e, NEW f, Seen(d, e), Calm(e, f)
  PROVE  Seen(d, f)
  BY DEF Seen, Calm, Steady

(* To enter the dark of a call leaves the lock alone.                      *)
LEMMA EntersWithItsLock ==
  ASSUME NEW d \in Display, NEW s \in State, s # d.state, NEW ev,
         ChangeDisplayState(d, s, ev).state = "OffOnCall",
         s = "OffOnCall"
  PROVE  ChangeDisplayState(d, s, ev).lock = d.lock
  <1> DEFINE a == Leave(d)
             b == [a EXCEPT !.state = "OffOnCall"]
  <1>1. ChangeDisplayState(d, s, ev) = ScreenOff(b)
    BY DEF ChangeDisplayState, Enter, EnterOffOnCall
  <1>2. a \in Display /\ a.lock = d.lock
    BY DEF Leave, StopInactivityTimer, Display, NoRestore, State, Event
  <1> HIDE DEF a
  <1>3. b \in Display /\ b.lock = d.lock
    BY <1>2 DEF Display, State
  <1> HIDE DEF b
  <1>4. ScreenOff(b).lock = b.lock
    BY <1>3 DEF ScreenOff, Display
  <1> QED BY <1>1, <1>3, <1>4

LEMMA EventSeen ==
  ASSUME NEW d, Good(d), NEW ev \in Event \ {"PowerdSuspend", "PowerdResume"}
  PROVE  Seen(d, HandleEvent(d, ev))
  <1> DEFINE f == SideEffect(d, ev)
             s == Target(d, ev)
             e == HandleEvent(d, ev)
  <1>1. Good(e) /\ SameInputs(d, e) /\ e.state \in Outcome(s)
    BY HandleEventGood
  <1>2. /\ s \in State
        /\ s # d.state =>
             /\ s = "OffOnCall" => d.state \in {"On", "OnLocked", "Dim", "OnPuck"}
             /\ s = "Dim" => d.state = "On"
             /\ s = "OffSuspended" => d.state = "Off"
    BY TargetFits
  <1>3. d.state = "Off" => s # "OffSuspended"
    BY DEF Target, OffTarget, KeyTarget, LockedTarget, UnlockedTarget, DockTarget
  <1>4. d.state = "OffSuspended" => s = "OffSuspended"
    BY DEF Target, OffSuspendedTarget
  <1>5. Good(f) /\ f.state = d.state
    BY SideEffectGood
  <1>6. d.state \in {"On", "OnLocked", "Dim", "OnPuck"} => f.lock = d.lock
    <2>1. d \in Display
      BY DEF Good, Ordered
    <2>2. d.state \in {"On", "Dim", "OnPuck"} => d.lock = "Unlocked" /\ f.lock = "Unlocked"
      BY <1>5 DEF Good, Ordered, LockMatches
    <2>3. d.state = "OnLocked" => d.lock = "Locked" /\ f.lock = "Locked"
      BY <1>5 DEF Good, Ordered, LockMatches
    <2> QED BY <2>2, <2>3
  <1>7. e = ChangeDisplayState(f, s, Cause(d, ev))
    BY DEF HandleEvent
  <1> HIDE DEF s, e, f
  <1>8. e.state = "OffOnCall" /\ d.state # "OffOnCall" => e.lock = d.lock
    <2> SUFFICES ASSUME e.state = "OffOnCall", d.state # "OffOnCall"
                 PROVE  e.lock = d.lock
      OBVIOUS
    <2>1. s = "OffOnCall" /\ f \in Display /\ s # f.state
      BY <1>1, <1>5 DEF Outcome, Good, Ordered
    <2>2. e.lock = f.lock
      BY <1>2, <1>7, <2>1, EntersWithItsLock
    <2> QED BY <1>2, <1>6, <2>1, <2>2
  <1>9. (IsOnCall(e) <=> IsOnCall(d)) /\ (e.passcode <=> d.passcode)
    BY <1>1 DEF SameInputs, IsOnCall
  <1>10. Seen(d, e)
    BY <1>1, <1>2, <1>3, <1>4, <1>8, <1>9 DEF Outcome, Seen
  <1> QED BY <1>10 DEF e

LEMMA TimeoutSeen ==
  ASSUME NEW d, Good(d), NEW t \in d.timers
  PROVE  Seen(d, InactivityTimeout(d, t))
  <1> DEFINE f == [d EXCEPT !.timers = @ \ {t}]
             s == TimeoutTarget(d, t)
             e == InactivityTimeout(d, t)
  <1>1. Good(e) /\ SameInputs(d, e) /\ e.state \in {d.state} \cup Outcome(s)
    BY TimeoutGood
  <1>2. t \in TimersOf(d.state) /\ d \in Display
    BY DEF Good, Ordered, TimersBelong
  <1>3. d.state \in {"On", "OnLocked", "Dim", "OnPuck"}
    BY <1>2 DEF TimersOf
  <1>4. /\ s \in {"Dim", "Off", "OffOnCall", "DockMode"}
        /\ s = "Dim" => d.state = "On"
    BY <1>2, <1>3 DEF TimersOf, TimeoutTarget, SleepTarget
  <1>5. f \in Display /\ f.state = d.state /\ f.lock = d.lock
    BY <1>2 DEF Display
  <1>6. e = f \/ e = ChangeDisplayState(f, s, "Timeout")
    BY DEF InactivityTimeout
  <1> HIDE DEF s, f, e
  <1>7. e.state = "OffOnCall" => e.lock = d.lock
    <2> SUFFICES ASSUME e.state = "OffOnCall"
                 PROVE  e.lock = d.lock
      OBVIOUS
    <2>1. e = f => e.lock = d.lock
      BY <1>5
    <2>2. s = "OffOnCall" /\ s # f.state
      BY <1>1, <1>3, <1>5 DEF Outcome
    <2> QED BY <1>5, <1>6, <2>1, <2>2, EntersWithItsLock DEF State
  <1>8. (IsOnCall(e) <=> IsOnCall(d)) /\ (e.passcode <=> d.passcode)
    BY <1>1 DEF SameInputs, IsOnCall
  <1>9. Seen(d, e)
    BY <1>1, <1>3, <1>4, <1>7, <1>8 DEF Outcome, Seen
  <1> QED BY <1>9 DEF e

-----------------------------------------------------------------------------
(* Members that belong to the display manager.                             *)

(* What the states answer for is as it was. *)
SameScreen(d, e) ==
  /\ e.state = d.state
  /\ e.lock = d.lock
  /\ e.timers = d.timers
  /\ e.restore = d.restore
  /\ e.displayOn = d.displayOn
  /\ e.backlight = d.backlight
  /\ e.touch = d.touch
  /\ e.led = d.led

LEMMA ScreenGood ==
  ASSUME NEW d, Good(d), NEW e \in Display, SameScreen(d, e)
  PROVE  Good(e)
  BY DEF Good, Ordered, SameScreen, TimersBelong, LockMatches, PanelFollows,
         PanelServed, RestoreNoted

LEMMA ScreenCalm ==
  ASSUME NEW d, Safe(d), NEW e \in Display, SameScreen(d, e),
         e.onCall = d.onCall, e.proximity = d.proximity, e.passcode = d.passcode
  PROVE  Calm(d, e)
  <1>1. Good(e) /\ e.state = d.state /\ e.lock = d.lock
    BY ScreenGood DEF Safe, SameScreen
  <1>2. IsOnCall(e) <=> IsOnCall(d)
    BY DEF IsOnCall
  <1> QED BY <1>1, <1>2 DEF Calm, Safe, DarkForCall, StaysLocked, Steady

LEMMA NoteCharger ==
  ASSUME NEW d, Safe(d), NEW v \in SUBSET Charger
  PROVE  Calm(d, [d EXCEPT !.charger = v])
  <1> DEFINE e == [d EXCEPT !.charger = v]
  <1>1. d \in Display
    BY DEF Safe, Good, Ordered
  <1>2. /\ e \in Display /\ e.onCall = d.onCall /\ e.proximity = d.proximity
        /\ e.passcode = d.passcode
    BY <1>1 DEF Display
  <1>3. SameScreen(d, e)
    BY <1>1 DEF Display, SameScreen
  <1> HIDE DEF e
  <1>4. Calm(d, e)
    BY <1>2, <1>3, ScreenCalm
  <1> QED BY <1>4 DEF e

LEMMA NoteSlider ==
  ASSUME NEW d, Safe(d), NEW v \in BOOLEAN
  PROVE  Calm(d, [d EXCEPT !.slider = v])
  <1> DEFINE e == [d EXCEPT !.slider = v]
  <1>1. d \in Display
    BY DEF Safe, Good, Ordered
  <1>2. /\ e \in Display /\ e.onCall = d.onCall /\ e.proximity = d.proximity
        /\ e.passcode = d.passcode
    BY <1>1 DEF Display
  <1>3. SameScreen(d, e)
    BY <1>1 DEF Display, SameScreen
  <1> HIDE DEF e
  <1>4. Calm(d, e)
    BY <1>2, <1>3, ScreenCalm
  <1> QED BY <1>4 DEF e

LEMMA NoteBooted ==
  ASSUME NEW d, Safe(d), NEW v \in BOOLEAN
  PROVE  Calm(d, [d EXCEPT !.booted = v])
  <1> DEFINE e == [d EXCEPT !.booted = v]
  <1>1. d \in Display
    BY DEF Safe, Good, Ordered
  <1>2. /\ e \in Display /\ e.onCall = d.onCall /\ e.proximity = d.proximity
        /\ e.passcode = d.passcode
    BY <1>1 DEF Display
  <1>3. SameScreen(d, e)
    BY <1>1 DEF Display, SameScreen
  <1> HIDE DEF e
  <1>4. Calm(d, e)
    BY <1>2, <1>3, ScreenCalm
  <1> QED BY <1>4 DEF e

LEMMA NoteDnast ==
  ASSUME NEW d, Safe(d), NEW v \in Nat
  PROVE  Calm(d, [d EXCEPT !.dnast = v])
  <1> DEFINE e == [d EXCEPT !.dnast = v]
  <1>1. d \in Display
    BY DEF Safe, Good, Ordered
  <1>2. /\ e \in Display /\ e.onCall = d.onCall /\ e.proximity = d.proximity
        /\ e.passcode = d.passcode
    BY <1>1 DEF Display
  <1>3. SameScreen(d, e)
    BY <1>1 DEF Display, SameScreen
  <1> HIDE DEF e
  <1>4. Calm(d, e)
    BY <1>2, <1>3, ScreenCalm
  <1> QED BY <1>4 DEF e

LEMMA NoteOnCall ==
  ASSUME NEW d, Good(d), NEW v \in BOOLEAN
  PROVE  LET e == [d EXCEPT !.onCall = v]
         IN  /\ Good(e) /\ SameScreen(d, e)
             /\ e.onCall = v /\ e.proximity = d.proximity /\ e.passcode = d.passcode
  <1> DEFINE e == [d EXCEPT !.onCall = v]
  <1>1. d \in Display
    BY DEF Good, Ordered
  <1>2. e \in Display /\ e.onCall = v /\ e.proximity = d.proximity /\ e.passcode = d.passcode
    BY <1>1 DEF Display
  <1>3. SameScreen(d, e)
    BY <1>1 DEF Display, SameScreen
  <1> HIDE DEF e
  <1>4. Good(e)
    BY <1>2, <1>3, ScreenGood
  <1> QED BY <1>2, <1>3, <1>4 DEF e

LEMMA NoteProximity ==
  ASSUME NEW d, Good(d), NEW v \in BOOLEAN
  PROVE  LET e == [d EXCEPT !.proximity = v]
         IN  /\ Good(e) /\ SameScreen(d, e)
             /\ e.proximity = v /\ e.onCall = d.onCall /\ e.passcode = d.passcode
  <1> DEFINE e == [d EXCEPT !.proximity = v]
  <1>1. d \in Display
    BY DEF Good, Ordered
  <1>2. e \in Display /\ e.proximity = v /\ e.onCall = d.onCall /\ e.passcode = d.passcode
    BY <1>1 DEF Display
  <1>3. SameScreen(d, e)
    BY <1>1 DEF Display, SameScreen
  <1> HIDE DEF e
  <1>4. Good(e)
    BY <1>2, <1>3, ScreenGood
  <1> QED BY <1>2, <1>3, <1>4 DEF e

LEMMA NotePasscode ==
  ASSUME NEW d, Good(d), NEW v \in BOOLEAN
  PROVE  LET e == [d EXCEPT !.passcode = v]
         IN  /\ Good(e) /\ SameScreen(d, e)
             /\ e.passcode = v /\ e.onCall = d.onCall /\ e.proximity = d.proximity
  <1> DEFINE e == [d EXCEPT !.passcode = v]
  <1>1. d \in Display
    BY DEF Good, Ordered
  <1>2. e \in Display /\ e.passcode = v /\ e.onCall = d.onCall /\ e.proximity = d.proximity
    BY <1>1 DEF Display
  <1>3. SameScreen(d, e)
    BY <1>1 DEF Display, SameScreen
  <1> HIDE DEF e
  <1>4. Good(e)
    BY <1>2, <1>3, ScreenGood
  <1> QED BY <1>2, <1>3, <1>4 DEF e

-----------------------------------------------------------------------------
(* The requests that several handlers make.                                *)

LEMMA RequestsCalm ==
  ASSUME NEW d, Safe(d)
  PROVE  /\ Calm(d, On(d))
         /\ Calm(d, Dock(d))
         /\ Calm(d, Undock(d))
         /\ Calm(d, Lock(d))
  <1>1. Calm(d, d)
    BY CalmNothing
  <1>2. {"ApiOn", "ApiDock", "ApiUndock", "LockScreen"} \subseteq CalmEvent
    BY DEF Event, Darkening, CalmEvent
  <1>3. \A ev \in {"ApiOn", "ApiDock", "ApiUndock", "LockScreen"} :
          Calm(d, HandleEvent(d, ev))
    BY <1>2, EventCalm
  <1> QED BY <1>1, <1>3 DEF On, Dock, Undock, Lock

LEMMA NothingSeen ==
  ASSUME NEW d
  PROVE  Seen(d, d)
  BY DEF Seen

LEMMA DimmedSafe ==
  ASSUME NEW d, Safe(d)
  PROVE  LET e == Dimmed(d)
         IN  /\ Safe(e) /\ SameInputs(d, e) /\ StaysLocked(d, e) /\ Seen(d, e)
             /\ d.state \notin Dark => e.state \notin Dark
  <1> DEFINE e == HandleEvent(d, "ApiDim")
  <1>1. CASE Dimmed(d) = d
    BY <1>1, NothingSeen DEF SameInputs, StaysLocked
  <1>2. CASE Dimmed(d) = e
    <2>1. /\ "ApiDim" \in Event /\ "ApiDim" \in Event \ {"ProximityOn"}
          /\ "ApiDim" \in Event \ Darkening
          /\ "ApiDim" \in Event \ {"PowerdSuspend", "PowerdResume"}
      BY DEF Event, Darkening
    <2>2. Good(e) /\ SameInputs(d, e) /\ StaysLocked(d, e)
      BY <2>1, HandleEventGood DEF Safe
    <2>3. DarkForCall(e) /\ (d.state \notin Dark => e.state \notin Dark) /\ Seen(d, e)
      BY <2>1, HandleEventDarkForCall, HandleEventStaysLit, EventSeen DEF Safe
    <2> QED BY <1>2, <2>2, <2>3 DEF Safe
  <1>3. Dimmed(d) = d \/ Dimmed(d) = e
    BY DEF Dimmed
  <1> QED BY <1>1, <1>2, <1>3

(* With a DNAST held nothing is turned off. *)
LEMMA OffSafe ==
  ASSUME NEW d, Safe(d)
  PROVE  LET e == Off(d)
         IN  /\ Safe(e) /\ SameInputs(d, e) /\ StaysLocked(d, e) /\ Seen(d, e)
             /\ IsDNAST(d) => e = d
  <1>1. CASE Off(d) = d
    BY <1>1, NothingSeen DEF SameInputs, StaysLocked
  <1>2. CASE Off(d) = HandleEvent(d, "ApiOff") /\ ~IsDNAST(d)
    <2>1. /\ "ApiOff" \in Event /\ "ApiOff" \in Event \ {"ProximityOn"}
          /\ "ApiOff" \in Event \ {"PowerdSuspend", "PowerdResume"}
      BY DEF Event
    <2>2. Good(Off(d)) /\ SameInputs(d, Off(d)) /\ StaysLocked(d, Off(d))
      BY <1>2, <2>1, HandleEventGood DEF Safe
    <2>3. DarkForCall(Off(d)) /\ Seen(d, Off(d))
      BY <1>2, <2>1, HandleEventDarkForCall, EventSeen DEF Safe
    <2> QED BY <1>2, <2>2, <2>3 DEF Safe
  <1>3. Off(d) = d \/ (Off(d) = HandleEvent(d, "ApiOff") /\ ~IsDNAST(d))
    BY DEF Off
  <1> QED BY <1>1, <1>2, <1>3

LEMMA UnlockSafe ==
  ASSUME NEW d, Safe(d)
  PROVE  LET e == Unlock(d)
         IN  Safe(e) /\ Steady(d, e) /\ (e.passcode <=> d.passcode)
  <1>1. /\ "UnlockScreen" \in Event /\ "UnlockScreen" \in Event \ {"ProximityOn"}
        /\ "UnlockScreen" \in Event \ Darkening
        /\ "UnlockScreen" \notin {"ApiDim", "PowerdSuspend", "PowerdResume"}
    BY DEF Event, Darkening
  <1>2. Steady(d, Unlock(d))
    BY <1>1, EventSteady DEF Safe, Unlock
  <1> QED BY <1>1, <1>2, HandleEventGood, HandleEventDarkForCall
          DEF Safe, Unlock, SameInputs

LEMMA PushCalm ==
  ASSUME NEW d, Safe(d), NEW up
  PROVE  Calm(d, PushDNAST(d, up))
  <1> DEFINE e == [d EXCEPT !.dnast = @ + 1]
             f == IF e.state \in {"Off", "Dim"} THEN On(e) ELSE e
  <1>1. Calm(d, e)
    <2>1. d.dnast + 1 \in Nat
      BY DEF Safe, Good, Ordered, Display
    <2> QED BY <2>1, NoteDnast
  <1> HIDE DEF e
  <1>2. Safe(e)
    BY <1>1 DEF Calm
  <1>3. Calm(e, f) /\ Good(f)
    BY <1>2, RequestsCalm, CalmNothing DEF Calm, Safe
  <1> HIDE DEF f
  <1>4. Calm(f, StopInactivityTimer(f))
    BY <1>3, TimerStoppedGood, SameCalm DEF Calm
  <1>5. PushDNAST(d, up) = e \/ PushDNAST(d, up) = StopInactivityTimer(f)
    BY DEF PushDNAST, e, f
  <1> QED BY <1>1, <1>3, <1>4, <1>5, CalmTwice

LEMMA PopCalm ==
  ASSUME NEW d, Safe(d)
  PROVE  Calm(d, PopDNAST(d))
  <1> DEFINE e == [d EXCEPT !.dnast = @ - 1]
  <1>1. CASE d.dnast <= 0
    BY <1>1, CalmNothing DEF PopDNAST
  <1>2. CASE ~(d.dnast <= 0)
    <2>1. d.dnast - 1 \in Nat
      BY <1>2 DEF Safe, Good, Ordered, Display
    <2>2. Calm(d, e)
      BY <2>1, NoteDnast
    <2> HIDE DEF e
    <2>3. Safe(e) /\ Ordered(e) /\ e.timers \subseteq TimersOf(e.state)
      BY <2>2 DEF Calm, Safe, Good, TimersBelong
    <2>4. Calm(e, StartInactivityTimer(e))
      BY <2>3, TimerStartedGood, SameCalm
    <2>5. PopDNAST(d) = e \/ PopDNAST(d) = StartInactivityTimer(e)
      BY <1>2 DEF PopDNAST, e
    <2> QED BY <2>2, <2>4, <2>5, CalmTwice
  <1> QED BY <1>1, <1>2

LEMMA AlertsCalm ==
  ASSUME NEW d, Safe(d), alertState \in {"Off", "Dim", "Undefined"}
  PROVE  LET e == BackFromAlert(d)
         IN  /\ Safe(e) /\ (IsOnCall(e) <=> IsOnCall(d)) /\ StaysLocked(d, e)
             /\ e.passcode = d.passcode /\ Seen(d, e)
             /\ IsDNAST(d) => (d.state \notin Dark => e.state \notin Dark)
  <1>1. CASE alertState = "Off"
    <2>1. BackFromAlert(d) = Off(d)
      BY <1>1 DEF BackFromAlert
    <2> QED BY <2>1, OffSafe DEF SameInputs, IsOnCall
  <1>2. CASE alertState = "Dim"
    <2>1. BackFromAlert(d) = Dimmed(d)
      BY <1>2 DEF BackFromAlert
    <2> QED BY <2>1, DimmedSafe DEF SameInputs, IsOnCall
  <1>3. CASE alertState = "Undefined"
    BY <1>3, NothingSeen DEF BackFromAlert, StaysLocked
  <1> QED BY <1>1, <1>2, <1>3

-----------------------------------------------------------------------------
(* The inductive invariant, and what a step may do.                        *)

Inv == TypeOK /\ Safe(display)

(* The actions of UnlockAuthorised and DnastKeepsPanelOn. *)
UnlockAuthorisedStep ==
  /\ display.lock # "Unlocked" /\ display'.lock = "Unlocked"
  /\ display.passcode
  => UnlockRequest \/ IsOnCall(display) \/ IsOnCall(display')

DnastKeepsPanelOnStep ==
  IsDNAST(display) /\ IsDNAST(display') /\ display.displayOn
  => display'.displayOn \/ PowerKeyUp

ScreenStep == [Abstract!ScreenNext]_(Abstract!screenVars)

StepOK ==
  Safe(display)' /\ UnlockAuthorisedStep /\ DnastKeepsPanelOnStep /\ ScreenStep

(* No handler but powerd's signals puts the display to sleep or wakes it.  *)
SleepKept == display'.state = "OffSuspended" <=> display.state = "OffSuspended"

HandlerOK == StepOK /\ SleepKept

(* A display record as the other programs see it: what its face shows, the *)
(* lock agrees with.                                                       *)
LEMMA FaceFits ==
  ASSUME NEW d, Safe(d)
  PROVE  LET f == FaceOf(d.state)
         IN  /\ f \in Abstract!Face
             /\ f # "dark" => d.lock = Abstract!LockOn(f)
             /\ f = "dark" => d.lock = "Locked" \/ (d.lock = "Unlocked" /\ IsOnCall(d))
             /\ f = "dim" <=> d.state = "Dim"
             /\ f = "asleep" <=> d.state = "OffSuspended"
             /\ f = "dark" <=> d.state \in {"Off", "OffOnCall"}
             /\ f = "open" <=> d.state \in {"On", "OnPuck"}
  <1>1. d.state \in State /\ LockMatches(d) /\ DarkForCall(d)
    BY DEF Safe, Good, Ordered, Display
  <1> QED BY <1>1 DEF State, LockMatches, DarkForCall, FaceOf, Abstract!Face,
                      Abstract!Bright, Abstract!LockOn

(* What is seen of a handler is a step of Screen.                          *)
LEMMA SeenScreenStep ==
  ASSUME Safe(display), Safe(display'), Seen(display, display')
  PROVE  ScreenStep
  <1> DEFINE f == FaceOf(display.state)
             g == FaceOf(display'.state)
  <1>1. /\ f \in Abstract!Face
        /\ f # "dark" => display.lock = Abstract!LockOn(f)
        /\ f = "dark" => \/ display.lock = "Locked"
                         \/ display.lock = "Unlocked" /\ IsOnCall(display)
        /\ f = "dim" <=> display.state = "Dim"
        /\ f = "asleep" <=> display.state = "OffSuspended"
        /\ f = "dark" <=> display.state \in {"Off", "OffOnCall"}
        /\ f = "open" <=> display.state \in {"On", "OnPuck"}
    BY FaceFits
  <1>2. /\ g \in Abstract!Face
        /\ g # "dark" => display'.lock = Abstract!LockOn(g)
        /\ g = "dark" => \/ display'.lock = "Locked"
                         \/ display'.lock = "Unlocked" /\ IsOnCall(display')
        /\ g = "dim" <=> display'.state = "Dim"
        /\ g = "asleep" <=> display'.state = "OffSuspended"
        /\ g = "dark" <=> display'.state \in {"Off", "OffOnCall"}
        /\ g = "open" <=> display'.state \in {"On", "OnPuck"}
    BY FaceFits
  <1>3. IsOnCall(display) \in BOOLEAN /\ IsOnCall(display') \in BOOLEAN
    BY DEF IsOnCall
  <1>4. display'.passcode = display.passcode
    BY DEF Seen, Safe, Good, Ordered, Display
  <1>5. DarkForCall(display) /\ LockMatches(display) /\ LockMatches(display')
    BY DEF Safe, Good, Ordered
  <1>6. (f = "asleep") <=> (g = "asleep")
    BY <1>1, <1>2 DEF Seen
  <1> USE DEF ScreenStep, Abstract!ScreenNext
  <1>7. CASE g \in Abstract!Bright
    <2>1. Abstract!Show(g)
      BY <1>2, <1>3, <1>4, <1>6, <1>7 DEF Abstract!Show, Abstract!Bright
    <2> QED BY <1>7, <2>1
  <1>8. CASE g = "dim"
    <2>1. CASE f = "dim"
      <3>1. Abstract!CallChanges
        BY <1>1, <1>2, <1>3, <1>4, <1>8, <2>1 DEF Abstract!CallChanges
      <3> QED BY <3>1
    <2>2. CASE f = "open" /\ (IsOnCall(display') <=> IsOnCall(display))
      <3>1. Abstract!Dim
        BY <1>2, <1>3, <1>4, <1>8, <2>2 DEF Abstract!Dim
      <3> QED BY <3>1
    <2> QED BY <1>1, <1>2, <1>8, <2>1, <2>2 DEF Seen
  <1>9. CASE g = "asleep"
    <2>1. Abstract!CallChanges
      BY <1>1, <1>2, <1>3, <1>4, <1>6, <1>9 DEF Abstract!CallChanges
    <2> QED BY <2>1
  <1>10. CASE g = "dark"
    <2>1. CASE f = "dark"
      <3>1. display'.lock = "Unlocked" =>
              IsOnCall(display) /\ IsOnCall(display')
        <4>1. display'.lock = "Unlocked" => display'.state = "OffOnCall"
          BY <1>2, <1>5, <1>10 DEF LockMatches
        <4> QED BY <1>1, <1>2, <1>5, <1>10, <2>1, <4>1 DEF Seen, DarkForCall
      <3>2. Abstract!StayDark
        BY <1>2, <1>3, <1>4, <1>10, <2>1, <3>1 DEF Abstract!StayDark
      <3> QED BY <3>2
    <2>2. CASE f \in Abstract!Bright \cup {"dim"}
      <3>1. display'.lock = "Unlocked" => display.lock = "Unlocked"
        <4>1. display'.lock = "Unlocked" => display'.state = "OffOnCall"
          BY <1>2, <1>5, <1>10 DEF LockMatches
        <4>2. display.state # "OffOnCall"
          BY <1>1, <2>2 DEF Abstract!Bright
        <4> QED BY <4>1, <4>2 DEF Seen
      <3>2. Abstract!Darken
        BY <1>2, <1>3, <1>4, <1>10, <2>2, <3>1 DEF Abstract!Darken
      <3> QED BY <3>2
    <2> QED BY <1>1, <1>6, <1>10, <2>1, <2>2 DEF Abstract!Face
  <1> QED BY <1>2, <1>7, <1>8, <1>9, <1>10 DEF Abstract!Face

(* What the display is wanted for is what its state says. *)
LEMMA WantedByState ==
  ASSUME NEW d, Good(d)
  PROVE  d.displayOn <=> d.state \notin Dark
  BY DEF Good, Ordered, PanelFollows, Display

LEMMA CalmStepOK ==
  ASSUME Safe(display), Calm(display, display')
  PROVE  HandlerOK
  <1>1. Safe(display') /\ Good(display') /\ Good(display)
    BY DEF Calm, Safe
  <1>2. UnlockAuthorisedStep
    BY DEF Calm, StaysLocked, UnlockAuthorisedStep
  <1>3. DnastKeepsPanelOnStep
    BY <1>1, WantedByState DEF Calm, Steady, DnastKeepsPanelOnStep
  <1>4. ScreenStep
    BY <1>1, SteadySeen, SeenScreenStep DEF Calm
  <1>5. SleepKept
    BY DEF Calm, Steady, SleepKept
  <1> QED BY <1>1, <1>2, <1>3, <1>4, <1>5 DEF HandlerOK, StepOK

LEMMA UnchangedStepOK ==
  ASSUME Safe(display), UNCHANGED display
  PROVE  HandlerOK
  BY CalmNothing, CalmStepOK

-----------------------------------------------------------------------------
(* One lemma per handler: the display part of Inv, and the two actions.    *)

LEMMA ExpireTimerOK ==
  ASSUME Safe(display), NEW t \in Timer, ExpireTimer(t)
  PROVE  HandlerOK
  <1> DEFINE e == InactivityTimeout(display, t)
  <1>1. t \in display.timers /\ display' = e
    BY DEF ExpireTimer, Becomes
  <1>2. Good(e) /\ StaysLocked(display, e) /\ Good(display)
    BY <1>1, TimeoutGood DEF Safe
  <1>3. DarkForCall(e) /\ Seen(display, e)
    BY <1>1, TimeoutDarkForCall, TimeoutSeen DEF Safe
  <1>4. IsDNAST(display) => e = [display EXCEPT !.timers = @ \ {t}]
    BY DEF InactivityTimeout, TimeoutIgnored
  <1>5. IsDNAST(display) => e.displayOn = display.displayOn
    BY <1>4 DEF Safe, Good, Ordered, Display
  <1> HIDE DEF e
  <1>6. UnlockAuthorisedStep /\ DnastKeepsPanelOnStep
    BY <1>1, <1>2, <1>5
       DEF UnlockAuthorisedStep, DnastKeepsPanelOnStep, StaysLocked
  <1>7. Safe(display')
    BY <1>1, <1>2, <1>3 DEF Safe
  <1>8. ScreenStep
    BY <1>1, <1>3, <1>7, SeenScreenStep
  <1>9. SleepKept
    BY <1>1, <1>3 DEF Seen, SleepKept
  <1> QED BY <1>6, <1>7, <1>8, <1>9 DEF HandlerOK, StepOK

LEMMA BacklightDoneOK ==
  ASSUME Safe(display), BacklightDone
  PROVE  HandlerOK
  <1>1. PICK rest \in {display.led, Tail(display.led)} :
          LET d == [display EXCEPT !.led = rest]
          IN  display' = IF Head(display.led) THEN BacklightOnCallback(d)
                                              ELSE BacklightOffCallback(d)
    BY DEF BacklightDone, Becomes
  <1> DEFINE d == [display EXCEPT !.led = rest]
  <1>2. /\ display \in Display /\ display.led \in Seq(BOOLEAN) /\ display.led # <<>>
        /\ PanelServed(display)
    BY DEF Safe, Good, Ordered, PanelFollows, Display, BacklightDone
  <1>3. /\ rest \in Seq(BOOLEAN)
        /\ rest # <<>> => rest[Len(rest)] = display.led[Len(display.led)]
        /\ rest = <<>> => Head(display.led) = display.led[Len(display.led)]
    <2> DEFINE q == display.led
    <2>1. q \in Seq(BOOLEAN) /\ Len(q) \in Nat \ {0} /\ q # <<>>
      BY <1>2, EmptySeq
    <2>2. /\ Tail(q) \in Seq(BOOLEAN) /\ Len(Tail(q)) = Len(q) - 1
          /\ \A i \in 1 .. Len(Tail(q)) : Tail(q)[i] = q[i + 1]
      BY <2>1, HeadTailProperties
    <2>3. Tail(q) # <<>> => Tail(q)[Len(Tail(q))] = q[Len(q)]
      <3> HIDE DEF q
      <3>1. Tail(q) # <<>> => Len(q) - 1 \in 1 .. Len(Tail(q))
        BY <2>1, <2>2, EmptySeq
      <3>2. (Len(q) - 1) + 1 = Len(q)
        BY <2>1
      <3> QED BY <2>2, <3>1, <3>2
    <2>4. Tail(q) = <<>> => Head(q) = q[Len(q)]
      <3>1. Tail(q) = <<>> => Len(q) = 1
        <4>1. Tail(q) = <<>> => Len(Tail(q)) = 0
          BY Zenon, EmptySeq
        <4> QED BY <2>1, <2>2, <4>1
      <3> QED BY <2>1, <3>1
    <2> QED BY <2>1, <2>2, <2>3, <2>4
  <1>4. Head(display.led) \in BOOLEAN
    BY <1>2
  <1>5. /\ display'.state = display.state /\ display'.lock = display.lock
        /\ display'.timers = display.timers /\ display'.restore = display.restore
        /\ display'.displayOn = display.displayOn /\ display'.led = rest
    BY <1>1, <1>2 DEF Display, BacklightOnCallback, BacklightOffCallback
  <1>6. SameInputs(display, display')
    BY <1>1, <1>2 DEF Display, BacklightOnCallback, BacklightOffCallback, SameInputs
  <1>7. display' \in Display
    <2>1. d \in Display
      BY <1>2, <1>3 DEF Display
    <2> HIDE DEF d
    <2>2. CASE Head(display.led)
      <3>1. display' = BacklightOnCallback(d)
        BY <1>1, <2>2 DEF d
      <3>2. (d.touch \/ (HasTouchpanel /\ d.displayOn)) \in BOOLEAN
        OBVIOUS
      <3> QED BY <2>1, <3>1, <3>2 DEF BacklightOnCallback, Display
    <2>3. CASE ~Head(display.led)
      <3>1. display' = BacklightOffCallback(d)
        BY <1>1, <2>3 DEF d
      <3> QED BY <2>1, <3>1 DEF BacklightOffCallback, Display
    <2> QED BY <2>2, <2>3
  <1>8. /\ display'.backlight = Head(display.led)
        /\ HasTouchpanel => display'.touch =
             (display.touch \/ (Head(display.led) /\ display.displayOn))
    BY <1>1, <1>2, <1>4 DEF Display, BacklightOnCallback, BacklightOffCallback
  <1>9. PanelServed(display')
    <2>1. CASE HasTouchpanel
      <3>1. display.touch \in BOOLEAN /\ display.displayOn \in BOOLEAN
        BY <1>2 DEF Display
      <3>2. /\ display.touch => display.displayOn
            /\ display.led[Len(display.led)] = display.displayOn
        BY <1>2, <2>1 DEF PanelServed
      <3>3. display'.touch => display'.displayOn
        BY <1>5, <1>8, <2>1, <3>1, <3>2
      <3>4. CASE rest = <<>>
        <4>1. Head(display.led) = display.displayOn
          BY <1>3, <3>2, <3>4
        <4>2. display'.touch = display.displayOn
          BY <1>8, <2>1, <3>1, <3>2, <4>1
        <4> QED BY <1>5, <1>8, <3>3, <3>4, <4>1, <4>2 DEF PanelServed
      <3>5. CASE rest # <<>>
        BY <1>3, <1>5, <3>2, <3>3, <3>5 DEF PanelServed
      <3> QED BY <3>4, <3>5
    <2>2. CASE ~HasTouchpanel
      BY <2>2 DEF PanelServed
    <2> QED BY <2>1, <2>2
  <1>10. Good(display')
    BY <1>5, <1>7, <1>9 DEF Safe, Good, Ordered, TimersBelong, LockMatches,
                            PanelFollows, RestoreNoted
  <1>11. Calm(display, display')
    BY <1>5, <1>6, <1>10, SameCalm DEF Same
  <1> QED BY <1>11, CalmStepOK

LEMMA PowerKeyUpOK ==
  ASSUME Safe(display), PowerKeyUp
  PROVE  HandlerOK
  <1> DEFINE e == HandleEvent(display, "PowerKeyPress")
  <1>1. /\ "PowerKeyPress" \in Event /\ "PowerKeyPress" \in Event \ {"ProximityOn"}
        /\ "PowerKeyPress" \in Event \ {"PowerdSuspend", "PowerdResume"}
        /\ "PowerKeyPress" # "UnlockScreen"
    BY DEF Event
  <1>2. Good(e) /\ StaysLocked(display, e) /\ DarkForCall(e) /\ Seen(display, e)
    BY <1>1, HandleEventGood, HandleEventDarkForCall, EventSeen DEF Safe
  <1>3. display' = display \/ display' = e
    BY DEF PowerKeyUp, Becomes
  <1> HIDE DEF e
  <1>4. UnlockAuthorisedStep /\ DnastKeepsPanelOnStep
    BY <1>2, <1>3 DEF UnlockAuthorisedStep, DnastKeepsPanelOnStep, StaysLocked
  <1>5. Safe(display')
    BY <1>2, <1>3 DEF Safe
  <1>6. ScreenStep
    BY <1>2, <1>3, <1>5, NothingSeen, SeenScreenStep
  <1>7. SleepKept
    BY <1>2, <1>3 DEF Seen, SleepKept
  <1> QED BY <1>4, <1>5, <1>6, <1>7 DEF HandlerOK, StepOK

LEMMA EventStepOK ==
  ASSUME Safe(display), NEW ev \in CalmEvent,
         display' = HandleEvent(display, ev)
  PROVE  HandlerOK
  BY EventCalm, CalmStepOK

LEMMA UnlockRequestOK ==
  ASSUME Safe(display), UnlockRequest
  PROVE  HandlerOK
  <1>1. UnlockAuthorisedStep
    BY DEF UnlockAuthorisedStep
  <1>2. PICK d \in {display, On(display)} : display' = Unlock(d)
    BY DEF UnlockRequest, SetState, SetLockStatus, BluetoothKeyboardActive, Becomes
  <1>3. Safe(d) /\ Steady(display, d) /\ (d.passcode <=> display.passcode)
    BY <1>2, RequestsCalm, CalmNothing DEF Calm
  <1>4. /\ Safe(display') /\ Steady(d, display')
        /\ display'.passcode <=> d.passcode
    BY <1>2, <1>3, UnlockSafe
  <1>5. DnastKeepsPanelOnStep
    <2>1. (display.displayOn <=> display.state \notin Dark)
          /\ (display'.displayOn <=> display'.state \notin Dark)
      BY <1>4, WantedByState DEF Safe
    <2> QED BY <1>3, <1>4, <2>1 DEF DnastKeepsPanelOnStep, Steady
  <1>6. ScreenStep
    <2>1. Steady(display, display')
      BY <1>3, <1>4 DEF Steady
    <2> QED BY <1>3, <1>4, <2>1, SteadySeen, SeenScreenStep
  <1>7. SleepKept
    BY <1>3, <1>4 DEF Steady, SleepKept
  <1> QED BY <1>1, <1>4, <1>5, <1>6, <1>7 DEF HandlerOK, StepOK

(* What remains of a step once it is clear what became of the display: it  *)
(* was turned off only if no DNAST is held.                                *)
LEMMA OffStepOK ==
  ASSUME Safe(display), Safe(display'), StaysLocked(display, display'),
         Seen(display, display'),
         IsDNAST(display) =>
           (display.state \notin Dark => display'.state \notin Dark)
  PROVE  HandlerOK
  <1>1. (display.displayOn <=> display.state \notin Dark)
        /\ (display'.displayOn <=> display'.state \notin Dark)
    BY WantedByState DEF Safe
  <1>2. ScreenStep
    BY SeenScreenStep
  <1>3. SleepKept
    BY DEF Seen, SleepKept
  <1> QED BY <1>1, <1>2, <1>3
          DEF HandlerOK, StepOK, UnlockAuthorisedStep, DnastKeepsPanelOnStep, StaysLocked

LEMMA SetStateOK ==
  ASSUME Safe(display), NEW value \in {"on", "dimmed", "off", "dock", "undock"},
         SetState(value)
  PROVE  HandlerOK
  <1>1. CASE value = "off"
    <2>1. display' = Off(display)
      BY <1>1 DEF SetState, Becomes
    <2>2. /\ Safe(display') /\ StaysLocked(display, display')
          /\ Seen(display, display')
          /\ IsDNAST(display) => display' = display
      BY <2>1, OffSafe
    <2> QED BY <2>2, OffStepOK
  <1>2. CASE value = "dimmed"
    <2>1. display' = Dimmed(display)
      BY <1>2 DEF SetState, Becomes
    <2> QED BY <2>1, DimmedSafe, OffStepOK
  <1>3. CASE value \notin {"off", "dimmed"}
    <2>1. display' \in {display, On(display), Dock(display), Undock(display)}
      BY <1>3 DEF SetState, Becomes
    <2>2. Calm(display, display')
      BY <2>1, RequestsCalm, CalmNothing
    <2> QED BY <2>2, CalmStepOK
  <1> QED BY <1>1, <1>2, <1>3

LEMMA GenericDeactivatedOK ==
  ASSUME Safe(display), alertState \in {"Off", "Dim", "Undefined"},
         GenericDeactivated
  PROVE  HandlerOK
  <1>1. display' = display \/ display' = BackFromAlert(display)
    BY DEF GenericDeactivated, Becomes
  <1>2. CASE display' = display
    BY <1>2, UnchangedStepOK
  <1>3. CASE display' = BackFromAlert(display)
    BY <1>3, AlertsCalm, OffStepOK
  <1> QED BY <1>1, <1>2, <1>3

LEMMA AlertOK ==
  ASSUME Safe(display), alertState \in {"Off", "Dim", "Undefined"}, Alert
  PROVE  HandlerOK
  <1>1. CASE GenericActivated
    <2>1. Calm(display, display')
      BY <1>1, RequestsCalm, CalmNothing DEF GenericActivated, Becomes
    <2> QED BY <2>1, CalmStepOK
  <1>2. CASE PhonecallActivated
    <2>1. display' = display \/ display' = HandleEvent(display, "IncomingCall")
      BY <1>2 DEF PhonecallActivated, Becomes
    <2>2. "IncomingCall" \in CalmEvent
      BY DEF Event, Darkening, CalmEvent
    <2> QED BY <2>1, <2>2, UnchangedStepOK, EventStepOK
  <1>3. CASE PhonecallDeactivated
    <2> DEFINE d == BackFromAlert(display)
               e == HandleEvent(d, "IncomingCallDone")
    <2>1. display' = display \/ display' = e
      BY <1>3 DEF PhonecallDeactivated, Becomes
    <2>2. /\ Safe(d) /\ (IsOnCall(d) <=> IsOnCall(display)) /\ StaysLocked(display, d)
          /\ d.passcode = display.passcode /\ Seen(display, d)
          /\ IsDNAST(display) => (display.state \notin Dark => d.state \notin Dark)
      BY AlertsCalm
    <2>3. "IncomingCallDone" \in CalmEvent
      BY DEF Event, Darkening, CalmEvent
    <2> HIDE DEF d
    <2>4. Calm(d, e)
      BY <2>2, <2>3, EventCalm
    <2> HIDE DEF e
    <2>5. Safe(e) /\ StaysLocked(display, e)
      BY <2>2, <2>4 DEF Calm, StaysLocked
    <2>6. IsDNAST(display) => (display.state \notin Dark => e.state \notin Dark)
      BY <2>2, <2>4 DEF Calm, Steady
    <2>7. Seen(display, e)
      BY <2>2, <2>4, SeenThenCalm
    <2> QED BY <2>1, <2>5, <2>6, <2>7, UnchangedStepOK, OffStepOK
  <1>4. CASE GenericDeactivated
    BY <1>4, GenericDeactivatedOK
  <1>5. CASE CancelAlert
    BY <1>5, UnchangedStepOK DEF CancelAlert
  <1> QED BY <1>1, <1>2, <1>3, <1>4, <1>5 DEF Alert

(* A handler that has been calm up to m ends by turning the sensor on or   *)
(* off, or by noting a call: state and lock are those of m.                *)
LEMMA CallStepOK ==
  ASSUME Safe(display), NEW m, Calm(display, m), Good(display'),
         DarkForCall(display'), display'.state = m.state, display'.lock = m.lock,
         display'.passcode = m.passcode
  PROVE  HandlerOK
  <1>1. /\ display.displayOn <=> display.state \notin Dark
        /\ display'.displayOn <=> display'.state \notin Dark
    BY WantedByState DEF Safe
  <1>2. ScreenStep
    <2>1. Steady(display, display') /\ (display'.passcode <=> display.passcode)
      BY DEF Calm, Steady
    <2> QED BY <2>1, SteadySeen, SeenScreenStep DEF Safe
  <1>3. SleepKept
    BY DEF Calm, Steady, SleepKept
  <1> QED BY <1>1, <1>2, <1>3 DEF HandlerOK, StepOK, Safe, Calm, Steady, UnlockAuthorisedStep,
                            DnastKeepsPanelOnStep, StaysLocked

LEMMA BrightnessCalm ==
  ASSUME NEW d, Safe(d)
  PROVE  Calm(d, SetMaximumBrightness(d))
  <1>1. CASE d.state \in {"On", "OnPuck", "DockMode"}
    <2> DEFINE e == [d EXCEPT !.led = Request(@, TRUE)]
    <2>1. SetMaximumBrightness(d) = e
      BY <1>1 DEF SetMaximumBrightness
    <2>2. d \in Display /\ d.displayOn = TRUE
      BY <1>1 DEF Safe, Good, Ordered, PanelFollows, Dark
    <2>3. e = ScreenOn(d)
      BY <2>2 DEF ScreenOn, Display
    <2>4. Good(ScreenOn(d)) /\ Same(d, ScreenOn(d))
      BY <1>1, LitGood DEF Safe, Dark
    <2> HIDE DEF e
    <2> QED BY <2>1, <2>3, <2>4, SameCalm
  <1>2. CASE d.state \notin {"On", "OnPuck", "DockMode"}
    <2>1. SetMaximumBrightness(d) = HandleEvent(d, "UpdateBrightness")
      BY <1>2 DEF SetMaximumBrightness
    <2>2. "UpdateBrightness" \in CalmEvent
      BY DEF Event, Darkening, CalmEvent
    <2> QED BY <2>1, <2>2, EventCalm
  <1> QED BY <1>1, <1>2

LEMMA SetPropertyOK ==
  ASSUME Safe(display), NEW c, NEW asks, NEW timeout \in BOOLEAN, NEW on \in BOOLEAN,
         NEW bright \in BOOLEAN, NEW stored \in BOOLEAN, NEW works \in BOOLEAN,
         SetProperty(c, asks, timeout, on, bright, stored, works)
  PROVE  HandlerOK
  <1> DEFINE kept == IF stored THEN asks ELSE asks \ {"proximityEnabled"}
             d1 == IF "requestBlock" \in asks THEN PushDNAST(display, online)
                                              ELSE display
             d2 == IF timeout THEN SetTimeout(d1) ELSE d1
             d3 == IF stored THEN SetOnWhenConnected(d2, on) ELSE d2
             d4 == IF stored /\ bright THEN SetMaximumBrightness(d3) ELSE d3
  <1>1. display' = d4 \/ display' = [d4 EXCEPT !.proximity = TRUE]
    BY DEF SetProperty, Becomes, ProximityOn
  <1>2. Calm(display, d1)
    BY PushCalm, CalmNothing
  <1> HIDE DEF d1
  <1>3. Calm(d1, d2)
    <2>1. Safe(d1) /\ Ordered(d1) /\ d1.timers \subseteq TimersOf(d1.state)
      BY <1>2 DEF Calm, Safe, Good, TimersBelong
    <2>2. Calm(d1, SetTimeout(d1))
      BY <2>1, TimerStartedGood, SameCalm DEF SetTimeout
    <2> QED BY <2>1, <2>2, CalmNothing
  <1> HIDE DEF d2
  <1>4. Calm(d2, d3)
    <2>1. Safe(d2)
      BY <1>3 DEF Calm
    <2>2. SetOnWhenConnected(d2, on) \in {d2, PushDNAST(d2, online), PopDNAST(d2)}
      BY DEF SetOnWhenConnected
    <2> QED BY <2>1, <2>2, PushCalm, PopCalm, CalmNothing
  <1> HIDE DEF d3
  <1>5. Calm(d3, d4)
    <2>1. Safe(d3)
      BY <1>4 DEF Calm
    <2> QED BY <2>1, BrightnessCalm, CalmNothing
  <1> HIDE DEF d4
  <1>6. Calm(display, d4)
    <2>1. Calm(display, d2)
      BY <1>2, <1>3, CalmTwice
    <2>2. Calm(display, d3)
      BY <1>4, <2>1, CalmTwice
    <2> QED BY <1>5, <2>2, CalmTwice
  <1>7. CASE display' = d4
    BY <1>6, <1>7, CalmStepOK
  <1>8. CASE display' = [d4 EXCEPT !.proximity = TRUE]
    <2>1. Good(d4) /\ DarkForCall(d4)
      BY <1>6 DEF Calm, Safe
    <2>2. /\ Good(display') /\ SameScreen(d4, display')
          /\ display'.proximity = TRUE /\ display'.passcode = d4.passcode
      BY <1>8, <2>1, NoteProximity
    <2>3. DarkForCall(display')
      BY <2>2 DEF DarkForCall, IsOnCall
    <2> QED BY <1>6, <2>2, <2>3, CallStepOK DEF SameScreen
  <1> QED BY <1>1, <1>7, <1>8

LEMMA CancelSubscriptionOK ==
  ASSUME Safe(display), NEW c, NEW works \in BOOLEAN, CancelSubscription(c, works)
  PROVE  HandlerOK
  <1> DEFINE m == IF "requestBlock" \in held[c] THEN PopDNAST(display) ELSE display
             off == [m EXCEPT !.proximity = FALSE]
  <1>1. display' = m \/ (display' = off /\ m.state # "OffOnCall")
    BY DEF CancelSubscription, Becomes, ProximityReleased
  <1>2. Calm(display, m)
    BY PopCalm, CalmNothing
  <1> HIDE DEF m
  <1>3. CASE display' = m
    BY <1>2, <1>3, CalmStepOK
  <1>4. CASE display' = off /\ m.state # "OffOnCall"
    <2>1. Good(m)
      BY <1>2 DEF Calm, Safe
    <2>2. /\ Good(display') /\ SameScreen(m, display')
          /\ display'.passcode = m.passcode
      BY <1>4, <2>1, NoteProximity
    <2>3. DarkForCall(display')
      BY <1>4, <2>2 DEF DarkForCall, SameScreen
    <2> QED BY <1>2, <2>2, <2>3, CallStepOK DEF SameScreen
  <1> QED BY <1>1, <1>3, <1>4

LEMMA AudiodCallbackOK ==
  ASSUME Safe(display), NEW headset \in BOOLEAN, NEW inCall \in BOOLEAN,
         AudiodCallback(headset, inCall)
  PROVE  HandlerOK
  <1> DEFINE d == IF headset THEN HandleEvent(display, "UserActivity") ELSE display
             e == [d EXCEPT !.onCall = inCall]
             f == HandleEvent(e, "OffCall")
  <1>1. display' = IF inCall = d.onCall THEN d
                   ELSE IF inCall THEN HandleEvent(e, "OnCall")
                   ELSE HandleEvent(f, "AlsChange")
    BY DEF AudiodCallback, Becomes
  <1>2. {"UserActivity", "OnCall", "AlsChange", "OffCall"}
          \subseteq CalmEvent
    BY DEF Event, Darkening, CalmEvent
  <1>3. Calm(display, d)
    BY <1>2, EventCalm, CalmNothing
  <1> HIDE DEF d
  <1>4. /\ Good(e) /\ SameScreen(d, e) /\ e.onCall = inCall
        /\ e.proximity = d.proximity /\ e.passcode = d.passcode
    BY <1>3, NoteOnCall DEF Calm, Safe
  <1> HIDE DEF e
  <1>5. CASE inCall = d.onCall
    BY <1>1, <1>3, <1>5, CalmStepOK
  <1>6. CASE inCall # d.onCall /\ inCall
    <2>1. DarkForCall(e)
      BY <1>4, <1>6 DEF DarkForCall, IsOnCall
    <2>2. Calm(e, display')
      BY <1>1, <1>2, <1>4, <1>6, <2>1, EventCalm DEF Safe
    <2>3. IsOnCall(display')
      BY <1>4, <1>6, <2>2 DEF Calm, IsOnCall
    <2>4. /\ display.displayOn <=> display.state \notin Dark
          /\ display'.displayOn <=> display'.state \notin Dark
      BY <2>2, WantedByState DEF Safe, Calm
    <2>5. Steady(display, display') /\ (display'.passcode <=> display.passcode)
      BY <1>3, <1>4, <2>2 DEF Calm, Steady, SameScreen
    <2>6. ScreenStep
      BY <2>2, <2>5, SteadySeen, SeenScreenStep DEF Calm
    <2> QED BY <2>2, <2>3, <2>4, <2>5, <2>6
            DEF HandlerOK, StepOK, SleepKept, Calm, Steady, UnlockAuthorisedStep,
                DnastKeepsPanelOnStep
  <1>7. CASE inCall # d.onCall /\ ~inCall
    <2>1. d.onCall = TRUE
      BY <1>3, <1>7 DEF Calm, Safe, Good, Ordered, Display
    <2>2. IsOnCall(display)
      BY <1>3, <2>1 DEF Calm, IsOnCall
    <2>3. /\ "OffCall" \in Event /\ "OffCall" \in Event \ {"ProximityOn"}
          /\ "OffCall" \in Event \ Darkening
          /\ "OffCall" \notin {"ApiDim", "PowerdSuspend", "PowerdResume"}
      BY DEF Event, Darkening, CalmEvent
    <2>4. Good(f) /\ DarkForCall(f) /\ Steady(e, f) /\ SameInputs(e, f)
      BY <1>4, <2>3, HandleEventGood, HandleEventDarkForCall, EventSteady
    <2> HIDE DEF f
    <2>5. Calm(f, display')
      BY <1>1, <1>2, <1>7, <2>4, EventCalm DEF Safe
    <2>6. /\ display.displayOn <=> display.state \notin Dark
          /\ display'.displayOn <=> display'.state \notin Dark
      BY <2>5, WantedByState DEF Safe, Calm
    <2>7. Steady(display, display') /\ (display'.passcode <=> display.passcode)
      BY <1>3, <1>4, <2>4, <2>5 DEF Calm, Steady, SameScreen, SameInputs
    <2>8. ScreenStep
      BY <2>5, <2>7, SteadySeen, SeenScreenStep DEF Calm
    <2> QED BY <2>2, <2>5, <2>6, <2>7, <2>8
            DEF HandlerOK, StepOK, SleepKept, Calm, Steady, UnlockAuthorisedStep,
                DnastKeepsPanelOnStep
  <1> QED BY <1>5, <1>6, <1>7

LEMMA ChargerEventCalm ==
  ASSUME NEW d, Safe(d), NEW c \in Charger, NEW connected \in BOOLEAN
  PROVE  Calm(d, ChargerEvent(d, c, connected))
  <1>1. {"UsbIn", "UsbOut", "OnPuck", "OffPuck"}
          \subseteq CalmEvent
    BY DEF Event, Darkening, CalmEvent
  <1>2. PICK e \in {d, PushDNAST(d, online), PopDNAST(d)},
             ev \in {"UsbIn", "UsbOut", "OnPuck", "OffPuck"} :
          ChargerEvent(d, c, connected) = HandleEvent(e, ev)
    BY DEF ChargerEvent, Charger
  <1>3. Calm(d, e)
    BY PushCalm, PopCalm, CalmNothing
  <1>4. Calm(e, HandleEvent(e, ev))
    BY <1>1, <1>3, EventCalm DEF Calm
  <1> QED BY <1>2, <1>3, <1>4, CalmTwice

LEMMA BrightnessUpdatedCalm ==
  ASSUME NEW d, NEW e, Calm(d, e)
  PROVE  Calm(d, HandleEvent(e, "UpdateBrightness"))
  <1>1. "UpdateBrightness" \in CalmEvent
    BY DEF Event, Darkening, CalmEvent
  <1>2. Calm(e, HandleEvent(e, "UpdateBrightness"))
    BY <1>1, EventCalm DEF Calm
  <1> QED BY <1>2, CalmTwice

LEMMA ChargersAttached ==
  ASSUME NEW v \in SUBSET Charger, NEW c \in Charger, NEW connected
  PROVE  Attach(v, c, connected) \in SUBSET Charger
  BY DEF Attach

LEMMA ChargerCallbackOK ==
  ASSUME Safe(display), NEW c \in Charger, NEW connected \in BOOLEAN,
         ChargerCallback(c, connected)
  PROVE  HandlerOK
  <1> DEFINE new == Attach(display.charger, c, connected)
             d == [display EXCEPT !.charger = new]
             e == IF new = display.charger THEN d ELSE ChargerEvent(d, c, connected)
  <1>1. display' = HandleEvent(e, "UpdateBrightness")
    BY DEF ChargerCallback, Becomes
  <1>2. new \in SUBSET Charger
    BY ChargersAttached DEF Safe, Good, Ordered, Display
  <1> HIDE DEF new
  <1>3. Calm(display, d)
    BY <1>2, NoteCharger
  <1> HIDE DEF d
  <1>4. Safe(d)
    BY <1>3 DEF Calm
  <1>5. Calm(d, e)
    BY <1>4, ChargerEventCalm, CalmNothing
  <1> HIDE DEF e
  <1>6. Calm(display, e)
    BY <1>3, <1>5, CalmTwice
  <1>7. Calm(display, display')
    BY <1>1, <1>6, BrightnessUpdatedCalm
  <1> QED BY <1>7, CalmStepOK

LEMMA UsbDockCallbackOK ==
  ASSUME Safe(display), NEW dock \in BOOLEAN, NEW usb \in BOOLEAN,
         UsbDockCallback(dock, usb)
  PROVE  HandlerOK
  <1> DEFINE old == display.charger
             docked == Attach(old, "inductive", dock)
             new == Attach(docked, "usb", usb)
             d == IF docked = old THEN display
                  ELSE ChargerEvent(display, "inductive", dock)
             e == IF new = old \/ "inductive" \in old THEN d
                  ELSE ChargerEvent(d, "usb", usb)
             f == [e EXCEPT !.charger = new]
  <1>1. display' = HandleEvent(f, "UpdateBrightness")
    BY DEF UsbDockCallback, Becomes
  <1>2. {"usb", "inductive"} \subseteq Charger
    BY DEF Charger
  <1>3. new \in SUBSET Charger
    BY <1>2, ChargersAttached DEF Safe, Good, Ordered, Display
  <1> HIDE DEF new, docked
  <1>4. Calm(display, d)
    BY <1>2, ChargerEventCalm, CalmNothing
  <1> HIDE DEF d
  <1>5. Safe(d)
    BY <1>4 DEF Calm
  <1>6. Calm(d, e)
    BY <1>2, <1>5, ChargerEventCalm, CalmNothing
  <1> HIDE DEF e
  <1>7. Safe(e)
    BY <1>6 DEF Calm
  <1>8. Calm(e, f)
    BY <1>3, <1>7, NoteCharger
  <1> HIDE DEF f
  <1>9. Calm(display, f)
    <2>1. Calm(display, e)
      BY <1>4, <1>6, CalmTwice
    <2> QED BY <1>8, <2>1, CalmTwice
  <1>10. Calm(display, display')
    BY <1>1, <1>9, BrightnessUpdatedCalm
  <1> QED BY <1>10, CalmStepOK

LEMMA MarkBootFinishedOK ==
  ASSUME Safe(display), MarkBootFinished
  PROVE  HandlerOK
  <1> DEFINE d == IF display.booted THEN On(display) ELSE display
  <1>1. display' = [d EXCEPT !.booted = TRUE]
    BY DEF MarkBootFinished, Becomes
  <1>2. Calm(display, d)
    BY RequestsCalm, CalmNothing
  <1> HIDE DEF d
  <1>3. Safe(d)
    BY <1>2 DEF Calm
  <1>4. Calm(d, [d EXCEPT !.booted = TRUE])
    BY <1>3, NoteBooted
  <1>5. Calm(display, display')
    BY <1>1, <1>2, <1>4, CalmTwice
  <1> QED BY <1>5, CalmStepOK

LEMMA PowerdServiceNotificationOK ==
  ASSUME Safe(display), NEW connected \in BOOLEAN,
         PowerdServiceNotification(connected)
  PROVE  HandlerOK
  <1> DEFINE d == IF connected THEN On(display) ELSE display
  <1>1. display' \in {d, PushDNAST(d, connected)}
    BY DEF PowerdServiceNotification, Becomes
  <1>2. Calm(display, d)
    BY RequestsCalm, CalmNothing
  <1> HIDE DEF d
  <1>3. Calm(d, display')
    BY <1>1, <1>2, PushCalm, CalmNothing DEF Calm
  <1>4. Calm(display, display')
    BY <1>2, <1>3, CalmTwice
  <1> QED BY <1>4, CalmStepOK

LEMMA PasscodeChangeOK ==
  ASSUME Safe(display), PasscodeChange
  PROVE  HandlerOK
  <1> DEFINE v == ~display.passcode
             e == [display EXCEPT !.passcode = v]
  <1>1. display' = e
    BY DEF PasscodeChange, Becomes
  <1>2. v \in BOOLEAN
    OBVIOUS
  <1> HIDE DEF v
  <1>3. /\ Good(e) /\ SameScreen(display, e)
        /\ e.onCall = display.onCall /\ e.proximity = display.proximity
    BY <1>2, NotePasscode DEF Safe
  <1> HIDE DEF e
  <1>4. DarkForCall(display')
    BY <1>1, <1>3 DEF Safe, DarkForCall, SameScreen, IsOnCall
  <1>5. display'.passcode \in BOOLEAN
    BY <1>1, <1>3 DEF Good, Ordered, Display
  <1>6. Abstract!PasscodeChanges
    BY <1>1, <1>3, <1>5 DEF Abstract!PasscodeChanges, SameScreen, IsOnCall
  <1>7. ScreenStep
    BY <1>6 DEF ScreenStep, Abstract!ScreenNext
  <1> QED BY <1>1, <1>3, <1>4, <1>7
          DEF HandlerOK, StepOK, SleepKept, Safe, UnlockAuthorisedStep,
              DnastKeepsPanelOnStep, SameScreen

(* To suspend puts an unlit, locked panel to sleep; to resume shows what   *)
(* it may.  In every other state neither changes anything but a timer.     *)
LEMMA SetSuspendedOK ==
  ASSUME Safe(display), NEW suspended \in BOOLEAN, SetSuspended(suspended)
  PROVE  StepOK
  <1>1. PICK ev \in {"PowerdSuspend", "PowerdResume"} :
          display' = HandleEvent(display, ev)
    BY DEF SetSuspended, Becomes
  <1>2. /\ ev \in Event /\ ev \in Event \ {"ProximityOn"}
        /\ ev \in Event \ Darkening /\ ev # "UnlockScreen"
    BY DEF Event, Darkening
  <1> DEFINE s == Target(display, ev)
  <1>3. /\ Good(display') /\ SameInputs(display, display')
        /\ display'.state \in Outcome(s) /\ StaysLocked(display, display')
    BY <1>1, <1>2, HandleEventGood DEF Safe
  <1>4. /\ DarkForCall(display')
        /\ display.state \notin Dark => display'.state \notin Dark
    BY <1>1, <1>2, HandleEventDarkForCall, HandleEventStaysLit DEF Safe
  <1>5. Safe(display')
    BY <1>3, <1>4 DEF Safe
  <1>6. ScreenStep
    <2>1. /\ display.state \in State /\ LockMatches(display) /\ RestoreNoted(display)
          /\ display.passcode \in BOOLEAN
          /\ LockMatches(display') /\ display'.state \in State
      BY <1>5 DEF Safe, Good, Ordered, Display
    <2>2. /\ display'.passcode = display.passcode
          /\ IsOnCall(display') = IsOnCall(display)
      BY <1>3 DEF SameInputs, IsOnCall
    <2>3. CASE display.state = "Off" /\ ev = "PowerdSuspend"
      <3>1. display'.state = "OffSuspended"
        BY <1>3, <2>3 DEF Target, OffTarget, Outcome
      <3>2. Abstract!FallAsleep
        BY <2>1, <2>2, <2>3, <3>1 DEF Abstract!FallAsleep, FaceOf, LockMatches
      <3> QED BY <3>2 DEF ScreenStep, Abstract!ScreenNext
    <2>4. CASE display.state = "OffSuspended" /\ ev = "PowerdResume"
      <3>1. s \in {"Off", "On", "OnLocked", "OnPuck", "DockMode"}
        BY <2>1, <2>4 DEF Target, OffSuspendedTarget, RestoreNoted
      <3> HIDE DEF s
      <3>2. display'.state \in {"Off", "On", "OnLocked", "OnPuck", "DockMode"}
        BY <1>3, <3>1 DEF Outcome
      <3>3. display'.state \in {"On", "OnPuck"}
              => ~display.passcode \/ IsOnCall(display)
        BY <1>3, <2>1, <2>4 DEF LockMatches, StaysLocked
      <3>4. Abstract!WakeUp(FaceOf(display'.state))
        BY <2>1, <2>2, <2>4, <3>2, <3>3
           DEF Abstract!WakeUp, FaceOf, LockMatches, Abstract!LockOn
      <3>5. FaceOf(display'.state) \in Abstract!Bright \cup {"dark"}
        BY <3>2 DEF FaceOf, Abstract!Bright
      <3> QED BY <3>4, <3>5 DEF ScreenStep, Abstract!ScreenNext
    <2>5. CASE /\ ~(display.state = "Off" /\ ev = "PowerdSuspend")
               /\ ~(display.state = "OffSuspended" /\ ev = "PowerdResume")
      <3>1. s = display.state
        BY <2>1, <2>5 DEF Target, OffTarget, OffOnCallTarget, OnTarget, OnLockedTarget,
              DimTarget, OnPuckTarget, DockModeTarget, OffSuspendedTarget, State
      <3> HIDE DEF s
      <3>2. Steady(display, display')
        BY <1>3, <1>4, <3>1 DEF Outcome, Steady, Dark
      <3> QED BY <1>5, <2>2, <3>2, SteadySeen, SeenScreenStep
    <2> QED BY <2>3, <2>4, <2>5
  <1>7. /\ display.displayOn <=> display.state \notin Dark
        /\ display'.displayOn <=> display'.state \notin Dark
    BY <1>3, WantedByState DEF Safe
  <1> QED BY <1>3, <1>4, <1>5, <1>6, <1>7
          DEF StepOK, UnlockAuthorisedStep, DnastKeepsPanelOnStep, StaysLocked

(* What says yes to powerd's question is asleep when powerd goes on, and    *)
(* what sleeps is not disturbed by being told so again.                    *)
LEMMA SuspendSleeps ==
  ASSUME Safe(display), SetSuspended(TRUE), display.state \in {"Off", "OffSuspended"}
  PROVE  display'.state = "OffSuspended"
  <1> DEFINE s == Target(display, "PowerdSuspend")
  <1>1. "PowerdSuspend" \in Event
    BY DEF Event
  <1>2. display'.state \in Outcome(s)
    BY <1>1, HandleEventGood DEF SetSuspended, Becomes, Safe
  <1>3. s = "OffSuspended"
    BY DEF Target, OffTarget, OffSuspendedTarget
  <1> QED BY <1>2, <1>3 DEF Outcome

(* Every handler keeps the display in order and is a step of the           *)
(* properties, and none but powerd's signals ends or begins its sleep.     *)
LEMMA HandlersOK ==
  ASSUME Inv, DisplayNext
  PROVE  HandlerOK
  <1> SUFFICES ASSUME Safe(display), alertState \in {"Off", "Dim", "Undefined"}
               PROVE  HandlerOK
    BY DEF Inv, TypeOK
  <1>1. CASE Timeouts
    BY <1>1, ExpireTimerOK DEF Timeouts
  <1>2. CASE BacklightDone
    BY <1>2, BacklightDoneOK
  <1>3. CASE PowerKeyDown \/ PowerKeyHeld
    BY <1>3, UnchangedStepOK DEF PowerKeyDown, PowerKeyHeld
  <1>4. CASE PowerKeyUp
    BY <1>4, PowerKeyUpOK
  <1>5. CASE Touch \/ UpdateBrightness
    <2>1. {"UserActivity", "UpdateBrightness"}
            \subseteq CalmEvent
      BY DEF Event, Darkening, CalmEvent
    <2>2. PICK ev \in {"UserActivity", "UpdateBrightness"} :
            display' = HandleEvent(display, ev)
      BY <1>5 DEF Touch, UpdateBrightness, Becomes
    <2> QED BY <2>1, <2>2, EventStepOK
  <1>6. CASE UnlockRequest
    BY <1>6, UnlockRequestOK
  <1>7. ASSUME NEW value \in {"on", "dimmed", "off", "dock", "undock"},
               SetState(value)
        PROVE  HandlerOK
    BY <1>7, SetStateOK
  <1>8. CASE SetLockStatus("lock")
    <2>1. Calm(display, display')
      BY <1>8, RequestsCalm DEF SetLockStatus, Becomes
    <2> QED BY <2>1, CalmStepOK
  <1>9. CASE Alert
    BY <1>9, AlertOK
  <1>10. CASE AlertTimeout
    BY <1>10, GenericDeactivatedOK DEF AlertTimeout
  <1>11. ASSUME NEW c \in Clients, NEW asks \in SUBSET Block,
                NEW timeout \in BOOLEAN, NEW on \in BOOLEAN,
                NEW bright \in BOOLEAN, NEW stored \in BOOLEAN,
                NEW works \in BOOLEAN,
                SetProperty(c, asks, timeout, on, bright, stored, works)
         PROVE  HandlerOK
    BY <1>11, SetPropertyOK
  <1>12. ASSUME NEW c \in Clients, NEW works \in BOOLEAN,
                CancelSubscription(c, works)
         PROVE  HandlerOK
    BY <1>12, CancelSubscriptionOK
  <1>13. ASSUME NEW headset \in BOOLEAN, NEW inCall \in BOOLEAN,
                AudiodCallback(headset, inCall)
         PROVE  HandlerOK
    BY <1>13, AudiodCallbackOK
  <1>14. ASSUME NEW open \in BOOLEAN, SliderCallback(open)
         PROVE  HandlerOK
    <2>1. Calm(display, display')
      BY <1>14, NoteSlider DEF SliderCallback, Becomes
    <2> QED BY <2>1, CalmStepOK
  <1>15. ASSUME NEW c \in Charger, NEW connected \in BOOLEAN,
                ChargerCallback(c, connected)
         PROVE  HandlerOK
    BY <1>15, ChargerCallbackOK
  <1>16. ASSUME NEW dock \in BOOLEAN, NEW usb \in BOOLEAN,
                UsbDockCallback(dock, usb)
         PROVE  HandlerOK
    BY <1>16, UsbDockCallbackOK
  <1>17. CASE MarkBootFinished
    BY <1>17, MarkBootFinishedOK
  <1>18. ASSUME NEW connected \in BOOLEAN, PowerdServiceNotification(connected)
         PROVE  HandlerOK
    BY <1>18, PowerdServiceNotificationOK
  <1>19. CASE PasscodeChange
    BY <1>19, PasscodeChangeOK
  <1> QED BY <1>1, <1>2, <1>3, <1>4, <1>5, <1>6, <1>7, <1>8, <1>9, <1>10, <1>11, <1>12,
             <1>13, <1>14, <1>15, <1>16, <1>17, <1>18, <1>19 DEF DisplayNext

LEMMA StepsOK ==
  ASSUME Inv, [Next]_vars
  PROVE  StepOK
  <1>1. CASE DisplayNext
    BY <1>1, HandlersOK DEF HandlerOK
  <1>2. CASE Suspend \/ Resume
    BY <1>2, SetSuspendedOK DEF Suspend, Resume, Inv
  <1>3. CASE UNCHANGED vars
    BY <1>3, UnchangedStepOK DEF vars, HandlerOK, Inv
  <1> QED BY <1>1, <1>2, <1>3 DEF Next

(* The rest of the type invariant: counts never fall below zero. *)
LEMMA DecrementType ==
  ASSUME NEW n \in Nat
  PROVE  Decrement(n) \in Nat
  BY DEF Decrement

LEMMA TypeStep ==
  ASSUME Inv, [Next]_vars, Safe(display)'
  PROVE  TypeOK'
  <1> USE DEF settings, alerts, powerKey, counts
  <1> SUFFICES ASSUME TypeOK, display' \in Display
               PROVE  TypeOK'
    BY DEF Inv, Safe, Good, Ordered
  <1>1. CASE UNCHANGED <<settings, alerts, powerKey, counts>>
    BY <1>1 DEF TypeOK
  <1>2. CASE PowerKeyDown \/ PowerKeyHeld \/ PowerKeyUp
    BY <1>2 DEF PowerKeyDown, PowerKeyHeld, PowerKeyUp, TypeOK
  <1>3. CASE Alert
    <2>1. alertState' \in {"Off", "Dim", "Undefined"} /\ alertTimer' \in BOOLEAN
      BY <1>3 DEF Alert, GenericActivated, PhonecallActivated, PhonecallDeactivated,
                  CancelAlert, AlertState, TypeOK
    <2> QED BY <1>3, <2>1 DEF Alert, TypeOK
  <1>4. CASE AlertTimeout
    BY <1>4 DEF AlertTimeout, TypeOK
  <1>5. ASSUME NEW c \in Clients, NEW asks \in SUBSET Block,
               NEW timeout \in BOOLEAN, NEW on \in BOOLEAN,
               NEW bright \in BOOLEAN, NEW stored \in BOOLEAN,
               NEW works \in BOOLEAN,
               SetProperty(c, asks, timeout, on, bright, stored, works)
        PROVE  TypeOK'
    BY <1>5 DEF SetProperty, TypeOK
  <1>6. ASSUME NEW c \in Clients, NEW works \in BOOLEAN,
               CancelSubscription(c, works)
        PROVE  TypeOK'
    BY <1>6, DecrementType DEF CancelSubscription, TypeOK
  <1>7. ASSUME NEW connected \in BOOLEAN, PowerdServiceNotification(connected)
        PROVE  TypeOK'
    BY <1>7 DEF PowerdServiceNotification, TypeOK
  <1>8. CASE Timeouts \/ BacklightDone \/ Touch \/ UnlockRequest
    BY <1>1, <1>8 DEF Timeouts, ExpireTimer, BacklightDone, Touch, UnlockRequest,
                      SetState, SetLockStatus, BluetoothKeyboardActive
  <1>9. CASE \/ \E value \in {"on", "dimmed", "off", "dock", "undock"} : SetState(value)
             \/ SetLockStatus("lock")
             \/ \E headset, inCall \in BOOLEAN : AudiodCallback(headset, inCall)
             \/ \E open \in BOOLEAN : SliderCallback(open)
    BY <1>1, <1>9 DEF SetState, SetLockStatus, AudiodCallback, SliderCallback
  <1>10. CASE \/ \E c \in Charger, connected \in BOOLEAN : ChargerCallback(c, connected)
              \/ \E dock, usb \in BOOLEAN : UsbDockCallback(dock, usb)
              \/ UpdateBrightness \/ MarkBootFinished \/ PasscodeChange
    BY <1>1, <1>10 DEF ChargerCallback, UsbDockCallback, UpdateBrightness,
                       MarkBootFinished, PasscodeChange
  <1>11. CASE Suspend \/ Resume
    BY <1>1, <1>11 DEF Suspend, Resume, SetSuspended
  <1>12. CASE UNCHANGED vars
    BY <1>1, <1>12 DEF vars
  <1>13. CASE DisplayNext
    BY <1>2, <1>3, <1>4, <1>5, <1>6, <1>7, <1>8, <1>9, <1>10, <1>13 DEF DisplayNext
  <1> QED BY <1>11, <1>12, <1>13 DEF Next

-----------------------------------------------------------------------------
(* The theorems.                                                           *)

LEMMA InitInv == Init => Inv
  <1> SUFFICES ASSUME Init
               PROVE  Inv
    OBVIOUS
  <1>1. PICK passcode \in BOOLEAN, storedTimeout \in BOOLEAN :
          display = EnterOn(IF storedTimeout
                            THEN StartInactivityTimer(Boot(passcode))
                            ELSE Boot(passcode), "ApiOn")
    BY DEF Init
  <1> DEFINE b == Boot(passcode)
             t == StartInactivityTimer(b)
             d == IF storedTimeout THEN t ELSE b
  <1>2. b \in Display /\ b.timers = {} /\ b.state = "On" /\ b.dnast = 0
        /\ b.onCall = FALSE /\ b.proximity = FALSE
    BY EmptySeq DEF Boot, Display, State, LockState, Charger, Event, NoRestore
  <1> HIDE DEF b
  <1>3. t \in Display /\ t.timers \subseteq {"OnUser"}
    BY <1>2 DEF StartInactivityTimer, InactivityTimer, IsDNAST, TimersOf,
                StopInactivityTimer, Display, Timer
  <1> HIDE DEF t
  <1>4. d \in Display /\ d.timers \subseteq {"OnUser"}
    BY <1>2, <1>3
  <1> HIDE DEF d
  <1>5. Good(EnterOn(d, "ApiOn")) /\ EnterOn(d, "ApiOn").state \in {"On", "OnLocked"}
    BY <1>4, EnterOnGood DEF Event
  <1>6. Safe(display)
    BY <1>1, <1>5 DEF Safe, DarkForCall, d, t, b
  <1>7. TypeOK
    BY <1>6 DEF Init, TypeOK, Safe, Good, Ordered
  <1> QED BY <1>6, <1>7 DEF Inv

(* The display comes up locked if there is a passcode.                     *)
LEMMA InitScreen ==
  ASSUME Init
  PROVE  /\ display.state = IF display.passcode THEN "OnLocked" ELSE "On"
         /\ IsOnCall(display) = FALSE
  <1>1. PICK passcode \in BOOLEAN, storedTimeout \in BOOLEAN :
          display = EnterOn(IF storedTimeout
                            THEN StartInactivityTimer(Boot(passcode))
                            ELSE Boot(passcode), "ApiOn")
    BY DEF Init
  <1> DEFINE b == Boot(passcode)
             t == StartInactivityTimer(b)
             d == IF storedTimeout THEN t ELSE b
  <1>2. b \in Display /\ b.timers = {} /\ b.state = "On" /\ b.dnast = 0
        /\ b.onCall = FALSE /\ b.proximity = FALSE
        /\ b.lock = "Invalid" /\ b.passcode = passcode
    BY EmptySeq DEF Boot, Display, State, LockState, Charger, Event, NoRestore
  <1> HIDE DEF b
  <1>3. t \in Display /\ t.timers \subseteq {"OnUser"} /\ t.lock = "Invalid"
        /\ t.passcode = passcode /\ t.onCall = FALSE /\ t.proximity = FALSE
    BY <1>2 DEF StartInactivityTimer, InactivityTimer, IsDNAST, TimersOf,
                StopInactivityTimer, Display, Timer
  <1> HIDE DEF t
  <1>4. d \in Display /\ d.timers \subseteq {"OnUser"} /\ d.lock = "Invalid"
        /\ d.passcode = passcode /\ d.onCall = FALSE /\ d.proximity = FALSE
    BY <1>2, <1>3
  <1> HIDE DEF d
  <1> DEFINE e == [d EXCEPT !.state = "On"]
             u == ScreenOn(SetLock(e, "Unlocked"))
  <1>5. display = EnterOn(d, "ApiOn")
    BY <1>1 DEF d, t, b
  <1>6. /\ SameInputs(d, display) /\ Good(display)
        /\ display.state \in {"On", "OnLocked"}
    BY <1>4, <1>5, EnterOnGood DEF Event
  <1>7. UnlockRefused(e, "ApiOn") <=> passcode
    BY <1>4 DEF UnlockRefused, IsOnCall, Display
  <1>8. /\ e \in Display /\ e.state = "On" /\ e.timers \subseteq TimersOf("On")
    BY <1>4 DEF Display, State, TimersOf
  <1>9. CASE passcode
    <2>1. display = LockInstead(e)
      BY <1>5, <1>7, <1>9 DEF EnterOn
    <2> HIDE DEF e
    <2>2. display.state = "OnLocked"
      BY <1>8, <2>1, LockInsteadGood
    <2> QED BY <1>4, <1>6, <1>9, <2>2 DEF SameInputs, IsOnCall
  <1>10. CASE ~passcode
    <2>1. display = StartInternalInactivityTimer(u)
      BY <1>5, <1>7, <1>10 DEF EnterOn
    <2>2. u.state = "On"
      BY <1>8 DEF ScreenOn, SetLock, Display
    <2> HIDE DEF u
    <2>3. u.state = "On" /\ u \in Display => StartInternalInactivityTimer(u).state = "On"
      BY DEF StartInternalInactivityTimer, Display
    <2>4. u \in Display
      <3>1. SetLock(e, "Unlocked") \in Display
        BY <1>8 DEF SetLock, Display, LockState
      <3> QED BY <3>1, ScreenOnServes DEF u
    <2> QED BY <1>4, <1>6, <1>10, <2>1, <2>2, <2>3, <2>4 DEF SameInputs, IsOnCall
  <1> QED BY <1>9, <1>10

LEMMA StepInv == Inv /\ [Next]_vars => Inv'
  BY StepsOK, TypeStep DEF StepOK, Inv

LEMMA Invariance == Spec => []Inv
  BY InitInv, StepInv, PTL DEF Spec

(* Every member has its type at any time; the counts of clients and of     *)
(* DNASTs never fall below zero, whatever order calls are cancelled in.    *)
THEOREM TypeCorrect == Spec => []TypeOK
  <1>1. Inv => TypeOK
    BY DEF Inv
  <1> QED BY <1>1, Invariance, PTL

(* Only timers of the current state run, never two, so that no timer of a  *)
(* state that was left can fire into another.                              *)
THEOREM TimersBelongToStateAlways == Spec => []TimersBelongToState
  <1>1. Inv => TimersBelongToState
    BY DEF Inv, Safe, Good, TimersBelongToState
  <1> QED BY <1>1, Invariance, PTL

(* The lock state agrees with the state after every handler.               *)
THEOREM LockMatchesStateAlways == Spec => []LockMatchesState
  <1>1. Inv => LockMatchesState
    BY DEF Inv, Safe, Good, Ordered, LockMatchesState
  <1> QED BY <1>1, Invariance, PTL

(* The panel is wanted in the lit states only, and backlight and touch     *)
(* panel agree with that once the LED driver has caught up.                *)
THEOREM PanelFollowsStateAlways == Spec => []PanelFollowsState
  <1>1. Inv => PanelFollowsState
    BY DEF Inv, Safe, Good, Ordered, PanelFollowsState
  <1> QED BY <1>1, Invariance, PTL

(* The display is dark for a call only while a call or the sensor is on.   *)
THEOREM OffOnCallOnlyInCallAlways == Spec => []OffOnCallOnlyInCall
  <1>1. Inv => OffOnCallOnlyInCall
    BY DEF Inv, Safe, OffOnCallOnlyInCall
  <1> QED BY <1>1, Invariance, PTL

(* With a passcode set, the screen is unlocked only by a call that asks    *)
(* for it, by a keyboard, or for a phone call.                             *)
THEOREM UnlockAuthorisedAlways == Spec => UnlockAuthorised
  <1>1. Inv /\ [Next]_vars => [UnlockAuthorisedStep]_vars
    BY StepsOK DEF StepOK
  <1> QED BY <1>1, Invariance, PTL DEF Spec, UnlockAuthorised, UnlockAuthorisedStep

(* While a DNAST is held, only the power key makes the panel go dark.      *)
THEOREM DnastKeepsPanelOnAlways == Spec => DnastKeepsPanelOn
  <1>1. Inv /\ [Next]_vars => [DnastKeepsPanelOnStep]_vars
    BY StepsOK DEF StepOK
  <1> QED BY <1>1, Invariance, PTL DEF Spec, DnastKeepsPanelOn, DnastKeepsPanelOnStep

LEMMA ScreenInitially == Init => Abstract!ScreenInit
  <1> SUFFICES ASSUME Init
               PROVE  Abstract!ScreenInit
    OBVIOUS
  <1>1. Safe(display)
    BY InitInv DEF Inv
  <1>2. /\ display.state = IF display.passcode THEN "OnLocked" ELSE "On"
        /\ IsOnCall(display) = FALSE
    BY InitScreen
  <1>3. display.passcode \in BOOLEAN
    BY <1>1 DEF Safe, Good, Ordered, Display
  <1> QED BY <1>1, <1>2, <1>3, FaceFits DEF Abstract!ScreenInit, FaceOf

(* The display manager implements Screen: whatever its keys, timers,       *)
(* chargers, alerts and callers do, other programs see no more than the    *)
(* steps of Screen; in particular nothing but what is open dims, and what  *)
(* comes back from sleep is open only if it may be.                        *)
THEOREM ScreenImplemented == Spec => ImplementsScreen
  <1>1. Inv /\ [Next]_vars => ScreenStep
    BY StepsOK DEF StepOK
  <1> QED BY <1>1, ScreenInitially, Invariance, PTL
          DEF Spec, ImplementsScreen, Abstract!ScreenSpec, ScreenStep

-----------------------------------------------------------------------------
(* The power key is blocked while a client holds the block: the count is   *)
(* the number of the clients, through every subscription and its end.      *)

KeyBlockCounted == blockedPowerKey = Cardinality(Holders("powerKeyBlock"))

LEMMA HoldersFinite ==
  \A b : IsFiniteSet(Holders(b))
  BY InstanceAssumption, FS_Subset DEF Holders

LEMMA KeyBlockCountedInit == Init => KeyBlockCounted
  <1> SUFFICES ASSUME Init
               PROVE  KeyBlockCounted
    OBVIOUS
  <1>1. Holders("powerKeyBlock") = {}
    BY DEF Init, Holders
  <1> QED BY <1>1, FS_EmptySet DEF Init, KeyBlockCounted

LEMMA KeyBlockCountedStep ==
  TypeOK /\ KeyBlockCounted /\ [Next]_vars => KeyBlockCounted'
  <1> SUFFICES ASSUME TypeOK, KeyBlockCounted, [Next]_vars
               PROVE  KeyBlockCounted'
    OBVIOUS
  <1> DEFINE H == Holders("powerKeyBlock")
  <1> USE DEF counts
  <1>1. IsFiniteSet(H) /\ held \in [Clients -> SUBSET Block]
    BY HoldersFinite DEF TypeOK
  <1>2. ASSUME UNCHANGED counts
        PROVE  KeyBlockCounted'
    BY <1>2 DEF KeyBlockCounted, Holders
  <1>3. ASSUME NEW c \in Clients, NEW asks \in SUBSET Block,
               NEW timeout \in BOOLEAN, NEW on \in BOOLEAN,
               NEW bright \in BOOLEAN, NEW stored \in BOOLEAN,
               NEW works \in BOOLEAN,
               SetProperty(c, asks, timeout, on, bright, stored, works)
        PROVE  KeyBlockCounted'
    <2> DEFINE kept == IF stored THEN asks ELSE asks \ {"proximityEnabled"}
               new == IF kept = {} THEN {} ELSE asks
    <2>1. /\ held[c] = {} /\ held' = [held EXCEPT ![c] = new]
          /\ blockedPowerKey' = IF "powerKeyBlock" \in asks
                                THEN blockedPowerKey + 1 ELSE blockedPowerKey
      BY <1>3 DEF SetProperty
    <2>2. "powerKeyBlock" \in new <=> "powerKeyBlock" \in asks
      OBVIOUS
    <2> HIDE DEF new
    <2>3. H' = IF "powerKeyBlock" \in asks THEN H \cup {c} ELSE H
      BY <1>1, <2>1, <2>2 DEF Holders
    <2>4. c \notin H
      BY <2>1 DEF Holders
    <2>5. Cardinality(H \cup {c}) = Cardinality(H) + 1
      BY <1>1, <2>4, FS_AddElement
    <2> QED BY <2>1, <2>3, <2>5 DEF KeyBlockCounted
  <1>4. ASSUME NEW c \in Clients, NEW works \in BOOLEAN,
               CancelSubscription(c, works)
        PROVE  KeyBlockCounted'
    <2>1. /\ held' = [held EXCEPT ![c] = {}]
          /\ blockedPowerKey' = IF "powerKeyBlock" \in held[c]
                                THEN Decrement(blockedPowerKey) ELSE blockedPowerKey
      BY <1>4 DEF CancelSubscription
    <2>2. H' = H \ {c} /\ (c \in H <=> "powerKeyBlock" \in held[c])
      BY <1>1, <2>1 DEF Holders
    <2>3. CASE c \in H
      <3>1. Cardinality(H \ {c}) = Cardinality(H) - 1 /\ Cardinality(H) \in Nat
        BY <1>1, <2>3, FS_RemoveElement, FS_CardinalityType
      <3>2. Cardinality(H) # 0
        BY <1>1, <2>3, FS_EmptySet
      <3>3. blockedPowerKey' = Cardinality(H) - 1
        BY <2>1, <2>2, <2>3, <3>1, <3>2 DEF KeyBlockCounted, Decrement
      <3> QED BY <2>2, <3>1, <3>3 DEF KeyBlockCounted
    <2>4. CASE c \notin H
      <3>1. H' = H
        BY <2>2, <2>4
      <3> QED BY <2>1, <2>2, <2>4, <3>1 DEF KeyBlockCounted
    <2> QED BY <2>3, <2>4
  <1>5. CASE UNCHANGED vars
    BY <1>2, <1>5 DEF vars
  <1>6. CASE Suspend \/ Resume
    BY <1>2, <1>6 DEF Suspend, Resume, SetSuspended
  <1>7. CASE DisplayNext
    <2>1. \/ UNCHANGED counts
          \/ \E c \in Clients, asks \in SUBSET Block,
                timeout, on, bright, stored, works \in BOOLEAN :
               SetProperty(c, asks, timeout, on, bright, stored, works)
          \/ \E c \in Clients, works \in BOOLEAN : CancelSubscription(c, works)
      BY <1>7 DEF DisplayNext, Timeouts, ExpireTimer, BacklightDone, PowerKeyDown,
         PowerKeyHeld, PowerKeyUp, Touch, UnlockRequest, SetState, SetLockStatus,
         BluetoothKeyboardActive, Alert, AlertTimeout, AudiodCallback, SliderCallback,
         ChargerCallback, UsbDockCallback, UpdateBrightness, MarkBootFinished,
         PowerdServiceNotification, PasscodeChange
    <2> QED BY <1>2, <1>3, <1>4, <2>1
  <1> QED BY <1>5, <1>6, <1>7 DEF Next

(* While a client blocks the power key, the key does nothing.              *)
THEOREM BlockedKeyDoesNothingAlways == Spec => BlockedKeyDoesNothing
  <1> DEFINE Step == Holders("powerKeyBlock") # {} /\ PowerKeyUp => UNCHANGED display
  <1>1. Spec => []KeyBlockCounted
    BY TypeCorrect, KeyBlockCountedInit, KeyBlockCountedStep, PTL DEF Spec
  <1>2. KeyBlockCounted /\ TypeOK /\ [Next]_vars => [Step]_vars
    <2> SUFFICES ASSUME KeyBlockCounted, Holders("powerKeyBlock") # {}, PowerKeyUp
                 PROVE  UNCHANGED display
      OBVIOUS
    <2>1. /\ Cardinality(Holders("powerKeyBlock")) \in Nat
          /\ Cardinality(Holders("powerKeyBlock")) # 0
      BY HoldersFinite, FS_CardinalityType, FS_EmptySet
    <2>2. blockedPowerKey > 0
      BY <2>1 DEF KeyBlockCounted
    <2> QED BY <2>2 DEF PowerKeyUp, Becomes
  <1> QED BY <1>1, <1>2, TypeCorrect, PTL DEF Spec, BlockedKeyDoesNothing

==============================================================================
