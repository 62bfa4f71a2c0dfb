------------------------------- MODULE Screen -------------------------------
(***************************************************************************)
(* The display as its user sees it: what the panel shows, whether the      *)
(* screen is locked, and the two things that decide what may be shown, a   *)
(* passcode and a call.  Timers, keys, chargers, alerts, requests and the  *)
(* other programs are left out: any of them may take any of these steps.   *)
(*                                                                         *)
(* DisplayManager implements it; Panel composes it with the light sensor.  *)
(***************************************************************************)

VARIABLES
  face,     \* what the panel shows
  lock,     \* the lock status
  secured,  \* a passcode is set
  call      \* a call is on, or the proximity sensor is, which counts as one

screenVars == <<face, lock, secured, call>>

(* Bright: the user's apps, the lock screen, the clock of dock mode.       *)
Bright == {"open", "locked", "dock"}

Face == Bright \cup {"dim", "dark", "asleep"}

LockOn(f) ==
  CASE f \in {"open", "dim"} -> "Unlocked"
    [] f \in {"locked", "asleep"} -> "Locked"
    [] f = "dock" -> "DockMode"

(* What is dark is locked, but a call may go on behind a dark panel that   *)
(* nobody has locked.                                                      *)
ScreenOK ==
  /\ face \in Face
  /\ lock \in {"Locked", "Unlocked", "DockMode"}
  /\ secured \in BOOLEAN
  /\ call \in BOOLEAN
  /\ IF face = "dark" THEN lock = "Locked" \/ (lock = "Unlocked" /\ call)
                      ELSE lock = LockOn(face)

ScreenInit ==
  /\ secured \in BOOLEAN
  /\ call = FALSE
  /\ face = IF secured THEN "locked" ELSE "open"
  /\ lock = LockOn(face)

-----------------------------------------------------------------------------

(* Something bright is shown, whoever asked for it; a call may begin or    *)
(* end with it.                                                            *)
Show(f) ==
  /\ face # "asleep"
  /\ face' = f
  /\ lock' = LockOn(f)
  /\ call' \in BOOLEAN
  /\ UNCHANGED secured

(* Only what is open dims. *)
Dim ==
  /\ face = "open"
  /\ face' = "dim"
  /\ lock' = LockOn("dim")
  /\ UNCHANGED <<secured, call>>

(* The panel goes dark and locks; only for a call it stays unlocked.       *)
Darken ==
  /\ face \in Bright \cup {"dim"}
  /\ face' = "dark"
  /\ call' \in BOOLEAN
  /\ \/ lock' = "Locked"
     \/ lock' = "Unlocked" /\ lock = "Unlocked" /\ call'
  /\ UNCHANGED secured

(* During a call the dark screen may be locked and unlocked; without one   *)
(* it does not stay unlocked.                                              *)
StayDark ==
  /\ face = "dark"
  /\ call' \in BOOLEAN
  /\ \/ lock' = "Locked"
     \/ lock' = "Unlocked" /\ call /\ call'
  /\ UNCHANGED <<face, secured>>

CallChanges ==
  /\ face \in {"dim", "asleep"}
  /\ call' \in BOOLEAN
  /\ UNCHANGED <<face, lock, secured>>

PasscodeChanges ==
  /\ secured' \in BOOLEAN
  /\ UNCHANGED <<face, lock, call>>

(* The device sleeps only behind a dark and locked panel. *)
FallAsleep ==
  /\ face = "dark"
  /\ lock = "Locked"
  /\ face' = "asleep"
  /\ UNCHANGED <<lock, secured, call>>

(* What comes back is never dimmed, and is open only if there is no        *)
(* passcode or a call is on, whatever was pressed or called meanwhile.     *)
WakeUp(f) ==
  /\ face = "asleep"
  /\ f = "open" => ~secured \/ call
  /\ face' = f
  /\ lock' = IF f = "dark" THEN "Locked" ELSE LockOn(f)
  /\ UNCHANGED <<secured, call>>

ScreenNext ==
  \/ \E f \in Bright : Show(f)
  \/ Dim \/ Darken \/ StayDark
  \/ CallChanges \/ PasscodeChanges
  \/ FallAsleep
  \/ \E f \in Bright \cup {"dark"} : WakeUp(f)

ScreenSpec == ScreenInit /\ [][ScreenNext]_screenVars

=============================================================================
