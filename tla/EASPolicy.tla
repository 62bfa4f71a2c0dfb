------------------------------ MODULE EASPolicy ------------------------------
(***************************************************************************)
(* A security policy, EASPolicy of Src/base/EASPolicyManager.h: what an    *)
(* account asks of the passcode of the device, and how the policies of     *)
(* several accounts become one; and the test of a passcode against it, of  *)
(* Src/base/Security.cpp.                                                  *)
(*                                                                         *)
(* Numbers are natural: what an account gives as a negative number becomes *)
(* a large one in the code's uint32_t.                                     *)
(***************************************************************************)
EXTENDS Integers, Sequences

Policy ==
  [passwordRequired: BOOLEAN,
   maxRetries: Nat,
   minLength: Nat,
   isAlphaNumeric: BOOLEAN,
   allowSimple: BOOLEAN,
   inactivity: Nat]          \* in seconds

(* EASPolicy(): what holds when no account has said anything. *)
DefaultPolicy ==
  [passwordRequired |-> FALSE,
   maxRetries |-> 0,
   minLength |-> 1,
   isAlphaNumeric |-> FALSE,
   allowSimple |-> TRUE,
   inactivity |-> 9998]

ValidMaxRetries(p) == p.passwordRequired /\ p.maxRetries > 1
ValidMinLength(p) == p.passwordRequired /\ p.minLength > 1

(* Half minutes below a minute, minutes above it; what is longer than two  *)
(* hours and three quarters is taken for the strictest.                    *)
MaxInactivity(p) ==
  LET step == IF p.inactivity < 60 THEN 30 ELSE 60
  IN IF p.inactivity > 9998 THEN 0 ELSE p.inactivity - (p.inactivity % step)

MergedMaxRetries(a, p) ==
  IF ValidMaxRetries(p) /\ (~ValidMaxRetries(a) \/ p.maxRetries < a.maxRetries)
    THEN p.maxRetries ELSE a.maxRetries

(* The terms of a, after another policy p that asks for a passcode too. *)
Stricter(a, p) ==
  [passwordRequired |-> TRUE,
   maxRetries |-> MergedMaxRetries(a, p),
   minLength |-> IF ValidMinLength(p) /\ p.minLength > a.minLength
                   THEN p.minLength ELSE a.minLength,
   isAlphaNumeric |-> a.isAlphaNumeric \/ p.isAlphaNumeric,
   allowSimple |-> a.allowSimple /\ p.allowSimple,
   inactivity |-> IF p.inactivity < a.inactivity
                    THEN MaxInactivity(p) ELSE a.inactivity]

(* The aggregate a, after another account's policy p. *)
Merge(a, p) ==
  IF ~p.passwordRequired THEN a
  ELSE IF ~a.passwordRequired THEN [p EXCEPT !.inactivity = MaxInactivity(p)]
  ELSE Stricter(a, p)

(* A policy that an account has dropped is still in the database, deleted. *)
NoPolicy == [deleted |-> TRUE]

Merged(a, p) == IF p = NoPolicy THEN a ELSE Merge(a, p)

(* The policies as the database lists them, merged one after the other. *)
Aggregate(policies) ==
  LET merged[n \in 0 .. Len(policies)] ==
        IF n = 0 THEN DefaultPolicy ELSE Merged(merged[n - 1], policies[n])
  IN merged[Len(policies)]

(* What "the strictest of them all" means, term by term: policy a asks for *)
(* all that p asks for.                                                    *)
AsStrictAs(a, p) ==
  p.passwordRequired =>
    /\ a.passwordRequired
    /\ ValidMaxRetries(p) => ValidMaxRetries(a) /\ a.maxRetries <= p.maxRetries
    /\ ValidMinLength(p) => a.minLength >= p.minLength
    /\ p.isAlphaNumeric => a.isAlphaNumeric
    /\ a.allowSimple => p.allowSimple
    /\ a.inactivity <= MaxInactivity(p)

(* And nothing that none of them asks for. *)
NoStricterThan(a, policies) ==
  LET Asking == {p \in policies : p.passwordRequired}
  IN /\ a.passwordRequired => Asking # {}
     /\ ValidMaxRetries(a) => \E p \in Asking : p.maxRetries = a.maxRetries
     /\ ValidMinLength(a) => \E p \in Asking : p.minLength = a.minLength
     /\ a.isAlphaNumeric => \E p \in Asking : p.isAlphaNumeric
     /\ ~a.allowSimple => \E p \in Asking : ~p.allowSimple
     /\ a.passwordRequired => \E p \in Asking : MaxInactivity(p) = a.inactivity

StrictestOf(a, policies) ==
  (\A p \in policies : AsStrictAs(a, p)) /\ NoStricterThan(a, policies)

-----------------------------------------------------------------------------
(* Passcodes: the lock mode they are for and what the tests tell apart.    *)
(* The length is in bytes, the text in the codes of its characters.        *)
Passcode ==
  [mode: {"pin", "password", "pattern", "face", "unknown"},
   length: Nat \ {0},
   letters: BOOLEAN,
   digits: BOOLEAN,
   others: BOOLEAN,
   text: Seq(Nat)]

NoPasscode == [mode |-> "none"]

(* What is left of a passcode file that could not be written. *)
Garbage == [mode |-> "garbage"]

StoredModes == {"pin", "password", "pattern", "face"}

(* A run: the characters i to e of text t repeat, or count up or down.     *)
IsRun(t, i, e) ==
  LET step(k) == t[k + 1] - t[k]
  IN  \A k \in i .. e - 1 : step(k) = step(i) /\ step(i) \in -1 .. 1

RunEnd(t, i) ==
  CHOOSE e \in i .. Len(t) : IsRun(t, i, e) /\ (e < Len(t) => ~IsRun(t, i, e + 1))

(* Mutant: a run is measured before its last character is counted. *)
TooLongLate(n, t) == n > 3 /\ n - 1 > Len(t) \div 2

TooLong(n, t) == n > 2 /\ n > Len(t) \div 2

(* validateStrength(), when it reports a failure.  It looks for the next   *)
(* run behind the last one, and so misses the first character of a run     *)
(* that begins with the last of another.                                   *)
Weak(t) ==
  LET weakFrom[i \in 1 .. Len(t) + 1] ==
        IF i > Len(t) THEN FALSE
        ELSE LET e == RunEnd(t, i) IN TooLong(e - i + 1, t) \/ weakFrom[e + 1]
  IN weakFrom[1]

(* A run of at least two characters more than half of the text. *)
HasLongRun(t) ==
  \E i, e \in DOMAIN t : IsRun(t, i, e) /\ e - i > Len(t) \div 2

(* validatePasscode(), when it has no failure to report. *)
Satisfies(c, p) ==
  p.passwordRequired =>
    /\ c.mode # "none"
    /\ ValidMinLength(p) => c.length >= p.minLength
    /\ p.isAlphaNumeric => c.mode = "password" /\ c.letters /\ c.digits
    /\ ~p.isAlphaNumeric /\ c.mode = "pin" => ~c.letters /\ ~c.others
    /\ p.allowSimple \/ ~Weak(c.text)

=============================================================================
