-------------------------- MODULE MCDeviceSecurity --------------------------
(* Policies and passcodes on small instances: see the configurations. *)
EXTENDS DeviceSecurity

(* Few attempts, any passcode. *)
FewTries ==
  [passwordRequired |-> TRUE, maxRetries |-> 2, minLength |-> 1,
   isAlphaNumeric |-> FALSE, allowSimple |-> TRUE, inactivity |-> 60]

(* Any number of attempts, a strong password. *)
Strong ==
  [passwordRequired |-> TRUE, maxRetries |-> 0, minLength |-> 6,
   isAlphaNumeric |-> TRUE, allowSimple |-> FALSE, inactivity |-> 45]

Pin ==
  [mode |-> "pin", length |-> 4, letters |-> FALSE, digits |-> TRUE,
   others |-> FALSE, text |-> <<3, 3, 3, 3>>]

(* Where runs are forbidden the first of these is accepted, for its run of *)
(* three characters begins with another's end, and the second is not.      *)
MCRunPins ==
  {[Pin EXCEPT !.text = t, !.length = Len(t)] :
     t \in {<<1, 2, 2, 2>>, <<1, 2, 2, 2, 2, 2>>}}

Password ==
  [mode |-> "password", length |-> 8, letters |-> TRUE, digits |-> TRUE,
   others |-> FALSE, text |-> <<30, 5, 41, 9, 33, 2, 7, 50>>]

MCNoRuns == <<{[FewTries EXCEPT !.allowSimple = FALSE]}>>
MCSecond == {2}
MCOneEach == <<{FewTries}, {Strong}>>
MCFewTries == <<{FewTries}>>
MCPasscodes == {Pin, Password}
MCPin == {Pin}

=============================================================================
