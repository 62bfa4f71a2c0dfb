------------------------------- MODULE Haptics -------------------------------
(***************************************************************************)
(* The service that vibrates for its clients.  A client that asks for an   *)
(* effect without an end stays subscribed; the table maps its message to   *)
(* the device's id of the effect, which is cancelled when the bus reports  *)
(* that the client has cancelled its call or is gone.                      *)
(*                                                                         *)
(* The device is external: it gives an id to each effect it plays, none    *)
(* that is in the table still, and ends the effects that have an end.      *)
(***************************************************************************)
EXTENDS Integers, FiniteSets

CONSTANTS
  Messages,  \* the messages of clients, by their unique tokens
  Ids,       \* the ids that the device gives
  Failures   \* the calls that may fail, of "id", "subscribe" and "cancel"

ASSUME HapticsAssumption ==
  /\ Ids \subseteq Nat
  /\ Failures \subseteq {"id", "subscribe", "cancel"}

VARIABLES
  mapping,     \* m_mappingTable
  subscribed,  \* the messages that the bus keeps, to report their end
  playing,     \* what the device plays: "none", "finite" or "endless", by id
  lost         \* ids of effects for which a call has failed

vars == <<mapping, subscribed, playing, lost>>

Mapped == {mapping[m] : m \in DOMAIN mapping}

Unused == {id \in Ids : playing[id] = "none" /\ id \notin Mapped}

AddMapping(m, id) ==
  [n \in DOMAIN mapping \cup {m} |-> IF n = m THEN id ELSE mapping[n]]

(* A message that is not in the table has the effect 0. *)
Lookup(m) == IF m \in DOMAIN mapping THEN mapping[m] ELSE 0

(* Mutant: the entry stays. *)
RemoveMappingNot(m) == mapping

RemoveMapping(m) == [n \in DOMAIN mapping \ {m} |-> mapping[n]]

-----------------------------------------------------------------------------

Init ==
  /\ mapping = <<>>
  /\ subscribed = {}
  /\ playing = [id \in Ids |-> "none"]
  /\ lost = {}

(* The device plays an effect.  Its id may be unknown, or the message not  *)
(* kept: then there is no entry in the table either.                       *)
Play(m, id, length, keep) ==
  /\ m \notin subscribed
  /\ id \in Unused
  /\ playing' = [playing EXCEPT ![id] = length]
  /\ \/ /\ Failures \cap (IF keep THEN {"id", "subscribe"} ELSE {"id"}) # {}
        /\ lost' = lost \cup {id}
        /\ UNCHANGED <<mapping, subscribed>>
     \/ /\ IF keep
           THEN subscribed' = subscribed \cup {m} /\ mapping' = AddMapping(m, id)
           ELSE UNCHANGED <<mapping, subscribed>>
        /\ lost' = lost \ {id}

(* A duration of 0 is sent to the device as the longest there is. *)
Vibrate(m, id, duration) ==
  Play(m, id, IF duration = 0 THEN "endless" ELSE "finite", duration = 0)

(* The device is not told that an effect is to be continuous. *)
VibrateNamedEffect(m, id, continuous) == Play(m, id, "finite", continuous)

(* Mutant: everything is stopped. *)
CancelAll(id) ==
  /\ playing' = [n \in Ids |-> "none"]
  /\ lost' = {}

(* The device is asked to stop one effect, and may fail to. *)
Cancel(id) ==
  \/ /\ playing' = [n \in Ids |-> IF n = id THEN "none" ELSE playing[n]]
     /\ lost' = lost \ {id}
  \/ /\ "cancel" \in Failures
     /\ lost' = lost \cup {id}
     /\ UNCHANGED playing

(* Mutant: the entry is looked up after it has been removed. *)
CancelSubscriptionLate(m) ==
  /\ m \in subscribed
  /\ subscribed' = subscribed \ {m}
  /\ mapping' = RemoveMapping(m)
  /\ Cancel(IF m \in DOMAIN mapping' THEN mapping'[m] ELSE 0)

CancelSubscription(m) ==
  /\ m \in subscribed
  /\ subscribed' = subscribed \ {m}
  /\ mapping' = RemoveMapping(m)
  /\ Cancel(Lookup(m))

(* External: an effect comes to its end. *)
EffectEnds(id) ==
  /\ playing[id] = "finite"
  /\ playing' = [playing EXCEPT ![id] = "none"]
  /\ UNCHANGED <<mapping, subscribed, lost>>

Next ==
  \/ \E m \in Messages, id \in Ids, duration \in {0, 1} : Vibrate(m, id, duration)
  \/ \E m \in Messages, id \in Ids, continuous \in BOOLEAN :
       VibrateNamedEffect(m, id, continuous)
  \/ \E m \in Messages : CancelSubscription(m)
  \/ \E id \in Ids : EffectEnds(id)

Spec == Init /\ [][Next]_vars

-----------------------------------------------------------------------------

(* The types; the table has an entry for each message that is kept, and no *)
(* other.                                                                  *)
HapticsTypeOK ==
  /\ subscribed \subseteq Messages
  /\ mapping \in [subscribed -> Ids]
  /\ playing \in [Ids -> {"none", "finite", "endless"}]

(* A vibration without an end can be ended: a client that is still there   *)
(* has asked for it, unless a call of the device or the bus has failed.    *)
EndlessHasClient ==
  \A id \in Ids \ lost : playing[id] = "endless" => id \in Mapped

(* What a client has asked to go on goes on while it stays, whoever comes  *)
(* and goes and whatever fails.                                            *)
StaysWhileAsked ==
  [][ \A m \in subscribed \cap subscribed' :
        playing[mapping[m]] = "endless" => playing'[mapping[m]] = "endless" ]_vars

=============================================================================
