---------------------------- MODULE Haptics_proofs ----------------------------
(***************************************************************************)
(* The vibration service, for any clients, ids and failures.               *)
(***************************************************************************)
EXTENDS Haptics, TLAPS

(* No two clients are given the same effect, and no entry is of an effect  *)
(* that the device gives again.  A finite effect may end before its client *)
(* leaves.                                                                 *)
NotShared ==
  \A m, n \in subscribed : mapping[m] = mapping[n] => m = n

EffectsInv ==
  /\ HapticsTypeOK
  /\ NotShared
  /\ EndlessHasClient

(* Who is in the table after an entry has been added. *)
LEMMA AddMappingType ==
  ASSUME mapping \in [subscribed -> Ids], NEW m, NEW id \in Ids
  PROVE  /\ AddMapping(m, id) \in [subscribed \cup {m} -> Ids]
         /\ AddMapping(m, id)[m] = id
         /\ \A n \in subscribed : n # m => AddMapping(m, id)[n] = mapping[n]
  BY DEF AddMapping

(* And after one has been removed. *)
LEMMA RemoveMappingType ==
  ASSUME mapping \in [subscribed -> Ids], NEW m
  PROVE  /\ RemoveMapping(m) \in [subscribed \ {m} -> Ids]
         /\ \A n \in subscribed \ {m} : RemoveMapping(m)[n] = mapping[n]
  BY DEF RemoveMapping

LEMMA InitEffects == Init => EffectsInv
  BY DEF Init, EffectsInv, HapticsTypeOK, NotShared, EndlessHasClient

(* An effect that starts has an entry, or counts as lost. *)
LEMMA PlayEffects ==
  ASSUME EffectsInv, NEW m \in Messages, NEW id \in Ids,
         NEW length \in {"finite", "endless"}, NEW keep \in BOOLEAN,
         length = "endless" => keep,
         Play(m, id, length, keep)
  PROVE  EffectsInv'
  <1>1. /\ HapticsTypeOK /\ NotShared /\ EndlessHasClient
        /\ m \notin subscribed /\ id \in Unused
        /\ playing' = [playing EXCEPT ![id] = length]
    BY DEF EffectsInv, Play
  <1>2. /\ playing'[id] = length
        /\ \A n \in Ids : n # id => playing'[n] = playing[n]
        /\ playing' \in [Ids -> {"none", "finite", "endless"}]
    BY <1>1 DEF HapticsTypeOK
  <1>3. /\ DOMAIN mapping = subscribed
        /\ \A n \in subscribed : mapping[n] \in Ids /\ mapping[n] # id
    BY <1>1 DEF HapticsTypeOK, Unused, Mapped
  <1>4. CASE lost' = lost \cup {id} /\ UNCHANGED <<mapping, subscribed>>
    BY <1>1, <1>2, <1>4 DEF EffectsInv, HapticsTypeOK, NotShared, EndlessHasClient, Mapped
  <1>5. CASE ~keep /\ lost' = lost \ {id} /\ UNCHANGED <<mapping, subscribed>>
    <2>1. length = "finite"
      BY <1>5
    <2> QED
      BY <1>1, <1>2, <1>5, <2>1
      DEF EffectsInv, HapticsTypeOK, NotShared, EndlessHasClient, Mapped
  <1>6. CASE /\ lost' = lost \ {id}
             /\ subscribed' = subscribed \cup {m}
             /\ mapping' = AddMapping(m, id)
    <2>1. /\ mapping' \in [subscribed' -> Ids]
          /\ mapping'[m] = id
          /\ \A n \in subscribed : mapping'[n] = mapping[n]
      <3>1. /\ AddMapping(m, id) \in [subscribed \cup {m} -> Ids]
            /\ AddMapping(m, id)[m] = id
            /\ \A n \in subscribed : n # m => AddMapping(m, id)[n] = mapping[n]
        <4>1. mapping \in [subscribed -> Ids]
          BY <1>1 DEF HapticsTypeOK
        <4> QED BY <4>1, AddMappingType
      <3> QED BY <1>1, <1>6, <3>1
    <2>2. HapticsTypeOK'
      BY <1>1, <1>2, <1>6, <2>1 DEF HapticsTypeOK
    <2>3. NotShared'
      BY <1>1, <1>3, <1>6, <2>1 DEF NotShared
    <2>4. EndlessHasClient'
      <3> SUFFICES ASSUME NEW n \in Ids \ lost', playing'[n] = "endless"
                   PROVE  \E k \in subscribed' : mapping'[k] = n
        BY <2>1 DEF EndlessHasClient, Mapped
      <3>1. CASE n = id
        BY <1>6, <2>1, <3>1
      <3>2. CASE n # id
        <4>1. n \in Ids \ lost /\ playing[n] = "endless"
          BY <1>2, <1>6, <3>2
        <4>2. PICK k \in subscribed : mapping[k] = n
          BY <1>1, <1>3, <4>1 DEF EndlessHasClient, Mapped
        <4>3. k \in subscribed' /\ mapping'[k] = n
          BY <1>6, <2>1, <4>2
        <4> QED BY <4>3
      <3> QED BY <3>1, <3>2
    <2> QED BY <2>2, <2>3, <2>4 DEF EffectsInv
  <1> QED
    BY <1>4, <1>5, <1>6 DEF Play

(* The effect of a client that leaves is stopped, or counts as lost. *)
LEMMA CancelEffects ==
  ASSUME EffectsInv, NEW m \in Messages, CancelSubscription(m)
  PROVE  EffectsInv'
  <1>1. /\ HapticsTypeOK /\ NotShared /\ EndlessHasClient
        /\ m \in subscribed
        /\ subscribed' = subscribed \ {m}
        /\ mapping' = RemoveMapping(m)
    BY DEF EffectsInv, CancelSubscription
  <1>2. DOMAIN mapping = subscribed /\ Lookup(m) = mapping[m]
    BY <1>1 DEF HapticsTypeOK, Lookup
  <1>3. /\ mapping' \in [subscribed' -> Ids]
        /\ \A n \in subscribed' : mapping'[n] = mapping[n]
    BY <1>1, RemoveMappingType DEF HapticsTypeOK
  <1>4. NotShared'
    BY <1>1, <1>3 DEF NotShared
  <1>5. /\ playing' \in [Ids -> {"none", "finite", "endless"}]
        /\ \A n \in Ids \ {mapping[m]} :
             playing'[n] = playing[n] /\ (n \in lost' <=> n \in lost)
        /\ mapping[m] \in lost' \/ playing'[mapping[m]] # "endless"
    <2>1. Cancel(mapping[m])
      BY <1>2 DEF CancelSubscription
    <2>2. mapping[m] \in Ids
      BY <1>1 DEF HapticsTypeOK
    <2>3. CASE /\ playing' = [n \in Ids |-> IF n = mapping[m] THEN "none"
                                            ELSE playing[n]]
               /\ lost' = lost \ {mapping[m]}
      BY <1>1, <2>2, <2>3 DEF HapticsTypeOK
    <2>4. CASE lost' = lost \cup {mapping[m]} /\ UNCHANGED playing
      BY <1>1, <2>2, <2>4 DEF HapticsTypeOK
    <2>5. \/ /\ playing' = [n \in Ids |-> IF n = mapping[m] THEN "none"
                                        ELSE playing[n]]
             /\ lost' = lost \ {mapping[m]}
          \/ lost' = lost \cup {mapping[m]} /\ UNCHANGED playing
      BY <2>1 DEF Cancel
    <2> QED BY <2>3, <2>4, <2>5
  <1>6. EndlessHasClient'
    <2> SUFFICES ASSUME NEW n \in Ids \ lost', playing'[n] = "endless"
                 PROVE  \E k \in subscribed' : mapping'[k] = n
      BY <1>3 DEF EndlessHasClient, Mapped
    <2>1. n # mapping[m]
      BY <1>5
    <2>2. n \in Ids \ lost /\ playing[n] = "endless"
      BY <1>5, <2>1
    <2>3. PICK k \in subscribed : mapping[k] = n
      BY <1>1, <1>2, <2>2 DEF EndlessHasClient, Mapped
    <2> QED BY <1>1, <1>3, <2>1, <2>3
  <1> QED
    BY <1>1, <1>3, <1>4, <1>5, <1>6 DEF EffectsInv, HapticsTypeOK

LEMMA NextEffects == EffectsInv /\ [Next]_vars => EffectsInv'
  <1> SUFFICES ASSUME EffectsInv, [Next]_vars PROVE EffectsInv'
    OBVIOUS
  <1>1. ASSUME NEW m \in Messages, NEW id \in Ids, NEW duration \in {0, 1},
               Vibrate(m, id, duration)
        PROVE  EffectsInv'
    BY <1>1, PlayEffects DEF Vibrate
  <1>2. ASSUME NEW m \in Messages, NEW id \in Ids, NEW continuous \in BOOLEAN,
               VibrateNamedEffect(m, id, continuous)
        PROVE  EffectsInv'
    BY <1>2, PlayEffects DEF VibrateNamedEffect
  <1>3. ASSUME NEW m \in Messages, CancelSubscription(m) PROVE EffectsInv'
    BY <1>3, CancelEffects
  <1>4. ASSUME NEW id \in Ids, EffectEnds(id) PROVE EffectsInv'
    BY <1>4 DEF EffectEnds, EffectsInv, HapticsTypeOK, NotShared,
                EndlessHasClient, Mapped
  <1>5. CASE UNCHANGED vars
    BY <1>5 DEF vars, EffectsInv, HapticsTypeOK, NotShared,
                EndlessHasClient, Mapped
  <1> QED
    BY <1>1, <1>2, <1>3, <1>4, <1>5 DEF Next

(* The table has an entry for each message that is kept, and no other. *)
THEOREM HapticsTypesAlways == Spec => []HapticsTypeOK
  <1>1. EffectsInv => HapticsTypeOK
    BY DEF EffectsInv
  <1> QED BY <1>1, InitEffects, NextEffects, PTL DEF Spec

(* A vibration without an end has a client that is still there, unless a   *)
(* call of the device or the bus has failed.                               *)
THEOREM EndlessHasClientAlways == Spec => []EndlessHasClient
  <1>1. EffectsInv => EndlessHasClient
    BY DEF EffectsInv
  <1> QED BY <1>1, InitEffects, NextEffects, PTL DEF Spec

(* A client's vibration goes on while it stays, whoever comes and goes:    *)
(* the step that ends an effect is its own client's, for none is shared.   *)
LEMMA StepStays ==
  EffectsInv /\ [Next]_vars
  => \A m \in subscribed \cap subscribed' :
       playing[mapping[m]] = "endless" => playing'[mapping[m]] = "endless"
  <1> SUFFICES ASSUME EffectsInv, [Next]_vars,
                      NEW m \in subscribed, m \in subscribed',
                      playing[mapping[m]] = "endless"
               PROVE  playing'[mapping[m]] = "endless"
    OBVIOUS
  <1>1. HapticsTypeOK /\ NotShared /\ mapping[m] \in Ids
        /\ DOMAIN mapping = subscribed
    BY DEF EffectsInv, HapticsTypeOK
  <1>2. ASSUME NEW n \in Messages, NEW id \in Ids, NEW length, NEW keep,
               Play(n, id, length, keep)
        PROVE  playing'[mapping[m]] = "endless"
    <2>1. id # mapping[m] /\ playing' = [playing EXCEPT ![id] = length]
      BY <1>1, <1>2 DEF Play, Unused
    <2> QED BY <1>1, <2>1 DEF HapticsTypeOK
  <1>3. ASSUME NEW n \in Messages, CancelSubscription(n)
        PROVE  playing'[mapping[m]] = "endless"
    <2>1. n # m /\ n \in subscribed /\ Cancel(mapping[n])
      BY <1>1, <1>3 DEF CancelSubscription, Lookup
    <2>2. mapping[n] # mapping[m]
      BY <1>1, <2>1 DEF NotShared
    <2> QED BY <1>1, <2>1, <2>2 DEF Cancel
  <1>4. ASSUME NEW id \in Ids, EffectEnds(id)
        PROVE  playing'[mapping[m]] = "endless"
    BY <1>1, <1>4 DEF EffectEnds, HapticsTypeOK
  <1>5. CASE UNCHANGED vars
    BY <1>5 DEF vars
  <1> QED
    BY <1>2, <1>3, <1>4, <1>5 DEF Next, Vibrate, VibrateNamedEffect

THEOREM StaysWhileAskedAlways == Spec => StaysWhileAsked
  <1> QED
    BY InitEffects, NextEffects, StepStays, PTL DEF Spec, StaysWhileAsked

=============================================================================
