------------------------ MODULE DeviceSecurity_proofs ------------------------
(***************************************************************************)
(* The policies and the passcode, for any number of accounts and any       *)
(* policies, whatever arrives in whatever order: the types; one watch at   *)
(* most; no passcode with a long run; no more retries than the policy      *)
(* allows; one device policy, a passcode that fits it and retries that are *)
(* counted, if the database and the clients behave; and no change that the *)
(* watch misses.                                                           *)
(*                                                                         *)
(* From the retries on they rest on the order of the messages since the    *)
(* start, which Before and None speak of.                                  *)
(***************************************************************************)
EXTENDS DeviceSecurity, EASPolicy_proofs

LEMMA SeqOf ==
  ASSUME NEW S, NEW n \in Nat, NEW s \in [1 .. n -> S]
  PROVE  s \in Seq(S)
  OBVIOUS

LEMMA SeqExcept ==
  ASSUME NEW S, NEW s \in Seq(S), NEW i, NEW x \in S
  PROVE  [s EXCEPT ![i] = x] \in Seq(S)
  <1>1. s \in [1 .. Len(s) -> S] /\ Len(s) \in Nat
    OBVIOUS
  <1>2. [s EXCEPT ![i] = x] \in [1 .. Len(s) -> S]
    BY <1>1
  <1> QED BY <1>1, <1>2, SeqOf

(* Messages. *)
LEMMA SendType ==
  ASSUME NEW m \in MemoryType, NEW c \in Call
  PROVE  Send(m, c) \in MemoryType
  <1>1. m.calls \in Seq(Call)
    BY DEF MemoryType
  <1>2. Append(m.calls, c) \in Seq(Call)
    BY <1>1
  <1> QED BY <1>2 DEF Send, MemoryType

LEMMA VoidType ==
  ASSUME NEW S, [kind |-> "void"] \in S, NEW s \in Seq(S), NEW k
  PROVE  Void(s, k) \in Seq(S)
  <1>1. \A i \in DOMAIN s : s[i] \in S
    OBVIOUS
  <1>2. DOMAIN s = 1 .. Len(s) /\ Len(s) \in Nat
    OBVIOUS
  <1> QED BY <1>1, <1>2 DEF Void

LEMMA CancelWatchType ==
  ASSUME NEW m \in MemoryType
  PROVE  CancelWatch(m) \in MemoryType
  <1>1. m.calls \in Seq(Call) /\ m.replies \in Seq(ReplyMessage)
    BY DEF MemoryType
  <1>2. [kind |-> "void"] \in Call /\ [kind |-> "void"] \in ReplyMessage
    BY DEF Call, ReplyMessage
  <1>3. Void(m.calls, "watch") \in Seq(Call) /\ Void(m.replies, "fired") \in Seq(ReplyMessage)
    BY <1>1, <1>2, VoidType
  <1> QED BY <1>3 DEF CancelWatch, MemoryType

LEMMA WatchType ==
  ASSUME NEW m \in MemoryType
  PROVE  WatchSecurityPolicies(m) \in MemoryType
  <1>1. [kind |-> "watch", behind |-> m.behind] \in Call
    BY DEF Call, MemoryType
  <1>2. Send(CancelWatch(m), [kind |-> "watch", behind |-> m.behind]) \in MemoryType
    BY <1>1, CancelWatchType, SendType
  <1> QED BY <1>2 DEF WatchSecurityPolicies, MemoryType

LEMMA SaveType ==
  ASSUME NEW m \in MemoryType
  PROVE  Save(m) \in MemoryType
  <1>1. [policy |-> m.aggregate, enforced |-> m.isEnforced, retries |-> m.retriesLeft]
          \in DevicePolicy
    BY DEF DevicePolicy, MemoryType
  <1>2. [kind |-> "save", id |-> m.id,
         object |-> [policy |-> m.aggregate, enforced |-> m.isEnforced,
                     retries |-> m.retriesLeft]] \in Call
    BY <1>1 DEF Call, MemoryType
  <1> QED BY <1>2, CancelWatchType, SendType DEF Save

LEMMA QueryType ==
  ASSUME NEW m \in MemoryType
  PROVE  QueryDevicePolicy(m) \in MemoryType /\ QuerySecurityPolicies(m) \in MemoryType
  <1>1. [kind |-> "findDevice"] \in Call /\ [kind |-> "find"] \in Call
    BY DEF Call
  <1> QED BY <1>1, SendType DEF QueryDevicePolicy, QuerySecurityPolicies

-----------------------------------------------------------------------------
(* Changes of the policy. *)

LEMMA SlotType ==
  ASSUME NEW m \in MemoryType
  PROVE  SlotPolicyChanged(m) \in MemoryType
  BY DEF SlotPolicyChanged, MemoryType

LEMMA NotifyType ==
  ASSUME NEW m \in MemoryType
  PROVE  NotifyPolicyChanged(m) \in MemoryType
  <1>1. PasscodeSatisfiesPolicy(m.aggregate) \in BOOLEAN
    BY DEF PasscodeSatisfiesPolicy, DecryptedPasscode, MemoryType, Policy
  <1>2. [m EXCEPT !.isEnforced = PasscodeSatisfiesPolicy(m.aggregate)] \in MemoryType
    BY <1>1 DEF MemoryType
  <1> QED BY <1>2, SlotType, SaveType DEF NotifyPolicyChanged

LEMMA SetDefaultType ==
  ASSUME NEW m \in MemoryType, written \in BOOLEAN
  PROVE  SetDefaultPolicy(m) \in MemoryType
  <1>1. DefaultPolicy \in Policy
    BY DEF DefaultPolicy, Policy
  <1>2. [m EXCEPT !.aggregate = DefaultPolicy, !.id = 0, !.behind = written] \in MemoryType
    BY <1>1 DEF MemoryType
  <1> QED BY <1>2, NotifyType DEF SetDefaultPolicy

LEMMA UpdateType ==
  ASSUME NEW m \in MemoryType, NEW policies \in Seq(Policy \cup {NoPolicy}),
         NEW behind \in BOOLEAN
  PROVE  UpdateDevicePolicy(m, policies, behind) \in MemoryType
  <1> DEFINE a == Aggregate(policies)
             n == [m EXCEPT !.aggregate = a,
                            !.behind = behind,
                            !.retriesLeft = IF a.maxRetries # m.aggregate.maxRetries
                                              THEN a.maxRetries ELSE @]
  <1>1. a \in Policy
    BY AggregateType
  <1> HIDE DEF a
  <1>2. n \in MemoryType
    BY <1>1 DEF MemoryType, Policy
  <1>3. UpdateDevicePolicy(m, policies, behind) =
          IF a = m.aggregate THEN WatchSecurityPolicies(n) ELSE NotifyPolicyChanged(n)
    BY DEF UpdateDevicePolicy, a
  <1> HIDE DEF n
  <1> QED BY <1>2, <1>3, WatchType, NotifyType

LEMMA RetriesType ==
  ASSUME NEW m \in MemoryType
  PROVE  /\ PasswordEnforced(m) \in MemoryType
         /\ DecrementRetries(m) \in MemoryType
         /\ ResetRetries(m) \in MemoryType
  <1>1. m.aggregate.maxRetries \in Nat /\ m.retriesLeft \in Nat
    BY DEF MemoryType, Policy
  <1>2. PasswordEnforced(m) \in MemoryType
    <2>1. [m EXCEPT !.isEnforced = TRUE, !.retriesLeft = m.aggregate.maxRetries] \in MemoryType
      BY <1>1 DEF MemoryType
    <2> QED BY <2>1, SlotType, SaveType DEF PasswordEnforced
  <1>3. DecrementRetries(m) \in MemoryType
    <2>1. (IF m.retriesLeft > 0 THEN m.retriesLeft - 1 ELSE m.retriesLeft) \in Nat
      BY <1>1
    <2>2. [m EXCEPT !.retriesLeft = IF @ > 0 THEN @ - 1 ELSE @] \in MemoryType
      BY <2>1 DEF MemoryType
    <2> QED BY <2>2, SaveType DEF DecrementRetries
  <1>4. ResetRetries(m) \in MemoryType
    <2>1. [m EXCEPT !.retriesLeft = m.aggregate.maxRetries] \in MemoryType
      BY <1>1 DEF MemoryType
    <2> QED BY <2>1, SaveType DEF ResetRetries
  <1> QED BY <1>2, <1>3, <1>4

(* The database's side of the messages. *)
LEMMA ReceivedType ==
  ASSUME pm \in MemoryType, pm.replies # <<>>
  PROVE  Received \in MemoryType /\ Head(pm.replies) \in ReplyMessage
  <1>1. pm.replies \in Seq(ReplyMessage)
    BY DEF MemoryType
  <1>2. Tail(pm.replies) \in Seq(ReplyMessage) /\ Head(pm.replies) \in ReplyMessage
    BY <1>1
  <1> QED BY <1>2 DEF Received, MemoryType

LEMMA ServedType ==
  ASSUME pm \in MemoryType, pm.calls # <<>>
  PROVE  Served \in MemoryType /\ Head(pm.calls) \in Call
  <1>1. pm.calls \in Seq(Call)
    BY DEF MemoryType
  <1>2. Tail(pm.calls) \in Seq(Call) /\ Head(pm.calls) \in Call
    BY <1>1
  <1> QED BY <1>2 DEF Served, MemoryType

LEMMA RepliedType ==
  ASSUME NEW m \in MemoryType, NEW r \in ReplyMessage
  PROVE  Replied(m, r) \in MemoryType
  <1>1. m.replies \in Seq(ReplyMessage)
    BY DEF MemoryType
  <1>2. Append(m.replies, r) \in Seq(ReplyMessage)
    BY <1>1
  <1> QED BY <1>2 DEF Replied, MemoryType

LEMMA BehindType ==
  ASSUME NEW m \in MemoryType, up \in BOOLEAN
  PROVE  Behind(m) \in MemoryType
  <1> DEFINE c == [i \in DOMAIN m.calls |->
                     IF m.calls[i].kind = "watch" THEN [m.calls[i] EXCEPT !.behind = TRUE]
                                                  ELSE m.calls[i]]
             r == [i \in DOMAIN m.replies |->
                     IF m.replies[i].kind = "policies"
                       THEN [m.replies[i] EXCEPT !.behind = TRUE]
                       ELSE m.replies[i]]
  <1>1. m.calls \in Seq(Call) /\ m.replies \in Seq(ReplyMessage)
    BY DEF MemoryType
  <1>2. \A i \in DOMAIN m.calls : c[i] \in Call
    <2>1. SUFFICES ASSUME NEW i \in DOMAIN m.calls
                   PROVE  c[i] \in Call
      OBVIOUS
    <2>2. m.calls[i] \in Call
      BY <1>1
    <2>3. m.calls[i].kind = "watch" => [m.calls[i] EXCEPT !.behind = TRUE] \in Call
      BY <2>2 DEF Call
    <2> QED BY <2>2, <2>3
  <1>3. \A i \in DOMAIN m.replies : r[i] \in ReplyMessage
    <2>1. SUFFICES ASSUME NEW i \in DOMAIN m.replies
                   PROVE  r[i] \in ReplyMessage
      OBVIOUS
    <2>2. m.replies[i] \in ReplyMessage
      BY <1>1
    <2>3. m.replies[i].kind = "policies"
            => [m.replies[i] EXCEPT !.behind = TRUE] \in ReplyMessage
      BY <2>2 DEF ReplyMessage
    <2> QED BY <2>2, <2>3
  <1>4. c \in Seq(Call)
    <2>1. DOMAIN m.calls = 1 .. Len(m.calls) /\ Len(m.calls) \in Nat
      BY <1>1
    <2>2. c \in [1 .. Len(m.calls) -> Call]
      BY <1>2, <2>1
    <2> QED BY <2>1, <2>2, SeqOf
  <1>5. r \in Seq(ReplyMessage)
    <2>1. DOMAIN m.replies = 1 .. Len(m.replies) /\ Len(m.replies) \in Nat
      BY <1>1
    <2>2. r \in [1 .. Len(m.replies) -> ReplyMessage]
      BY <1>3, <2>1
    <2> QED BY <2>1, <2>2, SeqOf
  <1>6. Behind(m) = [m EXCEPT !.behind = up,
                              !.watch = IF @ = "none" THEN @ ELSE "behind",
                              !.calls = c,
                              !.replies = r]
    BY DEF Behind
  <1> HIDE DEF c, r
  <1> QED BY <1>4, <1>5, <1>6 DEF MemoryType

-----------------------------------------------------------------------------
(* The invariant: the accounts' policies are a list, for Aggregate() to be *)
(* about one.                                                              *)
TypeInv == DeviceTypeOK /\ slots \in [Accounts -> Policy \cup {NoPolicy}]

(* Steps that change the program's memory only. *)
LEMMA MemoryStep ==
  ASSUME TypeInv, pm' \in MemoryType, UNCHANGED elsewhere
  PROVE  TypeInv'
  BY DEF TypeInv, DeviceTypeOK, elsewhere, Accounts

LEMMA MemoryIsTyped == Memory \in MemoryType
  <1>1. DefaultPolicy \in Policy
    BY DEF DefaultPolicy, Policy
  <1> QED BY <1>1 DEF Memory, MemoryType, DefaultMaxRetries

LEMMA InitType == Init => TypeInv
  <1>1. Memory \in MemoryType
    BY MemoryIsTyped
  <1>2. MaxTries \in Nat
    BY SecurityAssumption DEF SecurityAssumption
  <1>3. ASSUME slots = [a \in Accounts |-> NoPolicy]
        PROVE  /\ slots \in [Accounts -> Policy \cup {NoPolicy}] /\ DOMAIN slots = Accounts
               /\ \A a \in Accounts : slots[a] \in Policies[a] \cup {NoPolicy}
    BY <1>3
  <1>4. <<>> \in Seq(DevicePolicy) /\ 0 \in 0 .. MaxTries
    BY <1>2
  <1> QED BY <1>1, <1>3, <1>4 DEF Init, TypeInv, DeviceTypeOK

LEMMA CallbacksType ==
  ASSUME TypeInv, Callbacks
  PROVE  TypeInv'
  <1>1. pm \in MemoryType /\ written \in BOOLEAN
    BY DEF TypeInv, DeviceTypeOK
  <1>2. pm.replies # <<>>
    BY DEF Callbacks, CbTempPoliciesDeleted, CbDevicePolicy, CbSecurityPolicy,
           CbDevicePolicySaved, CbWatchResponse, DropReply, Reply
  <1>3. Received \in MemoryType /\ Head(pm.replies) \in ReplyMessage
    BY <1>1, <1>2, ReceivedType
  <1> DEFINE r == Head(pm.replies)
  <1>4. CASE CbTempPoliciesDeleted
    BY <1>3, <1>4, QueryType, MemoryStep DEF CbTempPoliciesDeleted
  <1>5. CASE CbDevicePolicy
    <2> DEFINE m == [Received EXCEPT !.loaded = TRUE]
    <2>1. m \in MemoryType
      BY <1>3 DEF MemoryType
    <2>2. r.found.id = 0 \/ r.found \in [id: Nat, object: DevicePolicy]
      BY <1>3, <1>5 DEF CbDevicePolicy, Reply, ReplyMessage, NoObject
    <2>3. SetDefaultPolicy(m) \in MemoryType
      BY <1>1, <2>1, SetDefaultType
    <2>4. r.found.id # 0 => SetDevicePolicy(m, r.found) \in MemoryType
      BY <1>1, <2>1, <2>2 DEF SetDevicePolicy, MemoryType, DevicePolicy
    <2>5. pm' = QuerySecurityPolicies(IF r.found.id = 0 THEN SetDefaultPolicy(m)
                                                        ELSE SetDevicePolicy(m, r.found))
      BY <1>5 DEF CbDevicePolicy
    <2> HIDE DEF m
    <2>6. (IF r.found.id = 0 THEN SetDefaultPolicy(m) ELSE SetDevicePolicy(m, r.found))
            \in MemoryType
      BY <2>3, <2>4
    <2>7. pm' \in MemoryType
      BY <2>5, <2>6, QueryType
    <2> QED BY <1>5, <2>7, MemoryStep DEF CbDevicePolicy
  <1>6. CASE CbSecurityPolicy
    <2>1. r.policies \in Seq(Policy \cup {NoPolicy}) /\ r.behind \in BOOLEAN
      BY <1>3, <1>6 DEF CbSecurityPolicy, Reply, ReplyMessage
    <2>2. UpdateDevicePolicy(Received, r.policies, r.behind) \in MemoryType
      BY <1>3, <2>1, UpdateType
    <2>3. pm' \in MemoryType
      BY <1>3, <1>6, <2>2 DEF CbSecurityPolicy
    <2> QED BY <1>6, <2>3, MemoryStep DEF CbSecurityPolicy
  <1>7. CASE CbDevicePolicySaved
    <2>1. r.id \in Nat
      BY <1>3, <1>7 DEF CbDevicePolicySaved, Reply, ReplyMessage
    <2>2. [Received EXCEPT !.id = IF r.id # 0 THEN r.id ELSE @] \in MemoryType
      BY <1>3, <2>1 DEF MemoryType
    <2>3. pm' \in MemoryType
      BY <1>7, <2>2, WatchType DEF CbDevicePolicySaved
    <2> QED BY <1>7, <2>3, MemoryStep DEF CbDevicePolicySaved
  <1>8. CASE CbWatchResponse
    <2>1. [Received EXCEPT !.token = FALSE] \in MemoryType
      BY <1>3 DEF MemoryType
    <2> QED BY <1>8, <2>1, QueryType, MemoryStep DEF CbWatchResponse
  <1>9. CASE DropReply
    BY <1>3, <1>9, MemoryStep DEF DropReply
  <1> QED BY <1>4, <1>5, <1>6, <1>7, <1>8, <1>9 DEF Callbacks

(* What the database does leaves the rest of the program alone. *)
LEMMA DatabaseStep ==
  ASSUME TypeInv, pm' \in MemoryType, UNCHANGED <<program, slots>>,
         devices' \in Seq(DevicePolicy), written' \in BOOLEAN
  PROVE  TypeInv'
  BY DEF TypeInv, DeviceTypeOK, program, Accounts

LEMMA DatabaseType ==
  ASSUME TypeInv, Database
  PROVE  TypeInv'
  <1>1. /\ pm \in MemoryType /\ up \in BOOLEAN /\ written \in BOOLEAN
        /\ devices \in Seq(DevicePolicy) /\ DOMAIN slots = Accounts
        /\ slots \in [Accounts -> Policy \cup {NoPolicy}]
        /\ \A a \in Accounts : slots[a] \in Policies[a] \cup {NoPolicy}
    BY DEF TypeInv, DeviceTypeOK
  <1>2. pm.calls # <<>> => Served \in MemoryType /\ Head(pm.calls) \in Call
    BY <1>1, ServedType
  <1>3. pm.calls # <<>> => Behind(Served) \in MemoryType
    BY <1>1, <1>2, BehindType
  <1>4. CASE ServeDel
    <2> DEFINE r == [kind |-> "deleted"]
    <2>1. r \in ReplyMessage
      BY DEF ReplyMessage
    <2>2. Replied(Served, r) \in MemoryType /\ Replied(Behind(Served), r) \in MemoryType
      BY <1>2, <1>3, <1>4, <2>1, RepliedType DEF ServeDel, Serves
    <2>3. pm' \in MemoryType /\ UNCHANGED <<program, devices, written>>
      BY <1>4, <2>2 DEF ServeDel
    <2>4. /\ slots' \in [Accounts -> Policy \cup {NoPolicy}]
          /\ DOMAIN slots' = Accounts
          /\ \A a \in Accounts : slots'[a] \in Policies[a] \cup {NoPolicy}
      BY <1>1, <1>4 DEF ServeDel
    <2> QED BY <1>1, <2>3, <2>4 DEF TypeInv, DeviceTypeOK, program, Accounts
  <1>5. CASE ServeFindDevice
    <2>1. PICK found \in {[id |-> i, object |-> devices[i]] : i \in DOMAIN devices}
                           \cup {NoObject} :
            pm' = Replied(Served, [kind |-> "device", found |-> found])
      BY <1>5 DEF ServeFindDevice
    <2>2. \A i \in DOMAIN devices : i \in Nat /\ devices[i] \in DevicePolicy
      BY <1>1
    <2>3. [kind |-> "device", found |-> found] \in ReplyMessage
      BY <2>1, <2>2 DEF ReplyMessage
    <2>4. pm' \in MemoryType
      BY <1>2, <1>5, <2>1, <2>3, RepliedType DEF ServeFindDevice, Serves
    <2> QED BY <1>1, <1>5, <2>4, DatabaseStep DEF ServeFindDevice, program
  <1>6. CASE ServeFind
    <2>1. PICK ok \in BOOLEAN :
            pm' = Replied(Served, [kind |-> "policies", ok |-> ok,
                                   policies |-> IF ok THEN slots ELSE <<>>,
                                   behind |-> FALSE])
      BY <1>6 DEF ServeFind
    <2>2. slots \in Seq(Policy \cup {NoPolicy})
      BY <1>1, SecurityAssumption, SeqOf DEF SecurityAssumption, Accounts
    <2>3. (IF ok THEN slots ELSE <<>>) \in Seq(Policy \cup {NoPolicy})
      BY <2>2
    <2>4. [kind |-> "policies", ok |-> ok, policies |-> IF ok THEN slots ELSE <<>>,
           behind |-> FALSE] \in ReplyMessage
      BY <2>3 DEF ReplyMessage
    <2>5. pm' \in MemoryType
      BY <1>2, <1>6, <2>1, <2>4, RepliedType DEF ServeFind, Serves
    <2> QED BY <1>1, <1>6, <2>5, DatabaseStep DEF ServeFind, program
  <1>7. ASSUME NEW m \in MemoryType, NEW id \in Nat
        PROVE  Saved(m, id) \in MemoryType
    <2>1. [kind |-> "saved", id |-> id] \in ReplyMessage
      BY DEF ReplyMessage
    <2> QED BY <1>7, <2>1, RepliedType DEF Saved
  <1>8. CASE ServeSave
    <2> DEFINE c == Head(pm.calls)
               id == IF c.id = 0 THEN Len(devices) + 1 ELSE c.id
    <2>1. c.id \in Nat /\ c.object \in DevicePolicy
      BY <1>2, <1>8 DEF ServeSave, Serves, Call
    <2>2. id \in Nat /\ Append(devices, c.object) \in Seq(DevicePolicy)
      BY <1>1, <2>1
    <2>3. [devices EXCEPT ![id] = c.object] \in Seq(DevicePolicy)
      BY <1>1, <2>1, SeqExcept
    <2>4. pm' = Saved(Behind(Served), id) /\ pm.calls # <<>>
      BY <1>8 DEF ServeSave, Serves
    <2>5. pm' \in MemoryType
      BY <1>3, <1>7, <2>2, <2>4
    <2>6. devices' \in Seq(DevicePolicy) /\ written' = TRUE
      BY <1>8, <2>2, <2>3 DEF ServeSave
    <2> QED BY <1>8, <2>5, <2>6, DatabaseStep DEF ServeSave
  <1>9. CASE RefuseSave
    <2>1. pm' \in MemoryType
      BY <1>2, <1>7, <1>9 DEF RefuseSave, Serves
    <2> QED BY <1>1, <1>9, <2>1, DatabaseStep DEF RefuseSave, program
  <1>10. CASE ServeWatch
    <2>1. pm' \in MemoryType
      BY <1>2, <1>10 DEF ServeWatch, Serves, MemoryType
    <2> QED BY <1>1, <1>10, <2>1, DatabaseStep DEF ServeWatch, program
  <1>11. CASE RefuseWatch
    BY <1>1, <1>2, <1>11, DatabaseStep DEF RefuseWatch, Serves, program
  <1>12. CASE DropCall
    BY <1>1, <1>2, <1>12, DatabaseStep DEF DropCall, Serves, program
  <1>13. CASE FireWatch
    <2>1. [kind |-> "fired"] \in ReplyMessage /\ [pm EXCEPT !.watch = "none"] \in MemoryType
      BY <1>1 DEF ReplyMessage, MemoryType
    <2>2. pm' \in MemoryType
      BY <1>13, <2>1, RepliedType DEF FireWatch
    <2> QED BY <1>1, <1>13, <2>2, DatabaseStep DEF FireWatch, program
  <1> QED BY <1>4, <1>5, <1>6, <1>8, <1>9, <1>10, <1>11, <1>12, <1>13 DEF Database

LEMMA StartType ==
  ASSUME TypeInv, Start
  PROVE  TypeInv'
  <1>1. [kind |-> "del"] \in Call
    BY DEF Call
  <1>2. [pm EXCEPT !.behind = written] \in MemoryType
    BY DEF TypeInv, DeviceTypeOK, MemoryType
  <1>3. pm' \in MemoryType
    BY <1>1, <1>2, SendType DEF Start
  <1> QED BY <1>3 DEF Start, TypeInv, DeviceTypeOK, Accounts

LEMMA CrashType ==
  ASSUME TypeInv, Crash
  PROVE  TypeInv'
  <1>1. pm.calls \in Seq(Call)
    BY DEF TypeInv, DeviceTypeOK, MemoryType
  <1>2. \A i \in DOMAIN pm.calls : Orphans[i] \in Call
    <2>1. SUFFICES ASSUME NEW i \in DOMAIN pm.calls
                   PROVE  Orphans[i] \in Call
      OBVIOUS
    <2>2. pm.calls[i] \in Call
      BY <1>1
    <2>3. [kind |-> "void"] \in Call
      BY DEF Call
    <2>4. CASE pm.calls[i].kind \in {"save", "orphan"}
      <3>1. pm.calls[i].id \in Nat /\ pm.calls[i].object \in DevicePolicy
        BY <2>2, <2>4 DEF Call
      <3>2. [kind |-> "orphan", id |-> pm.calls[i].id, object |-> pm.calls[i].object] \in Call
        BY <3>1 DEF Call
      <3> QED BY <2>4, <3>2 DEF Orphans
    <2>5. CASE pm.calls[i].kind \notin {"save", "orphan"}
      BY <2>3, <2>5 DEF Orphans
    <2> QED BY <2>4, <2>5
  <1>3. DOMAIN pm.calls = 1 .. Len(pm.calls) /\ Len(pm.calls) \in Nat
    BY <1>1
  <1>4. Orphans \in [1 .. Len(pm.calls) -> Call]
    BY <1>2, <1>3 DEF Orphans
  <1>5. Orphans \in Seq(Call)
    BY <1>3, <1>4, SeqOf
  <1>6. [Memory EXCEPT !.calls = Orphans] \in MemoryType
    BY <1>5, MemoryIsTyped DEF MemoryType
  <1> QED BY <1>6 DEF Crash, TypeInv, DeviceTypeOK, Accounts

LEMMA WipeType ==
  ASSUME TypeInv, CbDeviceWipe
  PROVE  TypeInv'
  <1>1. CASE pm' = [pm EXCEPT !.wiping = FALSE] /\ UNCHANGED elsewhere
    <2>1. [pm EXCEPT !.wiping = FALSE] \in MemoryType
      BY DEF TypeInv, DeviceTypeOK, MemoryType
    <2> QED BY <1>1, <2>1, MemoryStep
  <1>2. CASE Init'
    BY <1>2, InitType, PTL
  <1> QED BY <1>1, <1>2 DEF CbDeviceWipe, Init

LEMMA SetPasscodeType ==
  ASSUME TypeInv, NEW c \in Passcodes \cup {NoPasscode},
         NEW d \in DiskFails \cup {"no"}, SetPasscode(c, d)
  PROVE  TypeInv'
  <1>1. pm \in MemoryType /\ stored \in Passcodes \cup {NoPasscode, Garbage}
    BY DEF TypeInv, DeviceTypeOK
  <1>2. pm' \in MemoryType
    BY <1>1, RetriesType DEF SetPasscode
  <1>3. stored' \in Passcodes \cup {NoPasscode, Garbage}
    BY <1>1 DEF SetPasscode, FileAfter
  <1>4. tries' \in 0 .. MaxTries
    BY SecurityAssumption DEF SetPasscode, TypeInv, DeviceTypeOK, SecurityAssumption
  <1> QED BY <1>2, <1>3, <1>4 DEF SetPasscode, TypeInv, DeviceTypeOK, Accounts

LEMMA MatchType ==
  ASSUME TypeInv, MatchLockedOut \/ MatchWrong \/ MatchRight
  PROVE  TypeInv'
  <1>1. pm \in MemoryType /\ Attempt \in MemoryType
    BY DEF TypeInv, DeviceTypeOK, MemoryType, Attempt, DefaultMaxRetries
  <1>2. CASE MatchLockedOut
    <2>1. [pm EXCEPT !.lastFailure = "recent"] \in MemoryType
      BY <1>1 DEF MemoryType
    <2> QED BY <1>2, <2>1, MemoryStep DEF MatchLockedOut
  <1>3. CASE MatchWrong
    <2> DEFINE m == [Attempt EXCEPT !.numRetries = IF @ > 0 THEN @ - 1 ELSE @,
                                    !.lastFailure = "recent"]
               n == DecrementRetries(m)
    <2>1. m \in MemoryType
      <3>1. Attempt.numRetries \in Nat
        BY <1>1 DEF MemoryType
      <3>2. (IF Attempt.numRetries > 0 THEN Attempt.numRetries - 1
                                       ELSE Attempt.numRetries) \in Nat
        BY <3>1
      <3> QED BY <1>1, <3>2 DEF MemoryType
    <2>2. n \in MemoryType
      BY <2>1, RetriesType
    <2>3. pm' = IF CountsRetries(m)
                  THEN [n EXCEPT !.numRetries = n.retriesLeft,
                                 !.wiping = @ \/ n.retriesLeft = 0]
                  ELSE m
      BY <1>3 DEF MatchWrong
    <2> HIDE DEF m, n
    <2>4. [n EXCEPT !.numRetries = n.retriesLeft, !.wiping = @ \/ n.retriesLeft = 0]
            \in MemoryType
      BY <2>2 DEF MemoryType
    <2>5. pm' \in MemoryType
      BY <2>1, <2>3, <2>4
    <2>6. tries' \in 0 .. MaxTries
      BY <1>3, SecurityAssumption
      DEF MatchWrong, TypeInv, DeviceTypeOK, SecurityAssumption
    <2> QED BY <1>3, <2>5, <2>6 DEF MatchWrong, TypeInv, DeviceTypeOK, Accounts
  <1>4. CASE MatchRight
    <2> DEFINE n == ResetRetries(Attempt)
    <2>1. n \in MemoryType
      BY <1>1, RetriesType
    <2>2. pm' = IF CountsRetries(pm)
                  THEN [n EXCEPT !.numRetries = n.retriesLeft]
                  ELSE [Attempt EXCEPT !.numRetries =
                          IF PolicyPending(pm) THEN DefaultMaxRetries ELSE 0]
      BY <1>4 DEF MatchRight
    <2> HIDE DEF n
    <2>3. [n EXCEPT !.numRetries = n.retriesLeft] \in MemoryType
      BY <2>1 DEF MemoryType
    <2>4. [Attempt EXCEPT !.numRetries = IF PolicyPending(pm) THEN DefaultMaxRetries ELSE 0]
            \in MemoryType
      BY <1>1 DEF MemoryType, DefaultMaxRetries
    <2>5. pm' \in MemoryType
      BY <2>2, <2>3, <2>4
    <2>6. tries' \in 0 .. MaxTries
      BY <1>4, SecurityAssumption DEF MatchRight, SecurityAssumption
    <2> QED BY <1>4, <2>5, <2>6 DEF MatchRight, TypeInv, DeviceTypeOK, Accounts
  <1> QED BY <1>2, <1>3, <1>4

LEMMA ChangePolicyType ==
  ASSUME TypeInv, NEW a \in Accounts, ChangePolicy(a)
  PROVE  TypeInv'
  <1>1. pm \in MemoryType /\ up \in BOOLEAN
    BY DEF TypeInv, DeviceTypeOK
  <1>2. pm' \in MemoryType
    BY <1>1, BehindType DEF ChangePolicy
  <1>3. PICK p \in Policies[a] \cup {NoPolicy} : slots' = [slots EXCEPT ![a] = p]
    BY DEF ChangePolicy
  <1>4. p \in Policy \cup {NoPolicy}
    BY <1>3, SecurityAssumption DEF SecurityAssumption, Accounts
  <1>5. /\ slots' \in [Accounts -> Policy \cup {NoPolicy}]
        /\ DOMAIN slots' = Accounts
        /\ \A b \in Accounts : slots'[b] \in Policies[b] \cup {NoPolicy}
    BY <1>3, <1>4 DEF TypeInv, DeviceTypeOK
  <1> QED BY <1>2, <1>5 DEF ChangePolicy, TypeInv, DeviceTypeOK, program, Accounts

LEMMA NextType ==
  ASSUME TypeInv, [Next]_vars
  PROVE  TypeInv'
  <1>1. CASE Reaction
    BY <1>1, CallbacksType, DatabaseType, StartType DEF Reaction
  <1>2. CASE World
    BY <1>2, SetPasscodeType, MatchType, CrashType, WipeType, ChangePolicyType
    DEF World
  <1>3. CASE TimePasses
    <2>1. [pm EXCEPT !.lastFailure = "past"] \in MemoryType
      BY DEF TypeInv, DeviceTypeOK, MemoryType
    <2> QED BY <1>3, <2>1, MemoryStep DEF TimePasses
  <1>4. CASE UNCHANGED vars
    BY <1>4 DEF vars, TypeInv, DeviceTypeOK, Accounts
  <1> QED BY <1>1, <1>2, <1>3, <1>4 DEF Next

LEMMA TypesInvariant == Spec => []TypeInv
  <1>1. TypeInv /\ [Next]_vars => TypeInv'
    BY NextType
  <1> QED BY InitType, <1>1, PTL DEF Spec

(* Types never break: in particular no count falls below zero, although    *)
(* decrementRetries() and the lock-out subtract from unsigned numbers, and *)
(* whatever the database hands back is a policy.                           *)
THEOREM DeviceTypesAlways == Spec => []DeviceTypeOK
  BY TypesInvariant, PTL DEF TypeInv

-----------------------------------------------------------------------------
(* The watch.                                                              *)

None(s, k) == \A i \in DOMAIN s : s[i].kind # k

AtMostOne(s, k) == \A i, j \in DOMAIN s : s[i].kind = k /\ s[j].kind = k => i = j

LEMMA AppendKinds ==
  ASSUME NEW S, NEW s \in Seq(S), NEW x \in S, NEW k
  PROVE  /\ None(s, k) => AtMostOne(Append(s, x), k)
         /\ x.kind # k => /\ None(s, k) => None(Append(s, x), k)
                          /\ AtMostOne(s, k) => AtMostOne(Append(s, x), k)
  <1> DEFINE t == Append(s, x)
  <1>1. /\ Len(s) \in Nat /\ DOMAIN s = 1 .. Len(s) /\ DOMAIN t = 1 .. (Len(s) + 1)
        /\ t[Len(s) + 1] = x
        /\ \A i \in DOMAIN s : t[i] = s[i]
    OBVIOUS
  <1> HIDE DEF t
  <1>2. \A i \in DOMAIN t : i = Len(s) + 1 \/ i \in DOMAIN s
    BY <1>1
  <1> QED BY <1>1, <1>2 DEF None, AtMostOne, t

LEMMA TailKinds ==
  ASSUME NEW S, NEW s \in Seq(S), s # <<>>, NEW k
  PROVE  /\ None(s, k) => None(Tail(s), k)
         /\ AtMostOne(s, k) => AtMostOne(Tail(s), k)
         /\ AtMostOne(s, k) /\ Head(s).kind = k => None(Tail(s), k)
         /\ None(s, k) => Head(s).kind # k
  <1> DEFINE t == Tail(s)
  <1>1. /\ Len(s) \in Nat /\ DOMAIN s = 1 .. Len(s) /\ 1 \in DOMAIN s
        /\ Head(s) = s[1]
        /\ DOMAIN t \subseteq Nat \ {0}
        /\ \A i \in DOMAIN t : i + 1 \in DOMAIN s /\ t[i] = s[i + 1]
    OBVIOUS
  <1> HIDE DEF t
  <1>2. \A i, j \in DOMAIN t : i + 1 # 1 /\ (i + 1 = j + 1 => i = j)
    BY <1>1
  <1> QED BY <1>1, <1>2 DEF None, AtMostOne, t

(* What OneWatch says of a record in the middle of a handler. *)
NoWatch(m) ==
  None(m.calls, "watch") /\ None(m.replies, "fired") /\ m.watch = "none"

WatchOnce(m) ==
  /\ AtMostOne(m.calls, "watch")
  /\ AtMostOne(m.replies, "fired")
  /\ None(m.calls, "watch") \/ (None(m.replies, "fired") /\ m.watch = "none")
  /\ None(m.replies, "fired") \/ m.watch = "none"
  /\ m.token \/ NoWatch(m)

(* Nothing of a watch comes from m to n that was not there. *)
Tamer(m, n) ==
  /\ None(m.calls, "watch") => None(n.calls, "watch")
  /\ AtMostOne(m.calls, "watch") => AtMostOne(n.calls, "watch")
  /\ None(m.replies, "fired") => None(n.replies, "fired")
  /\ AtMostOne(m.replies, "fired") => AtMostOne(n.replies, "fired")
  /\ m.watch = "none" => n.watch = "none"
  /\ m.token => n.token

LEMMA TamerOnce ==
  ASSUME NEW m, NEW n, WatchOnce(m), Tamer(m, n)
  PROVE  WatchOnce(n)
  BY DEF WatchOnce, Tamer, NoWatch

LEMMA OnceMeansOneWatch == WatchOnce(pm) => OneWatch
  <1> SUFFICES ASSUME WatchOnce(pm)
               PROVE  OneWatch
    OBVIOUS
  <1> DEFINE asked == {i \in DOMAIN pm.calls : pm.calls[i].kind = "watch"}
             fired == {i \in DOMAIN pm.replies : pm.replies[i].kind = "fired"}
  <1>1. /\ asked = {} <=> None(pm.calls, "watch")
        /\ fired = {} <=> None(pm.replies, "fired")
    BY DEF None
  <1>2. (\A i, j \in asked : i = j) /\ (\A i, j \in fired : i = j)
    BY DEF WatchOnce, AtMostOne
  <1>3. OneWatch <=> /\ \A i, j \in asked : i = j
                     /\ \A i, j \in fired : i = j
                     /\ asked # {} => fired = {} /\ pm.watch = "none"
                     /\ fired # {} => pm.watch = "none"
                     /\ asked # {} \/ fired # {} \/ pm.watch # "none" => pm.token
    BY DEF OneWatch
  <1> HIDE DEF asked, fired
  <1> QED BY <1>1, <1>2, <1>3 DEF WatchOnce, NoWatch

LEMMA SendTamer ==
  ASSUME NEW m \in MemoryType, NEW c \in Call, c.kind # "watch"
  PROVE  Tamer(m, Send(m, c))
  <1>1. m.calls \in Seq(Call)
    BY DEF MemoryType
  <1>2. /\ Send(m, c).calls = Append(m.calls, c) /\ Send(m, c).replies = m.replies
        /\ Send(m, c).watch = m.watch /\ Send(m, c).token = m.token
    BY DEF Send, MemoryType
  <1> QED BY <1>1, <1>2, AppendKinds DEF Tamer

LEMMA CancelWatchOnce ==
  ASSUME NEW m \in MemoryType, WatchOnce(m)
  PROVE  NoWatch(CancelWatch(m)) /\ CancelWatch(m).token = FALSE
  <1>1. CASE ~m.token
    BY <1>1 DEF CancelWatch, WatchOnce, MemoryType
  <1>2. CASE m.token
    <2> DEFINE n == CancelWatch(m)
    <2>1. /\ n.calls = Void(m.calls, "watch") /\ n.replies = Void(m.replies, "fired")
          /\ n.watch = "none" /\ n.token = FALSE
      BY <1>2 DEF CancelWatch, MemoryType
    <2>2. None(Void(m.calls, "watch"), "watch") /\ None(Void(m.replies, "fired"), "fired")
      BY DEF None, Void
    <2> QED BY <2>1, <2>2 DEF NoWatch
  <1> QED BY <1>1, <1>2

LEMMA WatchedOnce ==
  ASSUME NEW m \in MemoryType, WatchOnce(m)
  PROVE  WatchOnce(WatchSecurityPolicies(m))
  <1> DEFINE c == [kind |-> "watch", behind |-> m.behind]
             w == CancelWatch(m)
             n == WatchSecurityPolicies(m)
  <1>1. c \in Call
    BY DEF Call, MemoryType
  <1>2. w \in MemoryType /\ w.calls \in Seq(Call) /\ NoWatch(w)
    BY CancelWatchType, CancelWatchOnce DEF MemoryType
  <1>3. n = [Send(w, c) EXCEPT !.token = TRUE]
    BY DEF WatchSecurityPolicies
  <1> HIDE DEF w, n, c
  <1>4. /\ n.calls = Append(w.calls, c) /\ n.replies = w.replies /\ n.watch = w.watch
        /\ n.token = TRUE
    BY <1>2, <1>3 DEF Send, MemoryType
  <1>5. AtMostOne(n.calls, "watch")
    BY <1>1, <1>2, <1>4, AppendKinds DEF NoWatch
  <1>6. AtMostOne(n.replies, "fired")
    BY <1>2, <1>4 DEF NoWatch, None, AtMostOne
  <1> QED BY <1>2, <1>4, <1>5, <1>6 DEF WatchOnce, NoWatch, n

LEMMA SavedOnce ==
  ASSUME NEW m \in MemoryType, WatchOnce(m)
  PROVE  WatchOnce(Save(m))
  <1> DEFINE w == CancelWatch(m)
             c == [kind |-> "save", id |-> m.id,
                   object |-> [policy |-> m.aggregate, enforced |-> m.isEnforced,
                               retries |-> m.retriesLeft]]
  <1>1. c \in Call /\ c.kind # "watch"
    BY DEF Call, DevicePolicy, MemoryType
  <1>2. w \in MemoryType /\ NoWatch(w)
    BY CancelWatchType, CancelWatchOnce
  <1>3. WatchOnce(w)
    BY <1>2 DEF WatchOnce, NoWatch, None, AtMostOne
  <1>4. Save(m) = Send(w, c)
    BY DEF Save
  <1> HIDE DEF w, c
  <1> QED BY <1>1, <1>2, <1>3, <1>4, SendTamer, TamerOnce

(* What touches neither messages nor the watch. *)
SameWatch(m, n) ==
  n.calls = m.calls /\ n.replies = m.replies /\ n.watch = m.watch /\ n.token = m.token

LEMMA SameOnce ==
  ASSUME NEW m, NEW n, WatchOnce(m), SameWatch(m, n)
  PROVE  WatchOnce(n)
  BY DEF WatchOnce, SameWatch, NoWatch

LEMMA NotifiedOnce ==
  ASSUME NEW m \in MemoryType, WatchOnce(m)
  PROVE  WatchOnce(NotifyPolicyChanged(m))
  <1> DEFINE n == [m EXCEPT !.isEnforced = PasscodeSatisfiesPolicy(m.aggregate)]
  <1>1. PasscodeSatisfiesPolicy(m.aggregate) \in BOOLEAN
    BY DEF PasscodeSatisfiesPolicy, DecryptedPasscode, MemoryType, Policy
  <1>2. n \in MemoryType /\ SameWatch(m, n)
    BY <1>1 DEF MemoryType, SameWatch
  <1> HIDE DEF n
  <1>3. SlotPolicyChanged(n) \in MemoryType /\ SameWatch(n, SlotPolicyChanged(n))
    BY <1>2, SlotType DEF SlotPolicyChanged, SameWatch, MemoryType
  <1>4. NotifyPolicyChanged(m) = Save(SlotPolicyChanged(n))
    BY DEF NotifyPolicyChanged, n
  <1> QED BY <1>2, <1>3, <1>4, SameOnce, SavedOnce

LEMMA UpdatedOnce ==
  ASSUME NEW m \in MemoryType, WatchOnce(m),
         NEW policies \in Seq(Policy \cup {NoPolicy}), NEW behind \in BOOLEAN
  PROVE  WatchOnce(UpdateDevicePolicy(m, policies, behind))
  <1> DEFINE a == Aggregate(policies)
             n == [m EXCEPT !.aggregate = a,
                            !.behind = behind,
                            !.retriesLeft = IF a.maxRetries # m.aggregate.maxRetries
                                              THEN a.maxRetries ELSE @]
  <1>1. a \in Policy
    BY AggregateType
  <1> HIDE DEF a
  <1>2. n \in MemoryType /\ SameWatch(m, n)
    BY <1>1 DEF MemoryType, Policy, SameWatch
  <1>3. UpdateDevicePolicy(m, policies, behind) =
          IF a = m.aggregate THEN WatchSecurityPolicies(n) ELSE NotifyPolicyChanged(n)
    BY DEF UpdateDevicePolicy, a
  <1> HIDE DEF n
  <1> QED BY <1>2, <1>3, SameOnce, WatchedOnce, NotifiedOnce

LEMMA RetriesOnce ==
  ASSUME NEW m \in MemoryType, WatchOnce(m)
  PROVE  /\ WatchOnce(PasswordEnforced(m))
         /\ WatchOnce(DecrementRetries(m))
         /\ WatchOnce(ResetRetries(m))
  <1> DEFINE p == [m EXCEPT !.isEnforced = TRUE, !.retriesLeft = m.aggregate.maxRetries]
             d == [m EXCEPT !.retriesLeft = IF @ > 0 THEN @ - 1 ELSE @]
             r == [m EXCEPT !.retriesLeft = m.aggregate.maxRetries]
  <1>1. m.aggregate.maxRetries \in Nat /\ m.retriesLeft \in Nat
    BY DEF MemoryType, Policy
  <1>2. p \in MemoryType /\ SameWatch(m, p)
    BY <1>1 DEF MemoryType, SameWatch
  <1>3. d \in MemoryType /\ SameWatch(m, d)
    <2>1. (IF m.retriesLeft > 0 THEN m.retriesLeft - 1 ELSE m.retriesLeft) \in Nat
      BY <1>1
    <2> QED BY <2>1 DEF MemoryType, SameWatch
  <1>4. r \in MemoryType /\ SameWatch(m, r)
    BY <1>1 DEF MemoryType, SameWatch
  <1>5. /\ PasswordEnforced(m) = IF PolicyPending(m) THEN Save(SlotPolicyChanged(p)) ELSE m
        /\ DecrementRetries(m) = Save(d) /\ ResetRetries(m) = Save(r)
    BY DEF PasswordEnforced, DecrementRetries, ResetRetries
  <1> HIDE DEF p, d, r
  <1>6. SlotPolicyChanged(p) \in MemoryType /\ SameWatch(p, SlotPolicyChanged(p))
    BY <1>2, SlotType DEF SlotPolicyChanged, SameWatch, MemoryType
  <1> QED BY <1>2, <1>3, <1>4, <1>5, <1>6, SameOnce, SavedOnce

-----------------------------------------------------------------------------
(* Each step keeps one watch.                                              *)

LEMMA ReceivedTamer ==
  ASSUME pm \in MemoryType, pm.replies # <<>>
  PROVE  /\ Tamer(pm, Received)
         /\ WatchOnce(pm) /\ Head(pm.replies).kind = "fired"
            => NoWatch(Received)
  <1>1. pm.replies \in Seq(ReplyMessage)
    BY DEF MemoryType
  <1>2. /\ Received.calls = pm.calls /\ Received.replies = Tail(pm.replies)
        /\ Received.watch = pm.watch /\ Received.token = pm.token
    BY DEF Received, MemoryType
  <1>3. Tamer(pm, Received)
    BY <1>1, <1>2, TailKinds DEF Tamer
  <1>4. ASSUME WatchOnce(pm), Head(pm.replies).kind = "fired"
        PROVE  NoWatch(Received)
    <2>1. ~None(pm.replies, "fired")
      BY <1>1, <1>4, TailKinds
    <2>2. None(Tail(pm.replies), "fired")
      BY <1>1, <1>4, TailKinds DEF WatchOnce
    <2> QED BY <1>2, <1>4, <2>1, <2>2 DEF WatchOnce, NoWatch
  <1> QED BY <1>3, <1>4

LEMMA CallbacksOnce ==
  ASSUME TypeInv, WatchOnce(pm), Callbacks
  PROVE  WatchOnce(pm')
  <1>1. pm \in MemoryType /\ written \in BOOLEAN
    BY DEF TypeInv, DeviceTypeOK
  <1>2. pm.replies # <<>>
    BY DEF Callbacks, CbTempPoliciesDeleted, CbDevicePolicy, CbSecurityPolicy,
           CbDevicePolicySaved, CbWatchResponse, DropReply, Reply
  <1>3. Received \in MemoryType /\ Head(pm.replies) \in ReplyMessage
    BY <1>1, <1>2, ReceivedType
  <1>4. WatchOnce(Received)
    BY <1>1, <1>2, ReceivedTamer, TamerOnce
  <1>5. \A m \in MemoryType : WatchOnce(m) => WatchOnce(QueryDevicePolicy(m))
                                              /\ WatchOnce(QuerySecurityPolicies(m))
    <2>1. SUFFICES ASSUME NEW m \in MemoryType, WatchOnce(m)
                   PROVE  /\ WatchOnce(QueryDevicePolicy(m))
                          /\ WatchOnce(QuerySecurityPolicies(m))
      OBVIOUS
    <2>2. /\ [kind |-> "findDevice"] \in Call /\ [kind |-> "find"] \in Call
          /\ [kind |-> "findDevice"].kind # "watch" /\ [kind |-> "find"].kind # "watch"
      BY DEF Call
    <2> QED BY <2>1, <2>2, SendTamer, TamerOnce DEF QueryDevicePolicy, QuerySecurityPolicies
  <1> DEFINE r == Head(pm.replies)
  <1>6. CASE CbTempPoliciesDeleted
    BY <1>3, <1>4, <1>5, <1>6 DEF CbTempPoliciesDeleted
  <1>7. CASE CbDevicePolicy
    <2> DEFINE m == [Received EXCEPT !.loaded = TRUE]
               d == [m EXCEPT !.aggregate = DefaultPolicy, !.id = 0, !.behind = written]
               e == IF r.found.id = 0 THEN SetDefaultPolicy(m)
                                      ELSE SetDevicePolicy(m, r.found)
    <2>1. m \in MemoryType /\ SameWatch(Received, m)
      BY <1>3 DEF MemoryType, SameWatch
    <2>2. r.found.id = 0 \/ r.found \in [id: Nat, object: DevicePolicy]
      BY <1>3, <1>7 DEF CbDevicePolicy, Reply, ReplyMessage, NoObject
    <2>3. pm' = QuerySecurityPolicies(e)
      BY <1>7 DEF CbDevicePolicy
    <2> HIDE DEF m
    <2>4. d \in MemoryType /\ SameWatch(m, d)
      <3>1. DefaultPolicy \in Policy
        BY DEF DefaultPolicy, Policy
      <3> QED BY <1>1, <2>1, <3>1 DEF MemoryType, SameWatch
    <2>5. SetDefaultPolicy(m) = NotifyPolicyChanged(d)
      BY DEF SetDefaultPolicy
    <2> HIDE DEF d
    <2>6. WatchOnce(m) /\ WatchOnce(SetDefaultPolicy(m)) /\ SetDefaultPolicy(m) \in MemoryType
      BY <1>1, <1>4, <2>1, <2>4, <2>5, SameOnce, NotifiedOnce, SetDefaultType
    <2>7. r.found.id # 0 => /\ SetDevicePolicy(m, r.found) \in MemoryType
                            /\ SameWatch(m, SetDevicePolicy(m, r.found))
      BY <1>1, <2>1, <2>2 DEF SetDevicePolicy, MemoryType, DevicePolicy, SameWatch
    <2>8. WatchOnce(e) /\ e \in MemoryType
      BY <2>6, <2>7, SameOnce
    <2> QED BY <1>5, <2>3, <2>8
  <1>8. CASE CbSecurityPolicy
    <2>1. r.policies \in Seq(Policy \cup {NoPolicy}) /\ r.behind \in BOOLEAN
      BY <1>3, <1>8 DEF CbSecurityPolicy, Reply, ReplyMessage
    <2> QED BY <1>3, <1>4, <1>8, <2>1, UpdatedOnce DEF CbSecurityPolicy
  <1>9. CASE CbDevicePolicySaved
    <2> DEFINE m == [Received EXCEPT !.id = IF r.id # 0 THEN r.id ELSE @]
    <2>1. r.id \in Nat
      BY <1>3, <1>9 DEF CbDevicePolicySaved, Reply, ReplyMessage
    <2>2. m \in MemoryType /\ SameWatch(Received, m)
      BY <1>3, <2>1 DEF MemoryType, SameWatch
    <2>3. pm' = WatchSecurityPolicies(m)
      BY <1>9 DEF CbDevicePolicySaved
    <2> HIDE DEF m
    <2> QED BY <1>4, <2>2, <2>3, SameOnce, WatchedOnce
  <1>10. CASE CbWatchResponse
    <2> DEFINE m == [Received EXCEPT !.token = FALSE]
    <2>1. NoWatch(Received)
      BY <1>1, <1>2, <1>10, ReceivedTamer DEF CbWatchResponse, Reply
    <2>2. /\ m \in MemoryType /\ m.calls = Received.calls
          /\ m.replies = Received.replies /\ m.watch = Received.watch
      BY <1>3 DEF MemoryType
    <2>3. pm' = QuerySecurityPolicies(m)
      BY <1>10 DEF CbWatchResponse
    <2> HIDE DEF m
    <2>4. WatchOnce(m)
      BY <2>1, <2>2 DEF WatchOnce, NoWatch, None, AtMostOne
    <2> QED BY <1>5, <2>2, <2>3, <2>4
  <1>11. CASE DropReply
    BY <1>4, <1>11 DEF DropReply
  <1> QED BY <1>6, <1>7, <1>8, <1>9, <1>10, <1>11 DEF Callbacks

LEMMA BehindTamer ==
  ASSUME NEW m \in MemoryType
  PROVE  Tamer(m, Behind(m))
  <1> DEFINE n == Behind(m)
  <1>1. m.calls \in Seq(Call) /\ m.replies \in Seq(ReplyMessage)
    BY DEF MemoryType
  <1>2. /\ n.token = m.token
        /\ n.watch = IF m.watch = "none" THEN m.watch ELSE "behind"
        /\ n.calls = [i \in DOMAIN m.calls |->
                        IF m.calls[i].kind = "watch"
                          THEN [m.calls[i] EXCEPT !.behind = TRUE] ELSE m.calls[i]]
        /\ n.replies = [i \in DOMAIN m.replies |->
                          IF m.replies[i].kind = "policies"
                            THEN [m.replies[i] EXCEPT !.behind = TRUE]
                            ELSE m.replies[i]]
    BY DEF Behind, MemoryType
  <1>3. DOMAIN n.calls = DOMAIN m.calls /\ DOMAIN n.replies = DOMAIN m.replies
    BY <1>2
  <1>4. \A i \in DOMAIN m.calls : n.calls[i].kind = m.calls[i].kind
    <2>1. SUFFICES ASSUME NEW i \in DOMAIN m.calls
                   PROVE  n.calls[i].kind = m.calls[i].kind
      OBVIOUS
    <2>2. m.calls[i] \in Call
      BY <1>1
    <2>3. m.calls[i].kind = "watch"
            => [m.calls[i] EXCEPT !.behind = TRUE].kind = m.calls[i].kind
      BY <2>2 DEF Call
    <2> QED BY <1>2, <2>3
  <1>5. \A i \in DOMAIN m.replies : n.replies[i].kind = m.replies[i].kind
    <2>1. SUFFICES ASSUME NEW i \in DOMAIN m.replies
                   PROVE  n.replies[i].kind = m.replies[i].kind
      OBVIOUS
    <2>2. m.replies[i] \in ReplyMessage
      BY <1>1
    <2>3. m.replies[i].kind = "policies"
            => [m.replies[i] EXCEPT !.behind = TRUE].kind = m.replies[i].kind
      BY <2>2 DEF ReplyMessage
    <2> QED BY <1>2, <2>3
  <1> HIDE DEF n
  <1> QED BY <1>2, <1>3, <1>4, <1>5 DEF Tamer, None, AtMostOne, n

LEMMA RepliedTamer ==
  ASSUME NEW m \in MemoryType, NEW r \in ReplyMessage, r.kind # "fired"
  PROVE  Tamer(m, Replied(m, r))
  <1>1. m.replies \in Seq(ReplyMessage)
    BY DEF MemoryType
  <1>2. /\ Replied(m, r).replies = Append(m.replies, r) /\ Replied(m, r).calls = m.calls
        /\ Replied(m, r).watch = m.watch /\ Replied(m, r).token = m.token
    BY DEF Replied, MemoryType
  <1> QED BY <1>1, <1>2, AppendKinds DEF Tamer

LEMMA ServedTamer ==
  ASSUME pm \in MemoryType, pm.calls # <<>>
  PROVE  /\ Tamer(pm, Served)
         /\ WatchOnce(pm) /\ Head(pm.calls).kind = "watch"
            => NoWatch(Served) /\ Served.token
  <1>1. pm.calls \in Seq(Call)
    BY DEF MemoryType
  <1>2. /\ Served.replies = pm.replies /\ Served.calls = Tail(pm.calls)
        /\ Served.watch = pm.watch /\ Served.token = pm.token
    BY DEF Served, MemoryType
  <1>3. Tamer(pm, Served)
    BY <1>1, <1>2, TailKinds DEF Tamer
  <1>4. ASSUME WatchOnce(pm), Head(pm.calls).kind = "watch"
        PROVE  NoWatch(Served) /\ Served.token
    <2>1. ~None(pm.calls, "watch")
      BY <1>1, <1>4, TailKinds
    <2>2. None(Tail(pm.calls), "watch")
      BY <1>1, <1>4, TailKinds DEF WatchOnce
    <2> QED BY <1>2, <1>4, <2>1, <2>2 DEF WatchOnce, NoWatch
  <1> QED BY <1>3, <1>4

LEMMA DatabaseOnce ==
  ASSUME TypeInv, WatchOnce(pm), Database
  PROVE  WatchOnce(pm')
  <1>1. /\ pm \in MemoryType /\ up \in BOOLEAN /\ devices \in Seq(DevicePolicy)
        /\ slots \in [Accounts -> Policy \cup {NoPolicy}]
    BY DEF TypeInv, DeviceTypeOK
  <1>2. pm.calls # <<>> => /\ Served \in MemoryType /\ Head(pm.calls) \in Call
                           /\ WatchOnce(Served)
    BY <1>1, ServedType, ServedTamer, TamerOnce
  <1>3. pm.calls # <<>> => /\ Behind(Served) \in MemoryType
                           /\ WatchOnce(Behind(Served))
    BY <1>1, <1>2, BehindType, BehindTamer, TamerOnce
  <1>4. ASSUME NEW m \in MemoryType, WatchOnce(m), NEW r \in ReplyMessage,
               r.kind # "fired"
        PROVE  WatchOnce(Replied(m, r))
    BY <1>4, RepliedTamer, TamerOnce
  <1>5. ASSUME NEW m \in MemoryType, WatchOnce(m), NEW id \in Nat
        PROVE  WatchOnce(Saved(m, id))
    <2>1. [kind |-> "saved", id |-> id] \in ReplyMessage
      BY DEF ReplyMessage
    <2> QED BY <1>4, <1>5, <2>1 DEF Saved
  <1>6. CASE ServeDel
    <2>1. [kind |-> "deleted"] \in ReplyMessage
      BY DEF ReplyMessage
    <2> QED BY <1>2, <1>3, <1>4, <1>6, <2>1 DEF ServeDel, Serves
  <1>7. CASE ServeFindDevice
    <2>1. PICK found \in {[id |-> i, object |-> devices[i]] : i \in DOMAIN devices}
                           \cup {NoObject} :
            pm' = Replied(Served, [kind |-> "device", found |-> found])
      BY <1>7 DEF ServeFindDevice
    <2>2. \A i \in DOMAIN devices : i \in Nat /\ devices[i] \in DevicePolicy
      BY <1>1
    <2>3. [kind |-> "device", found |-> found] \in ReplyMessage
      BY <2>1, <2>2 DEF ReplyMessage
    <2> QED BY <1>2, <1>4, <1>7, <2>1, <2>3 DEF ServeFindDevice, Serves
  <1>8. CASE ServeFind
    <2>1. PICK ok \in BOOLEAN :
            pm' = Replied(Served, [kind |-> "policies", ok |-> ok,
                                   policies |-> IF ok THEN slots ELSE <<>>,
                                   behind |-> FALSE])
      BY <1>8 DEF ServeFind
    <2>2. slots \in Seq(Policy \cup {NoPolicy})
      BY <1>1, SecurityAssumption, SeqOf DEF SecurityAssumption, Accounts
    <2>3. (IF ok THEN slots ELSE <<>>) \in Seq(Policy \cup {NoPolicy})
      BY <2>2
    <2> DEFINE r == [kind |-> "policies", ok |-> ok,
                     policies |-> IF ok THEN slots ELSE <<>>, behind |-> FALSE]
    <2>4. r \in ReplyMessage /\ r.kind # "fired"
      BY <2>3 DEF ReplyMessage
    <2> HIDE DEF r
    <2>5. pm' = Replied(Served, r)
      BY <2>1 DEF r
    <2> QED BY <1>2, <1>4, <1>8, <2>4, <2>5 DEF ServeFind, Serves
  <1>9. CASE ServeSave
    <2> DEFINE c == Head(pm.calls)
               id == IF c.id = 0 THEN Len(devices) + 1 ELSE c.id
    <2>1. c.id \in Nat /\ Len(devices) \in Nat
      BY <1>1, <1>2, <1>9 DEF ServeSave, Serves, Call
    <2>2. id \in Nat
      BY <2>1
    <2>3. pm' = Saved(Behind(Served), id)
      BY <1>9 DEF ServeSave
    <2> HIDE DEF id
    <2> QED BY <1>3, <1>5, <1>9, <2>2, <2>3 DEF ServeSave, Serves
  <1>10. CASE RefuseSave
    BY <1>2, <1>5, <1>10 DEF RefuseSave, Serves
  <1>11. CASE ServeWatch
    <2>1. NoWatch(Served) /\ Served.token /\ Served \in MemoryType
      BY <1>1, <1>2, <1>11, ServedTamer DEF ServeWatch, Serves
    <2>2. /\ pm'.calls = Served.calls /\ pm'.replies = Served.replies
          /\ pm'.token = Served.token
      BY <1>11, <2>1 DEF ServeWatch, MemoryType
    <2>3. None(pm'.calls, "watch") /\ None(pm'.replies, "fired") /\ pm'.token
      BY <2>1, <2>2 DEF NoWatch
    <2>4. AtMostOne(pm'.calls, "watch") /\ AtMostOne(pm'.replies, "fired")
      BY <2>3 DEF None, AtMostOne
    <2> QED BY <2>3, <2>4 DEF WatchOnce
  <1>12. CASE RefuseWatch
    BY <1>2, <1>12 DEF RefuseWatch, Serves
  <1>13. CASE DropCall
    BY <1>2, <1>13 DEF DropCall, Serves
  <1>14. CASE FireWatch
    <2> DEFINE r == [kind |-> "fired"]
    <2>1. r \in ReplyMessage /\ pm.replies \in Seq(ReplyMessage)
      BY <1>1 DEF ReplyMessage, MemoryType
    <2>2. /\ pm'.calls = pm.calls /\ pm'.token = pm.token /\ pm'.watch = "none"
          /\ pm'.replies = Append(pm.replies, r)
      BY <1>1, <1>14 DEF FireWatch, Replied, MemoryType
    <2>3. /\ None(pm.calls, "watch") /\ None(pm.replies, "fired") /\ pm.token
          /\ AtMostOne(pm.calls, "watch")
      BY <1>14 DEF FireWatch, WatchOnce, NoWatch
    <2>4. AtMostOne(Append(pm.replies, r), "fired")
      BY <2>1, <2>3, AppendKinds
    <2> QED BY <2>2, <2>3, <2>4 DEF WatchOnce
  <1> QED BY <1>6, <1>7, <1>8, <1>9, <1>10, <1>11, <1>12, <1>13, <1>14 DEF Database

LEMMA WorldOnce ==
  ASSUME TypeInv, WatchOnce(pm), Start \/ World \/ TimePasses
  PROVE  WatchOnce(pm')
  <1>1. pm \in MemoryType
    BY DEF TypeInv, DeviceTypeOK
  <1>2. WatchOnce(Memory)
    BY DEF WatchOnce, NoWatch, None, AtMostOne, Memory
  <1>3. CASE Start
    <2> DEFINE m == [pm EXCEPT !.behind = written]
    <2>1. m \in MemoryType /\ SameWatch(pm, m)
      BY <1>1 DEF TypeInv, DeviceTypeOK, MemoryType, SameWatch
    <2>2. [kind |-> "del"] \in Call
      BY DEF Call
    <2>3. pm' = Send(m, [kind |-> "del"])
      BY <1>3 DEF Start
    <2> HIDE DEF m
    <2> QED BY <2>1, <2>2, <2>3, SameOnce, SendTamer, TamerOnce
  <1>4. CASE \E c \in Passcodes \cup {NoPasscode}, d \in DiskFails \cup {"no"} :
               SetPasscode(c, d)
    BY <1>1, <1>4, RetriesOnce DEF SetPasscode
  <1>5. CASE MatchLockedOut \/ TimePasses
    BY <1>1, <1>5, SameOnce DEF MatchLockedOut, TimePasses, MemoryType, SameWatch
  <1>6. CASE MatchWrong
    <2> DEFINE m == [Attempt EXCEPT !.numRetries = IF @ > 0 THEN @ - 1 ELSE @,
                                    !.lastFailure = "recent"]
               n == DecrementRetries(m)
               o == [n EXCEPT !.numRetries = n.retriesLeft,
                              !.wiping = @ \/ n.retriesLeft = 0]
    <2>1. Attempt \in MemoryType /\ Attempt.numRetries \in Nat /\ SameWatch(pm, Attempt)
      BY <1>1 DEF MemoryType, Attempt, DefaultMaxRetries, SameWatch
    <2>2. (IF Attempt.numRetries > 0 THEN Attempt.numRetries - 1
                                     ELSE Attempt.numRetries) \in Nat
      BY <2>1
    <2>3. m \in MemoryType /\ SameWatch(Attempt, m)
      BY <2>1, <2>2 DEF MemoryType, SameWatch
    <2>4. pm' = IF CountsRetries(m) THEN o ELSE m
      BY <1>6 DEF MatchWrong
    <2> HIDE DEF m
    <2>5. WatchOnce(m)
      BY <2>1, <2>3, SameOnce
    <2>6. n \in MemoryType /\ WatchOnce(n)
      BY <2>3, <2>5, RetriesType, RetriesOnce
    <2> HIDE DEF n
    <2>7. SameWatch(n, o)
      BY <2>6 DEF MemoryType, SameWatch
    <2> QED BY <2>4, <2>5, <2>6, <2>7, SameOnce
  <1>7. CASE MatchRight
    <2> DEFINE n == ResetRetries(Attempt)
               o == [n EXCEPT !.numRetries = n.retriesLeft]
               q == [Attempt EXCEPT !.numRetries =
                       IF PolicyPending(pm) THEN DefaultMaxRetries ELSE 0]
    <2>1. Attempt \in MemoryType /\ SameWatch(pm, Attempt)
      BY <1>1 DEF MemoryType, Attempt, DefaultMaxRetries, SameWatch
    <2>2. pm' = IF CountsRetries(pm) THEN o ELSE q
      BY <1>7 DEF MatchRight
    <2>3. n \in MemoryType /\ WatchOnce(n) /\ WatchOnce(Attempt)
      BY <2>1, SameOnce, RetriesType, RetriesOnce
    <2> HIDE DEF n
    <2>4. SameWatch(n, o) /\ SameWatch(Attempt, q)
      BY <2>1, <2>3 DEF MemoryType, SameWatch
    <2> QED BY <2>2, <2>3, <2>4, SameOnce
  <1>8. CASE Crash
    <2>1. /\ pm'.calls = Orphans /\ pm'.replies = <<>> /\ pm'.watch = "none"
          /\ None(<<>>, "fired") /\ AtMostOne(<<>>, "fired")
      BY <1>8 DEF Crash, Memory, None, AtMostOne
    <2>2. None(Orphans, "watch")
      BY DEF Orphans, None
    <2> QED BY <2>1, <2>2 DEF WatchOnce, NoWatch, None, AtMostOne
  <1>9. CASE CbDeviceWipe
    <2>1. SameWatch(pm, [pm EXCEPT !.wiping = FALSE])
      BY <1>1 DEF SameWatch, MemoryType
    <2> QED BY <1>2, <1>9, <2>1, SameOnce DEF CbDeviceWipe
  <1>10. CASE \E a \in Accounts : ChangePolicy(a)
    BY <1>1, <1>10, BehindTamer, TamerOnce DEF ChangePolicy
  <1> QED
    BY <1>3, <1>4, <1>5, <1>6, <1>7, <1>8, <1>9, <1>10 DEF World

LEMMA WatchOnceInvariant == Spec => []WatchOnce(pm)
  <1>1. Init => WatchOnce(pm)
    BY DEF Init, WatchOnce, NoWatch, None, AtMostOne, Memory
  <1>2. TypeInv /\ WatchOnce(pm) /\ [Next]_vars => WatchOnce(pm)'
    <2> SUFFICES ASSUME TypeInv, WatchOnce(pm), [Next]_vars
                 PROVE  WatchOnce(pm')
      OBVIOUS
    <2>1. CASE UNCHANGED vars
      BY <2>1 DEF vars
    <2> QED BY <2>1, CallbacksOnce, DatabaseOnce, WorldOnce DEF Next, Reaction
  <1> QED BY <1>1, <1>2, TypesInvariant, PTL DEF Spec

(* Whatever the database refuses, whenever the program dies and clients    *)
(* call: the database is never asked to keep two watches, and no report of *)
(* an old one is taken for the new one's.                                  *)
THEOREM OneWatchAlways == Spec => []OneWatch
  BY WatchOnceInvariant, OnceMeansOneWatch, PTL

-----------------------------------------------------------------------------
(* Runs in passcodes.                                                      *)

LEMMA NoneIsNoPasscode ==
  NoPasscode \notin Passcodes /\ Garbage \notin Passcodes
  <1>1. \A c \in Passcode : c.mode \notin {"none", "garbage"}
    BY DEF Passcode
  <1>2. NoPasscode.mode = "none" /\ Garbage.mode = "garbage"
    BY DEF NoPasscode, Garbage
  <1> QED BY <1>1, <1>2, SecurityAssumption DEF SecurityAssumption

LEMMA ValidWithoutRuns ==
  ASSUME NEW c \in Passcodes, ~Invalid(c),
         pm.aggregate.passwordRequired, ~pm.aggregate.allowSimple
  PROVE  ~HasLongRun(c.text)
  <1>1. c.text \in Seq(Nat)
    BY SecurityAssumption DEF SecurityAssumption, Passcode
  <1>2. ~Weak(c.text)
    BY DEF Invalid, Satisfies
  <1> QED BY <1>1, <1>2, LongRunsFound

(* Under a policy that forbids them no passcode is stored that has a run   *)
(* of two characters more than half its length, for any passcodes,         *)
(* policies and failures.                                                  *)
THEOREM LongRunsRefusedAlways == Spec => LongRunsRefused
  <1> DEFINE Refused == stored' # stored /\ stored' \in Passcodes
                        /\ pm.aggregate.passwordRequired /\ ~pm.aggregate.allowSimple
                        => ~HasLongRun(stored'.text)
  <1>1. ASSUME NEW c \in Passcodes \cup {NoPasscode}, NEW d, SetPasscode(c, d)
        PROVE  Refused
    <2>1. SUFFICES ASSUME stored' # stored, stored' \in Passcodes,
                          pm.aggregate.passwordRequired, ~pm.aggregate.allowSimple
                   PROVE  ~HasLongRun(stored'.text)
      OBVIOUS
    <2>2. stored' = FileAfter(c, d)
      BY <1>1 DEF SetPasscode
    <2>3. ~Invalid(c) /\ stored' = c
      BY <2>1, <2>2, NoneIsNoPasscode DEF FileAfter
    <2> QED BY <2>1, <2>3, ValidWithoutRuns
  <1>2. ASSUME stored' \in {stored, NoPasscode} PROVE Refused
    BY <1>2, NoneIsNoPasscode
  <1>3. [Next]_vars => [Refused]_vars
    <2> SUFFICES ASSUME Next PROVE Refused
      OBVIOUS
    <2> HIDE DEF Refused
    <2>1. CASE Callbacks
      BY <1>2, <2>1 DEF Callbacks, elsewhere, CbTempPoliciesDeleted, CbDevicePolicy,
         CbSecurityPolicy, CbDevicePolicySaved, CbWatchResponse, DropReply
    <2>2. CASE Database
      BY <1>2, <2>2 DEF Database, program, ServeDel, ServeFindDevice, ServeFind,
         ServeSave, RefuseSave, ServeWatch, RefuseWatch, DropCall, FireWatch
    <2>3. CASE Start
      BY <1>2, <2>3 DEF Start
    <2>4. CASE TimePasses
      BY <1>2, <2>4 DEF TimePasses, elsewhere
    <2>5. CASE World
      <3>1. CASE \E c \in Passcodes \cup {NoPasscode}, d \in DiskFails \cup {"no"} :
                   SetPasscode(c, d)
        BY <1>1, <3>1
      <3>2. CASE MatchLockedOut \/ MatchWrong \/ MatchRight
        BY <1>2, <3>2 DEF MatchLockedOut, MatchWrong, MatchRight, elsewhere
      <3>3. CASE Crash \/ CbDeviceWipe
        BY <1>2, <3>3 DEF Crash, CbDeviceWipe, elsewhere
      <3>4. CASE \E a \in Accounts : ChangePolicy(a)
        BY <1>2, <3>4 DEF ChangePolicy, program
      <3> QED BY <2>5, <3>1, <3>2, <3>3, <3>4 DEF World
    <2> QED BY <2>1, <2>2, <2>3, <2>4, <2>5 DEF Next, Reaction
  <1> QED BY <1>3, PTL DEF Spec, LongRunsRefused

-----------------------------------------------------------------------------
(* The retries left.                                                       *)

(* Every k comes before every l. *)
Before(s, k, l) ==
  \A i, j \in DOMAIN s : s[i].kind = k /\ s[j].kind = l => i < j

(* One k at most, and before every l. *)
FirstOf(s, k, l) == AtMostOne(s, k) /\ Before(s, k, l)

(* The start: the deletion of the temporary policies, its reply, the query *)
(* of the device policy, its reply.  No answer to a call of an earlier     *)
(* life, and none that leads to a query, is received in between.           *)
Deleting(m) ==
  /\ m.replies = <<>>
  /\ m.watch = "none"
  /\ None(m.calls, "findDevice") /\ None(m.calls, "find") /\ None(m.calls, "watch")
  /\ FirstOf(m.calls, "del", "save")

Deleted(m) ==
  /\ m.watch = "none"
  /\ None(m.calls, "del") /\ None(m.calls, "findDevice")
  /\ None(m.calls, "find") /\ None(m.calls, "watch")
  /\ None(m.replies, "device") /\ None(m.replies, "policies") /\ None(m.replies, "fired")
  /\ FirstOf(m.replies, "deleted", "saved")

Finding(m) ==
  /\ m.watch = "none"
  /\ None(m.calls, "del") /\ None(m.calls, "find")
  /\ None(m.replies, "deleted") /\ None(m.replies, "device")
  /\ None(m.replies, "policies") /\ None(m.replies, "fired")
  /\ FirstOf(m.calls, "findDevice", "watch")

Found(m) ==
  /\ None(m.calls, "del") /\ None(m.calls, "findDevice") /\ None(m.calls, "find")
  /\ None(m.replies, "deleted") /\ None(m.replies, "policies")
  /\ FirstOf(m.replies, "device", "fired")

(* The start is over, or a client's call has overtaken it. *)
Booted(m) ==
  /\ None(m.calls, "del") /\ None(m.calls, "findDevice")
  /\ None(m.replies, "deleted") /\ None(m.replies, "device")

(* Until then the program has no device policy. *)
Fresh(m) == m.aggregate.maxRetries = 0 /\ m.retriesLeft = 0

InOrder(m) ==
  \/ Booted(m)
  \/ Fresh(m) /\ (Deleting(m) \/ Deleted(m) \/ Finding(m) \/ Found(m))

(* Of an earlier life only what it has written is left. *)
Down(m) ==
  /\ Fresh(m)
  /\ Deleting(m)
  /\ None(m.calls, "del") /\ None(m.calls, "save")

(* What is remembered, written and read is within its policy. *)
Fits(o) == o.retries <= o.policy.maxRetries

CallFits(c) == c.kind \in {"save", "orphan"} => Fits(c.object)
ReplyFits(r) == r.kind = "device" /\ r.found.id # 0 => Fits(r.found.object)

MessagesFit(m) ==
  /\ \A i \in DOMAIN m.calls : CallFits(m.calls[i])
  /\ \A i \in DOMAIN m.replies : ReplyFits(m.replies[i])

AllFit(m) == m.retriesLeft <= m.aggregate.maxRetries /\ MessagesFit(m)

Sound(m) == AllFit(m) /\ InOrder(m)

RetriesInv ==
  /\ Sound(pm)
  /\ ~up => Down(pm)
  /\ \A i \in DOMAIN devices : Fits(devices[i])

LEMMA BeforeAppended ==
  ASSUME NEW S, NEW s \in Seq(S), NEW x \in S, NEW k, NEW l
  PROVE  /\ Before(s, k, l) /\ x.kind # k => Before(Append(s, x), k, l)
         /\ None(s, l) /\ x.kind # l => Before(Append(s, x), k, l)
  <1> DEFINE t == Append(s, x)
  <1>1. /\ Len(s) \in Nat /\ DOMAIN s = 1 .. Len(s) /\ DOMAIN t = 1 .. (Len(s) + 1)
        /\ t[Len(s) + 1] = x
        /\ \A i \in DOMAIN s : t[i] = s[i]
    OBVIOUS
  <1> HIDE DEF t
  <1>2. \A i \in DOMAIN t : i = Len(s) + 1 \/ i \in DOMAIN s
    BY <1>1
  <1>3. \A i \in DOMAIN s : i < Len(s) + 1
    BY <1>1
  <1> QED BY <1>1, <1>2, <1>3 DEF None, Before, t

LEMMA BeforeTail ==
  ASSUME NEW S, NEW s \in Seq(S), s # <<>>, NEW k, NEW l, Before(s, k, l)
  PROVE  /\ Before(Tail(s), k, l)
         /\ Head(s).kind = l => None(s, k)
  <1> DEFINE t == Tail(s)
  <1>1. /\ Len(s) \in Nat /\ DOMAIN s = 1 .. Len(s) /\ 1 \in DOMAIN s
        /\ Head(s) = s[1]
        /\ DOMAIN t \subseteq Nat \ {0}
        /\ \A i \in DOMAIN t : i + 1 \in DOMAIN s /\ t[i] = s[i + 1]
    OBVIOUS
  <1> HIDE DEF t
  <1>2. \A i, j \in DOMAIN t : i + 1 < j + 1 => i < j
    BY <1>1
  <1>3. \A i \in DOMAIN s : ~(i < 1)
    BY <1>1
  <1> QED BY <1>1, <1>2, <1>3 DEF None, Before, t

(* The same messages, some of them void. *)
Softer(s, t) ==
  /\ DOMAIN t = DOMAIN s
  /\ \A i \in DOMAIN s :
       \/ t[i].kind = "void"
       \/ /\ t[i].kind = s[i].kind
          /\ CallFits(s[i]) => CallFits(t[i])
          /\ ReplyFits(s[i]) => ReplyFits(t[i])

LEMMA SofterKinds ==
  ASSUME NEW s, NEW t, Softer(s, t), NEW k, k # "void"
  PROVE  /\ None(s, k) => None(t, k)
         /\ AtMostOne(s, k) => AtMostOne(t, k)
         /\ \A l : l # "void" /\ Before(s, k, l) => Before(t, k, l)
  BY DEF Softer, None, AtMostOne, Before

Softened(m, n) ==
  /\ Softer(m.calls, n.calls)
  /\ Softer(m.replies, n.replies)
  /\ m.watch = "none" => n.watch = "none"

(* Every stage of m is one of n. *)
Keeps(m, n) ==
  /\ Deleting(m) => Deleting(n)
  /\ Deleted(m) => Deleted(n)
  /\ Finding(m) => Finding(n)
  /\ Found(m) => Found(n)
  /\ Booted(m) => Booted(n)

LEMMA SoftenedKeeps ==
  ASSUME NEW m, NEW n \in MemoryType, Softened(m, n)
  PROVE  Keeps(m, n) /\ (MessagesFit(m) => MessagesFit(n))
  <1>1. ASSUME m.replies = <<>> PROVE n.replies = <<>>
    <2>1. DOMAIN n.replies = {} /\ n.replies \in Seq(ReplyMessage)
      BY <1>1 DEF Softened, Softer, MemoryType
    <2> QED BY <2>1
  <1>2. \A k : k # "void" => (None(m.calls, k) => None(n.calls, k))
                          /\ (None(m.replies, k) => None(n.replies, k))
    BY SofterKinds DEF Softened
  <1>3. \A k, l : k # "void" /\ l # "void"
          => (FirstOf(m.calls, k, l) => FirstOf(n.calls, k, l))
          /\ (FirstOf(m.replies, k, l) => FirstOf(n.replies, k, l))
    BY SofterKinds DEF Softened, FirstOf
  <1>4. Keeps(m, n)
    <2>1. Deleting(m) => Deleting(n)
      BY <1>1, <1>2, <1>3 DEF Deleting, Softened
    <2>2. Deleted(m) => Deleted(n)
      BY <1>2, <1>3 DEF Deleted, Softened
    <2>3. Finding(m) => Finding(n)
      BY <1>2, <1>3 DEF Finding, Softened
    <2>4. Found(m) => Found(n)
      BY <1>2, <1>3 DEF Found, Softened
    <2>5. Booted(m) => Booted(n)
      BY <1>2 DEF Booted
    <2> QED BY <2>1, <2>2, <2>3, <2>4, <2>5 DEF Keeps
  <1>5. MessagesFit(m) => MessagesFit(n)
    BY DEF MessagesFit, Softened, Softer, CallFits, ReplyFits
  <1> QED BY <1>4, <1>5

LEMMA KeepsTwice ==
  ASSUME NEW m, NEW n, NEW o, Keeps(m, n), Keeps(n, o)
  PROVE  Keeps(m, o)
  BY DEF Keeps

(* What touches neither messages nor the watch. *)
LEMMA SameKeeps ==
  ASSUME NEW m, NEW n, SameWatch(m, n)
  PROVE  /\ Keeps(m, n)
         /\ MessagesFit(m) => MessagesFit(n)
  BY DEF SameWatch, Keeps, MessagesFit, Deleting, Deleted, Finding, Found, Booted

LEMMA CancelKeeps ==
  ASSUME NEW m \in MemoryType
  PROVE  /\ Keeps(m, CancelWatch(m))
         /\ MessagesFit(m) => MessagesFit(CancelWatch(m))
  <1>1. ASSUME NEW s, NEW k PROVE Softer(s, Void(s, k))
    BY DEF Softer, Void
  <1>2. Softer(m.calls, m.calls) /\ Softer(m.replies, m.replies)
    BY DEF Softer
  <1>3. CASE m.token
    <2>1. /\ CancelWatch(m).calls = Void(m.calls, "watch")
          /\ CancelWatch(m).replies = Void(m.replies, "fired")
          /\ CancelWatch(m).watch = "none"
      BY <1>3 DEF CancelWatch, MemoryType
    <2>2. Softened(m, CancelWatch(m))
      BY <1>1, <2>1 DEF Softened
    <2> QED BY <2>2, CancelWatchType, SoftenedKeeps
  <1>4. CASE ~m.token
    <2>1. Softened(m, CancelWatch(m))
      BY <1>2, <1>4 DEF CancelWatch, Softened
    <2> QED BY <2>1, CancelWatchType, SoftenedKeeps
  <1> QED BY <1>3, <1>4

LEMMA BehindSoftened ==
  ASSUME NEW m \in MemoryType
  PROVE  Softened(m, Behind(m))
  <1> DEFINE n == Behind(m)
  <1>1. m.calls \in Seq(Call) /\ m.replies \in Seq(ReplyMessage)
    BY DEF MemoryType
  <1>2. /\ m.watch = "none" => n.watch = "none"
        /\ n.calls = [i \in DOMAIN m.calls |->
                        IF m.calls[i].kind = "watch" THEN [m.calls[i] EXCEPT !.behind = TRUE]
                                                     ELSE m.calls[i]]
        /\ n.replies = [i \in DOMAIN m.replies |->
                          IF m.replies[i].kind = "policies"
                            THEN [m.replies[i] EXCEPT !.behind = TRUE]
                            ELSE m.replies[i]]
    BY DEF Behind, MemoryType
  <1>3. DOMAIN n.calls = DOMAIN m.calls /\ DOMAIN n.replies = DOMAIN m.replies
    BY <1>2
  <1>4. Softer(m.calls, n.calls)
    <2>1. SUFFICES ASSUME NEW i \in DOMAIN m.calls
                   PROVE  /\ n.calls[i].kind = m.calls[i].kind
                          /\ CallFits(m.calls[i]) => CallFits(n.calls[i])
                          /\ ReplyFits(m.calls[i]) => ReplyFits(n.calls[i])
      BY <1>3 DEF Softer
    <2>2. m.calls[i] \in Call
      BY <1>1
    <2>3. CASE m.calls[i].kind = "watch"
      <3>1. n.calls[i] = [m.calls[i] EXCEPT !.behind = TRUE]
        BY <1>2, <2>3
      <3>2. n.calls[i].kind = "watch"
        BY <2>2, <2>3, <3>1 DEF Call
      <3> QED BY <2>3, <3>2 DEF CallFits, ReplyFits
    <2>4. CASE m.calls[i].kind # "watch"
      BY <1>2, <2>4
    <2> QED BY <2>3, <2>4
  <1>5. Softer(m.replies, n.replies)
    <2>1. SUFFICES ASSUME NEW i \in DOMAIN m.replies
                   PROVE  /\ n.replies[i].kind = m.replies[i].kind
                          /\ CallFits(m.replies[i]) => CallFits(n.replies[i])
                          /\ ReplyFits(m.replies[i]) => ReplyFits(n.replies[i])
      BY <1>3 DEF Softer
    <2>2. m.replies[i] \in ReplyMessage
      BY <1>1
    <2>3. CASE m.replies[i].kind = "policies"
      <3>1. n.replies[i] = [m.replies[i] EXCEPT !.behind = TRUE]
        BY <1>2, <2>3
      <3>2. n.replies[i].kind = "policies"
        BY <2>2, <2>3, <3>1 DEF ReplyMessage
      <3> QED BY <2>3, <3>2 DEF CallFits, ReplyFits
    <2>4. CASE m.replies[i].kind # "policies"
      BY <1>2, <2>4
    <2> QED BY <2>3, <2>4
  <1> QED BY <1>2, <1>4, <1>5 DEF Softened

LEMMA SentKeeps ==
  ASSUME NEW m \in MemoryType, MessagesFit(m), NEW c \in Call, CallFits(c)
  PROVE  /\ MessagesFit(Send(m, c))
         /\ c.kind = "save" => Keeps(m, Send(m, c))
  <1> DEFINE n == Send(m, c)
  <1>1. /\ m.calls \in Seq(Call) /\ n.calls = Append(m.calls, c)
        /\ n.replies = m.replies /\ n.watch = m.watch
    BY DEF Send, MemoryType
  <1> HIDE DEF n
  <1>2. MessagesFit(n)
    <2>1. /\ Len(m.calls) \in Nat /\ DOMAIN m.calls = 1 .. Len(m.calls)
          /\ DOMAIN n.calls = 1 .. (Len(m.calls) + 1)
          /\ n.calls[Len(m.calls) + 1] = c
          /\ \A i \in DOMAIN m.calls : n.calls[i] = m.calls[i]
      BY <1>1
    <2>2. \A i \in DOMAIN n.calls : i = Len(m.calls) + 1 \/ i \in DOMAIN m.calls
      BY <2>1
    <2> QED BY <1>1, <2>1, <2>2 DEF MessagesFit
  <1>3. ASSUME c.kind = "save" PROVE Keeps(m, n)
    <2>1. \A k : k # "save" => (None(m.calls, k) => None(n.calls, k))
                            /\ (AtMostOne(m.calls, k) => AtMostOne(n.calls, k))
      BY <1>1, <1>3, AppendKinds
    <2>2. \A k, l : k # "save" => (Before(m.calls, k, l) => Before(n.calls, k, l))
      BY <1>1, <1>3, BeforeAppended
    <2> QED BY <1>1, <2>1, <2>2
        DEF Keeps, Deleting, Deleted, Finding, Found, Booted, FirstOf
  <1> QED BY <1>2, <1>3 DEF n

LEMMA SaveKeeps ==
  ASSUME NEW m \in MemoryType, MessagesFit(m), m.retriesLeft <= m.aggregate.maxRetries
  PROVE  Keeps(m, Save(m)) /\ MessagesFit(Save(m))
  <1> DEFINE w == CancelWatch(m)
             c == [kind |-> "save", id |-> m.id,
                   object |-> [policy |-> m.aggregate, enforced |-> m.isEnforced,
                               retries |-> m.retriesLeft]]
  <1>1. c \in Call /\ c.kind = "save" /\ CallFits(c)
    BY DEF Call, DevicePolicy, MemoryType, CallFits, Fits
  <1>2. w \in MemoryType /\ Keeps(m, w) /\ MessagesFit(w) /\ w.calls \in Seq(Call)
    BY CancelWatchType, CancelKeeps DEF MemoryType
  <1>3. Save(m) = Send(w, c)
    BY DEF Save
  <1> HIDE DEF w, c
  <1>4. Keeps(w, Send(w, c)) /\ MessagesFit(Send(w, c))
    BY <1>1, <1>2, SentKeeps
  <1> QED BY <1>2, <1>3, <1>4, KeepsTwice

LEMMA WatchKeeps ==
  ASSUME NEW m \in MemoryType, MessagesFit(m)
  PROVE  /\ MessagesFit(WatchSecurityPolicies(m))
         /\ Finding(m) => Finding(WatchSecurityPolicies(m))
         /\ Found(m) => Found(WatchSecurityPolicies(m))
         /\ Booted(m) => Booted(WatchSecurityPolicies(m))
  <1> DEFINE c == [kind |-> "watch", behind |-> m.behind]
             w == CancelWatch(m)
             o == Send(w, c)
             n == WatchSecurityPolicies(m)
  <1>1. c \in Call /\ c.kind = "watch" /\ CallFits(c)
    BY DEF Call, MemoryType, CallFits
  <1>2. w \in MemoryType /\ Keeps(m, w) /\ MessagesFit(w)
    BY CancelWatchType, CancelKeeps
  <1>3. n = [o EXCEPT !.token = TRUE]
    BY DEF WatchSecurityPolicies
  <1> HIDE DEF w, c
  <1>4. o \in MemoryType
    BY <1>1, <1>2, SendType
  <1>5. /\ n.calls = Append(w.calls, c) /\ n.replies = w.replies /\ n.watch = w.watch
        /\ o.calls = n.calls /\ o.replies = n.replies
    BY <1>2, <1>3, <1>4 DEF Send, MemoryType
  <1>6. MessagesFit(n)
    BY <1>1, <1>2, <1>5, SentKeeps DEF MessagesFit
  <1> HIDE DEF n, o
  <1>7. w.calls \in Seq(Call)
    BY <1>2 DEF MemoryType
  <1>8. \A k : k # "watch" => (None(w.calls, k) => None(n.calls, k))
    BY <1>1, <1>5, <1>7, AppendKinds
  <1>9. FirstOf(w.calls, "findDevice", "watch") => FirstOf(n.calls, "findDevice", "watch")
    BY <1>1, <1>5, <1>7, AppendKinds, BeforeAppended DEF FirstOf
  <1>10. /\ Finding(w) => Finding(n)
         /\ Found(w) => Found(n)
         /\ Booted(w) => Booted(n)
    BY <1>5, <1>8, <1>9 DEF Finding, Found, Booted
  <1> QED BY <1>2, <1>6, <1>10 DEF Keeps, n

LEMMA QueryKeeps ==
  ASSUME NEW m \in MemoryType, MessagesFit(m)
  PROVE  /\ MessagesFit(QuerySecurityPolicies(m)) /\ MessagesFit(QueryDevicePolicy(m))
         /\ Booted(m) => Booted(QuerySecurityPolicies(m))
  <1>1. /\ [kind |-> "find"] \in Call /\ CallFits([kind |-> "find"])
        /\ [kind |-> "findDevice"] \in Call /\ CallFits([kind |-> "findDevice"])
    BY DEF Call, CallFits
  <1>2. MessagesFit(QuerySecurityPolicies(m)) /\ MessagesFit(QueryDevicePolicy(m))
    BY <1>1, SentKeeps DEF QuerySecurityPolicies, QueryDevicePolicy
  <1>3. Booted(m) => Booted(QuerySecurityPolicies(m))
    <2> DEFINE n == QuerySecurityPolicies(m)
    <2>1. /\ n.calls = Append(m.calls, [kind |-> "find"]) /\ n.replies = m.replies
          /\ m.calls \in Seq(Call)
      BY DEF QuerySecurityPolicies, Send, MemoryType
    <2>2. \A k : k # "find" => (None(m.calls, k) => None(n.calls, k))
      BY <1>1, <2>1, AppendKinds
    <2> HIDE DEF n
    <2> QED BY <2>1, <2>2 DEF Booted, n
  <1> QED BY <1>2, <1>3

LEMMA SoundStep ==
  ASSUME NEW m, NEW n, Sound(m), Keeps(m, n), AllFit(n), Fresh(m) => Fresh(n)
  PROVE  Sound(n)
  BY DEF Sound, InOrder, Keeps

(* What changes neither messages nor the numbers. *)
SameNumbers(m, n) ==
  n.aggregate = m.aggregate /\ n.retriesLeft = m.retriesLeft

LEMMA SameSound ==
  ASSUME NEW m, NEW n, SameWatch(m, n), SameNumbers(m, n)
  PROVE  /\ Sound(m) => Sound(n)
         /\ AllFit(m) => AllFit(n)
         /\ Booted(m) => Booted(n)
  <1>1. Keeps(m, n) /\ (MessagesFit(m) => MessagesFit(n))
    BY SameKeeps
  <1>2. AllFit(m) => AllFit(n)
    BY <1>1 DEF AllFit, SameNumbers
  <1>3. Sound(m) => Sound(n)
    BY <1>1, <1>2, SoundStep DEF SameNumbers, Fresh, Sound
  <1> QED BY <1>1, <1>2, <1>3 DEF Keeps

LEMMA SaveSound ==
  ASSUME NEW m \in MemoryType, AllFit(m)
  PROVE  /\ AllFit(Save(m))
         /\ Sound(m) => Sound(Save(m))
         /\ Booted(m) => Booted(Save(m))
  <1>1. Keeps(m, Save(m)) /\ MessagesFit(Save(m))
    BY SaveKeeps DEF AllFit
  <1>2. CancelWatch(m) \in MemoryType /\ SameNumbers(m, CancelWatch(m))
    BY CancelWatchType DEF CancelWatch, SameNumbers, MemoryType
  <1>3. SameNumbers(m, Save(m))
    BY <1>2 DEF Save, Send, SameNumbers, MemoryType
  <1>4. AllFit(Save(m)) /\ (Fresh(m) => Fresh(Save(m)))
    BY <1>1, <1>3 DEF AllFit, SameNumbers, Fresh
  <1> QED BY <1>1, <1>4, SoundStep DEF Keeps

LEMMA NotifySound ==
  ASSUME NEW m \in MemoryType, AllFit(m)
  PROVE  /\ AllFit(NotifyPolicyChanged(m))
         /\ Booted(m) => Booted(NotifyPolicyChanged(m))
  <1> DEFINE n == [m EXCEPT !.isEnforced = PasscodeSatisfiesPolicy(m.aggregate)]
             o == SlotPolicyChanged(n)
  <1>1. PasscodeSatisfiesPolicy(m.aggregate) \in BOOLEAN
    BY DEF PasscodeSatisfiesPolicy, DecryptedPasscode, MemoryType, Policy
  <1>2. n \in MemoryType /\ SameWatch(m, n) /\ SameNumbers(m, n)
    BY <1>1 DEF MemoryType, SameWatch, SameNumbers
  <1>3. NotifyPolicyChanged(m) = Save(o)
    BY DEF NotifyPolicyChanged
  <1> HIDE DEF n
  <1>4. o \in MemoryType /\ SameWatch(n, o) /\ SameNumbers(n, o)
    BY <1>2, SlotType DEF SlotPolicyChanged, SameWatch, SameNumbers, MemoryType
  <1> HIDE DEF o
  <1>5. AllFit(n) /\ (Booted(m) => Booted(n))
    BY <1>2, SameSound
  <1>6. AllFit(o) /\ (Booted(n) => Booted(o))
    BY <1>4, <1>5, SameSound
  <1> QED BY <1>3, <1>4, <1>5, <1>6, SaveSound

LEMMA WatchSound ==
  ASSUME NEW m \in MemoryType, AllFit(m)
  PROVE  /\ AllFit(WatchSecurityPolicies(m))
         /\ SameNumbers(m, WatchSecurityPolicies(m))
         /\ Booted(m) => Booted(WatchSecurityPolicies(m))
  <1>1. CancelWatch(m) \in MemoryType /\ SameNumbers(m, CancelWatch(m))
    BY CancelWatchType DEF CancelWatch, SameNumbers, MemoryType
  <1>2. SameNumbers(m, WatchSecurityPolicies(m))
    BY <1>1 DEF WatchSecurityPolicies, Send, SameNumbers, MemoryType
  <1> QED BY <1>2, WatchKeeps DEF AllFit, SameNumbers

LEMMA UpdateSound ==
  ASSUME NEW m \in MemoryType, AllFit(m), Booted(m),
         NEW policies \in Seq(Policy \cup {NoPolicy}), NEW behind \in BOOLEAN
  PROVE  Sound(UpdateDevicePolicy(m, policies, behind))
  <1> DEFINE a == Aggregate(policies)
             n == [m EXCEPT !.aggregate = a,
                            !.behind = behind,
                            !.retriesLeft = IF a.maxRetries # m.aggregate.maxRetries
                                              THEN a.maxRetries ELSE @]
  <1>1. a \in Policy
    BY AggregateType
  <1>2. UpdateDevicePolicy(m, policies, behind) =
          IF a = m.aggregate THEN WatchSecurityPolicies(n) ELSE NotifyPolicyChanged(n)
    BY DEF UpdateDevicePolicy
  <1> HIDE DEF a
  <1>3. n \in MemoryType /\ SameWatch(m, n)
    BY <1>1 DEF MemoryType, Policy, SameWatch
  <1>4. n.retriesLeft <= n.aggregate.maxRetries
    BY <1>1 DEF AllFit, MemoryType, Policy
  <1> HIDE DEF n
  <1>5. AllFit(n) /\ Booted(n)
    BY <1>3, <1>4, SameKeeps DEF AllFit, Keeps
  <1>6. Sound(NotifyPolicyChanged(n))
    BY <1>3, <1>5, NotifySound DEF Sound, InOrder
  <1>7. Sound(WatchSecurityPolicies(n))
    BY <1>3, <1>5, WatchSound DEF Sound, InOrder
  <1> QED BY <1>2, <1>6, <1>7

LEMMA QuerySound ==
  ASSUME NEW m \in MemoryType, AllFit(m), Booted(m)
  PROVE  Sound(QuerySecurityPolicies(m))
  <1>1. SameNumbers(m, QuerySecurityPolicies(m))
    BY DEF QuerySecurityPolicies, Send, SameNumbers, MemoryType
  <1> QED BY <1>1, QueryKeeps DEF AllFit, SameNumbers, Sound, InOrder

LEMMA ClientSound ==
  ASSUME NEW m \in MemoryType, Sound(m)
  PROVE  /\ Sound(PasswordEnforced(m))
         /\ Sound(DecrementRetries(m))
         /\ Sound(ResetRetries(m))
  <1>1. /\ m.retriesLeft \in Nat /\ m.aggregate.maxRetries \in Nat
        /\ AllFit(m) /\ m.retriesLeft <= m.aggregate.maxRetries
    BY DEF MemoryType, Policy, Sound, AllFit
  <1>2. ASSUME NEW n \in MemoryType, SameWatch(m, n), n.aggregate = m.aggregate,
               n.retriesLeft \in {m.retriesLeft, m.retriesLeft - 1, m.aggregate.maxRetries}
        PROVE  Sound(n)
    <2>1. n.retriesLeft \in Nat
      BY <1>2 DEF MemoryType
    <2>2. AllFit(n) /\ (Fresh(m) => Fresh(n))
      BY <1>1, <1>2, <2>1, SameKeeps DEF AllFit, Fresh
    <2> QED BY <1>2, <2>2, SameKeeps, SoundStep
  <1>3. Sound(PasswordEnforced(m))
    <2> DEFINE n == [m EXCEPT !.isEnforced = TRUE, !.retriesLeft = m.aggregate.maxRetries]
               o == SlotPolicyChanged(n)
    <2>1. n \in MemoryType /\ SameWatch(m, n) /\ n.aggregate = m.aggregate
          /\ n.retriesLeft = m.aggregate.maxRetries
      BY <1>1 DEF MemoryType, SameWatch
    <2>2. PasswordEnforced(m) = Save(o) \/ PasswordEnforced(m) = m
      BY DEF PasswordEnforced
    <2> HIDE DEF n
    <2>3. Sound(n)
      BY <1>2, <2>1
    <2>4. o \in MemoryType /\ SameWatch(n, o) /\ SameNumbers(n, o)
      BY <2>1, SlotType DEF SlotPolicyChanged, SameWatch, SameNumbers, MemoryType
    <2> HIDE DEF o
    <2>5. Sound(o) /\ AllFit(o)
      BY <2>3, <2>4, SameSound DEF Sound
    <2> QED BY <2>2, <2>4, <2>5, SaveSound
  <1>4. Sound(DecrementRetries(m))
    <2> DEFINE n == [m EXCEPT !.retriesLeft = IF @ > 0 THEN @ - 1 ELSE @]
    <2>1. (IF m.retriesLeft > 0 THEN m.retriesLeft - 1 ELSE m.retriesLeft) \in Nat
      BY <1>1
    <2>2. n \in MemoryType /\ SameWatch(m, n) /\ n.aggregate = m.aggregate
          /\ n.retriesLeft \in {m.retriesLeft, m.retriesLeft - 1}
      BY <2>1 DEF MemoryType, SameWatch
    <2>3. DecrementRetries(m) = Save(n)
      BY DEF DecrementRetries
    <2> HIDE DEF n
    <2>4. Sound(n) /\ AllFit(n)
      BY <1>2, <2>2 DEF Sound
    <2> QED BY <2>2, <2>3, <2>4, SaveSound
  <1>5. Sound(ResetRetries(m))
    <2> DEFINE n == [m EXCEPT !.retriesLeft = m.aggregate.maxRetries]
    <2>1. n \in MemoryType /\ SameWatch(m, n) /\ n.aggregate = m.aggregate
          /\ n.retriesLeft = m.aggregate.maxRetries
      BY <1>1 DEF MemoryType, SameWatch
    <2>2. ResetRetries(m) = Save(n)
      BY DEF ResetRetries
    <2> HIDE DEF n
    <2>3. Sound(n) /\ AllFit(n)
      BY <1>2, <2>1 DEF Sound
    <2> QED BY <2>1, <2>2, <2>3, SaveSound
  <1> QED BY <1>3, <1>4, <1>5

(* A reply is received: which stage it can belong to, and what is left. *)
LEMMA ReceivedSound ==
  ASSUME pm \in MemoryType, pm.replies # <<>>, Sound(pm)
  PROVE  /\ Sound(Received) /\ ReplyFits(Head(pm.replies))
         /\ Head(pm.replies).kind = "deleted"
            => /\ Fresh(Received) /\ Deleted(Received)
               /\ None(Received.replies, "deleted")
         /\ Head(pm.replies).kind = "device" => Booted(Received) /\ Fresh(Received)
         /\ Head(pm.replies).kind \in {"policies", "fired"} => Booted(Received)
         /\ Head(pm.replies).kind = "saved"
            => \/ Booted(Received)
               \/ Fresh(Received) /\ (Finding(Received) \/ Found(Received))
  <1> DEFINE h == Head(pm.replies)
             n == Received
  <1>1. /\ pm.replies \in Seq(ReplyMessage) /\ n.replies = Tail(pm.replies)
        /\ n.calls = pm.calls /\ n.watch = pm.watch /\ SameNumbers(pm, n)
    BY DEF MemoryType, Received, SameNumbers
  <1> HIDE DEF n
  <1>2. \A k : (None(pm.replies, k) => None(n.replies, k))
            /\ (AtMostOne(pm.replies, k) => AtMostOne(n.replies, k))
            /\ (AtMostOne(pm.replies, k) /\ h.kind = k => None(n.replies, k))
            /\ (None(pm.replies, k) => h.kind # k)
    BY <1>1, TailKinds
  <1>3. \A k, l : Before(pm.replies, k, l) => Before(n.replies, k, l)
                                           /\ (h.kind = l => None(pm.replies, k))
    BY <1>1, BeforeTail
  <1>4. Keeps(pm, n)
    BY <1>1, <1>2, <1>3 DEF Keeps, Deleting, Deleted, Finding, Found, Booted, FirstOf
  <1>5. AllFit(n) /\ ReplyFits(h)
    <2>1. /\ 1 \in DOMAIN pm.replies /\ h = pm.replies[1]
          /\ \A i \in DOMAIN n.replies : i + 1 \in DOMAIN pm.replies
                                         /\ n.replies[i] = pm.replies[i + 1]
      BY <1>1
    <2> HIDE DEF h
    <2> QED BY <1>1, <2>1 DEF AllFit, MessagesFit, SameNumbers, Sound
  <1>6. Fresh(pm) => Fresh(n)
    BY <1>1 DEF Fresh, SameNumbers
  <1>7. ~Deleting(pm)
    BY DEF Deleting
  <1>8. h.kind = "deleted" => Fresh(pm) /\ Deleted(pm) /\ None(n.replies, "deleted")
    BY <1>2, <1>7 DEF Sound, InOrder, Finding, Found, Booted, Deleted, FirstOf
  <1>9. h.kind = "device" => Fresh(pm) /\ Booted(n)
    BY <1>1, <1>2, <1>7 DEF Sound, InOrder, Finding, Found, Booted, Deleted, FirstOf
  <1>10. h.kind \in {"policies", "fired"} => Booted(pm)
    <2>1. \A k \in {"policies", "fired"} : h.kind = k => ~Deleted(pm) /\ ~Finding(pm)
      BY <1>2 DEF Deleted, Finding
    <2>2. h.kind = "policies" => ~Found(pm)
      BY <1>2 DEF Found
    <2>3. h.kind = "fired" /\ Found(pm) => Booted(pm)
      BY <1>3 DEF Found, FirstOf, Booted
    <2> QED BY <1>7, <2>1, <2>2, <2>3 DEF Sound, InOrder
  <1>11. h.kind = "saved" /\ Deleted(pm) => Booted(pm)
    BY <1>3 DEF Deleted, FirstOf, Booted
  <1>12. Sound(n)
    BY <1>4, <1>5, <1>6, SoundStep
  <1> QED
    BY <1>4, <1>5, <1>6, <1>7, <1>8, <1>9, <1>10, <1>11, <1>12
    DEF Keeps, Sound, InOrder, n

LEMMA CallbacksSound ==
  ASSUME TypeInv, Sound(pm), Callbacks
  PROVE  Sound(pm')
  <1>1. pm \in MemoryType /\ written \in BOOLEAN /\ pm.replies # <<>>
    BY DEF TypeInv, DeviceTypeOK, Callbacks, CbTempPoliciesDeleted, CbDevicePolicy,
           CbSecurityPolicy, CbDevicePolicySaved, CbWatchResponse, DropReply, Reply
  <1> DEFINE r == Head(pm.replies)
  <1>2. Received \in MemoryType /\ r \in ReplyMessage
    BY <1>1, ReceivedType
  <1>3. /\ Sound(Received) /\ AllFit(Received) /\ ReplyFits(r)
        /\ r.kind = "deleted" => Fresh(Received) /\ Deleted(Received)
                                 /\ None(Received.replies, "deleted")
        /\ r.kind = "device" => Booted(Received) /\ Fresh(Received)
        /\ r.kind \in {"policies", "fired"} => Booted(Received)
        /\ r.kind = "saved" => \/ Booted(Received)
                               \/ Fresh(Received) /\ (Finding(Received) \/ Found(Received))
    BY <1>1, ReceivedSound DEF Sound
  <1>4. CASE CbTempPoliciesDeleted
    <2> DEFINE n == QueryDevicePolicy(Received)
               c == [kind |-> "findDevice"]
    <2>1. /\ pm' = n /\ n.calls = Append(Received.calls, c) /\ n.replies = Received.replies
          /\ n.watch = Received.watch /\ SameNumbers(Received, n)
          /\ Received.calls \in Seq(Call) /\ c \in Call
      BY <1>2, <1>4 DEF CbTempPoliciesDeleted, QueryDevicePolicy, Send, MemoryType, Call,
                        SameNumbers
    <2>2. Fresh(Received) /\ Deleted(Received) /\ None(Received.replies, "deleted")
      BY <1>3, <1>4 DEF CbTempPoliciesDeleted, Reply
    <2>3. MessagesFit(n)
      BY <1>2, <1>3, QueryKeeps DEF AllFit
    <2> HIDE DEF n
    <2>4. \A k : k # "findDevice" => (None(Received.calls, k) => None(n.calls, k))
      BY <2>1, AppendKinds
    <2>5. FirstOf(n.calls, "findDevice", "watch")
      BY <2>1, <2>2, AppendKinds, BeforeAppended DEF FirstOf, Deleted
    <2>6. Finding(n)
      BY <2>1, <2>2, <2>4, <2>5 DEF Finding, Deleted
    <2>7. AllFit(n) /\ Fresh(n)
      BY <1>3, <2>1, <2>2, <2>3 DEF AllFit, Fresh, SameNumbers
    <2> QED BY <2>1, <2>6, <2>7 DEF Sound, InOrder
  <1>5. CASE CbDevicePolicy
    <2> DEFINE m == [Received EXCEPT !.loaded = TRUE]
               n == [m EXCEPT !.aggregate = DefaultPolicy, !.id = 0, !.behind = written]
               o == SetDevicePolicy(m, r.found)
    <2>1. m \in MemoryType /\ SameWatch(Received, m) /\ SameNumbers(Received, m)
      BY <1>2 DEF MemoryType, SameWatch, SameNumbers
    <2>2. AllFit(m) /\ Booted(m) /\ Fresh(m)
      BY <1>3, <1>5, <2>1, SameSound DEF CbDevicePolicy, Reply, Fresh, SameNumbers
    <2>3. pm' = QuerySecurityPolicies(IF r.found.id = 0 THEN NotifyPolicyChanged(n) ELSE o)
      BY <1>5 DEF CbDevicePolicy, SetDefaultPolicy
    <2>4. r.found.id = 0 \/ r.found \in [id: Nat, object: DevicePolicy]
      BY <1>2, <1>5 DEF CbDevicePolicy, Reply, ReplyMessage, NoObject
    <2> HIDE DEF m
    <2>5. /\ n \in MemoryType /\ SameWatch(m, n) /\ n.retriesLeft = m.retriesLeft
          /\ n.aggregate.maxRetries = 0
      <3>1. DefaultPolicy \in Policy /\ DefaultPolicy.maxRetries = 0
        BY DEF DefaultPolicy, Policy
      <3> QED BY <1>1, <2>1, <3>1 DEF MemoryType, SameWatch
    <2>6. AllFit(n) /\ Booted(n)
      BY <2>2, <2>5, SameKeeps DEF AllFit, Keeps, Fresh
    <2>7. ASSUME r.found.id # 0
          PROVE  o \in MemoryType /\ AllFit(o) /\ Booted(o)
      <3>1. r.found.object \in DevicePolicy /\ r.found.id \in Nat
        BY <2>4, <2>7
      <3>2. o \in MemoryType /\ SameWatch(m, o)
            /\ o.retriesLeft = r.found.object.retries
            /\ o.aggregate = r.found.object.policy
        BY <1>1, <2>1, <3>1 DEF SetDevicePolicy, MemoryType, DevicePolicy, SameWatch
      <3>3. Fits(r.found.object)
        BY <1>3, <1>5, <2>7 DEF ReplyFits, CbDevicePolicy, Reply
      <3> HIDE DEF o
      <3> QED BY <2>2, <3>2, <3>3, SameKeeps DEF AllFit, Keeps, Fits
    <2> HIDE DEF n, o
    <2>8. NotifyPolicyChanged(n) \in MemoryType
          /\ AllFit(NotifyPolicyChanged(n)) /\ Booted(NotifyPolicyChanged(n))
      BY <2>5, <2>6, NotifyType, NotifySound
    <2>9. ASSUME NEW q \in MemoryType, AllFit(q), Booted(q)
          PROVE  Sound(QuerySecurityPolicies(q))
      BY <2>9, QuerySound
    <2> QED BY <2>3, <2>7, <2>8, <2>9
  <1>6. CASE CbSecurityPolicy
    <2>1. r.policies \in Seq(Policy \cup {NoPolicy}) /\ r.behind \in BOOLEAN
      BY <1>2, <1>6 DEF CbSecurityPolicy, Reply, ReplyMessage
    <2>2. Booted(Received)
      BY <1>3, <1>6 DEF CbSecurityPolicy, Reply
    <2>3. Sound(UpdateDevicePolicy(Received, r.policies, r.behind))
      BY <1>2, <1>3, <2>1, <2>2, UpdateSound
    <2> QED BY <1>3, <1>6, <2>3 DEF CbSecurityPolicy
  <1>7. CASE CbDevicePolicySaved
    <2> DEFINE m == [Received EXCEPT !.id = IF r.id # 0 THEN r.id ELSE @]
               n == WatchSecurityPolicies(m)
    <2>1. r.id \in Nat /\ r.kind = "saved"
      BY <1>2, <1>7 DEF CbDevicePolicySaved, Reply, ReplyMessage
    <2>2. m \in MemoryType /\ SameWatch(Received, m) /\ SameNumbers(Received, m)
      BY <1>2, <2>1 DEF MemoryType, SameWatch, SameNumbers
    <2>3. pm' = n
      BY <1>7 DEF CbDevicePolicySaved
    <2> HIDE DEF m
    <2>4. AllFit(m) /\ Keeps(Received, m)
      BY <1>3, <2>2, SameSound, SameKeeps
    <2>5. AllFit(n) /\ SameNumbers(m, n)
      BY <2>2, <2>4, WatchSound
    <2>6. /\ Finding(m) => Finding(n)
          /\ Found(m) => Found(n)
          /\ Booted(m) => Booted(n)
      BY <2>2, <2>4, WatchKeeps DEF AllFit
    <2>7. Fresh(Received) => Fresh(n)
      BY <2>2, <2>5 DEF Fresh, SameNumbers
    <2>8. Booted(n) \/ (Fresh(n) /\ (Finding(n) \/ Found(n)))
      BY <1>3, <2>1, <2>4, <2>6, <2>7 DEF Keeps
    <2> QED BY <2>3, <2>5, <2>8 DEF Sound, InOrder
  <1>8. CASE CbWatchResponse
    <2> DEFINE m == [Received EXCEPT !.token = FALSE]
    <2>1. /\ m \in MemoryType /\ SameNumbers(Received, m)
          /\ m.calls = Received.calls /\ m.replies = Received.replies
          /\ m.watch = Received.watch
      BY <1>2 DEF MemoryType, SameNumbers
    <2>2. pm' = QuerySecurityPolicies(m)
      BY <1>8 DEF CbWatchResponse
    <2>3. Booted(Received)
      BY <1>3, <1>8 DEF CbWatchResponse, Reply
    <2> HIDE DEF m
    <2>4. AllFit(m) /\ Booted(m)
      BY <1>3, <2>1, <2>3 DEF AllFit, MessagesFit, Booted, SameNumbers
    <2> QED BY <2>1, <2>2, <2>4, QuerySound
  <1>9. CASE DropReply
    BY <1>3, <1>9 DEF DropReply
  <1> QED BY <1>4, <1>5, <1>6, <1>7, <1>8, <1>9 DEF Callbacks

(* A stage in which a save may be answered. *)
Answerable(m) ==
  \/ Booted(m)
  \/ Fresh(m) /\ (Deleted(m) \/ Finding(m) \/ Found(m))

(* A call is served: which stage it can belong to, and what is left. *)
LEMMA ServedSound ==
  ASSUME pm \in MemoryType, pm.calls # <<>>, Sound(pm)
  PROVE  /\ Sound(Served) /\ CallFits(Head(pm.calls))
         /\ Down(pm) => Down(Served) /\ Head(pm.calls).kind \in {"orphan", "void"}
         /\ Head(pm.calls).kind = "del"
            => /\ Fresh(Served) /\ Deleting(Served)
               /\ None(Served.calls, "del")
         /\ Head(pm.calls).kind = "findDevice"
            => /\ Fresh(Served) /\ Finding(Served)
               /\ None(Served.calls, "findDevice")
         /\ Head(pm.calls).kind = "find" => Booted(Served)
         /\ Head(pm.calls).kind = "save" => Answerable(Served)
         /\ Head(pm.calls).kind = "watch"
            => \/ Booted(Served)
               \/ Fresh(Served) /\ Found(Served)
  <1> DEFINE h == Head(pm.calls)
             n == Served
  <1>1. /\ pm.calls \in Seq(Call) /\ n.calls = Tail(pm.calls)
        /\ n.replies = pm.replies /\ n.watch = pm.watch /\ SameNumbers(pm, n)
    BY DEF MemoryType, Served, SameNumbers
  <1> HIDE DEF n
  <1>2. \A k : /\ None(pm.calls, k) => None(n.calls, k)
               /\ AtMostOne(pm.calls, k) => AtMostOne(n.calls, k)
               /\ AtMostOne(pm.calls, k) /\ h.kind = k => None(n.calls, k)
               /\ None(pm.calls, k) => h.kind # k
    BY <1>1, TailKinds
  <1>3. \A k, l : Before(pm.calls, k, l) => /\ Before(n.calls, k, l)
                                            /\ h.kind = l => None(pm.calls, k)
    BY <1>1, BeforeTail
  <1>4. Keeps(pm, n)
    BY <1>1, <1>2, <1>3 DEF Keeps, Deleting, Deleted, Finding, Found, Booted, FirstOf
  <1>5. AllFit(n) /\ CallFits(h)
    <2>1. /\ 1 \in DOMAIN pm.calls /\ h = pm.calls[1]
          /\ \A i \in DOMAIN n.calls : i + 1 \in DOMAIN pm.calls
                                       /\ n.calls[i] = pm.calls[i + 1]
      BY <1>1
    <2> HIDE DEF h
    <2> QED BY <1>1, <2>1 DEF AllFit, MessagesFit, SameNumbers, Sound
  <1>6. Fresh(pm) => Fresh(n)
    BY <1>1 DEF Fresh, SameNumbers
  <1>7. Sound(n)
    BY <1>4, <1>5, <1>6, SoundStep
  <1>8. h \in Call
    BY <1>1
  <1>9. Down(pm) => Down(n) /\ h.kind \in {"orphan", "void"}
    <2>1. Down(pm) => Down(n)
      BY <1>2, <1>4, <1>6 DEF Down, Keeps
    <2>2. Down(pm) => h.kind \notin {"del", "save", "findDevice", "find", "watch"}
      BY <1>2 DEF Down, Deleting
    <2>3. h.kind \in {"del", "findDevice", "find", "void", "save", "orphan", "watch"}
      BY <1>8 DEF Call
    <2> QED BY <2>1, <2>2, <2>3
  <1>10. h.kind = "del" => Fresh(pm) /\ Deleting(pm) /\ None(n.calls, "del")
    BY <1>2 DEF Sound, InOrder, Deleting, Deleted, Finding, Found, Booted, FirstOf
  <1>11. h.kind = "findDevice" => Fresh(pm) /\ Finding(pm) /\ None(n.calls, "findDevice")
    BY <1>2 DEF Sound, InOrder, Deleting, Deleted, Finding, Found, Booted, FirstOf
  <1>12. h.kind = "find" => Booted(pm)
    BY <1>2 DEF Sound, InOrder, Deleting, Deleted, Finding, Found
  <1>13. h.kind = "save" /\ Deleting(pm) => Booted(pm)
    <2>1. None(<<>>, "deleted") /\ None(<<>>, "device")
      BY DEF None
    <2> QED BY <1>3, <2>1 DEF Deleting, FirstOf, Booted
  <1>14. h.kind = "watch" => \/ Booted(pm)
                             \/ Fresh(pm) /\ Found(pm)
    <2>1. h.kind = "watch" => ~Deleting(pm) /\ ~Deleted(pm)
      BY <1>2 DEF Deleting, Deleted
    <2>2. h.kind = "watch" /\ Finding(pm) => Booted(pm)
      BY <1>3 DEF Finding, FirstOf, Booted
    <2> QED BY <2>1, <2>2 DEF Sound, InOrder
  <1>15. h.kind = "save" => Answerable(n)
    BY <1>4, <1>6, <1>13 DEF Keeps, Answerable, Sound, InOrder
  <1> QED
    BY <1>4, <1>5, <1>6, <1>7, <1>9, <1>10, <1>11, <1>12, <1>14, <1>15
    DEF Keeps, n

LEMMA RepliedKinds ==
  ASSUME NEW m \in MemoryType, NEW r \in ReplyMessage, AllFit(m), ReplyFits(r)
  PROVE  /\ AllFit(Replied(m, r)) /\ SameNumbers(m, Replied(m, r))
         /\ Replied(m, r).calls = m.calls /\ Replied(m, r).watch = m.watch
         /\ \A k : /\ None(m.replies, k) /\ r.kind # k => None(Replied(m, r).replies, k)
                   /\ None(m.replies, k) => AtMostOne(Replied(m, r).replies, k)
                   /\ AtMostOne(m.replies, k) /\ r.kind # k
                      => AtMostOne(Replied(m, r).replies, k)
         /\ \A k, l : /\ Before(m.replies, k, l) /\ r.kind # k
                         => Before(Replied(m, r).replies, k, l)
                      /\ None(m.replies, l) /\ r.kind # l
                         => Before(Replied(m, r).replies, k, l)
  <1> DEFINE n == Replied(m, r)
  <1>1. /\ m.replies \in Seq(ReplyMessage) /\ n.replies = Append(m.replies, r)
        /\ n.calls = m.calls /\ n.watch = m.watch /\ SameNumbers(m, n)
    BY DEF MemoryType, Replied, SameNumbers
  <1> HIDE DEF n
  <1>2. AllFit(n)
    <2>1. /\ Len(m.replies) \in Nat /\ DOMAIN m.replies = 1 .. Len(m.replies)
          /\ DOMAIN n.replies = 1 .. (Len(m.replies) + 1)
          /\ n.replies[Len(m.replies) + 1] = r
          /\ \A i \in DOMAIN m.replies : n.replies[i] = m.replies[i]
      BY <1>1
    <2>2. \A i \in DOMAIN n.replies : i = Len(m.replies) + 1 \/ i \in DOMAIN m.replies
      BY <2>1
    <2> QED BY <1>1, <2>1, <2>2 DEF AllFit, MessagesFit, SameNumbers
  <1>3. \A k : /\ None(m.replies, k) /\ r.kind # k => None(n.replies, k)
               /\ None(m.replies, k) => AtMostOne(n.replies, k)
               /\ AtMostOne(m.replies, k) /\ r.kind # k => AtMostOne(n.replies, k)
    BY <1>1, AppendKinds
  <1>4. \A k, l : /\ Before(m.replies, k, l) /\ r.kind # k => Before(n.replies, k, l)
                  /\ None(m.replies, l) /\ r.kind # l => Before(n.replies, k, l)
    BY <1>1, BeforeAppended
  <1> QED BY <1>1, <1>2, <1>3, <1>4 DEF n

(* The reply to a save, to the policies' query, or a report. *)
LEMMA RepliedSound ==
  ASSUME NEW m \in MemoryType, NEW r \in ReplyMessage, Sound(m), ReplyFits(r)
  PROVE  /\ r.kind \in {"saved", "fired", "policies"} /\ Booted(m)
            => Sound(Replied(m, r))
         /\ r.kind = "fired" /\ Found(m) => Sound(Replied(m, r))
         /\ r.kind = "saved" /\ Answerable(m) => Sound(Replied(m, r))
  <1> DEFINE n == Replied(m, r)
  <1>1. AllFit(n) /\ (Fresh(m) => Fresh(n)) /\ n.calls = m.calls /\ n.watch = m.watch
    BY RepliedKinds DEF Sound, Fresh, SameNumbers
  <1>2. \A k : /\ None(m.replies, k) /\ r.kind # k => None(n.replies, k)
               /\ AtMostOne(m.replies, k) /\ r.kind # k => AtMostOne(n.replies, k)
    BY RepliedKinds DEF Sound
  <1>3. \A k, l : Before(m.replies, k, l) /\ r.kind # k => Before(n.replies, k, l)
    BY RepliedKinds DEF Sound
  <1> HIDE DEF n
  <1>4. r.kind \in {"saved", "fired", "policies"} /\ Booted(m) => Booted(n)
    BY <1>1, <1>2 DEF Booted
  <1>5. r.kind \in {"saved", "fired"} /\ Found(m) => Found(n)
    BY <1>1, <1>2, <1>3 DEF Found, FirstOf
  <1>6. r.kind = "saved" => (Deleted(m) => Deleted(n)) /\ (Finding(m) => Finding(n))
    BY <1>1, <1>2, <1>3 DEF Deleted, Finding, FirstOf
  <1> QED BY <1>1, <1>4, <1>5, <1>6 DEF Sound, InOrder, Answerable, n

LEMMA BehindSound ==
  ASSUME NEW m \in MemoryType, up \in BOOLEAN, AllFit(m)
  PROVE  /\ AllFit(Behind(m)) /\ SameNumbers(m, Behind(m))
         /\ Keeps(m, Behind(m))
         /\ Sound(m) => Sound(Behind(m))
         /\ Answerable(m) => Answerable(Behind(m))
         /\ Down(m) => Down(Behind(m))
         /\ \A k : k # "void" /\ None(m.calls, k) => None(Behind(m).calls, k)
  <1> DEFINE n == Behind(m)
  <1>1. Softened(m, n) /\ n \in MemoryType
    BY BehindSoftened, BehindType
  <1>2. SameNumbers(m, n)
    BY DEF Behind, SameNumbers, MemoryType
  <1> HIDE DEF n
  <1>3. Keeps(m, n) /\ AllFit(n) /\ (Fresh(m) => Fresh(n))
    BY <1>1, <1>2, SoftenedKeeps DEF AllFit, SameNumbers, Fresh
  <1>4. \A k : k # "void" /\ None(m.calls, k) => None(n.calls, k)
    BY <1>1, SofterKinds DEF Softened
  <1>5. Down(m) => Down(n)
    BY <1>3, <1>4 DEF Down, Keeps
  <1>6. Answerable(m) => Answerable(n)
    BY <1>3 DEF Answerable, Keeps
  <1> QED BY <1>2, <1>3, <1>4, <1>5, <1>6, SoundStep DEF n

LEMMA DatabaseSound ==
  ASSUME TypeInv, RetriesInv, Database
  PROVE  RetriesInv'
  <1> DEFINE h == Head(pm.calls)
  <1>1. /\ pm \in MemoryType /\ up \in BOOLEAN /\ devices \in Seq(DevicePolicy)
        /\ slots \in [Accounts -> Policy \cup {NoPolicy}] /\ up' = up
    BY DEF TypeInv, DeviceTypeOK, program, Database, ServeDel, ServeFindDevice,
           ServeFind, ServeSave, RefuseSave, ServeWatch, RefuseWatch, DropCall, FireWatch
  <1>2. Sound(pm) /\ (~up => Down(pm)) /\ \A i \in DOMAIN devices : Fits(devices[i])
    BY DEF RetriesInv
  <1>3. ASSUME Sound(pm'), ~up => Down(pm'),
               \A i \in DOMAIN devices' : Fits(devices'[i])
        PROVE  RetriesInv'
    BY <1>1, <1>3 DEF RetriesInv
  <1>4. ASSUME pm.calls # <<>>
        PROVE  /\ Served \in MemoryType /\ h \in Call /\ Sound(Served) /\ AllFit(Served)
               /\ Behind(Served) \in MemoryType
               /\ Sound(Behind(Served)) /\ AllFit(Behind(Served))
               /\ Keeps(Served, Behind(Served)) /\ SameNumbers(Served, Behind(Served))
               /\ Down(Served) => Down(Behind(Served))
    BY <1>1, <1>2, <1>4, ServedType, ServedSound, BehindType, BehindSound DEF Sound
  <1>5. CASE ServeDel
    <2> DEFINE r == [kind |-> "deleted"]
    <2>1. r \in ReplyMessage /\ ReplyFits(r) /\ r.kind = "deleted"
      BY DEF ReplyMessage, ReplyFits
    <2>2. pm.calls # <<>> /\ h.kind = "del" /\ devices' = devices
          /\ (pm' = Replied(Served, r) \/ pm' = Replied(Behind(Served), r))
      BY <1>5 DEF ServeDel, Serves
    <2> HIDE DEF r
    <2>3. /\ Fresh(Served) /\ Deleting(Served) /\ None(Served.calls, "del") /\ up
      BY <1>1, <1>2, <2>2, ServedSound
    <2>4. ASSUME NEW m \in MemoryType, AllFit(m), Fresh(m), Deleting(m),
                 None(m.calls, "del")
          PROVE  Sound(Replied(m, r))
      <3> DEFINE n == Replied(m, r)
      <3>1. AllFit(n) /\ SameNumbers(m, n) /\ n.calls = m.calls /\ n.watch = m.watch
        BY <2>1, <2>4, RepliedKinds
      <3>2. \A k : None(m.replies, k)
        BY <2>4 DEF Deleting, None
      <3>3. /\ \A k : /\ k # "deleted" => None(n.replies, k)
                      /\ AtMostOne(n.replies, k)
            /\ \A k, l : l # "deleted" => Before(n.replies, k, l)
        BY <2>1, <2>4, <3>2, RepliedKinds
      <3> HIDE DEF n
      <3>4. Deleted(n) /\ Fresh(n)
        BY <2>4, <3>1, <3>3 DEF Deleted, Deleting, FirstOf, Fresh, SameNumbers
      <3> QED BY <3>1, <3>4 DEF Sound, InOrder, n
    <2>5. /\ Fresh(Behind(Served)) /\ Deleting(Behind(Served))
          /\ None(Behind(Served).calls, "del")
      BY <1>1, <1>4, <2>2, <2>3, BehindSound DEF Keeps, Fresh, SameNumbers
    <2>6. Sound(pm')
      BY <1>4, <2>2, <2>3, <2>4, <2>5
    <2> QED BY <1>2, <1>3, <2>2, <2>3, <2>6
  <1>6. CASE ServeFindDevice
    <2>1. PICK found \in {[id |-> i, object |-> devices[i]] : i \in DOMAIN devices}
                           \cup {NoObject} :
            pm' = Replied(Served, [kind |-> "device", found |-> found])
      BY <1>6 DEF ServeFindDevice
    <2> DEFINE r == [kind |-> "device", found |-> found]
               n == Replied(Served, r)
    <2>2. \A i \in DOMAIN devices : i \in Nat /\ devices[i] \in DevicePolicy
      BY <1>1
    <2>3. r \in ReplyMessage /\ ReplyFits(r) /\ r.kind = "device"
      BY <1>2, <2>1, <2>2 DEF ReplyMessage, ReplyFits, NoObject
    <2>4. pm.calls # <<>> /\ h.kind = "findDevice" /\ devices' = devices /\ pm' = n
      BY <1>6, <2>1 DEF ServeFindDevice, Serves
    <2>5. /\ Fresh(Served) /\ Finding(Served) /\ None(Served.calls, "findDevice") /\ up
      BY <1>1, <1>2, <2>4, ServedSound
    <2> HIDE DEF r
    <2>6. AllFit(n) /\ SameNumbers(Served, n) /\ n.calls = Served.calls
      BY <1>4, <2>3, <2>4, RepliedKinds
    <2>7. /\ None(n.replies, "deleted") /\ None(n.replies, "policies")
          /\ FirstOf(n.replies, "device", "fired")
      BY <1>4, <2>3, <2>4, <2>5, RepliedKinds DEF Finding, FirstOf
    <2> HIDE DEF n
    <2>8. Found(n) /\ Fresh(n)
      BY <2>5, <2>6, <2>7 DEF Found, Finding, Fresh, SameNumbers
    <2>9. Sound(pm')
      BY <2>4, <2>6, <2>8 DEF Sound, InOrder
    <2> QED BY <1>2, <1>3, <2>4, <2>5, <2>9
  <1>7. CASE ServeFind
    <2>1. PICK ok \in BOOLEAN :
            pm' = Replied(Served, [kind |-> "policies", ok |-> ok,
                                   policies |-> IF ok THEN slots ELSE <<>>,
                                   behind |-> FALSE])
      BY <1>7 DEF ServeFind
    <2>2. slots \in Seq(Policy \cup {NoPolicy})
      BY <1>1, SecurityAssumption, SeqOf DEF SecurityAssumption, Accounts
    <2>3. (IF ok THEN slots ELSE <<>>) \in Seq(Policy \cup {NoPolicy})
      BY <2>2
    <2> DEFINE r == [kind |-> "policies", ok |-> ok,
                     policies |-> IF ok THEN slots ELSE <<>>, behind |-> FALSE]
    <2>4. r \in ReplyMessage /\ r.kind = "policies" /\ ReplyFits(r)
      BY <2>3 DEF ReplyMessage, ReplyFits
    <2> HIDE DEF r
    <2>5. pm' = Replied(Served, r) /\ pm.calls # <<>> /\ h.kind = "find"
          /\ devices' = devices
      BY <1>7, <2>1 DEF ServeFind, Serves, r
    <2>6. Booted(Served) /\ up
      BY <1>1, <1>2, <2>5, ServedSound
    <2>7. Sound(pm')
      BY <1>4, <2>4, <2>5, <2>6, RepliedSound
    <2> QED BY <1>2, <1>3, <2>5, <2>6, <2>7
  <1>8. ASSUME NEW m \in MemoryType, NEW id \in Nat, Sound(m), pm.calls # <<>>,
               h.kind = "save" => up /\ Answerable(m), ~up => Down(m)
        PROVE  Sound(Saved(m, id)) /\ (~up => Down(Saved(m, id)))
    <2> DEFINE r == [kind |-> "saved", id |-> id]
    <2>1. r \in ReplyMessage /\ r.kind = "saved" /\ ReplyFits(r)
      BY DEF ReplyMessage, ReplyFits
    <2>2. Saved(m, id) = IF h.kind = "save" THEN Replied(m, r) ELSE m
      BY DEF Saved
    <2> HIDE DEF r
    <2> QED BY <1>8, <2>1, <2>2, RepliedSound
  <1>9. ASSUME pm.calls # <<>>, h.kind \in {"save", "orphan"}
        PROVE  /\ h.kind = "save" => up /\ Answerable(Served) /\ Answerable(Behind(Served))
               /\ ~up => Down(Served) /\ Down(Behind(Served))
               /\ h.id \in Nat /\ h.object \in DevicePolicy /\ Fits(h.object)
    <2>1. h.id \in Nat /\ h.object \in DevicePolicy
      BY <1>4, <1>9 DEF Call
    <2>2. Fits(h.object)
      BY <1>1, <1>2, <1>9, ServedSound DEF CallFits
    <2>3. ~up => Down(Served) /\ Down(Behind(Served)) /\ h.kind # "save"
      BY <1>1, <1>2, <1>4, <1>9, ServedSound
    <2>4. h.kind = "save" => Answerable(Served) /\ Answerable(Behind(Served))
      BY <1>1, <1>2, <1>4, <1>9, ServedSound, BehindSound
    <2> QED BY <2>1, <2>2, <2>3, <2>4
  <1>10. CASE ServeSave
    <2> DEFINE id == IF h.id = 0 THEN Len(devices) + 1 ELSE h.id
    <2>1. pm' = Saved(Behind(Served), id) /\ pm.calls # <<>> /\ h.kind \in {"save", "orphan"}
      BY <1>10 DEF ServeSave, Serves
    <2>2. h.id \in Nat /\ h.object \in DevicePolicy /\ Fits(h.object) /\ id \in Nat
      BY <1>1, <1>9, <2>1
    <2>3. Sound(pm') /\ (~up => Down(pm'))
      <3> HIDE DEF id
      <3> QED BY <1>4, <1>8, <1>9, <2>1, <2>2
    <2>4. \A i \in DOMAIN devices' : Fits(devices'[i])
      <3>1. CASE h.id = 0
        <4>1. devices' = Append(devices, h.object)
          BY <1>10, <3>1 DEF ServeSave
        <4>2. /\ Len(devices) \in Nat /\ DOMAIN devices = 1 .. Len(devices)
              /\ DOMAIN devices' = 1 .. (Len(devices) + 1)
              /\ devices'[Len(devices) + 1] = h.object
              /\ \A i \in DOMAIN devices : devices'[i] = devices[i]
          BY <1>1, <4>1
        <4>3. \A i \in DOMAIN devices' : i = Len(devices) + 1 \/ i \in DOMAIN devices
          BY <4>2
        <4> QED BY <1>2, <2>2, <4>2, <4>3
      <3>2. CASE h.id # 0
        <4>1. devices' = [devices EXCEPT ![h.id] = h.object]
          BY <1>10, <3>2 DEF ServeSave
        <4>2. \A i \in DOMAIN devices' : i \in DOMAIN devices
                                         /\ devices'[i] \in {devices[i], h.object}
          BY <4>1
        <4> QED BY <1>2, <2>2, <4>2
      <3> QED BY <3>1, <3>2
    <2> QED BY <1>3, <2>3, <2>4
  <1>11. CASE RefuseSave
    <2>1. pm' = Saved(Served, 0) /\ pm.calls # <<>> /\ h.kind \in {"save", "orphan"}
          /\ devices' = devices
      BY <1>11 DEF RefuseSave, Serves
    <2>2. Sound(pm') /\ (~up => Down(pm'))
      BY <1>4, <1>8, <1>9, <2>1
    <2> QED BY <1>2, <1>3, <2>1, <2>2
  <1>12. CASE ServeWatch
    <2>1. /\ pm' = [Served EXCEPT !.watch = IF h.behind THEN "behind" ELSE "set"]
          /\ pm.calls # <<>> /\ h.kind = "watch" /\ devices' = devices
      BY <1>12 DEF ServeWatch, Serves
    <2>2. up /\ (\/ Booted(Served)
                 \/ Fresh(Served) /\ Found(Served))
      BY <1>1, <1>2, <2>1, ServedSound
    <2>3. /\ pm'.calls = Served.calls /\ pm'.replies = Served.replies
          /\ SameNumbers(Served, pm')
      BY <1>4, <2>1 DEF MemoryType, SameNumbers
    <2>4. AllFit(pm')
      BY <1>4, <2>1, <2>3 DEF AllFit, MessagesFit, SameNumbers
    <2>5. InOrder(pm')
      BY <2>2, <2>3 DEF InOrder, Booted, Found, Fresh, SameNumbers
    <2> QED BY <1>2, <1>3, <2>1, <2>2, <2>4, <2>5 DEF Sound
  <1>13. CASE RefuseWatch
    <2>1. pm' = Served /\ pm.calls # <<>> /\ devices' = devices
      BY <1>13 DEF RefuseWatch, Serves
    <2> QED BY <1>1, <1>2, <1>3, <1>4, <2>1, ServedSound
  <1>14. CASE DropCall
    <2>1. pm' = Served /\ pm.calls # <<>> /\ devices' = devices
      BY <1>14 DEF DropCall, Serves
    <2> QED BY <1>1, <1>2, <1>3, <1>4, <2>1, ServedSound
  <1>15. CASE FireWatch
    <2> DEFINE r == [kind |-> "fired"]
               m == [pm EXCEPT !.watch = "none"]
    <2>1. r \in ReplyMessage /\ r.kind = "fired" /\ ReplyFits(r)
      BY DEF ReplyMessage, ReplyFits
    <2>2. pm.watch = "behind" /\ pm' = Replied(m, r) /\ devices' = devices
      BY <1>15 DEF FireWatch
    <2>3. /\ m \in MemoryType /\ SameNumbers(pm, m) /\ m.watch = "none"
          /\ m.calls = pm.calls /\ m.replies = pm.replies
      BY <1>1 DEF MemoryType, SameNumbers
    <2>4. up /\ ~Deleting(pm) /\ ~Deleted(pm) /\ ~Finding(pm)
      BY <1>2, <2>2 DEF Down, Deleting, Deleted, Finding
    <2>5. Booted(pm) \/ Found(pm)
      BY <1>2, <2>4 DEF Sound, InOrder
    <2> HIDE DEF r, m
    <2>6. Sound(m)
      BY <1>2, <2>3, <2>4
      DEF Sound, InOrder, AllFit, MessagesFit, SameNumbers, Fresh, Booted, Found
    <2>7. Booted(m) \/ Found(m)
      BY <2>3, <2>5 DEF Booted, Found
    <2>8. Sound(pm')
      BY <2>1, <2>2, <2>3, <2>6, <2>7, RepliedSound
    <2> QED BY <1>2, <1>3, <2>2, <2>4, <2>8
  <1> QED
    BY <1>5, <1>6, <1>7, <1>10, <1>11, <1>12, <1>13, <1>14, <1>15 DEF Database

LEMMA StartSound ==
  ASSUME TypeInv, RetriesInv, Start
  PROVE  RetriesInv'
  <1> DEFINE m == [pm EXCEPT !.behind = written]
             c == [kind |-> "del"]
  <1>1. pm \in MemoryType /\ Down(pm) /\ AllFit(pm)
    BY DEF TypeInv, DeviceTypeOK, RetriesInv, Start, Sound
  <1>2. m \in MemoryType /\ SameWatch(pm, m) /\ SameNumbers(pm, m)
    BY <1>1 DEF TypeInv, DeviceTypeOK, MemoryType, SameWatch, SameNumbers
  <1>3. c \in Call /\ CallFits(c) /\ c.kind = "del"
    BY DEF Call, CallFits
  <1>4. pm' = Send(m, c) /\ up' /\ devices' = devices
    BY DEF Start
  <1> HIDE DEF m, c
  <1>5. /\ pm'.calls = Append(m.calls, c) /\ pm'.replies = m.replies
        /\ pm'.watch = m.watch /\ SameNumbers(m, pm') /\ m.calls \in Seq(Call)
    BY <1>2, <1>4 DEF Send, MemoryType, SameNumbers
  <1>6. AllFit(pm')
    BY <1>1, <1>2, <1>3, <1>4, <1>5, SameSound, SentKeeps DEF AllFit, SameNumbers
  <1>7. /\ None(m.calls, "del") /\ None(m.calls, "save") /\ Deleting(m) /\ Fresh(m)
    BY <1>1, <1>2, SameKeeps DEF Down, Keeps, SameWatch, Fresh, SameNumbers
  <1>8. \A k : k # "del" /\ None(m.calls, k) => None(pm'.calls, k)
    BY <1>3, <1>5, AppendKinds
  <1>9. FirstOf(pm'.calls, "del", "save")
    BY <1>3, <1>5, <1>7, AppendKinds, BeforeAppended DEF FirstOf
  <1>10. Deleting(pm') /\ Fresh(pm')
    BY <1>5, <1>7, <1>8, <1>9 DEF Deleting, Fresh, SameNumbers
  <1> QED BY <1>4, <1>6, <1>10 DEF RetriesInv, Sound, InOrder

(* A program without memory, with only what its earlier lives have written. *)
LEMMA DownSound ==
  ASSUME NEW m, m.replies = <<>>, m.watch = "none", SameNumbers(Memory, m),
         \A i \in DOMAIN m.calls : /\ m.calls[i].kind \in {"orphan", "void"}
                                   /\ CallFits(m.calls[i])
  PROVE  Down(m) /\ Sound(m)
  <1>1. Fresh(m)
    BY DEF Fresh, SameNumbers, Memory, DefaultPolicy
  <1>2. \A k : k \notin {"orphan", "void"} => None(m.calls, k)
    BY DEF None
  <1>3. FirstOf(m.calls, "del", "save")
    BY DEF FirstOf, AtMostOne, Before
  <1>4. Deleting(m)
    BY <1>2, <1>3 DEF Deleting
  <1>5. AllFit(m)
    BY <1>1 DEF AllFit, MessagesFit, Fresh
  <1> QED BY <1>1, <1>2, <1>4, <1>5 DEF Down, Sound, InOrder

LEMMA CrashSound ==
  ASSUME TypeInv, RetriesInv, Crash
  PROVE  RetriesInv'
  <1>1. /\ pm'.calls = Orphans /\ pm'.replies = <<>> /\ pm'.watch = "none"
        /\ SameNumbers(Memory, pm') /\ devices' = devices
    BY DEF Crash, Memory, SameNumbers
  <1>2. \A i \in DOMAIN Orphans : /\ Orphans[i].kind \in {"orphan", "void"}
                                  /\ CallFits(Orphans[i])
    <2>1. SUFFICES ASSUME NEW i \in DOMAIN Orphans
                   PROVE  /\ Orphans[i].kind \in {"orphan", "void"}
                          /\ CallFits(Orphans[i])
      OBVIOUS
    <2>2. i \in DOMAIN pm.calls /\ CallFits(pm.calls[i])
      BY <2>1 DEF Orphans, RetriesInv, Sound, AllFit, MessagesFit
    <2>3. CASE pm.calls[i].kind \in {"save", "orphan"}
      <3>1. Orphans[i] = [kind |-> "orphan", id |-> pm.calls[i].id,
                          object |-> pm.calls[i].object]
        BY <2>2, <2>3 DEF Orphans
      <3> QED BY <2>2, <2>3, <3>1 DEF CallFits
    <2>4. CASE pm.calls[i].kind \notin {"save", "orphan"}
      <3>1. Orphans[i] = [kind |-> "void"]
        BY <2>2, <2>4 DEF Orphans
      <3> QED BY <3>1 DEF CallFits
    <2> QED BY <2>3, <2>4
  <1>3. Down(pm') /\ Sound(pm')
    BY <1>1, <1>2, DownSound
  <1> QED BY <1>1, <1>3 DEF RetriesInv

LEMMA InitSound == Init => RetriesInv
  <1> SUFFICES ASSUME Init
               PROVE  RetriesInv
    OBVIOUS
  <1>1. /\ pm.calls = <<>> /\ pm.replies = <<>> /\ pm.watch = "none"
        /\ SameNumbers(Memory, pm) /\ devices = <<>>
    BY DEF Init, Memory, SameNumbers
  <1>2. Down(pm) /\ Sound(pm)
    BY <1>1, DownSound
  <1> QED BY <1>1, <1>2 DEF RetriesInv

LEMMA WorldSound ==
  ASSUME TypeInv, RetriesInv, World \/ TimePasses
  PROVE  RetriesInv'
  <1>1. pm \in MemoryType /\ Sound(pm) /\ up \in BOOLEAN
    BY DEF TypeInv, DeviceTypeOK, RetriesInv
  <1>2. ASSUME up, Sound(pm'), UNCHANGED <<up, devices>>
        PROVE  RetriesInv'
    BY <1>2 DEF RetriesInv
  <1>3. CASE \E c \in Passcodes \cup {NoPasscode}, d \in DiskFails \cup {"no"} :
               SetPasscode(c, d)
    BY <1>1, <1>2, <1>3, ClientSound DEF SetPasscode, ClientCalls
  <1>4. CASE MatchLockedOut \/ TimePasses
    <2>1. SameWatch(pm, pm') /\ SameNumbers(pm, pm')
      BY <1>1, <1>4 DEF MatchLockedOut, TimePasses, MemoryType, SameWatch, SameNumbers
    <2>2. up /\ UNCHANGED <<up, devices>>
      BY <1>4 DEF MatchLockedOut, TimePasses, ClientCalls, elsewhere
    <2> QED BY <1>1, <1>2, <2>1, <2>2, SameSound
  <1>5. Attempt \in MemoryType /\ SameWatch(pm, Attempt) /\ SameNumbers(pm, Attempt)
    BY <1>1 DEF MemoryType, Attempt, DefaultMaxRetries, SameWatch, SameNumbers
  <1>6. Sound(Attempt)
    BY <1>1, <1>5, SameSound
  <1>7. CASE MatchWrong
    <2> DEFINE m == [Attempt EXCEPT !.numRetries = IF @ > 0 THEN @ - 1 ELSE @,
                                    !.lastFailure = "recent"]
               n == DecrementRetries(m)
               o == [n EXCEPT !.numRetries = n.retriesLeft,
                              !.wiping = @ \/ n.retriesLeft = 0]
    <2>1. (IF Attempt.numRetries > 0 THEN Attempt.numRetries - 1
                                     ELSE Attempt.numRetries) \in Nat
      BY <1>5 DEF MemoryType
    <2>2. m \in MemoryType /\ SameWatch(Attempt, m) /\ SameNumbers(Attempt, m)
      BY <1>5, <2>1 DEF MemoryType, SameWatch, SameNumbers
    <2>3. pm' = (IF CountsRetries(m) THEN o ELSE m) /\ up /\ UNCHANGED <<up, devices>>
      BY <1>7 DEF MatchWrong, ClientCalls
    <2> HIDE DEF m
    <2>4. Sound(m)
      BY <1>6, <2>2, SameSound
    <2>5. n \in MemoryType /\ Sound(n)
      BY <2>2, <2>4, RetriesType, ClientSound
    <2> HIDE DEF n
    <2>6. SameWatch(n, o) /\ SameNumbers(n, o)
      BY <2>5 DEF MemoryType, SameWatch, SameNumbers
    <2>7. Sound(pm')
      BY <2>3, <2>4, <2>5, <2>6, SameSound
    <2> QED BY <1>2, <2>3, <2>7
  <1>8. CASE MatchRight
    <2> DEFINE n == ResetRetries(Attempt)
               o == [n EXCEPT !.numRetries = n.retriesLeft]
               q == [Attempt EXCEPT !.numRetries =
                       IF PolicyPending(pm) THEN DefaultMaxRetries ELSE 0]
    <2>1. pm' = (IF CountsRetries(pm) THEN o ELSE q) /\ up /\ UNCHANGED <<up, devices>>
      BY <1>8 DEF MatchRight, ClientCalls
    <2>2. n \in MemoryType /\ Sound(n)
      BY <1>5, <1>6, RetriesType, ClientSound
    <2> HIDE DEF n
    <2>3. /\ SameWatch(n, o) /\ SameNumbers(n, o)
          /\ SameWatch(Attempt, q) /\ SameNumbers(Attempt, q)
      BY <1>5, <2>2 DEF MemoryType, SameWatch, SameNumbers
    <2>4. Sound(pm')
      BY <1>6, <2>1, <2>2, <2>3, SameSound
    <2> QED BY <1>2, <2>1, <2>4
  <1>9. CASE Crash
    BY <1>9, CrashSound
  <1>10. CASE CbDeviceWipe
    <2>1. CASE pm' = [pm EXCEPT !.wiping = FALSE] /\ UNCHANGED elsewhere
      <3>1. SameWatch(pm, pm') /\ SameNumbers(pm, pm')
        BY <1>1, <2>1 DEF MemoryType, SameWatch, SameNumbers
      <3> QED BY <1>1, <1>2, <1>10, <2>1, <3>1, SameSound DEF CbDeviceWipe, elsewhere
    <2>2. CASE Init'
      BY <2>2, InitSound, PTL
    <2> QED BY <1>10, <2>1, <2>2 DEF CbDeviceWipe, Init
  <1>11. CASE \E a \in Accounts : ChangePolicy(a)
    <2>1. pm' = Behind(pm) /\ up' = up /\ devices' = devices
      BY <1>11 DEF ChangePolicy, program
    <2>2. Sound(pm') /\ (Down(pm) => Down(pm'))
      BY <1>1, <2>1, BehindSound DEF Sound
    <2> QED BY <2>1, <2>2 DEF RetriesInv
  <1> QED BY <1>3, <1>4, <1>7, <1>8, <1>9, <1>10, <1>11 DEF World

LEMMA RetriesInvariant == Spec => []RetriesInv
  <1>1. TypeInv /\ RetriesInv /\ [Next]_vars => RetriesInv'
    <2> SUFFICES ASSUME TypeInv, RetriesInv, [Next]_vars
                 PROVE  RetriesInv'
      OBVIOUS
    <2>1. CASE UNCHANGED vars
      BY <2>1 DEF vars, RetriesInv
    <2>2. CASE Callbacks
      <3>1. Sound(pm')
        BY <2>2, CallbacksSound DEF RetriesInv
      <3>2. up /\ UNCHANGED <<up, devices>>
        BY <2>2 DEF Callbacks, elsewhere, CbTempPoliciesDeleted, CbDevicePolicy,
           CbSecurityPolicy, CbDevicePolicySaved, CbWatchResponse, DropReply, Reply
      <3> QED BY <3>1, <3>2 DEF RetriesInv
    <2> QED BY <2>1, <2>2, DatabaseSound, StartSound, WorldSound DEF Next, Reaction
  <1> QED BY <1>1, InitSound, TypesInvariant, PTL DEF Spec

(* Whatever the database refuses, whenever clients call and the program    *)
(* dies, however many device policies there are: never are more retries    *)
(* left than the policy allows.                                            *)
THEOREM RetriesWithinPolicyAlways == Spec => []RetriesWithinPolicy
  <1>1. RetriesInv => RetriesWithinPolicy
    BY DEF RetriesInv, Sound, AllFit, RetriesWithinPolicy
  <1> QED BY <1>1, RetriesInvariant, PTL

-----------------------------------------------------------------------------
(* One device policy.                                                      *)

Only(s, K) == \A i \in DOMAIN s : s[i].kind \in K

Writes(c) == c.kind \in {"save", "orphan"}

(* What is written goes where the device policy is, or is to be. *)
CallsPlaced(s, d) ==
  /\ d = <<>> => \A i, j \in DOMAIN s : Writes(s[i]) /\ Writes(s[j]) => i = j
  /\ \A i \in DOMAIN s : Writes(s[i]) => s[i].id = Len(d)

ReplyPlaced(r, d) ==
  /\ r.kind = "saved" => r.id = Len(d) /\ d # <<>>
  /\ r.kind = "device" => r.found.id = Len(d)

RepliesPlaced(s, d) == \A i \in DOMAIN s : ReplyPlaced(s[i], d)

Placed(m, d) ==
  /\ Len(d) <= 1
  /\ CallsPlaced(m.calls, d)
  /\ RepliesPlaced(m.replies, d)
  /\ m.id # 0 => m.id = Len(d)

(* The start: what earlier lives have written is served before the         *)
(* deletion, and so the query of the device policy finds it.               *)
Erasing(m) ==
  /\ m.replies = <<>>
  /\ Only(m.calls, {"orphan", "void", "del"})
  /\ AtMostOne(m.calls, "del") /\ Before(m.calls, "orphan", "del")

Erased(m) ==
  /\ Only(m.calls, {"void"})
  /\ Only(m.replies, {"deleted"}) /\ AtMostOne(m.replies, "deleted")

Seeking(m) ==
  /\ Only(m.calls, {"void", "findDevice"}) /\ AtMostOne(m.calls, "findDevice")
  /\ Only(m.replies, {})

Sought(m) ==
  /\ Only(m.calls, {"void"})
  /\ Only(m.replies, {"device"}) /\ AtMostOne(m.replies, "device")

Starting(m) ==
  /\ m.id = 0 /\ ~m.loaded /\ ~m.token /\ m.watch = "none"
  /\ Erasing(m) \/ Erased(m) \/ Seeking(m) \/ Sought(m)

(* The first device policy is put, before there is anything to change it:  *)
(* the policies, which come after the reply to it, or a passcode.          *)
PutSent(m, d) ==
  /\ d = <<>>
  /\ ~None(m.calls, "save") /\ Before(m.calls, "save", "find")
  /\ None(m.replies, "saved") /\ None(m.replies, "policies")

PutDone(m) ==
  /\ None(m.calls, "save")
  /\ ~None(m.replies, "saved") /\ Before(m.replies, "saved", "policies")

Putting(m, d) ==
  /\ m.aggregate = DefaultPolicy /\ m.isEnforced
  /\ ~m.token /\ m.watch = "none"
  /\ None(m.calls, "watch") /\ None(m.replies, "fired")
  /\ PutSent(m, d) \/ PutDone(m)

Loaded(m) ==
  /\ m.loaded
  /\ Only(m.calls, {"save", "find", "watch", "void"})
  /\ Only(m.replies, {"saved", "policies", "fired", "void"})

(* It is known where the device policy is. *)
Going(m, d) == Placed(m, d) /\ Loaded(m) /\ m.id # 0

PutInv(m, d) ==
  \/ Placed(m, d) /\ Starting(m)
  \/ Placed(m, d) /\ Loaded(m) /\ m.id = 0 /\ Putting(m, d)
  \/ Going(m, d)

OnlyOne ==
  /\ PutInv(pm, devices)
  /\ ~up => Starting(pm) /\ Erasing(pm) /\ None(pm.calls, "del")

LEMMA OnlyAppended ==
  ASSUME NEW S, NEW s \in Seq(S), NEW x \in S
  PROVE  /\ \A K : Only(s, K) /\ x.kind \in K => Only(Append(s, x), K)
         /\ \A k : ~None(s, k) \/ x.kind = k => ~None(Append(s, x), k)
         /\ \A d : /\ RepliesPlaced(s, d) /\ ReplyPlaced(x, d)
                      => RepliesPlaced(Append(s, x), d)
                   /\ CallsPlaced(s, d) /\ ~Writes(x) => CallsPlaced(Append(s, x), d)
                   /\ CallsPlaced(s, d) /\ x.id = Len(d)
                      /\ (d = <<>> => \A i \in DOMAIN s : ~Writes(s[i]))
                      => CallsPlaced(Append(s, x), d)
  <1> DEFINE t == Append(s, x)
  <1>1. /\ Len(s) \in Nat /\ DOMAIN s = 1 .. Len(s) /\ DOMAIN t = 1 .. (Len(s) + 1)
        /\ t[Len(s) + 1] = x /\ Len(s) + 1 \in DOMAIN t
        /\ \A i \in DOMAIN s : t[i] = s[i] /\ i \in DOMAIN t
    OBVIOUS
  <1> HIDE DEF t
  <1>2. \A i \in DOMAIN t : i = Len(s) + 1 \/ i \in DOMAIN s
    BY <1>1
  <1>3. \A K : Only(s, K) /\ x.kind \in K => Only(t, K)
    BY <1>1, <1>2 DEF Only
  <1>4. \A k : ~None(s, k) \/ x.kind = k => ~None(t, k)
    BY <1>1 DEF None
  <1>5. \A d : RepliesPlaced(s, d) /\ ReplyPlaced(x, d) => RepliesPlaced(t, d)
    BY <1>1, <1>2 DEF RepliesPlaced
  <1>6. \A d : CallsPlaced(s, d) /\ ~Writes(x) => CallsPlaced(t, d)
    BY <1>1, <1>2 DEF CallsPlaced
  <1>7. \A d : CallsPlaced(s, d) /\ x.id = Len(d)
               /\ (d = <<>> => \A i \in DOMAIN s : ~Writes(s[i]))
               => CallsPlaced(t, d)
    BY <1>1, <1>2 DEF CallsPlaced
  <1> QED BY <1>3, <1>4, <1>5, <1>6, <1>7 DEF t

LEMMA OnlyTail ==
  ASSUME NEW S, NEW s \in Seq(S), s # <<>>
  PROVE  /\ \A K : Only(s, K) => Only(Tail(s), K) /\ Head(s).kind \in K
         /\ \A k : ~None(s, k) /\ Head(s).kind # k => ~None(Tail(s), k)
         /\ \A d : /\ RepliesPlaced(s, d)
                      => RepliesPlaced(Tail(s), d) /\ ReplyPlaced(Head(s), d)
                   /\ CallsPlaced(s, d)
                      => /\ CallsPlaced(Tail(s), d)
                         /\ Writes(Head(s))
                            => /\ Head(s).id = Len(d)
                               /\ d = <<>> => \A i \in DOMAIN Tail(s) : ~Writes(Tail(s)[i])
  <1> DEFINE t == Tail(s)
  <1>1. /\ Len(s) \in Nat /\ DOMAIN s = 1 .. Len(s) /\ 1 \in DOMAIN s
        /\ Head(s) = s[1]
        /\ DOMAIN t \subseteq Nat \ {0}
        /\ \A i \in DOMAIN t : i + 1 \in DOMAIN s /\ t[i] = s[i + 1]
        /\ \A i \in DOMAIN s : i = 1 \/ i - 1 \in DOMAIN t
    OBVIOUS
  <1> HIDE DEF t
  <1>2. \A i, j \in DOMAIN t : i + 1 # 1 /\ (i + 1 = j + 1 => i = j)
    BY <1>1
  <1>3. \A i \in DOMAIN s : i - 1 \in DOMAIN t => t[i - 1] = s[i]
    BY <1>1
  <1>4. \A K : Only(s, K) => Only(t, K) /\ Head(s).kind \in K
    BY <1>1 DEF Only
  <1>5. \A k : ~None(s, k) /\ Head(s).kind # k => ~None(t, k)
    BY <1>1, <1>3 DEF None
  <1>6. \A d : RepliesPlaced(s, d) => RepliesPlaced(t, d) /\ ReplyPlaced(Head(s), d)
    BY <1>1 DEF RepliesPlaced
  <1>7. \A d : CallsPlaced(s, d)
               => /\ CallsPlaced(t, d)
                  /\ Writes(Head(s))
                     => /\ Head(s).id = Len(d)
                        /\ d = <<>> => \A i \in DOMAIN t : ~Writes(t[i])
    <2>1. SUFFICES ASSUME NEW d, CallsPlaced(s, d)
                   PROVE  /\ CallsPlaced(t, d)
                          /\ Writes(Head(s))
                             => /\ Head(s).id = Len(d)
                                /\ d = <<>> => \A i \in DOMAIN t : ~Writes(t[i])
      OBVIOUS
    <2>2. CallsPlaced(t, d)
      BY <1>1, <1>2, <2>1 DEF CallsPlaced
    <2>3. Writes(Head(s)) => Head(s).id = Len(d)
      BY <1>1, <2>1 DEF CallsPlaced
    <2>4. Writes(Head(s)) /\ d = <<>> => \A i \in DOMAIN t : ~Writes(t[i])
      BY <1>1, <1>2, <2>1 DEF CallsPlaced
    <2> QED BY <2>2, <2>3, <2>4
  <1> QED BY <1>4, <1>5, <1>6, <1>7 DEF t

(* The same messages but for what is known of the database. *)
Alike(s, t) ==
  /\ DOMAIN t = DOMAIN s
  /\ \A i \in DOMAIN s : /\ t[i].kind = s[i].kind
                         /\ s[i].kind \notin {"watch", "policies"} => t[i] = s[i]

LEMMA AlikeKinds ==
  ASSUME NEW s, NEW t, Alike(s, t)
  PROVE  /\ \A k : /\ None(s, k) <=> None(t, k)
                   /\ AtMostOne(s, k) => AtMostOne(t, k)
         /\ \A k, l : Before(s, k, l) => Before(t, k, l)
         /\ \A K : Only(s, K) => Only(t, K)
         /\ \A d : /\ CallsPlaced(s, d) => CallsPlaced(t, d)
                   /\ RepliesPlaced(s, d) => RepliesPlaced(t, d)
  <1>1. \A k : /\ None(s, k) <=> None(t, k)
               /\ AtMostOne(s, k) => AtMostOne(t, k)
    BY DEF Alike, None, AtMostOne
  <1>2. \A k, l : Before(s, k, l) => Before(t, k, l)
    BY DEF Alike, Before
  <1>3. \A K : Only(s, K) => Only(t, K)
    BY DEF Alike, Only
  <1>4. \A d : CallsPlaced(s, d) => CallsPlaced(t, d)
    BY DEF Alike, CallsPlaced, Writes
  <1>5. \A d : RepliesPlaced(s, d) => RepliesPlaced(t, d)
    BY DEF Alike, RepliesPlaced, ReplyPlaced
  <1> QED BY <1>1, <1>2, <1>3, <1>4, <1>5

(* Of the program's memory only what PutInv does not depend on differs. *)
SamePut(m, n) ==
  /\ n.id = m.id /\ n.loaded = m.loaded /\ n.token = m.token
  /\ n.aggregate = m.aggregate /\ n.isEnforced = m.isEnforced

LEMMA AlikePut ==
  ASSUME NEW m, NEW n \in MemoryType, Alike(m.calls, n.calls), Alike(m.replies, n.replies),
         SamePut(m, n), m.watch = "none" => n.watch = "none", NEW d
  PROVE  /\ PutInv(m, d) => PutInv(n, d)
         /\ Starting(m) => Starting(n)
         /\ Erasing(m) => Erasing(n)
         /\ None(m.calls, "del") => None(n.calls, "del")
  <1>1. Placed(m, d) => Placed(n, d)
    BY AlikeKinds DEF Placed, SamePut
  <1>2. m.replies = <<>> => n.replies = <<>>
    <2> SUFFICES ASSUME m.replies = <<>>
                 PROVE  n.replies = <<>>
      OBVIOUS
    <2>1. DOMAIN n.replies = {} /\ n.replies \in Seq(ReplyMessage)
      BY DEF Alike, MemoryType
    <2> QED BY <2>1
  <1>3. Erasing(m) => Erasing(n)
    BY <1>2, AlikeKinds DEF Erasing
  <1>4. /\ Erased(m) => Erased(n)
        /\ Seeking(m) => Seeking(n)
        /\ Sought(m) => Sought(n)
    BY AlikeKinds DEF Erased, Seeking, Sought
  <1>5. Starting(m) => Starting(n)
    BY <1>3, <1>4 DEF Starting, SamePut
  <1>6. Loaded(m) => Loaded(n)
    BY AlikeKinds DEF Loaded, SamePut
  <1>7. Putting(m, d) => Putting(n, d)
    BY AlikeKinds DEF Putting, PutSent, PutDone, SamePut
  <1>8. n.id = m.id /\ (None(m.calls, "del") => None(n.calls, "del"))
    BY AlikeKinds DEF SamePut
  <1> QED BY <1>1, <1>3, <1>5, <1>6, <1>7, <1>8 DEF PutInv, Going

LEMMA SameMessagesPut ==
  ASSUME NEW m, NEW n \in MemoryType, SameWatch(m, n), SamePut(m, n), NEW d
  PROVE  /\ PutInv(m, d) => PutInv(n, d)
         /\ Starting(m) => Starting(n)
         /\ Erasing(m) => Erasing(n)
  <1>1. Alike(m.calls, n.calls) /\ Alike(m.replies, n.replies)
    BY DEF Alike, SameWatch
  <1> QED BY <1>1, AlikePut DEF SameWatch

(* Once it is known where the device policy is, everything goes there. *)
LEMMA SentGoing ==
  ASSUME NEW m \in MemoryType, NEW d, Going(m, d), NEW c \in Call,
         c.kind \in {"save", "find", "watch"},
         c.kind = "save" => c.id = m.id
  PROVE  Going(Send(m, c), d)
  <1> DEFINE n == Send(m, c)
  <1>1. /\ m.calls \in Seq(Call) /\ n.calls = Append(m.calls, c)
        /\ n.replies = m.replies /\ n.id = m.id /\ n.loaded = m.loaded
    BY DEF Send, MemoryType
  <1> HIDE DEF n
  <1>2. m.id = Len(d) /\ d # <<>> /\ m.id # 0
    BY DEF Going, Placed, MemoryType
  <1>3. CallsPlaced(n.calls, d)
    <2>1. CASE c.kind = "save"
      BY <1>1, <1>2, <2>1, OnlyAppended DEF Going, Placed
    <2>2. CASE c.kind # "save"
      <3>1. ~Writes(c)
        BY <2>2 DEF Writes
      <3> QED BY <1>1, <3>1, OnlyAppended DEF Going, Placed
    <2> QED BY <2>1, <2>2
  <1>4. Only(n.calls, {"save", "find", "watch", "void"})
    <2>1. c.kind \in {"save", "find", "watch", "void"}
      OBVIOUS
    <2> QED BY <1>1, <2>1, OnlyAppended DEF Going, Loaded
  <1> QED BY <1>1, <1>3, <1>4 DEF Going, Placed, Loaded, n

LEMMA CancelGoing ==
  ASSUME NEW m \in MemoryType, NEW d, Going(m, d)
  PROVE  Going(CancelWatch(m), d) /\ CancelWatch(m).id = m.id
  <1> DEFINE n == CancelWatch(m)
  <1>1. CASE ~m.token
    BY <1>1 DEF CancelWatch
  <1>2. CASE m.token
    <2>1. /\ n.calls = Void(m.calls, "watch") /\ n.replies = Void(m.replies, "fired")
          /\ n.id = m.id /\ n.loaded = m.loaded
      BY <1>2 DEF CancelWatch, MemoryType
    <2> HIDE DEF n
    <2>2. /\ DOMAIN n.calls = DOMAIN m.calls /\ DOMAIN n.replies = DOMAIN m.replies
          /\ \A i \in DOMAIN m.calls :
               n.calls[i] = m.calls[i] \/ n.calls[i].kind = "void"
          /\ \A i \in DOMAIN m.replies :
               n.replies[i] = m.replies[i] \/ n.replies[i].kind = "void"
      BY <2>1 DEF Void
    <2>3. CallsPlaced(n.calls, d)
      BY <2>2 DEF Going, Placed, CallsPlaced, Writes
    <2>4. RepliesPlaced(n.replies, d)
      BY <2>2 DEF Going, Placed, RepliesPlaced, ReplyPlaced
    <2>5. Loaded(n)
      BY <2>1, <2>2 DEF Going, Loaded, Only
    <2> QED BY <2>1, <2>3, <2>4, <2>5 DEF Going, Placed, n
  <1> QED BY <1>1, <1>2

LEMMA SaveGoing ==
  ASSUME NEW m \in MemoryType, NEW d, Going(m, d)
  PROVE  Going(Save(m), d)
  <1> DEFINE w == CancelWatch(m)
             c == [kind |-> "save", id |-> m.id,
                   object |-> [policy |-> m.aggregate, enforced |-> m.isEnforced,
                               retries |-> m.retriesLeft]]
  <1>1. c \in Call /\ c.kind = "save" /\ c.id = m.id
    BY DEF Call, DevicePolicy, MemoryType
  <1>2. w \in MemoryType /\ Going(w, d) /\ w.id = m.id
    BY CancelWatchType, CancelGoing
  <1>3. Save(m) = Send(w, c)
    BY DEF Save
  <1> HIDE DEF w, c
  <1> QED BY <1>1, <1>2, <1>3, SentGoing

(* Only the messages, the id and the notice of loading matter. *)
SameGoing(m, n) ==
  /\ n.calls = m.calls /\ n.replies = m.replies
  /\ n.id = m.id /\ n.loaded = m.loaded

LEMMA GoingSame ==
  ASSUME NEW m, NEW n, NEW d, Going(m, d), SameGoing(m, n)
  PROVE  Going(n, d)
  BY DEF Going, SameGoing, Placed, Loaded

LEMMA WatchGoing ==
  ASSUME NEW m \in MemoryType, NEW d, Going(m, d)
  PROVE  Going(WatchSecurityPolicies(m), d)
  <1> DEFINE c == [kind |-> "watch", behind |-> m.behind]
             w == CancelWatch(m)
             o == Send(w, c)
  <1>1. c \in Call /\ c.kind = "watch"
    BY DEF Call, MemoryType
  <1>2. w \in MemoryType /\ Going(w, d)
    BY CancelWatchType, CancelGoing
  <1>3. WatchSecurityPolicies(m) = [o EXCEPT !.token = TRUE]
    BY DEF WatchSecurityPolicies
  <1> HIDE DEF w, c
  <1>4. o \in MemoryType /\ Going(o, d)
    BY <1>1, <1>2, SendType, SentGoing
  <1> HIDE DEF o
  <1>5. SameGoing(o, WatchSecurityPolicies(m))
    BY <1>3, <1>4 DEF SameGoing, MemoryType
  <1> QED BY <1>4, <1>5, GoingSame

LEMMA QueryGoing ==
  ASSUME NEW m \in MemoryType, NEW d, Going(m, d)
  PROVE  Going(QuerySecurityPolicies(m), d)
  <1>1. [kind |-> "find"] \in Call
    BY DEF Call
  <1> QED BY <1>1, SentGoing DEF QuerySecurityPolicies

LEMMA NotifyGoing ==
  ASSUME NEW m \in MemoryType, NEW d, Going(m, d)
  PROVE  Going(NotifyPolicyChanged(m), d)
  <1> DEFINE n == [m EXCEPT !.isEnforced = PasscodeSatisfiesPolicy(m.aggregate)]
             o == SlotPolicyChanged(n)
  <1>1. PasscodeSatisfiesPolicy(m.aggregate) \in BOOLEAN
    BY DEF PasscodeSatisfiesPolicy, DecryptedPasscode, MemoryType, Policy
  <1>2. n \in MemoryType /\ SameGoing(m, n)
    BY <1>1 DEF MemoryType, SameGoing
  <1>3. NotifyPolicyChanged(m) = Save(o)
    BY DEF NotifyPolicyChanged
  <1> HIDE DEF n
  <1>4. o \in MemoryType /\ SameGoing(n, o)
    BY <1>2, SlotType DEF SlotPolicyChanged, SameGoing, MemoryType
  <1> HIDE DEF o
  <1> QED BY <1>2, <1>3, <1>4, GoingSame, SaveGoing

LEMMA UpdateGoing ==
  ASSUME NEW m \in MemoryType, NEW d, Going(m, d),
         NEW policies \in Seq(Policy \cup {NoPolicy}), NEW behind \in BOOLEAN
  PROVE  Going(UpdateDevicePolicy(m, policies, behind), d)
  <1> DEFINE a == Aggregate(policies)
             n == [m EXCEPT !.aggregate = a,
                            !.behind = behind,
                            !.retriesLeft = IF a.maxRetries # m.aggregate.maxRetries
                                              THEN a.maxRetries ELSE @]
  <1>1. a \in Policy
    BY AggregateType
  <1>2. UpdateDevicePolicy(m, policies, behind) =
          IF a = m.aggregate THEN WatchSecurityPolicies(n) ELSE NotifyPolicyChanged(n)
    BY DEF UpdateDevicePolicy
  <1> HIDE DEF a
  <1>3. n \in MemoryType /\ SameGoing(m, n)
    BY <1>1 DEF MemoryType, Policy, SameGoing
  <1> HIDE DEF n
  <1> QED BY <1>2, <1>3, GoingSame, WatchGoing, NotifyGoing

LEMMA ClientGoing ==
  ASSUME NEW m \in MemoryType, NEW d, Going(m, d)
  PROVE  /\ Going(PasswordEnforced(m), d)
         /\ Going(DecrementRetries(m), d)
         /\ Going(ResetRetries(m), d)
  <1>1. m.retriesLeft \in Nat /\ m.aggregate.maxRetries \in Nat
    BY DEF MemoryType, Policy
  <1>2. Going(PasswordEnforced(m), d)
    <2> DEFINE n == [m EXCEPT !.isEnforced = TRUE, !.retriesLeft = m.aggregate.maxRetries]
               o == SlotPolicyChanged(n)
    <2>1. n \in MemoryType /\ SameGoing(m, n)
      BY <1>1 DEF MemoryType, SameGoing
    <2>2. PasswordEnforced(m) = Save(o) \/ PasswordEnforced(m) = m
      BY DEF PasswordEnforced
    <2> HIDE DEF n
    <2>3. o \in MemoryType /\ SameGoing(n, o)
      BY <2>1, SlotType DEF SlotPolicyChanged, SameGoing, MemoryType
    <2> HIDE DEF o
    <2> QED BY <2>1, <2>2, <2>3, GoingSame, SaveGoing
  <1>3. Going(DecrementRetries(m), d)
    <2> DEFINE n == [m EXCEPT !.retriesLeft = IF @ > 0 THEN @ - 1 ELSE @]
    <2>1. (IF m.retriesLeft > 0 THEN m.retriesLeft - 1 ELSE m.retriesLeft) \in Nat
      BY <1>1
    <2>2. n \in MemoryType /\ SameGoing(m, n)
      BY <2>1 DEF MemoryType, SameGoing
    <2>3. DecrementRetries(m) = Save(n)
      BY DEF DecrementRetries
    <2> HIDE DEF n
    <2> QED BY <2>2, <2>3, GoingSame, SaveGoing
  <1>4. Going(ResetRetries(m), d)
    <2> DEFINE n == [m EXCEPT !.retriesLeft = m.aggregate.maxRetries]
    <2>1. n \in MemoryType /\ SameGoing(m, n)
      BY <1>1 DEF MemoryType, SameGoing
    <2>2. ResetRetries(m) = Save(n)
      BY DEF ResetRetries
    <2> HIDE DEF n
    <2> QED BY <2>1, <2>2, GoingSame, SaveGoing
  <1> QED BY <1>2, <1>3, <1>4

(* Nothing is under way. *)
Idle(m) ==
  /\ m.id = 0 /\ ~m.loaded /\ ~m.token /\ m.watch = "none"
  /\ Only(m.calls, {"void"}) /\ Only(m.replies, {})

LEMMA ReceivedPut ==
  ASSUME pm \in MemoryType, pm.replies # <<>>, NEW d, PutInv(pm, d)
  PROVE  /\ Placed(Received, d) /\ ReplyPlaced(Head(pm.replies), d)
         /\ Head(pm.replies).kind \in {"deleted", "device"} => Idle(Received)
         /\ Head(pm.replies).kind \in {"policies", "fired"} => Going(Received, d)
         /\ Head(pm.replies).kind = "saved" => Loaded(Received)
         /\ Head(pm.replies).kind = "void" => PutInv(Received, d)
  <1> DEFINE h == Head(pm.replies)
             n == Received
  <1>1. /\ pm.replies \in Seq(ReplyMessage) /\ n.replies = Tail(pm.replies)
        /\ n.calls = pm.calls /\ n.watch = pm.watch /\ SamePut(pm, n)
    BY DEF MemoryType, Received, SamePut
  <1> HIDE DEF n
  <1>2. \A k : /\ None(pm.replies, k) => None(n.replies, k)
               /\ AtMostOne(pm.replies, k) /\ h.kind = k => None(n.replies, k)
               /\ None(pm.replies, k) => h.kind # k
               /\ ~None(pm.replies, k) /\ h.kind # k => ~None(n.replies, k)
    BY <1>1, TailKinds, OnlyTail
  <1>3. \A k, l : Before(pm.replies, k, l) => /\ Before(n.replies, k, l)
                                              /\ h.kind = l => None(pm.replies, k)
    BY <1>1, BeforeTail
  <1>4. \A K : Only(pm.replies, K) => Only(n.replies, K) /\ h.kind \in K
    BY <1>1, OnlyTail
  <1>5. Placed(n, d) /\ ReplyPlaced(h, d)
    BY <1>1, OnlyTail DEF PutInv, Going, Placed, SamePut
  <1>6. ~Erasing(pm) /\ ~Seeking(pm)
    BY <1>4 DEF Erasing, Seeking
  <1>7. CASE Starting(pm) /\ (Erased(pm) \/ Sought(pm))
    <2>1. h.kind \in {"deleted", "device"}
      BY <1>4, <1>7 DEF Erased, Sought
    <2>2. Only(n.replies, {})
      <3>1. ASSUME NEW k, Only(pm.replies, {k}), AtMostOne(pm.replies, k)
            PROVE  Only(n.replies, {})
        <4>1. Only(n.replies, {k}) /\ h.kind = k
          BY <1>4, <3>1
        <4>2. None(n.replies, k)
          BY <1>2, <3>1, <4>1
        <4> QED BY <4>1, <4>2 DEF Only, None
      <3> QED BY <1>7, <3>1 DEF Erased, Sought
    <2>3. Idle(n)
      BY <1>1, <1>7, <2>2 DEF Idle, Starting, Erased, Sought, SamePut
    <2> HIDE DEF h
    <2> QED BY <1>5, <2>1, <2>3 DEF n, h
  <1>8. CASE Loaded(pm)
    <2>1. Loaded(n) /\ h.kind \in {"saved", "policies", "fired", "void"}
      BY <1>1, <1>4, <1>8 DEF Loaded, SamePut
    <2>2. ASSUME pm.id # 0 PROVE Going(n, d)
      BY <1>1, <1>5, <2>1, <2>2 DEF Going, SamePut
    <2>3. CASE Putting(pm, d) /\ pm.id = 0
      <3>1. h.kind \notin {"policies", "fired"}
        BY <1>2, <1>3, <2>3 DEF Putting, PutSent, PutDone
      <3>2. ASSUME h.kind = "void" PROVE Putting(n, d)
        BY <1>1, <1>2, <1>3, <2>3, <3>2 DEF Putting, PutSent, PutDone, SamePut
      <3> HIDE DEF h
      <3> QED BY <1>1, <1>5, <2>1, <2>3, <3>1, <3>2 DEF PutInv, SamePut, n, h
    <2>4. Putting(pm, d) \/ pm.id # 0
      BY <1>8 DEF PutInv, Going, Starting, Loaded
    <2> HIDE DEF h
    <2> QED BY <1>5, <2>1, <2>2, <2>3, <2>4 DEF PutInv, n, h
  <1> QED BY <1>6, <1>7, <1>8 DEF PutInv, Going, Starting

(* The default is enforced at once, and is put. *)
LEMMA FirstPut ==
  ASSUME NEW m \in MemoryType, ~m.token, m.watch = "none"
  PROVE  LET n == [m EXCEPT !.loaded = TRUE]
             q == QuerySecurityPolicies(SetDefaultPolicy(n))
         IN /\ q.calls = Append(Append(m.calls,
                           [kind |-> "save", id |-> 0,
                            object |-> [policy |-> DefaultPolicy, enforced |-> TRUE,
                                        retries |-> m.retriesLeft]]),
                           [kind |-> "find"])
            /\ q.replies = m.replies /\ q.watch = "none" /\ q.loaded
            /\ q.id = 0 /\ q.aggregate = DefaultPolicy /\ q.isEnforced /\ ~q.token
  <1> DEFINE n == [m EXCEPT !.loaded = TRUE]
             o == [n EXCEPT !.aggregate = DefaultPolicy, !.id = 0, !.behind = written]
             p == [o EXCEPT !.isEnforced = PasscodeSatisfiesPolicy(o.aggregate)]
             t == SlotPolicyChanged(p)
             q == QuerySecurityPolicies(SetDefaultPolicy(n))
             c == [kind |-> "save", id |-> t.id,
                   object |-> [policy |-> t.aggregate, enforced |-> t.isEnforced,
                               retries |-> t.retriesLeft]]
  <1>1. PasscodeSatisfiesPolicy(DefaultPolicy) = TRUE
    BY DEF PasscodeSatisfiesPolicy, DefaultPolicy
  <1>2. /\ p.calls = m.calls /\ p.replies = m.replies /\ p.watch = "none" /\ p.loaded
        /\ p.id = 0 /\ p.aggregate = DefaultPolicy /\ p.isEnforced = TRUE /\ ~p.token
        /\ p.retriesLeft = m.retriesLeft
    BY <1>1 DEF MemoryType
  <1>3. /\ t.calls = p.calls /\ t.replies = p.replies /\ t.watch = p.watch
        /\ t.loaded = p.loaded /\ t.id = p.id /\ t.aggregate = p.aggregate
        /\ t.isEnforced = p.isEnforced /\ t.token = p.token
        /\ t.retriesLeft = p.retriesLeft
        /\ t = [t EXCEPT !.calls = t.calls]
    BY DEF SlotPolicyChanged, MemoryType
  <1>4. SetDefaultPolicy(n) = Save(t)
    BY DEF SetDefaultPolicy, NotifyPolicyChanged
  <1> HIDE DEF t, p, o, n
  <1>5. Save(t) = Send(t, c)
    BY <1>2, <1>3 DEF Save, CancelWatch
  <1>6. q = Send(Send(t, c), [kind |-> "find"])
    BY <1>4, <1>5 DEF QuerySecurityPolicies
  <1>7. c = [kind |-> "save", id |-> 0,
             object |-> [policy |-> DefaultPolicy, enforced |-> TRUE,
                         retries |-> m.retriesLeft]]
    BY <1>2, <1>3
  <1> HIDE DEF c, q
  <1>8. /\ q.calls = Append(Append(t.calls, c), [kind |-> "find"])
        /\ q.replies = t.replies /\ q.watch = t.watch /\ q.loaded = t.loaded
        /\ q.id = t.id /\ q.aggregate = t.aggregate /\ q.isEnforced = t.isEnforced
        /\ q.token = t.token
    BY <1>6 DEF Send
  <1> QED BY <1>2, <1>3, <1>7, <1>8 DEF q, n

LEMMA CallbacksPut ==
  ASSUME TypeInv, PutInv(pm, devices), Callbacks
  PROVE  PutInv(pm', devices)
  <1> DEFINE r == Head(pm.replies)
             d == devices
  <1>1. pm \in MemoryType /\ written \in BOOLEAN /\ pm.replies # <<>>
    BY DEF TypeInv, DeviceTypeOK, Callbacks, CbTempPoliciesDeleted, CbDevicePolicy,
           CbSecurityPolicy, CbDevicePolicySaved, CbWatchResponse, DropReply, Reply
  <1>2. Received \in MemoryType /\ r \in ReplyMessage
    BY <1>1, ReceivedType
  <1>3. /\ Placed(Received, d) /\ ReplyPlaced(r, d)
        /\ r.kind \in {"deleted", "device"} => Idle(Received)
        /\ r.kind \in {"policies", "fired"} => Going(Received, d)
        /\ r.kind = "saved" => Loaded(Received)
        /\ r.kind = "void" => PutInv(Received, d)
    BY <1>1, ReceivedPut
  <1>4. CASE CbTempPoliciesDeleted
    <2> DEFINE n == QueryDevicePolicy(Received)
               c == [kind |-> "findDevice"]
    <2>1. /\ pm' = n /\ n.calls = Append(Received.calls, c) /\ n.replies = Received.replies
          /\ n.watch = Received.watch /\ SamePut(Received, n)
          /\ Received.calls \in Seq(Call) /\ c \in Call
      BY <1>2, <1>4 DEF CbTempPoliciesDeleted, QueryDevicePolicy, Send, MemoryType, Call,
                        SamePut
    <2>2. Idle(Received)
      BY <1>3, <1>4 DEF CbTempPoliciesDeleted, Reply
    <2> HIDE DEF n
    <2>3. Only(Received.calls, {"void", "findDevice"}) /\ None(Received.calls, "findDevice")
      BY <2>2 DEF Idle, Only, None
    <2>4. Only(n.calls, {"void", "findDevice"}) /\ AtMostOne(n.calls, "findDevice")
      BY <2>1, <2>3, AppendKinds, OnlyAppended
    <2>5. Starting(n)
      BY <2>1, <2>2, <2>4 DEF Starting, Seeking, Idle, SamePut
    <2>6. CallsPlaced(n.calls, d)
      BY <1>3, <2>1, OnlyAppended DEF Placed, Writes
    <2>7. Placed(n, d)
      BY <1>3, <2>1, <2>6 DEF Placed, SamePut
    <2> QED BY <2>1, <2>5, <2>7 DEF PutInv
  <1>5. CASE CbDevicePolicy
    <2>1. Idle(Received) /\ r.found.id = Len(d) /\ r.kind = "device"
      BY <1>3, <1>5 DEF CbDevicePolicy, Reply, ReplyPlaced
    <2>2. r.found.id = 0 \/ r.found \in [id: Nat, object: DevicePolicy]
      BY <1>2, <2>1 DEF ReplyMessage, NoObject
    <2>3. CASE r.found.id = 0
      <3> DEFINE c == [kind |-> "save", id |-> 0,
                       object |-> [policy |-> DefaultPolicy, enforced |-> TRUE,
                                   retries |-> Received.retriesLeft]]
                 f == [kind |-> "find"]
      <3>1. /\ pm'.calls = Append(Append(Received.calls, c), f)
            /\ pm'.replies = Received.replies /\ pm'.watch = "none" /\ pm'.loaded
            /\ pm'.id = 0 /\ pm'.aggregate = DefaultPolicy /\ pm'.isEnforced
            /\ ~pm'.token
        BY <1>2, <1>5, <2>1, <2>3, FirstPut DEF CbDevicePolicy, Idle
      <3>2. /\ Received.calls \in Seq(Call) /\ c \in Call /\ f \in Call
            /\ Append(Received.calls, c) \in Seq(Call)
        <4>1. DefaultPolicy \in Policy /\ Received.retriesLeft \in Nat
          BY <1>2 DEF DefaultPolicy, Policy, MemoryType
        <4>2. c \in Call /\ f \in Call
          BY <4>1 DEF Call, DevicePolicy
        <4> QED BY <1>2, <4>2 DEF MemoryType
      <3>3. c.kind = "save" /\ c.id = 0 /\ f.kind = "find" /\ d = <<>> /\ Len(d) = 0
        <4>1. d \in Seq(DevicePolicy)
          BY DEF TypeInv, DeviceTypeOK
        <4> QED BY <2>1, <2>3, <4>1
      <3> DEFINE b == Append(Received.calls, c)
      <3> HIDE DEF c, f
      <3>4. \A i \in DOMAIN Received.calls : ~Writes(Received.calls[i])
        BY <2>1 DEF Idle, Only, Writes
      <3>5. /\ Only(b, {"save", "find", "watch", "void"}) /\ CallsPlaced(b, d)
            /\ ~None(b, "save") /\ None(b, "find") /\ None(b, "watch")
        <4>1. Only(Received.calls, {"save", "find", "watch", "void"})
              /\ None(Received.calls, "find") /\ None(Received.calls, "watch")
          BY <2>1 DEF Idle, Only, None
        <4>2. None(b, "find") /\ None(b, "watch")
          BY <3>2, <3>3, <4>1, AppendKinds
        <4>3. ~None(b, "save") /\ Only(b, {"save", "find", "watch", "void"})
          BY <3>2, <3>3, <4>1, OnlyAppended
        <4>4. CallsPlaced(b, d)
          BY <1>3, <3>2, <3>3, <3>4, OnlyAppended DEF Placed
        <4> QED BY <4>2, <4>3, <4>4
      <3> DEFINE a == Append(b, f)
      <3>6. b \in Seq(Call) /\ ~Writes(f) /\ Before(b, "save", "find")
        BY <3>2, <3>3, <3>5 DEF Writes, None, Before
      <3>7. /\ Only(a, {"save", "find", "watch", "void"}) /\ CallsPlaced(a, d)
            /\ ~None(a, "save") /\ Before(a, "save", "find") /\ None(a, "watch")
        <4> HIDE DEF b
        <4> QED BY <3>2, <3>3, <3>5, <3>6, AppendKinds, OnlyAppended, BeforeAppended
      <3>8. pm'.calls = a
        BY <3>1
      <3> HIDE DEF a
      <3>9. Loaded(pm')
        BY <2>1, <3>1, <3>7, <3>8 DEF Loaded, Idle, Only
      <3>10. Putting(pm', d)
        BY <2>1, <3>1, <3>3, <3>7, <3>8 DEF Putting, PutSent, Idle, Only, None
      <3>11. Placed(pm', d)
        BY <1>3, <3>1, <3>7, <3>8 DEF Placed
      <3> QED BY <3>1, <3>9, <3>10, <3>11 DEF PutInv
    <2>4. CASE r.found.id # 0
      <3> DEFINE m == [Received EXCEPT !.loaded = TRUE]
                 o == SetDevicePolicy(m, r.found)
      <3>1. r.found.object \in DevicePolicy /\ r.found.id \in Nat
        BY <2>2, <2>4
      <3>2. m \in MemoryType
        BY <1>2 DEF MemoryType
      <3>3. o \in MemoryType /\ o.calls = Received.calls /\ o.replies = Received.replies
            /\ o.id = r.found.id /\ o.loaded
        BY <1>1, <1>2, <3>1, <3>2 DEF SetDevicePolicy, MemoryType, DevicePolicy
      <3>4. pm' = QuerySecurityPolicies(o)
        BY <1>5, <2>4 DEF CbDevicePolicy
      <3> HIDE DEF o, m
      <3>5. Going(o, d)
        BY <1>3, <2>1, <2>4, <3>3 DEF Going, Placed, Loaded, Idle, Only
      <3> QED BY <3>3, <3>4, <3>5, QueryGoing DEF PutInv
    <2> QED BY <2>3, <2>4
  <1>6. CASE CbSecurityPolicy
    <2>1. r.policies \in Seq(Policy \cup {NoPolicy}) /\ r.behind \in BOOLEAN
          /\ r.kind = "policies"
      BY <1>2, <1>6 DEF CbSecurityPolicy, Reply, ReplyMessage
    <2>2. Going(Received, d)
      BY <1>3, <2>1
    <2>3. Going(UpdateDevicePolicy(Received, r.policies, r.behind), d)
      BY <1>2, <2>1, <2>2, UpdateGoing
    <2> QED BY <1>6, <2>2, <2>3 DEF CbSecurityPolicy, PutInv
  <1>7. CASE CbDevicePolicySaved
    <2> DEFINE m == [Received EXCEPT !.id = IF r.id # 0 THEN r.id ELSE @]
    <2>1. r.id \in Nat /\ r.kind = "saved" /\ r.id = Len(d) /\ d # <<>>
      BY <1>2, <1>3, <1>7 DEF CbDevicePolicySaved, Reply, ReplyMessage, ReplyPlaced
    <2>2. r.id # 0
      BY <2>1 DEF TypeInv, DeviceTypeOK
    <2>3. /\ m \in MemoryType /\ m.calls = Received.calls /\ m.replies = Received.replies
          /\ m.id = r.id /\ m.loaded = Received.loaded
      BY <1>2, <2>1, <2>2 DEF MemoryType
    <2>4. pm' = WatchSecurityPolicies(m)
      BY <1>7 DEF CbDevicePolicySaved
    <2> HIDE DEF m
    <2>5. Going(m, d)
      BY <1>3, <2>1, <2>2, <2>3 DEF Going, Placed, Loaded
    <2> QED BY <2>3, <2>4, <2>5, WatchGoing DEF PutInv
  <1>8. CASE CbWatchResponse
    <2> DEFINE m == [Received EXCEPT !.token = FALSE]
    <2>1. m \in MemoryType /\ SameGoing(Received, m) /\ pm' = QuerySecurityPolicies(m)
      BY <1>2, <1>8 DEF CbWatchResponse, MemoryType, SameGoing
    <2>2. Going(Received, d)
      BY <1>3, <1>8 DEF CbWatchResponse, Reply
    <2> HIDE DEF m
    <2> QED BY <2>1, <2>2, GoingSame, QueryGoing DEF PutInv
  <1>9. CASE DropReply
    BY <1>3, <1>9 DEF DropReply, Reply
  <1> QED BY <1>4, <1>5, <1>6, <1>7, <1>8, <1>9 DEF Callbacks

LEMMA ServedPut ==
  ASSUME pm \in MemoryType, pm.calls # <<>>, NEW d, PutInv(pm, d)
  PROVE  /\ Placed(Served, d)
         /\ Head(pm.calls).kind \in {"del", "findDevice"} => Idle(Served)
         /\ Head(pm.calls).kind = "find"
            => \/ Going(Served, d)
               \/ Loaded(Served) /\ Served.id = 0 /\ PutDone(Served) /\ Putting(Served, d)
         /\ Head(pm.calls).kind = "watch" => Going(Served, d)
         /\ Head(pm.calls).kind = "void" => PutInv(Served, d)
         /\ Head(pm.calls).kind = "orphan" => Starting(Served) /\ Erasing(Served)
         /\ Head(pm.calls).kind = "save"
            => \/ Going(Served, d)
               \/ /\ Loaded(Served) /\ Served.id = 0 /\ d = <<>>
                  /\ Putting(pm, d) /\ PutSent(pm, d)
         /\ Erasing(pm) => Erasing(Served)
         /\ Starting(pm) /\ Erasing(pm) => Starting(Served)
         /\ None(pm.calls, "del") => None(Served.calls, "del")
  <1> DEFINE h == Head(pm.calls)
             n == Served
  <1>1. /\ pm.calls \in Seq(Call) /\ n.calls = Tail(pm.calls)
        /\ n.replies = pm.replies /\ n.watch = pm.watch /\ SamePut(pm, n)
    BY DEF MemoryType, Served, SamePut
  <1> HIDE DEF n
  <1>2. \A k : /\ None(pm.calls, k) => None(n.calls, k)
               /\ AtMostOne(pm.calls, k) => AtMostOne(n.calls, k)
               /\ AtMostOne(pm.calls, k) /\ h.kind = k => None(n.calls, k)
               /\ None(pm.calls, k) => h.kind # k
               /\ ~None(pm.calls, k) /\ h.kind # k => ~None(n.calls, k)
    BY <1>1, TailKinds, OnlyTail
  <1>3. \A k, l : Before(pm.calls, k, l) => /\ Before(n.calls, k, l)
                                            /\ h.kind = l => None(pm.calls, k)
    BY <1>1, BeforeTail
  <1>4. \A K : Only(pm.calls, K) => Only(n.calls, K) /\ h.kind \in K
    BY <1>1, OnlyTail
  <1>5. Placed(n, d)
    BY <1>1, OnlyTail DEF PutInv, Going, Placed, SamePut
  <1>6. Erasing(pm) => Erasing(n)
    BY <1>1, <1>2, <1>3, <1>4 DEF Erasing
  <1>7. Starting(pm) /\ Erasing(pm) => Starting(n)
    BY <1>1, <1>6 DEF Starting, SamePut
  <1>8. CASE Starting(pm) /\ Erasing(pm)
    <2>1. h.kind \in {"orphan", "void", "del"}
      BY <1>4, <1>8 DEF Erasing
    <2>2. ASSUME h.kind = "del" PROVE Idle(n)
      <3>1. None(n.calls, "del") /\ None(n.calls, "orphan")
            /\ Only(n.calls, {"orphan", "void", "del"})
        BY <1>2, <1>3, <1>4, <1>8, <2>2 DEF Erasing
      <3>2. Only(n.calls, {"void"})
        BY <3>1 DEF None, Only
      <3>3. Only(n.replies, {})
        BY <1>1, <1>8 DEF Erasing, Only
      <3> QED BY <1>1, <1>8, <3>2, <3>3 DEF Idle, Starting, SamePut
    <2> HIDE DEF h
    <2> QED BY <1>2, <1>5, <1>6, <1>7, <1>8, <2>1, <2>2 DEF PutInv, n, h
  <1>9. CASE Starting(pm) /\ (Erased(pm) \/ Sought(pm))
    <2>1. h.kind = "void"
      BY <1>4, <1>9 DEF Erased, Sought
    <2>2. Starting(n)
      BY <1>1, <1>4, <1>9 DEF Starting, Erased, Sought, SamePut
    <2> HIDE DEF h
    <2> QED BY <1>2, <1>5, <1>6, <1>7, <2>1, <2>2 DEF PutInv, n, h
  <1>10. CASE Starting(pm) /\ Seeking(pm)
    <2>1. h.kind \in {"void", "findDevice"}
      BY <1>4, <1>10 DEF Seeking
    <2>2. h.kind = "void" => Starting(n)
      BY <1>1, <1>2, <1>4, <1>10 DEF Starting, Seeking, SamePut
    <2>3. ASSUME h.kind = "findDevice" PROVE Idle(n)
      <3>1. None(n.calls, "findDevice") /\ Only(n.calls, {"void", "findDevice"})
        BY <1>2, <1>4, <1>10, <2>3 DEF Seeking
      <3>2. Only(n.calls, {"void"})
        BY <3>1 DEF None, Only
      <3> QED BY <1>1, <1>10, <3>2 DEF Idle, Starting, Seeking, SamePut
    <2> HIDE DEF h
    <2> QED BY <1>2, <1>5, <1>6, <1>7, <2>1, <2>2, <2>3 DEF PutInv, n, h
  <1>11. CASE Loaded(pm)
    <2>1. Loaded(n) /\ h.kind \in {"save", "find", "watch", "void"}
      BY <1>1, <1>4, <1>11 DEF Loaded, SamePut
    <2>2. ASSUME pm.id # 0 PROVE Going(n, d)
      BY <1>1, <1>5, <2>1, <2>2 DEF Going, SamePut
    <2>3. CASE Putting(pm, d) /\ pm.id = 0
      <3>1. h.kind # "watch"
        BY <1>2, <2>3 DEF Putting
      <3>2. h.kind = "find" => ~PutSent(pm, d)
        BY <1>3 DEF PutSent
      <3>3. h.kind = "save" => PutSent(pm, d)
        BY <1>2, <2>3 DEF Putting, PutDone
      <3>4. h.kind # "save" => /\ PutSent(pm, d) => PutSent(n, d)
                               /\ PutDone(pm) => PutDone(n)
        BY <1>1, <1>2, <1>3 DEF PutSent, PutDone
      <3>5. h.kind # "save" => Putting(n, d)
        BY <1>1, <1>2, <2>3, <3>4 DEF Putting, SamePut
      <3>6. n.id = 0 /\ (PutSent(pm, d) => d = <<>>) /\ (PutSent(pm, d) \/ PutDone(pm))
        BY <1>1, <2>3 DEF SamePut, PutSent, Putting
      <3> HIDE DEF h
      <3> QED BY <1>2, <1>5, <1>6, <1>7, <2>1, <2>3, <3>1, <3>2, <3>3, <3>4, <3>5, <3>6
          DEF PutInv, n, h
    <2>4. Putting(pm, d) \/ pm.id # 0
      BY <1>11 DEF PutInv, Going, Starting, Loaded
    <2> HIDE DEF h
    <2> QED BY <1>2, <1>5, <1>6, <1>7, <2>1, <2>2, <2>3, <2>4 DEF PutInv, n, h
  <1> QED BY <1>8, <1>9, <1>10, <1>11 DEF PutInv, Going, Starting

LEMMA BehindAlike ==
  ASSUME NEW m \in MemoryType
  PROVE  /\ Alike(m.calls, Behind(m).calls) /\ Alike(m.replies, Behind(m).replies)
         /\ SamePut(m, Behind(m)) /\ (m.watch = "none" => Behind(m).watch = "none")
  <1> DEFINE n == Behind(m)
  <1>1. m.calls \in Seq(Call) /\ m.replies \in Seq(ReplyMessage)
    BY DEF MemoryType
  <1>2. /\ m.watch = "none" => n.watch = "none"
        /\ SamePut(m, n)
        /\ n.calls = [i \in DOMAIN m.calls |->
                        IF m.calls[i].kind = "watch" THEN [m.calls[i] EXCEPT !.behind = TRUE]
                                                     ELSE m.calls[i]]
        /\ n.replies = [i \in DOMAIN m.replies |->
                          IF m.replies[i].kind = "policies"
                            THEN [m.replies[i] EXCEPT !.behind = TRUE]
                            ELSE m.replies[i]]
    BY DEF Behind, MemoryType, SamePut
  <1> HIDE DEF n
  <1>3. ASSUME NEW i \in DOMAIN m.calls, m.calls[i].kind = "watch"
        PROVE  n.calls[i].kind = "watch"
    <2>1. m.calls[i] \in Call
      BY <1>1
    <2>2. n.calls[i] = [m.calls[i] EXCEPT !.behind = TRUE]
      BY <1>2, <1>3
    <2> QED BY <1>3, <2>1, <2>2 DEF Call
  <1>4. ASSUME NEW i \in DOMAIN m.replies, m.replies[i].kind = "policies"
        PROVE  n.replies[i].kind = "policies"
    <2>1. m.replies[i] \in ReplyMessage
      BY <1>1
    <2>2. n.replies[i] = [m.replies[i] EXCEPT !.behind = TRUE]
      BY <1>2, <1>4
    <2> QED BY <1>4, <2>1, <2>2 DEF ReplyMessage
  <1>5. Alike(m.calls, n.calls) /\ Alike(m.replies, n.replies)
    BY <1>2, <1>3, <1>4 DEF Alike
  <1> QED BY <1>2, <1>5 DEF n

(* A reply joins the messages. *)
LEMMA RepliedPut ==
  ASSUME NEW m \in MemoryType, NEW r \in ReplyMessage, NEW d,
         Placed(m, d), ReplyPlaced(r, d)
  PROVE  /\ Placed(Replied(m, r), d)
         /\ Going(m, d) /\ r.kind \in {"saved", "policies", "fired"}
            => Going(Replied(m, r), d)
         /\ Loaded(m) /\ m.id = 0 /\ Putting(m, d) /\ PutDone(m) /\ r.kind = "policies"
            => PutInv(Replied(m, r), d)
         /\ Idle(m) /\ r.kind \in {"deleted", "device"} => PutInv(Replied(m, r), d)
  <1> DEFINE n == Replied(m, r)
  <1>1. /\ m.replies \in Seq(ReplyMessage) /\ n.replies = Append(m.replies, r)
        /\ n.calls = m.calls /\ n.watch = m.watch /\ SamePut(m, n)
    BY DEF MemoryType, Replied, SamePut
  <1> HIDE DEF n
  <1>2. \A K : Only(m.replies, K) /\ r.kind \in K => Only(n.replies, K)
    BY <1>1, OnlyAppended
  <1>3. Placed(n, d)
    BY <1>1, OnlyAppended DEF Placed, SamePut
  <1>4. Loaded(m) /\ r.kind \in {"saved", "policies", "fired"} => Loaded(n)
    BY <1>1, <1>2 DEF Loaded, SamePut
  <1>5. ASSUME Putting(m, d), PutDone(m), r.kind = "policies"
        PROVE  Putting(n, d)
    <2>1. None(n.replies, "fired")
      BY <1>1, <1>5, AppendKinds DEF Putting
    <2>2. ~None(n.replies, "saved")
      BY <1>1, <1>5, OnlyAppended DEF PutDone
    <2>3. Before(n.replies, "saved", "policies")
      BY <1>1, <1>5, BeforeAppended DEF PutDone
    <2> QED BY <1>1, <1>5, <2>1, <2>2, <2>3 DEF Putting, PutDone, SamePut
  <1>6. ASSUME Idle(m), r.kind \in {"deleted", "device"}
        PROVE  Starting(n)
    <2>1. Only(m.replies, {r.kind}) /\ None(m.replies, r.kind)
      BY <1>6 DEF Idle, Only, None
    <2>2. Only(n.replies, {r.kind}) /\ AtMostOne(n.replies, r.kind)
      BY <1>1, <1>2, <2>1, AppendKinds
    <2>3. Erased(n) \/ Sought(n)
      BY <1>1, <1>6, <2>2 DEF Erased, Sought, Idle
    <2> QED BY <1>1, <1>6, <2>3 DEF Starting, Idle, SamePut
  <1> QED BY <1>1, <1>3, <1>4, <1>5, <1>6 DEF PutInv, Going, SamePut, n

(* Once the first device policy is in the database all else stays with it. *)
LEMMA WrittenPut ==
  ASSUME pm \in MemoryType, pm.calls # <<>>, up \in BOOLEAN, PutInv(pm, devices),
         devices \in Seq(DevicePolicy), Writes(Head(pm.calls)),
         NEW id \in Nat, NEW e \in Seq(DevicePolicy),
         Head(pm.calls).id = 0
         => id = Len(devices) + 1 /\ Len(e) = Len(devices) + 1,
         Head(pm.calls).id # 0 => id = Head(pm.calls).id /\ Len(e) = Len(devices)
  PROVE  /\ PutInv(Saved(Behind(Served), id), e)
         /\ Head(pm.calls).kind = "orphan"
            => Starting(Saved(Behind(Served), id)) /\ Erasing(Saved(Behind(Served), id))
         /\ Head(pm.calls).kind = "orphan" /\ None(pm.calls, "del")
            => None(Saved(Behind(Served), id).calls, "del")
  <1> DEFINE h == Head(pm.calls)
             d == devices
             n == Behind(Served)
             r == [kind |-> "saved", id |-> id]
  <1>1. Served \in MemoryType /\ n \in MemoryType /\ h \in Call
    BY ServedType, BehindType
  <1>2. /\ pm.calls \in Seq(Call) /\ Served.calls = Tail(pm.calls)
        /\ Served.replies = pm.replies /\ Served.id = pm.id
    BY DEF MemoryType, Served
  <1>3. /\ h.id = Len(d) /\ Len(d) <= 1 /\ Len(d) \in Nat
        /\ d = <<>> => \A i \in DOMAIN Served.calls : ~Writes(Served.calls[i])
    <2>1. CallsPlaced(pm.calls, d) /\ Len(d) <= 1
      BY DEF PutInv, Going, Placed
    <2> QED BY <1>2, <2>1, OnlyTail
  <1>4. id = Len(e) /\ Len(e) = 1 /\ e # <<>> /\ id # 0 /\ (d # <<>> => Len(d) = Len(e))
    <2>1. ASSUME NEW k \in Nat, k <= 1, NEW l \in Nat, NEW i \in Nat,
                 k = 0 => i = k + 1 /\ l = k + 1, k # 0 => i = k /\ l = k
          PROVE  i = l /\ l = 1 /\ i # 0 /\ (k # 0 => k = l)
      BY <2>1
    <2>2. Len(e) \in Nat
      OBVIOUS
    <2>3. /\ Len(d) = 0 => id = Len(d) + 1 /\ Len(e) = Len(d) + 1
          /\ Len(d) # 0 => id = Len(d) /\ Len(e) = Len(d)
      BY <1>3
    <2> DEFINE k == Len(d)
               l == Len(e)
    <2>4. k \in Nat /\ k <= 1 /\ l \in Nat
      BY <1>3, <2>2
    <2>5. (k = 0 => id = k + 1 /\ l = k + 1) /\ (k # 0 => id = k /\ l = k)
      BY <2>3
    <2> HIDE DEF k, l, d
    <2>6. id = l /\ l = 1 /\ id # 0 /\ (k # 0 => k = l)
      BY <2>1, <2>4, <2>5
    <2>7. e # <<>>
      BY <2>6 DEF l
    <2>8. d # <<>> => k # 0
      BY DEF k, d
    <2> QED BY <2>6, <2>7, <2>8 DEF k, l
  <1>5. /\ Placed(Served, d)
        /\ h.kind = "orphan" => Starting(Served) /\ Erasing(Served)
        /\ h.kind = "save"
           => \/ Going(Served, d)
              \/ /\ Loaded(Served) /\ Served.id = 0 /\ d = <<>>
                 /\ Putting(pm, d) /\ PutSent(pm, d)
        /\ None(pm.calls, "del") => None(Served.calls, "del")
    BY ServedPut
  <1>6. /\ Alike(Served.calls, n.calls) /\ Alike(Served.replies, n.replies)
        /\ SamePut(Served, n) /\ (Served.watch = "none" => n.watch = "none")
    BY <1>1, BehindAlike
  <1>7. r \in ReplyMessage /\ ReplyPlaced(r, e) /\ r.kind = "saved"
    BY <1>4 DEF ReplyMessage, ReplyPlaced
  <1>8. Saved(n, id) = IF h.kind = "save" THEN Replied(n, r) ELSE n
    BY DEF Saved
  <1>9. h.kind \in {"save", "orphan"}
    BY DEF Writes
  <1> HIDE DEF h, d, n, r
  <1>10. ASSUME d # <<>> PROVE Placed(Served, e)
    BY <1>3, <1>4, <1>5, <1>10 DEF Placed, CallsPlaced, RepliesPlaced, ReplyPlaced
  <1>11. ASSUME d = <<>>, \A i \in DOMAIN Served.replies :
                            Served.replies[i].kind \notin {"saved", "device"},
                Served.id = 0
         PROVE  Placed(Served, e)
    BY <1>3, <1>4, <1>11 DEF Placed, CallsPlaced, RepliesPlaced, ReplyPlaced
  <1>12. Placed(Served, e)
    <2>1. CASE d # <<>>
      BY <1>10, <2>1
    <2>2. CASE d = <<>> /\ h.kind = "orphan"
      <3>1. Served.replies = <<>> /\ Served.id = 0
        BY <1>5, <2>2 DEF Starting, Erasing
      <3> QED BY <1>11, <2>2, <3>1
    <2>3. CASE d = <<>> /\ h.kind = "save"
      <3>1. ~Going(Served, d)
        BY <1>3, <2>3 DEF Going, Placed
      <3>2. Loaded(Served) /\ Served.id = 0 /\ None(pm.replies, "saved")
        BY <1>5, <2>3, <3>1 DEF PutSent
      <3>3. \A i \in DOMAIN Served.replies :
              Served.replies[i].kind \notin {"saved", "device"}
        BY <1>2, <3>2 DEF Loaded, Only, None
      <3> QED BY <1>11, <2>3, <3>2, <3>3
    <2> QED BY <1>9, <2>1, <2>2, <2>3
  <1>13. Placed(n, e)
    BY <1>6, <1>12, AlikeKinds DEF Placed, SamePut
  <1>14. CASE h.kind = "orphan"
    <2>1. Starting(n) /\ Erasing(n) /\ (None(pm.calls, "del") => None(n.calls, "del"))
      BY <1>1, <1>5, <1>6, <1>14, AlikePut
    <2> QED BY <1>8, <1>13, <1>14, <2>1 DEF PutInv, n, h
  <1>15. CASE h.kind = "save" /\ Going(Served, d)
    <2>1. Going(n, e)
      BY <1>6, <1>13, <1>15, AlikeKinds DEF Going, Loaded, SamePut
    <2>2. Going(Replied(n, r), e)
      BY <1>1, <1>7, <1>13, <2>1, RepliedPut
    <2> QED BY <1>8, <1>15, <2>2 DEF PutInv, n, h
  <1>16. CASE h.kind = "save" /\ ~Going(Served, d)
    <2> DEFINE q == Replied(n, r)
    <2>1. /\ Loaded(Served) /\ Served.id = 0 /\ d = <<>>
          /\ Putting(pm, d) /\ PutSent(pm, d)
      BY <1>5, <1>16
    <2>2. /\ Loaded(n) /\ n.id = 0
      BY <1>6, <2>1, AlikeKinds DEF Loaded, SamePut
    <2>3. /\ q.replies = Append(n.replies, r) /\ n.replies \in Seq(ReplyMessage)
          /\ q.calls = n.calls /\ q.watch = n.watch /\ SamePut(n, q)
      BY <1>1 DEF MemoryType, Replied, SamePut
    <2> HIDE DEF q
    <2>4. None(Served.calls, "save")
      BY <1>3, <2>1 DEF None, Writes
    <2>5. /\ None(n.calls, "save") /\ None(n.calls, "watch")
          /\ None(n.replies, "fired") /\ None(n.replies, "policies")
      <3>1. None(pm.calls, "watch") /\ None(pm.replies, "fired")
            /\ None(pm.replies, "policies")
        BY <2>1 DEF Putting, PutSent
      <3>2. None(Served.calls, "watch")
        BY <1>2, <3>1, TailKinds
      <3> QED BY <1>2, <1>6, <2>4, <3>1, <3>2, AlikeKinds
    <2>6. /\ None(q.replies, "fired") /\ ~None(q.replies, "saved")
          /\ Before(q.replies, "saved", "policies")
      BY <1>7, <2>3, <2>5, AppendKinds, OnlyAppended, BeforeAppended
    <2>7. SamePut(pm, q) /\ q.watch = "none"
      <3>1. SamePut(pm, Served) /\ Served.watch = pm.watch
        BY DEF Served, SamePut, MemoryType
      <3>2. pm.watch = "none"
        BY <2>1 DEF Putting
      <3> QED BY <1>6, <2>3, <3>1, <3>2 DEF SamePut
    <2>8. Putting(q, e)
      BY <2>1, <2>3, <2>5, <2>6, <2>7 DEF Putting, PutDone, SamePut
    <2>9. Loaded(q) /\ q.id = 0
      BY <1>7, <2>2, <2>3, OnlyAppended DEF Loaded, SamePut
    <2>10. Placed(q, e)
      BY <1>1, <1>7, <1>13, RepliedPut DEF q
    <2> QED BY <1>8, <1>16, <2>8, <2>9, <2>10 DEF PutInv, q, n, h
  <1> QED BY <1>9, <1>14, <1>15, <1>16 DEF h

LEMMA UpPut ==
  ASSUME up, up', PutInv(pm', devices')
  PROVE  OnlyOne'
  BY DEF OnlyOne

LEMMA DatabasePut ==
  ASSUME TypeInv, OnlyOne, Database, "save" \notin Refusable, "findDevice" \notin Refusable
  PROVE  OnlyOne'
  <1> DEFINE h == Head(pm.calls)
             d == devices
  <1>1. /\ pm \in MemoryType /\ up \in BOOLEAN /\ written \in BOOLEAN
        /\ d \in Seq(DevicePolicy) /\ pm.calls \in Seq(Call)
    BY DEF TypeInv, DeviceTypeOK, MemoryType
  <1>2. PutInv(pm, d) /\ up' = up
    BY DEF OnlyOne, Database, program, ServeDel, ServeFindDevice, ServeFind, ServeSave,
           RefuseSave, ServeWatch, RefuseWatch, DropCall, FireWatch
  <1>3. ASSUME pm.calls # <<>>
        PROVE  Served \in MemoryType /\ Behind(Served) \in MemoryType /\ h \in Call
    BY <1>1, <1>3, ServedType, BehindType
  <1>4. ASSUME pm.calls # <<>>, ~up
        PROVE  /\ h.kind \in {"orphan", "void"}
               /\ Starting(pm) /\ Erasing(pm) /\ None(pm.calls, "del")
    <2>1. Starting(pm) /\ Erasing(pm) /\ None(pm.calls, "del")
      BY <1>4 DEF OnlyOne
    <2>2. h.kind \in {"orphan", "void", "del"} /\ h.kind # "del"
      BY <1>1, <1>4, <2>1, OnlyTail, TailKinds DEF Erasing
    <2> QED BY <2>1, <2>2
  <1>5. ASSUME NEW m \in MemoryType, NEW r \in ReplyMessage, Idle(m), Placed(m, d),
               ReplyPlaced(r, d), r.kind \in {"deleted", "device"}
        PROVE  PutInv(Replied(m, r), d)
    BY <1>5, RepliedPut
  <1>6. CASE ServeDel
    <2> DEFINE r == [kind |-> "deleted"]
    <2>1. /\ pm.calls # <<>> /\ h.kind = "del" /\ d' = d
          /\ pm' = Replied(Behind(Served), r) \/ pm' = Replied(Served, r)
      BY <1>6 DEF ServeDel, Serves
    <2>2. up /\ Idle(Served) /\ Placed(Served, d)
      BY <1>1, <1>2, <1>4, <2>1, ServedPut
    <2>3. Idle(Behind(Served)) /\ Placed(Behind(Served), d)
      <3>1. /\ Alike(Served.calls, Behind(Served).calls)
            /\ Alike(Served.replies, Behind(Served).replies)
            /\ SamePut(Served, Behind(Served))
            /\ Served.watch = "none" => Behind(Served).watch = "none"
        BY <1>3, <2>1, BehindAlike
      <3> QED BY <2>2, <3>1, AlikeKinds DEF Idle, Placed, SamePut
    <2>4. r \in ReplyMessage /\ ReplyPlaced(r, d) /\ r.kind = "deleted"
      BY DEF ReplyMessage, ReplyPlaced
    <2> HIDE DEF r, d
    <2>5. PutInv(pm', d)
      BY <1>3, <1>5, <2>1, <2>2, <2>3, <2>4
    <2> QED BY <1>2, <2>1, <2>2, <2>5, UpPut DEF d
  <1>7. CASE ServeFindDevice
    <2>1. PICK found \in {[id |-> i, object |-> devices[i]] : i \in DOMAIN devices}
                           \cup {NoObject} :
            /\ found.id = 0 => devices = <<>>
            /\ pm' = Replied(Served, [kind |-> "device", found |-> found])
      BY <1>7 DEF ServeFindDevice
    <2> DEFINE r == [kind |-> "device", found |-> found]
    <2>2. pm.calls # <<>> /\ h.kind = "findDevice" /\ d' = d
      BY <1>7 DEF ServeFindDevice, Serves
    <2>3. up /\ Idle(Served) /\ Placed(Served, d)
      BY <1>1, <1>2, <1>4, <2>2, ServedPut
    <2>4. r \in ReplyMessage /\ r.kind = "device" /\ r.found.id = Len(d)
      <3>1. CASE found = NoObject
        BY <1>1, <2>1, <3>1 DEF NoObject, ReplyMessage
      <3>2. CASE found # NoObject
        <4>1. PICK i \in DOMAIN d : found = [id |-> i, object |-> d[i]]
          BY <2>1, <3>2
        <4>2. Len(d) <= 1
          BY <2>3 DEF Placed
        <4>3. i \in Nat /\ i = Len(d) /\ d[i] \in DevicePolicy
          BY <1>1, <4>1, <4>2
        <4> QED BY <4>1, <4>3 DEF ReplyMessage
      <3> QED BY <3>1, <3>2
    <2>5. ReplyPlaced(r, d)
      BY <2>4 DEF ReplyPlaced
    <2>6. pm' = Replied(Served, r)
      BY <2>1
    <2> HIDE DEF r, d
    <2>7. PutInv(pm', d)
      BY <1>3, <1>5, <2>2, <2>3, <2>4, <2>5, <2>6
    <2> QED BY <1>2, <2>2, <2>3, <2>7, UpPut DEF d
  <1>8. CASE ServeFind
    <2>1. PICK ok \in BOOLEAN :
            pm' = Replied(Served, [kind |-> "policies", ok |-> ok,
                                   policies |-> IF ok THEN slots ELSE <<>>,
                                   behind |-> FALSE])
      BY <1>8 DEF ServeFind
    <2> DEFINE r == [kind |-> "policies", ok |-> ok,
                     policies |-> IF ok THEN slots ELSE <<>>, behind |-> FALSE]
    <2>2. slots \in Seq(Policy \cup {NoPolicy})
      BY SecurityAssumption, SeqOf DEF SecurityAssumption, Accounts, TypeInv
    <2>3. (IF ok THEN slots ELSE <<>>) \in Seq(Policy \cup {NoPolicy})
      BY <2>2
    <2>4. r \in ReplyMessage /\ r.kind = "policies" /\ ReplyPlaced(r, d)
      BY <2>3 DEF ReplyMessage, ReplyPlaced
    <2>5. pm.calls # <<>> /\ h.kind = "find" /\ d' = d /\ pm' = Replied(Served, r)
      BY <1>8, <2>1 DEF ServeFind, Serves
    <2> HIDE DEF r
    <2>6. /\ Placed(Served, d)
          /\ \/ Going(Served, d)
             \/ Loaded(Served) /\ Served.id = 0 /\ PutDone(Served) /\ Putting(Served, d)
      BY <1>1, <1>2, <2>5, ServedPut
    <2>7. PutInv(pm', d)
      BY <1>3, <2>4, <2>5, <2>6, RepliedPut DEF PutInv
    <2>8. up
      BY <1>1, <1>4, <2>5
    <2> QED BY <1>2, <2>5, <2>7, <2>8, UpPut
  <1>9. CASE ServeSave
    <2> DEFINE id == IF h.id = 0 THEN Len(d) + 1 ELSE h.id
    <2>1. /\ pm.calls # <<>> /\ h.kind \in {"save", "orphan"}
          /\ pm' = Saved(Behind(Served), id)
          /\ d' = IF h.id = 0 THEN Append(d, h.object) ELSE [d EXCEPT ![id] = h.object]
      BY <1>9 DEF ServeSave, Serves
    <2>2. h.id \in Nat /\ id \in Nat
      BY <1>1, <1>3, <2>1 DEF Call
    <2>3. d' \in Seq(DevicePolicy)
      BY <1>9, DatabaseType DEF Database, TypeInv, DeviceTypeOK
    <2>4. /\ h.id = 0 => id = Len(d) + 1 /\ Len(d') = Len(d) + 1
          /\ h.id # 0 => id = h.id /\ Len(d') = Len(d)
      <3>1. ASSUME h.id = 0 PROVE Len(d') = Len(d) + 1
        BY <1>1, <2>1, <3>1
      <3>2. ASSUME h.id # 0 PROVE Len(d') = Len(d)
        <4>1. DOMAIN d' = DOMAIN d
          BY <2>1, <3>2
        <4>2. /\ DOMAIN d' = 1 .. Len(d') /\ DOMAIN d = 1 .. Len(d)
              /\ Len(d') \in Nat /\ Len(d) \in Nat
          BY <1>1, <2>3
        <4>3. ASSUME NEW k \in Nat, NEW l \in Nat, 1 .. k = 1 .. l
              PROVE  k = l
          <5>1. (k # 0 => k \in 1 .. l) /\ (l # 0 => l \in 1 .. k)
            BY <4>3
          <5> QED BY <5>1
        <4> HIDE DEF d
        <4> QED BY <4>1, <4>2, <4>3
      <3> QED BY <3>1, <3>2
    <2>5. Writes(h)
      BY <2>1 DEF Writes
    <2> HIDE DEF id
    <2>6. /\ PutInv(pm', d')
          /\ h.kind = "orphan" => Starting(pm') /\ Erasing(pm')
          /\ h.kind = "orphan" /\ None(pm.calls, "del") => None(pm'.calls, "del")
      BY <1>1, <1>2, <2>1, <2>2, <2>3, <2>4, <2>5, WrittenPut
    <2> QED BY <1>2, <1>4, <2>1, <2>6 DEF OnlyOne
  <1>10. ~RefuseSave
    BY DEF RefuseSave
  <1>11. CASE ServeWatch \/ RefuseWatch
    <2>1. /\ pm.calls # <<>> /\ h.kind = "watch" /\ d' = d
          /\ \/ pm' = Served
             \/ pm' = [Served EXCEPT !.watch = IF h.behind THEN "behind" ELSE "set"]
      BY <1>11 DEF ServeWatch, RefuseWatch, Serves
    <2>2. up /\ Going(Served, d)
      BY <1>1, <1>2, <1>4, <2>1, ServedPut
    <2>3. SameGoing(Served, pm')
      BY <1>3, <2>1 DEF SameGoing, MemoryType
    <2> QED BY <1>2, <2>1, <2>2, <2>3, GoingSame, UpPut DEF PutInv
  <1>12. CASE DropCall
    <2>1. pm.calls # <<>> /\ h.kind = "void" /\ pm' = Served /\ d' = d
      BY <1>12 DEF DropCall, Serves
    <2>2. /\ PutInv(Served, d)
          /\ Starting(pm) /\ Erasing(pm) => Starting(Served) /\ Erasing(Served)
          /\ None(pm.calls, "del") => None(Served.calls, "del")
      BY <1>1, <1>2, <2>1, ServedPut
    <2> QED BY <1>2, <1>4, <2>1, <2>2 DEF OnlyOne
  <1>13. CASE FireWatch
    <2> DEFINE r == [kind |-> "fired"]
               m == [pm EXCEPT !.watch = "none"]
    <2>1. r \in ReplyMessage /\ r.kind = "fired" /\ ReplyPlaced(r, d)
      BY DEF ReplyMessage, ReplyPlaced
    <2>2. pm.watch = "behind" /\ pm' = Replied(m, r) /\ d' = d
      BY <1>13 DEF FireWatch
    <2>3. m \in MemoryType /\ SameGoing(pm, m)
      BY <1>1 DEF MemoryType, SameGoing
    <2>4. up /\ Going(pm, d)
      BY <1>1, <1>2, <2>2 DEF OnlyOne, PutInv, Starting, Putting
    <2> HIDE DEF r, m
    <2>5. Going(m, d)
      BY <2>3, <2>4, GoingSame
    <2>6. PutInv(pm', d)
      BY <2>1, <2>2, <2>3, <2>5, RepliedPut DEF Going, PutInv
    <2> QED BY <1>2, <2>2, <2>4, <2>6, UpPut
  <1> QED
    BY <1>6, <1>7, <1>8, <1>9, <1>10, <1>11, <1>12, <1>13 DEF Database

LEMMA StartPut ==
  ASSUME TypeInv, OnlyOne, Start
  PROVE  OnlyOne'
  <1> DEFINE m == [pm EXCEPT !.behind = written]
             c == [kind |-> "del"]
  <1>1. /\ pm \in MemoryType /\ Starting(pm) /\ Erasing(pm) /\ None(pm.calls, "del")
        /\ PutInv(pm, devices)
    BY DEF TypeInv, DeviceTypeOK, OnlyOne, Start
  <1>2. m \in MemoryType /\ SameWatch(pm, m) /\ SamePut(pm, m) /\ m.calls = pm.calls
    BY <1>1 DEF TypeInv, DeviceTypeOK, MemoryType, SameWatch, SamePut
  <1>3. c \in Call /\ c.kind = "del" /\ ~Writes(c)
    BY DEF Call, Writes
  <1>4. pm' = Send(m, c) /\ up' /\ devices' = devices
    BY DEF Start
  <1> HIDE DEF m, c
  <1>5. /\ pm'.calls = Append(m.calls, c) /\ pm'.replies = m.replies
        /\ pm'.watch = m.watch /\ SamePut(m, pm') /\ m.calls \in Seq(Call)
    BY <1>2, <1>4 DEF Send, MemoryType, SamePut
  <1>6. Starting(m) /\ Erasing(m) /\ PutInv(m, devices)
    BY <1>1, <1>2, SameMessagesPut
  <1>7. Placed(m, devices)
    BY <1>6 DEF PutInv, Going
  <1>8. Placed(pm', devices)
    BY <1>3, <1>5, <1>7, OnlyAppended DEF Placed, SamePut
  <1>9. /\ Only(pm'.calls, {"orphan", "void", "del"}) /\ AtMostOne(pm'.calls, "del")
        /\ Before(pm'.calls, "orphan", "del")
    BY <1>1, <1>2, <1>3, <1>5, <1>6, OnlyAppended, AppendKinds, BeforeAppended DEF Erasing
  <1>10. Starting(pm')
    BY <1>5, <1>6, <1>9 DEF Starting, Erasing, SamePut
  <1> QED BY <1>4, <1>8, <1>10 DEF OnlyOne, PutInv

LEMMA InitPut == Init => OnlyOne
  <1> SUFFICES ASSUME Init
               PROVE  OnlyOne
    OBVIOUS
  <1>1. /\ pm.calls = <<>> /\ pm.replies = <<>> /\ pm.watch = "none"
        /\ pm.id = 0 /\ ~pm.loaded /\ ~pm.token /\ devices = <<>>
    BY DEF Init, Memory
  <1>2. Starting(pm) /\ Erasing(pm) /\ None(pm.calls, "del")
    BY <1>1 DEF Starting, Erasing, Only, AtMostOne, Before, None
  <1>3. Placed(pm, devices)
    BY <1>1 DEF Placed, CallsPlaced, RepliesPlaced
  <1> QED BY <1>2, <1>3 DEF OnlyOne, PutInv

LEMMA CrashPut ==
  ASSUME TypeInv, OnlyOne, Crash
  PROVE  OnlyOne'
  <1>1. /\ pm'.calls = Orphans /\ pm'.replies = <<>> /\ pm'.watch = "none"
        /\ pm'.id = 0 /\ ~pm'.loaded /\ ~pm'.token /\ devices' = devices
    BY DEF Crash, Memory
  <1>2. DOMAIN Orphans = DOMAIN pm.calls
    BY DEF Orphans
  <1>3. ASSUME NEW i \in DOMAIN Orphans
        PROVE  /\ Orphans[i].kind \in {"orphan", "void"}
               /\ Writes(Orphans[i]) => Writes(pm.calls[i]) /\ Orphans[i].id = pm.calls[i].id
    <2>1. CASE pm.calls[i].kind \in {"save", "orphan"}
      <3>1. Orphans[i] = [kind |-> "orphan", id |-> pm.calls[i].id,
                          object |-> pm.calls[i].object]
        BY <1>2, <2>1 DEF Orphans
      <3> QED BY <2>1, <3>1 DEF Writes
    <2>2. CASE pm.calls[i].kind \notin {"save", "orphan"}
      <3>1. Orphans[i] = [kind |-> "void"]
        BY <1>2, <2>2 DEF Orphans
      <3> QED BY <3>1 DEF Writes
    <2> QED BY <2>1, <2>2
  <1>4. Starting(pm') /\ Erasing(pm') /\ None(pm'.calls, "del")
    BY <1>1, <1>3 DEF Starting, Erasing, Only, AtMostOne, Before, None
  <1>5. Placed(pm, devices)
    BY DEF OnlyOne, PutInv, Going
  <1>6. CallsPlaced(Orphans, devices)
    BY <1>2, <1>3, <1>5 DEF Placed, CallsPlaced
  <1>7. Placed(pm', devices)
    BY <1>1, <1>5, <1>6 DEF Placed, RepliesPlaced
  <1> QED BY <1>1, <1>4, <1>7 DEF OnlyOne, PutInv

(* A client that has waited for the device policy: either it is known      *)
(* where that is, or it is the default, which counts no retries and is     *)
(* enforced already.                                                       *)
LEMMA ClientPut ==
  ASSUME NEW m \in MemoryType, NEW d, PutInv(m, d), m.loaded
  PROVE  /\ PutInv(PasswordEnforced(m), d)
         /\ CountsRetries(m) => /\ PutInv(DecrementRetries(m), d)
                                /\ PutInv(ResetRetries(m), d)
  <1>1. CASE Going(m, d)
    BY <1>1, ClientGoing DEF PutInv
  <1>2. CASE Putting(m, d)
    <2>1. PasswordEnforced(m) = m
      BY <1>2 DEF PasswordEnforced, PolicyPending, Putting
    <2>2. ~CountsRetries(m)
      BY <1>2 DEF CountsRetries, ValidMaxRetries, Putting, DefaultPolicy
    <2> QED BY <2>1, <2>2
  <1> QED BY <1>1, <1>2 DEF PutInv, Starting

LEMMA WorldPut ==
  ASSUME TypeInv, OnlyOne, World \/ TimePasses, ~Hasty
  PROVE  OnlyOne'
  <1> DEFINE d == devices
  <1>1. pm \in MemoryType /\ PutInv(pm, d) /\ up \in BOOLEAN
    BY DEF TypeInv, DeviceTypeOK, OnlyOne
  <1>2. ASSUME up, PutInv(pm', d), UNCHANGED <<up, devices>>
        PROVE  OnlyOne'
    BY <1>2 DEF OnlyOne
  <1>3. ClientCalls => up /\ pm.loaded
    BY DEF ClientCalls
  <1>4. CASE \E c \in Passcodes \cup {NoPasscode}, x \in DiskFails \cup {"no"} :
               SetPasscode(c, x)
    <2>1. /\ pm' = PasswordEnforced(pm) \/ pm' = pm
          /\ ClientCalls /\ UNCHANGED <<up, devices>>
      BY <1>4 DEF SetPasscode
    <2>2. PutInv(PasswordEnforced(pm), d)
      BY <1>1, <1>3, <2>1, ClientPut
    <2> QED BY <1>1, <1>2, <1>3, <2>1, <2>2
  <1>5. CASE MatchLockedOut \/ TimePasses
    <2>1. SameWatch(pm, pm') /\ SamePut(pm, pm') /\ pm' \in MemoryType
      BY <1>1, <1>5 DEF MatchLockedOut, TimePasses, MemoryType, SameWatch, SamePut
    <2>2. up /\ UNCHANGED <<up, devices>>
      BY <1>5 DEF MatchLockedOut, TimePasses, ClientCalls, elsewhere
    <2> QED BY <1>1, <1>2, <2>1, <2>2, SameMessagesPut
  <1>6. Attempt \in MemoryType /\ SameWatch(pm, Attempt) /\ SamePut(pm, Attempt)
    BY <1>1 DEF MemoryType, Attempt, DefaultMaxRetries, SameWatch, SamePut
  <1>7. PutInv(Attempt, d)
    BY <1>1, <1>6, SameMessagesPut
  <1>8. CASE MatchWrong
    <2> DEFINE m == [Attempt EXCEPT !.numRetries = IF @ > 0 THEN @ - 1 ELSE @,
                                    !.lastFailure = "recent"]
               n == DecrementRetries(m)
               o == [n EXCEPT !.numRetries = n.retriesLeft,
                              !.wiping = @ \/ n.retriesLeft = 0]
    <2>1. (IF Attempt.numRetries > 0 THEN Attempt.numRetries - 1
                                     ELSE Attempt.numRetries) \in Nat
      BY <1>6 DEF MemoryType
    <2>2. m \in MemoryType /\ SameWatch(Attempt, m) /\ SamePut(Attempt, m)
      BY <1>6, <2>1 DEF MemoryType, SameWatch, SamePut
    <2>3. /\ pm' = (IF CountsRetries(m) THEN o ELSE m)
          /\ ClientCalls /\ UNCHANGED <<up, devices>>
      BY <1>8 DEF MatchWrong
    <2> HIDE DEF m
    <2>4. PutInv(m, d) /\ m.loaded
      BY <1>3, <1>6, <1>7, <2>2, <2>3, SameMessagesPut DEF SamePut
    <2>5. n \in MemoryType /\ (CountsRetries(m) => PutInv(n, d))
      BY <2>2, <2>4, RetriesType, ClientPut
    <2> HIDE DEF n
    <2>6. o \in MemoryType /\ SameWatch(n, o) /\ SamePut(n, o)
      BY <2>5 DEF MemoryType, SameWatch, SamePut
    <2>7. PutInv(pm', d)
      BY <2>3, <2>4, <2>5, <2>6, SameMessagesPut
    <2> QED BY <1>2, <1>3, <2>3, <2>7
  <1>9. CASE MatchRight
    <2> DEFINE n == ResetRetries(Attempt)
               o == [n EXCEPT !.numRetries = n.retriesLeft]
               q == [Attempt EXCEPT !.numRetries =
                       IF PolicyPending(pm) THEN DefaultMaxRetries ELSE 0]
    <2>1. /\ pm' = (IF CountsRetries(pm) THEN o ELSE q)
          /\ ClientCalls /\ UNCHANGED <<up, devices>>
      BY <1>9 DEF MatchRight
    <2>2. CountsRetries(pm) => CountsRetries(Attempt)
      BY <1>6 DEF CountsRetries, PolicyPending, SamePut
    <2>3. n \in MemoryType /\ (CountsRetries(pm) => PutInv(n, d))
      BY <1>3, <1>6, <1>7, <2>1, <2>2, RetriesType, ClientPut DEF SamePut
    <2> HIDE DEF n
    <2>4. /\ o \in MemoryType /\ SameWatch(n, o) /\ SamePut(n, o)
          /\ q \in MemoryType /\ SameWatch(Attempt, q) /\ SamePut(Attempt, q)
      BY <1>6, <2>3 DEF MemoryType, SameWatch, SamePut, DefaultMaxRetries
    <2>5. PutInv(pm', d)
      BY <1>7, <2>1, <2>3, <2>4, SameMessagesPut
    <2> QED BY <1>2, <1>3, <2>1, <2>5
  <1>10. CASE Crash
    BY <1>10, CrashPut
  <1>11. CASE CbDeviceWipe
    <2>1. CASE pm' = [pm EXCEPT !.wiping = FALSE] /\ UNCHANGED elsewhere
      <3>1. SameWatch(pm, pm') /\ SamePut(pm, pm') /\ pm' \in MemoryType
        BY <1>1, <2>1 DEF MemoryType, SameWatch, SamePut
      <3> QED BY <1>1, <1>2, <1>11, <2>1, <3>1, SameMessagesPut
          DEF CbDeviceWipe, elsewhere
    <2>2. CASE Init'
      BY <2>2, InitPut, PTL
    <2> QED BY <1>11, <2>1, <2>2 DEF CbDeviceWipe, Init
  <1>12. CASE \E a \in Accounts : ChangePolicy(a)
    <2>1. pm' = Behind(pm) /\ up' = up /\ devices' = devices
      BY <1>12 DEF ChangePolicy, program
    <2>2. /\ PutInv(pm', d)
          /\ Starting(pm) => Starting(pm')
          /\ Erasing(pm) => Erasing(pm')
          /\ None(pm.calls, "del") => None(pm'.calls, "del")
      BY <1>1, <2>1, BehindAlike, BehindType, AlikePut
    <2> QED BY <2>1, <2>2 DEF OnlyOne
  <1> QED BY <1>4, <1>5, <1>8, <1>9, <1>10, <1>11, <1>12 DEF World

LEMMA OnlyOneStep ==
  ASSUME TypeInv, OnlyOne, [Next]_vars,
         ~Hasty, "save" \notin Refusable, "findDevice" \notin Refusable
  PROVE  OnlyOne'
  <1>1. CASE UNCHANGED vars
    BY <1>1 DEF vars, OnlyOne
  <1>2. CASE Callbacks
    <2>1. PutInv(pm', devices)
      BY <1>2, CallbacksPut DEF OnlyOne
    <2>2. up /\ UNCHANGED <<up, devices>>
      BY <1>2 DEF Callbacks, elsewhere, CbTempPoliciesDeleted, CbDevicePolicy,
         CbSecurityPolicy, CbDevicePolicySaved, CbWatchResponse, DropReply, Reply
    <2> QED BY <2>1, <2>2 DEF OnlyOne
  <1> QED BY <1>1, <1>2, DatabasePut, StartPut, WorldPut DEF Next, Reaction

(* If the database refuses neither what is written to it nor the query of  *)
(* the device policy, and clients wait for that: there is one device       *)
(* policy at most, with any number of accounts, of calls under way and of  *)
(* restarts.                                                               *)
THEOREM OneDevicePolicyAlways ==
  ASSUME ~Hasty, "save" \notin Refusable, "findDevice" \notin Refusable
  PROVE  Spec => []OneDevicePolicy
  <1>1. TypeInv /\ OnlyOne /\ [Next]_vars => OnlyOne'
    BY OnlyOneStep
  <1>2. OnlyOne => OneDevicePolicy
    BY DEF OnlyOne, PutInv, Going, Placed, OneDevicePolicy
  <1> QED BY <1>1, <1>2, InitPut, TypesInvariant, PTL DEF Spec

-----------------------------------------------------------------------------
(* What the device policy says of the passcode and of the retries.         *)

(* The device policy as the manager has it in its memory. *)
ObjectOf(m) ==
  [policy |-> m.aggregate, enforced |-> m.isEnforced, retries |-> m.retriesLeft]

(* The device policy is o once calls s are served to device policies d: it *)
(* is what the last of them writes, or what is there.                      *)
Latest(s, d, o) ==
  \/ \E i \in DOMAIN s : /\ Writes(s[i]) /\ s[i].object = o
                         /\ \A j \in DOMAIN s : i < j => ~Writes(s[j])
  \/ (\A i \in DOMAIN s : ~Writes(s[i])) /\ d # <<>> /\ d[1] = o

(* The history tells apart as many wrong passcodes as any policy allows. *)
TriesTold == \A a \in Accounts : \A p \in Policies[a] : p.maxRetries <= MaxTries

Told(p) == TriesTold => p.maxRetries <= MaxTries

(* What o says is true of passcode c after n wrong ones. *)
Upheld(o, c, n) ==
  /\ "write" \notin DiskFails /\ o.enforced /\ o.policy.passwordRequired
     => c \in Passcodes /\ Satisfies(c, o.policy)
  /\ Told(o.policy)
  /\ TriesTold /\ o.enforced /\ ValidMaxRetries(o.policy)
     => o.retries = IF n < o.policy.maxRetries THEN o.policy.maxRetries - n ELSE 0

(* What is read back is what is there. *)
ReadBack(r, d) ==
  /\ r.kind = "device" /\ r.found.id # 0 => d # <<>> /\ r.found.object = d[1]
  /\ r.kind = "policies"
     => \A i \in DOMAIN r.policies : r.policies[i] # NoPolicy => Told(r.policies[i])

AllReadBack(s, d) == \A i \in DOMAIN s : ReadBack(s[i], d)

Mirrored(m, d, c, n) ==
  /\ \A o : Latest(m.calls, d, o) => Upheld(o, c, n)
  /\ m.loaded => Latest(m.calls, d, ObjectOf(m))
  /\ AllReadBack(m.replies, d)

MirrorInv == Mirrored(pm, devices, stored, tries)

LEMMA LatestIsOne ==
  ASSUME NEW S, NEW s \in Seq(S), NEW d, NEW o, NEW p, Latest(s, d, o), Latest(s, d, p)
  PROVE  o = p
  <1>1. DOMAIN s \subseteq Nat
    OBVIOUS
  <1>2. CASE \A i \in DOMAIN s : ~Writes(s[i])
    BY <1>2 DEF Latest
  <1>3. CASE \E i \in DOMAIN s : Writes(s[i])
    <2>1. PICK i \in DOMAIN s : Writes(s[i]) /\ s[i].object = o
                                /\ \A j \in DOMAIN s : i < j => ~Writes(s[j])
      BY <1>3 DEF Latest
    <2>2. PICK k \in DOMAIN s : Writes(s[k]) /\ s[k].object = p
                                /\ \A j \in DOMAIN s : k < j => ~Writes(s[j])
      BY <1>3 DEF Latest
    <2>3. i = k
      BY <1>1, <2>1, <2>2
    <2> QED BY <2>1, <2>2, <2>3
  <1> QED BY <1>2, <1>3

(* Nothing that is written is lost or changed. *)
SameWrites(s, t) ==
  /\ DOMAIN t = DOMAIN s
  /\ \A i \in DOMAIN s : /\ Writes(t[i]) <=> Writes(s[i])
                         /\ Writes(s[i]) => t[i].object = s[i].object

LEMMA LatestKept ==
  ASSUME NEW s, NEW t, SameWrites(s, t), NEW d, NEW o
  PROVE  Latest(s, d, o) <=> Latest(t, d, o)
  BY DEF SameWrites, Latest

LEMMA LatestSent ==
  ASSUME NEW s \in Seq(Call), NEW c \in Call, NEW d
  PROVE  /\ ~Writes(c) => \A o : Latest(Append(s, c), d, o) <=> Latest(s, d, o)
         /\ Writes(c) => \A o : Latest(Append(s, c), d, o) <=> o = c.object
  <1> DEFINE t == Append(s, c)
  <1>1. /\ Len(s) \in Nat /\ DOMAIN s = 1 .. Len(s)
        /\ DOMAIN t = 1 .. (Len(s) + 1) /\ t[Len(s) + 1] = c
        /\ \A i \in DOMAIN s : t[i] = s[i]
    OBVIOUS
  <1> HIDE DEF t
  <1>2. /\ Len(s) + 1 \in DOMAIN t
        /\ \A i \in DOMAIN t : i = Len(s) + 1 \/ (i \in DOMAIN s /\ i < Len(s) + 1)
        /\ \A i \in DOMAIN s : i \in DOMAIN t
    BY <1>1
  <1>3. ASSUME ~Writes(c), NEW o
        PROVE  Latest(t, d, o) <=> Latest(s, d, o)
    <2>1. Latest(t, d, o) => Latest(s, d, o)
      BY <1>1, <1>2, <1>3 DEF Latest
    <2>2. Latest(s, d, o) => Latest(t, d, o)
      BY <1>1, <1>2, <1>3 DEF Latest
    <2> QED BY <2>1, <2>2
  <1>4. ASSUME Writes(c), NEW o
        PROVE  Latest(t, d, o) <=> o = c.object
    <2>1. Latest(t, d, c.object)
      <3>1. \A j \in DOMAIN t : ~(Len(s) + 1 < j)
        BY <1>1
      <3> QED BY <1>1, <1>2, <1>4, <3>1 DEF Latest
    <2>2. Latest(t, d, o) => o = c.object
      BY <1>1, <1>2, <1>4 DEF Latest
    <2> QED BY <2>1, <2>2
  <1> QED BY <1>3, <1>4 DEF t

(* A write that is served is what is there from then on. *)
LEMMA LatestServed ==
  ASSUME NEW s \in Seq(Call), s # <<>>, NEW d, NEW e, NEW o
  PROVE  /\ ~Writes(Head(s)) => (Latest(Tail(s), d, o) <=> Latest(s, d, o))
         /\ Writes(Head(s)) /\ e # <<>> /\ e[1] = Head(s).object
            => (Latest(Tail(s), e, o) <=> Latest(s, d, o))
  <1> DEFINE t == Tail(s)
             h == Head(s)
  <1>1. /\ 1 \in DOMAIN s /\ s[1] = h
        /\ DOMAIN s \subseteq Nat \ {0} /\ DOMAIN t \subseteq Nat \ {0}
        /\ \A i \in DOMAIN t : i + 1 \in DOMAIN s /\ t[i] = s[i + 1]
        /\ \A i \in DOMAIN s : i = 1 \/ (i > 1 /\ i - 1 \in DOMAIN t)
    OBVIOUS
  <1> HIDE DEF t, h
  <1>2. \A i \in DOMAIN s : i = 1 \/ (i > 1 /\ i - 1 \in DOMAIN t /\ t[i - 1] = s[i])
    BY <1>1
  <1>3. \A i, j \in DOMAIN s : i < j => j - 1 \in DOMAIN t /\ t[j - 1] = s[j] /\ i - 1 < j - 1
    BY <1>1, <1>2
  <1>4. \A i, j \in DOMAIN t : i < j => i + 1 < j + 1
    BY <1>1
  <1>5. (\A i \in DOMAIN s : ~Writes(s[i])) <=> ~Writes(h) /\ \A i \in DOMAIN t : ~Writes(t[i])
    BY <1>1, <1>2
  <1> DEFINE LastIn(x, i) == /\ Writes(x[i]) /\ x[i].object = o
                             /\ \A j \in DOMAIN x : i < j => ~Writes(x[j])
  <1>6. ASSUME NEW i \in DOMAIN t
        PROVE  LastIn(t, i) <=> LastIn(s, i + 1)
    <2>1. LastIn(t, i) => LastIn(s, i + 1)
      BY <1>1, <1>2, <1>6
    <2>2. LastIn(s, i + 1) => LastIn(t, i)
      BY <1>1, <1>4, <1>6
    <2> QED BY <2>1, <2>2
  <1>7. LastIn(s, 1) <=> Writes(h) /\ h.object = o /\ \A i \in DOMAIN t : ~Writes(t[i])
    <2>1. \A i \in DOMAIN t : 1 < i + 1
      BY <1>1
    <2> QED BY <1>1, <1>2, <2>1
  <1>8. (\E i \in DOMAIN s : LastIn(s, i)) <=> LastIn(s, 1) \/ \E i \in DOMAIN t : LastIn(t, i)
    <2>1. \A i \in DOMAIN s : i = 1 \/ (i - 1 \in DOMAIN t /\ (i - 1) + 1 = i)
      BY <1>1
    <2> HIDE DEF LastIn
    <2> QED BY <1>1, <1>6, <2>1
  <1>9. /\ Latest(s, d, o) <=> \/ \E i \in DOMAIN s : LastIn(s, i)
                               \/ (\A i \in DOMAIN s : ~Writes(s[i])) /\ d # <<>> /\ d[1] = o
        /\ Latest(t, d, o) <=> \/ \E i \in DOMAIN t : LastIn(t, i)
                               \/ (\A i \in DOMAIN t : ~Writes(t[i])) /\ d # <<>> /\ d[1] = o
        /\ Latest(t, e, o) <=> \/ \E i \in DOMAIN t : LastIn(t, i)
                               \/ (\A i \in DOMAIN t : ~Writes(t[i])) /\ e # <<>> /\ e[1] = o
    BY DEF Latest
  <1> HIDE DEF LastIn
  <1> QED BY <1>5, <1>7, <1>8, <1>9 DEF t, h

(* Messages that are voided, or learn that they are behind, say the same   *)
(* of the device policy.                                                   *)
SameRead(s, t) ==
  /\ DOMAIN t = DOMAIN s
  /\ \A i \in DOMAIN s :
       \/ t[i] = s[i] \/ t[i].kind = "void"
       \/ t[i].kind = s[i].kind /\ s[i].kind = "policies" /\ t[i].policies = s[i].policies

LEMMA ReadKept ==
  ASSUME NEW s, NEW t, SameRead(s, t), NEW d, AllReadBack(s, d)
  PROVE  AllReadBack(t, d)
  BY DEF SameRead, AllReadBack, ReadBack

LEMMA MirroredKept ==
  ASSUME NEW m, NEW n, NEW d, NEW c, NEW k, Mirrored(m, d, c, k),
         SameWrites(m.calls, n.calls), SameRead(m.replies, n.replies),
         n.loaded => m.loaded /\ ObjectOf(n) = ObjectOf(m)
  PROVE  Mirrored(n, d, c, k)
  BY LatestKept, ReadKept DEF Mirrored

LEMMA MirroredSame ==
  ASSUME NEW m, NEW n, NEW d, NEW c, NEW k, Mirrored(m, d, c, k),
         n.calls = m.calls, n.replies = m.replies,
         n.loaded => m.loaded /\ ObjectOf(n) = ObjectOf(m)
  PROVE  Mirrored(n, d, c, k)
  BY DEF Mirrored

LEMMA MirroredSent ==
  ASSUME NEW m \in MemoryType, NEW x \in Call, ~Writes(x), NEW d, NEW c, NEW k,
         Mirrored(m, d, c, k)
  PROVE  Mirrored(Send(m, x), d, c, k)
  <1> DEFINE n == Send(m, x)
  <1>1. /\ m.calls \in Seq(Call) /\ n.calls = Append(m.calls, x)
        /\ n.replies = m.replies /\ n.loaded = m.loaded /\ ObjectOf(n) = ObjectOf(m)
    BY DEF Send, MemoryType, ObjectOf
  <1> HIDE DEF n
  <1>2. \A o : Latest(n.calls, d, o) <=> Latest(m.calls, d, o)
    BY <1>1, LatestSent
  <1>3. Mirrored(n, d, c, k)
    BY <1>1, <1>2 DEF Mirrored
  <1> QED BY <1>3 DEF n

LEMMA CancelMirrors ==
  ASSUME NEW m \in MemoryType
  PROVE  LET n == CancelWatch(m)
         IN  /\ SameWrites(m.calls, n.calls) /\ SameRead(m.replies, n.replies)
             /\ n.loaded = m.loaded /\ ObjectOf(n) = ObjectOf(m)
  <1> DEFINE n == CancelWatch(m)
  <1>1. CASE ~m.token
    BY <1>1 DEF CancelWatch, SameWrites, SameRead
  <1>2. CASE m.token
    <2>1. /\ n.calls = Void(m.calls, "watch") /\ n.replies = Void(m.replies, "fired")
          /\ n.loaded = m.loaded /\ ObjectOf(n) = ObjectOf(m)
      BY <1>2 DEF CancelWatch, MemoryType, ObjectOf
    <2> HIDE DEF n
    <2>2. SameWrites(m.calls, n.calls)
      BY <2>1 DEF SameWrites, Void, Writes
    <2>3. SameRead(m.replies, n.replies)
      BY <2>1 DEF SameRead, Void
    <2> QED BY <2>1, <2>2, <2>3 DEF n
  <1> QED BY <1>1, <1>2

(* What is saved is what is in the memory. *)
LEMMA SaveMirrors ==
  ASSUME NEW m \in MemoryType, NEW d, NEW c, NEW k,
         AllReadBack(m.replies, d), Upheld(ObjectOf(m), c, k)
  PROVE  Mirrored(Save(m), d, c, k)
  <1> DEFINE w == CancelWatch(m)
             x == [kind |-> "save", id |-> m.id, object |-> ObjectOf(m)]
             n == Send(w, x)
  <1>1. Save(m) = n
    BY DEF Save, ObjectOf
  <1>2. x \in Call /\ Writes(x) /\ x.object = ObjectOf(m)
    BY DEF Call, DevicePolicy, MemoryType, ObjectOf, Writes
  <1>3. w \in MemoryType /\ SameRead(m.replies, w.replies) /\ ObjectOf(w) = ObjectOf(m)
    BY CancelWatchType, CancelMirrors
  <1> HIDE DEF w, x
  <1>4. /\ w.calls \in Seq(Call) /\ n.calls = Append(w.calls, x)
        /\ n.replies = w.replies /\ ObjectOf(n) = ObjectOf(w)
    BY <1>3 DEF Send, MemoryType, ObjectOf
  <1> HIDE DEF n
  <1>5. \A o : Latest(n.calls, d, o) <=> o = ObjectOf(m)
    BY <1>2, <1>4, LatestSent
  <1>6. AllReadBack(n.replies, d)
    BY <1>3, <1>4, ReadKept
  <1> QED BY <1>1, <1>3, <1>4, <1>5, <1>6 DEF Mirrored

LEMMA WatchMirrors ==
  ASSUME NEW m \in MemoryType, NEW d, NEW c, NEW k, Mirrored(m, d, c, k)
  PROVE  Mirrored(WatchSecurityPolicies(m), d, c, k)
  <1> DEFINE x == [kind |-> "watch", behind |-> m.behind]
             w == CancelWatch(m)
             o == Send(w, x)
             n == WatchSecurityPolicies(m)
  <1>1. x \in Call /\ ~Writes(x)
    BY DEF Call, MemoryType, Writes
  <1>2. w \in MemoryType /\ Mirrored(w, d, c, k)
    BY CancelWatchType, CancelMirrors, MirroredKept
  <1>3. n = [o EXCEPT !.token = TRUE]
    BY DEF WatchSecurityPolicies
  <1> HIDE DEF w, x
  <1>4. o \in MemoryType /\ Mirrored(o, d, c, k)
    BY <1>1, <1>2, SendType, MirroredSent
  <1> HIDE DEF o
  <1>5. /\ n.calls = o.calls /\ n.replies = o.replies /\ n.loaded = o.loaded
        /\ ObjectOf(n) = ObjectOf(o)
    BY <1>3, <1>4 DEF MemoryType, ObjectOf
  <1> HIDE DEF n
  <1>6. Mirrored(n, d, c, k)
    BY <1>4, <1>5, MirroredSame
  <1> QED BY <1>6 DEF n

LEMMA QueryMirrors ==
  ASSUME NEW m \in MemoryType, NEW d, NEW c, NEW k, Mirrored(m, d, c, k)
  PROVE  /\ Mirrored(QueryDevicePolicy(m), d, c, k)
         /\ Mirrored(QuerySecurityPolicies(m), d, c, k)
  <1>1. /\ [kind |-> "findDevice"] \in Call /\ ~Writes([kind |-> "findDevice"])
        /\ [kind |-> "find"] \in Call /\ ~Writes([kind |-> "find"])
    BY DEF Call, Writes
  <1> QED BY <1>1, MirroredSent DEF QueryDevicePolicy, QuerySecurityPolicies

LEMMA SlotMirrors ==
  ASSUME NEW m \in MemoryType
  PROVE  LET n == SlotPolicyChanged(m)
         IN  /\ n \in MemoryType /\ n.calls = m.calls /\ n.replies = m.replies
             /\ n.loaded = m.loaded /\ ObjectOf(n) = ObjectOf(m)
  BY SlotType DEF SlotPolicyChanged, MemoryType, ObjectOf

(* A changed policy is enforced at once only if it asks for no passcode,   *)
(* for the one that is stored cannot be tested.                            *)
LEMMA NotifyMirrors ==
  ASSUME NEW m \in MemoryType, NEW d, NEW c, NEW k,
         AllReadBack(m.replies, d), Told(m.aggregate)
  PROVE  Mirrored(NotifyPolicyChanged(m), d, c, k)
  <1> DEFINE n == [m EXCEPT !.isEnforced = PasscodeSatisfiesPolicy(m.aggregate)]
             o == SlotPolicyChanged(n)
  <1>1. PasscodeSatisfiesPolicy(m.aggregate) = ~m.aggregate.passwordRequired
    BY DEF PasscodeSatisfiesPolicy, DecryptedPasscode, MemoryType, Policy
  <1>2. /\ n \in MemoryType /\ n.replies = m.replies /\ n.aggregate = m.aggregate
        /\ n.isEnforced => ~n.aggregate.passwordRequired
    BY <1>1 DEF MemoryType, Policy
  <1>3. NotifyPolicyChanged(m) = Save(o)
    BY DEF NotifyPolicyChanged
  <1> HIDE DEF n
  <1>4. Upheld(ObjectOf(n), c, k)
    BY <1>2 DEF Upheld, ObjectOf, ValidMaxRetries
  <1>5. o \in MemoryType /\ o.replies = n.replies /\ ObjectOf(o) = ObjectOf(n)
    BY <1>2, SlotMirrors
  <1> HIDE DEF o
  <1> QED BY <1>2, <1>3, <1>4, <1>5, SaveMirrors

LEMMA AggregateTold ==
  ASSUME NEW policies \in Seq(Policy \cup {NoPolicy}),
         \A i \in DOMAIN policies : policies[i] # NoPolicy => Told(policies[i])
  PROVE  Told(Aggregate(policies))
  <1>1. 0 <= MaxTries
    BY SecurityAssumption DEF SecurityAssumption
  <1>2. \/ Aggregate(policies).maxRetries = 0
        \/ \E i \in DOMAIN policies :
             policies[i] # NoPolicy /\ policies[i].maxRetries = Aggregate(policies).maxRetries
    BY AggregateRetries
  <1> QED BY <1>1, <1>2 DEF Told

LEMMA UpdateMirrors ==
  ASSUME NEW m \in MemoryType, NEW policies \in Seq(Policy \cup {NoPolicy}),
         NEW behind \in BOOLEAN, NEW d, NEW c, NEW k, Mirrored(m, d, c, k),
         \A i \in DOMAIN policies : policies[i] # NoPolicy => Told(policies[i])
  PROVE  Mirrored(UpdateDevicePolicy(m, policies, behind), d, c, k)
  <1> DEFINE a == Aggregate(policies)
             n == [m EXCEPT !.aggregate = a,
                            !.behind = behind,
                            !.retriesLeft = IF a.maxRetries # m.aggregate.maxRetries
                                              THEN a.maxRetries ELSE @]
  <1>1. a \in Policy /\ Told(a)
    BY AggregateType, AggregateTold
  <1>2. UpdateDevicePolicy(m, policies, behind) =
          IF a = m.aggregate THEN WatchSecurityPolicies(n) ELSE NotifyPolicyChanged(n)
    BY DEF UpdateDevicePolicy
  <1> HIDE DEF a
  <1>3. /\ n \in MemoryType /\ n.calls = m.calls /\ n.replies = m.replies
        /\ n.loaded = m.loaded /\ n.aggregate = a
        /\ a = m.aggregate => ObjectOf(n) = ObjectOf(m)
    BY <1>1 DEF MemoryType, Policy, ObjectOf
  <1> HIDE DEF n
  <1>4. CASE a = m.aggregate
    <2>1. Mirrored(n, d, c, k)
      BY <1>3, <1>4, MirroredSame
    <2> QED BY <1>2, <1>3, <1>4, <2>1, WatchMirrors
  <1>5. CASE a # m.aggregate
    BY <1>1, <1>2, <1>3, <1>5, NotifyMirrors DEF Mirrored
  <1> QED BY <1>4, <1>5

(* A reply is received, or given. *)
LEMMA ReceivedMirrors ==
  ASSUME pm \in MemoryType, pm.replies # <<>>, NEW d, NEW c, NEW k, Mirrored(pm, d, c, k)
  PROVE  Mirrored(Received, d, c, k) /\ ReadBack(Head(pm.replies), d)
  <1>1. /\ pm.replies \in Seq(ReplyMessage) /\ Received.replies = Tail(pm.replies)
        /\ Received.calls = pm.calls /\ Received.loaded = pm.loaded
        /\ ObjectOf(Received) = ObjectOf(pm)
    BY DEF MemoryType, Received, ObjectOf
  <1>2. /\ 1 \in DOMAIN pm.replies /\ Head(pm.replies) = pm.replies[1]
        /\ \A i \in DOMAIN Tail(pm.replies) :
             i + 1 \in DOMAIN pm.replies /\ Tail(pm.replies)[i] = pm.replies[i + 1]
    BY <1>1
  <1>3. AllReadBack(pm.replies, d)
    BY DEF Mirrored
  <1>4. AllReadBack(Received.replies, d) /\ ReadBack(Head(pm.replies), d)
    BY <1>1, <1>2, <1>3 DEF AllReadBack
  <1> QED BY <1>1, <1>4 DEF Mirrored

LEMMA RepliedMirrors ==
  ASSUME NEW m \in MemoryType, NEW r \in ReplyMessage, NEW d, NEW c, NEW k,
         Mirrored(m, d, c, k), ReadBack(r, d)
  PROVE  Mirrored(Replied(m, r), d, c, k)
  <1> DEFINE n == Replied(m, r)
  <1>1. /\ m.replies \in Seq(ReplyMessage) /\ n.replies = Append(m.replies, r)
        /\ n.calls = m.calls /\ n.loaded = m.loaded /\ ObjectOf(n) = ObjectOf(m)
    BY DEF MemoryType, Replied, ObjectOf
  <1>2. \A i \in DOMAIN Append(m.replies, r) :
          Append(m.replies, r)[i] = r \/ (i \in DOMAIN m.replies /\ Append(m.replies, r)[i] = m.replies[i])
    BY <1>1
  <1> HIDE DEF n
  <1>3. AllReadBack(n.replies, d)
    BY <1>1, <1>2 DEF AllReadBack, Mirrored
  <1>4. Mirrored(n, d, c, k)
    BY <1>1, <1>3 DEF Mirrored
  <1> QED BY <1>4 DEF n

LEMMA DefaultTold == DefaultPolicy \in Policy /\ Told(DefaultPolicy)
  BY SecurityAssumption DEF SecurityAssumption, Told, DefaultPolicy, Policy

LEMMA CallbacksMirror ==
  ASSUME TypeInv, PutInv(pm, devices), MirrorInv, Callbacks
  PROVE  Mirrored(pm', devices, stored, tries)
  <1> DEFINE r == Head(pm.replies)
             d == devices
             Good(m) == Mirrored(m, d, stored, tries)
  <1>1. pm \in MemoryType /\ written \in BOOLEAN /\ pm.replies # <<>>
    BY DEF TypeInv, DeviceTypeOK, Callbacks, CbTempPoliciesDeleted, CbDevicePolicy,
           CbSecurityPolicy, CbDevicePolicySaved, CbWatchResponse, DropReply, Reply
  <1>2. Received \in MemoryType /\ r \in ReplyMessage
    BY <1>1, ReceivedType
  <1>3. Good(Received) /\ ReadBack(r, d)
    BY <1>1, ReceivedMirrors DEF MirrorInv
  <1>4. CASE CbTempPoliciesDeleted
    BY <1>2, <1>3, <1>4, QueryMirrors DEF CbTempPoliciesDeleted
  <1>5. CASE CbDevicePolicy
    <2> DEFINE m == [Received EXCEPT !.loaded = TRUE]
    <2>1. Idle(Received) /\ r.kind = "device"
      BY <1>1, <1>5, ReceivedPut DEF CbDevicePolicy, Reply
    <2>2. r.found.id = 0 \/ r.found \in [id: Nat, object: DevicePolicy]
      BY <1>2, <2>1 DEF ReplyMessage, NoObject
    <2>3. m \in MemoryType /\ m.calls = Received.calls /\ m.replies = Received.replies
      BY <1>2 DEF MemoryType
    <2>4. pm' = QuerySecurityPolicies(IF r.found.id = 0 THEN SetDefaultPolicy(m)
                                                        ELSE SetDevicePolicy(m, r.found))
      BY <1>5 DEF CbDevicePolicy
    <2> HIDE DEF m
    <2>5. CASE r.found.id = 0
      <3> DEFINE n == [m EXCEPT !.aggregate = DefaultPolicy, !.id = 0, !.behind = written]
      <3>1. n \in MemoryType /\ n.replies = m.replies /\ n.aggregate = DefaultPolicy
        BY <1>1, <2>3, DefaultTold DEF MemoryType
      <3>2. SetDefaultPolicy(m) = NotifyPolicyChanged(n)
        BY DEF SetDefaultPolicy
      <3> HIDE DEF n
      <3>3. Good(NotifyPolicyChanged(n)) /\ NotifyPolicyChanged(n) \in MemoryType
        BY <1>3, <2>3, <3>1, DefaultTold, NotifyMirrors, NotifyType DEF Mirrored
      <3> QED BY <2>4, <2>5, <3>2, <3>3, QueryMirrors
    <2>6. CASE r.found.id # 0
      <3> DEFINE o == SetDevicePolicy(m, r.found)
      <3>1. r.found.object \in DevicePolicy /\ r.found.id \in Nat
        BY <2>2, <2>6
      <3>2. /\ o \in MemoryType /\ o.calls = Received.calls /\ o.replies = Received.replies
            /\ ObjectOf(o) = r.found.object
        BY <1>1, <2>3, <3>1 DEF SetDevicePolicy, MemoryType, DevicePolicy, ObjectOf
      <3> HIDE DEF o
      <3>3. \A i \in DOMAIN o.calls : ~Writes(o.calls[i])
        BY <2>1, <3>2 DEF Idle, Only, Writes
      <3>4. Latest(o.calls, d, ObjectOf(o))
        BY <1>3, <2>1, <2>6, <3>2, <3>3 DEF Latest, ReadBack
      <3>5. Good(o)
        BY <1>3, <3>2, <3>4 DEF Mirrored
      <3>6. pm' = QuerySecurityPolicies(o)
        BY <2>4, <2>6 DEF o
      <3> QED BY <3>2, <3>5, <3>6, QueryMirrors
    <2> QED BY <2>5, <2>6
  <1>6. CASE CbSecurityPolicy
    <2>1. r.policies \in Seq(Policy \cup {NoPolicy}) /\ r.behind \in BOOLEAN
          /\ r.kind = "policies"
      BY <1>2, <1>6 DEF CbSecurityPolicy, Reply, ReplyMessage
    <2>2. \A i \in DOMAIN r.policies : r.policies[i] # NoPolicy => Told(r.policies[i])
      BY <1>3, <2>1 DEF ReadBack
    <2>3. Good(UpdateDevicePolicy(Received, r.policies, r.behind))
      BY <1>2, <1>3, <2>1, <2>2, UpdateMirrors
    <2> QED BY <1>3, <1>6, <2>3 DEF CbSecurityPolicy
  <1>7. CASE CbDevicePolicySaved
    <2> DEFINE m == [Received EXCEPT !.id = IF r.id # 0 THEN r.id ELSE @]
    <2>1. r.id \in Nat
      BY <1>2, <1>7 DEF CbDevicePolicySaved, Reply, ReplyMessage
    <2>2. /\ m \in MemoryType /\ m.calls = Received.calls /\ m.replies = Received.replies
          /\ m.loaded = Received.loaded /\ ObjectOf(m) = ObjectOf(Received)
      BY <1>2, <2>1 DEF MemoryType, ObjectOf
    <2>3. pm' = WatchSecurityPolicies(m)
      BY <1>7 DEF CbDevicePolicySaved
    <2> HIDE DEF m
    <2>4. Good(m)
      BY <1>3, <2>2, MirroredSame
    <2> QED BY <2>2, <2>3, <2>4, WatchMirrors
  <1>8. CASE CbWatchResponse
    <2> DEFINE m == [Received EXCEPT !.token = FALSE]
    <2>1. /\ m \in MemoryType /\ m.calls = Received.calls /\ m.replies = Received.replies
          /\ m.loaded = Received.loaded /\ ObjectOf(m) = ObjectOf(Received)
          /\ pm' = QuerySecurityPolicies(m)
      BY <1>2, <1>8 DEF CbWatchResponse, MemoryType, ObjectOf
    <2> HIDE DEF m
    <2>2. Good(m)
      BY <1>3, <2>1, MirroredSame
    <2> QED BY <2>1, <2>2, QueryMirrors
  <1>9. CASE DropReply
    BY <1>3, <1>9 DEF DropReply
  <1> QED BY <1>4, <1>5, <1>6, <1>7, <1>8, <1>9 DEF Callbacks

LEMMA BehindMirrors ==
  ASSUME NEW m \in MemoryType, NEW d, NEW c, NEW k, Mirrored(m, d, c, k)
  PROVE  Mirrored(Behind(m), d, c, k)
  <1> DEFINE n == Behind(m)
  <1>1. m.calls \in Seq(Call) /\ m.replies \in Seq(ReplyMessage)
    BY DEF MemoryType
  <1>2. /\ n.loaded = m.loaded /\ ObjectOf(n) = ObjectOf(m)
        /\ n.calls = [i \in DOMAIN m.calls |->
                        IF m.calls[i].kind = "watch" THEN [m.calls[i] EXCEPT !.behind = TRUE]
                                                     ELSE m.calls[i]]
        /\ n.replies = [i \in DOMAIN m.replies |->
                          IF m.replies[i].kind = "policies"
                            THEN [m.replies[i] EXCEPT !.behind = TRUE]
                            ELSE m.replies[i]]
    BY DEF Behind, MemoryType, ObjectOf
  <1> HIDE DEF n
  <1>3. SameWrites(m.calls, n.calls)
    <2>1. ASSUME NEW i \in DOMAIN m.calls, m.calls[i].kind = "watch"
          PROVE  ~Writes(m.calls[i]) /\ ~Writes(n.calls[i])
      <3>1. m.calls[i] \in Call /\ n.calls[i] = [m.calls[i] EXCEPT !.behind = TRUE]
        BY <1>1, <1>2, <2>1
      <3> QED BY <2>1, <3>1 DEF Call, Writes
    <2>2. \A i \in DOMAIN m.calls : m.calls[i].kind # "watch" => n.calls[i] = m.calls[i]
      BY <1>2
    <2> QED BY <1>2, <2>1, <2>2 DEF SameWrites
  <1>4. SameRead(m.replies, n.replies)
    <2>1. ASSUME NEW i \in DOMAIN m.replies, m.replies[i].kind = "policies"
          PROVE  n.replies[i].kind = "policies" /\ n.replies[i].policies = m.replies[i].policies
      <3>1. m.replies[i] \in ReplyMessage /\ n.replies[i] = [m.replies[i] EXCEPT !.behind = TRUE]
        BY <1>1, <1>2, <2>1
      <3> QED BY <2>1, <3>1 DEF ReplyMessage
    <2>2. \A i \in DOMAIN m.replies : m.replies[i].kind # "policies" => n.replies[i] = m.replies[i]
      BY <1>2
    <2> QED BY <1>2, <2>1, <2>2 DEF SameRead
  <1>5. Mirrored(n, d, c, k)
    BY <1>2, <1>3, <1>4, MirroredKept
  <1> QED BY <1>5 DEF n

LEMMA ServedMirrors ==
  ASSUME pm \in MemoryType, pm.calls # <<>>, NEW d, NEW e, NEW c, NEW k,
         Mirrored(pm, d, c, k)
  PROVE  /\ ~Writes(Head(pm.calls)) => Mirrored(Served, d, c, k)
         /\ /\ Writes(Head(pm.calls)) /\ AllReadBack(pm.replies, e)
            /\ e # <<>> /\ e[1] = Head(pm.calls).object
            => Mirrored(Served, e, c, k)
  <1>1. /\ pm.calls \in Seq(Call) /\ Served.calls = Tail(pm.calls)
        /\ Served.replies = pm.replies /\ Served.loaded = pm.loaded
        /\ ObjectOf(Served) = ObjectOf(pm)
    BY DEF MemoryType, Served, ObjectOf
  <1>2. ASSUME ~Writes(Head(pm.calls))
        PROVE  \A o : Latest(Served.calls, d, o) <=> Latest(pm.calls, d, o)
    BY <1>1, <1>2, LatestServed
  <1>3. ASSUME Writes(Head(pm.calls)), e # <<>>, e[1] = Head(pm.calls).object
        PROVE  \A o : Latest(Served.calls, e, o) <=> Latest(pm.calls, d, o)
    BY <1>1, <1>3, LatestServed
  <1> QED BY <1>1, <1>2, <1>3 DEF Mirrored

(* While something is written, nobody is reading the device policy. *)
LEMMA NotReadWhileWritten ==
  ASSUME pm \in MemoryType, pm.calls # <<>>, Writes(Head(pm.calls)),
         NEW d, PutInv(pm, d), NEW e, AllReadBack(pm.replies, d)
  PROVE  AllReadBack(pm.replies, e)
  <1>1. pm.calls[1] = Head(pm.calls) /\ 1 \in DOMAIN pm.calls
    BY DEF MemoryType
  <1>2. \A K : Only(pm.calls, K) => Head(pm.calls).kind \in K
    BY <1>1 DEF Only
  <1>3. ~Erased(pm) /\ ~Seeking(pm) /\ ~Sought(pm)
    BY <1>2 DEF Erased, Seeking, Sought, Writes
  <1>4. \A i \in DOMAIN pm.replies : pm.replies[i].kind # "device"
    BY <1>3 DEF PutInv, Going, Starting, Erasing, Loaded, Only
  <1> QED BY <1>4 DEF AllReadBack, ReadBack

LEMMA DatabaseMirrors ==
  ASSUME TypeInv, OnlyOne, MirrorInv, Database,
         "save" \notin Refusable, "findDevice" \notin Refusable
  PROVE  MirrorInv'
  <1> DEFINE h == Head(pm.calls)
             d == devices
             Good(m) == Mirrored(m, d, stored, tries)
  <1>1. /\ pm \in MemoryType /\ up \in BOOLEAN /\ d \in Seq(DevicePolicy)
        /\ pm.calls \in Seq(Call) /\ Good(pm) /\ PutInv(pm, d) /\ Placed(pm, d)
        /\ AllReadBack(pm.replies, d)
    BY DEF TypeInv, DeviceTypeOK, MemoryType, MirrorInv, OnlyOne, PutInv, Going, Mirrored
  <1>2. stored' = stored /\ tries' = tries
    BY DEF Database, program, ServeDel, ServeFindDevice, ServeFind, ServeSave,
           RefuseSave, ServeWatch, RefuseWatch, DropCall, FireWatch
  <1>3. ASSUME pm.calls # <<>>
        PROVE  /\ Served \in MemoryType /\ Behind(Served) \in MemoryType /\ h \in Call
               /\ ~Writes(h) => Good(Served) /\ Good(Behind(Served))
    BY <1>1, <1>3, ServedType, BehindType, ServedMirrors, BehindMirrors
  <1>4. ASSUME NEW m \in MemoryType, NEW r \in ReplyMessage, Good(m), ReadBack(r, d),
               pm' = Replied(m, r), d' = d
        PROVE  MirrorInv'
    BY <1>2, <1>4, RepliedMirrors DEF MirrorInv
  <1>5. CASE ServeDel
    <2> DEFINE r == [kind |-> "deleted"]
    <2>1. /\ pm.calls # <<>> /\ ~Writes(h) /\ d' = d
          /\ pm' = Replied(Behind(Served), r) \/ pm' = Replied(Served, r)
      BY <1>5 DEF ServeDel, Serves, Writes
    <2>2. r \in ReplyMessage /\ ReadBack(r, d)
      BY DEF ReplyMessage, ReadBack
    <2> HIDE DEF r, h
    <2> QED BY <1>3, <1>4, <2>1, <2>2
  <1>6. CASE ServeFindDevice
    <2>1. PICK found \in {[id |-> i, object |-> devices[i]] : i \in DOMAIN devices}
                           \cup {NoObject} :
            pm' = Replied(Served, [kind |-> "device", found |-> found])
      BY <1>6 DEF ServeFindDevice
    <2> DEFINE r == [kind |-> "device", found |-> found]
    <2>2. pm.calls # <<>> /\ ~Writes(h) /\ d' = d
      BY <1>6 DEF ServeFindDevice, Serves, Writes
    <2>3. r \in ReplyMessage /\ ReadBack(r, d)
      <3>1. CASE found = NoObject
        BY <3>1 DEF NoObject, ReplyMessage, ReadBack
      <3>2. CASE found # NoObject
        <4>1. PICK i \in DOMAIN d : found = [id |-> i, object |-> d[i]]
          BY <2>1, <3>2
        <4>2. Len(d) <= 1
          BY <1>1 DEF Placed
        <4>3. i = 1 /\ i \in Nat /\ d[i] \in DevicePolicy /\ d # <<>>
          BY <1>1, <4>1, <4>2
        <4> QED BY <4>1, <4>3 DEF ReplyMessage, ReadBack
      <3> QED BY <3>1, <3>2
    <2>4. pm' = Replied(Served, r)
      BY <2>1
    <2> HIDE DEF r, h
    <2> QED BY <1>3, <1>4, <2>2, <2>3, <2>4
  <1>7. CASE ServeFind
    <2>1. PICK ok \in BOOLEAN :
            pm' = Replied(Served, [kind |-> "policies", ok |-> ok,
                                   policies |-> IF ok THEN slots ELSE <<>>,
                                   behind |-> FALSE])
      BY <1>7 DEF ServeFind
    <2> DEFINE p == IF ok THEN slots ELSE <<>>
               r == [kind |-> "policies", ok |-> ok, policies |-> p, behind |-> FALSE]
    <2>2. slots \in Seq(Policy \cup {NoPolicy})
      BY SecurityAssumption, SeqOf DEF SecurityAssumption, Accounts, TypeInv
    <2>3. \A a \in DOMAIN slots : slots[a] # NoPolicy => Told(slots[a])
      BY DEF TypeInv, DeviceTypeOK, Told, TriesTold
    <2>4. /\ p \in Seq(Policy \cup {NoPolicy})
          /\ \A i \in DOMAIN p : p[i] # NoPolicy => Told(p[i])
      <3>1. CASE ok
        BY <2>2, <2>3, <3>1
      <3>2. CASE ~ok
        BY <3>2
      <3> QED BY <3>1, <3>2
    <2>5. pm' = Replied(Served, r)
      BY <2>1
    <2> HIDE DEF p
    <2>6. r \in ReplyMessage /\ ReadBack(r, d)
      BY <2>4 DEF ReplyMessage, ReadBack
    <2>7. pm.calls # <<>> /\ ~Writes(h) /\ d' = d
      BY <1>7 DEF ServeFind, Serves, Writes
    <2> HIDE DEF r, h
    <2> QED BY <1>3, <1>4, <2>5, <2>6, <2>7
  <1>8. CASE ServeSave
    <2> DEFINE id == IF h.id = 0 THEN Len(d) + 1 ELSE h.id
               e == d'
               r == [kind |-> "saved", id |-> id]
    <2>1. /\ pm.calls # <<>> /\ Writes(h)
          /\ pm' = Saved(Behind(Served), id)
          /\ e = IF h.id = 0 THEN Append(d, h.object) ELSE [d EXCEPT ![id] = h.object]
      BY <1>8 DEF ServeSave, Serves, Writes
    <2>2. h.id = Len(d) /\ Len(d) <= 1 /\ Len(d) \in Nat /\ id \in Nat
      <3>1. pm.calls[1] = h /\ 1 \in DOMAIN pm.calls
        BY <1>1, <2>1
      <3> QED BY <1>1, <2>1, <3>1 DEF Placed, CallsPlaced
    <2>3. e # <<>> /\ e[1] = h.object
      <3>1. CASE h.id = 0
        BY <1>1, <2>1, <2>2, <3>1
      <3>2. CASE h.id # 0
        <4>1. h.id = 1 /\ id = 1 /\ 1 \in DOMAIN d
          BY <1>1, <2>2, <3>2
        <4>2. e = [d EXCEPT ![1] = h.object]
          BY <2>1, <3>2, <4>1
        <4>3. DOMAIN e = DOMAIN d /\ e[1] = h.object
          BY <4>1, <4>2
        <4>4. e # <<>>
          BY <4>1, <4>3
        <4> QED BY <4>3, <4>4
      <3> QED BY <3>1, <3>2
    <2> HIDE DEF id, e, h
    <2>4. AllReadBack(pm.replies, e)
      BY <1>1, <2>1, NotReadWhileWritten DEF h
    <2>5. Mirrored(Served, e, stored, tries)
      BY <1>1, <2>1, <2>3, <2>4, ServedMirrors DEF h
    <2>6. Mirrored(Behind(Served), e, stored, tries)
      BY <1>3, <2>1, <2>5, BehindMirrors
    <2>7. r \in ReplyMessage /\ ReadBack(r, e)
      BY <2>2 DEF ReplyMessage, ReadBack
    <2>8. pm' = Replied(Behind(Served), r) \/ pm' = Behind(Served)
      BY <2>1 DEF Saved
    <2> HIDE DEF r
    <2>9. Mirrored(pm', e, stored, tries)
      BY <1>3, <2>1, <2>6, <2>7, <2>8, RepliedMirrors
    <2> QED BY <1>2, <2>9 DEF MirrorInv, e
  <1>9. ~RefuseSave
    BY DEF RefuseSave
  <1>10. CASE ServeWatch \/ RefuseWatch \/ DropCall
    <2>1. /\ pm.calls # <<>> /\ ~Writes(h) /\ d' = d
          /\ \/ pm' = Served
             \/ pm' = [Served EXCEPT !.watch = IF h.behind THEN "behind" ELSE "set"]
      BY <1>10 DEF ServeWatch, RefuseWatch, DropCall, Serves, Writes
    <2>2. Good(Served) /\ Served \in MemoryType
      BY <1>3, <2>1
    <2>3. /\ pm'.calls = Served.calls /\ pm'.replies = Served.replies
          /\ pm'.loaded = Served.loaded /\ ObjectOf(pm') = ObjectOf(Served)
      BY <2>1, <2>2 DEF MemoryType, ObjectOf
    <2>4. Good(pm')
      BY <2>2, <2>3, MirroredSame
    <2> QED BY <1>2, <2>1, <2>4 DEF MirrorInv
  <1>11. CASE FireWatch
    <2> DEFINE r == [kind |-> "fired"]
               m == [pm EXCEPT !.watch = "none"]
    <2>1. r \in ReplyMessage /\ ReadBack(r, d)
      BY DEF ReplyMessage, ReadBack
    <2>2. pm' = Replied(m, r) /\ d' = d
      BY <1>11 DEF FireWatch
    <2>3. /\ m \in MemoryType /\ m.calls = pm.calls /\ m.replies = pm.replies
          /\ m.loaded = pm.loaded /\ ObjectOf(m) = ObjectOf(pm)
      BY <1>1 DEF MemoryType, ObjectOf
    <2> HIDE DEF m, r
    <2>4. Good(m)
      BY <1>1, <2>3, MirroredSame
    <2> QED BY <1>4, <2>1, <2>2, <2>3, <2>4
  <1> QED
    BY <1>5, <1>6, <1>7, <1>8, <1>9, <1>10, <1>11 DEF Database

-----------------------------------------------------------------------------
(* Once the program has loaded the device policy, that is the one there is. *)
LEMMA LoadedUpheld ==
  ASSUME NEW m \in MemoryType, m.loaded, NEW d, NEW c, NEW k, Mirrored(m, d, c, k)
  PROVE  /\ Upheld(ObjectOf(m), c, k)
         /\ \A x, n : Upheld(ObjectOf(m), x, n) => Mirrored(m, d, x, n)
  <1>1. m.calls \in Seq(Call) /\ Latest(m.calls, d, ObjectOf(m))
    BY DEF MemoryType, Mirrored
  <1>2. \A o : Latest(m.calls, d, o) => o = ObjectOf(m)
    BY <1>1, LatestIsOne
  <1> QED BY <1>1, <1>2 DEF Mirrored

(* A passcode that is accepted satisfies the policy, and a file without    *)
(* one is not accepted where a passcode is required.                       *)
LEMMA FileFits ==
  ASSUME NEW c \in Passcodes \cup {NoPasscode}, NEW x \in DiskFails \cup {"no"},
         "write" \notin DiskFails, pm.aggregate.passwordRequired,
         Replaced(c, x) \/ FileAfter(c, x) # stored
  PROVE  FileAfter(c, x) \in Passcodes /\ Satisfies(FileAfter(c, x), pm.aggregate)
  <1>1. x # "write"
    OBVIOUS
  <1>2. ~Invalid(c) /\ x \notin {"creat", "rename"}
    BY DEF Replaced, FileAfter
  <1>3. c.mode # "none" /\ Satisfies(c, pm.aggregate)
    BY <1>2 DEF Invalid, Satisfies
  <1>4. c.mode \in StoredModes
    BY <1>2, <1>3 DEF Replaced, FileAfter
  <1>5. FileAfter(c, x) = c
    BY <1>1, <1>2, <1>3, <1>4 DEF FileAfter
  <1>6. c \in Passcodes
    BY <1>3 DEF NoPasscode
  <1> QED BY <1>3, <1>5, <1>6

LEMMA SetPasscodeMirrors ==
  ASSUME TypeInv, MirrorInv, ~Hasty, NEW c \in Passcodes \cup {NoPasscode},
         NEW x \in DiskFails \cup {"no"}, SetPasscode(c, x)
  PROVE  MirrorInv'
  <1> DEFINE d == devices
  <1>1. /\ pm \in MemoryType /\ pm.loaded /\ Mirrored(pm, d, stored, tries)
        /\ d' = d /\ stored' = FileAfter(c, x)
    BY DEF TypeInv, DeviceTypeOK, SetPasscode, ClientCalls, MirrorInv
  <1>2. Upheld(ObjectOf(pm), stored, tries)
    BY <1>1, LoadedUpheld
  <1>3. ASSUME "write" \notin DiskFails, pm.aggregate.passwordRequired,
               Replaced(c, x) \/ stored' # stored
        PROVE  stored' \in Passcodes /\ Satisfies(stored', pm.aggregate)
    BY <1>1, <1>3, FileFits
  <1>4. CASE Replaced(c, x) /\ PolicyPending(pm)
    <2> DEFINE n == [pm EXCEPT !.isEnforced = TRUE, !.retriesLeft = pm.aggregate.maxRetries]
               o == SlotPolicyChanged(n)
    <2>1. pm' = Save(o) /\ tries' = 0
      BY <1>4 DEF SetPasscode, PasswordEnforced
    <2>2. /\ n \in MemoryType /\ n.replies = pm.replies
          /\ ObjectOf(n) = [policy |-> pm.aggregate, enforced |-> TRUE,
                            retries |-> pm.aggregate.maxRetries]
      BY <1>1 DEF MemoryType, Policy, ObjectOf
    <2>3. pm.aggregate.maxRetries \in Nat
      BY <1>1 DEF MemoryType, Policy
    <2> HIDE DEF n
    <2>4. Upheld(ObjectOf(n), stored', 0)
      <3>1. Told(pm.aggregate)
        BY <1>2 DEF Upheld, ObjectOf
      <3>2. ValidMaxRetries(pm.aggregate)
            => pm.aggregate.maxRetries = IF 0 < pm.aggregate.maxRetries
                                           THEN pm.aggregate.maxRetries - 0 ELSE 0
        BY <2>3
      <3> QED BY <1>3, <1>4, <2>2, <3>1, <3>2 DEF Upheld
    <2>5. o \in MemoryType /\ o.replies = n.replies /\ ObjectOf(o) = ObjectOf(n)
      BY <2>2, SlotMirrors
    <2> HIDE DEF o
    <2>6. AllReadBack(o.replies, d)
      BY <1>1, <2>2, <2>5 DEF Mirrored
    <2>7. Mirrored(pm', d, stored', tries')
      BY <2>1, <2>4, <2>5, <2>6, SaveMirrors
    <2> QED BY <1>1, <2>7 DEF MirrorInv
  <1>5. CASE ~(Replaced(c, x) /\ PolicyPending(pm))
    <2>1. pm' = pm /\ tries' = tries
      BY <1>5 DEF SetPasscode, PasswordEnforced
    <2>2. Upheld(ObjectOf(pm), stored', tries)
      BY <1>2, <1>3 DEF Upheld, ObjectOf
    <2>3. Mirrored(pm, d, stored', tries)
      BY <1>1, <2>2, LoadedUpheld
    <2> QED BY <1>1, <2>1, <2>3 DEF MirrorInv
  <1> QED BY <1>4, <1>5

LEMMA WrongCounted ==
  ASSUME NEW a \in Nat, NEW n \in 0 .. MaxTries, NEW r, a <= MaxTries,
         r = IF n < a THEN a - n ELSE 0
  PROVE  LET k == IF n < MaxTries THEN n + 1 ELSE n
         IN  (IF r > 0 THEN r - 1 ELSE r) = IF k < a THEN a - k ELSE 0
  <1>1. MaxTries \in Nat
    BY SecurityAssumption DEF SecurityAssumption
  <1> QED BY <1>1

LEMMA MatchMirrors ==
  ASSUME TypeInv, MirrorInv, ~Hasty, MatchWrong \/ MatchRight
  PROVE  MirrorInv'
  <1> DEFINE d == devices
             Like(m) == /\ m \in MemoryType /\ m.calls = pm.calls /\ m.replies = pm.replies
                        /\ m.loaded = pm.loaded /\ ObjectOf(m) = ObjectOf(pm)
  <1>1. /\ pm \in MemoryType /\ pm.loaded /\ Mirrored(pm, d, stored, tries)
        /\ d' = d /\ stored' = stored /\ tries \in 0 .. MaxTries
    BY DEF TypeInv, DeviceTypeOK, MatchWrong, MatchRight, ClientCalls, MirrorInv
  <1>2. Upheld(ObjectOf(pm), stored, tries)
    BY <1>1, LoadedUpheld
  <1>3. ASSUME NEW m, Like(m), ~CountsRetries(m), NEW n
        PROVE  Mirrored(m, d, stored, n)
    <2>1. Mirrored(m, d, stored, tries)
      BY <1>1, <1>3, MirroredSame
    <2>2. Upheld(ObjectOf(m), stored, n)
      BY <1>2, <1>3 DEF Upheld, ObjectOf, CountsRetries, PolicyPending
    <2> QED BY <1>1, <1>3, <2>1, <2>2, LoadedUpheld
  <1>4. ASSUME NEW m, Like(m), NEW r \in Nat, NEW n,
               TriesTold /\ m.isEnforced /\ ValidMaxRetries(m.aggregate)
               => r = IF n < m.aggregate.maxRetries THEN m.aggregate.maxRetries - n ELSE 0
        PROVE  LET s == Save([m EXCEPT !.retriesLeft = r])
               IN  s \in MemoryType /\ Mirrored(s, d, stored, n)
    <2> DEFINE q == [m EXCEPT !.retriesLeft = r]
    <2>1. /\ q \in MemoryType /\ q.replies = pm.replies
          /\ ObjectOf(q) = [policy |-> m.aggregate, enforced |-> m.isEnforced, retries |-> r]
      BY <1>4 DEF MemoryType, ObjectOf
    <2> HIDE DEF q
    <2>2. m.aggregate = pm.aggregate /\ m.isEnforced = pm.isEnforced
      BY <1>4 DEF ObjectOf
    <2>3. Upheld(ObjectOf(q), stored, n)
      BY <1>2, <1>4, <2>1, <2>2 DEF Upheld, ObjectOf
    <2>4. AllReadBack(q.replies, d)
      BY <1>1, <2>1 DEF Mirrored
    <2> QED BY <2>1, <2>3, <2>4, SaveMirrors, SaveType DEF q
  <1>5. Like(Attempt)
    BY <1>1 DEF MemoryType, Attempt, DefaultMaxRetries, ObjectOf
  <1>6. CASE MatchWrong
    <2> DEFINE m == [Attempt EXCEPT !.numRetries = IF @ > 0 THEN @ - 1 ELSE @,
                                    !.lastFailure = "recent"]
               n == DecrementRetries(m)
               o == [n EXCEPT !.numRetries = n.retriesLeft,
                              !.wiping = @ \/ n.retriesLeft = 0]
               r == IF m.retriesLeft > 0 THEN m.retriesLeft - 1 ELSE m.retriesLeft
    <2>1. (IF Attempt.numRetries > 0 THEN Attempt.numRetries - 1
                                     ELSE Attempt.numRetries) \in Nat
      BY <1>5 DEF MemoryType
    <2>2. Like(m)
      BY <1>5, <2>1 DEF MemoryType, ObjectOf
    <2>3. /\ pm' = (IF CountsRetries(m) THEN o ELSE m)
          /\ tries' = IF tries < MaxTries THEN tries + 1 ELSE tries
      BY <1>6 DEF MatchWrong
    <2> HIDE DEF m
    <2>4. m.retriesLeft \in Nat /\ r \in Nat /\ m.aggregate.maxRetries \in Nat
      BY <2>2 DEF MemoryType, Policy
    <2>5. n = Save([m EXCEPT !.retriesLeft = r])
      BY DEF DecrementRetries
    <2>6. ASSUME TriesTold, m.isEnforced, ValidMaxRetries(m.aggregate)
          PROVE  r = IF tries' < m.aggregate.maxRetries
                       THEN m.aggregate.maxRetries - tries' ELSE 0
      <3>1. /\ m.aggregate.maxRetries <= MaxTries
            /\ m.retriesLeft = IF tries < m.aggregate.maxRetries
                                 THEN m.aggregate.maxRetries - tries ELSE 0
        BY <1>2, <2>2, <2>6 DEF Upheld, ObjectOf, Told
      <3> QED BY <1>1, <2>3, <2>4, <3>1, WrongCounted
    <2> HIDE DEF r, n
    <2>7. n \in MemoryType /\ Mirrored(n, d, stored, tries')
      BY <1>4, <2>2, <2>4, <2>5, <2>6
    <2>8. /\ o.calls = n.calls /\ o.replies = n.replies /\ o.loaded = n.loaded
          /\ ObjectOf(o) = ObjectOf(n)
      BY <2>7 DEF MemoryType, ObjectOf
    <2> HIDE DEF o
    <2>9. Mirrored(o, d, stored, tries')
      BY <2>7, <2>8, MirroredSame
    <2> QED BY <1>1, <1>3, <2>2, <2>3, <2>9 DEF MirrorInv
  <1>7. CASE MatchRight
    <2> DEFINE n == ResetRetries(Attempt)
               o == [n EXCEPT !.numRetries = n.retriesLeft]
               q == [Attempt EXCEPT !.numRetries =
                       IF PolicyPending(pm) THEN DefaultMaxRetries ELSE 0]
    <2>1. pm' = (IF CountsRetries(pm) THEN o ELSE q) /\ tries' = 0
      BY <1>7 DEF MatchRight
    <2>2. Attempt.aggregate.maxRetries \in Nat
      BY <1>5 DEF MemoryType, Policy
    <2>3. n = Save([Attempt EXCEPT !.retriesLeft = Attempt.aggregate.maxRetries])
      BY DEF ResetRetries
    <2>4. ValidMaxRetries(Attempt.aggregate)
          => Attempt.aggregate.maxRetries =
               IF 0 < Attempt.aggregate.maxRetries THEN Attempt.aggregate.maxRetries - 0 ELSE 0
      BY <2>2
    <2>5. Like(q) /\ (CountsRetries(q) <=> CountsRetries(pm))
      BY <1>1, <1>5 DEF MemoryType, ObjectOf, DefaultMaxRetries, CountsRetries, PolicyPending
    <2> HIDE DEF n, q
    <2>6. n \in MemoryType /\ Mirrored(n, d, stored, 0)
      BY <1>4, <1>5, <2>2, <2>3, <2>4
    <2>7. /\ o.calls = n.calls /\ o.replies = n.replies /\ o.loaded = n.loaded
          /\ ObjectOf(o) = ObjectOf(n)
      BY <2>6 DEF MemoryType, ObjectOf
    <2> HIDE DEF o
    <2>8. Mirrored(o, d, stored, 0)
      BY <2>6, <2>7, MirroredSame
    <2>9. ~CountsRetries(pm) => Mirrored(q, d, stored, 0)
      BY <1>3, <2>5
    <2>10. Mirrored(pm', d, stored, 0)
      BY <2>1, <2>8, <2>9
    <2> QED BY <1>1, <2>1, <2>10 DEF MirrorInv
  <1> QED BY <1>6, <1>7

LEMMA InitMirrors == Init => MirrorInv
  <1> SUFFICES ASSUME Init
               PROVE  MirrorInv
    OBVIOUS
  <1>1. pm.calls = <<>> /\ pm.replies = <<>> /\ ~pm.loaded /\ devices = <<>>
    BY DEF Init, Memory
  <1> QED BY <1>1 DEF MirrorInv, Mirrored, Latest, AllReadBack

(* A file without a passcode never was one that satisfied a policy. *)
LEMMA StartMirrors ==
  ASSUME TypeInv, MirrorInv, Start
  PROVE  MirrorInv'
  <1> DEFINE m == [pm EXCEPT !.behind = written]
             x == [kind |-> "del"]
  <1>1. pm \in MemoryType /\ Mirrored(pm, devices, stored, tries)
    BY DEF TypeInv, DeviceTypeOK, MirrorInv
  <1>2. /\ m \in MemoryType /\ m.calls = pm.calls /\ m.replies = pm.replies
        /\ m.loaded = pm.loaded /\ ObjectOf(m) = ObjectOf(pm)
    BY <1>1 DEF TypeInv, DeviceTypeOK, MemoryType, ObjectOf
  <1>3. x \in Call /\ ~Writes(x)
    BY DEF Call, Writes
  <1>4. pm' = Send(m, x) /\ devices' = devices /\ tries' = tries
    BY DEF Start
  <1> HIDE DEF m, x
  <1>5. Mirrored(pm', devices, stored, tries)
    BY <1>1, <1>2, <1>3, <1>4, MirroredSame, MirroredSent
  <1>6. Garbage \notin Passcodes
    BY SecurityAssumption DEF SecurityAssumption, Passcode, Garbage
  <1>7. stored \in Passcodes => stored' = stored
    BY <1>6 DEF Start
  <1>8. \A o : Upheld(o, stored, tries) => Upheld(o, stored', tries)
    BY <1>7 DEF Upheld
  <1> QED BY <1>4, <1>5, <1>8 DEF MirrorInv, Mirrored

(* What the dead program has written is what the next one reads. *)
LEMMA CrashMirrors ==
  ASSUME TypeInv, MirrorInv, Crash
  PROVE  MirrorInv'
  <1>1. /\ pm'.calls = Orphans /\ pm'.replies = <<>> /\ ~pm'.loaded
        /\ UNCHANGED <<devices, stored, tries>>
    BY DEF Crash, Memory
  <1>2. SameWrites(pm.calls, Orphans)
    <2>1. ASSUME NEW i \in DOMAIN pm.calls
          PROVE  /\ Writes(Orphans[i]) <=> Writes(pm.calls[i])
                 /\ Writes(pm.calls[i]) => Orphans[i].object = pm.calls[i].object
      <3>1. CASE pm.calls[i].kind \in {"save", "orphan"}
        <4>1. Orphans[i] = [kind |-> "orphan", id |-> pm.calls[i].id,
                            object |-> pm.calls[i].object]
          BY <3>1 DEF Orphans
        <4> QED BY <3>1, <4>1 DEF Writes
      <3>2. CASE pm.calls[i].kind \notin {"save", "orphan"}
        <4>1. Orphans[i] = [kind |-> "void"]
          BY <3>2 DEF Orphans
        <4> QED BY <3>2, <4>1 DEF Writes
      <3> QED BY <3>1, <3>2
    <2>2. DOMAIN Orphans = DOMAIN pm.calls
      BY DEF Orphans
    <2> QED BY <2>1, <2>2 DEF SameWrites
  <1>3. \A o : Latest(pm'.calls, devices, o) <=> Latest(pm.calls, devices, o)
    BY <1>1, <1>2, LatestKept
  <1> QED BY <1>1, <1>3 DEF MirrorInv, Mirrored, AllReadBack

LEMMA WorldMirrors ==
  ASSUME TypeInv, MirrorInv, World \/ TimePasses, ~Hasty
  PROVE  MirrorInv'
  <1>1. pm \in MemoryType /\ Mirrored(pm, devices, stored, tries) /\ up \in BOOLEAN
    BY DEF TypeInv, DeviceTypeOK, MirrorInv
  <1>2. ASSUME pm'.calls = pm.calls, pm'.replies = pm.replies, pm'.loaded = pm.loaded,
               ObjectOf(pm') = ObjectOf(pm), UNCHANGED elsewhere
        PROVE  MirrorInv'
    <2>1. Mirrored(pm', devices, stored, tries)
      BY <1>1, <1>2, MirroredSame
    <2> QED BY <1>2, <2>1 DEF MirrorInv, elsewhere
  <1>3. CASE \E c \in Passcodes \cup {NoPasscode}, x \in DiskFails \cup {"no"} :
               SetPasscode(c, x)
    BY <1>3, SetPasscodeMirrors
  <1>4. CASE MatchLockedOut \/ TimePasses
    BY <1>1, <1>2, <1>4 DEF MatchLockedOut, TimePasses, MemoryType, ObjectOf
  <1>5. CASE MatchWrong \/ MatchRight
    BY <1>5, MatchMirrors
  <1>6. CASE Crash
    BY <1>6, CrashMirrors
  <1>7. CASE CbDeviceWipe
    <2>1. CASE pm' = [pm EXCEPT !.wiping = FALSE] /\ UNCHANGED elsewhere
      BY <1>1, <1>2, <2>1 DEF MemoryType, ObjectOf
    <2>2. CASE Init'
      BY <2>2, InitMirrors, PTL
    <2> QED BY <1>7, <2>1, <2>2 DEF CbDeviceWipe, Init
  <1>8. CASE \E a \in Accounts : ChangePolicy(a)
    <2>1. pm' = Behind(pm) /\ UNCHANGED <<devices, stored, tries>>
      BY <1>8 DEF ChangePolicy, program
    <2>2. Mirrored(pm', devices, stored, tries)
      BY <1>1, <2>1, BehindMirrors
    <2> QED BY <2>1, <2>2 DEF MirrorInv
  <1> QED BY <1>3, <1>4, <1>5, <1>6, <1>7, <1>8 DEF World

LEMMA MirrorStep ==
  ASSUME TypeInv, OnlyOne, MirrorInv, [Next]_vars,
         ~Hasty, "save" \notin Refusable, "findDevice" \notin Refusable
  PROVE  MirrorInv'
  <1>1. CASE UNCHANGED vars
    BY <1>1 DEF vars, MirrorInv
  <1>2. CASE Callbacks
    <2>1. Mirrored(pm', devices, stored, tries)
      BY <1>2, CallbacksMirror DEF OnlyOne
    <2>2. UNCHANGED <<devices, stored, tries>>
      BY <1>2 DEF Callbacks, elsewhere, CbTempPoliciesDeleted, CbDevicePolicy,
         CbSecurityPolicy, CbDevicePolicySaved, CbWatchResponse, DropReply
    <2> QED BY <2>1, <2>2 DEF MirrorInv
  <1> QED BY <1>1, <1>2, DatabaseMirrors, StartMirrors, WorldMirrors DEF Next, Reaction

LEMMA MirrorInvariant ==
  ASSUME ~Hasty, "save" \notin Refusable, "findDevice" \notin Refusable
  PROVE  Spec => [](TypeInv /\ MirrorInv)
  <1>1. TypeInv /\ OnlyOne /\ [Next]_vars => OnlyOne'
    BY OnlyOneStep
  <1>2. TypeInv /\ OnlyOne /\ MirrorInv /\ [Next]_vars => MirrorInv'
    BY MirrorStep
  <1> QED BY <1>1, <1>2, InitPut, InitMirrors, TypesInvariant, PTL DEF Spec

(* If the database refuses neither what is written to it nor the query of  *)
(* the device policy, clients wait for that, and the passcode file is      *)
(* written in full or not at all: "active" always means that the stored    *)
(* passcode satisfies the device policy, for any number of accounts and    *)
(* restarts.                                                               *)
THEOREM EnforcedFitsAlways ==
  ASSUME ~Hasty, "save" \notin Refusable, "findDevice" \notin Refusable,
         "write" \notin DiskFails
  PROVE  Spec => []EnforcedFits
  <1>1. TypeInv /\ MirrorInv => EnforcedFits
    <2> SUFFICES ASSUME TypeInv, MirrorInv, pm.loaded, pm.isEnforced,
                        pm.aggregate.passwordRequired
                 PROVE  stored \in Passcodes /\ Satisfies(stored, pm.aggregate)
      BY DEF EnforcedFits
    <2>1. Upheld(ObjectOf(pm), stored, tries)
      BY LoadedUpheld DEF TypeInv, DeviceTypeOK, MirrorInv
    <2> QED BY <2>1 DEF Upheld, ObjectOf
  <1> QED BY <1>1, MirrorInvariant, PTL

(* If the database refuses neither what is written to it nor the query of  *)
(* the device policy, clients wait for that, and the history tells as many *)
(* wrong passcodes apart as any policy allows: the retries left are those  *)
(* of the policy less the wrong passcodes, whenever the program dies.      *)
THEOREM RetriesCountedAlways ==
  ASSUME ~Hasty, "save" \notin Refusable, "findDevice" \notin Refusable, TriesTold
  PROVE  Spec => []RetriesCounted
  <1>1. TypeInv /\ MirrorInv => RetriesCounted
    <2> SUFFICES ASSUME TypeInv, MirrorInv, pm.loaded, CountsRetries(pm)
                 PROVE  pm.retriesLeft = IF tries < pm.aggregate.maxRetries
                                           THEN pm.aggregate.maxRetries - tries ELSE 0
      BY DEF RetriesCounted
    <2>1. Upheld(ObjectOf(pm), stored, tries)
      BY LoadedUpheld DEF TypeInv, DeviceTypeOK, MirrorInv
    <2> QED BY <2>1 DEF Upheld, ObjectOf, CountsRetries, PolicyPending
  <1> QED BY <1>1, MirrorInvariant, PTL

-----------------------------------------------------------------------------
(* Nothing is missed.                                                      *)

(* The policy in force is made of policies s. *)
Read(m, s) == m.aggregate = Aggregate(s)

(* Every watch knows that there is something to report. *)
Alert(m) ==
  /\ \A i \in DOMAIN m.calls : m.calls[i].kind = "watch" => m.calls[i].behind
  /\ m.watch # "set"

(* A reply that is not behind is about the policies that are there, and    *)
(* there is no device policy unless something has been written.            *)
Answers(r, s, w) ==
  /\ r.kind = "policies" /\ r.ok /\ ~r.behind => r.policies = s
  /\ r.kind = "device" /\ r.found.id # 0 => w

AllAnswer(t, s, w) == \A i \in DOMAIN t : Answers(t[i], s, w)

(* In the middle of a handler, which is about to cancel the watch.  Until  *)
(* the device policy is found, all that was ever written is news.          *)
Aware(m, s, w) ==
  /\ ~m.behind => Read(m, s)
  /\ AllAnswer(m.replies, s, w)
  /\ Booted(m) \/ (w => m.behind)

Watchful(m, s, w) ==
  /\ Aware(m, s, w)
  /\ Alert(m) \/ Read(m, s)
  /\ Booted(m) \/ (w => Alert(m))

Unwritten(s, d) == d = <<>> /\ \A a \in Accounts : s[a] = NoPolicy

CurrentInv ==
  /\ up => Watchful(pm, slots, written)
  /\ ~up => pm.aggregate = DefaultPolicy
  /\ ~written => Unwritten(slots, devices)

LEMMA UnwrittenRead ==
  ASSUME TypeInv, CurrentInv, ~written, NEW m, m.aggregate = DefaultPolicy
  PROVE  Read(m, slots)
  <1>1. slots \in Seq(Policy \cup {NoPolicy}) /\ DOMAIN slots = Accounts
    BY SecurityAssumption, SeqOf DEF SecurityAssumption, Accounts, TypeInv
  <1>2. \A a \in DOMAIN slots : slots[a] = NoPolicy
    BY <1>1 DEF CurrentInv, Unwritten
  <1> QED BY <1>1, <1>2, AggregateOfNone DEF Read

(* What only these depend on. *)
SameNews(m, n) ==
  /\ n.aggregate = m.aggregate /\ n.behind = m.behind
  /\ n.calls = m.calls /\ n.replies = m.replies /\ n.watch = m.watch

LEMMA SameWatchful ==
  ASSUME NEW m, NEW n, SameNews(m, n), NEW s, NEW w
  PROVE  /\ Aware(m, s, w) => Aware(n, s, w)
         /\ Watchful(m, s, w) => Watchful(n, s, w)
  BY DEF SameNews, Aware, Watchful, Read, Alert, Booted

LEMMA CancelAlerts ==
  ASSUME NEW m \in MemoryType, WatchOnce(m)
  PROVE  LET n == CancelWatch(m)
         IN  /\ n \in MemoryType /\ n.aggregate = m.aggregate /\ n.behind = m.behind
             /\ Alert(n) /\ (Booted(m) => Booted(n))
             /\ \A s, w : AllAnswer(m.replies, s, w) => AllAnswer(n.replies, s, w)
  <1> DEFINE n == CancelWatch(m)
  <1>1. n \in MemoryType /\ NoWatch(n)
    BY CancelWatchType, CancelWatchOnce
  <1>2. Alert(n)
    BY <1>1 DEF Alert, NoWatch, None
  <1>3. CASE ~m.token
    <2>1. n = m
      BY <1>3 DEF CancelWatch
    <2> HIDE DEF n
    <2> QED BY <1>1, <1>2, <2>1 DEF n
  <1>4. CASE m.token
    <2>1. /\ n.calls = Void(m.calls, "watch") /\ n.replies = Void(m.replies, "fired")
          /\ n.aggregate = m.aggregate /\ n.behind = m.behind
      BY <1>4 DEF CancelWatch, MemoryType
    <2> HIDE DEF n
    <2>2. /\ DOMAIN n.calls = DOMAIN m.calls /\ DOMAIN n.replies = DOMAIN m.replies
          /\ \A i \in DOMAIN m.calls : n.calls[i] = m.calls[i] \/ n.calls[i].kind = "void"
          /\ \A i \in DOMAIN m.replies : n.replies[i] = m.replies[i] \/ n.replies[i].kind = "void"
      BY <2>1 DEF Void
    <2>3. Booted(m) => Booted(n)
      BY <2>2 DEF Booted, None
    <2>4. \A s, w : AllAnswer(m.replies, s, w) => AllAnswer(n.replies, s, w)
      BY <2>2 DEF AllAnswer, Answers
    <2> QED BY <1>1, <1>2, <2>1, <2>3, <2>4 DEF n
  <1> QED BY <1>3, <1>4

LEMMA SentWatchful ==
  ASSUME NEW m \in MemoryType, NEW c \in Call
  PROVE  LET n == Send(m, c)
         IN  /\ n \in MemoryType /\ n.aggregate = m.aggregate /\ n.behind = m.behind
             /\ n.replies = m.replies /\ n.watch = m.watch
             /\ c.kind \notin {"del", "findDevice"} /\ Booted(m) => Booted(n)
             /\ (c.kind = "watch" => c.behind) /\ Alert(m) => Alert(n)
  <1> DEFINE n == Send(m, c)
  <1>1. /\ m.calls \in Seq(Call) /\ n.calls = Append(m.calls, c)
        /\ n.aggregate = m.aggregate /\ n.behind = m.behind
        /\ n.replies = m.replies /\ n.watch = m.watch
    BY DEF Send, MemoryType
  <1>2. n \in MemoryType
    BY SendType
  <1> HIDE DEF n
  <1>3. \A i \in DOMAIN n.calls : n.calls[i] = c \/ (i \in DOMAIN m.calls /\ n.calls[i] = m.calls[i])
    BY <1>1
  <1>4. c.kind \notin {"del", "findDevice"} /\ Booted(m) => Booted(n)
    BY <1>1, <1>3 DEF Booted, None
  <1>5. (c.kind = "watch" => c.behind) /\ Alert(m) => Alert(n)
    BY <1>1, <1>3 DEF Alert
  <1> QED BY <1>1, <1>2, <1>4, <1>5 DEF n

LEMMA SaveWatchful ==
  ASSUME NEW m \in MemoryType, WatchOnce(m), NEW s, NEW w, Aware(m, s, w)
  PROVE  Watchful(Save(m), s, w)
  <1> DEFINE n == CancelWatch(m)
             x == [kind |-> "save", id |-> m.id,
                   object |-> [policy |-> m.aggregate, enforced |-> m.isEnforced,
                               retries |-> m.retriesLeft]]
  <1>1. x \in Call /\ x.kind = "save"
    BY DEF Call, DevicePolicy, MemoryType
  <1>2. /\ n \in MemoryType /\ n.aggregate = m.aggregate /\ n.behind = m.behind
        /\ Alert(n) /\ (Booted(m) => Booted(n)) /\ AllAnswer(n.replies, s, w)
    BY CancelAlerts DEF Aware
  <1>3. Save(m) = Send(n, x)
    BY DEF Save
  <1> HIDE DEF n, x
  <1>4. /\ Save(m).aggregate = m.aggregate /\ Save(m).behind = m.behind
        /\ Save(m).replies = n.replies /\ Alert(Save(m)) /\ (Booted(m) => Booted(Save(m)))
    BY <1>1, <1>2, <1>3, SentWatchful
  <1> QED BY <1>2, <1>4 DEF Watchful, Aware, Read

LEMMA WatchWatchful ==
  ASSUME NEW m \in MemoryType, WatchOnce(m), NEW s, NEW w, Aware(m, s, w)
  PROVE  Watchful(WatchSecurityPolicies(m), s, w)
  <1> DEFINE n == CancelWatch(m)
             x == [kind |-> "watch", behind |-> m.behind]
             o == Send(n, x)
             q == WatchSecurityPolicies(m)
  <1>1. x \in Call /\ x.kind = "watch" /\ x.behind = m.behind
    BY DEF Call, MemoryType
  <1>2. /\ n \in MemoryType /\ n.aggregate = m.aggregate /\ n.behind = m.behind
        /\ Alert(n) /\ (Booted(m) => Booted(n)) /\ AllAnswer(n.replies, s, w)
    BY CancelAlerts DEF Aware
  <1>3. q = [o EXCEPT !.token = TRUE]
    BY DEF WatchSecurityPolicies
  <1> HIDE DEF n, x
  <1>4. /\ o \in MemoryType /\ o.aggregate = m.aggregate /\ o.behind = m.behind
        /\ o.replies = n.replies /\ (m.behind => Alert(o)) /\ (Booted(m) => Booted(o))
    BY <1>1, <1>2, SentWatchful
  <1> HIDE DEF o
  <1>5. SameNews(o, q)
    BY <1>3, <1>4 DEF SameNews, MemoryType
  <1> HIDE DEF q
  <1>6. Watchful(o, s, w)
    BY <1>2, <1>4 DEF Watchful, Aware, Read
  <1>7. Watchful(q, s, w)
    BY <1>5, <1>6, SameWatchful
  <1> QED BY <1>7 DEF q

LEMMA QueryWatchful ==
  ASSUME NEW m \in MemoryType, NEW s, NEW w, Watchful(m, s, w)
  PROVE  /\ Watchful(QuerySecurityPolicies(m), s, w)
         /\ (w => m.behind /\ Alert(m)) => Watchful(QueryDevicePolicy(m), s, w)
  <1> DEFINE n == QuerySecurityPolicies(m)
             o == QueryDevicePolicy(m)
  <1>1. /\ [kind |-> "findDevice"] \in Call /\ [kind |-> "find"] \in Call
        /\ [kind |-> "find"].kind = "find" /\ [kind |-> "findDevice"].kind = "findDevice"
    BY DEF Call
  <1>2. /\ n.aggregate = m.aggregate /\ n.behind = m.behind /\ n.replies = m.replies
        /\ (Alert(m) => Alert(n)) /\ (Booted(m) => Booted(n))
    BY <1>1, SentWatchful DEF QuerySecurityPolicies
  <1>3. /\ o.aggregate = m.aggregate /\ o.behind = m.behind /\ o.replies = m.replies
        /\ (Alert(m) => Alert(o))
    BY <1>1, SentWatchful DEF QueryDevicePolicy
  <1> HIDE DEF n, o
  <1>4. Watchful(n, s, w)
    BY <1>2 DEF Watchful, Aware, Read
  <1>5. (w => m.behind /\ Alert(m)) => Watchful(o, s, w)
    BY <1>3 DEF Watchful, Aware, Read
  <1> QED BY <1>4, <1>5 DEF n, o

LEMMA SlotNews ==
  ASSUME NEW m \in MemoryType
  PROVE  /\ SlotPolicyChanged(m) \in MemoryType /\ SameNews(m, SlotPolicyChanged(m))
         /\ SameWatch(m, SlotPolicyChanged(m))
  BY SlotType DEF SlotPolicyChanged, MemoryType, SameNews, SameWatch

LEMMA NotifyWatchful ==
  ASSUME NEW m \in MemoryType, WatchOnce(m), NEW s, NEW w, Aware(m, s, w)
  PROVE  Watchful(NotifyPolicyChanged(m), s, w)
  <1> DEFINE n == [m EXCEPT !.isEnforced = PasscodeSatisfiesPolicy(m.aggregate)]
             o == SlotPolicyChanged(n)
  <1>1. PasscodeSatisfiesPolicy(m.aggregate) \in BOOLEAN
    BY DEF PasscodeSatisfiesPolicy, DecryptedPasscode, MemoryType, Policy
  <1>2. n \in MemoryType /\ SameNews(m, n) /\ SameWatch(m, n)
    BY <1>1 DEF MemoryType, SameNews, SameWatch
  <1>3. NotifyPolicyChanged(m) = Save(o)
    BY DEF NotifyPolicyChanged
  <1> HIDE DEF n
  <1>4. o \in MemoryType /\ SameNews(n, o) /\ SameWatch(n, o)
    BY <1>2, SlotNews
  <1> HIDE DEF o
  <1>5. Aware(o, s, w) /\ WatchOnce(o)
    BY <1>2, <1>4, SameWatchful, SameOnce
  <1> QED BY <1>3, <1>4, <1>5, SaveWatchful

(* The replies of the database that is not behind are taken for all there  *)
(* is, after the start.                                                    *)
LEMMA UpdateWatchful ==
  ASSUME NEW m \in MemoryType, WatchOnce(m), Booted(m), NEW s, NEW w,
         AllAnswer(m.replies, s, w),
         NEW policies \in Seq(Policy \cup {NoPolicy}), NEW behind \in BOOLEAN,
         ~behind => policies = s
  PROVE  Watchful(UpdateDevicePolicy(m, policies, behind), s, w)
  <1> DEFINE a == Aggregate(policies)
             n == [m EXCEPT !.aggregate = a,
                            !.behind = behind,
                            !.retriesLeft = IF a.maxRetries # m.aggregate.maxRetries
                                              THEN a.maxRetries ELSE @]
  <1>1. a \in Policy /\ (~behind => a = Aggregate(s))
    BY AggregateType
  <1>2. UpdateDevicePolicy(m, policies, behind) =
          IF a = m.aggregate THEN WatchSecurityPolicies(n) ELSE NotifyPolicyChanged(n)
    BY DEF UpdateDevicePolicy
  <1> HIDE DEF a
  <1>3. /\ n \in MemoryType /\ SameWatch(m, n)
        /\ n.aggregate = a /\ n.behind = behind
    BY <1>1 DEF MemoryType, Policy, SameWatch
  <1> HIDE DEF n
  <1>4. WatchOnce(n)
    BY <1>3, SameOnce
  <1>5. Aware(n, s, w)
    BY <1>1, <1>3 DEF Aware, Read, SameWatch, Booted
  <1> QED BY <1>2, <1>3, <1>4, <1>5, WatchWatchful, NotifyWatchful

LEMMA ReceivedWatchful ==
  ASSUME pm \in MemoryType, pm.replies # <<>>, NEW s, NEW w, Watchful(pm, s, w)
  PROVE  /\ Watchful(Received, s, w) /\ Answers(Head(pm.replies), s, w)
         /\ Booted(pm) => Booted(Received) /\ Head(pm.replies).kind \notin {"deleted", "device"}
         /\ Alert(pm) => Alert(Received)
         /\ Received.behind = pm.behind
  <1>1. /\ pm.replies \in Seq(ReplyMessage) /\ Received.replies = Tail(pm.replies)
        /\ Received.calls = pm.calls /\ Received.watch = pm.watch
        /\ Received.aggregate = pm.aggregate /\ Received.behind = pm.behind
    BY DEF MemoryType, Received
  <1>2. /\ 1 \in DOMAIN pm.replies /\ Head(pm.replies) = pm.replies[1]
        /\ \A i \in DOMAIN Tail(pm.replies) :
             i + 1 \in DOMAIN pm.replies /\ Tail(pm.replies)[i] = pm.replies[i + 1]
    BY <1>1
  <1>3. AllAnswer(pm.replies, s, w)
    BY DEF Watchful, Aware
  <1>4. AllAnswer(Received.replies, s, w) /\ Answers(Head(pm.replies), s, w)
    BY <1>1, <1>2, <1>3 DEF AllAnswer
  <1>5. Booted(pm) => Booted(Received) /\ Head(pm.replies).kind \notin {"deleted", "device"}
    BY <1>1, <1>2, TailKinds DEF Booted
  <1>6. Alert(pm) <=> Alert(Received)
    BY <1>1 DEF Alert
  <1> QED BY <1>1, <1>4, <1>5, <1>6 DEF Watchful, Aware, Read

LEMMA CallbacksWatchful ==
  ASSUME TypeInv, WatchOnce(pm), RetriesInv, CurrentInv, Callbacks
  PROVE  CurrentInv'
  <1> DEFINE r == Head(pm.replies)
             Good(m) == Watchful(m, slots, written)
  <1>1. /\ pm \in MemoryType /\ written \in BOOLEAN /\ pm.replies # <<>> /\ up
        /\ UNCHANGED elsewhere
    BY DEF TypeInv, DeviceTypeOK, Callbacks, CbTempPoliciesDeleted, CbDevicePolicy,
           CbSecurityPolicy, CbDevicePolicySaved, CbWatchResponse, DropReply, Reply
  <1>2. Received \in MemoryType /\ r \in ReplyMessage /\ WatchOnce(Received)
    BY <1>1, ReceivedType, ReceivedTamer, TamerOnce
  <1>3. /\ Good(pm) /\ Good(Received) /\ Answers(r, slots, written)
        /\ Booted(pm) => Booted(Received) /\ r.kind \notin {"deleted", "device"}
        /\ Alert(pm) => Alert(Received)
        /\ Received.behind = pm.behind
    BY <1>1, ReceivedWatchful DEF CurrentInv
  <1>4. ASSUME r.kind \in {"deleted", "device"}, written
        PROVE  Received.behind /\ Alert(Received)
    BY <1>3, <1>4 DEF Watchful, Aware
  <1>5. SUFFICES Good(pm')
    BY <1>1 DEF CurrentInv, elsewhere
  <1>6. CASE CbTempPoliciesDeleted
    BY <1>2, <1>3, <1>4, <1>6, QueryWatchful DEF CbTempPoliciesDeleted, Reply
  <1>7. CASE CbDevicePolicy
    <2> DEFINE m == [Received EXCEPT !.loaded = TRUE]
    <2>1. r.kind = "device"
      BY <1>7 DEF CbDevicePolicy, Reply
    <2>2. r.found.id = 0 \/ r.found \in [id: Nat, object: DevicePolicy]
      BY <1>2, <2>1 DEF ReplyMessage, NoObject
    <2>3. m \in MemoryType /\ SameNews(Received, m) /\ SameWatch(Received, m)
      BY <1>2 DEF MemoryType, SameNews, SameWatch
    <2>4. pm' = QuerySecurityPolicies(IF r.found.id = 0 THEN SetDefaultPolicy(m)
                                                        ELSE SetDevicePolicy(m, r.found))
      BY <1>7 DEF CbDevicePolicy
    <2> HIDE DEF m
    <2>5. Good(m) /\ AllAnswer(m.replies, slots, written) /\ WatchOnce(m)
      BY <1>2, <1>3, <2>3, SameWatchful, SameOnce DEF Watchful, Aware
    <2>6. CASE r.found.id = 0
      <3> DEFINE n == [m EXCEPT !.aggregate = DefaultPolicy, !.id = 0, !.behind = written]
      <3>1. /\ n \in MemoryType /\ SameWatch(m, n) /\ n.behind = written
            /\ n.aggregate = DefaultPolicy
        BY <1>1, <2>3, DefaultTold DEF MemoryType, SameWatch
      <3>2. SetDefaultPolicy(m) = NotifyPolicyChanged(n)
        BY DEF SetDefaultPolicy
      <3> HIDE DEF n
      <3>3. ~written => Read(n, slots)
        BY <3>1, UnwrittenRead
      <3>4. Aware(n, slots, written) /\ WatchOnce(n)
        BY <2>5, <3>1, <3>3, SameOnce DEF Aware, SameWatch
      <3>5. NotifyPolicyChanged(n) \in MemoryType /\ Good(NotifyPolicyChanged(n))
        BY <3>1, <3>4, NotifyType, NotifyWatchful
      <3> QED BY <2>4, <2>6, <3>2, <3>5, QueryWatchful
    <2>7. CASE r.found.id # 0
      <3> DEFINE o == SetDevicePolicy(m, r.found)
      <3>1. r.found.object \in DevicePolicy /\ r.found.id \in Nat
        BY <2>2, <2>7
      <3>2. o \in MemoryType /\ o.behind = written /\ SameWatch(m, o)
        BY <1>1, <2>3, <3>1 DEF SetDevicePolicy, MemoryType, DevicePolicy, SameWatch
      <3> HIDE DEF o
      <3>3. written
        BY <1>3, <2>1, <2>7 DEF Answers
      <3>4. Alert(o)
        BY <1>4, <2>1, <2>3, <3>2, <3>3 DEF Alert, SameWatch
      <3>5. Good(o)
        BY <2>5, <3>2, <3>3, <3>4 DEF Watchful, Aware, SameWatch
      <3>6. pm' = QuerySecurityPolicies(o)
        BY <2>4, <2>7 DEF o
      <3> QED BY <3>2, <3>5, <3>6, QueryWatchful
    <2> QED BY <2>6, <2>7
  <1>8. CASE CbSecurityPolicy
    <2>1. r.policies \in Seq(Policy \cup {NoPolicy}) /\ r.behind \in BOOLEAN
          /\ r.kind = "policies"
      BY <1>2, <1>8 DEF CbSecurityPolicy, Reply, ReplyMessage
    <2>2. Booted(Received)
      <3>1. pm.replies[1] = r /\ 1 \in DOMAIN pm.replies
        BY <1>1 DEF MemoryType
      <3>2. Booted(pm)
        BY <1>1, <2>1, <3>1 DEF RetriesInv, Sound, InOrder, Deleting, Deleted, Finding,
                                Found, None
      <3> QED BY <1>3, <3>2
    <2>3. ASSUME r.ok
          PROVE  Good(UpdateDevicePolicy(Received, r.policies, r.behind))
      <3>1. AllAnswer(Received.replies, slots, written) /\ (~r.behind => r.policies = slots)
        BY <1>3, <2>1, <2>3 DEF Watchful, Aware, Answers
      <3> QED BY <1>2, <2>1, <2>2, <3>1, UpdateWatchful
    <2> QED BY <1>3, <1>8, <2>3 DEF CbSecurityPolicy
  <1>9. CASE CbDevicePolicySaved
    <2> DEFINE m == [Received EXCEPT !.id = IF r.id # 0 THEN r.id ELSE @]
    <2>1. r.id \in Nat
      BY <1>2, <1>9 DEF CbDevicePolicySaved, Reply, ReplyMessage
    <2>2. m \in MemoryType /\ SameNews(Received, m) /\ SameWatch(Received, m)
      BY <1>2, <2>1 DEF MemoryType, SameNews, SameWatch
    <2>3. pm' = WatchSecurityPolicies(m)
      BY <1>9 DEF CbDevicePolicySaved
    <2> HIDE DEF m
    <2>4. Aware(m, slots, written) /\ WatchOnce(m)
      BY <1>2, <1>3, <2>2, SameWatchful, SameOnce DEF Watchful
    <2> QED BY <2>2, <2>3, <2>4, WatchWatchful
  <1>10. CASE CbWatchResponse
    <2> DEFINE m == [Received EXCEPT !.token = FALSE]
    <2>1. m \in MemoryType /\ SameNews(Received, m) /\ pm' = QuerySecurityPolicies(m)
      BY <1>2, <1>10 DEF CbWatchResponse, MemoryType, SameNews
    <2> HIDE DEF m
    <2>2. Good(m)
      BY <1>3, <2>1, SameWatchful
    <2> QED BY <2>1, <2>2, QueryWatchful
  <1>11. CASE DropReply
    BY <1>3, <1>11 DEF DropReply
  <1> QED BY <1>6, <1>7, <1>8, <1>9, <1>10, <1>11 DEF Callbacks

(* After a write everybody knows, whatever has been written. *)
LEMMA BehindWatchful ==
  ASSUME up, NEW m \in MemoryType, NEW s
  PROVE  /\ Watchful(Behind(m), s, TRUE) /\ Behind(m).aggregate = m.aggregate
         /\ Behind(m).behind /\ Alert(Behind(m))
  <1> DEFINE n == Behind(m)
  <1>1. m.calls \in Seq(Call) /\ m.replies \in Seq(ReplyMessage)
    BY DEF MemoryType
  <1>2. /\ n.aggregate = m.aggregate /\ n.behind /\ n.watch # "set"
        /\ n.calls = [i \in DOMAIN m.calls |->
                        IF m.calls[i].kind = "watch" THEN [m.calls[i] EXCEPT !.behind = TRUE]
                                                     ELSE m.calls[i]]
        /\ n.replies = [i \in DOMAIN m.replies |->
                          IF m.replies[i].kind = "policies"
                            THEN [m.replies[i] EXCEPT !.behind = TRUE]
                            ELSE m.replies[i]]
    BY DEF Behind, MemoryType
  <1> HIDE DEF n
  <1>3. Alert(n)
    <2>1. ASSUME NEW i \in DOMAIN m.calls, n.calls[i].kind = "watch"
          PROVE  n.calls[i].behind
      <3>1. m.calls[i] \in Call
        BY <1>1
      <3>2. m.calls[i].kind = "watch"
        BY <1>2, <2>1
      <3>3. n.calls[i] = [m.calls[i] EXCEPT !.behind = TRUE]
        BY <1>2, <3>2
      <3> QED BY <3>1, <3>2, <3>3 DEF Call
    <2> QED BY <1>2, <2>1 DEF Alert
  <1>4. AllAnswer(n.replies, s, TRUE)
    <2>1. ASSUME NEW i \in DOMAIN m.replies, n.replies[i].kind = "policies"
          PROVE  n.replies[i].behind
      <3>1. m.replies[i] \in ReplyMessage
        BY <1>1
      <3>2. m.replies[i].kind = "policies"
        BY <1>2, <2>1
      <3>3. n.replies[i] = [m.replies[i] EXCEPT !.behind = TRUE]
        BY <1>2, <3>2
      <3> QED BY <3>1, <3>2, <3>3 DEF ReplyMessage
    <2> QED BY <1>2, <2>1 DEF AllAnswer, Answers
  <1>5. Watchful(n, s, TRUE)
    BY <1>2, <1>3, <1>4 DEF Watchful, Aware
  <1> QED BY <1>2, <1>3, <1>5 DEF n

LEMMA ServedWatchful ==
  ASSUME pm \in MemoryType, pm.calls # <<>>, NEW s, NEW w, Watchful(pm, s, w)
  PROVE  /\ Watchful(Served, s, w)
         /\ Head(pm.calls).kind = "watch"
            => Head(pm.calls).behind \/ (Read(Served, s) /\ (w => Booted(Served)))
         /\ Head(pm.calls).kind \in {"del", "findDevice"}
            => (w => Served.behind /\ Alert(Served))
  <1> DEFINE h == Head(pm.calls)
  <1>1. /\ pm.calls \in Seq(Call) /\ Served.calls = Tail(pm.calls)
        /\ Served.replies = pm.replies /\ Served.watch = pm.watch
        /\ Served.aggregate = pm.aggregate /\ Served.behind = pm.behind
    BY DEF MemoryType, Served
  <1>2. /\ 1 \in DOMAIN pm.calls /\ h = pm.calls[1]
        /\ \A i \in DOMAIN Tail(pm.calls) :
             i + 1 \in DOMAIN pm.calls /\ Tail(pm.calls)[i] = pm.calls[i + 1]
    BY <1>1
  <1>3. Alert(pm) => Alert(Served)
    BY <1>1, <1>2 DEF Alert
  <1>4. Booted(pm) => Booted(Served) /\ h.kind \notin {"del", "findDevice"}
    BY <1>1, <1>2, TailKinds DEF Booted
  <1>5. h.kind = "watch" => h.behind \/ (Read(Served, s) /\ (w => Booted(Served)))
    <2>1. h.kind = "watch" /\ Alert(pm) => h.behind
      BY <1>2 DEF Alert
    <2>2. ~Alert(pm) => Read(Served, s) /\ (w => Booted(Served))
      BY <1>1, <1>4 DEF Watchful, Read
    <2> QED BY <2>1, <2>2
  <1> QED BY <1>1, <1>3, <1>4, <1>5 DEF Watchful, Aware, Read

LEMMA RepliedWatchful ==
  ASSUME NEW m \in MemoryType, NEW r \in ReplyMessage, NEW s, NEW w, Watchful(m, s, w),
         Answers(r, s, w),
         r.kind \in {"deleted", "device"} => (w => m.behind /\ Alert(m))
  PROVE  Watchful(Replied(m, r), s, w)
  <1> DEFINE n == Replied(m, r)
  <1>1. /\ m.replies \in Seq(ReplyMessage) /\ n.replies = Append(m.replies, r)
        /\ n.calls = m.calls /\ n.watch = m.watch
        /\ n.aggregate = m.aggregate /\ n.behind = m.behind
    BY DEF MemoryType, Replied
  <1> HIDE DEF n
  <1>2. \A i \in DOMAIN n.replies :
          n.replies[i] = r \/ (i \in DOMAIN m.replies /\ n.replies[i] = m.replies[i])
    BY <1>1
  <1>3. AllAnswer(n.replies, s, w)
    BY <1>2 DEF AllAnswer, Watchful, Aware
  <1>4. r.kind \notin {"deleted", "device"} /\ Booted(m) => Booted(n)
    BY <1>1, <1>2 DEF Booted, None
  <1>5. Alert(m) <=> Alert(n)
    BY <1>1 DEF Alert
  <1>6. Watchful(n, s, w)
    BY <1>1, <1>3, <1>4, <1>5 DEF Watchful, Aware, Read
  <1> QED BY <1>6 DEF n

(* One call served, and what of the watch in it is left. *)
LEMMA DatabaseWatchful ==
  ASSUME TypeInv, CurrentInv, Database
  PROVE  CurrentInv'
  <1> DEFINE h == Head(pm.calls)
             Good(m) == Watchful(m, slots, written)
  <1>1. /\ pm \in MemoryType /\ up \in BOOLEAN /\ written \in BOOLEAN
        /\ devices \in Seq(DevicePolicy)
        /\ up => Good(pm)
        /\ ~up => pm.aggregate = DefaultPolicy
        /\ ~written => Unwritten(slots, devices)
    BY DEF TypeInv, DeviceTypeOK, CurrentInv
  <1>2. up' = up
    BY DEF Database, program, ServeDel, ServeFindDevice, ServeFind, ServeSave,
           RefuseSave, ServeWatch, RefuseWatch, DropCall, FireWatch
  <1>3. ASSUME NEW m \in MemoryType
        PROVE  /\ Behind(m).aggregate = m.aggregate
               /\ \A r : Replied(m, r).aggregate = m.aggregate
    BY DEF Behind, Replied, MemoryType
  <1>4. ASSUME pm.calls # <<>>
        PROVE  /\ Served \in MemoryType /\ Behind(Served) \in MemoryType /\ h \in Call
               /\ Served.aggregate = pm.aggregate
    BY <1>1, <1>4, ServedType, BehindType DEF Served, MemoryType
  <1>5. ASSUME pm.calls # <<>>, up
        PROVE  /\ Good(Served)
               /\ h.kind = "watch"
                  => h.behind \/ (Read(Served, slots) /\ (written => Booted(Served)))
               /\ h.kind \in {"del", "findDevice"}
                  => (written => Served.behind /\ Alert(Served))
    BY <1>1, <1>5, ServedWatchful
  <1>6. ASSUME UNCHANGED <<slots, devices, written>>, pm'.aggregate = pm.aggregate,
               up => Good(pm')
        PROVE  CurrentInv'
    BY <1>1, <1>2, <1>6 DEF CurrentInv
  <1>7. ASSUME UNCHANGED <<slots, devices, written>>, pm.calls # <<>>,
               NEW r \in ReplyMessage, pm' = Replied(Served, r),
               up => Answers(r, slots, written),
               r.kind = "device" => h.kind = "findDevice",
               r.kind = "deleted" => h.kind = "del"
        PROVE  CurrentInv'
    <2>1. pm'.aggregate = pm.aggregate
      BY <1>3, <1>4, <1>7
    <2>2. up => Good(Replied(Served, r))
      BY <1>4, <1>5, <1>7, RepliedWatchful
    <2> QED BY <1>6, <1>7, <2>1, <2>2
  <1>8. CASE ServeDel
    <2> DEFINE r == [kind |-> "deleted"]
    <2>1. pm.calls # <<>> /\ h.kind = "del" /\ UNCHANGED <<devices, written>>
      BY <1>8 DEF ServeDel, Serves
    <2>2. r \in ReplyMessage /\ r.kind = "deleted" /\ \A s, w : Answers(r, s, w)
      BY DEF ReplyMessage, Answers
    <2>3. \/ pm' = Replied(Served, r) /\ slots' = slots
          \/ /\ pm' = Replied(Behind(Served), r)
             /\ \E a \in Accounts : slots[a] # NoPolicy
      BY <1>8, SecurityAssumption DEF ServeDel, SecurityAssumption, Accounts
    <2> HIDE DEF r, h
    <2>4. CASE pm' = Replied(Served, r) /\ slots' = slots
      BY <1>7, <2>1, <2>2, <2>4
    <2>5. CASE /\ pm' = Replied(Behind(Served), r)
               /\ \E a \in Accounts : slots[a] # NoPolicy
      <3>1. written /\ written'
        BY <1>1, <2>1, <2>5 DEF Unwritten
      <3>2. pm'.aggregate = pm.aggregate
        BY <1>3, <1>4, <2>1, <2>5
      <3>3. ASSUME up
            PROVE  Watchful(Replied(Behind(Served), r), slots', TRUE)
        <4>1. /\ Watchful(Behind(Served), slots', TRUE)
              /\ Behind(Served).behind /\ Alert(Behind(Served))
          BY <1>4, <2>1, <3>3, BehindWatchful
        <4> QED BY <1>4, <2>1, <2>2, <4>1, RepliedWatchful
      <3> QED BY <1>1, <1>2, <2>5, <3>1, <3>2, <3>3 DEF CurrentInv
    <2> QED BY <2>3, <2>4, <2>5
  <1>9. CASE ServeFindDevice
    <2>1. pm.calls # <<>> /\ h.kind = "findDevice" /\ UNCHANGED <<slots, devices, written>>
      BY <1>9 DEF ServeFindDevice, Serves
    <2>2. PICK found \in {[id |-> i, object |-> devices[i]] : i \in DOMAIN devices}
                           \cup {NoObject} :
            pm' = Replied(Served, [kind |-> "device", found |-> found])
      BY <1>9 DEF ServeFindDevice
    <2> DEFINE r == [kind |-> "device", found |-> found]
    <2>3. found = NoObject \/ (found \in [id: Nat, object: DevicePolicy] /\ devices # <<>>)
      BY <1>1, <2>2
    <2>4. r \in ReplyMessage /\ r.kind = "device"
      BY <2>3 DEF ReplyMessage
    <2>5. Answers(r, slots, written)
      BY <1>1, <2>3 DEF Answers, Unwritten, NoObject
    <2> HIDE DEF r, h
    <2> QED BY <1>7, <2>1, <2>2, <2>4, <2>5 DEF r
  <1>10. CASE ServeFind
    <2>1. pm.calls # <<>> /\ UNCHANGED <<slots, devices, written>>
      BY <1>10 DEF ServeFind, Serves
    <2>2. PICK ok \in BOOLEAN :
            pm' = Replied(Served, [kind |-> "policies", ok |-> ok,
                                   policies |-> IF ok THEN slots ELSE <<>>,
                                   behind |-> FALSE])
      BY <1>10 DEF ServeFind
    <2> DEFINE r == [kind |-> "policies", ok |-> ok,
                     policies |-> IF ok THEN slots ELSE <<>>, behind |-> FALSE]
    <2>3. slots \in Seq(Policy \cup {NoPolicy})
      BY SecurityAssumption, SeqOf DEF SecurityAssumption, Accounts, TypeInv
    <2>4. r \in ReplyMessage /\ r.kind = "policies"
      BY <2>3 DEF ReplyMessage
    <2>5. Answers(r, slots, written)
      BY DEF Answers
    <2> HIDE DEF r, h
    <2> QED BY <1>7, <2>1, <2>2, <2>4, <2>5 DEF r
  <1>11. CASE ServeSave
    <2>1. /\ pm.calls # <<>> /\ written' = TRUE /\ slots' = slots
          /\ \E id \in Nat : pm' = Saved(Behind(Served), id)
      <3>1. pm.calls # <<>> /\ h.kind \in {"save", "orphan"} /\ written' = TRUE /\ slots' = slots
        BY <1>11 DEF ServeSave, Serves
      <3>2. h.id \in Nat
        BY <1>4, <3>1 DEF Call
      <3>3. Len(devices) + 1 \in Nat
        BY <1>1
      <3>4. \E id : id \in {h.id, Len(devices) + 1} /\ pm' = Saved(Behind(Served), id)
        BY <1>11 DEF ServeSave
      <3> QED BY <3>1, <3>2, <3>3, <3>4
    <2>2. PICK id \in Nat : pm' = Saved(Behind(Served), id)
      BY <2>1
    <2> DEFINE r == [kind |-> "saved", id |-> id]
    <2>3. r \in ReplyMessage /\ r.kind = "saved" /\ \A s, w : Answers(r, s, w)
      BY DEF ReplyMessage, Answers
    <2>4. pm' = Replied(Behind(Served), r) \/ pm' = Behind(Served)
      BY <2>2 DEF Saved
    <2> HIDE DEF r, h
    <2>5. pm'.aggregate = pm.aggregate
      BY <1>3, <1>4, <2>1, <2>4
    <2>6. ASSUME up
          PROVE  Watchful(pm', slots, TRUE)
      <3>1. Watchful(Behind(Served), slots, TRUE)
        BY <1>4, <2>1, <2>6, BehindWatchful
      <3>2. Watchful(Replied(Behind(Served), r), slots, TRUE)
        BY <1>4, <2>1, <2>3, <3>1, RepliedWatchful
      <3> QED BY <2>4, <3>1, <3>2
    <2> QED BY <1>1, <1>2, <2>1, <2>5, <2>6 DEF CurrentInv
  <1>12. CASE RefuseSave
    <2> DEFINE r == [kind |-> "saved", id |-> 0]
    <2>1. /\ pm.calls # <<>> /\ UNCHANGED <<slots, devices, written>>
          /\ pm' = Replied(Served, r) \/ pm' = Served
      BY <1>12 DEF RefuseSave, Serves, Saved
    <2>2. r \in ReplyMessage /\ r.kind = "saved" /\ Answers(r, slots, written)
      BY DEF ReplyMessage, Answers
    <2> HIDE DEF r, h
    <2> QED BY <1>4, <1>5, <1>6, <1>7, <2>1, <2>2
  <1>13. CASE ServeWatch
    <2>1. /\ pm.calls # <<>> /\ UNCHANGED <<slots, devices, written>>
          /\ h.kind = "watch"
          /\ pm' = [Served EXCEPT !.watch = IF h.behind THEN "behind" ELSE "set"]
      BY <1>13 DEF ServeWatch, Serves
    <2> HIDE DEF h
    <2>2. /\ pm'.aggregate = Served.aggregate /\ pm'.behind = Served.behind
          /\ pm'.calls = Served.calls /\ pm'.replies = Served.replies
          /\ h.behind => pm'.watch = "behind"
      BY <1>4, <2>1 DEF MemoryType
    <2>3. ASSUME up
          PROVE  Good(pm')
      <3>1. Good(Served) /\ (h.behind \/ (Read(Served, slots) /\ (written => Booted(Served))))
        BY <1>5, <2>1, <2>3 DEF h
      <3>2. Alert(Served) /\ h.behind => Alert(pm')
        BY <2>2 DEF Alert
      <3>3. Booted(pm') <=> Booted(Served)
        BY <2>2 DEF Booted
      <3>4. Aware(pm', slots, written)
        BY <2>2, <3>1, <3>3 DEF Watchful, Aware, Read
      <3> QED BY <2>2, <3>1, <3>2, <3>3, <3>4 DEF Watchful, Read
    <2> QED BY <1>4, <1>6, <2>1, <2>2, <2>3
  <1>14. CASE RefuseWatch \/ DropCall
    <2>1. pm.calls # <<>> /\ UNCHANGED <<slots, devices, written>> /\ pm' = Served
      BY <1>14 DEF RefuseWatch, DropCall, Serves
    <2> HIDE DEF h
    <2> QED BY <1>4, <1>5, <1>6, <2>1
  <1>15. CASE FireWatch
    <2> DEFINE r == [kind |-> "fired"]
               m == [pm EXCEPT !.watch = "none"]
    <2>1. pm.watch = "behind" /\ UNCHANGED <<slots, devices, written>> /\ pm' = Replied(m, r)
      BY <1>15 DEF FireWatch
    <2>2. r \in ReplyMessage /\ r.kind = "fired" /\ Answers(r, slots, written)
      BY DEF ReplyMessage, Answers
    <2>3. /\ m \in MemoryType /\ m.aggregate = pm.aggregate /\ m.behind = pm.behind
          /\ m.calls = pm.calls /\ m.replies = pm.replies /\ m.watch = "none"
      BY <1>1 DEF MemoryType
    <2> HIDE DEF r, m, h
    <2>4. pm'.aggregate = pm.aggregate
      BY <1>3, <2>1, <2>3
    <2>5. (Alert(pm) => Alert(m)) /\ (Booted(pm) => Booted(m))
      BY <2>3 DEF Alert, Booted
    <2>6. ASSUME up
          PROVE  Good(Replied(m, r))
      <3>1. Good(m)
        BY <1>1, <2>3, <2>5, <2>6 DEF Watchful, Aware, Read
      <3> QED BY <2>2, <2>3, <3>1, RepliedWatchful
    <2> QED BY <1>6, <2>1, <2>4, <2>6
  <1> QED BY <1>8, <1>9, <1>10, <1>11, <1>12, <1>13, <1>14, <1>15 DEF Database


(* At a start all that was ever written is news. *)
LEMMA StartWatchful ==
  ASSUME TypeInv, RetriesInv, CurrentInv, Start
  PROVE  CurrentInv'
  <1> DEFINE m == [pm EXCEPT !.behind = written]
             x == [kind |-> "del"]
  <1>1. /\ pm \in MemoryType /\ written \in BOOLEAN /\ Down(pm)
        /\ pm.aggregate = DefaultPolicy
        /\ ~written => Unwritten(slots, devices)
        /\ UNCHANGED <<slots, devices, written>> /\ up' = TRUE
    BY DEF TypeInv, DeviceTypeOK, RetriesInv, CurrentInv, Start
  <1>2. m \in MemoryType /\ m.behind = written /\ m.aggregate = DefaultPolicy
        /\ m.calls = pm.calls /\ m.replies = pm.replies /\ m.watch = pm.watch
    BY <1>1 DEF MemoryType
  <1>3. x \in Call /\ x.kind = "del"
    BY DEF Call
  <1>4. pm' = Send(m, x)
    BY DEF Start
  <1>5. pm.replies = <<>> /\ Alert(pm)
    BY <1>1 DEF Down, Deleting, None, Alert
  <1>6. Alert(m)
    BY <1>2, <1>5 DEF Alert
  <1> HIDE DEF m, x
  <1>7. /\ pm'.aggregate = DefaultPolicy /\ pm'.behind = written
        /\ pm'.replies = <<>> /\ Alert(pm')
    BY <1>2, <1>3, <1>4, <1>5, <1>6, SentWatchful
  <1>8. AllAnswer(pm'.replies, slots, written)
    BY <1>7 DEF AllAnswer
  <1>9. ~written => Read(pm', slots)
    BY <1>7, UnwrittenRead
  <1>10. Watchful(pm', slots, written)
    BY <1>7, <1>8, <1>9 DEF Watchful, Aware
  <1> QED BY <1>1, <1>10 DEF CurrentInv

LEMMA RetriesWatchful ==
  ASSUME NEW m \in MemoryType, WatchOnce(m), NEW s, NEW w, Watchful(m, s, w)
  PROVE  /\ Watchful(PasswordEnforced(m), s, w)
         /\ Watchful(DecrementRetries(m), s, w)
         /\ Watchful(ResetRetries(m), s, w)
  <1> DEFINE p == [m EXCEPT !.isEnforced = TRUE, !.retriesLeft = m.aggregate.maxRetries]
             d == [m EXCEPT !.retriesLeft = IF @ > 0 THEN @ - 1 ELSE @]
             r == [m EXCEPT !.retriesLeft = m.aggregate.maxRetries]
  <1>1. m.aggregate.maxRetries \in Nat /\ m.retriesLeft \in Nat
    BY DEF MemoryType, Policy
  <1>2. p \in MemoryType /\ SameWatch(m, p) /\ SameNews(m, p)
    BY <1>1 DEF MemoryType, SameWatch, SameNews
  <1>3. d \in MemoryType /\ SameWatch(m, d) /\ SameNews(m, d)
    <2>1. (IF m.retriesLeft > 0 THEN m.retriesLeft - 1 ELSE m.retriesLeft) \in Nat
      BY <1>1
    <2> QED BY <2>1 DEF MemoryType, SameWatch, SameNews
  <1>4. r \in MemoryType /\ SameWatch(m, r) /\ SameNews(m, r)
    BY <1>1 DEF MemoryType, SameWatch, SameNews
  <1>5. /\ PasswordEnforced(m) = IF PolicyPending(m) THEN Save(SlotPolicyChanged(p)) ELSE m
        /\ DecrementRetries(m) = Save(d) /\ ResetRetries(m) = Save(r)
    BY DEF PasswordEnforced, DecrementRetries, ResetRetries
  <1> HIDE DEF p, d, r
  <1> DEFINE q == SlotPolicyChanged(p)
  <1>6. q \in MemoryType /\ SameWatch(p, q) /\ SameNews(p, q)
    BY <1>2, SlotNews
  <1> HIDE DEF q
  <1>7. Aware(m, s, w)
    BY DEF Watchful
  <1>8. /\ WatchOnce(p) /\ WatchOnce(d) /\ WatchOnce(r)
        /\ Aware(p, s, w) /\ Aware(d, s, w) /\ Aware(r, s, w)
    BY <1>2, <1>3, <1>4, <1>7, SameOnce, SameWatchful
  <1>9. WatchOnce(q) /\ Aware(q, s, w)
    BY <1>6, <1>8, SameOnce, SameWatchful
  <1>10. Watchful(Save(q), s, w) /\ Watchful(Save(d), s, w) /\ Watchful(Save(r), s, w)
    BY <1>3, <1>4, <1>6, <1>8, <1>9, SaveWatchful
  <1> QED BY <1>5, <1>10 DEF q

LEMMA ClientsWatchful ==
  ASSUME TypeInv, WatchOnce(pm), CurrentInv,
         \/ \E c \in Passcodes \cup {NoPasscode}, d \in DiskFails \cup {"no"} : SetPasscode(c, d)
         \/ MatchLockedOut \/ MatchWrong \/ MatchRight \/ TimePasses
  PROVE  CurrentInv'
  <1> DEFINE Good(m) == Watchful(m, slots, written)
  <1>1. up /\ UNCHANGED <<up, slots, devices, written>>
    BY DEF SetPasscode, MatchLockedOut, MatchWrong, MatchRight, TimePasses, ClientCalls,
           elsewhere
  <1>2. pm \in MemoryType /\ Good(pm)
    BY <1>1 DEF TypeInv, DeviceTypeOK, CurrentInv
  <1>3. SUFFICES Good(pm')
    BY <1>1 DEF CurrentInv
  <1>4. CASE \E c \in Passcodes \cup {NoPasscode}, d \in DiskFails \cup {"no"} :
               SetPasscode(c, d)
    BY <1>2, <1>4, RetriesWatchful DEF SetPasscode
  <1>5. CASE MatchLockedOut \/ TimePasses
    <2>1. SameNews(pm, pm')
      BY <1>2, <1>5 DEF MatchLockedOut, TimePasses, MemoryType, SameNews
    <2> QED BY <1>2, <2>1, SameWatchful
  <1>6. Attempt \in MemoryType /\ SameWatch(pm, Attempt) /\ SameNews(pm, Attempt)
    BY <1>2 DEF MemoryType, Attempt, DefaultMaxRetries, SameWatch, SameNews
  <1>7. Good(Attempt) /\ WatchOnce(Attempt)
    BY <1>2, <1>6, SameOnce, SameWatchful
  <1>8. CASE MatchWrong
    <2> DEFINE m == [Attempt EXCEPT !.numRetries = IF @ > 0 THEN @ - 1 ELSE @,
                                    !.lastFailure = "recent"]
               n == DecrementRetries(m)
               o == [n EXCEPT !.numRetries = n.retriesLeft,
                              !.wiping = @ \/ n.retriesLeft = 0]
    <2>1. Attempt.numRetries \in Nat
      BY <1>6 DEF MemoryType
    <2>2. (IF Attempt.numRetries > 0 THEN Attempt.numRetries - 1
                                     ELSE Attempt.numRetries) \in Nat
      BY <2>1
    <2>3. m \in MemoryType /\ SameWatch(Attempt, m) /\ SameNews(Attempt, m)
      BY <1>6, <2>2 DEF MemoryType, SameWatch, SameNews
    <2>4. pm' = IF CountsRetries(m) THEN o ELSE m
      BY <1>8 DEF MatchWrong
    <2> HIDE DEF m
    <2>5. Good(m) /\ WatchOnce(m)
      BY <1>7, <2>3, SameOnce, SameWatchful
    <2>6. n \in MemoryType /\ Good(n)
      BY <2>3, <2>5, RetriesType, RetriesWatchful
    <2> HIDE DEF n
    <2>7. SameNews(n, o)
      BY <2>6 DEF MemoryType, SameNews
    <2> QED BY <2>4, <2>5, <2>6, <2>7, SameWatchful
  <1>9. CASE MatchRight
    <2> DEFINE n == ResetRetries(Attempt)
               o == [n EXCEPT !.numRetries = n.retriesLeft]
               q == [Attempt EXCEPT !.numRetries =
                       IF PolicyPending(pm) THEN DefaultMaxRetries ELSE 0]
    <2>1. pm' = IF CountsRetries(pm) THEN o ELSE q
      BY <1>9 DEF MatchRight
    <2>2. n \in MemoryType /\ Good(n)
      BY <1>6, <1>7, RetriesType, RetriesWatchful
    <2> HIDE DEF n
    <2>3. SameNews(n, o) /\ SameNews(Attempt, q)
      BY <1>6, <2>2 DEF MemoryType, SameNews
    <2> QED BY <1>7, <2>1, <2>2, <2>3, SameWatchful
  <1> QED BY <1>4, <1>5, <1>8, <1>9

LEMMA InitCurrent == Init => CurrentInv
  BY DEF Init, CurrentInv, Memory, Unwritten

LEMMA WorldWatchful ==
  ASSUME TypeInv, WatchOnce(pm), CurrentInv, World \/ TimePasses
  PROVE  CurrentInv'
  <1>1. pm \in MemoryType
    BY DEF TypeInv, DeviceTypeOK
  <1>2. CASE Crash
    BY <1>2 DEF Crash, Memory, CurrentInv
  <1>3. CASE CbDeviceWipe
    <2>1. CASE /\ up /\ pm' = [pm EXCEPT !.wiping = FALSE] /\ UNCHANGED elsewhere
      <3>1. SameNews(pm, pm')
        BY <1>1, <2>1 DEF MemoryType, SameNews
      <3> QED BY <2>1, <3>1, SameWatchful DEF CurrentInv, elsewhere
    <2>2. CASE /\ up' = FALSE /\ pm' = Memory
               /\ slots' = [a \in Accounts |-> NoPolicy]
               /\ devices' = <<>> /\ written' = FALSE
      BY <2>2 DEF CurrentInv, Memory, Unwritten
    <2> QED BY <1>3, <2>1, <2>2 DEF CbDeviceWipe
  <1>4. CASE \E a \in Accounts : ChangePolicy(a)
    <2>1. pm' = Behind(pm) /\ written' = TRUE /\ up' = up
      BY <1>4 DEF ChangePolicy, program
    <2>2. Behind(pm).aggregate = pm.aggregate
      BY <1>1 DEF Behind, MemoryType
    <2>3. up => Watchful(Behind(pm), slots', TRUE)
      BY <1>1, BehindWatchful
    <2> QED BY <2>1, <2>2, <2>3 DEF CurrentInv
  <1> QED BY <1>2, <1>3, <1>4, ClientsWatchful DEF World

LEMMA CurrentInvariant == Spec => []CurrentInv
  <1>1. TypeInv /\ WatchOnce(pm) /\ RetriesInv /\ CurrentInv /\ [Next]_vars => CurrentInv'
    <2> SUFFICES ASSUME TypeInv, WatchOnce(pm), RetriesInv, CurrentInv, [Next]_vars
                 PROVE  CurrentInv'
      OBVIOUS
    <2>1. CASE UNCHANGED vars
      BY <2>1 DEF vars, CurrentInv
    <2> QED BY <2>1, CallbacksWatchful, DatabaseWatchful, StartWatchful, WorldWatchful
         DEF Next, Reaction
  <1> QED BY <1>1, InitCurrent, TypesInvariant, WatchOnceInvariant, RetriesInvariant, PTL
       DEF Spec

(* Whatever the database refuses, whenever clients call and the program    *)
(* dies, as long as every policy asks for a time of inactivity that the    *)
(* code can compare: while the database watches and has nothing to report, *)
(* the policy in force is the strictest of all those in the database.  No  *)
(* change falls between the query, the saving and the watch.               *)
THEOREM WatchedIsCurrentAlways ==
  ASSUME \A a \in Accounts : \A p \in Policies[a] : Timely(p)
  PROVE  Spec => []WatchedIsCurrent
  <1>1. TypeInv /\ RetriesInv /\ CurrentInv => WatchedIsCurrent
    <2> SUFFICES ASSUME TypeInv, RetriesInv, CurrentInv, pm.watch = "set"
                 PROVE  Adopted
      BY DEF WatchedIsCurrent
    <2>1. up
      BY DEF RetriesInv, Down, Deleting, TypeInv, DeviceTypeOK
    <2>2. pm.aggregate = Aggregate(slots)
      BY <2>1 DEF CurrentInv, Watchful, Alert, Read
    <2>3. slots \in Seq(Policy \cup {NoPolicy}) /\ DOMAIN slots = 1 .. NumAccounts
      BY SecurityAssumption, SeqOf DEF SecurityAssumption, Accounts, TypeInv
    <2>4. Len(slots) = NumAccounts
      BY <2>3, SecurityAssumption DEF SecurityAssumption
    <2>5. \A n \in 1 .. Len(slots) : slots[n] # NoPolicy => Timely(slots[n])
      BY <2>4 DEF TypeInv, DeviceTypeOK, Accounts
    <2>6. StrictestOf(Aggregate(slots), Live(slots, Len(slots)))
      BY <2>3, <2>5, AggregateStrictest
    <2>7. Live(slots, Len(slots)) = LivePolicies
      BY <2>4 DEF Live, LivePolicies, Accounts
    <2> QED BY <2>1, <2>2, <2>6, <2>7 DEF Adopted
  <1> QED BY <1>1, TypesInvariant, RetriesInvariant, CurrentInvariant, PTL

=============================================================================
