--------------------------- MODULE DeviceSecurity ---------------------------
(***************************************************************************)
(* The policy manager of Src/base/EASPolicyManager.cpp and the passcode of *)
(* Src/base/Security.cpp, which call each other, with the database they    *)
(* keep the policies in.                                                   *)
(*                                                                         *)
(* The database, com.palm.db on the bus, is another program.  Accounts put *)
(* their policies in it.  The manager reads them, merges them into one     *)
(* device policy, and writes that back with its status: whether the        *)
(* passcode is known to satisfy it, and how many wrong passcodes may still *)
(* be given.  It asks the database to be told of changes, by a watch that  *)
(* is good for one report.  Calls to the database do not wait; they are    *)
(* served and replied to in order, and a call that has been sent reaches   *)
(* the database although the program dies.                                 *)
(*                                                                         *)
(* Revisions count the writes to the database.  The code compares them in  *)
(* one way only, whether anything was written since the revision it knows, *)
(* and so every place that holds one holds that answer: behind.            *)
(***************************************************************************)
EXTENDS EASPolicy

CONSTANTS
  NumAccounts, \* the accounts that may have a policy
  Temporary,   \* the accounts whose policies do not outlive the program
  Policies,    \* the policies that each of them may ask for
  Passcodes,   \* the passcodes that may be set
  Refusable,   \* the calls that the database may refuse
  DiskFails,   \* the steps of writing the passcode file that may fail
  Hasty,       \* clients call before the device policy has been loaded
  MaxCalls,    \* bound: calls under way when a client calls, or at a start
  MaxDevices,  \* bound: device policies in the database
  MaxTries     \* bound: wrong passcodes in a row that are told apart

ASSUME SecurityAssumption ==
  /\ NumAccounts \in Nat
  /\ Temporary \subseteq 1 .. NumAccounts
  /\ Policies \in [1 .. NumAccounts -> SUBSET Policy]
  /\ Passcodes \subseteq Passcode
  /\ Refusable \subseteq {"del", "findDevice", "find", "save", "watch"}
  /\ DiskFails \subseteq {"creat", "write", "rename"}
  /\ Hasty \in BOOLEAN
  /\ MaxCalls \in Nat
  /\ MaxDevices \in Nat
  /\ MaxTries \in Nat

VARIABLES
  up,        \* the program is running
  pm,        \* its memory, and what it has under way with the database
  stored,    \* the passcode file
  slots,     \* database: the policy of each account
  devices,   \* database: the device policies, of which there should be one
  written,   \* database: something has been written to it
  tries      \* history: wrong passcodes since a right or an enforced one

(* In the order in which the database lists them. *)
Accounts == 1 .. NumAccounts

vars == <<up, pm, stored, slots, devices, written, tries>>

NoObject == [id |-> 0]

DefaultMaxRetries == 3     \* s_defaultMaxRetries

DevicePolicy == [policy: Policy, enforced: BOOLEAN, retries: Nat]

(* The program's memory at its start. *)
Memory ==
  [aggregate |-> DefaultPolicy,   \* m_aggregate
   id |-> 0,                      \* its m_id; 0 is ""
   isEnforced |-> FALSE,          \* m_isEnforced
   retriesLeft |-> 0,             \* m_retriesLeft
   behind |-> FALSE,              \* something is newer than m_lastRev
   token |-> FALSE,               \* m_callToken is not 0
   numRetries |-> DefaultMaxRetries,   \* m_numRetries
   lastFailure |-> "never",       \* lastFailure: "recent" is within 15 s
   loaded |-> FALSE,              \* the device policy has been received
   wiping |-> FALSE,              \* the device is being erased
   calls |-> <<>>,                \* calls the database has not served
   replies |-> <<>>,              \* replies not received
   watch |-> "none"]              \* the watch that the database keeps

Init ==
  /\ up = FALSE
  /\ pm = Memory
  /\ stored = NoPasscode
  /\ slots = [a \in Accounts |-> NoPolicy]
  /\ devices = <<>>
  /\ written = FALSE
  /\ tries = 0

PolicyPending(m) == ~m.isEnforced

-----------------------------------------------------------------------------
(* Calls to the database.                                                  *)

Send(m, call) == [m EXCEPT !.calls = Append(@, call)]

(* LSCallCancel: nobody waits for the watch any more, nor for a report of  *)
(* it that is already on its way.                                          *)
Void(messages, kind) ==
  [i \in DOMAIN messages |->
     IF messages[i].kind = kind THEN [kind |-> "void"] ELSE messages[i]]

CancelWatch(m) ==
  IF ~m.token THEN m
  ELSE [m EXCEPT !.token = FALSE,
                 !.watch = "none",
                 !.calls = Void(@, "watch"),
                 !.replies = Void(@, "fired")]

(* Mutant: the old watch is left to itself. *)
WatchSecurityPoliciesUncancelled(m) ==
  [Send(m, [kind |-> "watch", behind |-> m.behind]) EXCEPT !.token = TRUE]

WatchSecurityPolicies(m) ==
  [Send(CancelWatch(m), [kind |-> "watch", behind |-> m.behind])
     EXCEPT !.token = TRUE]

QueryDevicePolicy(m) == Send(m, [kind |-> "findDevice"])
QuerySecurityPolicies(m) == Send(m, [kind |-> "find"])

(* The device policy goes into the object it came from or was put in. *)
Save(m) ==
  Send(CancelWatch(m),
       [kind |-> "save", id |-> m.id,
        object |-> [policy |-> m.aggregate, enforced |-> m.isEnforced,
                    retries |-> m.retriesLeft]])

-----------------------------------------------------------------------------
(* Changes of the policy.                                                  *)

(* readDecryptedPasscode(): nothing decrypts what readPasscode() reads, so *)
(* there is no passcode to be had from the file.                           *)
DecryptedPasscode == NoPasscode

PasscodeSatisfiesPolicy(p) ==
  \/ ~p.passwordRequired
  \/ DecryptedPasscode # NoPasscode /\ Satisfies(DecryptedPasscode, p)

(* Security's slot for signalPolicyChanged. *)
SlotPolicyChanged(m) ==
  IF ~ValidMaxRetries(m.aggregate) /\ ~PolicyPending(m)
    THEN [m EXCEPT !.numRetries = 0] ELSE m

(* Mutant: a passcode that satisfied the old policy passes for the new. *)
NotifyPolicyChangedUntested(m) == Save(SlotPolicyChanged(m))

NotifyPolicyChanged(m) ==
  Save(SlotPolicyChanged(
    [m EXCEPT !.isEnforced = PasscodeSatisfiesPolicy(m.aggregate)]))

(* setDevicePolicy(), without a policy and with what was found. *)
SetDefaultPolicy(m) ==
  NotifyPolicyChanged([m EXCEPT !.aggregate = DefaultPolicy, !.id = 0,
                                !.behind = written])

SetDevicePolicy(m, found) ==
  [m EXCEPT !.aggregate = found.object.policy,
            !.id = found.id,
            !.behind = written,
            !.isEnforced = found.object.enforced,
            !.retriesLeft = found.object.retries]

(* Mutant: the retries left are those of the old policy. *)
UpdateDevicePolicyKeeps(m, policies, behind) ==
  LET aggregate == Aggregate(policies)
      n == [m EXCEPT !.aggregate = aggregate, !.behind = behind]
  IN IF aggregate = m.aggregate
       THEN WatchSecurityPolicies(n)
       ELSE NotifyPolicyChanged(n)

UpdateDevicePolicy(m, policies, behind) ==
  LET aggregate == Aggregate(policies)
      n == [m EXCEPT !.aggregate = aggregate,
                     !.behind = behind,
                     !.retriesLeft = IF aggregate.maxRetries # m.aggregate.maxRetries
                                       THEN aggregate.maxRetries ELSE @]
  IN IF aggregate = m.aggregate
       THEN WatchSecurityPolicies(n)
       ELSE NotifyPolicyChanged(n)

PasswordEnforced(m) ==
  IF PolicyPending(m)
    THEN Save(SlotPolicyChanged([m EXCEPT !.isEnforced = TRUE,
                                          !.retriesLeft = m.aggregate.maxRetries]))
    ELSE m

(* Mutant: the count is kept in memory only. *)
DecrementRetriesUnsaved(m) ==
  [m EXCEPT !.retriesLeft = IF @ > 0 THEN @ - 1 ELSE @]

(* decrementRetries() and resetRetries(), when retries are counted at all. *)
CountsRetries(m) == ValidMaxRetries(m.aggregate) /\ ~PolicyPending(m)

(* Mutant: the count goes on below zero. *)
DecrementRetriesBelow(m) == Save([m EXCEPT !.retriesLeft = @ - 1])

DecrementRetries(m) ==
  Save([m EXCEPT !.retriesLeft = IF @ > 0 THEN @ - 1 ELSE @])

ResetRetries(m) == Save([m EXCEPT !.retriesLeft = m.aggregate.maxRetries])

-----------------------------------------------------------------------------
(* Replies of the database, in the order they come.                        *)

elsewhere == <<up, stored, slots, devices, written, tries>>

Reply(kind) ==
  /\ up
  /\ pm.replies # <<>>
  /\ Head(pm.replies).kind = kind

Received == [pm EXCEPT !.replies = Tail(@)]

(* Whether the temporary policies have been deleted makes no difference.   *)
CbTempPoliciesDeleted ==
  /\ Reply("deleted")
  /\ pm' = QueryDevicePolicy(Received)
  /\ UNCHANGED elsewhere

(* An error is taken for a database without a device policy. *)
CbDevicePolicy ==
  /\ Reply("device")
  /\ LET found == Head(pm.replies).found
         m == [Received EXCEPT !.loaded = TRUE]
     IN pm' = QuerySecurityPolicies(
                IF found.id = 0 THEN SetDefaultPolicy(m)
                                ELSE SetDevicePolicy(m, found))
  /\ UNCHANGED elsewhere

(* An error ends it: no watch is set. *)
CbSecurityPolicy ==
  /\ Reply("policies")
  /\ LET r == Head(pm.replies)
     IN pm' = IF r.ok THEN UpdateDevicePolicy(Received, r.policies, r.behind)
                      ELSE Received
  /\ UNCHANGED elsewhere

(* Mutant: what the save has written counts as seen. *)
CbDevicePolicySavedSeen ==
  /\ Reply("saved")
  /\ LET id == Head(pm.replies).id
     IN pm' = WatchSecurityPolicies(
                [Received EXCEPT !.id = IF id # 0 THEN id ELSE @,
                                 !.behind = IF id # 0 THEN FALSE ELSE @])
  /\ UNCHANGED elsewhere

(* Mutant: the object that was put is not remembered. *)
CbDevicePolicySavedForgets ==
  /\ Reply("saved")
  /\ pm' = WatchSecurityPolicies(Received)
  /\ UNCHANGED elsewhere

CbDevicePolicySaved ==
  /\ Reply("saved")
  /\ LET id == Head(pm.replies).id
     IN pm' = WatchSecurityPolicies(
                [Received EXCEPT !.id = IF id # 0 THEN id ELSE @])
  /\ UNCHANGED elsewhere

(* The watch has fired; its errors and its first answer change nothing. *)
CbWatchResponse ==
  /\ Reply("fired")
  /\ pm' = QuerySecurityPolicies([Received EXCEPT !.token = FALSE])
  /\ UNCHANGED elsewhere

(* The library drops a report of a watch that has been cancelled. *)
DropReply ==
  /\ Reply("void")
  /\ pm' = Received
  /\ UNCHANGED elsewhere

(* The device has been erased and the program ends, or it goes on. *)
CbDeviceWipe ==
  /\ up
  /\ pm.wiping
  /\ \/ /\ pm' = [pm EXCEPT !.wiping = FALSE]
        /\ UNCHANGED elsewhere
     \/ /\ up' = FALSE
        /\ pm' = Memory
        /\ stored' = NoPasscode
        /\ slots' = [a \in Accounts |-> NoPolicy]
        /\ devices' = <<>>
        /\ written' = FALSE
        /\ tries' = 0

-----------------------------------------------------------------------------
(* Calls of clients.                                                       *)

Room == Len(pm.calls) + Len(pm.replies) < MaxCalls

ClientCalls == up /\ Room /\ (Hasty \/ pm.loaded)

Invalid(c) == ~Satisfies(c, pm.aggregate)

(* What becomes of the passcode file; disk is the step that fails. *)
FileAfter(c, disk) ==
  IF disk \in {"creat", "rename"} \/ Invalid(c) THEN stored
  ELSE IF c.mode = "none" THEN NoPasscode
  ELSE IF c.mode \notin StoredModes THEN stored
  ELSE IF disk = "write" THEN Garbage
  ELSE c

(* Whether the file is written, with whatever. *)
Replaced(c, disk) ==
  c.mode \in StoredModes /\ disk \in {"no", "write"} /\ ~Invalid(c)

SetPasscode(c, disk) ==
  LET replaced == Replaced(c, disk)
  IN /\ ClientCalls
     /\ disk # "no" => c.mode \in StoredModes /\ ~Invalid(c)
     /\ stored' = FileAfter(c, disk)
     /\ pm' = IF replaced THEN PasswordEnforced(pm) ELSE pm
     /\ tries' = IF replaced /\ PolicyPending(pm) THEN 0 ELSE tries
     /\ UNCHANGED <<up, slots, devices, written>>

(* No more attempts until the time since the last is up; the first call of *)
(* all starts that time.                                                   *)
Lockable == PolicyPending(pm) /\ pm.numRetries = 0
LockedOut == Lockable /\ pm.lastFailure # "past"

Attempt ==
  [pm EXCEPT !.numRetries = IF Lockable THEN DefaultMaxRetries ELSE @,
             !.lastFailure = IF @ = "never" THEN "recent" ELSE @]

MatchLockedOut ==
  /\ ClientCalls
  /\ LockedOut
  /\ pm' = [pm EXCEPT !.lastFailure = "recent"]
  /\ UNCHANGED elsewhere

MatchWrong ==
  /\ ClientCalls
  /\ ~LockedOut
  /\ LET m == [Attempt EXCEPT !.numRetries = IF @ > 0 THEN @ - 1 ELSE @,
                              !.lastFailure = "recent"]
         n == DecrementRetries(m)
     IN pm' = IF CountsRetries(m)
                THEN [n EXCEPT !.numRetries = n.retriesLeft,
                               !.wiping = @ \/ n.retriesLeft = 0]
                ELSE m
  /\ tries' = IF tries < MaxTries THEN tries + 1 ELSE tries
  /\ UNCHANGED <<up, stored, slots, devices, written>>

MatchRight ==
  /\ ClientCalls
  /\ ~LockedOut
  /\ stored \in Passcodes
  /\ LET n == ResetRetries(Attempt)
     IN pm' = IF CountsRetries(pm)
                THEN [n EXCEPT !.numRetries = n.retriesLeft]
                ELSE [Attempt EXCEPT !.numRetries =
                        IF PolicyPending(pm) THEN DefaultMaxRetries ELSE 0]
  /\ tries' = 0
  /\ UNCHANGED <<up, stored, slots, devices, written>>

(* s_deviceLockOutDuration has passed since the last failure. *)
TimePasses ==
  /\ up
  /\ pm.lastFailure = "recent"
  /\ pm' = [pm EXCEPT !.lastFailure = "past"]
  /\ UNCHANGED elsewhere

-----------------------------------------------------------------------------
(* The program's life.                                                     *)

(* Security() reads the lock mode, and drops a file that has none; load()  *)
(* starts with the temporary policies.                                     *)
Start ==
  /\ ~up
  /\ Room
  /\ up' = TRUE
  /\ stored' = IF stored = Garbage THEN NoPasscode ELSE stored
  /\ pm' = Send([pm EXCEPT !.behind = written], [kind |-> "del"])
  /\ UNCHANGED <<slots, devices, written, tries>>

(* Its replies and its watch are gone.  Of the calls it has sent only the  *)
(* saves matter, which nobody will receive the reply to: the deletion is   *)
(* repeated by the next start.                                             *)
Orphans ==
  [i \in DOMAIN pm.calls |->
     IF pm.calls[i].kind \in {"save", "orphan"}
       THEN [kind |-> "orphan", id |-> pm.calls[i].id, object |-> pm.calls[i].object]
       ELSE [kind |-> "void"]]

Crash ==
  /\ up
  /\ up' = FALSE
  /\ pm' = [Memory EXCEPT !.calls = Orphans]
  /\ UNCHANGED <<stored, slots, devices, written, tries>>

-----------------------------------------------------------------------------
(* The database.                                                           *)

(* After a write, everything known about the database is behind.           *)
Behind(m) ==
  [m EXCEPT
    !.behind = up,
    !.watch = IF @ = "none" THEN @ ELSE "behind",
    !.calls = [i \in DOMAIN @ |->
                 IF @[i].kind = "watch" THEN [@[i] EXCEPT !.behind = TRUE]
                                        ELSE @[i]],
    !.replies = [i \in DOMAIN @ |->
                   IF @[i].kind = "policies" THEN [@[i] EXCEPT !.behind = TRUE]
                                             ELSE @[i]]]

(* The call at the head is served, with reply r.                           *)
Serves(kinds) == pm.calls # <<>> /\ Head(pm.calls).kind \in kinds

Served == [pm EXCEPT !.calls = Tail(@)]

Replied(m, r) == [m EXCEPT !.replies = Append(@, r)]

Saved(m, id) ==
  IF Head(pm.calls).kind = "save" THEN Replied(m, [kind |-> "saved", id |-> id])
                                  ELSE m

program == <<up, stored, tries>>

ServeDel ==
  /\ Serves({"del"})
  /\ LET deleted == {a \in Temporary : slots[a] # NoPolicy}
         r == [kind |-> "deleted"]
     IN \/ /\ deleted # {}
           /\ slots' = [a \in Accounts |-> IF a \in deleted THEN NoPolicy ELSE slots[a]]
           /\ pm' = Replied(Behind(Served), r)
        \/ /\ deleted = {} \/ "del" \in Refusable
           /\ slots' = slots
           /\ pm' = Replied(Served, r)
  /\ UNCHANGED <<program, devices, written>>

(* If there are several, any may come first. *)
ServeFindDevice ==
  /\ Serves({"findDevice"})
  /\ \E found \in {[id |-> i, object |-> devices[i]] : i \in DOMAIN devices}
                    \cup {NoObject} :
       /\ found.id = 0 => devices = <<>> \/ "findDevice" \in Refusable
       /\ pm' = Replied(Served, [kind |-> "device", found |-> found])
  /\ UNCHANGED <<program, slots, devices, written>>

ServeFind ==
  /\ Serves({"find"})
  /\ \E ok \in BOOLEAN :
       /\ ok \/ "find" \in Refusable
       /\ pm' = Replied(Served, [kind |-> "policies", ok |-> ok,
                                 policies |-> IF ok THEN slots ELSE <<>>,
                                 behind |-> FALSE])
  /\ UNCHANGED <<program, slots, devices, written>>

(* put, or merge into the object with that id. *)
ServeSave ==
  /\ Serves({"save", "orphan"})
  /\ LET c == Head(pm.calls)
         id == IF c.id = 0 THEN Len(devices) + 1 ELSE c.id
     IN /\ id <= MaxDevices
        /\ devices' = IF c.id = 0 THEN Append(devices, c.object)
                                  ELSE [devices EXCEPT ![id] = c.object]
        /\ pm' = Saved(Behind(Served), id)
  /\ written' = TRUE
  /\ UNCHANGED <<program, slots>>

RefuseSave ==
  /\ Serves({"save", "orphan"})
  /\ "save" \in Refusable
  /\ pm' = Saved(Served, 0)
  /\ UNCHANGED <<program, slots, devices, written>>

ServeWatch ==
  /\ Serves({"watch"})
  /\ pm' = [Served EXCEPT !.watch = IF Head(pm.calls).behind THEN "behind" ELSE "set"]
  /\ UNCHANGED <<program, slots, devices, written>>

RefuseWatch ==
  /\ Serves({"watch"})
  /\ "watch" \in Refusable
  /\ pm' = Served
  /\ UNCHANGED <<program, slots, devices, written>>

DropCall ==
  /\ Serves({"void"})
  /\ pm' = Served
  /\ UNCHANGED <<program, slots, devices, written>>

FireWatch ==
  /\ pm.watch = "behind"
  /\ pm' = Replied([pm EXCEPT !.watch = "none"], [kind |-> "fired"])
  /\ UNCHANGED <<program, slots, devices, written>>

(* An account changes its policy, or drops it. *)
ChangePolicy(a) ==
  /\ \E p \in (Policies[a] \cup {NoPolicy}) \ {slots[a]} : slots' = [slots EXCEPT ![a] = p]
  /\ written' = TRUE
  /\ pm' = Behind(pm)
  /\ UNCHANGED <<program, devices>>

-----------------------------------------------------------------------------
Callbacks ==
  \/ CbTempPoliciesDeleted
  \/ CbDevicePolicy
  \/ CbSecurityPolicy
  \/ CbDevicePolicySaved
  \/ CbWatchResponse
  \/ DropReply

Database ==
  \/ ServeDel
  \/ ServeFindDevice
  \/ ServeFind
  \/ ServeSave
  \/ RefuseSave
  \/ ServeWatch
  \/ RefuseWatch
  \/ DropCall
  \/ FireWatch

(* What nobody can be held to do, or not to do. *)
World ==
  \/ \E c \in Passcodes \cup {NoPasscode}, d \in DiskFails \cup {"no"} : SetPasscode(c, d)
  \/ MatchLockedOut
  \/ MatchWrong
  \/ MatchRight
  \/ Crash
  \/ CbDeviceWipe
  \/ \E a \in Accounts : ChangePolicy(a)

(* What the program and the database do of their own accord. *)
Reaction == Callbacks \/ Database \/ Start

Next == Reaction \/ World \/ TimePasses

(* The main loop receives every reply, the database serves every call and  *)
(* reports what it watches, and systemd starts the program again.  One of  *)
(* them is bound to go on while any can; the order they come in is open.   *)
Fairness == WF_vars(Reaction)

Spec == Init /\ [][Next]_vars /\ Fairness

-----------------------------------------------------------------------------
(* Type invariant. *)
Call ==
  [kind: {"del", "findDevice", "find", "void"}]
    \cup [kind: {"save", "orphan"}, id: Nat, object: DevicePolicy]
    \cup [kind: {"watch"}, behind: BOOLEAN]

ReplyMessage ==
  [kind: {"deleted", "fired", "void"}]
    \cup [kind: {"device"}, found: [id: Nat, object: DevicePolicy] \cup {NoObject}]
    \cup [kind: {"policies"}, ok: BOOLEAN, policies: Seq(Policy \cup {NoPolicy}), behind: BOOLEAN]
    \cup [kind: {"saved"}, id: Nat]

MemoryType ==
  [aggregate: Policy, id: Nat, isEnforced: BOOLEAN, retriesLeft: Nat,
   behind: BOOLEAN, token: BOOLEAN, numRetries: Nat,
   lastFailure: {"never", "recent", "past"}, loaded: BOOLEAN, wiping: BOOLEAN,
   calls: Seq(Call), replies: Seq(ReplyMessage), watch: {"none", "set", "behind"}]

DeviceTypeOK ==
  /\ up \in BOOLEAN
  /\ pm \in MemoryType
  /\ stored \in Passcodes \cup {NoPasscode, Garbage}
  /\ DOMAIN slots = Accounts
  /\ \A a \in Accounts : slots[a] \in Policies[a] \cup {NoPolicy}
  /\ devices \in Seq(DevicePolicy)
  /\ written \in BOOLEAN
  /\ tries \in 0 .. MaxTries

(* EASPolicyManager.cpp:221 "Device policy > 1, BUG!": as long as the      *)
(* database refuses nothing of it and clients wait for it to be loaded,    *)
(* the manager puts one device policy at most, whatever calls are under    *)
(* way and whenever it dies.                                               *)
OneDevicePolicy == Len(devices) <= 1

(* Whatever the database refuses and whenever clients call: there are never *)
(* more retries left than the policy allows, with whichever of the stored  *)
(* device policies the program goes on after a restart.                    *)
RetriesWithinPolicy == pm.retriesLeft <= pm.aggregate.maxRetries

(* Whatever the database refuses: the database is never asked to keep two  *)
(* watches, and no report of an old one is mistaken for the new one's.     *)
OneWatch ==
  LET asked == {i \in DOMAIN pm.calls : pm.calls[i].kind = "watch"}
      fired == {i \in DOMAIN pm.replies : pm.replies[i].kind = "fired"}
  IN /\ \A i, j \in asked : i = j
     /\ \A i, j \in fired : i = j
     /\ asked # {} => fired = {} /\ pm.watch = "none"
     /\ fired # {} => pm.watch = "none"
     /\ asked # {} \/ fired # {} \/ pm.watch # "none" => pm.token

(* The policy state "active" means that the stored passcode satisfies the  *)
(* device policy: through any change of the policies while the program     *)
(* runs or does not, of the passcode, and any restart.                     *)
EnforcedFits ==
  up /\ pm.loaded /\ pm.isEnforced /\ pm.aggregate.passwordRequired =>
    stored \in Passcodes /\ Satisfies(stored, pm.aggregate)

(* "No repeating numbers (3333)", "No sequential numbers (1234)"           *)
(* (Security.cpp:215): under a policy that forbids them no passcode is     *)
(* stored that has a run of two characters more than half its length.  A   *)
(* run of just over half is missed if it begins with the end of another.   *)
LongRunsRefused ==
  [][ /\ stored' # stored
      /\ stored' \in Passcodes
      /\ pm.aggregate.passwordRequired
      /\ ~pm.aggregate.allowSimple
      => ~HasLongRun(stored'.text) ]_vars

(* The retries left are those of the policy less the wrong passcodes given *)
(* in a row, and no restart gives one back or takes one away: the device   *)
(* is erased at the last one, and not before.                              *)
RetriesCounted ==
  up /\ pm.loaded /\ CountsRetries(pm) =>
    pm.retriesLeft = IF tries < pm.aggregate.maxRetries
                       THEN pm.aggregate.maxRetries - tries ELSE 0

(* The manager enforces the strictest of all the policies in the database, *)
(* term by term.                                                           *)
LivePolicies == {slots[a] : a \in Accounts} \ {NoPolicy}

Adopted == up /\ StrictestOf(pm.aggregate, LivePolicies)

(* Whatever the database refuses, whenever clients call and the program    *)
(* dies: while the watch has nothing to report, the policy in force is the *)
(* strictest of all those in the database.  No change slips in between the *)
(* query of the policies, the saving of the device policy and the watch    *)
(* ("otherwise the watch will miss upates", EASPolicyManager.cpp:680).     *)
WatchedIsCurrent == pm.watch = "set" => Adopted

=============================================================================
