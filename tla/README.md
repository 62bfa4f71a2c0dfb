# luna-sysmgr in TLA+

luna-sysmgr is the system manager of a phone: it decides when the display is on,
dimmed, locked, docked or off, takes part in suspending the device, keeps the
security policies and the passcode, and serves a bus of programs that ask for
these things. All of it runs on **one GLib/Qt main loop**. A handler runs to its
end before the next is called, so what is hard here is not data races but

* the *order* in which keys, timers, bus calls, signals and completions arrive;
* handlers that *nest* (entering a state may lock the screen and so change the
  state again; starting the light sensor changes the region, which sets the
  brightness);
* counts and flags shared by clients that *vanish*;
* state *noted* before a suspend, an alert or a reply and used after it;
* other programs (powerd, the preferences and database services, the LED driver)
  that answer late, fail, die and return.

## 1. Inventory

| Component | Source (under `src/Src`) | State | Operations and partners | What makes it correct | Here |
|---|---|---|---|---|---|
| Display states | `base/DisplayStates.*` | eight state objects, five inactivity timers, what OffSuspended notes | 29 events, 5 timeouts, enter/leave; calls back into the display manager | timers belong to the current state; the lock follows the state; a passcode is not bypassed | modelled |
| Display manager | `base/DisplayManager.*`, `InputEventMonitor.cpp` | current state, lock state, DNAST, power-key and proximity counts, chargers, call, alert, panel/backlight flags | bus methods, signals of audiod, keys, chargers, dock, boot manager and powerd; LED completions; subscriptions that end | counts match their holders; panel and brightness follow the state; subscribers know what the panel does; a lit display goes dark | mostly |
| Suspend blocker | `base/SuspendBlocker.*` | client id, two registration flags | identify, register, answer two questions, suspend, resume; powerd restarts | no sleep with a lit display; registered with every powerd; every question answered | modelled |
| Security policies | `base/EASPolicyManager.*` | device policies, their aggregate, enforced, retries left, watch, in db8 | merge, watch, load, save, retries; Security | the strictest policy wins; retries never come back; changes are seen | modelled |
| Passcode | `base/Security.*` | mode, passcode | set, match, validate, policy changes; wipes the device | no match without the passcode; retries counted; policy satisfied | mostly |
| Ambient light sensor | `base/AmbientLightSensor.*` | region, started, on, counts of subscribers and of disabling calls | started and stopped by the display manager, signals a changed region to it; subscriptions | measures when the panel needs it and at no other time; disabled while a client asks | modelled |
| Haptics controller | `base/HapticsController*` | table from messages to effects | two ways to vibrate; a client cancels or is gone; the nyx device | effects end with their client, and with no other | modelled |
| System service | `base/SystemService.*` | flags of the mass storage mode and of modal applications | about 60 bus methods that become signals and calls of other parts | - | not modelled, see section 2 |
| Backup manager | `base/BackupManager.*` | none across calls | pre-backup, post-restore | - | not modelled |
| Start-up, memory watch, CPU affinity, core | `Main.cpp`, `base/CpuAffinity.*`, `core/*` | process plumbing | - | - | not modelled |

Hard behaviours, each with its line in the code, are listed under `hazards` in
`PROJECT.json` with the properties that watch them.

## 2. Modules

| Module | Content |
|---|---|
| `DisplayStates` | The states, as operators from a *display record* `d` to the record after a handler. No variables: a nested call is the composition of two operators. |
| `DisplayManager` | EXTENDS it. Variables, `Init`, one action per handler, timer and completion, `Next`, `Spec`, fairness, invariants, action and liveness properties. |
| `Screen` | The abstract display: what the panel shows, the lock status, a passcode, a call. Says what any step may do to them. |
| `Panel` | EXTENDS `Screen` and composes it with the light sensor: brightness, keypad light, the notifications of light and dark. |
| `SuspendBlocker` | EXTENDS `DisplayManager` and composes it with SuspendBlocker's callbacks and with powerd. |
| `EASPolicy` | A policy, the merge of several, the test of a passcode against one: no variables. `StrictestOf` says what the merge should compute, `HasLongRun` what the search for runs of characters is for. |
| `DeviceSecurity` | EXTENDS it: the policy manager, the passcode and the database they keep the policies in. |
| `Haptics` | The vibration service, its clients and the device. |
| `MCDisplayManager`, `MCPanel`, `MCHaptics` | For TLC: symmetry of the clients. |
| `MCSuspendBlocker` | For TLC: the settings that are stored at the start are fixed. |
| `MCDeviceSecurity`, `MCPolicyAdoption` | For TLC: policies and passcodes; the second notes whether the last step was the outside world's, for the liveness property. |
| `DisplayStates_proofs` | Lemmas about the operators, for any record in order. |
| `DisplayManager_proofs` | The inductive invariant, the theorems about the display manager, and that it implements `Screen`. |
| `DisplayCounts_proofs` | The counts that clients and cable share. |
| `Panel_proofs` | All properties of `Panel`. |
| `SuspendBlocker_proofs` | The same guarantees for the composition, that it implements `DisplayManager!Spec`, and `Screen`; and the invariants of what is in transit between SuspendBlocker and powerd. |
| `EASPolicy_proofs` | What the merge of any number of policies is, and what the search for runs finds. |
| `DeviceSecurity_proofs` | All invariants and action properties of `DeviceSecurity`. |
| `Haptics_proofs` | All properties of `Haptics`. |

Who builds on whom:

    DisplayStates <- DisplayManager <- SuspendBlocker      EASPolicy <- DeviceSecurity
                          |  implements
                        Screen <- Panel                    Haptics

### How the model corresponds to the code

* `display` gathers the members that `handleEvent()`, `enter()`, `leave()` and the
  timeouts read or write; the head of `DisplayStates` names each. `Target(d, ev)`
  is the state a `handleEvent()` switches to, `SideEffect` what it does when it
  stays, `Enter`/`Leave` and `ChangeDisplayState` the transition with everything
  it calls: lock state, lamp, timers, and the nested change when `updateLockState()`
  refuses to unlock.
* `InactivityTimeout` covers the five timeout callbacks. Times are abstract: a
  running timer may fire at any moment, so restarting it "for the rest of the
  time" (`lastEvent()`) is the same as not having fired yet. The timeouts in
  milliseconds never are 0 (`setTimeout()` maps such values to the default), so
  the guards for 0 are left out.
* The LED driver answers requests in order; equal requests in a row are kept once,
  and a completion may therefore stand for one or several of them.
* A client of `setProperty` is the message it subscribed: `held[c]` is what the
  message asks for, and `CancelSubscription(c)` undoes it from the text of the
  message, as the code does.
* `PasscodeChange` is what the display manager can see of Security and the
  policies: the answer of `unlockRequiresPasscode()` changes at any time.
* `pm` gathers the members of `EASPolicyManager` and `Security` with what they
  have under way: `calls` on their way to the database, `replies` on their way
  back and the `watch` it keeps. The operators on a record `m` (`Save`,
  `NotifyPolicyChanged`, `UpdateDevicePolicy`, ...) are the functions of those
  names; the two classes call each other through a Qt signal that is delivered
  at once, so a callback is the composition of them.
* Revisions of the database are compared in one way only, "is anything newer
  than what I know?", and every holder of one (`m_lastRev`, a watch, a reply)
  therefore holds just that answer, `behind`.
* A passcode is its lock mode and what the tests tell apart. Whether a passcode
  that is tried matches is decided by who tries it (`MatchRight`, `MatchWrong`);
  hashing and comparing are the code's way to find out.
* The text of a passcode is the codes of its characters. `Weak` is the loop of
  `validateStrength()`, as a function of the place it has come to; `RunEnd` is
  where its inner loop stops.
* Within the 15 seconds of a lock-out (`lastFailure`) time is abstract as above.
* `Screen` has no handlers: a step of it is what any of them may do to what the
  user sees. `DisplayManager!Abstract` maps the eight states to its six faces (On and
  OnPuck are *open*, OnLocked *locked*, Off and OffOnCall *dark*, OffSuspended
  *asleep*). `Panel` builds on it: a handler takes the screen by one step and does
  to `panel` what the `enter()` of the new state does (`Entered`), and then what
  the handler itself calls. `panel.sent` and `keys` are the last values for the LED
  driver, `told` the last notification about light and dark.
* In `Panel`, the mutual calls `displayOn()` - `start()` - `on()` -
  `currentRegionChanged()` - `updateBrightness()` are unfolded: what is called a
  second time finds its work done. A reading is taken only while the sensor is on;
  the preference is stored before its signal is emitted, as the preferences do.
* In `Haptics` an effect is one id. The table maps the unique token of a message
  to it; a message that is not found yields 0. Every call of nyx and of the bus
  that the code tests may fail, and `lost` notes for which effects one has. That
  nyx gives out no id that is still in the table, and that a named effect ends by
  itself, is assumed.
* powerd, the LED driver, the database, the other services and the bus are
  environment. powerd
  is modelled from what `SuspendBlocker.cpp` sends to and expects from it.
* Built as the repository's CMake files build it for a device (nyx, preferences,
  display timeout); not the machine variants `MACHINE_BROADWAY`/`MACHINE_MANTARAY`.

### What is abstracted or left out of the modelled parts

Replies to calls and the notifications of blocks, timeouts and activity (those of
light and dark are in `Panel`), the light sensor's averaging of raw readings into a
region (a reading is any region), vsync, touch coordinates and the
pen filter, GPS and sunset, JSON parsing and schema checks (calls are taken to be
well-formed), failures of `LSSubscriptionAdd` in the display manager. In
`DisplayManager` a backlight is on or off; how bright is `Panel`'s. Events that the states handle and
nothing in the sources sends (slider, home key and proximity events) are in
`HandleEvent` and in the proofs, but no action raises them: what the keys service
answers about the slider is only noted (`SliderCallback`). `m_proximityActivated`
is never set. The proximity sensor may refuse to be turned on or off (`works`, with
the source `proximityFailure`). `alertState` keeps only the values that are asked for (Off, Dim).

**Not modelled.** `SystemService`: its methods translate bus calls into Qt signals
and calls of the other parts. Of the state it keeps across calls, the code that
launches modal applications is compiled out (`#if 0`, `SystemService.cpp:4152`); the
flags of the mass storage mode are read by nothing that is compiled (the tests of
`brickMode()` in `DisplayStates.cpp` are under `#if 0`), and its signals have no
consumer in these sources. `BackupManager` copies files and restarts the program;
`Main.cpp`, `CpuAffinity` and `core/` are process plumbing and data definitions.

## 3. What the runs check

| Run | Instance | Shows |
|---|---|---|
| `dm_states` | slider phone, every source but clients, dock and powerd; up to 3 outstanding LED requests | timers, lock and panel follow the state; dark for a call only in a call; no unlock past the passcode; each step is one of `Screen`'s |
| `dm_blocks` | two clients of DNAST, power key (its releases: it is never held for long) and a proximity sensor that may refuse, calls, puck, USB with "on when connected", powerd coming and going | the DNAST count is that of its holders; the sensor parts from its clients only by refusing or with a departure in the dark of a call; a display that is dark for a call leaves that state with the call or the sensor; blocks and DNASTs do what they promise; the ways to lose the timer are known |
| `dm_prefs` | demo build on the emulator, USB dock, calls, preferences that fail midway; fairness | no count below zero; liveness: an undisturbed display settles and panel and backlight agree |
| `pn_light` | a phone with keypad and light sensor, two subscribers, a battery, a charger, a preference and a limit with a high and a low value each | the sensor measures when the panel needs it; the brightness is that of now; the light of the keypad too, unless an answer about the slider has only been noted; subscribers know whether it is dark; disabling clients are counted |
| `ha_effects` | three clients, four effects, every failure | an endless effect can be ended; nobody ends another's |
| `sb_exchange` | powerd started twice, dying any time; power key | consent means suspended; what powerd waits for is on its way; registered with each powerd; questions answered; what is suspended is resumed |
| `ea_device` | two accounts, the second temporary, with a policy each; two passcodes; restarts at any time; a disk that refuses, but does not write half a file | one device policy; active only with a fitting passcode; wrong passcodes counted through restarts; liveness: in the end the strictest of all policies is enforced |
| `ea_refused` | one account whose policy forbids runs; a database that may refuse every call; disk failures; clients that do not wait for the start | retries within the policy; one watch at most, which misses no change (`WatchedIsCurrent`); no passcode with a long run; types |

The runs named `dm_v_*`, `sb_v_*` and `ea_v_*` each check one sentence of a comment that the
code does not keep (`findings` in `PROJECT.json`):

* `dm_v_dock_on_call`: a resume enters DockMode on a call.
* `dm_v_pop`: putting the device on a dock pops a DNAST that belongs to another.
* `sb_v_late`: a late reply of a dead powerd leaves its successor without a client.
* `ea_v_two_devices`: a passcode set before the database's first answer leaves two
  device policies.

Disagreements of the same kind that have no run. The display: the inactivity timer that fires
during boot is gone for good; without a touch panel the backlight is never turned
off; the display suspends after it has refused to (`setSuspended` ignores the
answer); the merge of policies depends on their order when one of them gives a
time above 9998 seconds; DisplayOnLocked ignores UsbIn
though its header says it changes to On; DisplayDockMode goes to Off at the power
key, not to OnPuck; DisplayOnPuck ignores UsbOut and stays without a charger;
ApiDim leads into Dim on a call on the puck, which `DisplayDim` calls a bug; and
`m_proximityCount` is corrected from below 0 after a call whose preferences failed.
Panel and sensor: subscribers are not told when a dim display brightens or when
the dock's clock gives way to the lock screen; `setProperty` answers true to a
`maximumBrightness` that it drops because the panel is locked, dim or dark
(`DisplayManager.cpp:2179`); only the last subscriber of the sensor to leave is
taken out of the count of those who disabled it (`AmbientLightSensor.cpp:499`), so
the sensor may stay disabled with nobody left who wants it; a region stays in force
after the sensor is off or disabled, until the next reading; the keypad is dark
outdoors also where the preference is off; of the slider, which the comments in
`DisplayStates.h:218` and `:247` let change states, no event is sent, so the keypad
stays lit under a closed slider and dark under an open one until the next change of
its light. A proximity sensor that has refused is counted, reported as enabled
(`DisplayManager.cpp:1726`) and not asked again until all its clients have left; one
that will not turn off counts as a call. Haptics: the schema of `vibrate` requires a field `perios`
(`HapticsController.cpp:126`) and a duration, of which the documentation above it
says that it may be left out; `continous` never reaches the device; after a failed
id, subscription or cancel an endless effect goes on. Security: 1222 is accepted
where "No repeating numbers (3333)" is the rule (`Security.cpp:215`), as the run of
2s is measured from its second character. SuspendBlocker's answers do not say which
question they answer.

### Bounds

`MaxLed` 2 or 3 requests at the LED driver: a change of mind needs two, a third
shows what follows it; 1 in `dm_blocks` and
`dm_prefs`, which are about counts and timers. `MaxDnast` 3: two clients and a cable. Two clients: one
that leaves while another stays. `MaxLife` 2: a powerd and its successor.
What waits at SuspendBlocker is not bounded: powerd asks anew when
what it told before has been received (`Heard`). That is an assumption about
powerd, and needed: an answer does not name its question, and without `Heard` an old
consent is taken for the new one and `AsleepOnlySuspended` fails. `MaxCalls` 2: a
save under way while a client causes the next;
only clients and restarts wait for room, callbacks never do, and so queues grow
beyond it. `MaxDevices` 2: one policy too many. `MaxTries` 2: the number that
erases the device under the policy of the instance (`RetriesCounted` compares with
the policy's number). `MaxDisabled` 2: both clients disable the sensor, or one whose
count has stayed behind and another. Three messages and four ids in `Haptics`: an effect
of a client that stays, of one that goes, of one that comes, and one that is lost.
The disks of the runs refuse to
create or to rename the file; that half of it is written (`Garbage`) is left to the
theorems. `MCRunPins`: a run that is missed, and the same one character longer. The bounds are guards of `Becomes`, `PowerdStarts`, `Room`, `ServeSave` and `ControlStatus`;
nothing else is bounded. The theorems hold for every value of them.

### Fairness

Timers fire, the LED driver answers and powerd resumes what it has suspended
(`Fairness`); `QuietSettles` speaks only of behaviours in which nothing else
happens any more (`dm_prefs`). In the exchange the main loop receives what has arrived and
powerd handles its calls and goes on with what it has begun (`ExchangeFairness`);
it need never ask, die or start.
In `DeviceSecurity` the main loop, the database and systemd go on as long as there
is anything to do (`WF_vars(Reaction)`); accounts, clients and crashes are under no
obligation, and `PoliciesAdopted` speaks of behaviours in which they stop: each
save cancels the watch, so that clients who save again and again could put off the
next report for ever.
Deadlock is not checked where `CHECK_DEADLOCK FALSE` is set: the sources of a run
may fall silent, as a device that nobody touches does.

## 4. What is proved

For every device, every finite set of clients, all values of the other constants and
every bound:

* *Display manager.* `TypeCorrect`, `TimersBelongToStateAlways`,
  `LockMatchesStateAlways`, `PanelFollowsStateAlways`, `OffOnCallOnlyInCallAlways`:
  invariants. `UnlockAuthorisedAlways`, `DnastKeepsPanelOnAlways`,
  `BlockedKeyDoesNothingAlways`: action properties.
* `ScreenImplemented`: it implements `Screen`, initial states and steps.
* *Counts.* `DnastMatchesHoldersAlways`, without the dock and off the emulator;
  `ProximityServesHoldersAlways`, with preferences that do not fail and a sensor
  that may: the invariant under it is the count (`ProximityCounted`), the sensor itself
  is followed step by step. Without these
  conditions they do not hold: see `dm_v_pop` and above.
  `UntimedByKnownCausesAlways`, where the timeout cannot be set, or without the dock and
  off the emulator: with both, a cable that the dock's status has hidden from the count
  (the same fault as in `dm_v_pop`) lets a message that sets the timeout, blocks it and
  ends `onWhenConnected` pop its own DNAST, and while powerd is away no timer starts.
* *Panel and light sensor.* All six properties of `Panel`.
* *Exchange with powerd.* `UnlockAuthorisedInExchange`, `TimersBelongInExchange`;
  `ExchangeImplementsDisplay` and `ScreenImplementedInExchange`: the composition
  implements `DisplayManager!Spec` and `Screen`. Of the exchange itself:
  `ExchangeTypes`, `ConsentIsKept` (`AsleepOnlySuspended`), `AwaitedComes`
  (`AwaitedIsComing`), for any number of powerd's lives and reports of the bus in any
  order; `RegisteredInOrder` (`RegisteredOnceSettled`), if those reports keep their
  order with powerd's messages (`InOrder`; `sb_v_late` shows that they must).
* *Policies.* `AggregateType`, `AggregateAsStrict`, `AggregateStrictest`: however many
  accounts there are, in whatever order they are listed, their policies merge into one
  that is as strict as each of them, in every term, and in no term stricter than all
  of them. `LongRunsFound`, `WeakHasRun`: what the search for
  runs finds, in passcodes of any length. `LongRunsRefusedAlways`: what follows for
  the stored passcode.
* *Policy manager.* `DeviceTypesAlways`; `OneWatchAlways`, `WatchedIsCurrentAlways` and
  `RetriesWithinPolicyAlways`, whatever the database refuses and the clients do;
  `OneDevicePolicyAlways`, `EnforcedFitsAlways` and `RetriesCountedAlways`, with a
  database that refuses neither writes nor the query of the device policy, and clients
  that wait for the start. `ea_v_two_devices` shows that the second condition is needed
  of the first, and the others rest on it. `EnforcedFitsAlways` needs a disk that does
  not write half a file, too.
* *Haptics.* All three properties.

### The arguments

**Display states.** `DisplayStates_proofs` calls a record *good* (`Good`) if its members
have their types, its timers belong to its state, lock and panel follow the state
and OffSuspended has noted nothing that unlocks. No part is inductive alone: that
the lock follows the state on the way into Dim, which sets no lock state, rests on
only DisplayOn's timers leading there and so on the timers; what a resume leads to
rests on what was noted. `HandleEventGood` and `TimeoutGood` show that any event
and any timer of a good record lead to a good one, from lemmas about each
`enter()`: a record whose timers have been stopped becomes good when a state is
entered, also if the entry is turned into OnLocked by the passcode
(`LockInsteadGood`). `HandleEventDarkForCall` and `HandleEventStaysLit` add what
the call and the DNAST need.

**Display manager.** A handler is *calm* if it keeps the record good, unlocks nothing
past a passcode and turns nothing off; calm handlers compose (`CalmTwice`), most are
calm, and the few that are not (the power key, an unlock, `off`, the end of an
alert) have a lemma each. `Inv` is `TypeOK` and goodness; `StepsOK` goes through
`Next`.

**Screen.** That a calm handler is a step of `Screen` follows from `Steady`: it
neither dims, darkens, suspends nor resumes. For the others `Seen` says what one of
them may do to what the user sees; one such event followed by calm ones is still one
step (`SeenThenCalm`), and that is how the handlers are built.

**Counts.** `Shifted` says of each operator by how much it moves the DNAST count,
`StepKinds` sorts the actions into those that leave the count alone and the five that
do not, and `HolderAdded`/`HolderRemoved` move the cardinality of the holders with
it. For the cable the count depends on two settings that change apart, `Cable`.

**Timers.** A display is *tended* if it is timed, held or not lit. `TimerTends` and
`EnterTends` show that starting a timer and entering any state make it so, whatever it
was; `SideEffectTends` that no event takes the timer away but the beginning of a call
in OnPuck, and that the call's end brings it back (`AudiodTends`); `TimeoutTends` that a
timer that fires is ignored for a hold, a call or the boot only, and otherwise leads to
another state. What is left are the pops of a DNAST (`PopTends`), one of which can come
after a push in the same handler (`PropertyTends`).

**Exchange.** `ExchangeInv` is about what is in transit. An id or a resume that is on
its way may be an old one, and is made harmless by what follows it in the same channel
(`IdsInOrder`, `ResumesOld`): `Known` says so, and that powerd knows SuspendBlocker by
no id but the present one. `ConsentKept` begins with the answer that is sent, not with
the sleep: from there on no resume is on its way (`NoResume`), and what else happens
leaves OffSuspended only with one. `Awaited` follows each question to its answer.
`LivesInv` says what has become of the end of one powerd and of the start of the next:
while SuspendBlocker has not registered with the powerd that is there, it is about to
learn of it, of its id, or powerd of the registration.

**Panel.** The mutual calls make an invariant of handlers' ends useless in their
middle. `Sensible` holds there too, when the screen has moved or an input has
changed and the panel not yet; `Fits` adds what holds when the handler returns: the
sensor serves the screen (`Served`), subscribers know it (`Announced`), a panel that
is dim, or dark on a device with a touch panel, has no light on the keypad
(`KeysOff`), a bright one the right
brightness. Every `enter()` leads from the first to the second
(`EnterFits`), and an event that only updates the brightness does where nothing else
has moved (`UpdateFits`). The keypad of a bright panel is in no invariant, as an answer
about the slider leaves it out of date: `KeypadCurrentAlways` follows it step by step.

**Merge.** It is a recursive function over a sequence, so the theorems need
induction; it is carried out as the argument of the smallest
counterexample (`UpTo`, from the well-foundedness of <). `MergesExist` shows first
that the recursive equation has a solution at all. The step of
`AggregateAsStrict` is `MergedAsStrict`: an aggregate that asks for a passcode has
an inactivity time on the grid that `maxInactivityInSeconds()` rounds to, and what
is on the grid and at most a time is at most that time rounded (`Rounding`).
For `AggregateStrictest` `MergedNoStricter` carries along that each term comes from one
of the policies merged so far.

**Runs.** `LongRunsFound` looks at the last place, up to the beginning of a long run,
from which the search starts anew. If that is the beginning itself, the run is
measured whole. If it is before and what is measured there ends beyond the beginning,
the two share a step and so are one run (`PartOfRun`), which again is measured whole.
Otherwise the earlier run ends where the long one begins, and the search goes on at
its second character: it measures one character less than there are, which is why the
property speaks of runs that are a character longer.

**Policy manager.** A lemma for each operator on the manager's record, and one for
each action; the accounts' policies must be a sequence for `AggregateType` to apply,
which is what `TypeInv` adds. The watch: `WatchOnce` is `OneWatch` of a record in the
middle of a handler, and all but two operators can only take a watch away (`Tamer`).
Retries and the one device policy rest on the *order of the messages since the
start*: deletion, its reply, query, its reply. `RetriesInv` says in which of these
stages a start is, that until the last one the program has no policy (`Fresh`), and
that whatever is remembered, under way or stored is within its own policy
(`AllFit`); a client's call that overtakes the start does not disturb that.
`OnlyOne` has three cases. While *starting*, what earlier lives have written is
served before the deletion, so the query finds it. While *putting*, the first device
policy is on its way and the default is in force, which counts no retries and is
enforced already: nothing can be written before the reply, which comes before that
to the query of policies. *Going*, it is known where the device policy is, and
everything that is written goes there (`CallsPlaced`).

What the program thinks of the passcode and of the retries it writes, dies, and reads
again. `MirrorInv` therefore speaks of the *latest* word, the last save on its way or
else what is stored: it is true (`Upheld`: enforced only with a passcode that fits, the
retries less the wrong attempts), a program that is loaded remembers the same, and what
is read back is what is there. With `OnlyOne` there is one place to read it from; a new
policy of the accounts is pending until a passcode is set, and so promises nothing.

That the watch misses nothing is `CurrentInv`. In the middle of a handler that is about
to cancel the watch, the policy in force need only be that of the database unless the
program knows that it is behind (`Aware`). When the handler returns, the policy is that
of the database or else every watch, under way or kept, will fire at once (`Alert`).
Until the device policy has been found all that was ever written is news. A write makes
everybody behind (`BehindWatchful`), a reply of the database that is not behind is about
the policies that are there (`Answers`), and the revision a watch is asked from is that
of the last query, not of the save. `AggregateStrictest` says what the policy of the
database is.

**Haptics.** `NotShared`, that no two clients are given the same effect, is what
`StaysWhileAsked` rests on.

Assumed: the types of the constants and that `Clients` is finite
(`SettingsAssumption`, `InstanceAssumption`, `ExchangeAssumption`,
`PanelAssumption`, `SecurityAssumption`, `HapticsAssumption`), and in the theorems
about counts, registration and policies the conditions that are named there: no policy
asks for a time above 9998 seconds where the strictest is spoken of (`Timely`), and the
history can count as many attempts as any policy allows (`TriesTold`, a condition on
the bound `MaxTries` only).

**Only model-checked.** Liveness (`QuietSettles`, `QuestionsAnswered`, `SuspendEnds`,
`PoliciesAdopted`), which the prover cannot do.
`AwaitedIsComing` and `WatchedIsCurrent` are the safety parts of `QuestionsAnswered` and
`PoliciesAdopted`, and are proved.

## 5. State of the plan

Done: display states, display manager and suspend blocker; policies and passcode,
with `validateStrength()` measured against `HasLongRun`; the abstract `Screen`, which
the display manager implements; panel and ambient light sensor; haptics; every
invariant and every action property of the passing runs proved.

Left:

1. `PasscodeChange` of the display manager as what `DeviceSecurity` does.
2. An abstract lamp (lit or dark, and who keeps it lit) between `Screen` and the LED
   requests, so that `Panel` and the backlight callbacks meet.
