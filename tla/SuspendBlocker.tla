--------------------------- MODULE SuspendBlocker ---------------------------
(***************************************************************************)
(* The exchange with powerd of Src/base/SuspendBlocker.cpp, composed with  *)
(* the display manager, which it asks whether the device may be suspended  *)
(* and tells that it is.                                                   *)
(*                                                                         *)
(* powerd, com.webos.service.sleep on the bus, is another program.  It     *)
(* tells its clients by a signal that it is about to suspend the device,   *)
(* and once more when it is certain, and each time waits for the answer of *)
(* the clients that have registered for it; afterwards it signals that the *)
(* device is back.  It may die and be started again, and then knows none   *)
(* of them.  Only what SuspendBlocker relies on is modelled of it.         *)
(*                                                                         *)
(* Messages are taken off a channel in the order they were sent.  Whether  *)
(* powerd is up is reported by the bus itself, over a channel of its own;  *)
(* InOrder makes them one.                                                 *)
(***************************************************************************)
EXTENDS DisplayManager

CONSTANTS
  InOrder,   \* the bus's reports keep their order with powerd's messages
  MaxLife    \* bound: how often powerd is started

ASSUME ExchangeAssumption ==
  /\ InOrder \in BOOLEAN
  /\ MaxLife \in Nat

VARIABLES
  id,          \* m_id, as the life of powerd that has given it; 0 is NULL
  registered,  \* m_registeredSuspendRequest and m_registeredPrepareSuspend
  reports,     \* the bus's reports about powerd, not yet received
  inbox,       \* powerd's signals and replies, not yet received
  calls,       \* calls to powerd, not yet received
  life,        \* powerd: how often it has been started
  phase,       \* powerd: what it is doing
  voters,      \* powerd: the questions that SuspendBlocker has registered for
  vote         \* powerd: the answer to the question it has asked

blocker == <<id, registered>>
channels == <<reports, inbox, calls>>
powerd == <<life, phase, voters, vote>>
allVars == <<vars, blocker, channels, powerd>>

Question == {"suspendRequest", "prepareSuspend"}
Report == {"up", "down"}

(* A message carries an id if it is a reply, a registration or an answer,  *)
(* and an answer says yes or no.                                           *)
Message(kind, of, i, ack) == [kind |-> kind, of |-> of, id |-> i, ack |-> ack]
Plain(kind) == Message(kind, "none", 0, FALSE)

Messages(kinds) ==
  [kind: kinds, of: Question \cup {"none"}, id: 0 .. MaxLife, ack: BOOLEAN]

InTransit(channel) == {channel[i] : i \in DOMAIN channel}

ExchangeTypeOK ==
  /\ TypeOK
  /\ id \in 0 .. MaxLife
  /\ registered \subseteq Question
  /\ reports \in Seq(Messages(Report))
  /\ inbox \in Seq(Messages(Question \cup Report \cup {"resume", "identified"}))
  /\ calls \in Seq(Messages({"identify", "register", "ack"}))
  /\ life \in 0 .. MaxLife
  /\ phase \in {"down", "awake", "suspendRequest", "prepareSuspend", "asleep"}
  /\ voters \subseteq Question
  /\ vote \in {"none", "awaited", "granted"}

ExchangeInit ==
  /\ Init
  /\ id = 0
  /\ registered = {}
  /\ reports = <<>>
  /\ inbox = <<>>
  /\ calls = <<>>
  /\ life = 0
  /\ phase = "down"
  /\ voters = {}
  /\ vote = "none"

-----------------------------------------------------------------------------
(* SuspendBlocker's callbacks, each for a message m it has received.       *)

(* Mutant: only a client that agrees answers. *)
AnswerYes(question) ==
  calls' = IF AllowSuspend(display)
           THEN Append(calls, Message("ack", question, id, TRUE)) ELSE calls

Answer(question) ==
  calls' = Append(calls, Message("ack", question, id, AllowSuspend(display)))

CbSuspendRequest(m) ==
  /\ m.kind = "suspendRequest"
  /\ Answer("suspendRequest")
  /\ UNCHANGED <<vars, blocker>>

(* Mutant: the display is not told. *)
CbPrepareSuspendSilent(m) ==
  /\ m.kind = "prepareSuspend"
  /\ Answer("prepareSuspend")
  /\ UNCHANGED <<vars, blocker>>

(* The display is told to suspend, whatever the answer was. *)
CbPrepareSuspend(m) ==
  /\ m.kind = "prepareSuspend"
  /\ Answer("prepareSuspend")
  /\ SetSuspended(TRUE)
  /\ UNCHANGED blocker

(* Mutant: powerd's resume is taken for the display's own. *)
CbResumeUnheard(m) ==
  /\ m.kind = "resume"
  /\ UNCHANGED <<vars, blocker, calls>>

CbResume(m) ==
  /\ m.kind = "resume"
  /\ SetSuspended(FALSE)
  /\ UNCHANGED <<blocker, calls>>

(* Mutant: what has been registered is not forgotten. *)
CbPowerdUpRemembers(m) ==
  /\ m.kind \in Report
  /\ calls' = IF m.kind = "up" THEN Append(calls, Plain("identify")) ELSE calls
  /\ UNCHANGED <<vars, blocker>>

CbPowerdUp(m) ==
  /\ m.kind \in Report
  /\ calls' = IF m.kind = "up" THEN Append(calls, Plain("identify")) ELSE calls
  /\ registered' = IF m.kind = "up" THEN registered ELSE {}
  /\ UNCHANGED <<vars, id>>

(* registerSuspendRequest() and registerPrepareSuspend(): once for each.   *)
Registrations(i) ==
  (IF "suspendRequest" \in registered THEN <<>>
   ELSE <<Message("register", "suspendRequest", i, FALSE)>>) \o
  (IF "prepareSuspend" \in registered THEN <<>>
   ELSE <<Message("register", "prepareSuspend", i, FALSE)>>)

(* Mutant: the id of an earlier life is kept. *)
CbIdentifyKeeps(m) ==
  /\ m.kind = "identified"
  /\ id' = IF id = 0 THEN m.id ELSE id
  /\ calls' = calls \o Registrations(m.id)
  /\ registered' = Question
  /\ UNCHANGED vars

CbIdentify(m) ==
  /\ m.kind = "identified"
  /\ id' = m.id
  /\ calls' = calls \o Registrations(m.id)
  /\ registered' = Question
  /\ UNCHANGED vars

(* The program does not run while the device is asleep. *)
Receive ==
  /\ phase # "asleep"
  /\ \/ /\ reports # <<>>
        /\ CbPowerdUp(Head(reports))
        /\ reports' = Tail(reports)
        /\ UNCHANGED inbox
     \/ /\ inbox # <<>>
        /\ LET m == Head(inbox)
           IN  \/ CbSuspendRequest(m)
               \/ CbPrepareSuspend(m)
               \/ CbResume(m)
               \/ CbPowerdUp(m)
               \/ CbIdentify(m)
        /\ inbox' = Tail(inbox)
        /\ UNCHANGED reports
  /\ UNCHANGED powerd

DisplayStep ==
  /\ phase # "asleep"
  /\ DisplayNext
  /\ UNCHANGED <<blocker, channels, powerd>>

-----------------------------------------------------------------------------
(* powerd and the bus.                                                     *)

ReportIs(r) ==
  IF InOrder THEN inbox' = Append(inbox, Plain(r)) /\ UNCHANGED reports
             ELSE reports' = Append(reports, Plain(r)) /\ UNCHANGED inbox

Signal(s) == inbox' = Append(inbox, Plain(s)) /\ UNCHANGED reports

PowerdStarts ==
  /\ phase = "down"
  /\ life < MaxLife
  /\ phase' = "awake"
  /\ life' = life + 1
  /\ ReportIs("up")
  /\ UNCHANGED <<vars, blocker, calls, voters, vote>>

(* What it has sent arrives; what it has not received is lost. *)
PowerdDies ==
  /\ phase \notin {"down", "asleep"}
  /\ phase' = "down"
  /\ voters' = {}
  /\ vote' = "none"
  /\ calls' = <<>>
  /\ ReportIs("down")
  /\ UNCHANGED <<vars, blocker, life>>

(* It lets a while pass after a resume: what it has told in this life has  *)
(* been received before it begins anew.  An answer does not say which      *)
(* question it is to, and one that comes late would be taken for the       *)
(* answer to the next.                                                     *)
Heard ==
  \A i \in DOMAIN inbox :
    inbox[i].kind \in Question \cup {"resume"}
    => \E j \in DOMAIN inbox : j > i /\ inbox[j].kind = "up"

(* It asks when it has received all that was sent to it, and waits for an  *)
(* answer if SuspendBlocker has registered for the question.               *)
Ask(question) ==
  /\ calls = <<>>
  /\ phase' = question
  /\ vote' = IF question \in voters THEN "awaited" ELSE "none"
  /\ Signal(question)

PowerdAsks ==
  /\ phase = "awake"
  /\ Heard
  /\ Ask("suspendRequest")
  /\ UNCHANGED <<vars, blocker, calls, life, voters>>

PowerdAsksAgain ==
  /\ phase = "suspendRequest"
  /\ vote # "awaited"
  /\ Ask("prepareSuspend")
  /\ UNCHANGED <<vars, blocker, calls, life, voters>>

PowerdSleeps ==
  /\ phase = "prepareSuspend"
  /\ vote # "awaited"
  /\ phase' = "asleep"
  /\ UNCHANGED <<vars, blocker, channels, life, voters, vote>>

PowerdWakes ==
  /\ phase = "asleep"
  /\ phase' = "awake"
  /\ vote' = "none"
  /\ Signal("resume")
  /\ UNCHANGED <<vars, blocker, calls, life, voters>>

PowerdIdentifies(m) ==
  /\ m.kind = "identify"
  /\ inbox' = Append(inbox, Message("identified", "none", life, FALSE))
  /\ UNCHANGED <<reports, phase, voters, vote>>

PowerdRegisters(m) ==
  /\ m.kind = "register"
  /\ voters' = IF m.id = life THEN voters \cup {m.of} ELSE voters
  /\ UNCHANGED <<reports, inbox, phase, vote>>

(* An answer counts if it has the right id and answers what was asked.     *)
(* After a refused prepareSuspend the clients are told to resume.          *)
PowerdCounts(m) ==
  LET valid == m.id = life /\ m.of = phase /\ vote = "awaited"
  IN  /\ m.kind = "ack"
      /\ IF valid /\ ~m.ack
         THEN /\ phase' = "awake"
              /\ vote' = "none"
              /\ IF phase = "prepareSuspend" THEN Signal("resume")
                 ELSE UNCHANGED <<reports, inbox>>
         ELSE /\ vote' = IF valid THEN "granted" ELSE vote
              /\ UNCHANGED <<reports, inbox, phase>>
      /\ UNCHANGED voters

PowerdReceives ==
  /\ phase \notin {"down", "asleep"}
  /\ calls # <<>>
  /\ LET m == Head(calls)
     IN  PowerdIdentifies(m) \/ PowerdRegisters(m) \/ PowerdCounts(m)
  /\ calls' = Tail(calls)
  /\ UNCHANGED <<vars, blocker, life>>

(* The bus drops what is sent to nobody. *)
CallsDropped ==
  /\ phase = "down"
  /\ calls # <<>>
  /\ calls' = <<>>
  /\ UNCHANGED <<vars, blocker, reports, inbox, powerd>>

-----------------------------------------------------------------------------

ExchangeNext ==
  \/ Receive
  \/ DisplayStep
  \/ PowerdStarts \/ PowerdDies
  \/ PowerdAsks \/ PowerdAsksAgain \/ PowerdSleeps \/ PowerdWakes
  \/ PowerdReceives \/ CallsDropped

(* The main loop receives what has arrived, the LED driver answers, and    *)
(* powerd does its part.                                                   *)
ExchangeFairness ==
  /\ WF_allVars(Receive)
  /\ WF_allVars(DisplayStep /\ BacklightDone)
  /\ WF_allVars(PowerdReceives)
  /\ WF_allVars(PowerdAsksAgain)
  /\ WF_allVars(PowerdSleeps)
  /\ WF_allVars(PowerdWakes)

ExchangeSpec == ExchangeInit /\ [][ExchangeNext]_allVars

FairExchangeSpec == ExchangeSpec /\ ExchangeFairness

-----------------------------------------------------------------------------
(* Properties.                                                             *)

(* While the device sleeps with SuspendBlocker's consent the display is    *)
(* suspended: whatever has been pressed or called between the answer and   *)
(* the sleep is noted for the resume, and no answer to an earlier life of  *)
(* powerd is taken for consent.                                            *)
AsleepOnlySuspended ==
  phase = "asleep" /\ vote = "granted" => display.state = "OffSuspended"

(* Once everything has been received, powerd knows SuspendBlocker by the   *)
(* id it answers with, through any number of powerd's restarts.            *)
RegisteredOnceSettled ==
  phase # "down" /\ reports = <<>> /\ inbox = <<>> /\ calls = <<>>
  => voters = Question /\ id = life

(* What powerd waits for is on its way: its question, which SuspendBlocker *)
(* will answer with the id powerd knows it by, or that answer.             *)
AwaitedIsComing ==
  vote = "awaited" =>
    \/ id = life /\ Plain(phase) \in InTransit(inbox)
    \/ \E m \in InTransit(calls) : m.kind = "ack" /\ m.of = phase /\ m.id = life

(* powerd never waits for ever for an answer.                              *)
QuestionsAnswered == (vote = "awaited") ~> (vote # "awaited")

(* A suspended display is resumed, unless the powerd that suspended it has *)
(* died: nobody else resumes it.                                           *)
SuspendEnds ==
  (display.state = "OffSuspended" /\ life = MaxLife /\ phase = "prepareSuspend")
  ~> (display.state # "OffSuspended" \/ phase = "down")

=============================================================================
