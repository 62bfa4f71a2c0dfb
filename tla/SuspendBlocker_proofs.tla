------------------------ MODULE SuspendBlocker_proofs ------------------------
(***************************************************************************)
(* What the display manager guarantees it also guarantees in company of    *)
(* SuspendBlocker and of a powerd that comes and goes: every step of the   *)
(* exchange leaves the display alone, or is one of its own steps, or tells *)
(* it to suspend or to resume.  Nothing is assumed of powerd's order.      *)
(*                                                                         *)
(* What the exchange itself promises rests on the order of the messages in *)
(* a channel: it is an invariant of what is in transit.                    *)
(***************************************************************************)
EXTENDS SuspendBlocker, DisplayManager_proofs

LEMMA ExchangeSteps ==
  ASSUME [ExchangeNext]_allVars
  PROVE  \/ UNCHANGED vars
         \/ DisplayNext
         \/ \E suspended \in BOOLEAN : SetSuspended(suspended)
  <1>1. CASE Receive
    BY <1>1 DEF Receive, CbSuspendRequest, CbPrepareSuspend, CbResume, CbPowerdUp,
                CbIdentify
  <1>2. CASE DisplayStep
    BY <1>2 DEF DisplayStep
  <1>3. CASE PowerdStarts \/ PowerdDies \/ PowerdAsks \/ PowerdAsksAgain
    BY <1>3 DEF PowerdStarts, PowerdDies, PowerdAsks, PowerdAsksAgain
  <1>4. CASE PowerdSleeps \/ PowerdWakes \/ PowerdReceives \/ CallsDropped
    BY <1>4 DEF PowerdSleeps, PowerdWakes, PowerdReceives, CallsDropped
  <1>5. CASE UNCHANGED allVars
    BY <1>5 DEF allVars
  <1> QED BY <1>1, <1>2, <1>3, <1>4, <1>5 DEF ExchangeNext

LEMMA ExchangeStepOK ==
  ASSUME Inv, [ExchangeNext]_allVars
  PROVE  StepOK /\ Inv'
  <1>1. CASE UNCHANGED vars \/ DisplayNext
    <2>1. [Next]_vars
      BY <1>1 DEF Next
    <2> QED BY <2>1, StepsOK, StepInv
  <1>2. ASSUME NEW suspended \in BOOLEAN, SetSuspended(suspended)
        PROVE  StepOK /\ Inv'
    <2>1. StepOK
      BY <1>2, SetSuspendedOK DEF Inv
    <2>2. TypeOK'
      BY <1>2, <2>1 DEF SetSuspended, settings, alerts, powerKey, counts, Inv, TypeOK,
                        StepOK, Safe, Good, Ordered
    <2> QED BY <2>1, <2>2 DEF StepOK, Inv
  <1> QED BY <1>1, <1>2, ExchangeSteps

LEMMA ExchangeInvariance == ExchangeSpec => []Inv
  <1>1. ExchangeInit => Inv
    BY InitInv DEF ExchangeInit
  <1>2. Inv /\ [ExchangeNext]_allVars => Inv'
    BY ExchangeStepOK
  <1> QED BY <1>1, <1>2, PTL DEF ExchangeSpec

(* While powerd suspends, resumes, dies and returns, only timers of the    *)
(* display's present state run.                                            *)
THEOREM TimersBelongInExchange == ExchangeSpec => []TimersBelongToState
  <1>1. Inv => TimersBelongToState
    BY DEF Inv, Safe, Good, TimersBelongToState
  <1> QED BY <1>1, ExchangeInvariance, PTL

(* No resume, whatever was noted during the suspend, unlocks a screen that *)
(* has a passcode: that takes a request or a phone call.                   *)
THEOREM UnlockAuthorisedInExchange == ExchangeSpec => UnlockAuthorised
  <1>1. Inv /\ [ExchangeNext]_allVars => [UnlockAuthorisedStep]_vars
    BY ExchangeStepOK DEF StepOK
  <1> QED BY <1>1, ExchangeInvariance, PTL
          DEF ExchangeSpec, UnlockAuthorised, UnlockAuthorisedStep

(* Nor does powerd make other programs see more than the steps of Screen:  *)
(* the display falls asleep dark and locked, and wakes as it may.          *)
THEOREM ScreenImplementedInExchange == ExchangeSpec => ImplementsScreen
  <1>1. ExchangeInit => Abstract!ScreenInit
    BY ScreenInitially DEF ExchangeInit
  <1>2. Inv /\ [ExchangeNext]_allVars => ScreenStep
    BY ExchangeStepOK DEF StepOK
  <1> QED BY <1>1, <1>2, ExchangeInvariance, PTL
          DEF ExchangeSpec, ImplementsScreen, Abstract!ScreenSpec, ScreenStep

(* The exchange implements the display manager in which powerd's signals   *)
(* arrive at any time: each step of it is one of the display manager's or  *)
(* leaves the display manager as it is.                                    *)
THEOREM ExchangeImplementsDisplay ==
  ASSUME "suspend" \in Sources
  PROVE  ExchangeSpec => Spec
  <1>1. ExchangeInit => Init
    BY DEF ExchangeInit
  <1>2. [ExchangeNext]_allVars => [Next]_vars
    <2>1. ASSUME NEW suspended \in BOOLEAN, SetSuspended(suspended)
          PROVE  Suspend \/ Resume
      BY <2>1 DEF Suspend, Resume
    <2> QED BY <2>1, ExchangeSteps DEF Next
  <1> QED BY <1>1, <1>2, PTL DEF ExchangeSpec, Spec

-----------------------------------------------------------------------------
(* Channels.                                                               *)

LEMMA SentThere ==
  ASSUME NEW S, NEW s \in Seq(S), NEW x \in S
  PROVE  /\ Append(s, x) \in Seq(S)
         /\ Len(s) \in Nat /\ DOMAIN s = 1 .. Len(s)
         /\ DOMAIN Append(s, x) = 1 .. (Len(s) + 1)
         /\ Append(s, x)[Len(s) + 1] = x
         /\ \A i \in DOMAIN s : Append(s, x)[i] = s[i]
         /\ InTransit(Append(s, x)) = InTransit(s) \cup {x}
  <1> DEFINE t == Append(s, x)
  <1>1. /\ t \in Seq(S) /\ Len(s) \in Nat /\ DOMAIN s = 1 .. Len(s)
        /\ DOMAIN t = 1 .. (Len(s) + 1) /\ t[Len(s) + 1] = x
        /\ \A i \in DOMAIN s : t[i] = s[i]
    OBVIOUS
  <1> HIDE DEF t
  <1>2. InTransit(t) = InTransit(s) \cup {x}
    BY <1>1 DEF InTransit
  <1> QED BY <1>1, <1>2 DEF t

LEMMA TakenOff ==
  ASSUME NEW S, NEW s \in Seq(S), s # <<>>
  PROVE  /\ Tail(s) \in Seq(S) /\ Head(s) \in S
         /\ 1 \in DOMAIN s /\ s[1] = Head(s)
         /\ DOMAIN s \subseteq Nat /\ DOMAIN Tail(s) \subseteq Nat \ {0}
         /\ \A i \in DOMAIN Tail(s) : i + 1 \in DOMAIN s /\ Tail(s)[i] = s[i + 1]
         /\ \A i \in DOMAIN s : i > 1 => i - 1 \in DOMAIN Tail(s)
  OBVIOUS

LEMMA TakenOffSet ==
  ASSUME NEW S, NEW s \in Seq(S), s # <<>>
  PROVE  InTransit(s) = InTransit(Tail(s)) \cup {Head(s)}
  <1> DEFINE t == Tail(s)
  <1>1. /\ 1 \in DOMAIN s /\ s[1] = Head(s)
        /\ DOMAIN s \subseteq Nat /\ DOMAIN t \subseteq Nat \ {0}
        /\ \A i \in DOMAIN t : i + 1 \in DOMAIN s /\ t[i] = s[i + 1]
        /\ \A i \in DOMAIN s : i > 1 => i - 1 \in DOMAIN t
        /\ \A i \in DOMAIN s : i = 1 \/ i > 1
    OBVIOUS
  <1> HIDE DEF t
  <1>2. \A i \in DOMAIN s : i = 1 \/ (i - 1 \in DOMAIN t /\ s[i] = t[i - 1])
    BY <1>1
  <1>3. InTransit(s) = InTransit(t) \cup {Head(s)}
    BY <1>1, <1>2 DEF InTransit
  <1> QED BY <1>3 DEF t

Has(s, k) == \E m \in InTransit(s) : m.kind = k

(* powerd's lives are learnt of in order: n is the id that is known, l the *)
(* life that powerd is in, and no reply of this life precedes its report.  *)
IdsInOrder(s, n, l) ==
  \A i \in DOMAIN s : s[i].kind = "identified" =>
    /\ n <= s[i].id /\ s[i].id <= l
    /\ \A j \in DOMAIN s : i < j =>
         /\ s[j].kind = "identified" => s[i].id <= s[j].id
         /\ s[j].kind = "up" => s[i].id < l

(* What tells to resume is of a life before a report that follows it. *)
ResumesOld(s) ==
  \A i \in DOMAIN s : s[i].kind = "resume" =>
    \E j \in DOMAIN s : i < j /\ s[j].kind = "up"

Incoming == Messages(Question \cup Report \cup {"resume", "identified"})
Outgoing == Messages({"identify", "register", "ack"})

LEMMA IdsSent ==
  ASSUME NEW s \in Seq(Incoming), NEW x \in Incoming, NEW n \in Nat, NEW l \in Nat,
         IdsInOrder(s, n, l)
  PROVE  /\ x.kind \notin {"identified", "up"} => IdsInOrder(Append(s, x), n, l)
         /\ x.kind = "identified" /\ x.id = l /\ n <= l => IdsInOrder(Append(s, x), n, l)
         /\ x.kind = "up" => IdsInOrder(Append(s, x), n, l + 1)
         /\ IdsInOrder(s, n, l + 1)
  <1> DEFINE t == Append(s, x)
  <1>1. /\ Len(s) \in Nat /\ DOMAIN s = 1 .. Len(s)
        /\ DOMAIN t = 1 .. (Len(s) + 1) /\ t[Len(s) + 1] = x
        /\ \A i \in DOMAIN s : t[i] = s[i] /\ s[i] \in Incoming
    BY SentThere
  <1> HIDE DEF t
  <1>2. \A i \in DOMAIN s : s[i].id \in Nat
    <2>1. \A m \in Incoming : m.id \in Nat
      BY ExchangeAssumption DEF Incoming, Messages
    <2> QED BY <1>1, <2>1
  <1>3. ASSUME x.kind \notin {"identified", "up"}
        PROVE  IdsInOrder(t, n, l)
    BY <1>1, <1>3 DEF IdsInOrder
  <1>4. ASSUME x.kind = "identified", x.id = l, n <= l
        PROVE  IdsInOrder(t, n, l)
    BY <1>1, <1>2, <1>4 DEF IdsInOrder
  <1>5. ASSUME x.kind = "up"
        PROVE  IdsInOrder(t, n, l + 1)
    BY <1>1, <1>2, <1>5 DEF IdsInOrder
  <1>6. IdsInOrder(s, n, l + 1)
    BY <1>2 DEF IdsInOrder
  <1> QED BY <1>3, <1>4, <1>5, <1>6 DEF t

LEMMA IdsTaken ==
  ASSUME NEW s \in Seq(Incoming), s # <<>>, NEW n \in Nat, NEW l \in Nat,
         IdsInOrder(s, n, l)
  PROVE  /\ IdsInOrder(Tail(s), n, l)
         /\ Head(s).kind = "identified" =>
              /\ n <= Head(s).id /\ Head(s).id <= l
              /\ IdsInOrder(Tail(s), Head(s).id, l)
              /\ Has(Tail(s), "up") => Head(s).id < l
  <1> DEFINE t == Tail(s)
             h == Head(s)
  <1>1. /\ 1 \in DOMAIN s /\ s[1] = h /\ DOMAIN t \subseteq Nat \ {0}
        /\ \A i \in DOMAIN t : i + 1 \in DOMAIN s /\ t[i] = s[i + 1]
    BY TakenOff
  <1> HIDE DEF t, h
  <1>2. \A i, j \in DOMAIN t : (i < j => i + 1 < j + 1) /\ 1 < i + 1
    BY <1>1
  <1>3. IdsInOrder(t, n, l)
    BY <1>1, <1>2 DEF IdsInOrder
  <1>4. ASSUME h.kind = "identified"
        PROVE  /\ n <= h.id /\ h.id <= l
               /\ IdsInOrder(t, h.id, l)
               /\ Has(t, "up") => h.id < l
    BY <1>1, <1>2, <1>4 DEF IdsInOrder, Has, InTransit
  <1> QED BY <1>3, <1>4 DEF t, h

LEMMA ResumesKept ==
  ASSUME NEW s \in Seq(Incoming), ResumesOld(s)
  PROVE  /\ \A x \in Incoming : x.kind # "resume" => ResumesOld(Append(s, x))
         /\ s # <<>> => ResumesOld(Tail(s))
         /\ Has(s, "resume") => Has(s, "up")
  <1>1. ASSUME NEW x \in Incoming, x.kind # "resume"
        PROVE  ResumesOld(Append(s, x))
    <2> DEFINE t == Append(s, x)
    <2>1. /\ Len(s) \in Nat /\ DOMAIN s = 1 .. Len(s)
          /\ DOMAIN t = 1 .. (Len(s) + 1) /\ t[Len(s) + 1] = x
          /\ \A i \in DOMAIN s : t[i] = s[i]
      BY SentThere
    <2> HIDE DEF t
    <2> QED BY <1>1, <2>1 DEF ResumesOld, t
  <1>2. ASSUME s # <<>>
        PROVE  ResumesOld(Tail(s))
    <2> DEFINE t == Tail(s)
    <2>1. /\ DOMAIN s \subseteq Nat /\ DOMAIN t \subseteq Nat \ {0}
          /\ \A i \in DOMAIN t : i + 1 \in DOMAIN s /\ t[i] = s[i + 1]
          /\ \A i \in DOMAIN s : i > 1 => i - 1 \in DOMAIN t
      BY <1>2, TakenOff
    <2> HIDE DEF t
    <2>2. SUFFICES ASSUME NEW i \in DOMAIN t, t[i].kind = "resume"
                   PROVE  \E j \in DOMAIN t : i < j /\ t[j].kind = "up"
      BY DEF ResumesOld, t
    <2>3. PICK j \in DOMAIN s : i + 1 < j /\ s[j].kind = "up"
      BY <2>1, <2>2 DEF ResumesOld
    <2>4. j - 1 \in DOMAIN t /\ i < j - 1 /\ (j - 1) + 1 = j
      BY <2>1, <2>3
    <2> QED BY <2>1, <2>3, <2>4
  <1>3. Has(s, "resume") => Has(s, "up")
    BY DEF Has, InTransit, ResumesOld
  <1> QED BY <1>1, <1>2, <1>3

LEMMA AnswerSent ==
  ASSUME ExchangeTypeOK, NEW question \in Question, Answer(question)
  PROVE  LET a == Message("ack", question, id, AllowSuspend(display))
         IN  /\ calls' \in Seq(Outgoing)
             /\ InTransit(calls') = InTransit(calls) \cup {a}
  <1> DEFINE a == Message("ack", question, id, AllowSuspend(display))
  <1>1. a \in Outgoing /\ calls \in Seq(Outgoing)
    BY DEF ExchangeTypeOK, Outgoing, Messages, Message, AllowSuspend
  <1> HIDE DEF a
  <1>2. Append(calls, a) \in Seq(Outgoing) /\ InTransit(Append(calls, a)) = InTransit(calls) \cup {a}
    BY <1>1, SentThere
  <1> QED BY <1>2 DEF Answer, a

LEMMA IdentifySent ==
  ASSUME ExchangeTypeOK
  PROVE  LET x == Plain("identify")
         IN  /\ Append(calls, x) \in Seq(Outgoing)
             /\ InTransit(Append(calls, x)) = InTransit(calls) \cup {x}
  <1> DEFINE x == Plain("identify")
  <1>1. x \in Outgoing /\ calls \in Seq(Outgoing)
    BY ExchangeAssumption DEF ExchangeTypeOK, Outgoing, Messages, Message, Plain
  <1> HIDE DEF x
  <1>2. Append(calls, x) \in Seq(Outgoing) /\ InTransit(Append(calls, x)) = InTransit(calls) \cup {x}
    BY <1>1, SentThere
  <1> QED BY <1>2 DEF x

LEMMA RegistrationsSent ==
  ASSUME ExchangeTypeOK, NEW i \in 0 .. MaxLife
  PROVE  LET r(q) == Message("register", q, i, FALSE)
         IN  /\ calls \o Registrations(i) \in Seq(Outgoing)
             /\ InTransit(calls \o Registrations(i))
                 = InTransit(calls) \cup {r(q) : q \in Question \ registered}
  <1> DEFINE a == Message("register", "suspendRequest", i, FALSE)
             b == Message("register", "prepareSuspend", i, FALSE)
             sent == calls \o Registrations(i)
             r(q) == Message("register", q, i, FALSE)
             new == {r(q) : q \in Question \ registered}
  <1>1. a \in Outgoing /\ b \in Outgoing /\ calls \in Seq(Outgoing)
    BY DEF ExchangeTypeOK, Outgoing, Messages, Message, Question
  <1>2. new = {q \in {a} : "suspendRequest" \notin registered}
              \cup {q \in {b} : "prepareSuspend" \notin registered}
    BY DEF Question
  <1>3. Registrations(i) = (IF "suspendRequest" \in registered THEN <<>> ELSE <<a>>) \o
                           (IF "prepareSuspend" \in registered THEN <<>> ELSE <<b>>)
    BY DEF Registrations
  <1> SUFFICES sent \in Seq(Outgoing) /\ InTransit(sent) = InTransit(calls) \cup new
    OBVIOUS
  <1> HIDE DEF a, b, new
  <1>4. CASE "suspendRequest" \in registered /\ "prepareSuspend" \in registered
    <2>1. sent = calls
      BY <1>1, <1>3, <1>4
    <2> QED BY <1>1, <1>2, <1>4, <2>1
  <1>5. CASE "suspendRequest" \notin registered /\ "prepareSuspend" \in registered
    <2>1. sent = Append(calls, a)
      BY <1>1, <1>3, <1>5
    <2> QED BY <1>1, <1>2, <1>5, <2>1, SentThere
  <1>6. CASE "suspendRequest" \in registered /\ "prepareSuspend" \notin registered
    <2>1. sent = Append(calls, b)
      BY <1>1, <1>3, <1>6
    <2> QED BY <1>1, <1>2, <1>6, <2>1, SentThere
  <1>7. CASE "suspendRequest" \notin registered /\ "prepareSuspend" \notin registered
    <2> DEFINE first == Append(calls, a)
    <2>1. first \in Seq(Outgoing) /\ InTransit(first) = InTransit(calls) \cup {a}
      BY <1>1, SentThere
    <2>2. first = calls \o <<a>> /\ Append(first, b) = first \o <<b>>
      BY <1>1, <2>1, AppendIsConcat
    <2> HIDE DEF first
    <2>3. (calls \o <<a>>) \o <<b>> = calls \o (<<a>> \o <<b>>)
      <3>1. <<a>> \in Seq(Outgoing) /\ <<b>> \in Seq(Outgoing)
        BY <1>1
      <3> QED BY <1>1, <3>1, ConcatAssociative
    <2>4. sent = Append(first, b)
      BY <1>3, <1>7, <2>2, <2>3
    <2>5. /\ Append(first, b) \in Seq(Outgoing)
          /\ InTransit(Append(first, b)) = InTransit(first) \cup {b}
      BY <1>1, <2>1, SentThere
    <2>6. new = {a} \cup {b}
      BY <1>2, <1>7
    <2>7. InTransit(sent) = InTransit(calls) \cup new
      BY <2>1, <2>4, <2>5, <2>6
    <2> QED BY <2>4, <2>5, <2>7
  <1> QED BY <1>4, <1>5, <1>6, <1>7

-----------------------------------------------------------------------------
(* The exchange.                                                           *)

(* What is known of powerd, and by whom: SuspendBlocker has ids of powerd's *)
(* past or present only and sends no other, and powerd knows SuspendBlocker *)
(* only if it is known to it.                                              *)
Known ==
  /\ id <= life
  /\ IdsInOrder(inbox, id, life)
  /\ Has(inbox, "up") => id < life
  /\ \A m \in InTransit(calls) :
       m.kind \in {"register", "ack"} => m.of \in Question /\ m.id <= id
  /\ voters # {} => id = life
  /\ phase = "down" => voters = {} /\ vote = "none"
  /\ phase \in Question \cup {"asleep"} => ResumesOld(inbox)

IsAnswer(m, question) == m.kind = "ack" /\ m.of = question /\ m.id = life

Consented ==
  \/ phase = "prepareSuspend"
     /\ \E m \in InTransit(calls) : IsAnswer(m, "prepareSuspend") /\ m.ack
  \/ phase \in {"prepareSuspend", "asleep"} /\ vote = "granted"

(* From SuspendBlocker's consent to the sleep the display is suspended. *)
ConsentKept == Consented => id = life /\ display.state = "OffSuspended"

Awaited ==
  vote = "awaited" =>
    /\ phase \in voters
    /\ \/ Plain(phase) \in InTransit(inbox)
       \/ \E m \in InTransit(calls) : IsAnswer(m, phase)

ExchangeInv ==
  /\ Inv
  /\ ExchangeTypeOK
  /\ Known
  /\ ConsentKept
  /\ Awaited

(* While powerd has not started anew since, nothing tells to resume. *)
LEMMA NoResume ==
  ASSUME ExchangeInv, id = life, phase \in Question \cup {"asleep"}
  PROVE  ~Has(inbox, "resume")
  <1>1. inbox \in Seq(Incoming) /\ id \in Nat
    BY ExchangeAssumption DEF ExchangeInv, ExchangeTypeOK, Incoming
  <1> QED BY <1>1, ResumesKept DEF ExchangeInv, Known

LEMMA ExchangeInitially ==
  ASSUME ExchangeInit
  PROVE  ExchangeInv
  <1>1. Inv /\ TypeOK
    BY InitInv DEF ExchangeInit, Inv
  <1>2. ExchangeTypeOK
    BY <1>1, ExchangeAssumption DEF ExchangeInit, ExchangeTypeOK
  <1>3. InTransit(<<>>) = {}
    BY DEF InTransit
  <1>4. Known
    BY <1>3 DEF ExchangeInit, Known, IdsInOrder, Has, Question
  <1>5. ConsentKept /\ Awaited
    BY <1>3 DEF ExchangeInit, ConsentKept, Consented, Awaited
  <1> QED BY <1>1, <1>2, <1>4, <1>5 DEF ExchangeInv

(* A report that the bus has received, on a channel of its own or not, is  *)
(* in the place it was sent to.                                            *)
LEMMA ReportSent ==
  ASSUME ExchangeTypeOK, NEW r \in Report, ReportIs(r)
  PROVE  /\ Plain(r) \in Messages(Report) /\ Plain(r) \in Incoming
         /\ reports' \in Seq(Messages(Report))
         /\ inbox' = inbox \/ inbox' = Append(inbox, Plain(r))
         /\ inbox' \in Seq(Incoming)
  <1> DEFINE x == Plain(r)
  <1>1. /\ x \in Messages(Report) /\ x \in Incoming
        /\ reports \in Seq(Messages(Report)) /\ inbox \in Seq(Incoming)
    BY ExchangeAssumption
       DEF ExchangeTypeOK, Incoming, Messages, Message, Plain, Report
  <1> HIDE DEF x
  <1>2. Append(reports, x) \in Seq(Messages(Report)) /\ Append(inbox, x) \in Seq(Incoming)
    BY <1>1
  <1> QED BY <1>1, <1>2 DEF ReportIs, x

LEMMA SignalSent ==
  ASSUME ExchangeTypeOK, NEW q \in Question \cup {"resume"}
  PROVE  /\ Plain(q) \in Incoming /\ Plain(q).kind = q
         /\ Append(inbox, Plain(q)) \in Seq(Incoming)
         /\ InTransit(Append(inbox, Plain(q))) = InTransit(inbox) \cup {Plain(q)}
  <1> DEFINE x == Plain(q)
  <1>1. x \in Incoming /\ x.kind = q /\ inbox \in Seq(Incoming)
    BY ExchangeAssumption
       DEF ExchangeTypeOK, Incoming, Messages, Message, Plain
  <1> HIDE DEF x
  <1>2. /\ Append(inbox, x) \in Seq(Incoming)
        /\ InTransit(Append(inbox, x)) = InTransit(inbox) \cup {x}
    BY <1>1, SentThere
  <1> QED BY <1>1, <1>2 DEF x

LEMMA StartsOK ==
  ASSUME ExchangeInv, PowerdStarts, Inv'
  PROVE  ExchangeInv'
  <1> DEFINE x == Plain("up")
  <1>1. /\ phase = "down" /\ life < MaxLife /\ phase' = "awake" /\ life' = life + 1
        /\ UNCHANGED <<vars, blocker, calls, voters, vote>>
        /\ ReportIs("up")
    BY DEF PowerdStarts
  <1>2. /\ id \in Nat /\ life \in Nat /\ inbox \in Seq(Incoming)
        /\ voters = {} /\ vote = "none"
    BY <1>1, ExchangeAssumption DEF ExchangeInv, ExchangeTypeOK, Incoming, Known
  <1>3. /\ reports' \in Seq(Messages(Report)) /\ x \in Incoming
        /\ inbox' \in Seq(Incoming) /\ (inbox' = inbox \/ inbox' = Append(inbox, x))
    BY <1>1, ReportSent DEF ExchangeInv, Report
  <1>4. ExchangeTypeOK'
    <2>1. life + 1 \in 0 .. MaxLife
      BY <1>1, <1>2, ExchangeAssumption
    <2> QED BY <1>1, <1>3, <2>1 DEF ExchangeInv, ExchangeTypeOK, Incoming, Inv, blocker
  <1>5. x.kind = "up"
    BY DEF Plain, Message
  <1>6. IdsInOrder(inbox', id, life + 1)
    BY <1>2, <1>3, <1>5, IdsSent DEF ExchangeInv, Known
  <1>7. Known'
    BY <1>1, <1>2, <1>6 DEF ExchangeInv, Known, blocker, Question
  <1>8. ConsentKept' /\ Awaited'
    BY <1>1, <1>2 DEF ConsentKept, Consented, Awaited
  <1> QED BY <1>4, <1>7, <1>8 DEF ExchangeInv

LEMMA DiesOK ==
  ASSUME ExchangeInv, PowerdDies, Inv'
  PROVE  ExchangeInv'
  <1> DEFINE x == Plain("down")
  <1>1. /\ phase' = "down" /\ voters' = {} /\ vote' = "none" /\ calls' = <<>>
        /\ UNCHANGED <<vars, blocker, life>>
        /\ ReportIs("down")
    BY DEF PowerdDies
  <1>2. id \in Nat /\ life \in Nat /\ inbox \in Seq(Incoming)
    BY ExchangeAssumption DEF ExchangeInv, ExchangeTypeOK, Incoming
  <1>3. /\ reports' \in Seq(Messages(Report)) /\ x \in Incoming
        /\ inbox' \in Seq(Incoming) /\ (inbox' = inbox \/ inbox' = Append(inbox, x))
    BY <1>1, ReportSent DEF ExchangeInv, Report
  <1>4. ExchangeTypeOK'
    BY <1>1, <1>3 DEF ExchangeInv, ExchangeTypeOK, Incoming, Inv, blocker
  <1>5. x.kind = "down"
    BY DEF Plain, Message
  <1>6. IdsInOrder(inbox', id, life)
    BY <1>2, <1>3, <1>5, IdsSent DEF ExchangeInv, Known
  <1>7. Has(inbox', "up") => Has(inbox, "up")
    <2> HIDE DEF x
    <2>1. InTransit(Append(inbox, x)) = InTransit(inbox) \cup {x}
      BY <1>2, <1>3, SentThere
    <2> QED BY <1>3, <1>5, <2>1 DEF Has
  <1>8. InTransit(calls') = {}
    BY <1>1 DEF InTransit
  <1>9. Known'
    <2>1. id' = id /\ life' = life /\ phase' \notin Question \cup {"asleep"}
      BY <1>1 DEF blocker, Question
    <2> QED BY <1>1, <1>6, <1>7, <1>8, <2>1 DEF ExchangeInv, Known
  <1>10. ConsentKept' /\ Awaited'
    BY <1>1 DEF ConsentKept, Consented, Awaited
  <1> QED BY <1>4, <1>9, <1>10 DEF ExchangeInv

(* What was told before has been received when powerd asks: the first      *)
(* question of a suspend finds no resume of the last one in transit.       *)
LEMMA HeardOld ==
  ASSUME NEW s \in Seq(Incoming),
         \A i \in DOMAIN s :
           s[i].kind \in Question \cup {"resume"}
           => \E j \in DOMAIN s : j > i /\ s[j].kind = "up"
  PROVE  ResumesOld(s)
  BY DEF ResumesOld

LEMMA AskOK ==
  ASSUME ExchangeInv, NEW q \in Question, Ask(q), ResumesOld(inbox),
         UNCHANGED <<vars, blocker, calls, life, voters>>, Inv'
  PROVE  ExchangeInv'
  <1> DEFINE x == Plain(q)
  <1>1. /\ calls = <<>> /\ phase' = q /\ vote' = (IF q \in voters THEN "awaited" ELSE "none")
        /\ inbox' = Append(inbox, x) /\ reports' = reports
    BY DEF Ask, Signal
  <1>2. id \in Nat /\ life \in Nat /\ inbox \in Seq(Incoming)
    BY ExchangeAssumption DEF ExchangeInv, ExchangeTypeOK, Incoming
  <1>3. /\ x \in Incoming /\ x.kind = q
        /\ inbox' \in Seq(Incoming) /\ InTransit(inbox') = InTransit(inbox) \cup {x}
    BY <1>1, SignalSent DEF ExchangeInv
  <1> HIDE DEF x
  <1>4. q \notin {"identified", "up", "resume"}
    BY DEF Question
  <1>5. ExchangeTypeOK'
    BY <1>1, <1>3 DEF ExchangeInv, ExchangeTypeOK, Incoming, Inv, blocker, Question
  <1>6. IdsInOrder(inbox', id, life)
    BY <1>1, <1>2, <1>3, <1>4, IdsSent DEF ExchangeInv, Known
  <1>7. Has(inbox', "up") => Has(inbox, "up")
    BY <1>3, <1>4 DEF Has
  <1>8. ResumesOld(inbox')
    BY <1>1, <1>2, <1>3, <1>4, ResumesKept
  <1>9. Known'
    <2>1. voters' # {} => id' = life'
      BY DEF ExchangeInv, Known, blocker
    <2> QED BY <1>1, <1>6, <1>7, <1>8, <2>1 DEF ExchangeInv, Known, blocker, Question
  <1>10. InTransit(calls') = {}
    BY <1>1 DEF InTransit
  <1>11. ConsentKept'
    BY <1>1, <1>10 DEF ConsentKept, Consented
  <1>12. Awaited'
    BY <1>1, <1>3 DEF Awaited, x
  <1> QED BY <1>5, <1>9, <1>11, <1>12 DEF ExchangeInv

LEMMA AsksOK ==
  ASSUME ExchangeInv, PowerdAsks \/ PowerdAsksAgain, Inv'
  PROVE  ExchangeInv'
  <1>1. inbox \in Seq(Incoming)
    BY DEF ExchangeInv, ExchangeTypeOK, Incoming
  <1>2. CASE PowerdAsks
    <2>1. ResumesOld(inbox)
      BY <1>1, <1>2, HeardOld DEF PowerdAsks, Heard
    <2> QED BY <1>2, <2>1, AskOK DEF PowerdAsks, Question
  <1>3. CASE PowerdAsksAgain
    <2>1. ResumesOld(inbox)
      BY <1>3 DEF PowerdAsksAgain, ExchangeInv, Known, Question
    <2> QED BY <1>3, <2>1, AskOK DEF PowerdAsksAgain, Question
  <1> QED BY <1>2, <1>3

LEMMA SleepsOK ==
  ASSUME ExchangeInv, PowerdSleeps, Inv'
  PROVE  ExchangeInv'
  <1>1. /\ phase = "prepareSuspend" /\ vote # "awaited" /\ phase' = "asleep"
        /\ UNCHANGED <<vars, blocker, channels, life, voters, vote>>
    BY DEF PowerdSleeps
  <1>2. ExchangeTypeOK'
    BY <1>1 DEF ExchangeInv, ExchangeTypeOK, Inv, blocker, channels
  <1>3. Known'
    BY <1>1 DEF ExchangeInv, Known, Question, blocker, channels
  <1>4. ConsentKept'
    BY <1>1 DEF ExchangeInv, ConsentKept, Consented, vars, blocker
  <1>5. Awaited'
    BY <1>1 DEF Awaited
  <1> QED BY <1>2, <1>3, <1>4, <1>5 DEF ExchangeInv

LEMMA WakesOK ==
  ASSUME ExchangeInv, PowerdWakes, Inv'
  PROVE  ExchangeInv'
  <1> DEFINE x == Plain("resume")
  <1>1. /\ phase = "asleep" /\ phase' = "awake" /\ vote' = "none"
        /\ inbox' = Append(inbox, x) /\ reports' = reports
        /\ UNCHANGED <<vars, blocker, calls, life, voters>>
    BY DEF PowerdWakes, Signal
  <1>2. id \in Nat /\ life \in Nat /\ inbox \in Seq(Incoming)
    BY ExchangeAssumption DEF ExchangeInv, ExchangeTypeOK, Incoming
  <1>3. /\ x \in Incoming /\ x.kind = "resume"
        /\ inbox' \in Seq(Incoming) /\ InTransit(inbox') = InTransit(inbox) \cup {x}
    BY <1>1, SignalSent DEF ExchangeInv
  <1> HIDE DEF x
  <1>4. ExchangeTypeOK'
    BY <1>1, <1>3 DEF ExchangeInv, ExchangeTypeOK, Incoming, Inv, blocker
  <1>5. IdsInOrder(inbox', id, life)
    BY <1>1, <1>2, <1>3, IdsSent DEF ExchangeInv, Known
  <1>6. Has(inbox', "up") => Has(inbox, "up")
    BY <1>3 DEF Has
  <1>7. Known'
    BY <1>1, <1>5, <1>6 DEF ExchangeInv, Known, blocker, Question
  <1>8. ConsentKept' /\ Awaited'
    BY <1>1 DEF ConsentKept, Consented, Awaited
  <1> QED BY <1>4, <1>7, <1>8 DEF ExchangeInv

LEMMA DroppedOK ==
  ASSUME ExchangeInv, CallsDropped, Inv'
  PROVE  ExchangeInv'
  <1>1. /\ phase = "down" /\ calls' = <<>>
        /\ UNCHANGED <<vars, blocker, reports, inbox, powerd>>
    BY DEF CallsDropped
  <1>2. InTransit(calls') = {}
    BY <1>1 DEF InTransit
  <1>3. ExchangeTypeOK'
    BY <1>1 DEF ExchangeInv, ExchangeTypeOK, Inv, blocker, powerd
  <1>4. Known'
    BY <1>1, <1>2 DEF ExchangeInv, Known, Question, blocker, powerd
  <1>5. ConsentKept' /\ Awaited'
    BY <1>1, <1>4 DEF ConsentKept, Consented, Awaited, Known, powerd
  <1> QED BY <1>3, <1>4, <1>5 DEF ExchangeInv

(* What powerd takes off its channel. *)
LEMMA CallTaken ==
  ASSUME ExchangeTypeOK, calls # <<>>
  PROVE  /\ Head(calls) \in Outgoing
         /\ Tail(calls) \in Seq(Outgoing)
         /\ InTransit(calls) = InTransit(Tail(calls)) \cup {Head(calls)}
  <1>1. calls \in Seq(Outgoing)
    BY DEF ExchangeTypeOK, Outgoing
  <1> QED BY <1>1, TakenOff, TakenOffSet

LEMMA IdentifiesOK ==
  ASSUME ExchangeInv, PowerdReceives, PowerdIdentifies(Head(calls)), Inv'
  PROVE  ExchangeInv'
  <1> DEFINE x == Message("identified", "none", life, FALSE)
             h == Head(calls)
  <1>1. /\ phase \notin {"down", "asleep"} /\ calls # <<>> /\ calls' = Tail(calls)
        /\ UNCHANGED <<vars, blocker, life, reports, phase, voters, vote>>
        /\ inbox' = Append(inbox, x) /\ h.kind = "identify"
    BY DEF PowerdReceives, PowerdIdentifies
  <1>2. id \in Nat /\ life \in Nat /\ inbox \in Seq(Incoming) /\ id <= life
    BY ExchangeAssumption DEF ExchangeInv, ExchangeTypeOK, Incoming, Known
  <1>3. calls' \in Seq(Outgoing) /\ InTransit(calls) = InTransit(calls') \cup {h}
    BY <1>1, CallTaken DEF ExchangeInv
  <1>4. x \in Incoming /\ x.kind = "identified" /\ x.id = life
    BY DEF ExchangeInv, ExchangeTypeOK, Incoming, Messages, Message
  <1> HIDE DEF x, h
  <1>5. inbox' \in Seq(Incoming) /\ InTransit(inbox') = InTransit(inbox) \cup {x}
    BY <1>1, <1>2, <1>4, SentThere
  <1>6. ExchangeTypeOK'
    BY <1>1, <1>3, <1>5 DEF ExchangeInv, ExchangeTypeOK, Incoming, Outgoing, Inv, blocker
  <1>7. IdsInOrder(inbox', id, life)
    BY <1>1, <1>2, <1>4, IdsSent DEF ExchangeInv, Known
  <1>8. Has(inbox', "up") => Has(inbox, "up")
    BY <1>4, <1>5 DEF Has
  <1>9. ResumesOld(inbox) => ResumesOld(inbox')
    BY <1>1, <1>2, <1>4, ResumesKept
  <1>10. Known'
    BY <1>1, <1>3, <1>7, <1>8, <1>9 DEF ExchangeInv, Known, blocker
  <1>11. ConsentKept'
    BY <1>1, <1>3 DEF ExchangeInv, ConsentKept, Consented, IsAnswer, vars, blocker
  <1>12. Awaited'
    BY <1>1, <1>3, <1>5 DEF ExchangeInv, Awaited, IsAnswer
  <1> QED BY <1>6, <1>10, <1>11, <1>12 DEF ExchangeInv

LEMMA RegistersOK ==
  ASSUME ExchangeInv, PowerdReceives, PowerdRegisters(Head(calls)), Inv'
  PROVE  ExchangeInv'
  <1> DEFINE h == Head(calls)
  <1>1. /\ calls # <<>> /\ calls' = Tail(calls)
        /\ phase \notin {"down", "asleep"}
        /\ UNCHANGED <<vars, blocker, life, reports, inbox, phase, vote>>
        /\ h.kind = "register"
        /\ voters' = IF h.id = life THEN voters \cup {h.of} ELSE voters
    BY DEF PowerdReceives, PowerdRegisters
  <1>2. calls' \in Seq(Outgoing) /\ InTransit(calls) = InTransit(calls') \cup {h}
    BY <1>1, CallTaken DEF ExchangeInv
  <1> HIDE DEF h
  <1>3. id \in Nat /\ life \in Nat /\ id <= life
    BY ExchangeAssumption DEF ExchangeInv, ExchangeTypeOK, Known
  <1>4. h.of \in Question /\ h.id <= id
    BY <1>1, <1>2 DEF ExchangeInv, Known
  <1>5. voters \subseteq voters' /\ voters' \subseteq Question
    BY <1>1, <1>4 DEF ExchangeInv, ExchangeTypeOK
  <1>6. voters' # {} => id = life
    BY <1>1, <1>3, <1>4 DEF ExchangeInv, Known
  <1>7. ExchangeTypeOK'
    BY <1>1, <1>2, <1>5 DEF ExchangeInv, ExchangeTypeOK, Outgoing, Inv, blocker
  <1>8. Known'
    BY <1>1, <1>2, <1>6 DEF ExchangeInv, Known, blocker
  <1>9. ConsentKept'
    BY <1>1, <1>2 DEF ExchangeInv, ConsentKept, Consented, IsAnswer, vars, blocker
  <1>10. Awaited'
    BY <1>1, <1>2, <1>5 DEF ExchangeInv, Awaited, IsAnswer
  <1> QED BY <1>7, <1>8, <1>9, <1>10 DEF ExchangeInv

LEMMA CountsOK ==
  ASSUME ExchangeInv, PowerdReceives, PowerdCounts(Head(calls)), Inv'
  PROVE  ExchangeInv'
  <1> DEFINE h == Head(calls)
             x == Plain("resume")
             valid == h.id = life /\ h.of = phase /\ vote = "awaited"
  <1>1. /\ calls # <<>> /\ calls' = Tail(calls) /\ h.kind = "ack"
        /\ phase \notin {"down", "asleep"}
        /\ UNCHANGED <<vars, blocker, life, voters>>
    BY DEF PowerdReceives, PowerdCounts
  <1>2. calls' \in Seq(Outgoing) /\ InTransit(calls) = InTransit(calls') \cup {h}
    BY <1>1, CallTaken DEF ExchangeInv
  <1>3. id \in Nat /\ life \in Nat /\ inbox \in Seq(Incoming)
    BY ExchangeAssumption DEF ExchangeInv, ExchangeTypeOK, Incoming
  <1>4. CASE valid /\ ~h.ack
    <2>1. /\ phase' = "awake" /\ vote' = "none" /\ reports' = reports
          /\ inbox' = Append(inbox, x) \/ inbox' = inbox
      BY <1>4 DEF PowerdCounts, Signal
    <2>2. /\ x \in Incoming /\ x.kind = "resume"
          /\ Append(inbox, x) \in Seq(Incoming)
          /\ InTransit(Append(inbox, x)) = InTransit(inbox) \cup {x}
      BY SignalSent DEF ExchangeInv
    <2> HIDE DEF x, h
    <2>3. ExchangeTypeOK'
      BY <1>1, <1>2, <2>1, <2>2
         DEF ExchangeInv, ExchangeTypeOK, Incoming, Outgoing, Inv, blocker
    <2>4. IdsInOrder(inbox', id, life)
      BY <1>3, <2>1, <2>2, IdsSent DEF ExchangeInv, Known
    <2>5. Has(inbox', "up") => Has(inbox, "up")
      BY <2>1, <2>2 DEF Has
    <2>6. Known'
      BY <1>1, <1>2, <2>1, <2>4, <2>5 DEF ExchangeInv, Known, blocker, Question
    <2>7. ConsentKept' /\ Awaited'
      BY <2>1 DEF ConsentKept, Consented, Awaited
    <2> QED BY <2>3, <2>6, <2>7 DEF ExchangeInv
  <1>5. CASE ~(valid /\ ~h.ack)
    <2>1. /\ UNCHANGED <<reports, inbox, phase>>
          /\ vote' = IF valid THEN "granted" ELSE vote
      BY <1>5 DEF PowerdCounts
    <2> HIDE DEF h
    <2>2. ExchangeTypeOK'
      BY <1>1, <1>2, <2>1 DEF ExchangeInv, ExchangeTypeOK, Outgoing, Inv, blocker
    <2>3. Known'
      BY <1>1, <1>2, <2>1 DEF ExchangeInv, Known, blocker
    <2>4. ConsentKept'
      <3>1. Consented' => Consented
        BY <1>1, <1>2, <1>5, <2>1 DEF Consented, IsAnswer
      <3> QED BY <1>1, <3>1 DEF ExchangeInv, ConsentKept, vars, blocker
    <2>5. Awaited'
      BY <1>1, <1>2, <2>1 DEF ExchangeInv, Awaited, IsAnswer
    <2> QED BY <2>2, <2>3, <2>4, <2>5 DEF ExchangeInv
  <1> QED BY <1>4, <1>5

LEMMA DisplayStepOK ==
  ASSUME ExchangeInv, DisplayStep, Inv'
  PROVE  ExchangeInv'
  <1>1. DisplayNext /\ UNCHANGED <<blocker, channels, powerd>>
    BY DEF DisplayStep
  <1>2. display'.state = "OffSuspended" <=> display.state = "OffSuspended"
    BY <1>1, HandlersOK DEF ExchangeInv, HandlerOK, SleepKept
  <1>3. ExchangeTypeOK'
    BY <1>1 DEF ExchangeInv, ExchangeTypeOK, Inv, blocker, channels, powerd
  <1>4. Known'
    BY <1>1 DEF ExchangeInv, Known, blocker, channels, powerd
  <1>5. ConsentKept'
    BY <1>1, <1>2
       DEF ExchangeInv, ConsentKept, Consented, IsAnswer, blocker, channels, powerd
  <1>6. Awaited'
    BY <1>1 DEF ExchangeInv, Awaited, IsAnswer, channels, powerd
  <1> QED BY <1>3, <1>4, <1>5, <1>6 DEF ExchangeInv

(* What SuspendBlocker takes off its channel. *)
LEMMA MessageTaken ==
  ASSUME ExchangeInv, inbox # <<>>
  PROVE  /\ Head(inbox) \in Incoming
         /\ Tail(inbox) \in Seq(Incoming)
         /\ InTransit(inbox) = InTransit(Tail(inbox)) \cup {Head(inbox)}
         /\ IdsInOrder(Tail(inbox), id, life)
         /\ ResumesOld(inbox) => ResumesOld(Tail(inbox))
  <1>1. inbox \in Seq(Incoming) /\ id \in Nat /\ life \in Nat
    BY ExchangeAssumption DEF ExchangeInv, ExchangeTypeOK, Incoming
  <1>2. IdsInOrder(inbox, id, life)
    BY DEF ExchangeInv, Known
  <1> QED BY <1>1, <1>2, TakenOff, TakenOffSet, IdsTaken, ResumesKept

(* powerd's coming and going: nothing is forgotten but the registrations,  *)
(* and nothing sent but the request to be identified.                      *)
LEMMA PowerdUpSends ==
  ASSUME ExchangeTypeOK, NEW m, CbPowerdUp(m)
  PROVE  /\ calls' \in Seq(Outgoing)
         /\ InTransit(calls) \subseteq InTransit(calls')
         /\ InTransit(calls') \subseteq InTransit(calls) \cup {Plain("identify")}
         /\ m.kind = "up" => Plain("identify") \in InTransit(calls')
         /\ registered' \subseteq Question
  <1>1. calls \in Seq(Outgoing) /\ registered \subseteq Question
    BY DEF ExchangeTypeOK, Outgoing
  <1>2. CASE m.kind = "up"
    BY <1>1, <1>2, IdentifySent DEF CbPowerdUp
  <1>3. CASE m.kind # "up"
    BY <1>1, <1>3 DEF CbPowerdUp
  <1> QED BY <1>2, <1>3

LEMMA PowerdUpOK ==
  ASSUME ExchangeInv, Receive, NEW m, CbPowerdUp(m), Inv',
         \/ inbox' = inbox /\ reports' = Tail(reports) /\ reports # <<>>
         \/ inbox' = Tail(inbox) /\ reports' = reports /\ inbox # <<>> /\ m = Head(inbox)
  PROVE  ExchangeInv'
  <1>1. UNCHANGED <<vars, id, powerd>> /\ m.kind \in Report
    BY DEF Receive, CbPowerdUp
  <1>2. /\ calls' \in Seq(Outgoing) /\ InTransit(calls) \subseteq InTransit(calls')
        /\ InTransit(calls') \subseteq InTransit(calls) \cup {Plain("identify")}
        /\ registered' \subseteq Question
    BY PowerdUpSends DEF ExchangeInv
  <1>3. /\ inbox \in Seq(Incoming) /\ reports \in Seq(Messages(Report))
        /\ id \in Nat /\ life \in Nat
    BY ExchangeAssumption DEF ExchangeInv, ExchangeTypeOK, Incoming
  <1>4. reports' \in Seq(Messages(Report))
    BY <1>3
  <1>5. /\ inbox' \in Seq(Incoming) /\ IdsInOrder(inbox', id, life)
        /\ InTransit(inbox') \subseteq InTransit(inbox)
        /\ InTransit(inbox) \subseteq InTransit(inbox') \cup {m}
        /\ ResumesOld(inbox) => ResumesOld(inbox')
    BY <1>3, MessageTaken DEF ExchangeInv, Known
  <1>6. Plain("identify").kind = "identify"
    BY DEF Plain, Message
  <1>7. ExchangeTypeOK'
    BY <1>1, <1>2, <1>4, <1>5
       DEF ExchangeInv, ExchangeTypeOK, Incoming, Outgoing, Inv, powerd
  <1>8. Has(inbox', "up") => Has(inbox, "up")
    BY <1>5 DEF Has
  <1>9. Known'
    BY <1>1, <1>2, <1>5, <1>6, <1>8 DEF ExchangeInv, Known, powerd
  <1>10. ConsentKept'
    <2>1. Consented' => Consented
      BY <1>1, <1>2, <1>6 DEF Consented, IsAnswer, powerd
    <2> QED BY <1>1, <2>1 DEF ExchangeInv, ConsentKept, vars, powerd
  <1>11. Awaited'
    <2>1. Plain(phase) # m \/ vote # "awaited"
      BY <1>1 DEF ExchangeInv, ExchangeTypeOK, Awaited, Question, Report, Plain, Message
    <2> QED BY <1>1, <1>2, <1>5, <2>1 DEF ExchangeInv, Awaited, IsAnswer, powerd
  <1> QED BY <1>7, <1>9, <1>10, <1>11 DEF ExchangeInv

(* An answer to powerd's question: the display has been told to suspend,   *)
(* if it was asked for the last time.                                      *)
LEMMA QuestionOK ==
  ASSUME ExchangeInv, Receive, inbox # <<>>, inbox' = Tail(inbox), reports' = reports,
         CbSuspendRequest(Head(inbox)) \/ CbPrepareSuspend(Head(inbox)), Inv'
  PROVE  ExchangeInv'
  <1> DEFINE h == Head(inbox)
             a == Message("ack", h.kind, id, AllowSuspend(display))
  <1>1. /\ UNCHANGED <<blocker, powerd>> /\ h.kind \in Question /\ Answer(h.kind)
        /\ \/ h.kind = "suspendRequest" /\ UNCHANGED vars
           \/ h.kind = "prepareSuspend" /\ SetSuspended(TRUE)
    BY DEF Receive, CbSuspendRequest, CbPrepareSuspend, Question
  <1>2. calls' \in Seq(Outgoing) /\ InTransit(calls') = InTransit(calls) \cup {a}
    BY <1>1, AnswerSent DEF ExchangeInv
  <1>3. /\ a.kind = "ack" /\ a.of = h.kind /\ a.id = id
        /\ a.ack = AllowSuspend(display)
    BY DEF Message
  <1>4. /\ inbox' \in Seq(Incoming) /\ IdsInOrder(inbox', id, life)
        /\ InTransit(inbox) = InTransit(inbox') \cup {h}
        /\ ResumesOld(inbox) => ResumesOld(inbox')
    BY MessageTaken
  <1> HIDE DEF h, a
  <1>5. ExchangeTypeOK'
    BY <1>1, <1>2, <1>4
       DEF ExchangeInv, ExchangeTypeOK, Incoming, Outgoing, Inv, blocker, powerd
  <1>6. Has(inbox', "up") => Has(inbox, "up")
    BY <1>4 DEF Has
  <1>7. id \in Nat /\ id <= id
    BY ExchangeAssumption DEF ExchangeInv, ExchangeTypeOK
  <1>8. Known'
    BY <1>1, <1>2, <1>3, <1>4, <1>6, <1>7 DEF ExchangeInv, Known, blocker, powerd
  <1>9. ConsentKept'
    <2>1. SUFFICES ASSUME Consented'
                   PROVE  id = life /\ display'.state = "OffSuspended"
      BY <1>1 DEF ConsentKept, blocker, powerd
    <2>2. CASE Consented
      <3>1. id = life /\ display.state = "OffSuspended"
        BY <2>2 DEF ExchangeInv, ConsentKept
      <3> QED BY <1>1, <3>1, SuspendSleeps DEF ExchangeInv, Inv, vars
    <2>3. CASE ~Consented
      <3>1. IsAnswer(a, "prepareSuspend") /\ a.ack
        BY <1>1, <1>2, <2>1, <2>3 DEF Consented, IsAnswer, powerd
      <3>2. /\ id = life /\ h.kind = "prepareSuspend" /\ display.state = "Off"
        BY <1>3, <3>1 DEF IsAnswer, AllowSuspend
      <3>3. SetSuspended(TRUE)
        BY <1>1, <3>2
      <3> QED BY <3>2, <3>3, SuspendSleeps DEF ExchangeInv, Inv
    <2> QED BY <2>2, <2>3
  <1>10. Awaited'
    <2>1. SUFFICES ASSUME vote = "awaited"
                   PROVE  /\ phase \in voters
                          /\ \/ Plain(phase) \in InTransit(inbox')
                             \/ \E m \in InTransit(calls') : IsAnswer(m, phase)
      BY <1>1 DEF Awaited, IsAnswer, powerd
    <2>2. phase \in voters /\ id = life
      BY <2>1 DEF ExchangeInv, Awaited, Known
    <2>3. CASE Plain(phase) = h
      <3>1. IsAnswer(a, phase)
        BY <1>3, <2>2, <2>3 DEF IsAnswer, Plain, Message
      <3> QED BY <1>2, <2>2, <3>1
    <2> QED BY <1>2, <1>4, <2>1, <2>2, <2>3 DEF ExchangeInv, Awaited
  <1> QED BY <1>5, <1>8, <1>9, <1>10 DEF ExchangeInv

LEMMA ResumeOK ==
  ASSUME ExchangeInv, Receive, inbox # <<>>, inbox' = Tail(inbox), reports' = reports,
         CbResume(Head(inbox)), Inv'
  PROVE  ExchangeInv'
  <1> DEFINE h == Head(inbox)
  <1>1. /\ UNCHANGED <<blocker, calls, powerd>> /\ h.kind = "resume"
    BY DEF Receive, CbResume
  <1>2. /\ inbox' \in Seq(Incoming) /\ IdsInOrder(inbox', id, life)
        /\ InTransit(inbox) = InTransit(inbox') \cup {h}
        /\ ResumesOld(inbox) => ResumesOld(inbox')
    BY MessageTaken
  <1> HIDE DEF h
  <1>3. ExchangeTypeOK'
    BY <1>1, <1>2 DEF ExchangeInv, ExchangeTypeOK, Incoming, Inv, blocker, powerd
  <1>4. Has(inbox', "up") => Has(inbox, "up")
    BY <1>2 DEF Has
  <1>5. Known'
    BY <1>1, <1>2, <1>4 DEF ExchangeInv, Known, blocker, powerd
  <1>6. ConsentKept'
    <2>1. Has(inbox, "resume")
      BY <1>1, <1>2 DEF Has
    <2>2. ~Consented
      BY <2>1, NoResume DEF ExchangeInv, ConsentKept, Consented, Question
    <2> QED BY <1>1, <2>2 DEF ConsentKept, Consented, IsAnswer, blocker, powerd
  <1>7. Awaited'
    <2>1. Plain(phase) # h \/ vote # "awaited"
      BY <1>1 DEF ExchangeInv, ExchangeTypeOK, Awaited, Question, Plain, Message
    <2> QED BY <1>1, <1>2, <2>1 DEF ExchangeInv, Awaited, IsAnswer, powerd
  <1> QED BY <1>3, <1>5, <1>6, <1>7 DEF ExchangeInv

LEMMA IdentifyOK ==
  ASSUME ExchangeInv, Receive, inbox # <<>>, inbox' = Tail(inbox), reports' = reports,
         CbIdentify(Head(inbox)), Inv'
  PROVE  ExchangeInv'
  <1> DEFINE h == Head(inbox)
             r(q) == Message("register", q, h.id, FALSE)
             new == {r(q) : q \in Question \ registered}
  <1>1. /\ UNCHANGED <<vars, powerd>> /\ h.kind = "identified" /\ id' = h.id
        /\ calls' = calls \o Registrations(h.id) /\ registered' = Question
    BY DEF Receive, CbIdentify
  <1>2. inbox \in Seq(Incoming) /\ id \in Nat /\ life \in Nat /\ IdsInOrder(inbox, id, life)
    BY ExchangeAssumption DEF ExchangeInv, ExchangeTypeOK, Incoming, Known
  <1>3. /\ h \in Incoming /\ inbox' \in Seq(Incoming)
        /\ InTransit(inbox) = InTransit(inbox') \cup {h}
        /\ ResumesOld(inbox) => ResumesOld(inbox')
    BY MessageTaken
  <1>4. /\ id <= h.id /\ h.id <= life
        /\ IdsInOrder(inbox', h.id, life)
        /\ Has(inbox', "up") => h.id < life
    BY <1>1, <1>2, IdsTaken
  <1>5. h.id \in 0 .. MaxLife
    BY <1>3 DEF Incoming, Messages
  <1>6. calls' \in Seq(Outgoing) /\ InTransit(calls') = InTransit(calls) \cup new
    BY <1>1, <1>5, RegistrationsSent DEF ExchangeInv
  <1>7. \A m \in new : m.kind = "register" /\ m.of \in Question /\ m.id = h.id
    BY DEF Message
  <1> HIDE DEF new, h
  <1>8. ExchangeTypeOK'
    BY <1>1, <1>3, <1>5, <1>6
       DEF ExchangeInv, ExchangeTypeOK, Incoming, Outgoing, Inv, powerd
  <1>9. id = life => h.id = life
    BY <1>2, <1>4, <1>5
  <1>10. Known'
    <2>1. \A m \in InTransit(calls') :
            m.kind \in {"register", "ack"} => m.of \in Question /\ m.id <= h.id
      <3>1. SUFFICES ASSUME NEW m \in InTransit(calls), m.kind \in {"register", "ack"}
                     PROVE  m.of \in Question /\ m.id <= h.id
        BY <1>5, <1>6, <1>7
      <3>2. m.of \in Question /\ m.id <= id
        BY <3>1 DEF ExchangeInv, Known
      <3>3. m \in Outgoing
        BY <3>1 DEF ExchangeInv, ExchangeTypeOK, Outgoing, InTransit
      <3> QED BY <1>2, <1>4, <1>5, <3>2, <3>3 DEF Outgoing, Messages
    <2>2. voters # {} => h.id = life
      BY <1>9 DEF ExchangeInv, Known
    <2> QED BY <1>1, <1>3, <1>4, <2>1, <2>2 DEF ExchangeInv, Known, powerd
  <1>11. ConsentKept'
    <2>1. Consented' => Consented
      BY <1>1, <1>6, <1>7 DEF Consented, IsAnswer, powerd
    <2> QED BY <1>1, <1>9, <2>1 DEF ExchangeInv, ConsentKept, vars, powerd
  <1>12. Awaited'
    <2>1. Plain(phase) # h \/ vote # "awaited"
      BY <1>1 DEF ExchangeInv, ExchangeTypeOK, Awaited, Question, Plain, Message
    <2> QED BY <1>1, <1>3, <1>6, <2>1 DEF ExchangeInv, Awaited, IsAnswer, powerd
  <1> QED BY <1>8, <1>10, <1>11, <1>12 DEF ExchangeInv

LEMMA ReceiveOK ==
  ASSUME ExchangeInv, Receive, Inv'
  PROVE  ExchangeInv'
  <1>1. CASE reports # <<>> /\ CbPowerdUp(Head(reports)) /\ reports' = Tail(reports)
             /\ UNCHANGED inbox
    BY <1>1, PowerdUpOK
  <1>2. CASE inbox # <<>> /\ inbox' = Tail(inbox) /\ UNCHANGED reports
    <2>1. \/ CbSuspendRequest(Head(inbox)) \/ CbPrepareSuspend(Head(inbox))
          \/ CbResume(Head(inbox))
          \/ CbPowerdUp(Head(inbox))
          \/ CbIdentify(Head(inbox))
      BY <1>2 DEF Receive
    <2> QED BY <1>2, <2>1, QuestionOK, ResumeOK, PowerdUpOK, IdentifyOK
  <1> QED BY <1>1, <1>2 DEF Receive

LEMMA ExchangeStep ==
  ASSUME ExchangeInv, [ExchangeNext]_allVars
  PROVE  ExchangeInv'
  <1>1. Inv'
    BY ExchangeStepOK DEF ExchangeInv
  <1>2. CASE UNCHANGED allVars
    <2>1. UNCHANGED <<display, blocker, channels, powerd>>
      BY <1>2 DEF allVars, vars
    <2> QED BY <1>1, <2>1 DEF ExchangeInv, ExchangeTypeOK, Known, ConsentKept, Consented,
                              Awaited, IsAnswer, Inv, blocker, channels, powerd
  <1>3. CASE PowerdReceives
    BY <1>1, <1>3, IdentifiesOK, RegistersOK, CountsOK DEF PowerdReceives
  <1> QED BY <1>1, <1>2, <1>3, ReceiveOK, DisplayStepOK, StartsOK, DiesOK, AsksOK, SleepsOK,
             WakesOK, DroppedOK DEF ExchangeNext

LEMMA ExchangeInvariant == ExchangeSpec => []ExchangeInv
  <1>1. ExchangeInv /\ [ExchangeNext]_allVars => ExchangeInv'
    BY ExchangeStep
  <1> QED BY <1>1, ExchangeInitially, PTL DEF ExchangeSpec

(* What is sent is of the kinds that its receiver expects, and carries an  *)
(* id that powerd has given.                                               *)
THEOREM ExchangeTypes == ExchangeSpec => []ExchangeTypeOK
  <1>1. ExchangeInv => ExchangeTypeOK
    BY DEF ExchangeInv
  <1> QED BY <1>1, ExchangeInvariant, PTL

(* powerd's consent is no stale answer, and what happens after it does not *)
(* wake the display: it sleeps until powerd's resume, however often powerd *)
(* dies, and in whatever order the bus's reports arrive.                   *)
THEOREM ConsentIsKept == ExchangeSpec => []AsleepOnlySuspended
  <1>1. ExchangeInv => AsleepOnlySuspended
    BY DEF ExchangeInv, ConsentKept, Consented, AsleepOnlySuspended
  <1> QED BY <1>1, ExchangeInvariant, PTL

(* powerd never waits for what will not come: its question or the answer   *)
(* to it is in transit, and the answer has the id that powerd expects.     *)
THEOREM AwaitedComes == ExchangeSpec => []AwaitedIsComing
  <1>1. ExchangeInv => AwaitedIsComing
    BY DEF ExchangeInv, Awaited, Known, IsAnswer, AwaitedIsComing
  <1> QED BY <1>1, ExchangeInvariant, PTL

-----------------------------------------------------------------------------
(* Registration, if the bus's reports keep their order with powerd's       *)
(* messages: each life of powerd is then seen to begin, to give its id and *)
(* to end, in this order.                                                  *)

(* A reply is powerd's of this life, if it has one, or the end of the life *)
(* that gave it has been reported since.                                   *)
OfLifeOrGone(s, l, up) ==
  \A i \in DOMAIN s : s[i].kind = "identified" =>
    \/ up /\ s[i].id = l
    \/ \E j \in DOMAIN s : i < j /\ s[j].kind = "down"

(* powerd has come, by the last report. *)
UpPending(s) ==
  \E i \in DOMAIN s :
    s[i].kind = "up" /\ \A j \in DOMAIN s : i < j => s[j].kind # "down"

LEMMA LivesSent ==
  ASSUME NEW s \in Seq(Incoming), NEW x \in Incoming, NEW l, NEW up \in BOOLEAN,
         OfLifeOrGone(s, l, up)
  PROVE  /\ x.kind # "identified" => OfLifeOrGone(Append(s, x), l, up)
         /\ x.kind = "identified" /\ x.id = l /\ up => OfLifeOrGone(Append(s, x), l, up)
         /\ x.kind = "down" => \A k, u : OfLifeOrGone(Append(s, x), k, u)
         /\ x.kind = "up" /\ ~up => \A k, u : OfLifeOrGone(Append(s, x), k, u)
  <1> DEFINE t == Append(s, x)
  <1>1. /\ Len(s) \in Nat /\ DOMAIN s = 1 .. Len(s)
        /\ DOMAIN t = 1 .. (Len(s) + 1) /\ t[Len(s) + 1] = x
        /\ \A i \in DOMAIN s : t[i] = s[i]
    BY SentThere
  <1> HIDE DEF t
  <1>2. ASSUME x.kind # "identified"
        PROVE  OfLifeOrGone(t, l, up)
    BY <1>1, <1>2 DEF OfLifeOrGone
  <1>3. ASSUME x.kind = "identified", x.id = l, up
        PROVE  OfLifeOrGone(t, l, up)
    BY <1>1, <1>3 DEF OfLifeOrGone
  <1>4. ASSUME x.kind = "down", NEW k, NEW u
        PROVE  OfLifeOrGone(t, k, u)
    BY <1>1, <1>4 DEF OfLifeOrGone
  <1>5. ASSUME x.kind = "up", ~up, NEW k, NEW u
        PROVE  OfLifeOrGone(t, k, u)
    BY <1>1, <1>5 DEF OfLifeOrGone
  <1> QED BY <1>2, <1>3, <1>4, <1>5 DEF t

LEMMA LivesTaken ==
  ASSUME NEW s \in Seq(Incoming), s # <<>>, NEW l, NEW up \in BOOLEAN,
         OfLifeOrGone(s, l, up)
  PROVE  /\ OfLifeOrGone(Tail(s), l, up)
         /\ Head(s).kind = "identified" =>
              (up /\ Head(s).id = l) \/ Has(Tail(s), "down")
  <1> DEFINE t == Tail(s)
             h == Head(s)
  <1>1. /\ 1 \in DOMAIN s /\ s[1] = h
        /\ DOMAIN s \subseteq Nat /\ DOMAIN t \subseteq Nat \ {0}
        /\ \A i \in DOMAIN t : i + 1 \in DOMAIN s /\ t[i] = s[i + 1]
        /\ \A i \in DOMAIN s : i > 1 => i - 1 \in DOMAIN t
    BY TakenOff
  <1> HIDE DEF t, h
  <1>2. \A i, j \in DOMAIN s : i > 0 /\ i < j =>
          j - 1 \in DOMAIN t /\ i - 1 < j - 1 /\ t[j - 1] = s[j]
    BY <1>1
  <1>3. OfLifeOrGone(t, l, up)
    <2>1. SUFFICES ASSUME NEW i \in DOMAIN t, t[i].kind = "identified", ~(up /\ t[i].id = l)
                   PROVE  \E j \in DOMAIN t : i < j /\ t[j].kind = "down"
      BY DEF OfLifeOrGone
    <2>2. i + 1 \in DOMAIN s /\ s[i + 1] = t[i] /\ i + 1 > 0 /\ i = (i + 1) - 1
      BY <1>1
    <2>3. PICK j \in DOMAIN s : i + 1 < j /\ s[j].kind = "down"
      BY <2>1, <2>2 DEF OfLifeOrGone
    <2> QED BY <1>2, <2>2, <2>3
  <1>4. ASSUME h.kind = "identified", ~(up /\ h.id = l)
        PROVE  Has(t, "down")
    <2>1. PICK j \in DOMAIN s : 1 < j /\ s[j].kind = "down"
      BY <1>1, <1>4 DEF OfLifeOrGone
    <2> QED BY <1>1, <1>2, <2>1 DEF Has, InTransit
  <1> QED BY <1>3, <1>4 DEF t, h

LEMMA UpSent ==
  ASSUME NEW s \in Seq(Incoming), NEW x \in Incoming
  PROVE  /\ UpPending(s) /\ x.kind # "down" => UpPending(Append(s, x))
         /\ x.kind = "up" => UpPending(Append(s, x))
  <1> DEFINE t == Append(s, x)
  <1>1. /\ Len(s) \in Nat /\ DOMAIN s = 1 .. Len(s)
        /\ DOMAIN t = 1 .. (Len(s) + 1) /\ t[Len(s) + 1] = x
        /\ \A i \in DOMAIN s : t[i] = s[i]
    BY SentThere
  <1> HIDE DEF t
  <1>2. UpPending(s) /\ x.kind # "down" => UpPending(t)
    BY <1>1 DEF UpPending
  <1>3. ASSUME x.kind = "up"
        PROVE  UpPending(t)
    BY <1>1, <1>3 DEF UpPending
  <1> QED BY <1>2, <1>3 DEF t

LEMMA UpTaken ==
  ASSUME NEW s \in Seq(Incoming), s # <<>>, UpPending(s)
  PROVE  /\ Head(s).kind # "up" => UpPending(Tail(s))
         /\ Head(s).kind = "up" => UpPending(Tail(s)) \/ ~Has(Tail(s), "down")
  <1> DEFINE t == Tail(s)
             h == Head(s)
  <1>1. /\ 1 \in DOMAIN s /\ s[1] = h
        /\ DOMAIN s \subseteq Nat /\ DOMAIN t \subseteq Nat \ {0}
        /\ \A i \in DOMAIN t : i + 1 \in DOMAIN s /\ t[i] = s[i + 1]
        /\ \A i \in DOMAIN s : i > 1 => i - 1 \in DOMAIN t
        /\ \A i \in DOMAIN s : i = 1 \/ i > 1
    OBVIOUS
  <1> HIDE DEF t, h
  <1>2. PICK i \in DOMAIN s :
          s[i].kind = "up" /\ \A j \in DOMAIN s : i < j => s[j].kind # "down"
    BY DEF UpPending
  <1>3. CASE i = 1
    <2>1. \A j \in DOMAIN t : t[j].kind # "down"
      BY <1>1, <1>2, <1>3
    <2> QED BY <1>1, <1>2, <1>3, <2>1 DEF Has, InTransit, t, h
  <1>4. CASE i > 1
    <2>1. i - 1 \in DOMAIN t /\ t[i - 1] = s[i]
      BY <1>1, <1>4
    <2>2. \A j \in DOMAIN t : i - 1 < j => t[j].kind # "down"
      BY <1>1, <1>2
    <2>3. UpPending(t)
      BY <1>2, <2>1, <2>2 DEF UpPending
    <2> QED BY <2>3 DEF t
  <1> QED BY <1>1, <1>3, <1>4

(* powerd knows SuspendBlocker by the id it answers with, or will when it  *)
(* has received the registrations.                                         *)
Registered ==
  /\ id = life
  /\ registered = Question
  /\ \A q \in Question :
       q \in voters \/ Message("register", q, life, FALSE) \in InTransit(calls)

(* SuspendBlocker has not registered unless with the powerd that is there, *)
(* or that whose end it is about to learn of; and while powerd is there it *)
(* is about to learn of that, or of its id, or has registered.             *)
LivesInv ==
  /\ reports = <<>>
  /\ registered \in {{}, Question}
  /\ OfLifeOrGone(inbox, life, phase # "down")
  /\ registered # {} => Has(inbox, "down") \/ (phase # "down" /\ Registered)
  /\ phase # "down" =>
       \/ UpPending(inbox)
       \/ /\ ~Has(inbox, "down")
          /\ Has(calls, "identify") \/ Has(inbox, "identified") \/ Registered

(* A step of what follows the registration neither loses the call that     *)
(* identifies or registers, nor tells of powerd's life.                    *)
LEMMA LivesCalm ==
  ASSUME ExchangeTypeOK, LivesInv,
         UNCHANGED <<id, registered, reports, life>>,
         phase' = "down" <=> phase = "down",
         voters \subseteq voters',
         \A m \in InTransit(calls) :
           m.kind \in {"identify", "register"} =>
             \/ m \in InTransit(calls')
             \/ m.kind = "register" /\ (m.id = life => m.of \in voters'),
         \/ inbox' = inbox
         \/ \E x \in Incoming :
              x.kind \in Question \cup {"resume"} /\ inbox' = Append(inbox, x)
         \/ inbox # <<>> /\ inbox' = Tail(inbox)
            /\ Head(inbox).kind \in Question \cup {"resume"}
  PROVE  LivesInv'
  <1>1. inbox \in Seq(Incoming)
    BY DEF ExchangeTypeOK, Incoming
  <1>2. \A k \in {"down", "identified"} : Has(inbox', k) <=> Has(inbox, k)
    <2>1. CASE \E x \in Incoming :
                 x.kind \in Question \cup {"resume"} /\ inbox' = Append(inbox, x)
      <3>1. PICK x \in Incoming :
                 x.kind \in Question \cup {"resume"} /\ inbox' = Append(inbox, x)
        BY <2>1
      <3>2. InTransit(inbox') = InTransit(inbox) \cup {x}
        BY <1>1, <3>1, SentThere
      <3> QED BY <3>1, <3>2 DEF Has, Question
    <2>2. CASE inbox # <<>> /\ inbox' = Tail(inbox)
               /\ Head(inbox).kind \in Question \cup {"resume"}
      <3>1. InTransit(inbox) = InTransit(inbox') \cup {Head(inbox)}
        BY <1>1, <2>2, TakenOffSet
      <3> QED BY <2>2, <3>1 DEF Has, Question
    <2> QED BY <2>1, <2>2
  <1>3. OfLifeOrGone(inbox', life, phase # "down")
    BY <1>1, LivesSent, LivesTaken DEF LivesInv, Question
  <1>4. UpPending(inbox) => UpPending(inbox')
    BY <1>1, UpSent, UpTaken DEF Question
  <1>5. Has(calls, "identify") => Has(calls', "identify")
    BY DEF Has
  <1>6. Registered => Registered'
    <2>1. ASSUME NEW q \in Question, Message("register", q, life, FALSE) \in InTransit(calls)
          PROVE  q \in voters' \/ Message("register", q, life, FALSE) \in InTransit(calls')
      BY <2>1 DEF Message
    <2> QED BY <2>1 DEF Registered
  <1>7. (phase' # "down") = (phase # "down")
    OBVIOUS
  <1> QED BY <1>2, <1>3, <1>4, <1>5, <1>6, <1>7 DEF LivesInv

LEMMA LivesStart ==
  ASSUME InOrder, ExchangeInv, LivesInv, PowerdStarts
  PROVE  LivesInv'
  <1> DEFINE x == Plain("up")
  <1>1. /\ phase = "down" /\ phase' = "awake" /\ inbox' = Append(inbox, x)
        /\ UNCHANGED <<registered, reports>>
    BY DEF PowerdStarts, ReportIs, blocker
  <1>2. inbox \in Seq(Incoming) /\ x \in Incoming /\ x.kind = "up"
    BY ReportSent DEF PowerdStarts, ExchangeInv, ExchangeTypeOK, Incoming, Report, Plain, Message
  <1> HIDE DEF x
  <1>3. OfLifeOrGone(inbox', life', phase' # "down")
    BY <1>1, <1>2, LivesSent DEF LivesInv
  <1>4. Has(inbox, "down") => Has(inbox', "down")
    BY <1>1, <1>2, SentThere DEF Has
  <1>5. UpPending(inbox')
    BY <1>1, <1>2, UpSent
  <1> QED BY <1>1, <1>3, <1>4, <1>5 DEF LivesInv

LEMMA LivesEnd ==
  ASSUME InOrder, ExchangeInv, LivesInv, PowerdDies
  PROVE  LivesInv'
  <1> DEFINE x == Plain("down")
  <1>1. /\ phase' = "down" /\ inbox' = Append(inbox, x)
        /\ UNCHANGED <<registered, reports>>
    BY DEF PowerdDies, ReportIs, blocker
  <1>2. inbox \in Seq(Incoming) /\ x \in Incoming /\ x.kind = "down"
    BY ReportSent DEF PowerdDies, ExchangeInv, ExchangeTypeOK, Incoming, Report, Plain, Message
  <1> HIDE DEF x
  <1>3. OfLifeOrGone(inbox', life', phase' # "down")
    BY <1>1, <1>2, LivesSent DEF LivesInv
  <1>4. Has(inbox', "down")
    BY <1>1, <1>2, SentThere DEF Has
  <1> QED BY <1>1, <1>3, <1>4 DEF LivesInv

LEMMA LivesDropped ==
  ASSUME ExchangeInv, LivesInv, CallsDropped
  PROVE  LivesInv'
  BY DEF LivesInv, CallsDropped, blocker, powerd

LEMMA LivesIdentifies ==
  ASSUME ExchangeInv, LivesInv, PowerdReceives, PowerdIdentifies(Head(calls))
  PROVE  LivesInv'
  <1> DEFINE x == Message("identified", "none", life, FALSE)
             h == Head(calls)
  <1>1. /\ phase # "down" /\ calls # <<>> /\ calls' = Tail(calls)
        /\ UNCHANGED <<blocker, life, reports, phase, voters>>
        /\ inbox' = Append(inbox, x) /\ h.kind = "identify"
    BY DEF PowerdReceives, PowerdIdentifies
  <1>2. InTransit(calls) = InTransit(calls') \cup {h}
    BY <1>1, CallTaken DEF ExchangeInv
  <1>3. /\ inbox \in Seq(Incoming) /\ x \in Incoming
        /\ x.kind = "identified" /\ x.id = life
    BY DEF ExchangeInv, ExchangeTypeOK, Incoming, Messages, Message
  <1> HIDE DEF x, h
  <1>4. InTransit(inbox') = InTransit(inbox) \cup {x}
    BY <1>1, <1>3, SentThere
  <1>5. OfLifeOrGone(inbox', life, phase # "down")
    BY <1>1, <1>3, LivesSent DEF LivesInv
  <1>6. UpPending(inbox) => UpPending(inbox')
    BY <1>1, <1>3, UpSent
  <1>7. Registered => Registered'
    <2>1. \A q \in Question : Message("register", q, life, FALSE) # h
      BY <1>1 DEF Message
    <2> QED BY <1>1, <1>2, <2>1 DEF Registered, blocker
  <1>8. /\ Has(inbox', "down") <=> Has(inbox, "down")
        /\ Has(inbox', "identified")
    BY <1>3, <1>4 DEF Has
  <1> QED BY <1>1, <1>5, <1>6, <1>7, <1>8 DEF LivesInv, blocker

LEMMA LivesReported ==
  ASSUME ExchangeInv, LivesInv, Receive, inbox # <<>>, inbox' = Tail(inbox),
         reports' = reports, CbPowerdUp(Head(inbox))
  PROVE  LivesInv'
  <1> DEFINE h == Head(inbox)
  <1>1. /\ UNCHANGED <<id, powerd>> /\ h.kind \in Report
        /\ registered' = IF h.kind = "up" THEN registered ELSE {}
    BY DEF Receive, CbPowerdUp
  <1>2. /\ InTransit(calls) \subseteq InTransit(calls')
        /\ h.kind = "up" => Plain("identify") \in InTransit(calls')
    BY PowerdUpSends DEF ExchangeInv
  <1>3. /\ inbox \in Seq(Incoming)
        /\ InTransit(inbox) = InTransit(inbox') \cup {h}
    BY MessageTaken DEF ExchangeInv, ExchangeTypeOK, Incoming
  <1>4. OfLifeOrGone(inbox', life, phase # "down")
    BY <1>3, LivesTaken DEF LivesInv
  <1>5. /\ UpPending(inbox) /\ h.kind # "up" => UpPending(inbox')
        /\ UpPending(inbox) /\ h.kind = "up" => UpPending(inbox') \/ ~Has(inbox', "down")
    BY <1>3, UpTaken
  <1> HIDE DEF h
  <1>6. Has(inbox', "down") => Has(inbox, "down")
    BY <1>3 DEF Has
  <1>7. h.kind = "up" => Has(calls', "identify")
    BY <1>2 DEF Has, Plain, Message
  <1>8. Has(calls, "identify") => Has(calls', "identify")
    BY <1>2 DEF Has
  <1>9. CASE h.kind = "up"
    <2>1. Registered => Registered'
      BY <1>1, <1>2, <1>9 DEF Registered, powerd
    <2>2. Has(inbox, "down") => Has(inbox', "down")
      BY <1>3, <1>9 DEF Has
    <2> QED BY <1>1, <1>4, <1>5, <1>6, <1>7, <1>9, <2>1, <2>2 DEF LivesInv, powerd
  <1>10. CASE h.kind = "down"
    <2>1. Has(inbox, "down")
      BY <1>3, <1>10 DEF Has
    <2> QED BY <1>1, <1>4, <1>5, <1>10, <2>1 DEF LivesInv, powerd
  <1> QED BY <1>1, <1>9, <1>10 DEF Report

(* The reply is of this life, or the next report is of its end. *)
LEMMA LivesIdentified ==
  ASSUME ExchangeInv, LivesInv, Receive, inbox # <<>>, inbox' = Tail(inbox),
         reports' = reports, CbIdentify(Head(inbox))
  PROVE  LivesInv'
  <1> DEFINE h == Head(inbox)
             r(q) == Message("register", q, h.id, FALSE)
             new == {r(q) : q \in Question \ registered}
  <1>1. /\ UNCHANGED powerd /\ h.kind = "identified" /\ id' = h.id
        /\ calls' = calls \o Registrations(h.id) /\ registered' = Question
    BY DEF Receive, CbIdentify
  <1>2. /\ inbox \in Seq(Incoming) /\ h \in Incoming
        /\ InTransit(inbox) = InTransit(inbox') \cup {h}
    BY MessageTaken DEF ExchangeInv, ExchangeTypeOK, Incoming
  <1>3. h.id \in 0 .. MaxLife
    BY <1>2 DEF Incoming, Messages
  <1>4. InTransit(calls') = InTransit(calls) \cup new
    BY <1>1, <1>3, RegistrationsSent DEF ExchangeInv
  <1>5. /\ OfLifeOrGone(inbox', life, phase # "down")
        /\ (phase # "down" /\ h.id = life) \/ Has(inbox', "down")
    BY <1>1, <1>2, LivesTaken DEF LivesInv
  <1>6. UpPending(inbox) => UpPending(inbox')
    BY <1>1, <1>2, UpTaken
  <1>7. Has(inbox', "down") <=> Has(inbox, "down")
    BY <1>1, <1>2 DEF Has
  <1>8. ASSUME phase # "down", ~Has(inbox, "down")
        PROVE  Registered'
    <2>1. h.id = life /\ life' = life /\ voters' = voters
      BY <1>1, <1>5, <1>7, <1>8 DEF powerd
    <2>2. ASSUME NEW q \in Question
          PROVE  q \in voters \/ Message("register", q, life, FALSE) \in InTransit(calls')
      <3>1. CASE registered = {}
        BY <1>4, <2>1, <3>1
      <3>2. CASE registered # {}
        BY <1>4, <1>8, <3>2 DEF LivesInv, Registered
      <3> QED BY <3>1, <3>2
    <2> QED BY <1>1, <2>1, <2>2 DEF Registered
  <1> HIDE DEF h, new
  <1> QED BY <1>1, <1>5, <1>6, <1>7, <1>8 DEF LivesInv, powerd

LEMMA LivesReceived ==
  ASSUME ExchangeInv, LivesInv, Receive
  PROVE  LivesInv'
  <1>1. inbox # <<>> /\ inbox' = Tail(inbox) /\ reports' = reports
    BY DEF Receive, LivesInv
  <1>2. CASE CbPowerdUp(Head(inbox))
    BY <1>1, <1>2, LivesReported
  <1>3. CASE CbIdentify(Head(inbox))
    BY <1>1, <1>3, LivesIdentified
  <1>4. CASE CbResume(Head(inbox))
    <2>1. /\ UNCHANGED <<blocker, calls, powerd>>
          /\ Head(inbox).kind \in Question \cup {"resume"}
      BY <1>4 DEF Receive, CbResume
    <2> QED BY <1>1, <2>1, LivesCalm DEF ExchangeInv, blocker, powerd
  <1>5. CASE CbSuspendRequest(Head(inbox)) \/ CbPrepareSuspend(Head(inbox))
    <2>1. /\ UNCHANGED <<blocker, powerd>> /\ Head(inbox).kind \in Question
          /\ Answer(Head(inbox).kind)
      BY <1>5 DEF Receive, CbSuspendRequest, CbPrepareSuspend, Question
    <2>2. InTransit(calls) \subseteq InTransit(calls')
      BY <2>1, AnswerSent DEF ExchangeInv
    <2> QED BY <1>1, <2>1, <2>2, LivesCalm DEF ExchangeInv, blocker, powerd
  <1> QED BY <1>1, <1>2, <1>3, <1>4, <1>5 DEF Receive, LivesInv

LEMMA LivesAsked ==
  ASSUME ExchangeInv, LivesInv, PowerdAsks \/ PowerdAsksAgain
  PROVE  LivesInv'
  <1>1. PICK q \in Question : Ask(q)
    BY DEF PowerdAsks, PowerdAsksAgain, Question
  <1>2. /\ phase # "down" /\ phase' # "down" /\ UNCHANGED <<blocker, calls, life, voters, reports>>
        /\ inbox' = Append(inbox, Plain(q))
    BY <1>1 DEF PowerdAsks, PowerdAsksAgain, Ask, Signal, Question
  <1>3. Plain(q) \in Incoming /\ Plain(q).kind = q
    BY SignalSent DEF ExchangeInv
  <1>4. \E x \in Incoming : x.kind \in Question \cup {"resume"} /\ inbox' = Append(inbox, x)
    BY <1>2, <1>3
  <1> QED BY <1>2, <1>4, LivesCalm DEF ExchangeInv, blocker

LEMMA LivesWoken ==
  ASSUME ExchangeInv, LivesInv, PowerdWakes
  PROVE  LivesInv'
  <1>1. /\ phase # "down" /\ phase' # "down" /\ UNCHANGED <<blocker, calls, life, voters, reports>>
        /\ inbox' = Append(inbox, Plain("resume"))
    BY DEF PowerdWakes, Signal
  <1>2. Plain("resume") \in Incoming /\ Plain("resume").kind = "resume"
    BY SignalSent DEF ExchangeInv
  <1>3. \E x \in Incoming : x.kind \in Question \cup {"resume"} /\ inbox' = Append(inbox, x)
    BY <1>1, <1>2
  <1> QED BY <1>1, <1>3, LivesCalm DEF ExchangeInv, blocker

LEMMA LivesCounted ==
  ASSUME ExchangeInv, LivesInv, PowerdReceives,
         PowerdRegisters(Head(calls)) \/ PowerdCounts(Head(calls))
  PROVE  LivesInv'
  <1> DEFINE h == Head(calls)
  <1>1. /\ phase # "down" /\ phase' # "down" /\ calls # <<>> /\ calls' = Tail(calls)
        /\ UNCHANGED <<blocker, life, reports>>
        /\ voters \subseteq voters'
        /\ h.kind = "ack" \/ (h.kind = "register" /\ (h.id = life => h.of \in voters'))
        /\ inbox' = inbox \/ inbox' = Append(inbox, Plain("resume"))
    BY DEF PowerdReceives, PowerdRegisters, PowerdCounts, Signal
  <1>2. InTransit(calls) = InTransit(calls') \cup {h}
    BY <1>1, CallTaken DEF ExchangeInv
  <1>3. Plain("resume") \in Incoming /\ Plain("resume").kind = "resume"
    BY SignalSent DEF ExchangeInv
  <1>4. \/ inbox' = inbox
        \/ \E x \in Incoming : x.kind \in Question \cup {"resume"} /\ inbox' = Append(inbox, x)
    BY <1>1, <1>3
  <1> HIDE DEF h
  <1>5. \A m \in InTransit(calls) :
          m.kind \in {"identify", "register"} =>
            \/ m \in InTransit(calls')
            \/ m.kind = "register" /\ (m.id = life => m.of \in voters')
    BY <1>1, <1>2
  <1> QED BY <1>1, <1>4, <1>5, LivesCalm DEF ExchangeInv, blocker

LEMMA LivesStep ==
  ASSUME InOrder, ExchangeInv, LivesInv, [ExchangeNext]_allVars
  PROVE  LivesInv'
  <1>1. CASE UNCHANGED allVars \/ DisplayStep \/ PowerdSleeps
    <2>1. /\ UNCHANGED <<blocker, channels, life, voters>>
          /\ phase' = "down" <=> phase = "down"
      BY <1>1 DEF allVars, DisplayStep, PowerdSleeps, powerd
    <2> QED BY <2>1, LivesCalm DEF ExchangeInv, blocker, channels
  <1>2. CASE PowerdReceives
    BY <1>2, LivesIdentifies, LivesCounted DEF PowerdReceives
  <1> QED BY <1>1, <1>2, LivesReceived, LivesStart, LivesEnd, LivesAsked, LivesWoken,
             LivesDropped DEF ExchangeNext

(* However often powerd dies, it ends up knowing SuspendBlocker, if the    *)
(* reports of its death are not delayed past what it sends afterwards.     *)
THEOREM RegisteredInOrder ==
  ASSUME InOrder
  PROVE  ExchangeSpec => []RegisteredOnceSettled
  <1>1. InTransit(<<>>) = {}
    BY DEF InTransit
  <1>2. ExchangeInit => LivesInv
    BY <1>1 DEF ExchangeInit, LivesInv, OfLifeOrGone
  <1>3. ExchangeInv /\ LivesInv /\ [ExchangeNext]_allVars => LivesInv'
    BY LivesStep
  <1>4. ExchangeInv /\ LivesInv => RegisteredOnceSettled
    <2>1. inbox = <<>> => ~UpPending(inbox)
      BY DEF UpPending
    <2>2. SUFFICES ASSUME ExchangeInv, LivesInv, phase # "down", inbox = <<>>, calls = <<>>
                   PROVE  voters = Question /\ id = life
      BY DEF RegisteredOnceSettled
    <2>3. Registered
      BY <1>1, <2>1, <2>2 DEF LivesInv, Has
    <2> QED BY <1>1, <2>2, <2>3 DEF Registered, ExchangeInv, ExchangeTypeOK
  <1> QED BY <1>2, <1>3, <1>4, ExchangeInvariant, PTL DEF ExchangeSpec

=============================================================================
