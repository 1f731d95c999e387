-------------------------- MODULE NotificationsProofs --------------------------
(***************************************************************************)
(* Theorems about Notifications, for any number of alerts, configurations,   *)
(* keys and stops of the process: what is open at the service has an owner,    *)
(* a triggered alert has something open, and a notification is sent with what   *)
(* was written nearest to the alert.  The invariant that carries the first two   *)
(* says where the key of a ticket is known: at the alert in memory, in its row    *)
(* unless a handler is under way, and at no other alert.                           *)
(***************************************************************************)
EXTENDS Notifications, Counting

\* What it means to open a ticket, without the form of the expression.
LEMMA OpenedFacts ==
  ASSUME TypeOK, NEW key \in Keys \ {NoKey}, NEW a \in Alerts
  PROVE  LET new == Opened(key, a) IN
         /\ new \subseteq [key: Keys \ {NoKey}, about: SUBSET Alerts]
         /\ \A t, u \in new : t.key = u.key => t = u
         /\ \A t \in new :
              IF t.key = key
              THEN /\ a \in t.about
                   /\ \A b \in t.about \ {a} : \E u \in tickets : u.key = key /\ b \in u.about
              ELSE t \in tickets
         /\ \E t \in new : t.key = key
         /\ \A u \in tickets : \E t \in new : t.key = u.key /\ u.about \subseteq t.about
<1> DEFINE Tickets == [key: Keys \ {NoKey}, about: SUBSET Alerts]
           Marked(t) == IF t.key = key THEN [t EXCEPT !.about = @ \union {a}] ELSE t
           Fresh == [key |-> key, about |-> {a}]
<1>1. tickets \subseteq Tickets /\ \A t, u \in tickets : t.key = u.key => t = u
  BY DEF TypeOK
<1>2. Fresh \in Tickets /\ Fresh.key = key /\ Fresh.about = {a}
  OBVIOUS
<1>3. ASSUME NEW t \in tickets
      PROVE  /\ Marked(t) \in Tickets /\ Marked(t).key = t.key
             /\ t.key = key => Marked(t).about = t.about \union {a}
             /\ t.key # key => Marked(t) = t
  BY <1>1
<1>4. Opened(key, a) = {Marked(t) : t \in tickets}
                         \union (IF \E t \in tickets : t.key = key THEN {} ELSE {Fresh})
  BY DEF Opened
<1> HIDE DEF Marked, Fresh, Tickets
<1> DEFINE new == Opened(key, a)
<1>5. ASSUME NEW t \in new
      PROVE  \/ \E u \in tickets : t = Marked(u)
             \/ t = Fresh /\ ~\E u \in tickets : u.key = key
  BY <1>4
<1>6. ASSUME NEW t \in tickets PROVE Marked(t) \in new
  BY <1>4
<1>7. (~\E t \in tickets : t.key = key) => Fresh \in new
  BY <1>4
<1> HIDE DEF new
<1>8. new \subseteq Tickets
  BY <1>2, <1>3, <1>5
<1>9. \A t, u \in new : t.key = u.key => t = u
  BY <1>1, <1>2, <1>3, <1>5
<1>10. ASSUME NEW t \in new
       PROVE  IF t.key = key
              THEN /\ a \in t.about
                   /\ \A b \in t.about \ {a} : \E u \in tickets : u.key = key /\ b \in u.about
              ELSE t \in tickets
  BY <1>2, <1>3, <1>5
<1>11. \E t \in new : t.key = key
  BY <1>2, <1>3, <1>6, <1>7
<1>12. ASSUME NEW u \in tickets
       PROVE  \E t \in new : t.key = u.key /\ u.about \subseteq t.about
  BY <1>3, <1>6
<1> QED
  BY <1>8, <1>9, <1>10, <1>11, <1>12 DEF new, Tickets

LEMMA KeyTypes ==
  /\ Keys \subseteq Nat /\ NoKey = 0 /\ NoKey \in Keys /\ Alias = 1 /\ Alias \in Keys \ {NoKey}
  /\ MaxKeys \in Nat
  /\ \A k \in Nat : k <= MaxKeys + 1 => k \in Keys
  /\ \A k \in Keys : k <= MaxKeys + 1
  BY NotificationsAssumption, SMT DEF Keys, NoKey, Alias

LEMMA FiringKeyType ==
  ASSUME TypeOK, NEW a \in Alerts, NEW s
  PROVE  /\ FiringKey(s, a) \in Nat \ {NoKey}
         /\ FiringKey(s, a) <= MaxKeys + 1 => FiringKey(s, a) \in Keys \ {NoKey}
<1>1. lastKey + 1 \in Nat \ {NoKey} /\ lastKey \in Nat
  BY KeyTypes, SMT DEF TypeOK, Alias
<1>2. resolveKey[a] \in Keys
  BY DEF TypeOK
<1>3. FiringKey(s, a) \in Nat \ {NoKey}
  BY <1>1, <1>2, KeyTypes DEF FiringKey
<1> QED
  BY <1>3, KeyTypes

\* A key after a notification is the one it was sent under, the one it was, or
\* none.
LEMMA KeyAfterFiringCases ==
  ASSUME NEW s, NEW a, NEW answer
  PROVE  KeyAfterFiring(s, a, answer) \in {FiringKey(s, a), resolveKey[a], NoKey}
  BY DEF KeyAfterFiring

LEMMA KeyAfterResolvedCases ==
  ASSUME NEW s, NEW a, NEW answer
  PROVE  /\ KeyAfterResolved(s, a, answer) \in {FiringKey(s, a), resolveKey[a], NoKey}
         /\ s \in {"issues", "incidents"}
              => KeyAfterResolved(s, a, answer) \in {resolveKey[a], NoKey}
<1>1. CASE s \in {"aliases", "incidents"}
  BY <1>1 DEF KeyAfterResolved
<1>2. CASE s \notin {"aliases", "incidents"}
  <2>1. KeyAfterResolved(s, a, answer) = KeyAfterFiring(s, a, answer)
    BY <1>2 DEF KeyAfterResolved
  <2>2. s = "issues" => KeyAfterFiring(s, a, answer) = resolveKey[a]
    BY DEF KeyAfterFiring
  <2> QED
    BY <1>2, <2>1, <2>2, KeyAfterFiringCases
<1> QED
  BY <1>1, <1>2
-----------------------------------------------------------------------------
(* Providers *)

WellFormed(p) ==
  /\ p.required \subseteq p.fields /\ p.together \subseteq p.fields
  /\ p.together \intersect p.completed = {}
  /\ \A f \in p.fields : "good" \notin p.malformed[f]
  /\ p.clientOf # {} =>
       /\ "repository-url" \in p.clientOf /\ p.clientOf \subseteq p.fields
       /\ "repository-url" \notin p.nonnegative
       /\ p.clientOf \intersect p.completed = {} /\ ~p.byGroup
  /\ p.service \in Services

\* What the 26 providers have in common.
LEMMA ProvidersWellFormed == \A p \in Providers : WellFormed(p)
<1>1. WellFormed(AWSSES)
  BY DEF AWSSES, Messenger, WellFormed, Services
<1>2. WellFormed(Custom)
  BY DEF Custom, Messenger, WellFormed, Services
<1>3. WellFormed(Discord)
  BY DEF Discord, Messenger, WellFormed, Services
<1>4. WellFormed(Email)
  BY DEF Email, Messenger, WellFormed, Services
<1>5. WellFormed(Gitea)
  BY DEF Gitea, Messenger, WellFormed, Services
<1>6. WellFormed(GitHub)
  BY DEF GitHub, Messenger, WellFormed, Services
<1>7. WellFormed(GitLab)
  BY DEF GitLab, Messenger, WellFormed, Services
<1>8. WellFormed(GoogleChat)
  BY DEF GoogleChat, Messenger, WellFormed, Services
<1>9. WellFormed(Gotify)
  BY DEF Gotify, Messenger, WellFormed, Services
<1>10. WellFormed(HomeAssistant)
  BY DEF HomeAssistant, Messenger, WellFormed, Services
<1>11. WellFormed(Ilert)
  BY DEF Ilert, Messenger, WellFormed, Services
<1>12. WellFormed(IncidentIO)
  BY DEF IncidentIO, Messenger, WellFormed, Services
<1>13. WellFormed(JetBrainsSpace)
  BY DEF JetBrainsSpace, Messenger, WellFormed, Services
<1>14. WellFormed(Matrix)
  BY DEF Matrix, Messenger, WellFormed, Services
<1>15. WellFormed(Mattermost)
  BY DEF Mattermost, Messenger, WellFormed, Services
<1>16. WellFormed(Messagebird)
  BY DEF Messagebird, Messenger, WellFormed, Services
<1>17. WellFormed(Ntfy)
  BY DEF Ntfy, Messenger, WellFormed, Services
<1>18. WellFormed(Opsgenie)
  BY DEF Opsgenie, Messenger, WellFormed, Services
<1>19. WellFormed(PagerDuty)
  BY DEF PagerDuty, Messenger, WellFormed, Services
<1>20. WellFormed(Pushover)
  BY DEF Pushover, Messenger, WellFormed, Services
<1>21. WellFormed(Slack)
  BY DEF Slack, Messenger, WellFormed, Services
<1>22. WellFormed(Teams)
  BY DEF Teams, Messenger, WellFormed, Services
<1>23. WellFormed(TeamsWorkflows)
  BY DEF TeamsWorkflows, Messenger, WellFormed, Services
<1>24. WellFormed(Telegram)
  BY DEF Telegram, Messenger, WellFormed, Services
<1>25. WellFormed(Twilio)
  BY DEF Twilio, Messenger, WellFormed, Services
<1>26. WellFormed(Zulip)
  BY DEF Zulip, Messenger, WellFormed, Services
<1> QED
  BY <1>1, <1>2, <1>3, <1>4, <1>5, <1>6, <1>7, <1>8, <1>9, <1>10, <1>11, <1>12, <1>13,
     <1>14, <1>15, <1>16, <1>17, <1>18, <1>19, <1>20, <1>21, <1>22, <1>23, <1>24, <1>25, <1>26 DEF Providers
-----------------------------------------------------------------------------
(* Types *)

\* The tickets after a resolved notification: fewer, or the alias written to.
LEMMA AfterResolvedCases ==
  ASSUME NEW s, NEW a, NEW answer, NEW shown, NEW after \in AfterResolved(s, a, answer, shown)
  PROVE  \/ after \subseteq tickets
         \/ after = Opened(Alias, a) /\ s = "aliases" /\ answer = "refused"
  BY DEF AfterResolved

LEMMA ExcuseType ==
  ASSUME TypeOK, NEW keys, Excuse(keys),
         tickets' \subseteq [key: Keys \ {NoKey}, about: SUBSET Alerts]
  PROVE  excused' \subseteq Keys
  BY DEF Excuse

LEMMA LastKeyType ==
  ASSUME TypeOK, NEW k \in Nat, k <= MaxKeys + 1
  PROVE  LastKey(k) \in Alias..(MaxKeys + 1) /\ LastKey(k) >= lastKey /\ LastKey(k) >= k
  BY KeyTypes, SMT DEF TypeOK, LastKey

LEMMA MayType == May \subseteq BOOLEAN
  BY DEF May

LEMMA InitType == Init => TypeOK
<1> SUFFICES ASSUME Init PROVE TypeOK
  OBVIOUS
<1>1. setup \in Setups
  BY DEF Init
<1>2. /\ resolveKey \in [Alerts -> Keys] /\ NoRow \in [saved: BOOLEAN, key: Keys]
      /\ lastKey \in Alias..(MaxKeys + 1) /\ crashes \in 0..MaxCrashes
  BY NotificationsAssumption, KeyTypes DEF Init, NoRow
<1>3. row \in [Alerts -> [saved: BOOLEAN, key: Keys]]
  BY <1>2 DEF Init
<1> QED
  BY <1>1, <1>2, <1>3 DEF Init, TypeOK, Services

LEMMA LoadType ==
  ASSUME TypeOK, NEW answers \in May, Load(answers)
  PROVE  TypeOK'
<1>1. setup' = NoSetup /\ refuses' \subseteq Alerts /\ elsewhere' \subseteq Alerts
  BY DEF Load
<1>3. dropped' \in BOOLEAN
  BY MayType, Zenon DEF Load
<1>2. service' \in Services
  BY SetupsAssumption, ProvidersWellFormed DEF Load, TypeOK, Services, WellFormed
<1> QED
  BY <1>1, <1>2, <1>3 DEF Load, memory, history, TypeOK

LEMMA FireType ==
  ASSUME TypeOK, NEW a \in Alerts, NEW answer \in Answers, Fire(a, answer)
  PROVE  TypeOK'
<1> DEFINE key == FiringKey(service, a)
<1>1. key \in Keys \ {NoKey} /\ key \in Nat /\ key <= MaxKeys + 1
  BY FiringKeyType, KeyTypes DEF Fire
<1>2. /\ tickets' \subseteq [key: Keys \ {NoKey}, about: SUBSET Alerts]
      /\ \A t, u \in tickets' : t.key = u.key => t = u
  <2>1. CASE tickets' = tickets
    BY <2>1 DEF TypeOK
  <2>2. CASE tickets' = Opened(key, a)
    BY <1>1, <2>2, OpenedFacts
  <2> QED
    BY <2>1, <2>2 DEF Fire
<1>3. resolveKey' \in [Alerts -> Keys]
  <2>1. KeyAfterFiring(service, a, answer) \in Keys
    BY <1>1, KeyAfterFiringCases, KeyTypes DEF TypeOK
  <2> QED
    BY <2>1 DEF Fire, TypeOK
<1>4. lastKey' \in Alias..(MaxKeys + 1)
  BY <1>1, LastKeyType DEF Fire, TypeOK
<1>5. /\ triggered' \subseteq Alerts
      /\ pending' \subseteq Alerts \X {"write", "tell"} /\ \A p, q \in pending' : p = q
  BY DEF Fire, TypeOK
<1>6. excused' \subseteq Keys /\ overtaken' \subseteq Alerts
  BY <1>2, ExcuseType DEF Fire, TypeOK
<1>7. UNCHANGED <<setup, service, refuses, elsewhere, dropped, row, revived, crashes>>
  BY DEF Fire
<1> QED
  BY <1>2, <1>3, <1>4, <1>5, <1>6, <1>7 DEF TypeOK

LEMMA WriteType ==
  ASSUME TypeOK, NEW a \in Alerts, NEW written \in BOOLEAN, Write(a, written)
  PROVE  TypeOK'
<1>1. RowOf(a) \in [saved: BOOLEAN, key: Keys]
  BY DEF RowOf, TypeOK
<1>2. row' \in [Alerts -> [saved: BOOLEAN, key: Keys]]
  BY <1>1 DEF Write, TypeOK
<1>3. tickets' = tickets /\ excused' \subseteq Keys
  BY ExcuseType DEF Write, TypeOK
<1>4. pending' = {} /\ UNCHANGED <<setup, service, refuses, elsewhere, dropped, triggered, resolveKey, lastKey,
                                   overtaken, revived, crashes>>
  BY DEF Write, memory
<1> QED
  BY <1>2, <1>3, <1>4 DEF TypeOK

LEMMA ResolveType ==
  ASSUME TypeOK, NEW a \in Alerts, NEW deleted \in BOOLEAN, Resolve(a, deleted)
  PROVE  TypeOK'
<1>1. NoRow \in [saved: BOOLEAN, key: Keys]
  BY KeyTypes DEF NoRow
<1>2. row' \in [Alerts -> [saved: BOOLEAN, key: Keys]]
  BY <1>1 DEF Resolve, TypeOK
<1>3. /\ triggered' \subseteq Alerts /\ revived' \subseteq Alerts
      /\ pending' \subseteq Alerts \X {"write", "tell"} /\ \A p, q \in pending' : p = q
  BY DEF Resolve, TypeOK
<1>4. UNCHANGED <<setup, service, refuses, elsewhere, dropped, resolveKey, tickets, lastKey, excused,
                  overtaken, crashes>>
  BY DEF Resolve
<1> QED
  BY <1>2, <1>3, <1>4 DEF TypeOK

\* The tickets and the key after a resolved notification.
LEMMA TellKeys ==
  ASSUME TypeOK, NEW a \in Alerts, NEW answer \in Answers,
         NEW shown \in Pages(a), Tell(a, answer, shown)
  PROVE  /\ tickets' \subseteq [key: Keys \ {NoKey}, about: SUBSET Alerts]
         /\ \A t, u \in tickets' : t.key = u.key => t = u
         /\ \/ tickets' \subseteq tickets
            \/ tickets' = Opened(Alias, a) /\ service = "aliases" /\ answer = "refused"
         /\ KeyAfterResolved(service, a, answer) \in Keys
         /\ lastKey' \in Alias..(MaxKeys + 1) /\ lastKey' >= lastKey
         /\ service \in {"fingerprints", "keyed by the service"} => lastKey' >= FiringKey(service, a)
<1>1. \/ tickets' \subseteq tickets
      \/ tickets' = Opened(Alias, a) /\ service = "aliases" /\ answer = "refused"
  BY AfterResolvedCases DEF Tell
<1>2. /\ tickets' \subseteq [key: Keys \ {NoKey}, about: SUBSET Alerts]
      /\ \A t, u \in tickets' : t.key = u.key => t = u
  <2>1. CASE tickets' \subseteq tickets
    BY <2>1 DEF TypeOK
  <2>2. CASE tickets' = Opened(Alias, a)
    BY <2>2, OpenedFacts, KeyTypes
  <2> QED
    BY <1>1, <2>1, <2>2
<1>3. \/ service \in {"issues", "incidents"}
      \/ FiringKey(service, a) <= MaxKeys + 1 /\ FiringKey(service, a) \in Keys
  BY FiringKeyType DEF Tell
<1>4. KeyAfterResolved(service, a, answer) \in Keys
  <2>1. resolveKey[a] \in Keys /\ NoKey \in Keys
    BY KeyTypes DEF TypeOK
  <2> QED
    BY <1>3, <2>1, KeyAfterResolvedCases
<1>5. /\ lastKey' \in Alias..(MaxKeys + 1) /\ lastKey' >= lastKey
      /\ service \in {"fingerprints", "keyed by the service"} => lastKey' >= FiringKey(service, a)
  <2>1. lastKey \in Alias..(MaxKeys + 1) /\ lastKey \in Nat
    BY KeyTypes, SMT DEF TypeOK
  <2>2. CASE service \in {"fingerprints", "keyed by the service"}
    <3>1. FiringKey(service, a) \in Nat /\ FiringKey(service, a) <= MaxKeys + 1
      BY <1>3, <2>2, FiringKeyType
    <3>2. lastKey' = LastKey(FiringKey(service, a))
      BY <2>2 DEF Tell
    <3> QED
      BY <3>1, <3>2, LastKeyType
  <2>3. CASE service \notin {"fingerprints", "keyed by the service"}
    <3>1. lastKey' = lastKey
      BY <2>3, Zenon DEF Tell
    <3>2. lastKey' \in Alias..(MaxKeys + 1) /\ lastKey' >= lastKey
      BY <2>1, <3>1, SMT
    <3> QED
      BY <2>3, <3>2, Zenon
  <2> QED
    BY <2>2, <2>3
<1> QED
  BY <1>1, <1>2, <1>4, <1>5

LEMMA TellType ==
  ASSUME TypeOK, NEW a \in Alerts, NEW answer \in Answers,
         NEW shown \in Pages(a), Tell(a, answer, shown)
  PROVE  TypeOK'
<1>1. resolveKey' \in [Alerts -> Keys]
  BY TellKeys DEF Tell, TypeOK
<1>2. excused' \subseteq Keys
  BY TellKeys, ExcuseType DEF Tell
<1>3. overtaken' \subseteq Alerts /\ pending' = {}
  BY DEF Tell, TypeOK
<1>4. UNCHANGED <<setup, service, refuses, elsewhere, dropped, triggered, row, revived, crashes>>
  BY DEF Tell
<1> QED
  BY <1>1, <1>2, <1>3, <1>4, TellKeys DEF TypeOK

LEMMA RestartType ==
  ASSUME TypeOK, NEW answers \in May, NEW kept \in SUBSET Alerts, Restart(answers, kept)
  PROVE  TypeOK'
<1>1. row' \in [Alerts -> [saved: BOOLEAN, key: Keys]]
  <2>1. NoRow \in [saved: BOOLEAN, key: Keys]
    BY KeyTypes DEF NoRow
  <2> QED
    BY <2>1 DEF Restart, TypeOK
<1>2. resolveKey' \in [Alerts -> Keys]
  BY <1>1 DEF Restart
<1>3. triggered' \subseteq Alerts /\ revived' \subseteq Alerts /\ pending' = {}
  BY DEF Restart, TypeOK
<1>4. tickets' = tickets /\ excused' \subseteq Keys
  BY ExcuseType DEF Restart, TypeOK
<1>5. crashes' \in 0..MaxCrashes
  BY NotificationsAssumption, SMT DEF Restart, TypeOK
<1>6. dropped' \in BOOLEAN
  BY MayType, Zenon DEF Restart
<1>7. UNCHANGED <<setup, service, refuses, elsewhere, lastKey, overtaken>>
  BY DEF Restart
<1> QED
  BY <1>1, <1>2, <1>3, <1>4, <1>5, <1>6, <1>7 DEF TypeOK

\* The actions, one by one.
LEMMA Cases ==
  ASSUME Next
  PROVE  \/ \E answers \in May : Load(answers)
         \/ \E a \in Alerts, answer \in Answers : Fire(a, answer)
         \/ \E a \in Alerts, answer \in Answers :
              \E shown \in Pages(a) : Tell(a, answer, shown)
         \/ \E a \in Alerts, ok \in BOOLEAN : Write(a, ok) \/ Resolve(a, ok)
         \/ \E answers \in May, kept \in SUBSET Alerts : Restart(answers, kept)
  BY MayType, Zenon DEF Next

LEMMA NextType == TypeOK /\ [Next]_vars => TypeOK'
<1> SUFFICES ASSUME TypeOK, [Next]_vars PROVE TypeOK'
  OBVIOUS
<1>1. CASE UNCHANGED vars
  BY <1>1, Zenon DEF vars, memory, history, TypeOK
<1>2. CASE Next
  BY <1>2, Cases, LoadType, FireType, TellType, WriteType, ResolveType, RestartType, Zenon
<1> QED
  BY <1>1, <1>2

LEMMA TypeCorrect == Spec => []TypeOK
  BY InitType, NextType, PTL DEF Spec
-----------------------------------------------------------------------------
(* The inductive invariant *)

\* Services that find a ticket by the key of an alert.
Keyed == {"fingerprints", "incidents", "keyed by the service"}

Waiting(a) == \E p \in pending : p[1] = a

\* Before the configuration is loaded nothing happened, a service without
\* tickets has none, and what a handler does next fits the alert.
Phases ==
  /\ setup # NoSetup => /\ service = "ignored" /\ triggered = {} /\ pending = {}
                        /\ resolveKey = [a \in Alerts |-> NoKey]
                        /\ row = [a \in Alerts |-> NoRow]
  /\ ~Tracked => tickets = {}
  /\ \A a \in Alerts : <<a, "tell">> \in pending => a \notin triggered
  /\ \A a \in Alerts : <<a, "write">> \in pending => a \in triggered

OneAlias == service = "aliases" => \A t \in tickets : t.key = Alias

\* Where a key may be known: in memory, in the row, at the service.
Holds(a, k) ==
  \/ resolveKey[a] = k \/ row[a].key = k
  \/ \E t \in tickets : t.key = k /\ a \in t.about

\* No two alerts hold a key, and keys that are made up are new.
Owned ==
  service \in Keyed =>
    \A k \in Keys \ {NoKey} :
      /\ k > lastKey => \A a \in Alerts : ~Holds(a, k)
      /\ \A a, b \in Alerts : Holds(a, k) /\ Holds(b, k) => a = b

\* The ticket of an alert is found by the key in memory and, unless a write or a
\* resolved notification is on its way, after a restart.
Findable ==
  SendOnResolved /\ service \in Keyed =>
    \A t \in tickets : t.key \notin excused =>
      \A a \in t.about : resolveKey[a] = t.key /\ (row[a].key = t.key \/ Waiting(a))

\* Behind every ticket is an alert that is triggered, also after a restart, or that
\* is about to tell the service.
Backed ==
  SendOnResolved =>
    \A t \in tickets : t.key \notin excused =>
      \E a \in t.about : Waiting(a) \/ (a \in triggered /\ row[a].saved)

Inv == TypeOK /\ Phases /\ OneAlias /\ Owned /\ Findable /\ Backed /\ TriggeredIsOpen

\* What is pending is one thing.
LEMMA OnePending ==
  ASSUME TypeOK, NEW a \in Alerts, NEW what, <<a, what>> \in pending
  PROVE  /\ Waiting(a) /\ \A b \in Alerts : Waiting(b) => b = a
         /\ \A b, other : <<b, other>> \in pending => b = a /\ other = what
<1>1. \A p \in pending : p = <<a, what>>
  BY DEF TypeOK
<1> QED
  BY <1>1 DEF Waiting

LEMMA NonePending == ASSUME pending = {} PROVE \A a : ~Waiting(a)
  BY DEF Waiting

LEMMA ExcusedAfter ==
  ASSUME NEW keys, Excuse(keys), NEW t \in tickets', t.key \notin excused'
  PROVE  t.key \notin excused /\ t.key \notin keys
  BY DEF Excuse

LEMMA AboutSomething ==
  ASSUME NEW a, NEW open
  PROVE  KeysAbout(a, open) # {} <=> \E t \in open : a \in t.about
  BY DEF KeysAbout

LEMMA InitInv == Init => Inv
<1> SUFFICES ASSUME Init PROVE Inv
  OBVIOUS
<1>1. /\ service = "ignored" /\ triggered = {} /\ pending = {} /\ tickets = {}
      /\ resolveKey = [a \in Alerts |-> NoKey] /\ row = [a \in Alerts |-> NoRow]
      /\ ~Tracked /\ service \notin Keyed /\ service # "aliases"
  BY DEF Init, Tracked, Keyed
<1> QED
  BY <1>1, InitType, Zenon DEF Inv, Phases, OneAlias, Owned, Findable, Backed, TriggeredIsOpen

LEMMA LoadInv ==
  ASSUME Inv, TypeOK', NEW answers \in May, Load(answers)
  PROVE  Inv'
<1>1. /\ setup # NoSetup /\ setup' = NoSetup /\ service = "ignored"
      /\ triggered = {} /\ pending = {}
      /\ resolveKey = [a \in Alerts |-> NoKey] /\ row = [a \in Alerts |-> NoRow]
      /\ UNCHANGED <<triggered, resolveKey, row, pending, tickets, lastKey, excused, overtaken,
                     revived>>
  BY DEF Load, memory, history, Inv, Phases
<1>2. tickets = {}
  BY <1>1 DEF Inv, Phases, Tracked
<1>3. (Phases /\ OneAlias /\ Findable /\ Backed /\ TriggeredIsOpen)'
  BY <1>1, <1>2, Zenon DEF Phases, OneAlias, Findable, Backed, TriggeredIsOpen
<1>4. \A k \in Keys \ {NoKey} : \A a \in Alerts : ~Holds(a, k)'
  BY <1>1, <1>2 DEF Holds, NoRow
<1>5. Owned'
  BY <1>4, Zenon DEF Owned
<1> QED
  BY <1>3, <1>5 DEF Inv
-----------------------------------------------------------------------------
(* Owned *)

\* A step that gives one alert one key, its own or a new one.
LEMMA OwnedKept ==
  ASSUME TypeOK, TypeOK', Owned, service' = service, NEW a \in Alerts, NEW key \in Keys \ {NoKey},
         service \in Keyed =>
           /\ lastKey' >= lastKey /\ lastKey' >= key
           /\ key > lastKey \/ Holds(a, key)
           /\ \A b \in Alerts, k \in Keys \ {NoKey} :
                Holds(b, k)' => Holds(b, k) \/ (b = a /\ k = key)
  PROVE  Owned'
<1> SUFFICES ASSUME service \in Keyed, NEW k \in Keys \ {NoKey}
             PROVE  /\ k > lastKey' => \A b \in Alerts : ~Holds(b, k)'
                    /\ \A b, c \in Alerts : Holds(b, k)' /\ Holds(c, k)' => b = c
  BY DEF Owned, Keyed
<1>1. /\ k > lastKey => \A b \in Alerts : ~Holds(b, k)
      /\ \A b, c \in Alerts : Holds(b, k) /\ Holds(c, k) => b = c
  BY DEF Owned
<1>2. lastKey \in Nat /\ lastKey' \in Nat /\ k \in Nat /\ key \in Nat
  BY KeyTypes, SMT DEF TypeOK
<1>3. k > lastKey' => k > lastKey /\ k # key
  BY <1>2, SMT
<1>4. ASSUME NEW b \in Alerts, Holds(b, k)' PROVE Holds(b, k) \/ (b = a /\ k = key)
  BY <1>4
<1>5. k > lastKey' => \A b \in Alerts : ~Holds(b, k)'
  BY <1>1, <1>3, <1>4, Zenon
<1>6. ASSUME NEW b \in Alerts, NEW c \in Alerts, Holds(b, k)', Holds(c, k)' PROVE b = c
  <2>1. k = key => Holds(a, k) \/ \A d \in Alerts : ~Holds(d, k)
    BY <1>1, Zenon
  <2> QED
    BY <1>1, <1>4, <1>6, <2>1, Zenon
<1> QED
  BY <1>5, <1>6

\* A step that gives no alert a key.
LEMMA OwnedWithout ==
  ASSUME TypeOK, TypeOK', Owned, service' = service,
         service \in Keyed =>
           /\ lastKey' >= lastKey
           /\ \A b \in Alerts, k \in Keys \ {NoKey} : Holds(b, k)' => Holds(b, k)
  PROVE  Owned'
<1> SUFFICES ASSUME service \in Keyed, NEW k \in Keys \ {NoKey}
             PROVE  /\ k > lastKey' => \A b \in Alerts : ~Holds(b, k)'
                    /\ \A b, c \in Alerts : Holds(b, k)' /\ Holds(c, k)' => b = c
  BY DEF Owned, Keyed
<1>1. /\ k > lastKey => \A b \in Alerts : ~Holds(b, k)
      /\ \A b, c \in Alerts : Holds(b, k) /\ Holds(c, k) => b = c
  BY DEF Owned
<1>2. k > lastKey' => k > lastKey
  BY KeyTypes, SMT DEF TypeOK
<1> QED
  BY <1>1, <1>2, Zenon

\* A key that is sent to a service that looks for it is the alert's own or new.
LEMMA FiringKeyIsOwn ==
  ASSUME TypeOK, NEW a \in Alerts, service \in Keyed
  PROVE  /\ Tracked
         /\ FiringKey(service, a) > lastKey \/ FiringKey(service, a) = resolveKey[a]
         /\ service = "incidents" => FiringKey(service, a) = lastKey + 1
         /\ service # "incidents" /\ resolveKey[a] # NoKey => FiringKey(service, a) = resolveKey[a]
<1>1. lastKey \in Nat /\ lastKey + 1 > lastKey
  BY KeyTypes, SMT DEF TypeOK
<1> QED
  BY <1>1 DEF Keyed, Tracked, FiringKey
-----------------------------------------------------------------------------
(* Fire *)

LEMMA FireFacts ==
  ASSUME Inv, NEW a \in Alerts, NEW answer \in Answers, Fire(a, answer)
  PROVE  /\ setup' = NoSetup /\ service' = service /\ Tracked' = Tracked
         /\ row' = row /\ revived' = revived
         /\ \A b : ~Waiting(b)
         /\ FiringKey(service, a) \in Keys \ {NoKey}
         /\ resolveKey'[a] = KeyAfterFiring(service, a, answer)
         /\ \A b \in Alerts \ {a} : resolveKey'[b] = resolveKey[b]
         /\ IF Tracked /\ answer # "refused"
            THEN tickets' = Opened(FiringKey(service, a), a) ELSE tickets' = tickets
         /\ IF Succeeds(service, answer)
            THEN triggered' = triggered \union {a} /\ pending' = {<<a, "write">>}
            ELSE triggered' = triggered /\ pending' = {}
         /\ Tracked => lastKey' >= FiringKey(service, a) /\ lastKey' >= lastKey
         /\ IF answer = "refused" THEN overtaken' = overtaken ELSE overtaken' = overtaken \ {a}
<1>1. FiringKey(service, a) \in Keys \ {NoKey}
  BY FiringKeyType DEF Fire, Inv
<1>2. Tracked => lastKey' >= FiringKey(service, a) /\ lastKey' >= lastKey
  BY <1>1, LastKeyType, KeyTypes DEF Fire, Inv
<1>3. resolveKey' = [resolveKey EXCEPT ![a] = KeyAfterFiring(service, a, answer)]
      /\ resolveKey \in [Alerts -> Keys]
  BY DEF Fire, Inv, TypeOK
<1>4. setup' = NoSetup /\ service' = service /\ Tracked' = Tracked /\ row' = row /\ revived' = revived
  BY DEF Fire, Tracked
<1>5. \A b : ~Waiting(b)
  BY NonePending DEF Fire
<1>6. /\ resolveKey'[a] = KeyAfterFiring(service, a, answer)
      /\ \A b \in Alerts \ {a} : resolveKey'[b] = resolveKey[b]
  BY <1>3
<1>7. IF Tracked /\ answer # "refused"
      THEN tickets' = Opened(FiringKey(service, a), a) ELSE tickets' = tickets
  BY DEF Fire, Done
<1>8. IF Succeeds(service, answer)
      THEN triggered' = triggered \union {a} /\ pending' = {<<a, "write">>}
      ELSE triggered' = triggered /\ pending' = {}
  BY DEF Fire
<1>9. IF answer = "refused" THEN overtaken' = overtaken ELSE overtaken' = overtaken \ {a}
  BY DEF Fire, Done
<1> QED
  BY <1>1, <1>2, <1>4, <1>5, <1>6, <1>7, <1>8, <1>9

LEMMA FireOwned ==
  ASSUME Inv, TypeOK', NEW a \in Alerts, NEW answer \in Answers, Fire(a, answer)
  PROVE  Owned'
<1> DEFINE key == FiringKey(service, a)
<1>1. key \in Keys \ {NoKey} /\ service' = service /\ row' = row
  BY FireFacts
<1>2. ASSUME service \in Keyed
      PROVE  /\ lastKey' >= lastKey /\ lastKey' >= key
             /\ key > lastKey \/ Holds(a, key)
  BY <1>2, FireFacts, FiringKeyIsOwn DEF Inv, Holds
<1>3. ASSUME NEW b \in Alerts, NEW k \in Keys \ {NoKey}, Holds(b, k)'
      PROVE  Holds(b, k) \/ (b = a /\ k = key)
  <2>1. resolveKey'[b] = k => resolveKey[b] = k \/ (b = a /\ k = key)
    <3>1. resolveKey'[a] \in {key, resolveKey[a], NoKey}
      BY FireFacts, KeyAfterFiringCases
    <3> QED
      BY <3>1, FireFacts
  <2>2. ASSUME NEW t \in tickets', t.key = k, b \in t.about
        PROVE  (\E u \in tickets : u.key = k /\ b \in u.about) \/ (b = a /\ k = key)
    <3>1. CASE tickets' = tickets
      BY <2>2, <3>1
    <3>2. CASE tickets' = Opened(key, a)
      <4>1. IF t.key = key
            THEN /\ a \in t.about
                 /\ \A c \in t.about \ {a} : \E u \in tickets : u.key = key /\ c \in u.about
            ELSE t \in tickets
        BY <1>1, <3>2, OpenedFacts DEF Inv
      <4> QED
        BY <2>2, <4>1
    <3> QED
      BY <3>1, <3>2, FireFacts
  <2> QED
    BY <1>1, <1>3, <2>1, <2>2 DEF Holds
<1> QED
  BY <1>1, <1>2, <1>3, OwnedKept DEF Inv

\* What is open afterwards and not excused.
LEMMA FireTickets ==
  ASSUME Inv, NEW a \in Alerts, NEW answer \in Answers, Fire(a, answer),
         NEW t \in tickets', t.key \notin excused'
  PROVE  /\ t.key \notin excused
         /\ service = "incidents" /\ answer = "accepted" => t.key # resolveKey[a]
         /\ \/ t \in tickets /\ (t.key # FiringKey(service, a) \/ answer = "refused")
            \/ /\ t.key = FiringKey(service, a) /\ answer = "accepted" /\ Tracked /\ a \in t.about
               /\ \A b \in t.about \ {a} : \E u \in tickets : u.key = t.key /\ b \in u.about
<1> DEFINE key == FiringKey(service, a)
<1>1. /\ t.key \notin excused
      /\ answer \notin {"refused", "accepted"} => t.key # key
      /\ service = "incidents" /\ answer = "accepted" => t.key # resolveKey[a]
  <2>1. /\ t.key \notin excused
        /\ t.key \notin ((IF Done(answer) /\ answer # "accepted" THEN {key} ELSE {})
                         \union (IF service = "incidents" /\ answer = "accepted"
                                 THEN {resolveKey[a]} ELSE {}))
    BY ExcusedAfter DEF Fire
  <2> QED
    BY <2>1 DEF Done
<1>2. CASE tickets' = Opened(key, a) /\ answer # "refused" /\ Tracked
  <2>1. key \in Keys \ {NoKey}
    BY FireFacts
  <2>2. IF t.key = key
        THEN /\ a \in t.about
             /\ \A c \in t.about \ {a} : \E u \in tickets : u.key = key /\ c \in u.about
        ELSE t \in tickets
    BY <1>2, <2>1, OpenedFacts DEF Inv
  <2> QED
    BY <1>1, <1>2, <2>2
<1>3. CASE tickets' = tickets /\ answer = "refused"
  BY <1>1, <1>3
<1>4. CASE tickets' = tickets /\ ~Tracked
  BY <1>4 DEF Inv, Phases
<1> QED
  BY <1>2, <1>3, <1>4, FireFacts

LEMMA FireFindable ==
  ASSUME Inv, NEW a \in Alerts, NEW answer \in Answers, Fire(a, answer)
  PROVE  Findable'
<1> DEFINE key == FiringKey(service, a)
<1> SUFFICES ASSUME SendOnResolved, service \in Keyed, NEW t \in tickets', t.key \notin excused',
                    NEW b \in t.about
             PROVE  resolveKey'[b] = t.key /\ (row'[b].key = t.key \/ Waiting(b)')
  BY FireFacts DEF Findable
<1>1. b \in Alerts /\ t.key \in Keys \ {NoKey}
  BY FireType DEF Inv, TypeOK
<1>2. ASSUME NEW u \in tickets, u.key = t.key, b \in u.about
      PROVE  resolveKey[b] = t.key /\ row'[b].key = t.key
  BY <1>2, FireTickets, FireFacts DEF Inv, Findable
<1>3. CASE /\ t.key = key /\ answer = "accepted" /\ Tracked
           /\ \A c \in t.about \ {a} : \E u \in tickets : u.key = t.key /\ c \in u.about
  <2>1. CASE b = a
    <3>1. resolveKey'[a] = key
      BY <1>3, FireFacts DEF KeyAfterFiring, Keyed
    <3>2. pending' = {<<a, "write">>}
      BY <1>3, FireFacts DEF Succeeds
    <3> QED
      BY <1>3, <2>1, <3>1, <3>2 DEF Waiting
  <2>2. CASE b # a
    BY <1>1, <1>2, <1>3, <2>2, FireFacts
  <2> QED
    BY <2>1, <2>2
<1>4. CASE t \in tickets /\ (t.key # key \/ answer = "refused")
  <2>1. resolveKey[b] = t.key /\ row'[b].key = t.key
    BY <1>2, <1>4
  <2>2. CASE b = a
    <3>1. CASE service = "incidents"
      <4>1. answer # "accepted"
        BY <2>1, <2>2, <3>1, FireTickets
      <4>2. KeyAfterFiring(service, a, answer) = resolveKey[a]
        BY <3>1, <4>1 DEF KeyAfterFiring
      <4> QED
        BY <2>1, <2>2, <4>2, FireFacts
    <3>2. CASE service # "incidents"
      <4>1. key = t.key
        BY <1>1, <2>1, <2>2, <3>2, FiringKeyIsOwn DEF Inv
      <4>2. KeyAfterFiring(service, a, answer) = t.key
        BY <1>4, <2>1, <2>2, <3>2, <4>1 DEF KeyAfterFiring, Keyed
      <4> QED
        BY <2>1, <2>2, <4>2, FireFacts
    <3> QED
      BY <3>1, <3>2
  <2>3. CASE b # a
    BY <1>1, <2>1, <2>3, FireFacts
  <2> QED
    BY <2>2, <2>3
<1> QED
  BY <1>3, <1>4, FireTickets

LEMMA FireBacked ==
  ASSUME Inv, NEW a \in Alerts, NEW answer \in Answers, Fire(a, answer)
  PROVE  Backed'
<1> SUFFICES ASSUME SendOnResolved, NEW t \in tickets', t.key \notin excused'
             PROVE  \E b \in t.about : Waiting(b)' \/ (b \in triggered' /\ row'[b].saved)
  BY DEF Backed
<1>1. CASE t \in tickets
  <2>1. PICK b \in t.about : b \in triggered /\ row[b].saved
    BY <1>1, FireTickets, FireFacts DEF Inv, Backed
  <2>2. b \in triggered' /\ row'[b].saved
    BY <2>1, FireFacts
  <2> QED
    BY <2>2
<1>2. CASE answer = "accepted" /\ a \in t.about
  <2>1. pending' = {<<a, "write">>}
    BY <1>2, FireFacts DEF Succeeds
  <2> QED
    BY <1>2, <2>1 DEF Waiting
<1> QED
  BY <1>1, <1>2, FireTickets

LEMMA FireIsOpen ==
  ASSUME Inv, NEW a \in Alerts, NEW answer \in Answers, Fire(a, answer)
  PROVE  TriggeredIsOpen'
<1> DEFINE key == FiringKey(service, a)
<1> SUFFICES ASSUME Tracked, NEW b \in triggered' \ revived'
             PROVE  \/ \E t \in tickets' : b \in t.about
                    \/ service \in SharedByAlerts /\ b \in overtaken'
  BY AboutSomething, FireFacts DEF TriggeredIsOpen
<1>1. CASE answer # "refused"
  <2>1. tickets' = Opened(key, a) /\ key \in Keys \ {NoKey}
    BY <1>1, FireFacts
  <2>2. /\ \A t \in tickets' : t.key = key => a \in t.about
        /\ \E t \in tickets' : t.key = key
        /\ \A u \in tickets : \E t \in tickets' : t.key = u.key /\ u.about \subseteq t.about
    BY <2>1, OpenedFacts DEF Inv
  <2>3. b = a => \E t \in tickets' : b \in t.about
    BY <2>2
  <2>4. CASE b # a
    <3>1. b \in triggered \ revived
      BY <2>4, FireFacts
    <3>2. (\E u \in tickets : b \in u.about) \/ (service \in SharedByAlerts /\ b \in overtaken)
      BY <3>1, AboutSomething DEF Inv, TriggeredIsOpen
    <3>3. (\E u \in tickets : b \in u.about) => \E t \in tickets' : b \in t.about
      BY <2>2
    <3>4. b \in overtaken => b \in overtaken'
      BY <2>4, FireFacts
    <3> QED
      BY <3>2, <3>3, <3>4
  <2> QED
    BY <2>3, <2>4
<1>2. CASE answer = "refused"
  <2>1. ~Succeeds(service, answer)
    BY <1>2 DEF Succeeds
  <2>2. b \in triggered \ revived /\ tickets' = tickets /\ overtaken' = overtaken
    BY <1>2, <2>1, FireFacts
  <2> QED
    BY <2>2, AboutSomething DEF Inv, TriggeredIsOpen
<1> QED
  BY <1>1, <1>2

LEMMA FireInv ==
  ASSUME Inv, NEW a \in Alerts, NEW answer \in Answers, Fire(a, answer)
  PROVE  Inv'
<1>1. TypeOK'
  BY FireType DEF Inv
<1>2. Phases'
  <2>1. setup' = NoSetup /\ (~Tracked' => tickets' = {})
    BY FireFacts DEF Inv, Phases
  <2>2. /\ \A b \in Alerts : <<b, "tell">> \notin pending'
        /\ \A b \in Alerts : <<b, "write">> \in pending' => b \in triggered'
    BY FireFacts
  <2> QED
    BY <2>1, <2>2 DEF Phases
<1>3. OneAlias'
  <2> SUFFICES ASSUME service = "aliases", NEW t \in tickets' PROVE t.key = Alias
    BY FireFacts DEF OneAlias
  <2>1. FiringKey(service, a) = Alias /\ Alias \in Keys \ {NoKey}
    BY KeyTypes DEF FiringKey
  <2>2. tickets' = tickets \/ tickets' = Opened(Alias, a)
    BY <2>1, FireFacts
  <2>3. \A u \in tickets : u.key = Alias
    BY DEF Inv, OneAlias
  <2>4. tickets' = Opened(Alias, a) => t.key = Alias \/ t \in tickets
    BY <2>1, OpenedFacts DEF Inv
  <2> QED
    BY <2>2, <2>3, <2>4
<1> QED
  BY <1>1, <1>2, <1>3, FireOwned, FireFindable, FireBacked, FireIsOpen DEF Inv
-----------------------------------------------------------------------------
(* Write *)

LEMMA WriteFacts ==
  ASSUME Inv, NEW a \in Alerts, NEW written \in BOOLEAN, Write(a, written)
  PROVE  /\ UNCHANGED <<setup, service, triggered, resolveKey, tickets, lastKey, overtaken, revived>>
         /\ Tracked' = Tracked
         /\ setup = NoSetup /\ a \in triggered /\ \A b \in Alerts : Waiting(b) => b = a
         /\ pending' = {} /\ \A b : ~Waiting(b)'
         /\ \A b \in Alerts \ {a} : row'[b] = row[b]
         /\ written => row'[a].saved /\ row'[a].key = resolveKey[a]
         /\ ~written => row'[a] = row[a]
         /\ \A t \in tickets : t.key \notin excused' =>
              t.key \notin excused /\ (a \in t.about => written)
<1>1. UNCHANGED <<setup, service, triggered, resolveKey, tickets, lastKey, overtaken, revived>>
  BY DEF Write, memory
<1>2. Tracked' = Tracked
  BY <1>1 DEF Tracked
<1>3. /\ \A b \in Alerts : Waiting(b) => b = a
      /\ setup = NoSetup /\ a \in triggered
  BY OnePending DEF Write, Inv, Phases
<1>4. pending' = {} /\ \A b : ~Waiting(b)'
  BY DEF Write, Waiting
<1>5. /\ \A b \in Alerts \ {a} : row'[b] = row[b]
      /\ written => row'[a].saved /\ row'[a].key = resolveKey[a]
      /\ ~written => row'[a] = row[a]
  BY DEF Write, Inv, TypeOK, RowOf
<1>6. ASSUME NEW t \in tickets, t.key \notin excused'
      PROVE  t.key \notin excused /\ (a \in t.about => written)
  <2>1. t.key \notin excused /\ t.key \notin (IF written THEN {} ELSE KeysAbout(a, tickets))
    BY <1>1, <1>6, ExcusedAfter DEF Write
  <2>2. a \in t.about => t.key \in KeysAbout(a, tickets)
    BY DEF KeysAbout
  <2> QED
    BY <2>1, <2>2
<1> QED
  BY <1>1, <1>2, <1>3, <1>4, <1>5, <1>6

LEMMA WriteInv ==
  ASSUME Inv, NEW a \in Alerts, NEW written \in BOOLEAN, Write(a, written)
  PROVE  Inv'
<1>1. TypeOK'
  BY WriteType DEF Inv
<1>2. (Phases /\ OneAlias /\ TriggeredIsOpen)'
  BY WriteFacts DEF Inv, Phases, OneAlias, TriggeredIsOpen
<1>3. Owned'
  <2>1. ASSUME NEW b \in Alerts, NEW k \in Keys \ {NoKey}, Holds(b, k)'
        PROVE  Holds(b, k)
    BY <2>1, WriteFacts DEF Holds
  <2>2. lastKey' >= lastKey
    BY <1>1, WriteFacts, KeyTypes, SMT DEF Inv, TypeOK
  <2> QED
    BY <1>1, <2>1, <2>2, WriteFacts, OwnedWithout DEF Inv
<1>4. Findable'
  <2> SUFFICES ASSUME SendOnResolved, service \in Keyed, NEW t \in tickets, t.key \notin excused',
                      NEW b \in t.about
               PROVE  resolveKey[b] = t.key /\ row'[b].key = t.key
    BY WriteFacts DEF Findable
  <2>1. b \in Alerts /\ t.key \notin excused /\ (b = a => written)
    BY WriteFacts DEF Inv, TypeOK
  <2>2. resolveKey[b] = t.key /\ (row[b].key = t.key \/ Waiting(b))
    BY <2>1 DEF Inv, Findable
  <2>3. CASE b = a
    BY <2>1, <2>2, <2>3, WriteFacts
  <2>4. CASE b # a
    BY <2>1, <2>2, <2>4, WriteFacts
  <2> QED
    BY <2>3, <2>4
<1>5. Backed'
  <2> SUFFICES ASSUME SendOnResolved, NEW t \in tickets, t.key \notin excused'
               PROVE  \E b \in t.about : b \in triggered /\ row'[b].saved
    BY WriteFacts DEF Backed
  <2>1. t.key \notin excused /\ (a \in t.about => written) /\ t.about \subseteq Alerts
    BY WriteFacts DEF Inv, TypeOK
  <2>2. PICK b \in t.about : Waiting(b) \/ (b \in triggered /\ row[b].saved)
    BY <2>1 DEF Inv, Backed
  <2>3. CASE b = a
    BY <2>1, <2>2, <2>3, WriteFacts
  <2>4. CASE b # a
    BY <2>1, <2>2, <2>4, WriteFacts
  <2> QED
    BY <2>3, <2>4
<1> QED
  BY <1>1, <1>2, <1>3, <1>4, <1>5 DEF Inv
-----------------------------------------------------------------------------
(* Resolve *)

LEMMA ResolveFacts ==
  ASSUME Inv, NEW a \in Alerts, NEW deleted \in BOOLEAN, Resolve(a, deleted)
  PROVE  /\ UNCHANGED <<setup, service, resolveKey, tickets, lastKey, excused, overtaken>>
         /\ Tracked' = Tracked /\ setup = NoSetup
         /\ triggered' = triggered \ {a} /\ revived' = revived \ {a}
         /\ \A b : ~Waiting(b)
         /\ pending' = IF SendOnResolved THEN {<<a, "tell">>} ELSE {}
         /\ \A b \in Alerts \ {a} : row'[b] = row[b]
         /\ row'[a] \in {row[a], NoRow}
<1>1. /\ UNCHANGED <<setup, service, resolveKey, tickets, lastKey, excused, overtaken>>
      /\ setup = NoSetup /\ triggered' = triggered \ {a} /\ revived' = revived \ {a}
      /\ pending' = IF SendOnResolved THEN {<<a, "tell">>} ELSE {}
  BY DEF Resolve
<1>2. Tracked' = Tracked
  BY <1>1 DEF Tracked
<1>3. \A b : ~Waiting(b)
  BY NonePending DEF Resolve
<1>4. /\ \A b \in Alerts \ {a} : row'[b] = row[b]
      /\ row'[a] \in {row[a], NoRow}
  BY DEF Resolve, Inv, TypeOK
<1> QED
  BY <1>1, <1>2, <1>3, <1>4

LEMMA ResolveInv ==
  ASSUME Inv, NEW a \in Alerts, NEW deleted \in BOOLEAN, Resolve(a, deleted)
  PROVE  Inv'
<1>1. TypeOK'
  BY ResolveType DEF Inv
<1>2. Phases' /\ OneAlias'
  BY ResolveFacts DEF Inv, Phases, OneAlias
<1>3. Owned'
  <2>1. ASSUME NEW b \in Alerts, NEW k \in Keys \ {NoKey}, Holds(b, k)'
        PROVE  Holds(b, k)
    BY <2>1, ResolveFacts DEF Holds, NoRow
  <2>2. lastKey' >= lastKey
    BY <1>1, ResolveFacts, KeyTypes, SMT DEF Inv, TypeOK
  <2> QED
    BY <1>1, <2>1, <2>2, ResolveFacts, OwnedWithout DEF Inv
<1>4. SendOnResolved => Waiting(a)'
  <2>1. SendOnResolved => <<a, "tell">> \in pending'
    BY ResolveFacts
  <2> QED
    BY <2>1 DEF Waiting
<1>5. Findable'
  <2> SUFFICES ASSUME SendOnResolved, service \in Keyed, NEW t \in tickets, t.key \notin excused,
                      NEW b \in t.about
               PROVE  resolveKey[b] = t.key /\ (row'[b].key = t.key \/ Waiting(b)')
    BY ResolveFacts DEF Findable
  <2>1. b \in Alerts /\ resolveKey[b] = t.key /\ row[b].key = t.key
    BY ResolveFacts DEF Inv, TypeOK, Findable
  <2> QED
    BY <1>4, <2>1, ResolveFacts
<1>6. Backed'
  <2> SUFFICES ASSUME SendOnResolved, NEW t \in tickets, t.key \notin excused
               PROVE  \E b \in t.about : Waiting(b)' \/ (b \in triggered' /\ row'[b].saved)
    BY ResolveFacts DEF Backed
  <2>1. PICK b \in t.about : b \in triggered /\ row[b].saved
    BY ResolveFacts DEF Inv, Backed
  <2>2. b \in Alerts
    BY DEF Inv, TypeOK
  <2> QED
    BY <1>4, <2>1, <2>2, ResolveFacts
<1>7. TriggeredIsOpen'
  BY ResolveFacts DEF Inv, TriggeredIsOpen
<1> QED
  BY <1>1, <1>2, <1>3, <1>5, <1>6, <1>7 DEF Inv
-----------------------------------------------------------------------------
(* Tell *)

LEMMA TellFacts ==
  ASSUME Inv, NEW a \in Alerts, NEW answer \in Answers,
         NEW shown \in Pages(a), Tell(a, answer, shown)
  PROVE  /\ UNCHANGED <<setup, service, triggered, row, revived>> /\ Tracked' = Tracked
         /\ setup = NoSetup /\ a \notin triggered /\ \A b \in Alerts : Waiting(b) => b = a
         /\ pending' = {} /\ \A b : ~Waiting(b)'
         /\ resolveKey'[a] = KeyAfterResolved(service, a, answer)
         /\ \A b \in Alerts \ {a} : resolveKey'[b] = resolveKey[b]
         /\ overtaken \subseteq overtaken'
         /\ \A b \in triggered : KeysAbout(b, tickets) # {} /\ KeysAbout(b, tickets') = {}
              => b \in overtaken'
<1>1. UNCHANGED <<setup, service, triggered, row, revived>>
  BY DEF Tell
<1>2. Tracked' = Tracked
  BY <1>1 DEF Tracked
<1>3. /\ \A b \in Alerts : Waiting(b) => b = a
      /\ setup = NoSetup /\ a \notin triggered
  BY OnePending DEF Tell, Inv, Phases
<1>4. pending' = {} /\ \A b : ~Waiting(b)'
  BY DEF Tell, Waiting
<1>5. /\ resolveKey'[a] = KeyAfterResolved(service, a, answer)
      /\ \A b \in Alerts \ {a} : resolveKey'[b] = resolveKey[b]
  BY DEF Tell, Inv, TypeOK
<1>6. /\ overtaken \subseteq overtaken'
      /\ \A b \in triggered : KeysAbout(b, tickets) # {} /\ KeysAbout(b, tickets') = {}
           => b \in overtaken'
  BY DEF Tell
<1> QED
  BY <1>1, <1>2, <1>3, <1>4, <1>5, <1>6

\* Services that are sent a key close nothing but what is open under it.
LEMMA TellKeyed ==
  ASSUME Inv, NEW a \in Alerts, NEW answer \in Answers,
         NEW shown \in Pages(a), Tell(a, answer, shown), service \in Keyed
  PROVE  /\ tickets' \subseteq tickets
         /\ \A t \in tickets : t \in tickets' \/ t.key = resolveKey[a]
<1>1. service \notin {"issues", "aliases"} /\ Tracked
  BY DEF Keyed, Tracked
<1>2. AfterResolved(service, a, answer, shown)
        \subseteq {tickets, tickets \ Closing(service, a, shown)}
  BY <1>1 DEF AfterResolved
<1>3. Closing(service, a, shown) = {t \in tickets : t.key = resolveKey[a]}
  BY <1>1 DEF Closing
<1> QED
  BY <1>1, <1>2, <1>3 DEF Tell

\* What is open afterwards and not excused is about other alerts.
LEMMA TellTickets ==
  ASSUME Inv, NEW a \in Alerts, NEW answer \in Answers,
         NEW shown \in Pages(a), Tell(a, answer, shown), SendOnResolved,
         NEW t \in tickets', t.key \notin excused'
  PROVE  t \in tickets /\ t.key \notin excused /\ a \notin t.about
<1> DEFINE keys == IF answer # "accepted" THEN KeysAbout(a, tickets')
                   ELSE IF service = "issues" THEN KeysAbout(a, tickets \ shown) ELSE {}
<1>1. t.key \notin excused /\ t.key \notin keys
  BY ExcusedAfter DEF Tell
<1>2. answer # "accepted" => a \notin t.about
  BY <1>1 DEF KeysAbout
<1>3. t \in tickets
  <2>1. CASE tickets' = Opened(Alias, a) /\ answer = "refused"
    <3>1. IF t.key = Alias THEN a \in t.about ELSE t \in tickets
      BY <2>1, OpenedFacts, KeyTypes DEF Inv
    <3> QED
      BY <1>2, <2>1, <3>1
  <2> QED
    BY <2>1, TellKeys DEF Inv
<1>4. CASE answer = "accepted" /\ a \in t.about
  <2>1. Tracked /\ service \in Services
    BY <1>3 DEF Inv, Phases, TypeOK
  <2>2. tickets' = tickets \ Closing(service, a, shown)
    BY <1>4, <2>1 DEF Tell, AfterResolved
  <2>3. t \in Closing(service, a, shown)
    <3>1. CASE service = "issues"
      <4>1. t \in shown
        BY <1>1, <1>3, <1>4, <3>1 DEF KeysAbout
      <4> QED
        BY <3>1, <4>1 DEF Closing
    <3>2. CASE service = "aliases"
      BY <1>3, <3>2 DEF Closing, Inv, OneAlias
    <3>3. CASE service \in Keyed
      <4>1. t.key = resolveKey[a]
        BY <1>1, <1>3, <1>4, <3>3 DEF Inv, Findable
      <4> QED
        BY <1>3, <3>3, <4>1 DEF Closing, Keyed
    <3> QED
      BY <2>1, <3>1, <3>2, <3>3 DEF Tracked, Services, Keyed
  <2> QED
    BY <2>2, <2>3
<1> QED
  BY <1>1, <1>2, <1>3, <1>4

LEMMA TellOwned ==
  ASSUME Inv, TypeOK', NEW a \in Alerts, NEW answer \in Answers,
         NEW shown \in Pages(a), Tell(a, answer, shown)
  PROVE  Owned'
<1> DEFINE key == FiringKey(service, a)
<1>1. service' = service /\ row' = row /\ lastKey' >= lastKey
  BY TellFacts, TellKeys DEF Inv
<1>2. ASSUME service \in Keyed, NEW b \in Alerts, NEW k \in Keys \ {NoKey}, Holds(b, k)'
      PROVE  Holds(b, k) \/ (b = a /\ k = key /\ service # "incidents")
  <2>1. resolveKey'[b] = k
          => resolveKey[b] = k \/ (b = a /\ k = key /\ service # "incidents")
    BY TellFacts, KeyAfterResolvedCases
  <2>2. tickets' \subseteq tickets
    BY <1>2, TellKeyed
  <2> QED
    BY <1>1, <1>2, <2>1, <2>2 DEF Holds
<1>3. CASE service \in {"fingerprints", "keyed by the service"}
  <2>1. service \in Keyed /\ service \notin {"issues", "incidents"}
    BY <1>3 DEF Keyed
  <2>2. key \in Keys \ {NoKey} /\ lastKey' >= key
    BY <1>3, <2>1, FiringKeyType, TellKeys DEF Tell, Inv
  <2>3. key > lastKey \/ Holds(a, key)
    BY <2>1, FiringKeyIsOwn DEF Inv, Holds
  <2> QED
    BY <1>1, <1>2, <2>1, <2>2, <2>3, OwnedKept DEF Inv
<1>4. CASE service \notin {"fingerprints", "keyed by the service"}
  <2>1. service \in Keyed => service = "incidents"
    BY <1>4 DEF Keyed
  <2> QED
    BY <1>1, <1>2, <2>1, OwnedWithout DEF Inv
<1> QED
  BY <1>3, <1>4

LEMMA TellIsOpen ==
  ASSUME Inv, NEW a \in Alerts, NEW answer \in Answers,
         NEW shown \in Pages(a), Tell(a, answer, shown)
  PROVE  TriggeredIsOpen'
<1> SUFFICES ASSUME Tracked, NEW b \in triggered \ revived
             PROVE  \/ KeysAbout(b, tickets') # {}
                    \/ service \in SharedByAlerts /\ b \in overtaken'
  BY TellFacts DEF TriggeredIsOpen
<1>1. KeysAbout(b, tickets) # {} \/ (service \in SharedByAlerts /\ b \in overtaken)
  BY DEF Inv, TriggeredIsOpen
<1>2. b \in Alerts /\ b # a
  BY TellFacts DEF Inv, TypeOK
<1>3. CASE service \in SharedByAlerts
  BY <1>1, <1>3, TellFacts
<1>4. CASE service \notin SharedByAlerts
  <2>1. service \in Keyed
    BY <1>4 DEF Inv, TypeOK, Tracked, Services, Keyed, SharedByAlerts
  <2>2. PICK t \in tickets : b \in t.about
    BY <1>1, <1>4, AboutSomething
  <2>3. t.key \in Keys \ {NoKey}
    BY DEF Inv, TypeOK
  <2>4. t.key # resolveKey[a]
    BY <1>2, <2>1, <2>2, <2>3 DEF Inv, Owned, Holds
  <2>5. t \in tickets'
    BY <2>1, <2>4, TellKeyed
  <2> QED
    BY <2>2, <2>5, AboutSomething
<1> QED
  BY <1>3, <1>4

LEMMA TellInv ==
  ASSUME Inv, NEW a \in Alerts, NEW answer \in Answers,
         NEW shown \in Pages(a), Tell(a, answer, shown)
  PROVE  Inv'
<1>1. TypeOK'
  BY TellType DEF Inv
<1>2. Phases'
  <2>1. ~Tracked => tickets' = {}
    BY DEF Tell, Inv, Phases
  <2> QED
    BY <2>1, TellFacts DEF Phases
<1>3. OneAlias'
  <2>1. tickets' = Opened(Alias, a) => \A t \in tickets' : t.key = Alias \/ t \in tickets
    BY OpenedFacts, KeyTypes DEF Inv
  <2> QED
    BY <2>1, TellFacts, TellKeys DEF OneAlias, Inv
<1>4. Findable'
  <2> SUFFICES ASSUME SendOnResolved, service \in Keyed, NEW t \in tickets', t.key \notin excused',
                      NEW b \in t.about
               PROVE  resolveKey'[b] = t.key /\ row[b].key = t.key
    BY TellFacts DEF Findable
  <2>1. t \in tickets /\ t.key \notin excused /\ b # a
    BY TellTickets
  <2>2. b \in Alerts
    BY <2>1 DEF Inv, TypeOK
  <2>3. resolveKey[b] = t.key /\ (row[b].key = t.key \/ Waiting(b))
    BY <2>1 DEF Inv, Findable
  <2> QED
    BY <2>1, <2>2, <2>3, TellFacts
<1>5. Backed'
  <2> SUFFICES ASSUME SendOnResolved, NEW t \in tickets', t.key \notin excused'
               PROVE  \E b \in t.about : b \in triggered /\ row[b].saved
    BY TellFacts DEF Backed
  <2>1. t \in tickets /\ t.key \notin excused /\ a \notin t.about
    BY TellTickets
  <2>2. PICK b \in t.about : Waiting(b) \/ (b \in triggered /\ row[b].saved)
    BY <2>1 DEF Inv, Backed
  <2>3. b \in Alerts
    BY <2>1 DEF Inv, TypeOK
  <2> QED
    BY <2>1, <2>2, <2>3, TellFacts
<1> QED
  BY <1>1, <1>2, <1>3, <1>4, <1>5, TellOwned, TellIsOpen DEF Inv
-----------------------------------------------------------------------------
(* Restart *)

LEMMA RestartFacts ==
  ASSUME Inv, NEW answers \in May, NEW kept \in SUBSET Alerts, Restart(answers, kept)
  PROVE  /\ UNCHANGED <<setup, service, tickets, lastKey, overtaken>>
         /\ Tracked' = Tracked /\ setup = NoSetup
         /\ pending' = {} /\ \A b : ~Waiting(b)'
         /\ \A b \in Alerts : (b \in triggered' <=> row'[b].saved) /\ resolveKey'[b] = row'[b].key
         /\ \A b \in Alerts : row'[b] \in {row[b], NoRow}
         /\ triggered' \subseteq Alerts /\ triggered' \ revived' \subseteq triggered \ revived
         /\ \A t \in tickets : t.key \notin excused' =>
              /\ t.key \notin excused
              /\ \A b \in t.about : b \in Alerts => ~Waiting(b) /\ row'[b] = row[b]
<1>1. UNCHANGED <<setup, service, tickets, lastKey, overtaken>> /\ setup = NoSetup
  BY DEF Restart
<1>2. Tracked' = Tracked
  BY <1>1 DEF Tracked
<1>3. pending' = {} /\ \A b : ~Waiting(b)'
  BY DEF Restart, Waiting
<1>4. /\ \A b \in Alerts : (b \in triggered' <=> row'[b].saved) /\ resolveKey'[b] = row'[b].key
      /\ \A b \in Alerts : row'[b] \in {row[b], NoRow}
  BY DEF Restart
<1>5. triggered' \subseteq Alerts /\ triggered' \ revived' \subseteq triggered \ revived
  BY DEF Restart
<1>6. ASSUME NEW t \in tickets, t.key \notin excused'
      PROVE  /\ t.key \notin excused
             /\ \A b \in t.about : b \in Alerts => ~Waiting(b) /\ row'[b] = row[b]
  <2> DEFINE lost == {p[1] : p \in pending} \union {b \in Alerts : row[b] # row'[b]}
             keys == UNION {KeysAbout(b, tickets) : b \in lost}
  <2>1. t.key \notin excused /\ t.key \notin keys
    BY <1>1, <1>6, ExcusedAfter DEF Restart
  <2>2. ASSUME NEW b \in t.about, b \in lost PROVE t.key \in keys
    <3>1. t.key \in KeysAbout(b, tickets)
      BY DEF KeysAbout
    <3> QED
      BY <2>2, <3>1
  <2>3. ASSUME NEW b \in Alerts, Waiting(b) \/ row'[b] # row[b] PROVE b \in lost
    BY <2>3 DEF Waiting
  <2> QED
    BY <2>1, <2>2, <2>3
<1> QED
  BY <1>1, <1>2, <1>3, <1>4, <1>5, <1>6

LEMMA RestartInv ==
  ASSUME Inv, NEW answers \in May, NEW kept \in SUBSET Alerts, Restart(answers, kept)
  PROVE  Inv'
<1>1. TypeOK'
  BY RestartType DEF Inv
<1>2. (Phases /\ OneAlias)'
  BY RestartFacts DEF Inv, Phases, OneAlias
<1>3. Owned'
  <2>1. ASSUME NEW b \in Alerts, NEW k \in Keys \ {NoKey}, Holds(b, k)'
        PROVE  Holds(b, k)
    BY <2>1, RestartFacts DEF Holds, NoRow
  <2>2. lastKey' >= lastKey
    BY <1>1, RestartFacts, KeyTypes, SMT DEF Inv, TypeOK
  <2> QED
    BY <1>1, <2>1, <2>2, RestartFacts, OwnedWithout DEF Inv
<1>4. Findable'
  <2> SUFFICES ASSUME SendOnResolved, service \in Keyed, NEW t \in tickets, t.key \notin excused',
                      NEW b \in t.about
               PROVE  resolveKey'[b] = t.key /\ row'[b].key = t.key
    BY RestartFacts DEF Findable
  <2>1. b \in Alerts
    BY DEF Inv, TypeOK
  <2>2. t.key \notin excused /\ ~Waiting(b) /\ row'[b] = row[b]
    BY <2>1, RestartFacts
  <2>3. row[b].key = t.key
    BY <2>2 DEF Inv, Findable
  <2> QED
    BY <2>1, <2>2, <2>3, RestartFacts
<1>5. Backed'
  <2> SUFFICES ASSUME SendOnResolved, NEW t \in tickets, t.key \notin excused'
               PROVE  \E b \in t.about : b \in triggered' /\ row'[b].saved
    BY RestartFacts DEF Backed
  <2>1. t.about \subseteq Alerts
    BY DEF Inv, TypeOK
  <2>2. t.key \notin excused /\ \A b \in t.about : ~Waiting(b) /\ row'[b] = row[b]
    BY <2>1, RestartFacts
  <2>3. PICK b \in t.about : b \in triggered /\ row[b].saved
    BY <2>2 DEF Inv, Backed
  <2> QED
    BY <2>1, <2>2, <2>3, RestartFacts
<1>6. TriggeredIsOpen'
  BY RestartFacts DEF Inv, TriggeredIsOpen
<1> QED
  BY <1>1, <1>2, <1>3, <1>4, <1>5, <1>6 DEF Inv
-----------------------------------------------------------------------------
(* Theorems *)

LEMMA NextInv == Inv /\ [Next]_vars => Inv'
<1> SUFFICES ASSUME Inv, [Next]_vars PROVE Inv'
  OBVIOUS
<1>1. CASE UNCHANGED vars
  <2>1. TypeOK'
    BY <1>1, NextType DEF Inv
  <2>2. UNCHANGED <<setup, service, triggered, resolveKey, row, pending, tickets, lastKey,
                    excused, overtaken, revived>>
    BY <1>1 DEF vars, memory, history
  <2> QED
    BY <2>1, <2>2 DEF Inv, Phases, OneAlias, Owned, Holds, Findable, Backed, TriggeredIsOpen,
                      Waiting, Tracked, KeysAbout
<1>2. CASE Next
  <2>1. ASSUME NEW answers \in May, Load(answers) PROVE Inv'
    BY <2>1, LoadType, LoadInv DEF Inv
  <2> QED
    BY <1>2, <2>1, Cases, FireInv, TellInv, WriteInv, ResolveInv, RestartInv
<1> QED
  BY <1>1, <1>2

LEMMA Invariance == Spec => []Inv
  BY InitInv, NextInv, PTL DEF Spec

\* What is open at the service and not excused belongs to an alert that is triggered
\* or about to say that it is resolved (Notifications).
THEOREM NothingIsLeftOpen == Spec => []NothingLeftOpen
<1>1. Inv => NothingLeftOpen
  BY DEF Inv, Backed, NothingLeftOpen, Waiting
<1> QED
  BY <1>1, Invariance, PTL

\* A triggered alert has something open at the service (Notifications).
THEOREM TriggeredAlertsAreOpen == Spec => []TriggeredIsOpen
<1>1. Inv => TriggeredIsOpen
  BY DEF Inv
<1> QED
  BY <1>1, Invariance, PTL

\* An alert that is resolved with a notification has at most one ticket at the
\* services that are sent a key (Notifications).  Without the notification the
\* tickets of finished incidents stay open, and the next one adds its own.
THEOREM OneTicketPerAlert ==
  ASSUME SendOnResolved
  PROVE  Spec => []AtMostOneTicket
<1>1. Inv => AtMostOneTicket
  <2> SUFFICES ASSUME Inv, service \in {"fingerprints", "aliases", "keyed by the service"},
                      NEW a \in Alerts
               PROVE  Cardinality(KeysAbout(a, tickets) \ excused) <= 1
    BY DEF AtMostOneTicket
  <2> DEFINE keys == KeysAbout(a, tickets) \ excused
  <2>1. \E k : keys \subseteq {k}
    <3>1. ASSUME NEW t \in tickets, a \in t.about, t.key \notin excused
          PROVE  t.key = IF service = "aliases" THEN Alias ELSE resolveKey[a]
      BY <3>1 DEF Inv, OneAlias, Findable, Keyed
    <3> QED
      BY <3>1 DEF KeysAbout
  <2> HIDE DEF keys
  <2>2. PICK k : keys \subseteq {k}
    BY <2>1
  <2>3. IsFiniteSet({k}) /\ Cardinality({k}) = 1
    BY FS_Singleton
  <2>4. Cardinality(keys) <= 1
    BY <2>2, <2>3, FS_Subset
  <2> QED
    BY <2>4 DEF keys
<1> QED
  BY <1>1, Invariance, PTL
-----------------------------------------------------------------------------
(* The configuration *)

LEMMA Ranks ==
  /\ Rank("absent") = 0 /\ Rank("built-in") = 1 /\ Rank("default") = 2
  /\ Rank("group") = 3 /\ Rank("alert") = 4
  BY DEF Rank

LEMMA WrittenFacts ==
  ASSUME NEW level \in {"default", "group", "alert"}, NEW v \in Written(level)
  PROVE  /\ v.level \in {"absent", level}
         /\ Given(v) => v.level = level
         /\ v.form \in {"moved", "mistyped"} => v.level = "alert"
  BY DEF Written, FormsAt, Given, Absent, Value

LEMMA LargestElement ==
  ASSUME NEW S \in SUBSET Nat, NEW m \in S, \A n \in S : n <= m
  PROVE  Max(S) = m
<1>1. \A x \in S : (\A y \in S : x >= y) => x = m
  OBVIOUS
<1> QED
  BY <1>1 DEF Max

\* The override of the group that counts.
FirstOf(s) ==
  {j \in DOMAIN s.overrides :
     /\ s.provider.byGroup /\ s.overrides[j].group = s.group
     /\ \A k \in 1..(j - 1) : s.overrides[k].group # s.group}

LEMMA GroupCases ==
  ASSUME NEW s \in Setups, NEW config
  PROVE  \/ FirstOf(s) = {} /\ ForGroup(s.provider, config, s.overrides, s.group) = config
         \/ \E i \in DOMAIN s.overrides :
              /\ FirstOf(s) = {i} /\ s.provider.byGroup
              /\ s.overrides[i].config \in [s.provider.fields -> Written("group")]
              /\ ForGroup(s.provider, config, s.overrides, s.group)
                   = Merge(s.provider, config, s.overrides[i].config)
<1> DEFINE p == s.provider
           matching == {i \in DOMAIN s.overrides : s.overrides[i].group = s.group}
<1>1. CASE ~p.byGroup \/ matching = {}
  BY <1>1 DEF ForGroup, FirstOf
<1>2. CASE p.byGroup /\ matching # {}
  <2>1. s.overrides \in Seq([group: STRING, config: [p.fields -> Written("group")]])
    BY SetupsAssumption
  <2>2. matching \in SUBSET Nat /\ DOMAIN s.overrides \in SUBSET Nat /\ 0 \notin matching
    BY <2>1
  <2> HIDE DEF matching
  <2>3. PICK i \in matching : \A j \in matching : i <= j
    BY <1>2, <2>2, LeastElement
  <2>4. \A k \in matching : (\A j \in matching : k <= j) => k = i
    BY <2>2, <2>3
  <2> DEFINE first == CHOOSE k \in matching : \A j \in matching : k <= j
  <2>5. first = i
    BY <2>3, <2>4
  <2>6. ForGroup(p, config, s.overrides, s.group) = Merge(p, config, s.overrides[first].config)
    BY <1>2 DEF ForGroup, matching
  <2>7. FirstOf(s) = {i}
    <3>1. i \in FirstOf(s)
      <4>1. ASSUME NEW k \in 1..(i - 1) PROVE s.overrides[k].group # s.group
        <5>1. k \in DOMAIN s.overrides
          BY <2>1, <2>2, <2>3 DEF matching
        <5>2. k \notin matching
          BY <2>2, <2>3
        <5> QED
          BY <5>1, <5>2 DEF matching
      <4> QED
        BY <1>2, <2>3, <4>1 DEF FirstOf, matching
    <3>2. ASSUME NEW j \in FirstOf(s) PROVE j = i
      <4>1. j \in matching /\ \A k \in 1..(j - 1) : s.overrides[k].group # s.group
        BY DEF FirstOf, matching
      <4>2. i <= j /\ i \in 1..j /\ j \in Nat /\ s.overrides[i].group = s.group
        BY <2>2, <2>3, <4>1 DEF matching
      <4> QED
        BY <4>1, <4>2
    <3> QED
      BY <3>1, <3>2
  <2>8. i \in DOMAIN s.overrides
    BY <2>3 DEF matching
  <2>9. s.overrides[i].config \in [p.fields -> Written("group")]
    <3> DEFINE Override == [group: STRING, config: [p.fields -> Written("group")]]
    <3>1. s.overrides \in Seq(Override)
      BY <2>1
    <3> HIDE DEF Override
    <3>2. s.overrides[i] \in Override
      BY <2>8, <3>1
    <3> QED
      BY <3>2 DEF Override
  <2> QED
    BY <1>2, <2>5, <2>6, <2>7, <2>8, <2>9
<1> QED
  BY <1>1, <1>2

\* The configuration of an alert before it is completed.
Validated(s) == Completed(s.provider, s.default, NoClient)

Merged(s, a) ==
  Merge(s.provider, ForGroup(s.provider, Validated(s).values, s.overrides, s.group),
        OverrideOf(s, a))

LEMMA ConfigFacts ==
  ASSUME NEW s \in Setups, NEW a \in Alerts
  PROVE  LET p == s.provider
             merged == Merged(s, a)
             url == "repository-url"
         IN
         /\ WellFormed(p)
         /\ s.default \in [p.fields -> Written("default")]
         /\ \A f \in p.fields : s.default[f].form \notin {"moved", "mistyped"}
         /\ OverrideOf(s, a) \in [p.fields -> Written("alert")]
         /\ \A f \in p.fields :
              Validated(s).values[f] = IF Given(s.default[f]) \/ f \notin p.completed
                                       THEN s.default[f] ELSE Value("built-in", "good")
         /\ \A answers :
              /\ ConfigOf(s, a, answers).valid
                   = /\ \A f \in p.fields : OverrideOf(s, a)[f].form # "mistyped"
                     /\ Valid(p, merged)
                     /\ Asks(p, merged, Validated(s).client) => answers
              /\ \A f \in p.fields :
                   ConfigOf(s, a, answers).values[f]
                     = IF Given(merged[f]) \/ f \notin p.completed
                       THEN merged[f] ELSE Value("built-in", "good")
              /\ p.clientOf # {} =>
                   \/ /\ ConfigOf(s, a, answers).client = [f \in p.clientOf |-> s.default[f]]
                      /\ SameRepository(s.default[url], merged[url])
                   \/ ConfigOf(s, a, answers).client = [f \in p.clientOf |-> merged[f]]
         /\ Asks(p, merged, Validated(s).client) =>
              p.clientOf # {} /\ ~SameRepository(s.default[url], merged[url])
<1> DEFINE p == s.provider
           merged == Merged(s, a)
           url == "repository-url"
           kept == [f \in p.clientOf |-> s.default[f]]
<1>1. WellFormed(p)
  BY SetupsAssumption, ProvidersWellFormed
<1>2. s.default \in [p.fields -> Written("default")] /\ s.override \in [p.fields -> Written("alert")]
  BY SetupsAssumption
<1>3. \A f \in p.fields : s.default[f].form \notin {"moved", "mistyped"}
  BY <1>2, WrittenFacts
<1>4. OverrideOf(s, a) \in [p.fields -> Written("alert")]
  BY <1>2 DEF OverrideOf, NoOverride, Written
<1>5. \A f \in p.fields :
        Validated(s).values[f] = IF Given(s.default[f]) \/ f \notin p.completed
                                 THEN s.default[f] ELSE Value("built-in", "good")
  BY DEF Validated, Completed
<1>6. p.clientOf # {} => Validated(s).client = kept
  BY DEF Validated, Completed, KeepsClient
<1>7. p.clientOf # {} => kept # NoClient /\ kept[url] = s.default[url]
  <2> SUFFICES ASSUME p.clientOf # {} PROVE kept # NoClient /\ kept[url] = s.default[url]
    OBVIOUS
  <2>1. url \in p.clientOf
    BY <1>1 DEF WellFormed
  <2>2. DOMAIN kept = p.clientOf /\ DOMAIN NoClient = {}
    BY DEF NoClient
  <2> QED
    BY <2>1, <2>2
<1> HIDE DEF kept
<1>8. p.clientOf # {} =>
        (KeepsClient(merged, Validated(s).client) <=> SameRepository(s.default[url], merged[url]))
  BY <1>6, <1>7 DEF KeepsClient
<1>9. ASSUME NEW answers
      PROVE  LET config == Completed(p, merged, Validated(s).client)
             IN ConfigOf(s, a, answers)
                  = [valid |-> /\ \A f \in p.fields : OverrideOf(s, a)[f].form # "mistyped"
                               /\ Valid(p, merged)
                               /\ Asks(p, merged, Validated(s).client) => answers,
                     values |-> config.values, client |-> config.client]
  BY DEF ConfigOf, GetConfig, Validated, Merged
<1>10. ASSUME NEW answers
       PROVE  /\ \A f \in p.fields :
                   ConfigOf(s, a, answers).values[f]
                     = IF Given(merged[f]) \/ f \notin p.completed
                       THEN merged[f] ELSE Value("built-in", "good")
              /\ p.clientOf # {} =>
                   ConfigOf(s, a, answers).client
                     = IF KeepsClient(merged, Validated(s).client)
                       THEN Validated(s).client ELSE [f \in p.clientOf |-> merged[f]]
  BY <1>9 DEF Completed
<1>11. ASSUME NEW answers, p.clientOf # {}
       PROVE  \/ ConfigOf(s, a, answers).client = kept /\ SameRepository(s.default[url], merged[url])
              \/ ConfigOf(s, a, answers).client = [f \in p.clientOf |-> merged[f]]
  BY <1>6, <1>8, <1>10, <1>11
<1>12. Asks(p, merged, Validated(s).client) =>
         p.clientOf # {} /\ ~SameRepository(s.default[url], merged[url])
  BY <1>8 DEF Asks
<1>13. ASSUME NEW answers
       PROVE  ConfigOf(s, a, answers).valid
                = /\ \A f \in p.fields : OverrideOf(s, a)[f].form # "mistyped"
                  /\ Valid(p, merged)
                  /\ Asks(p, merged, Validated(s).client) => answers
  <2> DEFINE ok == /\ \A f \in p.fields : OverrideOf(s, a)[f].form # "mistyped"
                   /\ Valid(p, merged)
                   /\ Asks(p, merged, Validated(s).client) => answers
             config == Completed(p, merged, Validated(s).client)
  <2>1. ConfigOf(s, a, answers) = [valid |-> ok, values |-> config.values, client |-> config.client]
    BY <1>9
  <2> HIDE DEF ok, config
  <2>2. ConfigOf(s, a, answers).valid = ok
    BY <2>1
  <2> QED
    BY <2>2 DEF ok
<1> QED
  BY <1>1, <1>2, <1>3, <1>4, <1>5, <1>10, <1>11, <1>12, <1>13, Zenon DEF kept

\* The values that count for a field.
ThatCount(s, a, f) == {v \in Candidates(s, a, f) : ~Overlooked(s.provider, f, v)}

\* A merged value is the nearest of those that count, or the one that was there or
\* is filled in.
LEMMA MergedFacts ==
  ASSUME NEW s \in Setups, NEW a \in Alerts, NEW f \in s.provider.fields
  PROVE  LET p == s.provider
             d == s.default[f]
             merged == Merged(s, a)[f]
             counting == ThatCount(s, a, f)
         IN /\ Candidates(s, a, f) \subseteq
                 Written("default") \union Written("group") \union Written("alert")
            /\ \/ /\ merged \in counting
                  /\ \A v \in counting : Rank(v.level) <= Rank(merged.level)
               \/ /\ counting = {} /\ ~Given(d)
                  /\ merged = IF f \in p.completed THEN Value("built-in", "good") ELSE d
            /\ merged # Validated(s).values[f] =>
                 \E v \in Candidates(s, a, f) : v = merged /\ Rank(v.level) > Rank("default")
<1> DEFINE p == s.provider
           d == s.default[f]
           o == OverrideOf(s, a)[f]
           values == Candidates(s, a, f)
           counting == ThatCount(s, a, f)
           Counts(v) == Given(v) /\ ~(f \in p.nonnegative /\ v.form = "low")
           base == IF Given(d) \/ f \notin p.completed THEN d ELSE Value("built-in", "good")
           merged == Merged(s, a)[f]
<1>1. /\ d \in Written("default") /\ o \in Written("alert")
      /\ Validated(s).values[f] = base
  BY ConfigFacts
<1>2. PICK groups :
        /\ values = {d, o} \union groups
        /\ \/ groups = {} /\ merged = IF Counts(o) THEN o ELSE base
           \/ \E g \in Written("group") :
                /\ groups = {g}
                /\ merged = IF Counts(o) THEN o ELSE IF Counts(g) THEN g ELSE base
  <2> DEFINE groups == {s.overrides[i].config[f] : i \in FirstOf(s)}
             below == ForGroup(p, Validated(s).values, s.overrides, s.group)
  <2>1. values = {d, o} \union groups
    BY DEF Candidates, FirstOf
  <2>2. merged = IF Counts(o) THEN o ELSE below[f]
    BY DEF Merged, Merge
  <2>3. CASE FirstOf(s) = {} /\ below = Validated(s).values
    BY <1>1, <2>1, <2>2, <2>3
  <2>4. CASE \E i \in DOMAIN s.overrides :
               /\ FirstOf(s) = {i}
               /\ s.overrides[i].config \in [p.fields -> Written("group")]
               /\ below = Merge(p, Validated(s).values, s.overrides[i].config)
    <3>1. PICK i \in DOMAIN s.overrides :
            /\ FirstOf(s) = {i}
            /\ s.overrides[i].config \in [p.fields -> Written("group")]
            /\ below = Merge(p, Validated(s).values, s.overrides[i].config)
      BY <2>4
    <3> DEFINE g == s.overrides[i].config[f]
    <3>2. groups = {g} /\ g \in Written("group")
      BY <3>1
    <3>3. below[f] = IF Counts(g) THEN g ELSE base
      BY <1>1, <3>1 DEF Merge
    <3> QED
      BY <2>1, <2>2, <3>2, <3>3
  <2> QED
    BY <2>3, <2>4, GroupCases
<1>3. counting = {v \in values : Given(v) /\ ~(f \in p.nonnegative /\ v.form = "low"
                                               /\ v.level # "default")}
  BY DEF ThatCount, Overlooked
<1>4. /\ Given(d) => d.level = "default"
      /\ Given(o) => o.level = "alert"
      /\ \A g \in Written("group") : Given(g) => g.level = "group"
  BY <1>1, WrittenFacts
<1> HIDE DEF d, o, values, merged, counting
<1>5. values \subseteq Written("default") \union Written("group") \union Written("alert")
  BY <1>1, <1>2
<1>6. \/ merged \in counting /\ \A v \in counting : Rank(v.level) <= Rank(merged.level)
      \/ counting = {} /\ ~Given(d) /\ merged = base
  <2>1. CASE Counts(o)
    <3>1. merged = o /\ merged \in counting
      BY <1>2, <1>3, <2>1
    <3>2. \A v \in values : v.level \in {"absent", "default", "group", "alert"}
      BY <1>5, WrittenFacts
    <3> QED
      BY <1>3, <1>4, <2>1, <3>1, <3>2, Ranks
  <2>2. CASE ~Counts(o) /\ \E g \in Written("group") : values = {d, o, g} /\ Counts(g) /\ merged = g
    BY <1>3, <1>4, <2>2, Ranks
  <2>3. CASE ~Counts(o) /\ merged = base /\ \A v \in values \ {d} : ~Counts(v) /\ (Given(v) => v.level # "default")
    <3>1. \A v \in counting : v = d
      BY <1>3, <2>3
    <3>2. CASE Given(d)
      <4>1. d \in counting
        BY <1>2, <1>3, <1>4, <3>2
      <4>2. merged = d
        BY <2>3, <3>2
      <4> QED
        BY <1>4, <3>1, <3>2, <4>1, <4>2, Ranks
    <3>3. CASE ~Given(d)
      <4>1. counting = {}
        BY <1>3, <3>1, <3>3
      <4> QED
        BY <2>3, <3>3, <4>1
    <3> QED
      BY <3>2, <3>3
  <2>4. CASE ~Counts(o) /\ ~ \E g \in Written("group") : values = {d, o, g} /\ Counts(g) /\ merged = g
    <3>1. merged = base
      BY <1>2, <2>4
    <3>2. \A v \in values \ {d} : ~Counts(v)
      BY <1>2, <2>4
    <3>3. \A v \in values \ {d} : Given(v) => v.level # "default"
      BY <1>2, <1>4
    <3> QED
      BY <2>3, <2>4, <3>1, <3>2, <3>3
  <2> QED
    BY <2>1, <2>2, <2>4
<1>7. merged # base => \E v \in values : v = merged /\ Rank(v.level) > Rank("default")
  <2>1. merged # base => merged \in values /\ merged.level \in {"group", "alert"}
    BY <1>2, <1>4
  <2> QED
    BY <2>1, Ranks
<1> QED
  BY <1>1, <1>5, <1>6, <1>7 DEF d, values, merged, counting

\* The repository of an alert of an issue tracker is the one of its override.
LEMMA RepositoryOf ==
  ASSUME NEW s \in Setups, NEW a \in Alerts, s.provider.clientOf # {}
  PROVE  LET url == "repository-url"
             o == OverrideOf(s, a)[url]
             d == s.default[url]
         IN /\ Merged(s, a)[url] = IF Given(o) THEN o ELSE d
            /\ SameRepository(d, IF Given(o) THEN o ELSE d) <=> (~Given(o) \/ o.form = "moved")
<1> DEFINE p == s.provider
           url == "repository-url"
           o == OverrideOf(s, a)[url]
           d == s.default[url]
<1>1. WellFormed(p) /\ url \in p.fields /\ url \notin p.nonnegative /\ url \notin p.completed
      /\ ~p.byGroup
  BY ConfigFacts DEF WellFormed
<1>2. /\ d \in Written("default") /\ o \in Written("alert") /\ Validated(s).values[url] = d
      /\ d.form # "moved"
  BY <1>1, ConfigFacts
<1>3. Merged(s, a)[url] = IF Given(o) THEN o ELSE d
  BY <1>1, <1>2 DEF Merged, Merge, ForGroup
<1>4. Given(o) => d # o
  BY <1>2, WrittenFacts
<1>5. Given(o) => (SameRepository(d, o) <=> o.form = "moved")
  BY <1>2, <1>4 DEF SameRepository
<1>6. SameRepository(d, d)
  BY DEF SameRepository
<1> HIDE DEF d, o
<1>7. SameRepository(d, IF Given(o) THEN o ELSE d) <=> (~Given(o) \/ o.form = "moved")
  BY <1>5, <1>6
<1> QED
  BY <1>3, <1>7 DEF d, o

\* The configuration of an alert, field by field.
LEMMA NearestIsUsed ==
  ASSUME TypeOK
  PROVE  OverridesTakeEffect
<1> SUFFICES ASSUME setup # NoSetup, NEW a \in Alerts, NEW f \in setup.provider.fields
             PROVE  LET ranks == {Rank(v.level) : v \in ThatCount(setup, a, f)}
                        used == InUse(setup, a, f)
                    IN \/ used = Max(ranks \union {IF f \in setup.provider.completed
                                                   THEN 1 ELSE 0})
                       \/ /\ f \in setup.provider.clientOf
                          /\ used = RankInUse(setup.default[f])
                          /\ OverrideOf(setup, a)["repository-url"].form = "moved"
                               \/ ~Given(OverrideOf(setup, a)["repository-url"])
  BY DEF OverridesTakeEffect, ThatCount
<1> DEFINE p == setup.provider
           m == Merged(setup, a)[f]
           counting == ThatCount(setup, a, f)
           least == IF f \in p.completed THEN 1 ELSE 0
           ranks == {Rank(v.level) : v \in counting} \union {least}
           Completing(v) == IF Given(v) \/ f \notin p.completed
                            THEN v ELSE Value("built-in", "good")
<1>1. setup \in Setups
  BY DEF TypeOK
<1>2. RankInUse(Completing(m)) = Max(ranks)
  <2>1. ASSUME NEW v \in counting
        PROVE  Given(v) /\ Rank(v.level) \in Nat /\ Rank(v.level) >= 2
    <3>1. v \in Written("default") \union Written("group") \union Written("alert") /\ Given(v)
      BY <1>1, MergedFacts DEF ThatCount, Overlooked
    <3>2. v.level \in {"default", "group", "alert"}
      BY <3>1, WrittenFacts
    <3> QED
      BY <3>1, <3>2, Ranks
  <2>2. ranks \in SUBSET Nat
    BY <2>1
  <2>3. CASE m \in counting /\ \A v \in counting : Rank(v.level) <= Rank(m.level)
    <3>1. RankInUse(Completing(m)) = Rank(m.level) /\ Rank(m.level) \in ranks
      BY <2>1, <2>3 DEF RankInUse
    <3>2. \A r \in ranks : r <= Rank(m.level)
      BY <2>1, <2>3
    <3> HIDE DEF ranks, m
    <3> QED
      BY <2>2, <3>1, <3>2, LargestElement
  <2>4. CASE /\ counting = {} /\ ~Given(setup.default[f])
             /\ m = IF f \in p.completed THEN Value("built-in", "good") ELSE setup.default[f]
    <3>1. ranks = {least} /\ least \in Nat
      BY <2>4
    <3>2. RankInUse(Completing(m)) = least
      BY <2>4, Ranks DEF RankInUse, Given, Value
    <3>3. Max({least}) = least
      <4> HIDE DEF least
      <4> QED
        BY <3>1, LargestElement
    <3> QED
      BY <3>1, <3>2, <3>3
  <2> QED
    BY <1>1, <2>3, <2>4, MergedFacts
<1>3. CASE f \notin p.clientOf
  <2>1. InUse(setup, a, f) = RankInUse(Completing(m))
    BY <1>1, <1>3, ConfigFacts DEF InUse
  <2> QED
    BY <1>2, <2>1
<1>4. CASE f \in p.clientOf
  <2> DEFINE client == ConfigOf(setup, a, TRUE).client
             url == "repository-url"
  <2>1. WellFormed(p) /\ p.clientOf # {}
    BY <1>1, <1>4, ConfigFacts
  <2>2. InUse(setup, a, f) = RankInUse(client[f])
    BY <1>4 DEF InUse
  <2>3. CASE client = [g \in p.clientOf |-> Merged(setup, a)[g]]
    <3>1. f \notin p.completed
      BY <1>4, <2>1 DEF WellFormed
    <3>2. client[f] = Completing(m)
      BY <1>4, <2>3, <3>1
    <3> QED
      BY <1>2, <2>2, <3>2
  <2>4. CASE /\ client = [g \in p.clientOf |-> setup.default[g]]
             /\ SameRepository(setup.default[url], Merged(setup, a)[url])
    <3>1. client[f] = setup.default[f]
      BY <1>4, <2>4
    <3>2. ~Given(OverrideOf(setup, a)[url]) \/ OverrideOf(setup, a)[url].form = "moved"
      BY <1>1, <2>1, <2>4, RepositoryOf
    <3> QED
      BY <1>4, <2>2, <3>1, <3>2
  <2>5. \/ client = [g \in p.clientOf |-> Merged(setup, a)[g]]
        \/ /\ client = [g \in p.clientOf |-> setup.default[g]]
           /\ SameRepository(setup.default[url], Merged(setup, a)[url])
    BY <1>1, <2>1, ConfigFacts, Zenon
  <2> QED
    BY <2>3, <2>4, <2>5
<1> QED
  BY <1>3, <1>4

\* What a notification is sent with is what was written nearest to the alert, except
\* for zeros and for clients that are kept (Notifications).
THEOREM NearestOverrideIsUsed == Spec => []OverridesTakeEffect
  BY TypeCorrect, NearestIsUsed, PTL

LEMMA RefusalHasAReason ==
  ASSUME TypeOK
  PROVE  RefusedForAReason
<1> SUFFICES ASSUME setup # NoSetup, Valid(setup.provider, setup.default),
                    NEW answers \in BOOLEAN, NEW a \in Alerts, ~ConfigOf(setup, a, answers).valid
             PROVE  \/ \E f \in setup.provider.fields :
                         \E v \in Candidates(setup, a, f) :
                           /\ ~Overlooked(setup.provider, f, v)
                           /\ v.form \in setup.provider.malformed[f] \union {"mistyped"}
                    \/ \E f \in setup.provider.together :
                         \E v \in Candidates(setup, a, f) : Rank(v.level) > Rank("default")
                    \/ /\ setup.provider.clientOf # {} /\ ~answers
                       /\ Given(OverrideOf(setup, a)["repository-url"])
                       /\ OverrideOf(setup, a)["repository-url"].form # "moved"
  BY DEF RefusedForAReason, Accepted
<1> DEFINE p == setup.provider
           m == Merged(setup, a)
           d == setup.default
<1>1. setup \in Setups
  BY DEF TypeOK
<1>2. /\ WellFormed(p)
      /\ \/ \E f \in p.fields : OverrideOf(setup, a)[f].form = "mistyped"
         \/ ~Valid(p, m)
         \/ Asks(p, m, Validated(setup).client) /\ ~answers
  BY <1>1, ConfigFacts
<1>3. CASE \E f \in p.required : ~Given(m[f])
  <2>1. PICK f \in p.required : ~Given(m[f])
    BY <1>3
  <2>2. f \in p.fields /\ Given(d[f])
    BY <1>2, <2>1 DEF WellFormed, Valid
  <2>3. m[f] \in ThatCount(setup, a, f)
    BY <1>1, <2>2, MergedFacts
  <2> QED
    BY <2>1, <2>3 DEF ThatCount, Overlooked
<1>4. CASE \E f \in p.fields : Given(m[f]) /\ m[f].form \in p.malformed[f]
  <2>1. PICK f \in p.fields : Given(m[f]) /\ m[f].form \in p.malformed[f]
    BY <1>4
  <2>2. "good" \notin p.malformed[f]
    BY <1>2 DEF WellFormed
  <2>3. m[f] \in ThatCount(setup, a, f)
    <3>1. m[f] # Value("built-in", "good")
      BY <2>1, <2>2 DEF Value
    <3> QED
      BY <1>1, <2>1, <3>1, MergedFacts
  <2> QED
    BY <2>1, <2>3 DEF ThatCount
<1>5. CASE \E f, g \in p.together : Given(m[f]) # Given(m[g])
  <2>1. PICK f, g \in p.together : Given(m[f]) # Given(m[g])
    BY <1>5
  <2>2. Given(d[f]) = Given(d[g])
    BY DEF Valid
  <2>3. ASSUME NEW h \in p.together PROVE h \in p.fields /\ Validated(setup).values[h] = d[h]
    <3>1. h \in p.fields /\ h \notin p.completed
      BY <1>2 DEF WellFormed
    <3> QED
      BY <1>1, <3>1, ConfigFacts
  <2>4. \E h \in {f, g} : m[h] # Validated(setup).values[h]
    <3> SUFFICES ASSUME m[f] = d[f], m[g] = d[g] PROVE FALSE
      BY <2>3
    <3> QED
      BY <2>1, <2>2
  <2>5. PICK h \in {f, g} : m[h] # Validated(setup).values[h]
    BY <2>4
  <2>6. h \in p.together /\ h \in p.fields
    BY <2>3, <2>5
  <2>7. \E v \in Candidates(setup, a, h) : Rank(v.level) > Rank("default")
    BY <1>1, <2>5, <2>6, MergedFacts
  <2> QED
    BY <2>6, <2>7
<1>6. CASE \E f \in p.fields : OverrideOf(setup, a)[f].form = "mistyped"
  <2>1. PICK f \in p.fields : OverrideOf(setup, a)[f].form = "mistyped"
    BY <1>6
  <2> DEFINE o == OverrideOf(setup, a)[f]
  <2>2. o \in Candidates(setup, a, f) /\ o \in Written("alert")
    BY <1>1, ConfigFacts DEF Candidates
  <2>3. ~Overlooked(p, f, o)
    BY <2>1, <2>2, WrittenFacts DEF Overlooked, Given
  <2> QED
    BY <2>1, <2>2, <2>3
<1>7. CASE Asks(p, m, Validated(setup).client) /\ ~answers
  BY <1>1, <1>7, ConfigFacts, RepositoryOf
<1> QED
  BY <1>2, <1>3, <1>4, <1>5, <1>6, <1>7 DEF Valid

\* An accepted provider refuses an alert only for what an override says, or because
\* the tracker of another repository did not answer (Notifications).
THEOREM RefusalsHaveReasons == Spec => []RefusedForAReason
  BY TypeCorrect, RefusalHasAReason, PTL
=============================================================================
