----------------------------- MODULE Notifications -----------------------------
(***************************************************************************)
(* What the notifications of an endpoint leave behind at the service they    *)
(* are sent to: two or more alerts of one provider, the configuration they    *)
(* are sent with, the issue, incident or alert that the service keeps open     *)
(* (a ticket), and the key by which the resolved notification has to find it.  *)
(* Alert.ResolveKey lives in memory and, with the row of the triggered alert,   *)
(* in the storage.  When an alert triggers is the subject of Alerting; here it   *)
(* does so at any time.                                                          *)
(***************************************************************************)
EXTENDS Providers, FiniteSets, FiniteSetsExt

CONSTANTS
  Alerts,         \* the alerts of the endpoint, all of one type
  Overriding,     \* the one of them that has a provider-override
  Setups,         \* the configurations that may be loaded
  SendOnResolved, \* Alert.IsSendingOnResolved
  PageSize,       \* how many open issues one request lists
  Faults,         \* whether requests, writes and the process may fail
  MaxKeys,        \* bound: keys that services and gatus make up
  MaxCrashes      \* bound: stops of the process

ASSUME NotificationsAssumption ==
  /\ Overriding \in Alerts /\ IsFiniteSet(Alerts)
  /\ SendOnResolved \in BOOLEAN /\ Faults \in BOOLEAN
  /\ PageSize \in Nat \ {0} /\ MaxKeys \in Nat /\ MaxCrashes \in Nat

NoKey == 0

\* The alias Opsgenie alerts get from the name of the endpoint.
Alias == 1

Keys == NoKey..(MaxKeys + 1)

Services == {"ignored", "messages", "issues", "fingerprints", "aliases", "incidents",
             "keyed by the service"}

\* Services whose tickets belong to the endpoint, and not to one alert of it.
SharedByAlerts == {"issues", "aliases"}

NoSetup == <<>>

\* What may be written at a level.
Written(level) == {Absent} \union [level: {level}, form: FormsAt(level)]

ASSUME SetupsAssumption ==
  \A s \in Setups :
    LET fields == s.provider.fields IN
    /\ s.provider \in Providers
    /\ s.default \in [fields -> Written("default")]
    /\ s.overrides \in Seq([group: STRING, config: [fields -> Written("group")]])
    /\ s.override \in [fields -> Written("alert")]

VARIABLES
  setup,       \* the configuration, until it is loaded
  service,     \* the service of the provider
  refuses,     \* the alerts GetConfig returns an error for at any time
  elsewhere,   \* the alerts whose issues are in a repository of their own
  dropped,     \* whether this process has set the tracker it could not ask to nil
  triggered,   \* Alert.Triggered
  resolveKey,  \* Alert.ResolveKey
  row,         \* the row of the triggered alert
  pending,     \* what the handler of an alert does next: write its row, or tell
               \* the service that it is resolved
  tickets,     \* what is open at the service
  lastKey      \* the last key that was made up

\* History, which no step of the code reads.
VARIABLES
  excused,     \* the tickets a known fault may leave open
  overtaken,   \* the alerts whose ticket the resolution of another one closed
  revived,     \* the alerts whose row outlived them
  crashes

memory == <<triggered, resolveKey>>
history == <<excused, overtaken, revived, crashes>>
vars == <<setup, service, refuses, elsewhere, dropped, memory, row, pending, tickets, lastKey, history>>

NoRow == [saved |-> FALSE, key |-> NoKey]

Init ==
  /\ setup \in Setups
  /\ service = "ignored" /\ refuses = {} /\ elsewhere = {} /\ dropped = FALSE
  /\ triggered = {} /\ resolveKey = [a \in Alerts |-> NoKey]
  /\ row = [a \in Alerts |-> NoRow] /\ pending = {}
  /\ tickets = {} /\ lastKey = Alias
  /\ excused = {} /\ overtaken = {} /\ revived = {} /\ crashes = 0
-----------------------------------------------------------------------------
(* The configuration *)

NoOverride(p) == [f \in p.fields |-> Absent]

OverrideOf(s, a) == IF a = Overriding THEN s.override ELSE NoOverride(s.provider)

ConfigOf(s, a, answers) ==
  GetConfig(s.provider, s.default, s.overrides, s.group, OverrideOf(s, a), answers)

May == IF Faults THEN BOOLEAN ELSE {TRUE}

\* validateAlertingConfig.  Issue trackers are asked who they are; one that does
\* not answer now is ignored until the process starts again.  The overrides of
\* an alert are only warned about.
Load(answers) ==
  /\ setup # NoSetup
  /\ service' = IF Accepted(setup.provider, setup.default, setup.overrides)
                THEN setup.provider.service ELSE "ignored"
  /\ dropped' = (service' = "issues" /\ ~answers)
  /\ refuses' = {a \in Alerts : ~ConfigOf(setup, a, TRUE).valid}
  /\ elsewhere' = {a \in Alerts \ refuses' : ~ConfigOf(setup, a, FALSE).valid}
  /\ setup' = NoSetup
  /\ UNCHANGED <<memory, row, pending, tickets, lastKey, history>>
-----------------------------------------------------------------------------
(* What a notification does at the service, and to the key *)

\* The answers: the service does as asked; it refuses, or GetConfig has to ask it
\* and it does not answer; it does as asked and the answer is lost; it does as
\* asked and the body of the answer cannot be read.
Answers == {"accepted", "refused", "lost", "unreadable"}

AnswersOf(s) ==
  IF ~Faults THEN {"accepted"}
  ELSE IF s \in {"incidents", "keyed by the service"} THEN Answers
  ELSE Answers \ {"unreadable"}

Done(answer) == answer # "refused"

\* The key a triggered notification arrives under: issues and incidents are new
\* ones each time; GitLab and incident.io are sent the key of the alert, made up by
\* gatus (before the request) or by the service when there is none.
FiringKey(s, a) ==
  IF s \in {"issues", "incidents"} THEN lastKey + 1
  ELSE IF s = "aliases" THEN Alias
  ELSE IF resolveKey[a] = NoKey THEN lastKey + 1 ELSE resolveKey[a]

\* The service recognises a key that is open.
Opened(key, a) ==
  {IF t.key = key THEN [t EXCEPT !.about = @ \union {a}] ELSE t : t \in tickets}
    \union (IF \E t \in tickets : t.key = key THEN {} ELSE {[key |-> key, about |-> {a}]})

\* Alert.ResolveKey after a triggered notification.
KeyAfterFiring(s, a, answer) ==
  LET key == FiringKey(s, a) IN
  CASE s = "fingerprints" -> key
    [] s \in {"aliases", "incidents"} ->
         IF answer = "accepted" /\ SendOnResolved THEN key ELSE resolveKey[a]
    [] s = "keyed by the service" ->
         IF answer = "accepted" THEN key
         ELSE IF answer = "unreadable" THEN NoKey ELSE resolveKey[a]
    [] OTHER -> resolveKey[a]

\* Mutant: the status of the answer is not looked at.
SucceedsAnyway(s, answer) == answer # "lost"

\* Whether Send returns nil: PagerDuty overlooks an answer it cannot read,
\* incident.io returns the error.
Succeeds(s, answer) ==
  answer = "accepted" \/ (answer = "unreadable" /\ s = "incidents")

\* The issues of the endpoint in the repository of an alert.
IssuesFor(a) == {t \in tickets : (t.about \subseteq elsewhere) = (a \in elsewhere)}

\* The first page of the open issues of the user, the newest first, whatever they
\* are about: those of the endpoint it shows are the newest ones, and as many as
\* the issues about anything else leave room for.
Pages(a) ==
  {shown \in SUBSET IssuesFor(a) :
     /\ Cardinality(shown) <= PageSize
     /\ \A t \in shown : \A u \in IssuesFor(a) : u.key > t.key => u \in shown}

\* Mutant: only the newest issue is closed.
NewestIssue(s, a, shown) == {t \in shown : s # "issues" \/ t.key = lastKey}

\* The tickets a resolved notification is about: the issues of the endpoint on the
\* page; the alias; the key of the alert.
Closing(s, a, shown) ==
  CASE s = "issues" -> shown
    [] s = "aliases" -> {t \in tickets : t.key = Alias}
    [] OTHER -> {t \in tickets : t.key = resolveKey[a]}

\* What may be open after it.  Issues are closed one by one; an Opsgenie alert is
\* written to, which opens it when it is closed, and then closed.
AfterResolved(s, a, answer, shown) ==
  IF answer # "refused"
  THEN IF s = "issues" /\ answer = "lost"
       THEN {tickets \ some : some \in SUBSET Closing(s, a, shown)}
       ELSE {tickets \ Closing(s, a, shown)}
  ELSE IF s = "aliases" THEN {tickets, Opened(Alias, a)} ELSE {tickets}

\* Alert.ResolveKey after a resolved notification.  GitLab and incident.io keep
\* theirs.
KeyAfterResolved(s, a, answer) ==
  IF s \in {"aliases", "incidents"}
  THEN IF Succeeds(s, answer) THEN NoKey ELSE resolveKey[a]
  ELSE KeyAfterFiring(s, a, answer)

\* PagerDuty refuses to resolve an incident without a key; a provider that is nil
\* is not sent anything.
AnswersToResolved(s, a) ==
  IF dropped \/ (s = "incidents" /\ resolveKey[a] = NoKey) THEN {"refused"} ELSE AnswersOf(s)

Tracked == service \notin {"ignored", "messages"}

KeysAbout(a, open) == {t.key : t \in {u \in open : a \in u.about}}

\* An excuse ends with its ticket.
Excuse(keys) == excused' = (excused \union keys) \intersect {t.key : t \in tickets'}

LastKey(key) == IF key > lastKey THEN key ELSE lastKey
-----------------------------------------------------------------------------
(* The handlers, of which Alerting is the whole *)

\* handleAlertsToTrigger: the initial notification, or a reminder.
Fire(a, answer) ==
  LET key == FiringKey(service, a) IN
  /\ setup = NoSetup /\ service # "ignored" /\ ~dropped /\ a \notin refuses /\ pending = {}
  /\ key <= MaxKeys + 1
  /\ answer \in AnswersOf(service)
  /\ tickets' = IF Tracked /\ Done(answer) THEN Opened(key, a) ELSE tickets
  /\ resolveKey' = [resolveKey EXCEPT ![a] = KeyAfterFiring(service, a, answer)]
  /\ lastKey' = IF Tracked THEN LastKey(key) ELSE lastKey
  /\ IF Succeeds(service, answer)
     THEN triggered' = triggered \union {a} /\ pending' = {<<a, "write">>}
     ELSE UNCHANGED <<triggered, pending>>
  /\ Excuse((IF Done(answer) /\ answer # "accepted" THEN {key} ELSE {})
            \union (IF service = "incidents" /\ answer = "accepted"
                     THEN {resolveKey[a]} ELSE {}))
  /\ overtaken' = IF Done(answer) THEN overtaken \ {a} ELSE overtaken
  /\ UNCHANGED <<setup, service, refuses, elsewhere, dropped, row, revived, crashes>>

\* Mutant: the row is written without the key.
RowWithoutKey(a) == [saved |-> TRUE, key |-> NoKey]

RowOf(a) == [saved |-> TRUE, key |-> resolveKey[a]]

\* UpsertTriggeredEndpointAlert after an accepted notification.
Write(a, written) ==
  /\ <<a, "write">> \in pending
  /\ row' = IF written THEN [row EXCEPT ![a] = RowOf(a)] ELSE row
  /\ pending' = {}
  /\ UNCHANGED tickets
  /\ Excuse(IF written THEN {} ELSE KeysAbout(a, tickets))
  /\ UNCHANGED <<setup, service, refuses, elsewhere, dropped, memory, lastKey, overtaken, revived, crashes>>

\* handleAlertsToResolve: the alert and its row are gone before the service is told.
Resolve(a, deleted) ==
  /\ setup = NoSetup /\ pending = {} /\ a \in triggered
  /\ triggered' = triggered \ {a}
  /\ row' = IF deleted THEN [row EXCEPT ![a] = NoRow] ELSE row
  /\ pending' = IF SendOnResolved THEN {<<a, "tell">>} ELSE {}
  /\ revived' = revived \ {a}
  /\ UNCHANGED <<setup, service, refuses, elsewhere, dropped, resolveKey, tickets, lastKey, excused,
                 overtaken, crashes>>

\* The resolved notification.  It is not sent again, whatever the answer.
Tell(a, answer, shown) ==
  /\ <<a, "tell">> \in pending
  /\ answer \in AnswersToResolved(service, a)
  /\ FiringKey(service, a) <= MaxKeys + 1 \/ service \in {"issues", "incidents"}
  /\ tickets' \in IF Tracked THEN AfterResolved(service, a, answer, shown) ELSE {tickets}
  /\ resolveKey' = [resolveKey EXCEPT ![a] = KeyAfterResolved(service, a, answer)]
  /\ lastKey' = IF service \in {"fingerprints", "keyed by the service"}
                THEN LastKey(FiringKey(service, a)) ELSE lastKey
  /\ pending' = {}
  /\ Excuse(IF answer # "accepted" THEN KeysAbout(a, tickets')
            ELSE IF service = "issues" THEN KeysAbout(a, tickets \ shown) ELSE {})
  /\ overtaken' = overtaken \union
                    {b \in triggered : KeysAbout(b, tickets) # {} /\ KeysAbout(b, tickets') = {}}
  /\ UNCHANGED <<setup, service, refuses, elsewhere, dropped, triggered, row, revived, crashes>>

\* The process stops and starts again: the tracker is asked again, and
\* initializeStorage reads the rows.  The default alert of a provider that is
\* ignored is not merged into the alerts; where their checksums change with that,
\* the rows are deleted.
Restart(answers, kept) ==
  /\ setup = NoSetup /\ crashes < MaxCrashes
  /\ crashes' = crashes + 1
  /\ dropped' = (service = "issues" /\ ~answers)
  /\ dropped' \/ kept = Alerts
  /\ row' = [a \in Alerts |-> IF a \in kept THEN row[a] ELSE NoRow]
  /\ triggered' = {a \in Alerts : row'[a].saved}
  /\ resolveKey' = [a \in Alerts |-> row'[a].key]
  /\ pending' = {}
  /\ UNCHANGED tickets
  /\ Excuse(UNION {KeysAbout(a, tickets) :
                     a \in {p[1] : p \in pending} \union {b \in Alerts : row[b] # row'[b]}})
  /\ revived' = revived \union (triggered' \ triggered)
  /\ UNCHANGED <<setup, service, refuses, elsewhere, lastKey, overtaken>>

Next ==
  \/ \E answers \in May : Load(answers)
  \/ \E a \in Alerts :
       \/ \E answer \in Answers :
            Fire(a, answer) \/ (\E shown \in Pages(a) : Tell(a, answer, shown))
       \/ \E ok \in May : Write(a, ok) \/ Resolve(a, ok)
  \/ \E answers \in May, kept \in SUBSET Alerts : Restart(answers, kept)

Spec == Init /\ [][Next]_vars
-----------------------------------------------------------------------------
(* Properties *)

TypeOK ==
  /\ setup = NoSetup \/ setup \in Setups
  /\ service \in Services
  /\ refuses \subseteq Alerts /\ triggered \subseteq Alerts
  /\ elsewhere \subseteq Alerts /\ dropped \in BOOLEAN
  /\ resolveKey \in [Alerts -> Keys]
  /\ row \in [Alerts -> [saved: BOOLEAN, key: Keys]]
  /\ pending \subseteq Alerts \X {"write", "tell"}
  /\ \A p, q \in pending : p = q
  /\ tickets \subseteq [key: Keys \ {NoKey}, about: SUBSET Alerts]
  /\ \A t, u \in tickets : t.key = u.key => t = u
  /\ lastKey \in Alias..(MaxKeys + 1)
  /\ excused \subseteq Keys /\ overtaken \subseteq Alerts /\ revived \subseteq Alerts
  /\ crashes \in 0..MaxCrashes

\* The values that may be in use for a field, without the order in which the code
\* merges them.  Of several overrides of a group, which only the provider custom
\* takes, the first one counts.
Candidates(s, a, f) ==
  {s.default[f], OverrideOf(s, a)[f]}
    \union {s.overrides[i].config[f] :
              i \in {j \in DOMAIN s.overrides :
                       /\ s.provider.byGroup /\ s.overrides[j].group = s.group
                       /\ \A k \in 1..(j - 1) : s.overrides[k].group # s.group}}

\* The values that count for nothing wherever they are written: zeros, and in
\* overrides numbers below zero for fields that only take others.
Overlooked(p, f, v) ==
  ~Given(v) \/ (f \in p.nonnegative /\ v.form = "low" /\ v.level # "default")

RankInUse(v) == IF Given(v) THEN Rank(v.level) ELSE 0

InUse(s, a, f) ==
  LET config == ConfigOf(s, a, TRUE)
  IN RankInUse(IF f \in s.provider.clientOf THEN config.client[f] ELSE config.values[f])

\* What a notification is sent with is, field by field, what was written nearest to
\* the alert: in its own override, else for its group, else for the provider, else
\* the built-in value (GetConfig, and the kept clients of the issue trackers).
\* There are two exceptions.  A zero, a false or an empty value does not override
\* what was written further off (Merge, as in pushover.go, lines 95 to 100); and a
\* client is kept when the override says nothing of another repository.
OverridesTakeEffect ==
  setup # NoSetup /\ Accepted(setup.provider, setup.default, setup.overrides) =>
    \A a \in {b \in Alerts : ConfigOf(setup, b, TRUE).valid} : \A f \in setup.provider.fields :
      LET written == {v \in Candidates(setup, a, f) : ~Overlooked(setup.provider, f, v)}
          ranks == {Rank(v.level) : v \in written}
      IN \/ InUse(setup, a, f) = Max(ranks \union {IF f \in setup.provider.completed THEN 1 ELSE 0})
         \/ /\ f \in setup.provider.clientOf /\ InUse(setup, a, f) = RankInUse(setup.default[f])
            /\ OverrideOf(setup, a)["repository-url"].form = "moved"
                 \/ ~Given(OverrideOf(setup, a)["repository-url"])

\* Every error of GetConfig, for a provider that was accepted at the start, has a
\* reason in an override: a value that is malformed or of another type, half of what
\* belongs together, or another repository, whose tracker did not answer this time.
RefusedForAReason ==
  setup # NoSetup /\ Accepted(setup.provider, setup.default, setup.overrides) =>
    \A answers \in BOOLEAN : \A a \in {b \in Alerts : ~ConfigOf(setup, b, answers).valid} :
      \/ \E f \in setup.provider.fields :
           \E v \in Candidates(setup, a, f) :
             /\ ~Overlooked(setup.provider, f, v)
             /\ v.form \in setup.provider.malformed[f] \union {"mistyped"}
      \/ \E f \in setup.provider.together :
           \E v \in Candidates(setup, a, f) : Rank(v.level) > Rank("default")
      \/ /\ setup.provider.clientOf # {} /\ ~answers
         /\ Given(OverrideOf(setup, a)["repository-url"])
         /\ OverrideOf(setup, a)["repository-url"].form # "moved"

\* What is open at the service belongs to an alert that is triggered, unless an
\* answer, a write or the process failed at the wrong moment, the issue was not on
\* the page that was listed, the tracker was ignored since a start, or PagerDuty
\* was reminded: Alert.ResolveKey is the right one over retries, reminders, restarts
\* and other alerts.
NothingLeftOpen ==
  SendOnResolved =>
    \A t \in tickets :
      \/ t.key \in excused
      \/ \E a \in t.about : a \in triggered \/ \E p \in pending : p[1] = a

\* A triggered alert has something open at the service, unless the resolution of
\* another alert of the endpoint closed what they share, or the row of an alert
\* that was resolved could not be deleted.
TriggeredIsOpen ==
  Tracked =>
    \A a \in triggered \ revived :
      KeysAbout(a, tickets) # {} \/ (service \in SharedByAlerts /\ a \in overtaken)

\* Retries, reminders and restarts do not open a second alert at the services that
\* recognise the first by its key.
AtMostOneTicket ==
  service \in {"fingerprints", "aliases", "keyed by the service"} =>
    \A a \in Alerts : Cardinality(KeysAbout(a, tickets) \ excused) <= 1
=============================================================================
