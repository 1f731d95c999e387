------------------------------- MODULE Providers -------------------------------
(***************************************************************************)
(* The configuration of the 26 alert providers: what each of them requires,  *)
(* refuses and completes (Config.Validate), what an override may replace      *)
(* (Config.Merge), which overrides of groups it takes (AlertProvider.Validate) *)
(* and what a notification is finally sent with (GetConfig).                   *)
(*                                                                             *)
(* A value is the level it was written at and whether it is well-formed: what  *)
(* it says is data.                                                            *)
(***************************************************************************)
EXTENDS Naturals, Sequences

\* The levels a value may be written at, nearer to the alert and nearer.
Rank(level) ==
  CASE level = "absent" -> 0 [] level = "built-in" -> 1 [] level = "default" -> 2
    [] level = "group" -> 3 [] level = "alert" -> 4

\* The forms of a value: well-formed, malformed, a number below or above the range
\* of the field, a zero, a false or an empty text or list, the address of a
\* repository that moved to another host, or a value of another type.
Forms == {"good", "bad", "low", "high", "zero", "moved", "mistyped"}

\* A file with a value of another type is not loaded; the override of an alert is
\* only read with GetConfig.
FormsAt(level) == IF level = "alert" THEN Forms ELSE Forms \ {"moved", "mistyped"}

Value(level, form) == [level |-> level, form |-> form]

Absent == Value("absent", "good")

\* Config has no pointers but for the client: a zero that is written is no value.
Given(value) == value.level # "absent" /\ value.form # "zero"

\* A provider without malformed values, whose messages leave nothing to close.
\*   required          refused when absent
\*   malformed         the forms Validate refuses, by field
\*   nonnegative       Merge takes a number only above zero
\*   together          given both or not at all
\*   completed         Validate fills these in
\*   byGroup           whether the provider has overrides for groups
\*   checksGroups      whether it refuses groups without a name or named twice
\*   groupRequires     refused in an override of a group when absent
\*   groupMalformed    the forms refused in an override of a group, by field
\*   clientOf          the client is made of these, and then kept
\*   service           what a notification does to the service
Messenger(fields, required) ==
  [fields |-> fields, required |-> required,
   malformed |-> [f \in fields |-> {}], nonnegative |-> {}, together |-> {},
   completed |-> {}, byGroup |-> TRUE, checksGroups |-> TRUE,
   groupRequires |-> {}, groupMalformed |-> [f \in fields |-> {}],
   clientOf |-> {}, service |-> "messages"]

AWSSES ==
  [Messenger({"access-key-id", "secret-access-key", "region", "from", "to"},
             {"from", "to"})
     EXCEPT !.together = {"access-key-id", "secret-access-key"},
            !.groupRequires = {"to"}]

Custom ==
  [Messenger({"url", "method", "body", "headers", "placeholders", "client"}, {"url"})
     EXCEPT !.checksGroups = FALSE]

Discord ==
  [Messenger({"webhook-url", "title"}, {"webhook-url"})
     EXCEPT !.groupRequires = {"webhook-url"}]

Email ==
  [Messenger({"from", "username", "password", "host", "port", "to", "client"},
             {"from", "to", "port", "host"})
     EXCEPT !.malformed["port"] = {"low", "high"}, !.nonnegative = {"port"},
            !.groupRequires = {"to"}]

Gitea ==
  [Messenger({"repository-url", "token", "assignees", "client"},
             {"repository-url", "token"})
     EXCEPT !.malformed["repository-url"] = {"bad"}, !.byGroup = FALSE,
            !.clientOf = {"repository-url", "token", "client"},
            !.service = "issues"]

GitHub ==
  [Messenger({"repository-url", "token"}, {"repository-url", "token"})
     EXCEPT !.malformed["repository-url"] = {"bad"}, !.byGroup = FALSE,
            !.clientOf = {"repository-url", "token"},
            !.service = "issues"]

GitLab ==
  [Messenger({"webhook-url", "authorization-key", "severity", "monitoring-tool",
              "environment-name", "service"}, {"webhook-url", "authorization-key"})
     EXCEPT !.malformed["webhook-url"] = {"bad"}, !.byGroup = FALSE,
            !.completed = {"severity", "monitoring-tool"},
            !.service = "fingerprints"]

GoogleChat ==
  [Messenger({"webhook-url", "client"}, {"webhook-url"})
     EXCEPT !.groupRequires = {"webhook-url"}]

Gotify ==
  [Messenger({"server-url", "token", "priority", "title"}, {"server-url", "token"})
     EXCEPT !.byGroup = FALSE, !.completed = {"priority"}]

HomeAssistant == Messenger({"url", "token"}, {"url", "token"})

Ilert == Messenger({"integration-key"}, {"integration-key"})

IncidentIO ==
  [Messenger({"url", "auth-token", "source-url", "metadata"}, {"url", "auth-token"})
     EXCEPT !.malformed["url"] = {"bad"}, !.service = "keyed by the service"]

JetBrainsSpace ==
  LET all == {"project", "channel-id", "token"} IN Messenger(all, all)

Matrix ==
  [Messenger({"server-url", "access-token", "internal-room-id"},
             {"access-token", "internal-room-id"})
     EXCEPT !.completed = {"server-url"},
            !.groupRequires = {"access-token", "internal-room-id"}]

Mattermost ==
  [Messenger({"webhook-url", "channel", "client"}, {"webhook-url"})
     EXCEPT !.groupRequires = {"webhook-url"}]

Messagebird ==
  LET all == {"access-key", "originator", "recipients"}
  IN [Messenger(all, all) EXCEPT !.byGroup = FALSE]

Ntfy ==
  [Messenger({"topic", "url", "priority", "token", "email", "click",
              "disable-firebase", "disable-cache"}, {"topic"})
     EXCEPT !.malformed["token"] = {"bad"},
            !.malformed["priority"] = {"low", "high"}, !.nonnegative = {"priority"},
            !.completed = {"url", "priority"},
            !.groupMalformed["token"] = {"bad"},
            !.groupMalformed["priority"] = {"low", "high"}]

Opsgenie ==
  [Messenger({"api-key", "priority", "source", "entity-prefix", "alias-prefix",
              "tags"}, {"api-key"})
     EXCEPT !.byGroup = FALSE,
            !.completed = {"priority", "source", "entity-prefix", "alias-prefix"},
            !.service = "aliases"]

PagerDuty ==
  [Messenger({"integration-key"}, {"integration-key"})
     EXCEPT !.malformed["integration-key"] = {"bad"}, !.service = "incidents"]

Pushover ==
  [Messenger({"application-token", "user-key", "title", "priority",
              "resolved-priority", "sound", "ttl", "device"},
             {"application-token", "user-key"})
     EXCEPT !.malformed["application-token"] = {"bad"},
            !.malformed["user-key"] = {"bad"},
            !.malformed["priority"] = {"low", "high"},
            !.malformed["resolved-priority"] = {"low", "high"},
            !.malformed["device"] = {"bad"}, !.nonnegative = {"ttl"},
            !.completed = {"priority", "resolved-priority"},
            !.byGroup = FALSE]

Slack == Messenger({"webhook-url"}, {"webhook-url"})

Teams == Messenger({"webhook-url", "title", "client"}, {"webhook-url"})

TeamsWorkflows == Messenger({"webhook-url", "title"}, {"webhook-url"})

Telegram ==
  [Messenger({"token", "id", "topic-id", "api-url", "client"}, {"token", "id"})
     EXCEPT !.completed = {"api-url"}]

Twilio ==
  LET keys == {"sid", "token", "from", "to"}
  IN [Messenger(keys \union {"text-twilio-triggered", "text-twilio-resolved"}, keys)
        EXCEPT !.byGroup = FALSE]

Zulip ==
  LET all == {"bot-email", "bot-api-key", "domain", "channel-id"}
  IN Messenger(all, all)

Providers ==
  {AWSSES, Custom, Discord, Email, Gitea, GitHub, GitLab, GoogleChat, Gotify,
   HomeAssistant, Ilert, IncidentIO, JetBrainsSpace, Matrix, Mattermost, Messagebird,
   Ntfy, Opsgenie, PagerDuty, Pushover, Slack, Teams, TeamsWorkflows, Telegram,
   Twilio, Zulip}
-----------------------------------------------------------------------------
(* What all of them share.  A configuration is a value for every field. *)

NoClient == <<>>

\* Config.Validate: what it refuses.
Valid(p, config) ==
  /\ \A f \in p.required : Given(config[f])
  /\ \A f \in p.fields : Given(config[f]) => config[f].form \notin p.malformed[f]
  /\ \A f, g \in p.together : Given(config[f]) = Given(config[g])

\* Mutant: a client is kept whatever repository it was made for.
AlwaysSameRepository(url, other) == TRUE

\* Whether two addresses name the same owner and repository, which is all that
\* Validate compares.
SameRepository(url, other) == url = other \/ "moved" \in {url.form, other.form}

\* An issue tracker keeps the client it has when the repository is the one the
\* client was made for, whatever its token; a new one asks the tracker who it is.
KeepsClient(config, client) ==
  client # NoClient /\ SameRepository(client["repository-url"], config["repository-url"])

Asks(p, config, client) == p.clientOf # {} /\ ~KeepsClient(config, client)

\* Config.Validate: what it fills in.
Completed(p, config, client) ==
  [values |-> [f \in p.fields |-> IF Given(config[f]) \/ f \notin p.completed
                                  THEN config[f] ELSE Value("built-in", "good")],
   client |-> IF p.clientOf = {} THEN NoClient
              ELSE IF KeepsClient(config, client) THEN client
              ELSE [f \in p.clientOf |-> config[f]]]

\* Mutant: an override replaces the whole configuration.
MergeReplaces(p, config, override) == [f \in p.fields |-> override[f]]

\* Config.Merge: what is given replaces what was there.
Merge(p, config, override) ==
  [f \in p.fields |->
     IF Given(override[f]) /\ ~(f \in p.nonnegative /\ override[f].form = "low")
     THEN override[f] ELSE config[f]]

\* AlertProvider.Validate: the overrides of groups.
GroupsValid(p, overrides) ==
  p.byGroup /\ p.checksGroups =>
    \A i \in DOMAIN overrides :
      /\ overrides[i].group # ""
      /\ \A j \in 1..(i - 1) : overrides[j].group # overrides[i].group
      /\ \A f \in p.groupRequires : Given(overrides[i].config[f])
      /\ \A f \in p.fields :
           Given(overrides[i].config[f]) =>
             overrides[i].config[f].form \notin p.groupMalformed[f]

\* AlertProvider.Validate; a provider that is refused is set to nil.
Accepted(p, default, overrides) == GroupsValid(p, overrides) /\ Valid(p, default)

\* The first override of the group, when there is one.
ForGroup(p, config, overrides, group) ==
  LET matching == {i \in DOMAIN overrides : overrides[i].group = group} IN
  IF ~p.byGroup \/ matching = {} THEN config
  ELSE Merge(p, config,
             overrides[CHOOSE i \in matching : \A j \in matching : i <= j].config)

\* GetConfig: the default configuration, as its own validation left it, below
\* the override of the group, below that of the alert.  The error may be that the
\* override cannot be read, that the outcome is not valid, or that the tracker of
\* another repository did not answer.
GetConfig(p, default, overrides, group, override, answers) ==
  LET validated == Completed(p, default, NoClient)
      merged == Merge(p, ForGroup(p, validated.values, overrides, group), override)
      config == Completed(p, merged, validated.client)
  IN [valid |-> /\ \A f \in p.fields : override[f].form # "mistyped"
                /\ Valid(p, merged)
                /\ Asks(p, merged, validated.client) => answers,
      values |-> config.values, client |-> config.client]
=============================================================================
