----------------------------- MODULE Evaluation -----------------------------
(***************************************************************************)
(* Endpoint.EvaluateHealth: one health check, from the URL to the result     *)
(* that is stored and shown.  The steps are those between which something    *)
(* outside answers, or fails to: parse the URL, look up the IP address and   *)
(* the domain, call the endpoint, judge the conditions one by one, redact.   *)
(*                                                                           *)
(* Texts are what parameters resolve to: the numbers and words they are      *)
(* written as.  Error messages are sequences of the pieces that may have to  *)
(* be hidden.  Times are in units of the model.                              *)
(***************************************************************************)
EXTENDS JsonPath, FiniteSets, Functions

CONSTANTS
  Endpoints,      \* the endpoints a configuration may ask for
  RepliesOf(_),   \* the bodies an endpoint may answer with
  Expirations,    \* what whois may say: time until the domain expires
  Statuses,       \* HTTP status codes, exit codes of commands
  Durations       \* how long a call may take

Schemes == {"tcp", "udp", "sctp", "icmp", "starttls", "tls", "http", "ws", "ssh", "unknown"}

\* Texts.
Decimal(n) == [int |-> n]            \* 5
Hex(n) == [hex |-> n]            \* 0x5
Float(n) == [float |-> n]        \* 5.3, by its whole part
Time(n) == [time |-> n]          \* 5ms, 0s
Exponent(number) == [exponent |-> number]   \* 1e+06, by the number it writes
Word(w) == [word |-> w]
Pattern(matched) == [pattern |-> matched]   \* pat(...), by the texts it matches
AnyOf(options) == [any |-> options]           \* any(..., ...)
Invalid(p) == [invalid |-> p]    \* ... (INVALID)
Nothing == [nothing |-> TRUE]    \* no text at all

Is(kind, text) == DOMAIN text = {kind}
IsFunction(text) == Is("pattern", text) \/ Is("any", text)

\* Numbers are whole; a float has its whole part and a rest.
IsText(text) ==
  /\ ~Is("nothing", text)
  /\ \A kind \in {"int", "hex", "float", "time"} : Is(kind, text) => text[kind] \in Int
  /\ Is("exponent", text) =>
       \E kind \in {"int", "float"} : Is(kind, text.exponent) /\ text.exponent[kind] \in Int

\* A body: a JSON value, nothing, JSON that is cut off, or some other text.
Json(v) == [type |-> "json", value |-> v]
Empty == [type |-> "empty"]
Cut == [type |-> "cut"]
Plain(text) == [type |-> "plain", text |-> text]

\* A condition compares two parameters: a placeholder, in capitals or not, a
\* path into the body, in a function or not, or a literal text.  The body itself
\* is a placeholder, or a path without keys in a function.
Operators == {"==", "!=", "<=", ">=", ">", "<"}
Compare(left, op, right) == [left |-> left, op |-> op, right |-> right]
Placeholder(name) == [name |-> name, capitals |-> TRUE]
LowerCase(name) == [name |-> name, capitals |-> FALSE]
Path(function, path) ==
  [name |-> "path", capitals |-> TRUE, function |-> function, path |-> path]
Literal(text) == [name |-> "literal", capitals |-> TRUE, text |-> text]

Mentions(c, names) ==
  \E p \in {c.left, c.right} : p.name \in names /\ p.capitals

Parameter(p) ==
  /\ p.name \in {"STATUS", "IP", "RESPONSE_TIME", "BODY", "DNS_RCODE", "CONNECTED",
                 "CERTIFICATE_EXPIRATION", "DOMAIN_EXPIRATION", "literal", "path"}
  /\ p.name = "literal" => IsText(p.text)
  /\ p.name = "path" =>
       p.path \in Paths /\ p.capitals /\ (p.path = <<>> => p.function \in {"len", "has"})

ASSUME EndpointsAssumption ==
  \A e \in Endpoints :
    /\ e.scheme \in Schemes /\ e.ssh \in {"none", "banner", "login"}
    /\ e.dns \in BOOLEAN /\ e.parses \in BOOLEAN /\ e.port \in BOOLEAN
    /\ e.conditions \in Seq(Range(e.conditions))
    /\ \A c \in Range(e.conditions) : Parameter(c.left) /\ Parameter(c.right)

ASSUME AnswersAssumption ==
  /\ Statuses \subseteq Int /\ Durations \subseteq Int /\ Expirations \subseteq Int
  /\ \A v \in Values : v.type \in {"scalar", "string"} => IsText(v.data)
  /\ \A e \in Endpoints : \A body \in RepliesOf(e) :
       /\ body.type \in {"json", "empty", "cut", "plain"}
       /\ body.type = "json" => body.value \in Values
       /\ body.type = "plain" => IsText(body.text)

HasBodyPlaceholder(c) == Mentions(c, {"BODY", "path"})
HasDomainExpirationPlaceholder(c) == Mentions(c, {"DOMAIN_EXPIRATION"})
HasIPPlaceholder(c) == Mentions(c, {"IP"})
-----------------------------------------------------------------------------
(* Endpoints *)

TypeOf(e) == IF e.dns THEN "dns" ELSE e.scheme

\* ValidateAndSetDefaults.  The sections dns and ssh end the validation: what
\* stands behind them is not looked at, the scheme of the URL included.
Accepted(e) ==
  /\ e.conditions # <<>>
  /\ \A i \in DOMAIN e.conditions :
       /\ e.conditions[i].op \in Operators
       /\ HasDomainExpirationPlaceholder(e.conditions[i]) => ~e.frequent
  /\ \/ e.dns
     \/ e.ssh # "none"
     \/ e.scheme # "unknown" /\ e.parses

NeedsToRetrieveIP(e) == \E c \in Range(e.conditions) : HasIPPlaceholder(c)
NeedsToRetrieveDomainExpiration(e) ==
  \E c \in Range(e.conditions) : HasDomainExpirationPlaceholder(c)

NeedsToReadBody(e) == \E c \in Range(e.conditions) : HasBodyPlaceholder(c)

\* The texts of the URL that may have to be hidden.  What is dialed has no path.
Port(e) == IF e.port THEN <<"port">> ELSE <<>>
Address(e) == <<"host">> \o Port(e)
URL(e) ==
  CASE TypeOf(e) = "dns" -> Address(e)
    [] TypeOf(e) \in {"http", "ws", "unknown"} -> <<"scheme">> \o Address(e) \o <<"path">>
    [] OTHER -> <<"scheme">> \o Address(e)

\* The host name of a DNS server keeps a port other than 53, and that of ICMP
\* all but the scheme; a URL without a scheme is a path to url.Parse.
HostnameOf(e) ==
  CASE TypeOf(e) \in {"dns", "icmp"} -> Address(e)
    [] TypeOf(e) = "unknown" -> <<>>
    [] OTHER -> <<"host">>
PortOf(e) == IF TypeOf(e) \in {"dns", "icmp", "unknown"} THEN <<>> ELSE Port(e)
-----------------------------------------------------------------------------
(* Conditions *)

\* The texts of the model have one character; an object, or null, has more.
LengthOf(v) ==
  CASE v.type = "array" -> Len(v.items)
    [] v.type \in {"object", "nil"} -> 2
    [] OTHER -> IF v.data = Word("") THEN 0 ELSE 1

\* fmt prints a number of JSON, a float64, with an exponent from a million on.
Million == 1000000
Printed(data) ==
  IF \E kind \in {"int", "float"} :
       Is(kind, data) /\ (data[kind] >= Million \/ data[kind] <= -Million)
  THEN Exponent(data) ELSE data

TextOfValue(v) ==
  CASE v.type = "scalar" -> Printed(v.data)
    [] v.type = "string" -> v.data
    [] OTHER -> [json |-> v]

TextOfBody(b) ==
  CASE b.type = "json" -> IF b.value.type = "scalar" THEN b.value.data ELSE [json |-> b.value]
    [] b.type = "empty" -> Word("")
    [] b.type = "cut" -> [cut |-> "json"]
    [] OTHER -> b.text

\* jsonpath.Eval of the text of a body.
Lookup(path, b) ==
  IF b.type = "json" THEN Eval(path, b.value)
  ELSE IF path = <<>> THEN Found(Text(TextOfBody(b)))
  ELSE IF b.type \in {"empty", "cut"} THEN [outcome |-> "unexpected end"]
  ELSE NotFound

\* What the function of a parameter, if any, makes of what its path finds.
Applied(p, found) ==
  IF p.function = "has" THEN Word(IF found.outcome = "found" THEN "true" ELSE "false")
  ELSE IF found.outcome # "found" THEN Invalid(p)
  ELSE IF p.function = "len" THEN Decimal(LengthOf(found.value))
  ELSE TextOfValue(found.value)

\* What the result says at the place of a placeholder.
Said(p, r) ==
  CASE p.name = "STATUS" -> Decimal(r.status)
    [] p.name = "IP" -> r.ip
    [] p.name = "RESPONSE_TIME" -> Decimal(r.duration)
    [] p.name = "BODY" -> TextOfBody(r.body)
    [] p.name = "DNS_RCODE" -> r.rcode
    [] p.name = "CONNECTED" -> Word(IF r.connected THEN "true" ELSE "false")
    [] p.name = "CERTIFICATE_EXPIRATION" -> Decimal(r.certificate)
    [] p.name = "DOMAIN_EXPIRATION" -> Decimal(r.domain)
    [] p.name = "literal" -> p.text

\* sanitizeAndResolve.
Resolved(p, r) ==
  IF p.name = "path" THEN Applied(p, Lookup(p.path, r.body)) ELSE Said(p, r)

\* A path that leads nowhere is an error, unless its existence is the question
\* or the body ends too early.
LeadsNowhere(p, r) ==
  p.name = "path" /\ p.function # "has" /\ Lookup(p.path, r.body).outcome = "error"

Panics(p, r) == p.name = "path" /\ Lookup(p.path, r.body).outcome = "panic"

IsInteger(text) == Is("int", text) \/ Is("hex", text)
IntegerOf(text) == IF Is("int", text) THEN text.int ELSE text.hex
Same(a, b) ==
  IF IsInteger(a) /\ IsInteger(b) THEN IntegerOf(a) = IntegerOf(b) ELSE a = b

\* What the function leaves when it is stripped off.
Stripped(text) ==
  CASE Is("pattern", text) -> [glob |-> text.pattern]
    [] Is("any", text) -> IF Len(text.any) = 1 THEN text.any[1] ELSE [list |-> text.any]
    [] OTHER -> text

Among(text, options) == \E i \in DOMAIN options : options[i] = text

\* Mutant: a pattern is only looked for on the right.
PatternOnTheRight(first, second) ==
  IF Is("pattern", second) THEN first \in second.pattern
  ELSE IF Is("any", first) /\ ~Is("any", second) THEN Among(second, first.any)
  ELSE IF Is("any", second) /\ ~Is("any", first) THEN Among(first, second.any)
  ELSE Same(Stripped(first), Stripped(second))

IsEqual(first, second) ==
  IF Is("pattern", first) /\ ~Is("pattern", second) THEN second \in first.pattern
  ELSE IF Is("pattern", second) /\ ~Is("pattern", first) THEN first \in second.pattern
  ELSE IF Is("any", first) /\ ~Is("any", second) THEN Among(second, first.any)
  ELSE IF Is("any", second) /\ ~Is("any", first) THEN Among(first, second.any)
  ELSE Same(Stripped(first), Stripped(second))

\* sanitizeAndResolveNumerical: the rest of a float is cut off, what is no number
\* counts as zero.
Number(text) ==
  CASE Is("time", text) -> text.time
    [] IsInteger(text) -> IntegerOf(text)
    [] Is("float", text) -> text.float
    [] Is("exponent", text) ->
         IF Is("int", text.exponent) THEN text.exponent.int ELSE text.exponent.float
    [] OTHER -> 0

Satisfied(c, r) ==
  LET left == Resolved(c.left, r)
      right == Resolved(c.right, r)
  IN CASE c.op = "==" -> IsEqual(left, right)
       [] c.op = "!=" -> ~IsEqual(left, right)
       [] c.op = "<=" -> Number(left) <= Number(right)
       [] c.op = ">=" -> Number(left) >= Number(right)
       [] c.op = ">" -> Number(left) > Number(right)
       [] c.op = "<" -> Number(left) < Number(right)
-----------------------------------------------------------------------------
(* A health check *)

VARIABLES
  endpoint,   \* the endpoint that is checked
  world,      \* what would be answered: the body, the domain, the whois cache
  step,       \* where EvaluateHealth stands
  result,     \* the Result
  left        \* the conditions that remain to be evaluated
vars == <<endpoint, world, step, result, left>>

NoResult ==
  [success |-> TRUE, errors |-> <<>>, hostname |-> <<>>, port |-> <<>>,
   ip |-> Word(""), domain |-> 0, connected |-> FALSE, status |-> 0,
   rcode |-> Word(""), certificate |-> 0, duration |-> 0, body |-> Empty,
   conditions |-> <<>>]

Init ==
  /\ endpoint \in {e \in Endpoints : Accepted(e)}
  /\ world \in [body : RepliesOf(endpoint), domain : Expirations, cached : BOOLEAN]
  /\ step = "parse" /\ result = NoResult /\ left = endpoint.conditions

\* AddError: no error twice.
AddError(r, error) ==
  IF error \in Range(r.errors) THEN r ELSE [r EXCEPT !.errors = Append(@, error)]

Continue(next) == step' = next /\ UNCHANGED <<endpoint, world, left>>

Parse ==
  /\ step = "parse" /\ Continue("ip")
  /\ result' = IF endpoint.parses \/ TypeOf(endpoint) \in {"dns", "icmp"}
               THEN [result EXCEPT !.hostname = HostnameOf(endpoint),
                                   !.port = PortOf(endpoint)]
               ELSE AddError(result, <<"parse">> \o URL(endpoint))

GetIP ==
  /\ step = "ip" /\ Continue("domain")
  /\ IF NeedsToRetrieveIP(endpoint)
     THEN \/ result' = [result EXCEPT !.ip = Word("ip")]
          \/ result' = AddError(result, <<"lookup">> \o result.hostname)
     ELSE UNCHANGED result

\* GetDomainExpiration: whois may fail unless an expiration is in the cache.
GetDomainExpiration ==
  /\ step = "domain"
  /\ IF NeedsToRetrieveDomainExpiration(endpoint) /\ result.hostname # <<>>
     THEN \/ result' = [result EXCEPT !.domain = world.domain]
          \/ ~world.cached /\ result' = AddError(result, <<"whois">>)
     ELSE UNCHANGED result
  /\ Continue(IF result'.errors = <<>> THEN "call" ELSE "skip")

\* An endpoint is not called once something went wrong.
Skip ==
  /\ step = "skip" /\ Continue("judge")
  /\ result' = [result EXCEPT !.success = FALSE]
-----------------------------------------------------------------------------
(* The call: what each type of endpoint may leave in the result *)

Refused(r) == AddError(r, <<"dial">> \o Address(endpoint))
Reached(r) == [r EXCEPT !.connected = TRUE]
Took(r, d) == [r EXCEPT !.duration = d]
Answer(r) == [r EXCEPT !.body = world.body]

\* A body is sent and an answer awaited only if the endpoint has a body.
Exchanged(r) == IF endpoint.sends THEN Answer(r) ELSE r

Certified(r) == [r EXCEPT !.certificate = 1]

\* An error of net/http, or of a WebSocket that is dialed, quotes a URL: the one
\* of the configuration, or one that was followed to, was encoded anew or lost
\* its password, and may show the same parts.
Changed(e) == <<"changed">> \o Address(e) \o <<"path">>
Quoting(r) ==
  {AddError(r, <<"get">> \o url \o Address(endpoint)) : url \in {URL(endpoint), Changed(endpoint)}}

HTTP(r, d) ==
  LET answered == {[Took(Reached(r), d) EXCEPT !.status = s] : s \in Statuses}
      read == IF NeedsToReadBody(endpoint)
              THEN {Answer(a) : a \in answered}
                     \cup {AddError([a EXCEPT !.body = Cut], <<"read">>) : a \in answered}
              ELSE answered
  IN Quoting(Took(r, d)) \cup read \cup {Certified(a) : a \in read}

SSH(r, d) ==
  IF endpoint.ssh = "banner"
  THEN {[Refused(r) EXCEPT !.status = 1], Took(Reached(r), d)}
  ELSE {Refused(r), AddError([Reached(r) EXCEPT !.success = FALSE], <<"command">>)}
         \cup (IF endpoint.sends  \* the command is in the body
               THEN {[Took(Reached(r), d) EXCEPT !.status = s] : s \in Statuses}
               ELSE {})

Outcomes(r, d) ==
  CASE TypeOf(endpoint) = "dns" ->
         {Refused(r), [Answer(Took(Reached(r), d)) EXCEPT !.rcode = Word("NOERROR")]}
    [] TypeOf(endpoint) = "starttls" -> {Refused(r), Certified(Took(Reached(r), d))}
    [] TypeOf(endpoint) = "tls" ->
         {Refused(r), Certified(Took(Exchanged(Reached(r)), d))}
           \cup (IF endpoint.sends THEN {Refused(Reached(r))} ELSE {})
    [] TypeOf(endpoint) \in {"tcp", "udp"} -> {Took(r, d), Took(Exchanged(Reached(r)), d)}
    [] TypeOf(endpoint) = "sctp" -> {Took(r, d), Took(Reached(r), d)}
    [] TypeOf(endpoint) = "icmp" -> {r, Took(r, d), Took(Reached(r), d)}
    [] TypeOf(endpoint) = "ws" -> {Refused(r), Took(Answer(Reached(r)), d)} \cup Quoting(r)
    [] TypeOf(endpoint) = "ssh" -> SSH(r, d)
    [] TypeOf(endpoint) = "http" -> HTTP(r, d)

\* There is no SSH section to read the user from, or no request to send.
CallPanics ==
  \/ TypeOf(endpoint) = "ssh" /\ endpoint.ssh = "none"
  \/ TypeOf(endpoint) = "unknown"

Call ==
  /\ step = "call" /\ ~CallPanics /\ Continue("judge")
  /\ \E d \in Durations : result' \in Outcomes(result, d)

Crash ==
  /\ step = "call" /\ CallPanics /\ Continue("crashed") /\ UNCHANGED result
-----------------------------------------------------------------------------
\* Condition.evaluate: the next condition, left parameter first.
Judge ==
  /\ step = "judge" /\ left # <<>>
  /\ LET c == Head(left)
         complained == IF LeadsNowhere(c.left, result) \/ LeadsNowhere(c.right, result)
                       THEN AddError(result, <<"walk">>) ELSE result
         success == Satisfied(c, result)
     IN IF Panics(c.left, result) \/ Panics(c.right, result)
        THEN Continue("crashed") /\ UNCHANGED result
        ELSE /\ result' = [complained EXCEPT !.conditions = Append(@, success),
                                             !.success = @ /\ success]
             /\ left' = Tail(left) /\ UNCHANGED <<endpoint, world, step>>

\* strings.ReplaceAll of a text in an error, piece by piece.  Nothing lies
\* between any two characters.
Redacted(error, text) ==
  LET places == {i \in 1..(Len(error) - Len(text) + 1) :
                   SubSeq(error, i, i + Len(text) - 1) = text}
  IN IF text = <<>>
     THEN [i \in 1..(2 * Len(error) + 1) |->
             IF i % 2 = 1 THEN "redacted" ELSE error[i \div 2]]
     ELSE [i \in 1..Len(error) |->
             IF \E place \in places : i \in place..(place + Len(text) - 1)
             THEN "redacted" ELSE error[i]]

Hides(part) == part \in endpoint.hide

HideURL(error) == IF Hides("url") THEN Redacted(error, URL(endpoint)) ELSE error
HideHostname(error) == IF Hides("hostname") THEN Redacted(error, result.hostname) ELSE error
HidePort(error) ==
  IF Hides("port") /\ result.port # <<>> THEN Redacted(error, result.port) ELSE error

\* Mutant: the host name is hidden before the URL it is a part of.
HostnameFirst(error) == HidePort(HideURL(HideHostname(error)))

CleanedUp(error) == HidePort(HideHostname(HideURL(error)))

Redact ==
  /\ step = "judge" /\ left = <<>> /\ Continue("done")
  /\ result' = [result EXCEPT
       !.errors = [i \in DOMAIN @ |-> CleanedUp(@[i])],
       !.hostname = IF Hides("hostname") THEN <<>> ELSE @,
       !.port = IF Hides("port") THEN <<>> ELSE @,
       !.conditions = IF Hides("conditions") THEN <<>> ELSE @]

Next ==
  \/ Parse \/ GetIP \/ GetDomainExpiration \/ Skip
  \/ Call \/ Crash \/ Judge \/ Redact

Spec == Init /\ [][Next]_vars
-----------------------------------------------------------------------------
(***************************************************************************)
(* The reference: what a condition means, of what was really answered.  It   *)
(* takes a value from where the path leads, and numbers for what they are,   *)
(* however they are written.                                                 *)
(***************************************************************************)

\* The result as it would be had everything been asked for.
Truth ==
  [result EXCEPT !.ip = Word("ip"), !.domain = world.domain,
                 !.body = IF TypeOf(endpoint) = "http" THEN world.body ELSE @]

\* The value at the end of a path; the body is there even if it is empty.
Target(path, b) ==
  IF b.type = "json" THEN At(path, b.value)[Len(path)]
  ELSE IF path = <<>> THEN Text(TextOfBody(b)) ELSE Nil
Exists(path, b) == path = <<>> \/ Target(path, b).type # "nil"

Meant(p, r) ==
  IF p.name # "path" THEN Said(p, r)
  ELSE IF p.function = "has" THEN Word(IF Exists(p.path, r.body) THEN "true" ELSE "false")
  ELSE IF ~Exists(p.path, r.body) THEN Nothing
  ELSE LET v == Target(p.path, r.body)
       IN IF p.function = "len" THEN Decimal(LengthOf(v))
          ELSE IF v.type \in {"scalar", "string"} THEN v.data ELSE [json |-> v]

IsNumber(text) == \E kind \in {"int", "hex", "time", "float", "exponent"} : Is(kind, text)

\* The number a text writes, in halves: a float lies between two whole ones.
Written(text) == IF Is("exponent", text) THEN text.exponent ELSE text
Halves(number) ==
  CASE Is("int", number) -> 2 * number.int
    [] Is("hex", number) -> 2 * number.hex
    [] Is("time", number) -> 2 * number.time
    [] OTHER -> 2 * number.float + (IF number.float < 0 THEN -1 ELSE 1)
Amount(text) == Halves(Written(text))

Equal(a, b) == IF IsNumber(a) /\ IsNumber(b) THEN Amount(a) = Amount(b) ELSE a = b

\* One text is another if either accepts the other.
Accepts(text, other) ==
  CASE Is("pattern", text) -> other \in text.pattern
    [] Is("any", text) -> \E option \in Range(text.any) : Equal(option, other)
    [] OTHER -> Equal(text, other)

Ordered(op, a, b) ==
  CASE op = "<" -> a < b [] op = "<=" -> a <= b [] op = ">" -> a > b [] op = ">=" -> a >= b

\* A condition on nothing does not hold, and only numbers have an order.
Means(op, a, b) ==
  /\ Nothing \notin {a, b}
  /\ CASE op = "==" -> Accepts(a, b) \/ Accepts(b, a)
       [] op = "!=" -> ~(Accepts(a, b) \/ Accepts(b, a))
       [] OTHER -> IsNumber(a) /\ IsNumber(b) /\ Ordered(op, Amount(a), Amount(b))
Holds(c, r) == Means(c.op, Meant(c.left, r), Meant(c.right, r))

(***************************************************************************)
(* The guesses: where a condition may be satisfied although it does not hold.*)
(***************************************************************************)

\* A placeholder in lower case: nothing is fetched for it (needsTo...).
NotFetched(p) ==
  /\ ~p.capitals
  /\ \/ p.name = "IP" /\ ~NeedsToRetrieveIP(endpoint)
     \/ p.name = "DOMAIN_EXPIRATION" /\ ~NeedsToRetrieveDomainExpiration(endpoint)
     \/ p.name = "BODY" /\ TypeOf(endpoint) = "http" /\ ~NeedsToReadBody(endpoint)

\* A path into a body that ends too early, or is empty: no error is reported.
IntoNothing(p, b) ==
  p.name = "path" /\ p.function # "has" /\ p.path # <<>> /\ b.type \in {"empty", "cut"}

\* The walk along a path may end at an array or a scalar before its end.
EndsEarly(p, b) ==
  /\ p.name = "path" /\ b.type = "json" /\ ~Exists(p.path, b)
  /\ \E n \in 0..(Len(p.path) - 1) :
       At(p.path, b.value)[n].type \in {"array", "scalar", "string"}

\* Where order is asked for: something is no number, or a rest that was cut off
\* would have decided.
Unordered(op, a, b) ==
  /\ op \notin {"==", "!="}
  /\ \/ ~IsNumber(a) \/ ~IsNumber(b)
     \/ /\ Is("float", Written(a)) \/ Is("float", Written(b))
        /\ Number(a) = Number(b)

\* A number is not equal to itself in another writing: to a time, to one with
\* an exponent, or, in a list, to one in another base.  And a pattern meets the
\* number as it is printed.
Compared(p, r) ==
  LET text == Meant(p, r)
  IN IF /\ p.name = "path" /\ p.function \notin {"has", "len"}
        /\ Exists(p.path, r.body) /\ Target(p.path, r.body).type = "scalar"
     THEN Printed(text) ELSE text
Options(text) == IF Is("any", text) THEN Range(text.any) ELSE {text}
TwoWritings(a, b) ==
  \E x \in Options(a), y \in Options(b) :
    /\ IsNumber(x) /\ IsNumber(y) /\ Amount(x) = Amount(y) /\ x # y
    /\ ~(x = a /\ y = b /\ IsInteger(x) /\ IsInteger(y))
OtherwiseWritten(c, r) ==
  LET a == Compared(c.left, r)
      b == Compared(c.right, r)
  IN \/ c.op = "!=" /\ TwoWritings(a, b)
     \/ Is("pattern", a) /\ b # Meant(c.right, r)
     \/ Is("pattern", b) /\ a # Meant(c.left, r)

Guessed(c, r) ==
  LET a == Meant(c.left, r)
      b == Meant(c.right, r)
  IN \/ \E p \in {c.left, c.right} :
          NotFetched(p) \/ IntoNothing(p, r.body) \/ EndsEarly(p, r.body)
     \/ IsFunction(a) /\ IsFunction(b)
     \/ Unordered(c.op, a, b)
     \/ OtherwiseWritten(c, r)

\* What is at the end of a path is found: fields through objects, indices
\* through arrays of arrays, whatever lies on the way (walk, extractValue).
\* Any other answer lies at a beginning of the path where the walk may end: at
\* an array, a number or a boolean, or at a body that is a string.  And the
\* process only panics over a negative index, or over an index of a name in a
\* body that has no names: extractValue asserts the type unasked.
PathsAreFollowed ==
  step = "done" /\ result.body.type = "json" =>
    \A path \in Paths :
      LET body == result.body.value
          answer == Eval(path, body)
          target == At(path, body)[Len(path)]
      IN /\ target.type # "nil" => answer = Found(target)
         /\ answer.outcome = "found" /\ answer.value # target =>
              \E n \in 0..(Len(path) - 1) :
                /\ answer.value = At(path, body)[n]
                /\ \/ answer.value.type \in {"array", "scalar"}
                   \/ (answer.value.type = "string" /\ n = 0 /\ Len(path) = 1)
         /\ answer.outcome = "panic" =>
              \/ \E n \in DOMAIN path : \E i \in DOMAIN path[n].indices : path[n].indices[i] < 0
              \/ /\ Head(path).name # "" /\ Head(path).indices # <<>>
                 /\ body.type \notin {"nil", "object"}

\* A check without errors that ends healthy means that every condition holds of
\* what the endpoint really answered, whichever conditions made EvaluateHealth
\* look up addresses, domains and bodies (needsTo..., endpoint.go, lines 496 to
\* 523), whichever side a pattern, a list or a number stands on (isEqual), and
\* whatever a path finds; or else one of the guesses above was made, which read
\* as healthy in silence: a placeholder in lower case, a path into no body or
\* through an array, two functions, the order of what is no number or of a rest
\* that is cut off, two writings of one number.
HealthyMeansConditionsHold ==
  step = "done" /\ result.success /\ result.errors = <<>> =>
    \A i \in DOMAIN endpoint.conditions :
      Holds(endpoint.conditions[i], Truth) \/ Guessed(endpoint.conditions[i], Truth)

\* What a user asked to hide is in no error of the result that is stored: not
\* the rest of the URL, not the host, not the port, whatever else was hidden
\* before it (endpoint.go, lines 315 to 331).  But hiding the URL hides that of
\* the configuration only: an error that quotes a changed one still shows its
\* path, although hide-url promises that a token is not displayed (ui.go, line
\* 13).  A URL that could not be parsed has no host to hide, and the port of a
\* DNS server, or behind the address that is pinged, is part of the host name.
HiddenPartsAreRedacted ==
  step = "done" =>
    /\ \A error \in Range(result.errors) :
         /\ "url" \in endpoint.hide => "path" \notin Range(error) \/ "changed" \in Range(error)
         /\ "hostname" \in endpoint.hide /\ endpoint.parses => "host" \notin Range(error)
         /\ "port" \in endpoint.hide /\ endpoint.parses /\ TypeOf(endpoint) \notin {"dns", "icmp"}
              => "port" \notin Range(error)
    /\ "hostname" \in endpoint.hide => result.hostname = <<>>
    /\ "port" \in endpoint.hide => result.port = <<>>
=============================================================================
