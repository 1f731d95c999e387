--------------------------- MODULE MCEvaluation ---------------------------
(* Bounds for model checking Evaluation, JsonPath and Maintenance. *)
EXTENDS Evaluation, Maintenance

\* JSON values: small trees of objects and arrays over one number, one word
\* and nothing.
Leaves == {Nil, Scalar(Decimal(1)), Text(Word("w"))}
Arrays(items) == {Array(s) : s \in {<<>>} \cup {<<x>> : x \in items} \cup {<<x, y>> : x, y \in items}}
Objects(values) == {Object(f) : f \in UNION {[names -> values] : names \in SUBSET {"a", "b"}}}
Small == Leaves \cup Arrays({Nil, Text(Word("w"))}) \cup Objects({Nil, Scalar(Decimal(1))})
Big == Scalar(Decimal(Million))
MCBodies ==
  Small \cup Arrays(Small) \cup Objects(Small) \cup {Big, Object([x \in {"a"} |-> Big])}

\* Only the first key may be an index alone: a later one belongs to a name.
Names == [name : {"a", "b"}, indices : {<<>>, <<0>>, <<1>>, <<-1>>, <<1, 0>>}]
Keys == Names \cup [name : {""}, indices : {<<0>>, <<1>>, <<0, 1>>}]
MCPaths == {<<>>} \cup {<<k>> : k \in Keys} \cup {<<k, l>> : k \in Keys, l \in Names}

FewReplies == {Empty, Cut, Plain(Word("w")),
              Json(Object([x \in {"a"} |-> Scalar(Decimal(1))])),
              Json(Object([x \in {"a"} |-> Big])),
              Json(Array(<<Text(Word("w"))>>))}

A == <<Key("a", <<>>)>>
Status == Placeholder("STATUS")
MCConditions ==
  { <<Compare(Status, "==", Literal(Decimal(2)))>>,
    <<Compare(Literal(AnyOf(<<Decimal(2), Decimal(3)>>)), "==", Status),
      Compare(Path("has", A), "==", Literal(Word("false")))>>,
    <<Compare(Placeholder("CONNECTED"), "==", Literal(Word("true"))),
      Compare(Literal(Pattern({Word("w"), Word("")})), "!=", Placeholder("BODY"))>>,
    <<Compare(Placeholder("IP"), "==", Literal(Pattern({Word("ip")}))),
      Compare(Path("", A), "<=", Literal(Hex(1)))>>,
    <<Compare(Placeholder("DOMAIN_EXPIRATION"), ">", Literal(Time(1))),
      Compare(Placeholder("RESPONSE_TIME"), "<", Literal(Time(4))),
      Compare(LowerCase("BODY"), "!=", Literal(Word("w")))>>,
    <<Compare(Placeholder("DNS_RCODE"), "==", Literal(Word("NOERROR"))),
      Compare(Placeholder("DNS_RCODE"), "<", Literal(Decimal(1))),
      Compare(Path("len", <<>>), ">=", Literal(Float(1)))>>,
    <<Compare(Path("", A), "!=", Literal(AnyOf(<<Decimal(Million), Decimal(2)>>))),
      Compare(Literal(Pattern({Decimal(Million)})), "!=", Path("", A)),
      Compare(Literal(Pattern({})), "==", Literal(Pattern({})))>>,
    <<Compare(Placeholder("CERTIFICATE_EXPIRATION"), ">", Literal(Decimal(0))),
      Compare(Path("", <<Key("a", <<0>>)>>), "==", Literal(Word("w")))>> }

\* Hidden parts matter to the errors, conditions to the answers: an endpoint
\* varies the one or the other.
Varied ==
  {<<hide, conditions>> \in (SUBSET {"url", "hostname", "port"} \cup {{"conditions"}}) \X MCConditions :
     hide = {} \/ Len(conditions) = 1 \/ conditions[1].left.name \in {"IP"}}

\* A body to send matters to some types only; the address that is pinged has a
\* port or none.
Sections ==
  { <<scheme, FALSE, "none", TRUE>> : scheme \in Schemes }
    \cup { <<scheme, FALSE, ssh, parses>> :
             scheme \in {"ssh", "unknown"}, ssh \in {"banner", "login"}, parses \in BOOLEAN }
    \cup { <<"unknown", TRUE, "none", TRUE>> }
MCEndpoints ==
  LET some ==
        { [scheme |-> k[1], dns |-> k[2], ssh |-> k[3], parses |-> k[4],
           port |-> k[1] # "icmp" \/ sends, sends |-> sends, frequent |-> FALSE,
           hide |-> v[1], conditions |-> v[2]] :
            k \in Sections, sends \in BOOLEAN, v \in Varied }
  IN { e \in some : e.sends \/ e.scheme \in {"tcp", "udp", "tls", "ssh", "icmp"} }

\* One endpoint answers with every body, another one is checked under every
\* maintenance; the other ones meet a few bodies and a whole day.
AnyBody ==
  CHOOSE e \in MCEndpoints :
    /\ e.scheme = "ws" /\ e.sends /\ e.hide = {}
    /\ e.conditions[1].left.name = "CONNECTED"
AnyMaintenance ==
  CHOOSE e \in MCEndpoints : e.scheme = "icmp" /\ e.hide = {"conditions"} /\ Len(e.conditions) = 1
OneMaintenance == [owner |-> "endpoint", start |-> <<0, 0>>, duration |-> Day, every |-> {}]

\* A start that is not parsed may be any of a few.
SomeMaintenance ==
  /\ Configured
  /\ Validated(config) \/ config.start \in {<<0, 0>>, <<2, 1>>, <<HoursADay, -1>>}
  /\ config.owner \in {"endpoint", "dns"}

MCRepliesOf(e) ==
  FewReplies \cup (IF e = AnyBody THEN {Json(b) : b \in MCBodies} ELSE {})

MCInit ==
  /\ Init
  /\ IF endpoint = AnyMaintenance /\ world.body = Empty /\ ~world.cached
     THEN SomeMaintenance ELSE config = OneMaintenance
MCNext == Next /\ UNCHANGED config
MCSpec == MCInit /\ [][MCNext]_<<vars, config>>
=============================================================================
