--------------------------- MODULE MCNotifications ---------------------------
(* Instances of Notifications: which configurations are loaded. *)
EXTENDS Notifications

\* The values a level may give to a field.
Some(p, level, f) ==
  {Value(level, form) :
     form \in {"good", "zero"} \union p.malformed[f] \union p.groupMalformed[f]
             \union (IF f \in p.nonnegative THEN {"low"} ELSE {})
             \union (IF level = "alert" THEN {"mistyped"} ELSE {})
             \union (IF f = "repository-url" /\ level = "alert" THEN {"moved"} ELSE {})}

Plain(p, level, given) ==
  [f \in p.fields |-> IF f \in given THEN Value(level, "good") ELSE Absent]

\* What groups require, with at most one field more.
Overrides(p, level, given) ==
  LET plain == Plain(p, level, given)
  IN {plain} \union UNION {{[plain EXCEPT ![f] = v] : v \in Some(p, level, f)} : f \in p.fields}

\* What is required, with at most one field changed.
Defaults(p) ==
  LET full == Plain(p, "default", p.required)
  IN {full} \union UNION {{[full EXCEPT ![f] = v] : v \in {Absent} \union Some(p, "default", f)}
                          : f \in p.fields}

\* Overrides of the group, of another one or of none, or the group named twice.
Groups(p) ==
  LET plain == Plain(p, "group", p.groupRequires)
  IN IF ~p.byGroup THEN {<<>>}
     ELSE {<<>>, <<[group |-> "core", config |-> Plain(p, "group", p.required)],
                   [group |-> "core", config |-> plain]>>}
          \union {<<[group |-> g, config |-> plain]>> : g \in {"", "edge"}}
          \union {<<[group |-> "core", config |-> c]>> :
                    c \in Overrides(p, "group", p.groupRequires)}

SetupsOf(p) ==
  [provider: {p}, default: Defaults(p), overrides: Groups(p),
   group: {"core"} \union (IF p.checksGroups THEN {} ELSE {""}),
   override: Overrides(p, "alert", {}) \union Overrides(p, "alert", p.clientOf)]

AllSetups == UNION {SetupsOf(p) : p \in Providers}
=============================================================================
