---------------------------- MODULE MCIncidents ----------------------------
EXTENDS Incidents, TLC

MCAlerts == {1, 2}

Good(f, from) == f :> Value(from, TRUE)

Plain(fields, from) == [f \in fields |-> Value(from, TRUE)]

NoFields == [f \in {} |-> Value("default", TRUE)]

Sized(from, size, good) == [Value(from, good) EXCEPT !.size = size]

\* Field f in one layer: unset, a zero, or set well, or badly if that is noticed,
\* which a negative number is where only positive ones are good.
Written(type, f, from) ==
    LET p == AlertingProviders[type]
    IN  {NoFields, Good(f, from), f :> Sized(from, "zero", FALSE)}
        \cup (IF f \in p.checked THEN {f :> Value(from, FALSE)} ELSE {})
        \cup (IF f \in p.positive THEN {f :> Sized(from, "negative", f \notin p.checked)}
              ELSE {})

Base == [type |-> "slack", owner |-> "endpoint", due |-> FALSE,
         sendOnResolved |-> TRUE, group |-> "core", override |-> NoFields,
         threshold |-> 0, defaultAlert |-> 0,
         setup |-> [default |-> NoFields, overrides |-> <<>>]]

Accepted(type) ==
    [default |-> Plain(AlertingProviders[type].required, "default"),
     overrides |-> <<>>]

\* One provider of each kind, with nothing to say about its configuration.
IncidentUses ==
    {[Base EXCEPT !.type = type, !.owner = owner, !.due = TRUE,
                  !.sendOnResolved = sends, !.setup = Accepted(type)] :
        type \in {"gitlab", "pagerduty", "incident-io", "opsgenie", "squadcast",
                  "github", "plivo", "slack"},
        owner \in {"endpoint", "suite"}, sends \in BOOLEAN}

\* Field f in the second of two overrides by group, where it matters less.
WrittenSecond(f) == {NoFields, Good(f, "second group")}

\* An override by group; what every override needs is there but for f.
GroupOverride(type, f, group, from, written) ==
    [group |-> group,
     cfg |-> written @@ Plain(AlertingProviders[type].groupNeeds \ {f}, from)]

Overrides(type, f) ==
    LET one(group) == {GroupOverride(type, f, group, "first group", w) :
                        w \in Written(type, f, "first group")}
        two(group) == {GroupOverride(type, f, group, "second group", w) :
                        w \in WrittenSecond(f)}
        names == {<<"core", "ops">>, <<"core", "core">>, <<"ops", "core">>}
    IN  {<<>>} \cup
        {<<o>> : o \in one("core") \cup one("")} \cup
        UNION {{<<o, p>> : o \in one(n[1]), p \in two(n[2])} : n \in names}

\* Every type, with one field written in any of its layers.  The other of two
\* paired fields is there or not.
ConfigUses ==
    UNION {UNION {
        LET p == AlertingProviders[type]
            others == {p.required \ {f}, (p.required \cup p.paired) \ {f}}
        IN  {[Base EXCEPT !.type = type, !.override = w,
                          !.setup = [default |-> d @@ Plain(o, "default"),
                                     overrides |-> g]] :
                w \in Written(type, f, "alert"), d \in Written(type, f, "default"),
                o \in others,
                g \in IF p.groups = "none" THEN {<<>>} ELSE Overrides(type, f)}
        : f \in Fields(AlertingProviders[type])} : type \in DOMAIN AlertingProviders}

\* The repository itself may be overridden, with or without a token.
RepositoryUses ==
    {[Base EXCEPT !.type = type, !.setup = Accepted(type),
                  !.override = Plain(fields, "alert")] :
        type \in {"github", "gitea"}, fields \in SUBSET {"repository-url", "token"}}

\* Or only its host: the path of the URL is that of the default.
MovedUses ==
    {[u EXCEPT !.override["repository-url"].path = "default"] :
        u \in {v \in RepositoryUses : "repository-url" \in DOMAIN v.override}}

ThresholdUses ==
    {[Base EXCEPT !.owner = owner, !.threshold = own, !.defaultAlert = default,
                  !.setup = setup] :
        owner \in {"endpoint", "external", "suite"}, own \in {-1, 0, 3, 5},
        default \in {0, 3, 7}, setup \in {Base.setup, Accepted("slack")}}

MCOverrides == RepositoryUses \cup MovedUses

MCUses == IncidentUses \cup ConfigUses \cup MCOverrides \cup ThresholdUses
=============================================================================
