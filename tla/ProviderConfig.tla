--------------------------- MODULE ProviderConfig ---------------------------
(***************************************************************************)
(* How the configuration that an alert is sent with comes about:           *)
(* validateAlertingConfig checks a provider when the file is loaded        *)
(* (app/config/config.go), GetConfig of the provider merges its overrides  *)
(* and checks again at every Send (app/alerting/provider).                 *)
(*                                                                         *)
(* A layer is a function from the fields that are written in it to values. *)
(* A value is where it was written; whether Validate likes it; whether it  *)
(* is a "zero" (an empty text or list, false, 0), a "negative" number or   *)
(* anything else ("plain"); and, for the URL of a repository, its path.    *)
(***************************************************************************)
EXTENDS AlertProviders, Integers, Sequences

Value(from, good) == [from |-> from, good |-> good, size |-> "plain", path |-> from]

\* The fields that are set once the layer is read: a zero is as good as nothing.
Set(layer) == {f \in DOMAIN layer : layer[f].size # "zero"}

\* The fields that Config.Merge takes from an override.
Taken(provider, override) ==
    {f \in Set(override) : f \in provider.positive => override[f].size # "negative"}

Overlay(cfg, layer, fields) ==
    [f \in fields \cup DOMAIN cfg |-> IF f \in fields THEN layer[f] ELSE cfg[f]]

\* Config.Merge.
Merge(provider, cfg, override) == Overlay(cfg, override, Taken(provider, override))

\* Config.Validate.
ConfigValid(provider, cfg) ==
    /\ provider.required \subseteq Set(cfg)
    /\ provider.paired \subseteq Set(cfg) \/ provider.paired \cap Set(cfg) = {}
    /\ \A f \in provider.checked \cap Set(cfg) : cfg[f].good

\* The defaults that Config.Validate sets on its way.
WithDefaults(provider, cfg) ==
    Overlay([f \in provider.defaulted |-> Value("built-in", TRUE)], cfg, Set(cfg))

\* Mutant: groups may repeat.
GroupsNamed(provider, overrides) ==
    provider.groups = "unique" =>
        \A i \in DOMAIN overrides :
            /\ overrides[i].group # ""
            /\ provider.groupNeeds \subseteq Set(overrides[i].cfg)
            /\ \A f \in provider.groupChecks \cap Set(overrides[i].cfg) :
                    overrides[i].cfg[f].good

\* The loop over Overrides in AlertProvider.Validate.
GroupsValid(provider, overrides) ==
    provider.groups = "unique" =>
        \A i \in DOMAIN overrides :
            /\ overrides[i].group # ""
            /\ \A j \in DOMAIN overrides :
                    overrides[i].group = overrides[j].group => i = j
            /\ provider.groupNeeds \subseteq Set(overrides[i].cfg)
            /\ \A f \in provider.groupChecks \cap Set(overrides[i].cfg) :
                    overrides[i].cfg[f].good

\* AlertProvider.Validate: a provider that fails it is set to nil.
Validate(provider, setup) ==
    /\ GroupsValid(provider, setup.overrides)
    /\ ConfigValid(provider, setup.default)

\* The overrides that GetConfig walks: the first of the group is merged.
OfGroup(provider, setup, group) ==
    {i \in DOMAIN setup.overrides :
        /\ provider.groups # "none"
        /\ setup.overrides[i].group = group}

\* Mutant: the override of the alert is merged before that of the group.
MergedGroupLast(provider, setup, group, override) ==
    LET default == WithDefaults(provider, setup.default)
        mine == OfGroup(provider, setup, group)
        first == CHOOSE i \in mine : \A j \in mine : i <= j
        ofAlert == Merge(provider, default, override)
    IN  IF mine = {} THEN ofAlert
        ELSE Merge(provider, ofAlert, setup.overrides[first].cfg)

\* A copy of DefaultConfig, then the group's override, then the alert's.
Merged(provider, setup, group, override) ==
    LET default == WithDefaults(provider, setup.default)
        mine == OfGroup(provider, setup, group)
        first == CHOOSE i \in mine : \A j \in mine : i <= j
        ofGroup == IF mine = {} THEN default
                   ELSE Merge(provider, default, setup.overrides[first].cfg)
    IN  Merge(provider, ofGroup, override)

(***************************************************************************)
(* The client of a repository is built by Validate and copied along with   *)
(* the default configuration: as long as the owner and the name of the     *)
(* repository are the same, whatever the host, Validate returns early and  *)
(* what only the client and the list of issues go by stays as it was.      *)
(***************************************************************************)
Effective(provider, setup, cfg) ==
    IF /\ provider.pinned # {}
       /\ cfg["repository-url"].path = setup.default["repository-url"].path
    THEN [f \in (DOMAIN cfg \ provider.pinned)
                    \cup (Set(setup.default) \cap provider.pinned) |->
              IF f \in provider.pinned THEN setup.default[f] ELSE cfg[f]]
    ELSE cfg

(***************************************************************************)
(* AlertProvider.GetConfig, as Send and ValidateOverrides call it: the     *)
(* configuration and whether it is valid.                                  *)
(***************************************************************************)
GetConfig(provider, setup, group, override) ==
    LET cfg == Effective(provider, setup,
                         Merged(provider, setup, group, override))
    IN  [cfg |-> cfg, ok |-> ConfigValid(provider, cfg)]
-----------------------------------------------------------------------------
(***************************************************************************)
(* MergeProviderDefaultAlertIntoEndpointAlert, for the failure threshold.  *)
(* An alert without one has 0.                                             *)
(***************************************************************************)
MergeDefaultAlert(defaultAlert, threshold) ==
    IF threshold = 0 THEN defaultAlert ELSE threshold

\* Alert.ValidateAndSetDefaults.
AlertDefaults(threshold) == IF threshold <= 0 THEN 3 ELSE threshold

\* Mutant: validateEndpointsConfig runs before validateAlertingConfig.
LoadedEndpointsFirst(owner, valid, defaultAlert, threshold) ==
    IF owner # "suite" /\ valid
    THEN MergeDefaultAlert(defaultAlert, AlertDefaults(threshold))
    ELSE AlertDefaults(threshold)

(***************************************************************************)
(* The failure threshold that parseAndValidateConfigBytes leaves an alert  *)
(* with.  validateAlertingConfig, which merges the default alerts of valid *)
(* providers, is given endpoints and external endpoints and not the        *)
(* suites; the endpoints and suites are validated after it.                *)
(***************************************************************************)
LoadedThreshold(owner, valid, defaultAlert, threshold) ==
    IF owner # "suite" /\ valid
    THEN AlertDefaults(MergeDefaultAlert(defaultAlert, threshold))
    ELSE AlertDefaults(threshold)
=============================================================================
