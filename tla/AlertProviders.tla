--------------------------- MODULE AlertProviders ---------------------------
(***************************************************************************)
(* What sets the packages under app/alerting/provider apart.  Each has its *)
(* own Config, Validate, Merge, GetConfig and Send, written after the same *)
(* pattern; here each is a record of where it stands in that pattern, and  *)
(* ProviderConfig and Incidents model the pattern.  Fields go by the names *)
(* they have in YAML.  The wording of messages is left out.                *)
(*                                                                         *)
(*   required    fields that Config.Validate demands                       *)
(*   paired      fields it demands both of or none of                      *)
(*   checked     fields whose value it looks at: 0, a wrong length or a    *)
(*               wrong prefix is refused                                   *)
(*   defaulted   fields it gives a value when they have none               *)
(*   optional    the other fields                                          *)
(*   positive    numbers that Merge only takes from an override when they  *)
(*               are more than 0                                           *)
(*   pinned      fields that are only read when the client of a repository *)
(*               is built, which Validate does once per repository         *)
(*   groups      whether overrides by group exist ("none") and are checked *)
(*               for empty and repeated groups ("unique") or not ("any")   *)
(*   groupNeeds  fields that every override by group has to set            *)
(*   groupChecks fields of overrides by group whose value is looked at     *)
(*   calls       requests per Send: "one", one for "each" recipient, a     *)
(*               second to "close", or a list and an edit per open "issue" *)
(*   incident    what ties a resolution to what was opened: "nothing", the *)
(*               name of the "endpoint", its open "issues", a fingerprint  *)
(*               that is "generated" before the first request, or a key    *)
(*               that is "returned" by it, and passed on by later ones     *)
(*               ("continued") or not                                      *)
(***************************************************************************)
Basic(required, optional) ==
    [required |-> required, paired |-> {}, checked |-> {}, defaulted |-> {},
     optional |-> optional, positive |-> {}, pinned |-> {}, groups |-> "unique",
     groupNeeds |-> {}, groupChecks |-> {}, calls |-> "one",
     incident |-> "nothing"]

AWSSES ==
    [Basic({"from", "to"}, {"access-key-id", "secret-access-key", "region"})
     EXCEPT !.paired = {"access-key-id", "secret-access-key"},
            !.groupNeeds = {"to"}]

Custom ==
    [Basic({"url"}, {"method", "body", "headers", "placeholders", "client"})
     EXCEPT !.groups = "any"]

Datadog == Basic({"api-key"}, {"site", "tags"})

Discord ==
    [Basic({"webhook-url"}, {"title"}) EXCEPT !.groupNeeds = {"webhook-url"}]

Email ==
    [Basic({"from", "to", "host", "port"}, {"username", "password", "client"})
     EXCEPT !.checked = {"port"}, !.positive = {"port"}, !.groupNeeds = {"to"}]

Gitea ==
    [Basic({"repository-url", "token"}, {"assignees", "client"})
     EXCEPT !.checked = {"repository-url", "token"},
            !.pinned = {"repository-url", "token", "client"}, !.groups = "none",
            !.calls = "issue", !.incident = "issues"]

GitHub ==
    [Basic({"repository-url", "token"}, {})
     EXCEPT !.checked = {"repository-url", "token"},
            !.pinned = {"repository-url", "token"},
            !.groups = "none", !.calls = "issue", !.incident = "issues"]

GitLab ==
    [Basic({"webhook-url", "authorization-key"}, {"environment-name", "service"})
     EXCEPT !.checked = {"webhook-url"},
            !.defaulted = {"severity", "monitoring-tool"},
            !.groups = "none", !.incident = "generated"]

GoogleChat ==
    [Basic({"webhook-url"}, {"client"}) EXCEPT !.groupNeeds = {"webhook-url"}]

Gotify ==
    [Basic({"server-url", "token"}, {"title"})
     EXCEPT !.defaulted = {"priority"}, !.groups = "none"]

HomeAssistant == Basic({"url", "token"}, {})

IFTTT == Basic({"webhook-key", "event-name"}, {})

Ilert == [Basic({"integration-key"}, {}) EXCEPT !.incident = "endpoint"]

IncidentIO ==
    [Basic({"url", "auth-token"}, {"source-url", "metadata"})
     EXCEPT !.checked = {"url"}, !.incident = "continued"]

JetBrainsSpace == Basic({"project", "channel-id", "token"}, {})

Line == [Basic({"channel-access-token", "user-ids"}, {}) EXCEPT !.calls = "each"]

Matrix ==
    [Basic({"access-token", "internal-room-id"}, {})
     EXCEPT !.defaulted = {"server-url"},
            !.groupNeeds = {"access-token", "internal-room-id"}]

Mattermost ==
    [Basic({"webhook-url"}, {"channel", "client"})
     EXCEPT !.groupNeeds = {"webhook-url"}]

Messagebird ==
    [Basic({"access-key", "originator", "recipients"}, {})
     EXCEPT !.groups = "none"]

NewRelic == Basic({"insert-key", "account-id"}, {"region"})

Ntfy ==
    [Basic({"topic"},
           {"token", "email", "click", "disable-firebase", "disable-cache"})
     EXCEPT !.defaulted = {"url", "priority"},
            !.checked = {"priority", "token"}, !.positive = {"priority"},
            !.groupChecks = {"priority", "token"}]

Opsgenie ==
    [Basic({"api-key"}, {"tags"})
     EXCEPT !.defaulted = {"priority", "source", "entity-prefix", "alias-prefix"},
            !.groups = "none", !.calls = "close", !.incident = "endpoint"]

PagerDuty ==
    [Basic({"integration-key"}, {})
     EXCEPT !.checked = {"integration-key"}, !.incident = "returned"]

Plivo ==
    [Basic({"auth-id", "auth-token", "from", "to"}, {}) EXCEPT !.calls = "each"]

Pushover ==
    [Basic({"application-token", "user-key"}, {"title", "sound", "ttl", "device"})
     EXCEPT !.defaulted = {"priority", "resolved-priority"},
            !.checked = {"application-token", "user-key", "priority",
                         "resolved-priority", "device"},
            !.positive = {"ttl"},
            !.groups = "none"]

RocketChat == Basic({"webhook-url"}, {"channel"})

SendGrid == Basic({"api-key", "from", "to"}, {"client"})

Signal ==
    [Basic({"api-url", "number", "recipients"}, {}) EXCEPT !.calls = "each"]

SIGNL4 == [Basic({"team-secret"}, {}) EXCEPT !.incident = "endpoint"]

Slack == Basic({"webhook-url"}, {"title"})

Splunk == Basic({"hec-url", "hec-token"}, {"source", "sourcetype", "index"})

Squadcast == [Basic({"webhook-url"}, {}) EXCEPT !.incident = "endpoint"]

Teams == Basic({"webhook-url"}, {"title", "client"})

TeamsWorkflows == Basic({"webhook-url"}, {"title"})

Telegram ==
    [Basic({"token", "id"}, {"topic-id", "client"})
     EXCEPT !.defaulted = {"api-url"}]

Twilio ==
    [Basic({"sid", "token", "from", "to"},
           {"text-twilio-triggered", "text-twilio-resolved"})
     EXCEPT !.groups = "none"]

Vonage ==
    [Basic({"api-key", "api-secret", "from", "to"}, {}) EXCEPT !.calls = "each"]

Webex == Basic({"webhook-url"}, {})

Zapier == Basic({"webhook-url"}, {})

Zulip == Basic({"bot-email", "bot-api-key", "domain", "channel-id"}, {})
-----------------------------------------------------------------------------
\* The types of alerts there are.
AlertTypes ==
    {"aws-ses", "custom", "datadog", "discord", "email", "gitea", "github",
     "gitlab", "googlechat", "gotify", "homeassistant", "ifttt", "ilert",
     "incident-io", "jetbrainsspace", "line", "matrix", "mattermost",
     "messagebird", "newrelic", "ntfy", "opsgenie", "pagerduty", "plivo",
     "pushover", "rocketchat", "sendgrid", "signal", "signl4", "slack",
     "splunk", "squadcast", "teams", "teams-workflows", "telegram",
     "twilio", "vonage", "webex", "zapier", "zulip"}

(***************************************************************************)
(* alerting.Config by alert.Type: GetAlertingProviderByAlertType finds the *)
(* field whose YAML tag is the type.                                       *)
(***************************************************************************)
AlertingProviders ==
    [type \in AlertTypes |->
        CASE type = "aws-ses" -> AWSSES [] type = "custom" -> Custom
          [] type = "datadog" -> Datadog [] type = "discord" -> Discord
          [] type = "email" -> Email [] type = "gitea" -> Gitea
          [] type = "github" -> GitHub [] type = "gitlab" -> GitLab
          [] type = "googlechat" -> GoogleChat [] type = "gotify" -> Gotify
          [] type = "homeassistant" -> HomeAssistant
          [] type = "ifttt" -> IFTTT [] type = "ilert" -> Ilert
          [] type = "incident-io" -> IncidentIO
          [] type = "jetbrainsspace" -> JetBrainsSpace
          [] type = "line" -> Line [] type = "matrix" -> Matrix
          [] type = "mattermost" -> Mattermost
          [] type = "messagebird" -> Messagebird
          [] type = "newrelic" -> NewRelic [] type = "ntfy" -> Ntfy
          [] type = "opsgenie" -> Opsgenie [] type = "pagerduty" -> PagerDuty
          [] type = "plivo" -> Plivo [] type = "pushover" -> Pushover
          [] type = "rocketchat" -> RocketChat
          [] type = "sendgrid" -> SendGrid [] type = "signal" -> Signal
          [] type = "signl4" -> SIGNL4 [] type = "slack" -> Slack
          [] type = "splunk" -> Splunk [] type = "squadcast" -> Squadcast
          [] type = "teams" -> Teams
          [] type = "teams-workflows" -> TeamsWorkflows
          [] type = "telegram" -> Telegram [] type = "twilio" -> Twilio
          [] type = "vonage" -> Vonage [] type = "webex" -> Webex
          [] type = "zapier" -> Zapier [] type = "zulip" -> Zulip]

Fields(provider) == provider.required \cup provider.defaulted \cup provider.optional
=============================================================================
