---------------------------- MODULE MCExecution -----------------------------
(***************************************************************************)
(* Days of three hours of two minutes and weeks of two days, windows that  *)
(* start within an hour, last over midnight, (almost) a whole day or,      *)
(* where nothing validates them, longer, and an endpoint for each way in   *)
(* which a call can fail.                                                  *)
(***************************************************************************)
EXTENDS Execution, TLC

CONSTANTS g1, g2

MCGoroutines == {g1, g2}

Symmetry == Permutations(MCGoroutines)

On(start, duration, every) ==
    [enabled |-> TRUE, start |-> start, duration |-> duration, every |-> every]

Disabled == [On(0, 1, {}) EXCEPT !.enabled = FALSE]

MCOwnWindows == {{}, {On(1, 2, {})}, {On(3, 6, {0}), On(0, 2, {1})}, {On(2, 9, {0})}}

MCGlobalWindows == {Disabled, On(5, 4, {1}), On(4, 5, {}), On(1, 6, {0})}

StatusIs200 == Condition("STATUS", FALSE, "==", {Number(200)})

Connected == Condition("CONNECTED", FALSE, "==", {Bool(TRUE)})

FieldIsUp == Condition("FIELD", FALSE, "==", {Text("UP")})

HasField == Condition("FIELD", TRUE, "==", {Bool(TRUE)})

Fast == Condition("RESPONSE_TIME", FALSE, "<", {Number(20)})

Slow == Condition("RESPONSE_TIME", FALSE, ">", {Number(20)})

NotAnError == Condition("STATUS", FALSE, "!=", {Number(500)})

IPIsKnown == Condition("IP", FALSE, "==", {Text("address")})

StatusIsZero == Condition("STATUS", FALSE, "==", {Number(0)})

Of(kind, conditions) == [kind |-> kind, conditions |-> conditions]

MCEndpoints ==
    {Of("HTTP", conditions) : conditions \in
        {{StatusIs200}, {StatusIs200, FieldIsUp}, {HasField}, {NotAnError, Fast},
         {StatusIs200, IPIsKnown}, {Fast, InSmallLetters(FieldIsUp)}, {Slow}}}
    \union {Of(kind, {Connected, FieldIsUp}) : kind \in {"TCP", "TLS", "WS", "DNS"}}
    \union {Of(kind, {Connected, NotAnError}) : kind \in 
        {"TCP", "UDP", "SCTP", "TLS", "STARTTLS", "SSHBanner", "SSH"}}
    \union {Of("ICMP", {Connected, Fast}), Of("ICMP", {Fast})}
    \union {Of("SSH", {StatusIs200}), Of("SSHBanner", {StatusIsZero})}
=============================================================================
