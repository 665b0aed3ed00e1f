------------------------------- MODULE Health -------------------------------
(***************************************************************************)
(* EvaluateHealth (app/config/endpoint/endpoint.go) and the conditions     *)
(* (condition.go, placeholder.go): what is retrieved, in which order it    *)
(* fails, and what conditions make of what is missing.                     *)
(*                                                                         *)
(* A condition compares a placeholder with literals; the literals that are *)
(* equal to it (one, those of any(), those that match pat()) are a set.    *)
(* len(), certificates, domains and the context of suites are left out:    *)
(* they are values like the status, looked up like the IP or missing like  *)
(* a field of the body.                                                    *)
(***************************************************************************)
EXTENDS Integers

\* TCP and UDP differ in whether there is a body to send: without one nothing
\* is waited for, which is all that a UDP connection takes.
Kinds == {"HTTP", "TCP", "UDP", "SCTP", "ICMP", "TLS", "STARTTLS", "WS", "DNS",
          "SSH", "SSHBanner"}

\* A number or a text.
Number(n) == [text |-> "number", n |-> n]
Text(text) == [text |-> text, n |-> 0]
Bool(b) == Text(IF b THEN "true" ELSE "false")

Missing == Text("")
Invalid == Text("(INVALID)")

Placeholders == {"STATUS", "CONNECTED", "RESPONSE_TIME", "IP", "FIELD"}

\* Endpoint.Conditions: capitals, whether the placeholder is written so.
Condition(placeholder, has, op, literals) ==
    [placeholder |-> placeholder, has |-> has, op |-> op, literals |-> literals,
     capitals |-> TRUE]

InSmallLetters(c) == [c EXCEPT !.capitals = FALSE]

\* What the network does with a request: whether the name resolves, whether
\* the answer is complete, broken off after the connection (and the headers)
\* or nothing, and what it says.  Of UDP, which has no connection, it breaks off
\* when nobody is listening and is nothing when the address cannot be dialled.
Answers ==
    [resolves : BOOLEAN, reached : {"yes", "partly", "no"},
     status : {200, 500}, field : {Missing, Text("UP"), Text("DOWN")}]

\* The time a call takes, and that after which it is given up.
Elapsed == 10
GivenUp == 30

EmptyResult ==
    [success |-> TRUE, errors |-> FALSE, connected |-> FALSE, status |-> 0,
     duration |-> 0, ip |-> Missing, field |-> Missing]
-----------------------------------------------------------------------------
(* Conditions *)

\* ResolvePlaceholder, with or without has(); letters do not matter here.
Resolve(c, r) ==
    LET value == CASE c.placeholder = "STATUS"        -> Number(r.status)
                   [] c.placeholder = "CONNECTED"     -> Bool(r.connected)
                   [] c.placeholder = "RESPONSE_TIME" -> Number(r.duration)
                   [] c.placeholder = "IP"            -> r.ip
                   [] c.placeholder = "FIELD"         -> r.field
    IN  IF c.has THEN Bool(value # Missing)
        ELSE IF c.placeholder = "FIELD" /\ value = Missing THEN Invalid
        ELSE value

\* What is not a number counts as zero.
Numerical(value) == IF value.text = "number" THEN value.n ELSE 0

\* evaluate, for the operators that Validate accepts.
Holds(c, r) ==
    LET value == Resolve(c, r)
        bound == (CHOOSE literal \in c.literals : TRUE).n
    IN  CASE c.op = "==" -> value \in c.literals
          [] c.op = "!=" -> value \notin c.literals
          [] c.op = "<=" -> Numerical(value) <= bound
          [] c.op = ">=" -> Numerical(value) >= bound
          [] c.op = "<"  -> Numerical(value) < bound
          [] c.op = ">"  -> Numerical(value) > bound

\* Validate evaluates the condition of an empty result; only what has none
\* of these operators is refused.
ConditionsValid(e) ==
    /\ e.conditions # {}
    /\ \A c \in e.conditions : c.op \in {"==", "!=", "<=", ">=", "<", ">"}

\* hasBodyPlaceholder, hasIPPlaceholder: letters do matter.
Needs(e, placeholder) ==
    \E c \in e.conditions : c.placeholder = placeholder /\ c.capitals
-----------------------------------------------------------------------------
(* EvaluateHealth *)

Failed(r) == [r EXCEPT !.errors = TRUE]

\* call, for HTTP: the body is only read for conditions about it, and its
\* loss is an error that leaves everything else in place.  What was read of it
\* is kept, but has no fields.
CallHTTP(e, a, r) ==
    IF a.reached = "no" THEN Failed([r EXCEPT !.duration = Elapsed])
    ELSE [r EXCEPT !.duration = Elapsed, !.connected = TRUE, !.status = a.status,
                   !.field = IF Needs(e, "FIELD") /\ a.reached = "yes" THEN a.field ELSE @,
                   !.errors = Needs(e, "FIELD") /\ a.reached = "partly"]

\* CanCreateNetworkConnection: errors are not reported, and an answer that is
\* not complete is no connection.
CallTCP(a, r) ==
    LET timed == [r EXCEPT !.duration = Elapsed]
    IN  IF a.reached = "yes" THEN [timed EXCEPT !.connected = TRUE, !.field = a.field]
        ELSE timed

\* The same without a body: only the dial can fail.
CallUDP(a, r) == [r EXCEPT !.duration = Elapsed, !.connected = a.reached # "no"]

\* CanCreateSCTPConnection
CallSCTP(a, r) == [r EXCEPT !.duration = Elapsed, !.connected = a.reached # "no"]

\* Mutant: the loss of the packet is not looked at.
CallICMPWhateverIsLost(a, r) ==
    [r EXCEPT !.connected = a.reached # "no",
              !.duration = IF a.reached = "yes" THEN Elapsed ELSE 0]

\* Ping: a packet that is lost took the whole timeout, one that could not be
\* sent took no time.
CallICMP(a, r) ==
    [r EXCEPT !.connected = a.reached = "yes",
              !.duration = CASE a.reached = "yes"    -> Elapsed
                             [] a.reached = "partly" -> GivenUp
                             [] a.reached = "no"     -> 0]

\* CanPerformTLS: the connection counts even if nothing can be read from it.
CallTLS(a, r) ==
    IF a.reached = "yes"
    THEN [r EXCEPT !.duration = Elapsed, !.connected = TRUE, !.field = a.field]
    ELSE Failed([r EXCEPT !.connected = a.reached = "partly"])

\* CanPerformStartTLS
CallSTARTTLS(a, r) ==
    IF a.reached = "yes" THEN [r EXCEPT !.duration = Elapsed, !.connected = TRUE]
    ELSE Failed(r)

\* QueryWebSocket: an error before the message is there leaves nothing.
CallWS(a, r) ==
    IF a.reached = "yes"
    THEN [r EXCEPT !.duration = Elapsed, !.connected = TRUE, !.field = a.field]
    ELSE Failed(r)

\* QueryDNS: the body is the last of the answers.
CallDNS(a, r) ==
    IF a.reached = "yes"
    THEN [r EXCEPT !.duration = Elapsed, !.connected = TRUE, !.field = a.field]
    ELSE Failed(r)

\* CheckSSHBanner, without a user: the status is 1 or 0.
CallSSHBanner(a, r) ==
    IF a.reached = "yes" THEN [r EXCEPT !.duration = Elapsed, !.connected = TRUE]
    ELSE Failed([r EXCEPT !.status = 1])

\* CanCreateSSHConnection, ExecuteSSHCommand: the status is that of the command,
\* unless it cannot be run.
CallSSH(a, r) ==
    CASE a.reached = "yes" ->
            [r EXCEPT !.duration = Elapsed, !.connected = TRUE, !.status = a.status]
      [] a.reached = "partly" -> Failed([r EXCEPT !.connected = TRUE, !.success = FALSE])
      [] a.reached = "no" -> Failed(r)

\* call, by Type: every error returns early, with what was assigned before it.
Call(e, a, r) ==
    CASE e.kind = "HTTP"      -> CallHTTP(e, a, r)
      [] e.kind = "TCP"       -> CallTCP(a, r)
      [] e.kind = "UDP"       -> CallUDP(a, r)
      [] e.kind = "SCTP"      -> CallSCTP(a, r)
      [] e.kind = "ICMP"      -> CallICMP(a, r)
      [] e.kind = "TLS"       -> CallTLS(a, r)
      [] e.kind = "STARTTLS"  -> CallSTARTTLS(a, r)
      [] e.kind = "WS"        -> CallWS(a, r)
      [] e.kind = "DNS"       -> CallDNS(a, r)
      [] e.kind = "SSHBanner" -> CallSSHBanner(a, r)
      [] e.kind = "SSH"       -> CallSSH(a, r)

\* getIP, if a condition needs it.
LookedUp(e, a) ==
    IF ~Needs(e, "IP") THEN EmptyResult
    ELSE IF a.resolves THEN [EmptyResult EXCEPT !.ip = Text("address")]
    ELSE Failed(EmptyResult)

\* Nothing is called after an error, but conditions are always evaluated.
EvaluateHealth(e, a) ==
    LET before == LookedUp(e, a)
        after  == IF before.errors THEN [before EXCEPT !.success = FALSE]
                  ELSE Call(e, a, before)
    IN  [after EXCEPT !.success = @ /\ \A c \in e.conditions : Holds(c, after)]
-----------------------------------------------------------------------------
(* For reference *)

\* The answer as somebody sees it who asks for everything.
Seen(e, a) ==
    [EmptyResult EXCEPT
        !.connected = TRUE, !.duration = Elapsed,
        !.field = IF e.kind \in {"UDP", "SCTP", "ICMP", "STARTTLS", "SSH", "SSHBanner"}
                  THEN @ ELSE a.field,
        !.status = IF e.kind \in {"HTTP", "SSH"} THEN a.status ELSE @,
        !.ip = IF a.resolves THEN Text("address") ELSE @]

\* What a call may find out that gets no answer or loses it: the time, an
\* address, the status of an error; if it was broken off, the connection where
\* that is something of its own, and of HTTP the status.
Connecting == {"HTTP", "TCP", "UDP", "SCTP", "TLS", "SSH"}

LeftOf(e, a) ==
    [success : {TRUE}, errors : {FALSE},
     connected : IF a.reached = "partly" /\ e.kind \in Connecting THEN BOOLEAN ELSE {FALSE},
     status : {0, 1} \cup IF a.reached = "partly" /\ e.kind = "HTTP" THEN {a.status} ELSE {},
     duration : {0, Elapsed, GivenUp}, ip : {Missing, Text("address")}, field : {Missing}]

\* Conditions in capitals get what they are about.
InCapitals(e) == \A c \in e.conditions : c.capitals

\* A complete answer is healthy exactly if all conditions hold of it.
CompleteAnswerCounts(e, a) ==
    a.reached = "yes" =>
        (EvaluateHealth(e, a).success <=>
            /\ Needs(e, "IP") => a.resolves
            /\ \A c \in e.conditions : Holds(c, Seen(e, a)))

\* No answer, and one that is broken off, is only healthy if the conditions
\* hold, all at once, of something that it may leave.
LostAnswerMissed(e, a) ==
    a.reached # "yes" /\ EvaluateHealth(e, a).success =>
        \E left \in LeftOf(e, a) : \A c \in e.conditions : Holds(c, left)

\* The verdict is that of the answer, for conditions in capitals where it is
\* complete.
VerdictIsRight(e, a) ==
    /\ InCapitals(e) => CompleteAnswerCounts(e, a)
    /\ LostAnswerMissed(e, a)
=============================================================================
