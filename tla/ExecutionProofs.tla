-------------------------- MODULE ExecutionProofs ---------------------------
(***************************************************************************)
(* That executions go by fresh answers of the connectivity checker, that   *)
(* verdicts are those of the answers, for any endpoints, and that alerts   *)
(* are muted by the windows that are open, for any number of goroutines,   *)
(* any windows and any lengths of hours, days, weeks, interval and timeout.*)
(***************************************************************************)
EXTENDS Execution, TLAPS

-----------------------------------------------------------------------------
(* Whole hours *)

\* A minute lies in the hour that it is rounded down to.
LEMMA WholeHours ==
    ASSUME NEW m \in Nat
    PROVE  /\ m \div Hour \in Nat
           /\ m % Hour \in 0..Hour - 1
           /\ m = Hour * (m \div Hour) + (m % Hour)
BY TimeAssumption

\* Of two minutes, the one in the later hour is the later one.
LEMMA LaterHours ==
    ASSUME NEW h \in Nat, NEW k \in Nat, h < k
    PROVE  Hour * h + Hour <= Hour * k
<1>1. PICK d \in Nat : k = h + 1 + d
  <2>1. k - h - 1 \in Nat /\ k = h + 1 + (k - h - 1)
    OBVIOUS
  <2> QED BY <2>1
<1>2. Hour \in Nat
  BY TimeAssumption
<1>3. Hour * k = Hour * h + Hour + Hour * d
  BY <1>1, <1>2
<1>4. Hour * d \in Nat
  BY <1>1, <1>2
<1>5. Hour * h \in Nat /\ Hour * k \in Nat
  BY <1>2
<1> QED BY <1>2, <1>3, <1>4, <1>5

-----------------------------------------------------------------------------
(* The windows of maintenance *)

\* IsUnderMaintenance never finds a window open that is not: the day it looks
\* at is today or yesterday.
LEMMA OnlyOpenWindows ==
    ASSUME NEW w \in Windows, NEW t \in Times, IsUnderMaintenance(w, t)
    PROVE  InWindow(w, t)
<1>1. StartDay(w, t) \in {t.day - 1, t.day}
  BY DEF StartDay
<1> QED BY <1>1 DEF IsUnderMaintenance, InWindow

\* It misses no window that is over before the hour of its next start: in
\* that hour or later, it would have to be today's (maintenance.go:107-130).
LEMMA NoWindowMissed ==
    ASSUME NEW w \in Windows, NEW t \in Times,
           InWindow(w, t), EndsBeforeStartHour(w)
    PROVE  IsUnderMaintenance(w, t)
<1> DEFINE m == t.minute
           s == w.start
<1>1. PICK day \in {t.day - 1, t.day} : ScheduledOn(w, day) /\ Within(w, t, day)
  BY DEF InWindow
<1>2. /\ m \in Nat /\ s \in Nat /\ m < Day /\ s < Day
      /\ w.duration \in Int /\ Day \in Nat /\ t.day \in Int
  BY TimeAssumption DEF Windows, Times, Minutes
<1>3. /\ m \div Hour \in Nat /\ m % Hour \in 0..Hour - 1
      /\ m = Hour * (m \div Hour) + (m % Hour)
  BY <1>2, WholeHours
<1>4. /\ s \div Hour \in Nat /\ s % Hour \in 0..Hour - 1
      /\ s = Hour * (s \div Hour) + (s % Hour)
  BY <1>2, WholeHours
<1> DEFINE mh == Hour * (m \div Hour)
           sh == Hour * (s \div Hour)
           mr == m % Hour
           sr == s % Hour
<1>5. /\ Hour \in Nat /\ mh \in Nat /\ sh \in Nat
      /\ mr \in 0..Hour - 1 /\ sr \in 0..Hour - 1
      /\ m = mh + mr /\ s = sh + sr
  BY <1>3, <1>4, TimeAssumption
<1>6. w.duration <= Day - sr
  BY DEF EndsBeforeStartHour
<1>7. StartDay(w, t) = day
  <2>1. CASE day = t.day - 1
    <3>1. m + Day < s + w.duration
      BY <1>1, <1>2, <2>1 DEF Within
    <3>2. m < sh
      <4> HIDE DEF m, s, mh, sh, mr, sr
      <4> QED BY <1>2, <1>5, <1>6, <3>1
    <3>3. m \div Hour < s \div Hour
      <4>1. SUFFICES ASSUME ~(m \div Hour < s \div Hour)
                     PROVE  FALSE
        OBVIOUS
      <4>2. sh <= mh
        <5>1. CASE m \div Hour = s \div Hour
          BY <5>1, <1>5
        <5>2. CASE s \div Hour < m \div Hour
          <6>1. sh + Hour <= mh
            BY <5>2, <1>3, <1>4, LaterHours
          <6> HIDE DEF mh, sh
          <6> QED BY <6>1, <1>5
        <5> QED BY <4>1, <5>1, <5>2, <1>3, <1>4
      <4> HIDE DEF m, s, mh, sh, mr, sr
      <4> QED BY <4>2, <3>2, <1>2, <1>5
    <3> QED BY <2>1, <3>3 DEF StartDay
  <2>2. CASE day = t.day
    <3>1. s < m
      BY <1>1, <1>2, <2>2 DEF Within
    <3>2. ~(m \div Hour < s \div Hour)
      <4>1. SUFFICES ASSUME m \div Hour < s \div Hour
                     PROVE  FALSE
        OBVIOUS
      <4>2. mh + Hour <= sh
        BY <4>1, <1>3, <1>4, LaterHours
      <4> HIDE DEF m, s, mh, sh, mr, sr
      <4> QED BY <4>2, <3>1, <1>2, <1>5
    <3> QED BY <2>2, <3>2 DEF StartDay
  <2> QED BY <2>1, <2>2
<1>8. w.enabled
  BY DEF InWindow
<1> QED BY <1>1, <1>7, <1>8 DEF IsUnderMaintenance

-----------------------------------------------------------------------------
(* The steps of an execution *)

Places ==
    {"idle", "checking", "publishing", "reading", "evaluating", "own windows",
     "global window", "deciding"}

\* What the variables hold, as far as the two invariants below need it.
Typed ==
    /\ now \in Times
    /\ own \subseteq Windows
    /\ global \in Windows
    /\ lastCheck \in Ages
    /\ isConnected \in [connected : BOOLEAN, age : Ages]
    /\ pc \in [Goroutines -> Places]
    /\ check \in [Goroutines -> 0..Timeout]
    /\ scheduled \in [Goroutines -> SUBSET Windows]

MutedTyped == muted \in [Goroutines -> BOOLEAN]

\* Until all windows were looked at, what was found so far is right.
FoundSoFar ==
    \A g \in Goroutines : pc[g] \in {"global window", "deciding"} =>
        /\ muted[g] => scheduled[g] # {}
        /\ (\E w \in scheduled[g] : EndsBeforeStartHour(w)) => muted[g]

Publishing == \E g \in Goroutines : pc[g] = "publishing"

\* The answer is as old as the time that is kept, up to the length of a check,
\* unless one of the two is about to be assigned; who reads it may use it.
AnswerGoesWithTime ==
    /\ ~stale
    /\ Publishing \/ isConnected.age <= lastCheck + Timeout
    /\ \A g \in Goroutines : pc[g] = "reading" =>
          Publishing \/ isConnected.age <= Interval + Timeout

(***************************************************************************)
(* An age is a number of steps up to one that is beyond all that matter.   *)
(***************************************************************************)
LEMMA NeverAssumed ==
    /\ Interval \in Nat /\ Timeout \in Nat
    /\ Never \in Nat /\ Never = Interval + Timeout + 1
    /\ Ages = 0..Never
    /\ 0 \in Ages /\ Never \in Ages
    /\ 0..Timeout \subseteq Ages
    /\ 0 \in 0..Timeout
BY DurationAssumption DEF Never, Ages

(***************************************************************************)
(* An age grows by one until it is beyond all that matter.                 *)
(***************************************************************************)
LEMMA OlderAge ==
    ASSUME NEW age \in Ages
    PROVE  /\ Older(age) \in Ages
           /\ Older(age) = age \/ Older(age) = age + 1
           /\ age # Never => Older(age) = age + 1
BY NeverAssumed DEF Older

\* The clock only shows times, also across midnight and the end of the week.
LEMMA LaterMoment ==
    ASSUME now \in Times,
           now' = IF now.minute < Day - 1 THEN [now EXCEPT !.minute = @ + 1]
                  ELSE [day |-> Weekday(now.day + 1), minute |-> 0]
    PROVE  now' \in Times
<1>1. now.day \in Int /\ now.minute \in Nat /\ now.minute < Day /\ Day \in Nat \ {0}
  BY TimeAssumption DEF Times, Minutes
<1>2. now.day + 1 \in Int
  BY <1>1
<1>3. Weekday(now.day + 1) \in Int
  BY <1>2, TimeAssumption DEF Weekday
<1>4. CASE now.minute < Day - 1
  <2>1. now.minute + 1 \in Minutes
    BY <1>1, <1>4 DEF Minutes
  <2>2. now' = [now EXCEPT !.minute = now.minute + 1]
    BY <1>4
  <2> QED BY <2>1, <2>2 DEF Times
<1>5. CASE ~(now.minute < Day - 1)
  <2>1. 0 \in Minutes
    BY <1>1 DEF Minutes
  <2>2. now' = [day |-> Weekday(now.day + 1), minute |-> 0]
    BY <1>5
  <2> HIDE DEF Weekday
  <2> QED BY <1>3, <2>1, <2>2 DEF Times
<1> QED BY <1>4, <1>5

(***************************************************************************)
(* The variables have their types in the first state ...                   *)
(***************************************************************************)
LEMMA TypedInitially == Init => Typed
<1> SUFFICES ASSUME Init PROVE Typed
  OBVIOUS
<1>1. now \in Times
  BY DEF Init, Times, WeekDays
<1>2. own \subseteq Windows
  <2>1. PICK ws \in OwnWindows, early \in BOOLEAN : own = Loaded(ws, early)
    BY DEF Init
  <2>2. ws \subseteq Windows
    BY ConfigurationAssumption
  <2>3. ASSUME NEW w \in Windows PROVE Unvalidated(w) \in Windows
    BY TimeAssumption DEF Windows, Unvalidated, Minutes
  <2> QED BY <2>1, <2>2, <2>3 DEF Loaded
<1>3. global \in Windows
  BY ConfigurationAssumption DEF Init
<1>4. /\ lastCheck \in Ages
      /\ isConnected \in [connected : BOOLEAN, age : Ages]
      /\ check \in [Goroutines -> 0..Timeout]
  BY NeverAssumed DEF Init
<1>5. /\ pc \in [Goroutines -> Places]
      /\ scheduled \in [Goroutines -> SUBSET Windows]
  BY DEF Init, Places
<1> QED BY <1>1, <1>2, <1>3, <1>4, <1>5 DEF Typed

(***************************************************************************)
(* ... and keep them.                                                      *)
(***************************************************************************)
LEMMA TypedKept == Typed /\ [Next]_vars => Typed'
<1> SUFFICES ASSUME Typed, [Next]_vars PROVE Typed'
  OBVIOUS
<1> USE DEF Typed, Places
<1>1. CASE Tick
  <2>1. now' \in Times
    BY <1>1, LaterMoment DEF Tick
  <2>2. lastCheck' \in Ages /\ isConnected' \in [connected : BOOLEAN, age : Ages]
    BY <1>1, OlderAge DEF Tick
  <2>3. check' \in [Goroutines -> 0..Timeout]
    <3>1. ASSUME NEW g \in Goroutines, pc[g] = "checking"
          PROVE  check[g] + 1 \in 0..Timeout
      <4>1. check[g] < Timeout
        BY <1>1, <3>1 DEF Tick
      <4>2. check[g] \in 0..Timeout
        OBVIOUS
      <4> HIDE DEF Typed
      <4> QED BY <4>1, <4>2, NeverAssumed
    <3>2. check' = [g \in Goroutines |-> IF pc[g] = "checking" THEN check[g] + 1
                                         ELSE check[g]]
      BY <1>1 DEF Tick
    <3>3. check \in [Goroutines -> 0..Timeout]
      OBVIOUS
    <3> HIDE DEF Typed
    <3> QED BY <3>1, <3>2, <3>3
  <2> QED BY <1>1, <2>1, <2>2, <2>3 DEF Tick
<1>2. ASSUME NEW g \in Goroutines, Ask(g) PROVE Typed'
  BY <1>2, NeverAssumed DEF Ask
<1>3. ASSUME NEW g \in Goroutines, PublishTime(g) PROVE Typed'
  BY <1>3, NeverAssumed DEF PublishTime
<1>4. ASSUME NEW g \in Goroutines, PublishAnswer(g) PROVE Typed'
  <2>1. PICK connected \in BOOLEAN :
           isConnected' = [connected |-> connected, age |-> check[g]]
    BY <1>4 DEF PublishAnswer
  <2>2. isConnected' \in [connected : BOOLEAN, age : Ages]
    BY <2>1, NeverAssumed
  <2>3. pc' \in [Goroutines -> Places] /\ check' \in [Goroutines -> 0..Timeout]
    BY <1>4, NeverAssumed DEF PublishAnswer
  <2> QED BY <1>4, <2>2, <2>3 DEF PublishAnswer
<1>5. ASSUME NEW g \in Goroutines, Read(g) PROVE Typed'
  <2>1. PICK place \in {"evaluating", "idle"} : pc' = [pc EXCEPT ![g] = place]
    BY <1>5 DEF Read
  <2> QED BY <1>5, <2>1 DEF Read
<1>6. ASSUME NEW g \in Goroutines, Evaluate(g) PROVE Typed'
  BY <1>6 DEF Evaluate
<1>7. ASSUME NEW g \in Goroutines, LookAtOwnWindows(g) PROVE Typed'
  BY <1>7 DEF LookAtOwnWindows
<1>8. ASSUME NEW g \in Goroutines, LookAtGlobalWindow(g) PROVE Typed'
  BY <1>8 DEF LookAtGlobalWindow
<1>9. ASSUME NEW g \in Goroutines, Decide(g) PROVE Typed'
  BY <1>9 DEF Decide
<1>10. CASE UNCHANGED vars
  BY <1>10 DEF vars
<1> QED
  BY <1>1, <1>2, <1>3, <1>4, <1>5, <1>6, <1>7, <1>8, <1>9, <1>10 DEF Next

(***************************************************************************)
(* What an execution has found out of its windows keeps its type.          *)
(***************************************************************************)
LEMMA MutedTypedKept == MutedTyped /\ [Next]_vars => MutedTyped'
<1> SUFFICES ASSUME MutedTyped, [Next]_vars PROVE MutedTyped'
  OBVIOUS
<1> USE DEF MutedTyped
<1>1. ASSUME NEW g \in Goroutines, NEW found \in BOOLEAN,
             muted' = [muted EXCEPT ![g] = found]
      PROVE  MutedTyped'
  BY <1>1, Zenon
<1>2. ASSUME NEW g \in Goroutines, LookAtOwnWindows(g) PROVE MutedTyped'
  BY <1>1, <1>2, Zenon DEF LookAtOwnWindows
<1>3. ASSUME NEW g \in Goroutines, LookAtGlobalWindow(g) PROVE MutedTyped'
  BY <1>1, <1>3, Zenon DEF LookAtGlobalWindow
<1>4. ASSUME NEW g \in Goroutines, Decide(g) PROVE MutedTyped'
  BY <1>1, <1>4, Zenon DEF Decide
<1>5. ASSUME UNCHANGED muted PROVE MutedTyped'
  BY <1>5
<1>6. UNCHANGED muted
      \/ \E g \in Goroutines : LookAtOwnWindows(g) \/ LookAtGlobalWindow(g) \/ Decide(g)
  BY DEF Next, vars, Tick, Ask, PublishTime, PublishAnswer, Read, Evaluate
<1> QED BY <1>2, <1>3, <1>4, <1>5, <1>6, Zenon

-----------------------------------------------------------------------------
(* Muting *)

\* What one look at a set of windows finds is right about them.
LEMMA LookIsRight ==
    ASSUME NEW ws, ws \subseteq Windows, NEW t \in Times
    PROVE  /\ (\E w \in ws : IsUnderMaintenance(w, t)) => {w \in ws : InWindow(w, t)} # {}
           /\ (\E w \in {v \in ws : InWindow(v, t)} : EndsBeforeStartHour(w))
                => \E w \in ws : IsUnderMaintenance(w, t)
BY OnlyOpenWindows, NoWindowMissed, Zenon

(***************************************************************************)
(* The windows that were looked at say whether the execution is muted.     *)
(***************************************************************************)
LEMMA FoundSoFarKept ==
    Typed /\ MutedTyped /\ FoundSoFar /\ [Next]_vars => FoundSoFar'
<1> SUFFICES ASSUME Typed, MutedTyped, FoundSoFar, [Next]_vars PROVE FoundSoFar'
  OBVIOUS
<1> DEFINE Right(g) ==
             /\ muted[g] => scheduled[g] # {}
             /\ (\E w \in scheduled[g] : EndsBeforeStartHour(w)) => muted[g]
           Looked(g) == pc[g] \in {"global window", "deciding"}
<1>1. now \in Times /\ own \subseteq Windows /\ global \in Windows
      /\ pc \in [Goroutines -> Places]
      /\ scheduled \in [Goroutines -> SUBSET Windows]
  BY DEF Typed
<1>2. muted \in [Goroutines -> BOOLEAN]
  BY DEF MutedTyped
<1>3. \A g \in Goroutines : Looked(g) => Right(g)
  BY DEF FoundSoFar
<1>4. SUFFICES ASSUME NEW g \in Goroutines, Looked(g)' PROVE Right(g)'
  BY DEF FoundSoFar
<1>5. CASE muted'[g] = muted[g] /\ scheduled'[g] = scheduled[g] /\ Looked(g)
  BY <1>3, <1>5
<1>6. CASE LookAtOwnWindows(g)
  <2>1. muted'[g] = (\E w \in own : IsUnderMaintenance(w, now))
    BY <1>2, <1>6, Zenon DEF LookAtOwnWindows
  <2>2. scheduled'[g] = {w \in own : InWindow(w, now)}
    BY <1>1, <1>6, Zenon DEF LookAtOwnWindows
  <2> QED BY <1>1, <2>1, <2>2, LookIsRight, Zenon
<1>7. CASE LookAtGlobalWindow(g)
  <2>1. muted'[g] = (IsUnderMaintenance(global, now) \/ muted[g])
    BY <1>2, <1>7, Zenon DEF LookAtGlobalWindow
  <2>2. scheduled'[g] = scheduled[g] \union {w \in {global} : InWindow(w, now)}
    BY <1>1, <1>7, Zenon DEF LookAtGlobalWindow
  <2>3. Right(g)
    BY <1>3, <1>7 DEF LookAtGlobalWindow
  <2>4. InWindow(global, now) /\ EndsBeforeStartHour(global)
          => IsUnderMaintenance(global, now)
    BY <1>1, NoWindowMissed
  <2>5. IsUnderMaintenance(global, now) => InWindow(global, now)
    BY <1>1, OnlyOpenWindows
  <2>6. muted'[g] => scheduled'[g] # {}
    BY <2>1, <2>2, <2>3, <2>5, Zenon
  <2>7. ASSUME NEW w \in scheduled'[g], EndsBeforeStartHour(w) PROVE muted'[g]
    <3>1. CASE w \in scheduled[g]
      BY <2>1, <2>3, <2>7, <3>1, Zenon
    <3>2. CASE w = global /\ InWindow(w, now)
      BY <2>1, <2>4, <2>7, <3>2, Zenon
    <3> QED BY <2>2, <2>7, <3>1, <3>2, Zenon
  <2> QED BY <2>6, <2>7, Zenon
<1>8. ASSUME NEW h \in Goroutines,
             Ask(h) \/ PublishTime(h) \/ PublishAnswer(h) \/ Read(h) \/ Evaluate(h)
      PROVE  Right(g)'
  <2>1. muted' = muted /\ scheduled' = scheduled
    BY <1>8 DEF Ask, PublishTime, PublishAnswer, Read, Evaluate
  <2>2. PICK place \in {"checking", "reading", "publishing", "evaluating", "idle",
                        "own windows"} : pc' = [pc EXCEPT ![h] = place]
    BY <1>8 DEF Ask, PublishTime, PublishAnswer, Read, Evaluate
  <2>3. Looked(g)
    BY <1>1, <1>4, <2>2
  <2> QED BY <1>5, <2>1, <2>3
<1>9. ASSUME NEW h \in Goroutines,
             Decide(h) \/ LookAtOwnWindows(h) \/ LookAtGlobalWindow(h), h # g
      PROVE  Right(g)'
  <2>1. muted'[g] = muted[g]
    BY <1>2, <1>9, Zenon DEF Decide, LookAtOwnWindows, LookAtGlobalWindow
  <2>2. scheduled'[g] = scheduled[g]
    BY <1>1, <1>9, Zenon DEF Decide, LookAtOwnWindows, LookAtGlobalWindow
  <2>3. pc'[g] = pc[g]
    BY <1>1, <1>9, Zenon DEF Decide, LookAtOwnWindows, LookAtGlobalWindow
  <2> QED BY <1>4, <1>5, <2>1, <2>2, <2>3
<1>10. CASE Decide(g)
  <2>1. pc'[g] = "idle"
    BY <1>1, <1>10 DEF Decide
  <2> QED BY <1>4, <2>1
<1>11. CASE Tick \/ UNCHANGED vars
  <2>1. muted' = muted /\ scheduled' = scheduled /\ pc' = pc
    BY <1>11 DEF Tick, vars
  <2> QED BY <1>4, <1>5, <2>1
<1> QED BY <1>6, <1>7, <1>8, <1>9, <1>10, <1>11, Zenon DEF Next

\* The alerts of an endpoint are muted exactly if one of its windows or the
\* global one is open when it is looked at, for any windows and zones: the
\* whole hours that IsUnderMaintenance compares (maintenance.go:104-130) tell
\* today's window from yesterday's.
THEOREM MutedRight == Spec => []MutedIffScheduled
<1> DEFINE Inv == Typed /\ MutedTyped /\ FoundSoFar
<1>1. Init => Inv
  <2> SUFFICES ASSUME Init PROVE Inv
    OBVIOUS
  <2>1. Typed
    BY TypedInitially
  <2>2. MutedTyped
    BY Zenon DEF Init, MutedTyped
  <2>3. FoundSoFar
    BY DEF Init, FoundSoFar
  <2> QED BY <2>1, <2>2, <2>3
<1>2. Inv /\ [Next]_vars => Inv'
  BY TypedKept, MutedTypedKept, FoundSoFarKept
<1>3. Inv => MutedIffScheduled
  BY DEF FoundSoFar, MutedIffScheduled
<1> QED BY <1>1, <1>2, <1>3, PTL DEF Spec

-----------------------------------------------------------------------------
(* The connectivity checker *)

(***************************************************************************)
(* What the checker knows ages with the time since its last check.         *)
(***************************************************************************)
LEMMA AnswerGoesWithTimeKept ==
    Typed /\ AnswerGoesWithTime /\ [Next]_vars => AnswerGoesWithTime'
<1> SUFFICES ASSUME Typed, AnswerGoesWithTime, [Next]_vars PROVE AnswerGoesWithTime'
  OBVIOUS
<1> DEFINE Near == isConnected.age <= lastCheck + Timeout
           Usable == isConnected.age <= Interval + Timeout
<1>1. /\ lastCheck \in Nat /\ isConnected.age \in Nat
      /\ lastCheck \in Ages /\ isConnected.age \in Ages
      /\ lastCheck <= Never /\ isConnected.age <= Never
  BY NeverAssumed DEF Typed
<1>2. pc \in [Goroutines -> Places] /\ check \in [Goroutines -> 0..Timeout]
  BY DEF Typed
<1>3. ~stale /\ (Publishing \/ Near)
      /\ \A g \in Goroutines : pc[g] = "reading" => Publishing \/ Usable
  BY DEF AnswerGoesWithTime
<1>4. CASE Tick
  <2>1. ~stale' /\ pc' = pc
    BY <1>3, <1>4 DEF Tick
  <2>2. ~Publishing /\ \A g \in Goroutines : pc[g] # "reading"
    BY <1>4 DEF Tick, Instants, Publishing
  <2>3. lastCheck' = Older(lastCheck) /\ isConnected'.age = Older(isConnected.age)
    BY <1>4 DEF Tick, Typed
  <2>4. Near
    BY <1>3, <2>2
  <2>5. Near'
    <3>1. CASE lastCheck = Never
      <4>1. lastCheck' = Never /\ isConnected'.age \in Ages
        BY <1>1, <2>3, <3>1, OlderAge DEF Older
      <4> QED BY <4>1, NeverAssumed
    <3>2. CASE lastCheck # Never
      <4>1. lastCheck' = lastCheck + 1
        BY <1>1, <2>3, <3>2, OlderAge
      <4>2. isConnected'.age \in {isConnected.age, isConnected.age + 1}
        BY <1>1, <2>3, OlderAge
      <4> QED BY <1>1, <2>4, <4>1, <4>2, NeverAssumed
    <3> QED BY <3>1, <3>2
  <2> QED BY <2>1, <2>2, <2>5 DEF AnswerGoesWithTime
<1>5. ASSUME NEW g \in Goroutines, Ask(g) PROVE AnswerGoesWithTime'
  <2>1. /\ stale' = stale /\ lastCheck' = lastCheck /\ isConnected' = isConnected
        /\ pc[g] = "idle"
        /\ pc' = [pc EXCEPT ![g] = IF IsDue THEN "checking" ELSE "reading"]
    BY <1>5 DEF Ask
  <2>2. Publishing' <=> Publishing
    BY <1>2, <2>1 DEF Publishing
  <2>3. ~IsDue /\ ~Publishing => Usable
    BY <1>1, <1>3, NeverAssumed DEF IsDue
  <2>4. ASSUME NEW h \in Goroutines, pc'[h] = "reading" PROVE Publishing \/ Usable
    <3>1. CASE h = g
      BY <1>2, <2>1, <2>3, <2>4, <3>1
    <3>2. CASE h # g
      BY <1>2, <1>3, <2>1, <2>4, <3>2
    <3> QED BY <3>1, <3>2
  <2> QED BY <1>3, <2>1, <2>2, <2>4 DEF AnswerGoesWithTime
<1>6. ASSUME NEW g \in Goroutines, PublishTime(g) PROVE AnswerGoesWithTime'
  <2>1. ~stale' /\ pc'[g] = "publishing"
    BY <1>2, <1>3, <1>6 DEF PublishTime
  <2> QED BY <2>1 DEF AnswerGoesWithTime, Publishing
<1>7. ASSUME NEW g \in Goroutines, PublishAnswer(g) PROVE AnswerGoesWithTime'
  <2>1. ~stale' /\ lastCheck' = lastCheck
    BY <1>3, <1>7 DEF PublishAnswer
  <2>2. isConnected'.age = check[g]
    BY <1>7 DEF PublishAnswer
  <2>3. isConnected'.age <= Timeout /\ isConnected'.age \in Nat
    BY <1>2, <2>2, NeverAssumed
  <2>4. Near' /\ Usable'
    BY <1>1, <2>1, <2>3, NeverAssumed
  <2> QED BY <2>1, <2>4 DEF AnswerGoesWithTime
<1>8. ASSUME NEW g \in Goroutines, Read(g) PROVE AnswerGoesWithTime'
  <2>1. PICK place \in {"evaluating", "idle"} : pc' = [pc EXCEPT ![g] = place]
    BY <1>8 DEF Read
  <2>2. pc[g] = "reading" /\ lastCheck' = lastCheck /\ isConnected' = isConnected
    BY <1>8 DEF Read
  <2>3. Publishing' <=> Publishing
    BY <1>2, <2>1, <2>2 DEF Publishing
  <2>4. Publishing \/ Usable
    BY <1>3, <2>2
  <2>5. ~stale'
    <3>1. Publishing \/ ~(isConnected.age > Interval + Timeout)
      BY <1>1, <2>4, NeverAssumed
    <3> QED BY <1>3, <1>8, <3>1 DEF Read, Publishing
  <2>6. \A h \in Goroutines : pc'[h] = "reading" => pc[h] = "reading"
    BY <1>2, <2>1
  <2> QED BY <1>3, <2>2, <2>3, <2>5, <2>6 DEF AnswerGoesWithTime
<1>9. ASSUME NEW g \in Goroutines,
             Evaluate(g) \/ LookAtOwnWindows(g) \/ LookAtGlobalWindow(g) \/ Decide(g)
      PROVE  AnswerGoesWithTime'
  <2>1. stale' = stale /\ lastCheck' = lastCheck /\ isConnected' = isConnected
    BY <1>9 DEF Evaluate, LookAtOwnWindows, LookAtGlobalWindow, Decide
  <2>2. PICK place \in {"own windows", "global window", "deciding", "idle"} :
           pc' = [pc EXCEPT ![g] = place]
    BY <1>9 DEF Evaluate, LookAtOwnWindows, LookAtGlobalWindow, Decide
  <2>3. pc[g] \in {"evaluating", "own windows", "global window", "deciding"}
    BY <1>9 DEF Evaluate, LookAtOwnWindows, LookAtGlobalWindow, Decide
  <2>4. Publishing' <=> Publishing
    BY <1>2, <2>2, <2>3 DEF Publishing
  <2>5. \A h \in Goroutines : pc'[h] = "reading" => pc[h] = "reading"
    BY <1>2, <2>2
  <2> QED BY <1>3, <2>1, <2>4, <2>5 DEF AnswerGoesWithTime
<1>10. CASE UNCHANGED vars
  BY <1>10 DEF vars, AnswerGoesWithTime, Publishing
<1> QED BY <1>4, <1>5, <1>6, <1>7, <1>8, <1>9, <1>10 DEF Next

\* Executions go by checks of connectivity that began within the interval and
\* the timeout of a check, however many goroutines compare, check and assign
\* at the same time without a lock (connectivity.go:49-54) - but for an
\* instant in which one has assigned the time and not yet the answer.
THEOREM AnswersAreFresh == Spec => []AnswerIsFresh
<1>1. Init => Typed /\ AnswerGoesWithTime
  <2> SUFFICES ASSUME Init PROVE AnswerGoesWithTime
    BY TypedInitially
  <2>1. ~stale /\ \A g \in Goroutines : pc[g] = "idle"
    BY DEF Init
  <2>2. isConnected.age <= lastCheck + Timeout
    BY NeverAssumed DEF Init
  <2> QED BY <2>1, <2>2 DEF AnswerGoesWithTime
<1>2. Typed /\ AnswerGoesWithTime /\ [Next]_vars => (Typed /\ AnswerGoesWithTime)'
  BY TypedKept, AnswerGoesWithTimeKept
<1>3. AnswerGoesWithTime => AnswerIsFresh
  BY DEF AnswerGoesWithTime, AnswerIsFresh
<1> QED BY <1>1, <1>2, <1>3, PTL DEF Spec

-----------------------------------------------------------------------------
(* The verdict *)

\* What is known before the call.
Before(ip) == [EmptyResult EXCEPT !.ip = ip]

\* What the call makes of it.
Called(e, a, ip) == Call(e, a, Before(ip))

\* What a condition can look at.
SameFor(c, r, s) ==
    CASE c.placeholder = "STATUS"        -> r.status = s.status
      [] c.placeholder = "CONNECTED"     -> r.connected = s.connected
      [] c.placeholder = "RESPONSE_TIME" -> r.duration = s.duration
      [] c.placeholder = "IP"            -> r.ip = s.ip
      [] c.placeholder = "FIELD"         -> r.field = s.field

\* A condition says the same of two results that agree on what it is about.
LEMMA SameVerdict ==
    ASSUME NEW c, NEW r, NEW s, c.placeholder \in Placeholders, SameFor(c, r, s)
    PROVE  Holds(c, r) = Holds(c, s)
<1>1. Resolve(c, r) = Resolve(c, s)
  BY DEF Placeholders, SameFor, Resolve
<1> QED BY <1>1 DEF Holds

\* A complete answer arrives as it is, the field only where it is asked for.
LEMMA CompleteAnswer ==
    ASSUME NEW e \in Endpoints, NEW a \in Answers, NEW ip, e.kind \in Kinds, a.reached = "yes"
    PROVE  /\ "success" \in DOMAIN Called(e, a, ip) /\ Called(e, a, ip).success = TRUE
           /\ Called(e, a, ip).connected = Seen(e, a).connected
           /\ Called(e, a, ip).duration = Seen(e, a).duration
           /\ Called(e, a, ip).status = Seen(e, a).status
           /\ Called(e, a, ip).ip = ip
           /\ Needs(e, "FIELD") => Called(e, a, ip).field = Seen(e, a).field
<1> USE DEF Called, Call, Before, EmptyResult, Seen
<1>1. CASE e.kind = "HTTP"
  BY <1>1 DEF CallHTTP
<1>2. CASE e.kind = "TCP"
  BY <1>2 DEF CallTCP
<1>3. CASE e.kind = "UDP"
  BY <1>3 DEF CallUDP
<1>4. CASE e.kind = "SCTP"
  BY <1>4 DEF CallSCTP
<1>5. CASE e.kind = "ICMP"
  BY <1>5 DEF CallICMP
<1>6. CASE e.kind = "TLS"
  BY <1>6 DEF CallTLS
<1>7. CASE e.kind = "STARTTLS"
  BY <1>7 DEF CallSTARTTLS
<1>8. CASE e.kind = "WS"
  BY <1>8 DEF CallWS
<1>9. CASE e.kind = "DNS"
  BY <1>9 DEF CallDNS
<1>10. CASE e.kind = "SSHBanner"
  BY <1>10 DEF CallSSHBanner
<1>11. CASE e.kind = "SSH"
  BY <1>11 DEF CallSSH
<1> QED BY <1>1, <1>2, <1>3, <1>4, <1>5, <1>6, <1>7, <1>8, <1>9, <1>10, <1>11 DEF Kinds

\* What a call leaves that got no answer, or lost it.
LEMMA IncompleteAnswer ==
    ASSUME NEW e \in Endpoints, NEW a \in Answers, NEW ip,
           e.kind \in Kinds, a.reached \in {"partly", "no"}
    PROVE  /\ "success" \in DOMAIN Called(e, a, ip)
           /\ Called(e, a, ip).connected
                \in IF a.reached = "partly" /\ e.kind \in Connecting THEN BOOLEAN ELSE {FALSE}
           /\ Called(e, a, ip).status
                \in {0, 1} \cup IF a.reached = "partly" /\ e.kind = "HTTP"
                                THEN {a.status} ELSE {}
           /\ Called(e, a, ip).duration \in {0, Elapsed, GivenUp}
           /\ Called(e, a, ip).ip = ip
           /\ Called(e, a, ip).field = Missing
<1> USE DEF Called, Call, Before, EmptyResult, Failed, Connecting
<1>1. CASE e.kind = "HTTP"
  BY <1>1 DEF CallHTTP
<1>2. CASE e.kind = "TCP"
  BY <1>2 DEF CallTCP
<1>3. CASE e.kind = "UDP"
  BY <1>3 DEF CallUDP
<1>4. CASE e.kind = "SCTP"
  BY <1>4 DEF CallSCTP
<1>5. CASE e.kind = "ICMP"
  BY <1>5 DEF CallICMP
<1>6. CASE e.kind = "TLS"
  BY <1>6 DEF CallTLS
<1>7. CASE e.kind = "STARTTLS"
  BY <1>7 DEF CallSTARTTLS
<1>8. CASE e.kind = "WS"
  BY <1>8 DEF CallWS
<1>9. CASE e.kind = "DNS"
  BY <1>9 DEF CallDNS
<1>10. CASE e.kind = "SSHBanner"
  BY <1>10 DEF CallSSHBanner
<1>11. CASE e.kind = "SSH"
  BY <1>11 DEF CallSSH
<1> QED BY <1>1, <1>2, <1>3, <1>4, <1>5, <1>6, <1>7, <1>8, <1>9, <1>10, <1>11 DEF Kinds

\* What the lookup of the address leaves.
LEMMA LookedUpFirst ==
    ASSUME NEW e \in Endpoints, NEW a \in Answers, a.resolves \in BOOLEAN
    PROVE  \/ /\ Needs(e, "IP") /\ ~a.resolves
              /\ LookedUp(e, a) = Failed(EmptyResult)
           \/ /\ Needs(e, "IP") => a.resolves
              /\ \E ip \in {Missing, Text("address")} :
                         /\ LookedUp(e, a) = Before(ip)
                         /\ Before(ip).errors = FALSE
                         /\ Needs(e, "IP") => ip = Seen(e, a).ip
<1>1. Before(Missing) = EmptyResult /\ Before(Missing).errors = FALSE
  <2>1. EmptyResult.ip = Missing
    BY DEF EmptyResult
  <2> QED BY <2>1 DEF Before, EmptyResult
<1>2. CASE ~Needs(e, "IP")
  BY <1>1, <1>2 DEF LookedUp
<1>3. CASE Needs(e, "IP") /\ a.resolves
  <2>1. LookedUp(e, a) = Before(Text("address"))
    BY <1>3 DEF LookedUp, Before
  <2>2. Before(Text("address")).errors = FALSE /\ Seen(e, a).ip = Text("address")
    BY <1>3 DEF Before, EmptyResult, Seen
  <2> QED BY <1>3, <2>1, <2>2
<1>4. CASE Needs(e, "IP") /\ ~a.resolves
  BY <1>4 DEF LookedUp
<1> QED BY <1>2, <1>3, <1>4

\* The verdict on a complete answer is that of the conditions on all of it.
LEMMA VerdictOnCompleteAnswer ==
    ASSUME NEW e \in Endpoints, NEW a \in Answers, a.reached = "yes", InCapitals(e)
    PROVE  EvaluateHealth(e, a).success <=>
              /\ Needs(e, "IP") => a.resolves
              /\ \A c \in e.conditions : Holds(c, Seen(e, a))
<1>0. a.resolves \in BOOLEAN
  BY DEF Answers
<1>1. CASE Needs(e, "IP") /\ ~a.resolves
  <2>1. LookedUp(e, a) = Failed(EmptyResult)
    BY <1>0, <1>1, LookedUpFirst, Zenon
  <2>2. /\ Failed(EmptyResult).errors = TRUE
        /\ "success" \in DOMAIN Failed(EmptyResult)
    BY DEF Failed, EmptyResult
  <2> DEFINE after == [Failed(EmptyResult) EXCEPT !.success = FALSE]
  <2>3. after.success = FALSE /\ "success" \in DOMAIN after
    BY <2>2
  <2>4. EvaluateHealth(e, a)
          = [after EXCEPT !.success = @ /\ \A c \in e.conditions : Holds(c, after)]
    BY <2>1, <2>2, Zenon DEF EvaluateHealth
  <2> HIDE DEF after
  <2>5. EvaluateHealth(e, a).success
          = (after.success /\ \A c \in e.conditions : Holds(c, after))
    BY <2>3, <2>4, Zenon
  <2> QED BY <1>1, <2>3, <2>5, Zenon
<1>2. CASE ~(Needs(e, "IP") /\ ~a.resolves)
  <2>1. PICK ip : /\ LookedUp(e, a) = Before(ip) /\ LookedUp(e, a).errors = FALSE
                  /\ Needs(e, "IP") => ip = Seen(e, a).ip
    BY <1>0, <1>2, LookedUpFirst, Zenon
  <2> DEFINE after == Called(e, a, ip)
  <2>2. EvaluateHealth(e, a)
          = [after EXCEPT !.success = @ /\ \A c \in e.conditions : Holds(c, after)]
    BY <2>1, Zenon DEF EvaluateHealth, Called
  <2>3. /\ "success" \in DOMAIN after /\ after.success = TRUE
        /\ after.connected = Seen(e, a).connected
        /\ after.duration = Seen(e, a).duration
        /\ after.status = Seen(e, a).status
        /\ after.ip = ip
        /\ Needs(e, "FIELD") => after.field = Seen(e, a).field
    <3>1. e.kind \in Kinds
      BY ConfigurationAssumption
    <3> QED BY <3>1, CompleteAnswer
  <2> HIDE DEF after
  <2>4. EvaluateHealth(e, a).success
          = (after.success /\ \A c \in e.conditions : Holds(c, after))
    BY <2>2, <2>3, Zenon
  <2>5. ASSUME NEW c \in e.conditions
        PROVE  Holds(c, after) = Holds(c, Seen(e, a))
    <3>1. c.capitals /\ c.placeholder \in Placeholders
      BY ConfigurationAssumption DEF InCapitals
    <3>2. SameFor(c, after, Seen(e, a))
      BY <2>1, <2>3, <3>1 DEF SameFor, Needs, Placeholders
    <3> QED BY <3>1, <3>2, SameVerdict
  <2>6. (\A c \in e.conditions : Holds(c, after))
           <=> \A c \in e.conditions : Holds(c, Seen(e, a))
    BY <2>5, Zenon
  <2> QED BY <1>2, <2>3, <2>4, <2>6, Zenon
<1> QED BY <1>1, <1>2

\* What is healthy without a complete answer is so by what may be left of it.
LEMMA NothingWithoutAnswer ==
    ASSUME NEW e \in Endpoints, NEW a \in Answers, a.reached # "yes",
           EvaluateHealth(e, a).success
    PROVE  \E left \in LeftOf(e, a) : \A c \in e.conditions : Holds(c, left)
<1>1. /\ a.resolves \in BOOLEAN /\ e.kind \in Kinds
      /\ a.reached \in {"partly", "no"}
  BY ConfigurationAssumption DEF Answers
<1> DEFINE before == LookedUp(e, a)
           after == IF before.errors THEN [before EXCEPT !.success = FALSE]
                    ELSE Call(e, a, before)
<1>2. EvaluateHealth(e, a)
        = [after EXCEPT !.success = @ /\ \A d \in e.conditions : Holds(d, after)]
  BY Zenon DEF EvaluateHealth
<1>3. CASE Needs(e, "IP") /\ ~a.resolves
  <2>1. before = Failed(EmptyResult)
    BY <1>1, <1>3, LookedUpFirst, Zenon
  <2>2. "success" \in DOMAIN after /\ after.success = FALSE
    BY <2>1 DEF Failed, EmptyResult
  <2> HIDE DEF after
  <2>3. EvaluateHealth(e, a).success
          = (after.success /\ \A d \in e.conditions : Holds(d, after))
    BY <1>2, <2>2, Zenon
  <2> QED BY <2>2, <2>3, Zenon
<1>4. CASE ~(Needs(e, "IP") /\ ~a.resolves)
  <2>1. PICK ip \in {Missing, Text("address")} :
            before = Before(ip) /\ Before(ip).errors = FALSE
    BY <1>1, <1>4, LookedUpFirst, Zenon
  <2>2. after = Called(e, a, ip)
    BY <2>1 DEF Called
  <2> HIDE DEF after
  <2>3. /\ "success" \in DOMAIN after
        /\ after.connected
             \in IF a.reached = "partly" /\ e.kind \in Connecting THEN BOOLEAN ELSE {FALSE}
        /\ after.status \in {0, 1} \cup IF a.reached = "partly" /\ e.kind = "HTTP"
                                        THEN {a.status} ELSE {}
        /\ after.duration \in {0, Elapsed, GivenUp}
        /\ after.ip = ip /\ after.field = Missing
    BY <1>1, <2>2, IncompleteAnswer, Zenon
  <2>4. EvaluateHealth(e, a).success
          = (after.success /\ \A d \in e.conditions : Holds(d, after))
    BY <1>2, <2>3, Zenon
  <2> DEFINE left == [success |-> TRUE, errors |-> FALSE, connected |-> after.connected,
                      status |-> after.status, duration |-> after.duration, ip |-> ip,
                      field |-> Missing]
  <2>5. left \in LeftOf(e, a)
    BY <2>3 DEF LeftOf
  <2>6. /\ left.connected = after.connected /\ left.status = after.status
        /\ left.duration = after.duration /\ left.ip = after.ip
        /\ left.field = after.field
    BY <2>3
  <2> HIDE DEF left
  <2>7. ASSUME NEW c \in e.conditions PROVE Holds(c, left)
    <3>1. c.placeholder \in Placeholders
      BY ConfigurationAssumption
    <3>2. SameFor(c, after, left)
      BY <2>6, <3>1 DEF SameFor, Placeholders
    <3>3. Holds(c, after)
      BY <2>4, Zenon
    <3> QED BY <3>1, <3>2, <3>3, SameVerdict
  <2> QED BY <2>5, <2>7
<1> QED BY <1>3, <1>4

\* Both together are what is right about a verdict.
LEMMA EveryVerdictRight ==
    ASSUME NEW e \in Endpoints, NEW a \in Answers
    PROVE  VerdictIsRight(e, a)
BY VerdictOnCompleteAnswer, NothingWithoutAnswer, Zenon
   DEF VerdictIsRight, CompleteAnswerCounts, LostAnswerMissed

\* Everybody's result is right.
ResultsRight ==
    /\ DOMAIN result = Goroutines
    /\ \A g \in Goroutines : result[g].right

\* What is stored and alerted about is the verdict on the answer, whichever of
\* the eleven calls was made and whatever the conditions are about: if it is
\* complete and they are in capitals, exactly that of all of them; if it did not
\* come or was broken off, healthy only by what such an answer may leave
\* (endpoint.go:290-360 and 443-545, condition.go).
THEOREM Deserved == Spec => []HealthyIsDeserved
<1>1. Init => ResultsRight
  BY DEF Init, ResultsRight, NoResult
<1>2. ASSUME ResultsRight, [Next]_vars PROVE ResultsRight'
  <2> USE DEF ResultsRight
  <2>1. ASSUME NEW g \in Goroutines, Evaluate(g) PROVE ResultsRight'
    <3>1. PICK verdict \in Results : result' = [result EXCEPT ![g] = verdict]
      BY <2>1 DEF Evaluate
    <3> DEFINE V(e, a) == [success |-> EvaluateHealth(e, a).success,
                           right |-> VerdictIsRight(e, a)]
    <3>2. \A e \in Endpoints, a \in Answers : V(e, a).right
      BY EveryVerdictRight, Zenon
    <3>3. verdict \in {V(e, a) : e \in Endpoints, a \in Answers}
      BY DEF Results
    <3> HIDE DEF V
    <3>4. verdict.right
      BY <3>2, <3>3
    <3> QED BY <1>2, <3>1, <3>4
  <2>2. ASSUME NEW g \in Goroutines, Decide(g) PROVE ResultsRight'
    BY <1>2, <2>2 DEF Decide, NoResult
  <2>3. CASE UNCHANGED result
    BY <1>2, <2>3
  <2> QED
    BY <1>2, <2>1, <2>2, <2>3 DEF Next, vars, Tick, Ask, PublishTime, PublishAnswer,
       Read, LookAtOwnWindows, LookAtGlobalWindow
<1>3. ResultsRight => HealthyIsDeserved
  BY DEF ResultsRight, HealthyIsDeserved
<1> QED BY <1>1, <1>2, <1>3, PTL DEF Spec
=============================================================================
