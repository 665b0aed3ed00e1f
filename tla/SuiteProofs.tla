---------------------------- MODULE SuiteProofs -----------------------------
(***************************************************************************)
(* What a suite skips, what its success means, where its values come from  *)
(* and whose results decide on alerts, for any number of endpoints,        *)
(* whichever of them always run, and any keys that they store and use.     *)
(***************************************************************************)
EXTENDS Suite, SequenceTheorems, TLAPS

Typed ==
    /\ pc \in {"waiting", "loop", "evaluating", "alerting", "storing"}
    /\ i \in 1..NumberOfEndpoints + 1
    /\ ctx \in [Keys -> Origins]
    /\ results \in Seq(Results)

\* How far the loop has come.
Progress ==
    /\ pc = "evaluating" => i <= NumberOfEndpoints
    /\ pc \in {"alerting", "storing"} => i = NumberOfEndpoints + 1
    /\ \A n \in 1..Len(results) : results[n].name < i

\* The loop has skipped nothing without a reason, and remembers the reason.
Skipping ==
    /\ suiteHasFailed => \E n \in 1..Len(results) : ~results[n].success
    /\ \A e \in 1..i - 1 :
          \/ \E n \in 1..Len(results) : results[n].name = e
          \/ /\ e \notin AlwaysRun
             /\ \E n \in 1..Len(results) : results[n].name < e /\ ~results[n].success

\* As long as all succeed, results are as many as endpoints, and in their order.
InOrder ==
    (\A n \in 1..Len(results) : results[n].success) =>
        Len(results) = i - 1 /\ \A n \in 1..Len(results) : results[n].name = n

\* Every value of the context was there at first or comes from a result.
Origin(k) ==
    \/ ctx[k] = Absent
    \/ ctx[k] = Initially /\ k \in InitialKeys
    \/ \E n \in 1..Len(results) : ctx[k] = results[n].name

Inputs ==
    /\ \A k \in Keys : Origin(k)
    /\ \A n \in 1..Len(results) : results[n].success =>
          \A k \in Reads[results[n].name] :
              \/ results[n].inputs[k] = Initially /\ k \in InitialKeys
              \/ \E m \in 1..n - 1 : results[n].inputs[k] = results[m].name

Inv == Typed /\ Progress /\ Skipping /\ InOrder /\ Inputs

-----------------------------------------------------------------------------
Fresh ==
    /\ results = <<>> /\ ctx = NewGontext /\ suiteHasFailed = FALSE /\ i = 1
    /\ pc \in {"waiting", "loop"}

\* An execution starts from what the suite was given.
LEMMA FreshStart == Fresh => Inv
<1> SUFFICES ASSUME Fresh PROVE Inv
  OBVIOUS
<1>1. NumberOfEndpoints \in Nat \ {0} /\ i = 1 /\ suiteHasFailed = FALSE
  BY SuiteAssumption DEF Fresh
<1>2. results \in Seq(Results) /\ Len(results) = 0
  BY DEF Fresh
<1>3. ctx \in [Keys -> Origins]
  BY DEF Fresh, NewGontext, Origins
<1>4. Typed /\ Progress
  BY <1>1, <1>2, <1>3 DEF Fresh, Typed, Progress
<1>5. Skipping /\ InOrder
  BY <1>1, <1>2 DEF Skipping, InOrder
<1>6. Inputs
  BY <1>2 DEF Fresh, Inputs, Origin, NewGontext
<1> QED BY <1>4, <1>5, <1>6 DEF Inv

\* Passing over an endpoint is for the reason that is remembered.
LEMMA SkipKeeps ==
    ASSUME Inv, SkipEndpoint
    PROVE  Inv'
<1>1. /\ i \in Nat /\ i <= NumberOfEndpoints /\ i' = i + 1 /\ pc = "loop" /\ pc' = pc
      /\ results' = results /\ ctx' = ctx /\ suiteHasFailed' = suiteHasFailed
      /\ suiteHasFailed /\ i \notin AlwaysRun
      /\ NumberOfEndpoints \in Nat
  BY SuiteAssumption DEF SkipEndpoint, Skipped, Inv, Typed
<1>2. results \in Seq(Results) /\ Len(results) \in Nat
  BY DEF Inv, Typed
<1>3. \A n \in 1..Len(results) : results[n].name < i /\ results[n].name \in Nat
  <2>1. \A n \in 1..Len(results) : results[n] \in Results
    BY <1>2
  <2> QED BY <2>1 DEF Inv, Progress, Results, Endpoints
<1>4. PICK f \in 1..Len(results) : ~results[f].success
  BY <1>1 DEF Inv, Skipping
<1>5. Typed'
  BY <1>1 DEF Inv, Typed
<1>6. Progress'
  BY <1>1, <1>3 DEF Inv, Progress
<1>7. Skipping'
  <2>1. ASSUME NEW e \in 1..i' - 1
        PROVE  \/ \E n \in 1..Len(results) : results[n].name = e
               \/ /\ e \notin AlwaysRun
                  /\ \E n \in 1..Len(results) : results[n].name < e /\ ~results[n].success
    <3>1. CASE e = i
      BY <1>1, <1>3, <1>4, <3>1
    <3>2. CASE e # i
      <4>1. e \in 1..i - 1
        BY <1>1, <3>2
      <4> QED BY <4>1 DEF Inv, Skipping
    <3> QED BY <3>1, <3>2
  <2> QED BY <1>1, <2>1 DEF Inv, Skipping
<1>8. InOrder'
  BY <1>1, <1>4 DEF InOrder
<1>9. Inputs'
  BY <1>1 DEF Inv, Inputs, Origin
<1> QED BY <1>5, <1>6, <1>7, <1>8, <1>9 DEF Inv

\* One more endpoint has been evaluated with the context of the moment.
LEMMA FinishKeeps ==
    ASSUME Inv, FinishEndpoint
    PROVE  Inv'
<1>1. PICK success \in BOOLEAN, extracted \in SUBSET Stores[i] :
        /\ MayBe(i, success)
        /\ StoreResultValues(i, extracted)
        /\ results' = Append(results, [name |-> i, success |-> success, inputs |-> ctx])
        /\ suiteHasFailed' = (suiteHasFailed \/ ~success)
        /\ pc = "evaluating" /\ pc' = "loop" /\ i' = i + 1
  BY DEF FinishEndpoint
<1> DEFINE r == [name |-> i, success |-> success, inputs |-> ctx]
           len == Len(results)
<1>2. /\ i \in Nat /\ i <= NumberOfEndpoints /\ i \in Endpoints
      /\ NumberOfEndpoints \in Nat /\ ctx \in [Keys -> Origins]
  BY <1>1, SuiteAssumption DEF Inv, Typed, Progress, Endpoints
<1>3. results \in Seq(Results) /\ len \in Nat /\ \A n \in 1..len : results[n] \in Results
  BY DEF Inv, Typed
<1>4. r \in Results /\ r.name = i /\ r.success = success /\ r.inputs = ctx
  BY <1>2 DEF Results
<1>5. /\ results' \in Seq(Results) /\ Len(results') = len + 1
      /\ results'[len + 1] = r
      /\ \A n \in 1..len : results'[n] = results[n]
  <2> HIDE DEF r
  <2> QED BY <1>1, <1>3, <1>4 DEF r
<1> HIDE DEF r, len
<1>6. \A n \in 1..len + 1 : n \in 1..len \/ n = len + 1
  BY <1>3
<1>7. 1..len \subseteq 1..len + 1 /\ len + 1 \in 1..len + 1
  BY <1>3
<1>8. \A n \in 1..len : results[n].name < i /\ results[n].name \in Nat
  BY <1>3 DEF Inv, Progress, Results, Endpoints, len
<1>9. Typed'
  <2>1. ctx' \in [Keys -> Origins]
    BY <1>1, <1>2 DEF StoreResultValues, Origins
  <2>2. i' \in 1..NumberOfEndpoints + 1
    BY <1>1, <1>2
  <2> QED BY <1>1, <1>5, <2>1, <2>2 DEF Typed
<1>10. Progress'
  <2>1. \A n \in 1..len + 1 : results'[n].name < i'
    BY <1>1, <1>2, <1>4, <1>5, <1>6, <1>8
  <2> QED BY <1>1, <1>5, <2>1 DEF Progress
<1>11. Skipping'
  <2>1. suiteHasFailed' => \E n \in 1..len + 1 : ~results'[n].success
    <3>1. CASE suiteHasFailed
      <4>1. PICK n \in 1..len : ~results[n].success
        BY <3>1 DEF Inv, Skipping, len
      <4> QED BY <1>5, <1>7, <4>1
    <3>2. CASE ~success
      BY <1>4, <1>5, <1>7, <3>2
    <3> QED BY <1>1, <3>1, <3>2
  <2>2. ASSUME NEW e \in 1..i' - 1
        PROVE  \/ \E n \in 1..len + 1 : results'[n].name = e
               \/ /\ e \notin AlwaysRun
                  /\ \E n \in 1..len + 1 : results'[n].name < e /\ ~results'[n].success
    <3>1. CASE e = i
      BY <1>4, <1>5, <1>7, <3>1
    <3>2. CASE e # i
      <4>1. e \in 1..i - 1
        BY <1>1, <1>2, <3>2
      <4>2. \/ \E n \in 1..len : results[n].name = e
            \/ /\ e \notin AlwaysRun
               /\ \E n \in 1..len : results[n].name < e /\ ~results[n].success
        BY <4>1 DEF Inv, Skipping, len
      <4> QED BY <1>5, <1>7, <4>2
    <3> QED BY <3>1, <3>2
  <2> QED BY <1>5, <2>1, <2>2 DEF Skipping
<1>12. InOrder'
  <2> SUFFICES ASSUME \A n \in 1..len + 1 : results'[n].success
               PROVE  len + 1 = i' - 1 /\ \A n \in 1..len + 1 : results'[n].name = n
    BY <1>5 DEF InOrder
  <2>1. \A n \in 1..len : results[n].success
    BY <1>5, <1>7
  <2>2. len = i - 1 /\ \A n \in 1..len : results[n].name = n
    BY <2>1 DEF Inv, InOrder, len
  <2>3. len + 1 = i' - 1 /\ len + 1 = i
    BY <1>1, <1>2, <1>3, <2>2
  <2> QED BY <1>4, <1>5, <1>6, <2>2, <2>3
<1>13. Inputs'
  <2>1. ASSUME NEW k \in Keys
        PROVE  \/ ctx'[k] = Absent
               \/ ctx'[k] = Initially /\ k \in InitialKeys
               \/ \E n \in 1..len + 1 : ctx'[k] = results'[n].name
    <3>1. CASE k \in extracted
      <4>1. ctx'[k] = i
        BY <1>1, <3>1 DEF StoreResultValues
      <4> QED BY <1>4, <1>5, <1>7, <4>1
    <3>2. CASE k \notin extracted
      <4>1. ctx'[k] = ctx[k]
        BY <1>1, <3>2 DEF StoreResultValues
      <4>2. Origin(k)
        BY DEF Inv, Inputs
      <4> QED BY <1>5, <1>7, <4>1, <4>2 DEF Origin, len
    <3> QED BY <3>1, <3>2
  <2>2. ASSUME NEW n \in 1..len + 1, results'[n].success,
               NEW k \in Reads[results'[n].name]
        PROVE  \/ results'[n].inputs[k] = Initially /\ k \in InitialKeys
               \/ \E m \in 1..n - 1 : results'[n].inputs[k] = results'[m].name
    <3>1. CASE n \in 1..len
      <4>1. results'[n] = results[n]
        BY <1>5, <3>1
      <4>2. \/ results[n].inputs[k] = Initially /\ k \in InitialKeys
            \/ \E m \in 1..n - 1 : results[n].inputs[k] = results[m].name
        BY <2>2, <3>1, <4>1 DEF Inv, Inputs, len
      <4>3. \A m \in 1..n - 1 : m \in 1..len
        BY <1>3, <3>1
      <4> QED BY <1>5, <4>1, <4>2, <4>3
    <3>2. CASE n = len + 1
      <4>1. results'[n].inputs = ctx /\ k \in Reads[i] /\ success
        BY <1>4, <1>5, <2>2, <3>2
      <4>2. k \in Keys
        BY <1>2, <4>1, SuiteAssumption
      <4>3. ctx[k] # Absent
        BY <1>1, <4>1 DEF MayBe
      <4>4. Origin(k)
        BY <4>2 DEF Inv, Inputs
      <4>5. n - 1 = len
        BY <1>3, <3>2
      <4> QED BY <1>5, <4>1, <4>3, <4>4, <4>5 DEF Origin, len
    <3> QED BY <1>6, <3>1, <3>2
  <2> QED BY <1>5, <2>1, <2>2 DEF Inputs, Origin
<1> QED BY <1>9, <1>10, <1>11, <1>12, <1>13 DEF Inv

(***************************************************************************)
(* Every step keeps the invariant.                                         *)
(***************************************************************************)
LEMMA Inductive == Inv /\ [Next]_vars => Inv'
<1> SUFFICES ASSUME Inv, [Next]_vars PROVE Inv'
  OBVIOUS
<1>1. CASE Begin
  <2>1. Fresh'
    BY <1>1 DEF Begin, Fresh, NewGontext
  <2>2. Fresh' => Inv'
    BY FreshStart, PTL
  <2> QED BY <2>1, <2>2
<1>2. CASE StartEndpoint
  <2>1. /\ i <= NumberOfEndpoints /\ pc' = "evaluating"
        /\ UNCHANGED <<i, ctx, results, suiteHasFailed>>
    BY <1>2 DEF StartEndpoint
  <2> QED BY <2>1 DEF Inv, Typed, Progress, Skipping, InOrder, Inputs, Origin
<1>3. CASE EndExecute
  <2>1. /\ ~(i <= NumberOfEndpoints) /\ pc' = "alerting"
        /\ UNCHANGED <<i, ctx, results, suiteHasFailed>>
    BY <1>3, SuiteAssumption DEF EndExecute, Inv, Typed
  <2>2. i = NumberOfEndpoints + 1
    BY <2>1, SuiteAssumption DEF Inv, Typed
  <2> QED BY <2>1, <2>2 DEF Inv, Typed, Progress, Skipping, InOrder, Inputs, Origin
<1>4. CASE HandleAlertings
  <2>1. pc = "alerting" /\ pc' = "storing" /\ UNCHANGED <<i, ctx, results, suiteHasFailed>>
    BY <1>4 DEF HandleAlertings
  <2> QED BY <2>1 DEF Inv, Typed, Progress, Skipping, InOrder, Inputs, Origin
<1>5. CASE UpdateSuiteStatus
  <2>1. pc' = "waiting" /\ UNCHANGED <<i, ctx, results, suiteHasFailed>>
    BY <1>5 DEF UpdateSuiteStatus
  <2> QED BY <2>1 DEF Inv, Typed, Progress, Skipping, InOrder, Inputs, Origin
<1>6. CASE Expire \/ UNCHANGED vars
  <2>1. UNCHANGED <<pc, i, ctx, results, suiteHasFailed>>
    BY <1>6 DEF Expire, vars
  <2> QED BY <2>1 DEF Inv, Typed, Progress, Skipping, InOrder, Inputs, Origin
<1> QED BY <1>1, <1>2, <1>3, <1>4, <1>5, <1>6, SkipKeeps, FinishKeeps DEF Next

(***************************************************************************)
(* So it holds in every state.                                             *)
(***************************************************************************)
LEMMA Invariance == Spec => []Inv
<1>1. Init => Inv
  BY FreshStart DEF Init, Fresh
<1> QED BY <1>1, Inductive, PTL DEF Spec

-----------------------------------------------------------------------------
(* The theorems *)

\* An endpoint without a result comes after one that failed and is not one
\* that always runs, whenever the timeout elapses and whatever the context
\* lacks (suite.go:132-166).
THEOREM NothingElseSkips == Spec => []OnlyFailureSkips
<1>1. Inv => OnlyFailureSkips
  <2> SUFFICES ASSUME Inv, pc \in {"alerting", "storing"},
                      NEW e \in Endpoints \ Range(Executed(results))
               PROVE  /\ e \notin AlwaysRun
                      /\ \E r \in Range(results) : r.name < e /\ ~r.success
    BY DEF OnlyFailureSkips
  <2>1. results \in Seq(Results) /\ DOMAIN results = 1..Len(results)
    BY DEF Inv, Typed
  <2>2. e \in 1..i - 1
    BY SuiteAssumption DEF Inv, Progress, Endpoints
  <2>3. \A n \in 1..Len(results) : results[n].name # e
    BY <2>1 DEF Range, Executed
  <2>4. e \notin AlwaysRun /\ \E n \in 1..Len(results) :
            results[n].name < e /\ ~results[n].success
    BY <2>2, <2>3 DEF Inv, Skipping
  <2> QED BY <2>1, <2>4 DEF Range
<1> QED BY <1>1, Invariance, PTL

\* A timer that an endpoint was started behind has been received from since.
Noticed ==
    /\ timer \in {"running", "expired", "received"}
    /\ late # {} => timer = "received"

(***************************************************************************)
(* Every start of an endpoint looks at the timer.                          *)
(***************************************************************************)
LEMMA NoticedKept == Spec => []Noticed
<1>1. Init => Noticed
  BY DEF Init, Noticed
<1>2. Inv /\ Noticed /\ [Next]_vars => Noticed'
  <2> SUFFICES ASSUME Inv, Noticed, [Next]_vars PROVE Noticed'
    OBVIOUS
  <2>1. CASE Begin
    BY <2>1 DEF Begin, Noticed
  <2>2. CASE Expire
    BY <2>2 DEF Expire, Noticed
  <2>3. CASE StartEndpoint
    BY <2>3 DEF StartEndpoint, Noticed
  <2>4. CASE UNCHANGED <<timer, late>>
    BY <2>4 DEF Noticed
  <2> QED
    BY <2>1, <2>2, <2>3, <2>4 DEF Next, vars, SkipEndpoint, FinishEndpoint, EndExecute,
                                  HandleAlertings, UpdateSuiteStatus
<1> QED BY <1>1, <1>2, Invariance, PTL DEF Spec

\* A suite that is stored as successful ran all its endpoints in order, each
\* passed, and none was started after the timeout: a result that is missing is
\* never taken for one that succeeded (suite.go:132-170, result.go:41-55).
THEOREM SuccessIsComplete == Spec => SuccessMeansAllRan
<1>1. ASSUME Inv, Noticed, [Next]_vars, status' # status, status'.success
      PROVE  /\ Executed(status'.results) = [e \in Endpoints |-> e]
             /\ \A r \in Range(status'.results) : r.success
             /\ late = {}
  <2>1. UpdateSuiteStatus
    BY <1>1 DEF Next, vars, Begin, Expire, SkipEndpoint, StartEndpoint, FinishEndpoint,
                EndExecute, HandleAlertings
  <2>2. /\ pc = "storing" /\ status' = [success |-> CalculateSuccess, results |-> results]
    BY <1>1, <2>1 DEF UpdateSuiteStatus
  <2>3. status'.results = results /\ CalculateSuccess
    BY <1>1, <2>2
  <2>4. results \in Seq(Results) /\ DOMAIN results = 1..Len(results)
    BY <1>1 DEF Inv, Typed
  <2>5. \A n \in 1..Len(results) : results[n].success
    BY <2>3, <2>4 DEF CalculateSuccess, Range
  <2>6. Len(results) = i - 1 /\ \A n \in 1..Len(results) : results[n].name = n
    BY <1>1, <2>5 DEF Inv, InOrder
  <2>7. Len(results) = NumberOfEndpoints
    BY <1>1, <2>2, <2>6, SuiteAssumption DEF Inv, Progress
  <2>8. Executed(results) = [e \in Endpoints |-> e]
    BY <2>4, <2>6, <2>7 DEF Executed, Endpoints
  <2> QED BY <1>1, <2>3, <2>8 DEF CalculateSuccess, Noticed
<1>2. Inv /\ Noticed /\ [Next]_vars =>
        [status' # status /\ status'.success =>
            /\ Executed(status'.results) = [e \in Endpoints |-> e]
            /\ \A r \in Range(status'.results) : r.success
            /\ late = {}]_vars
  BY <1>1
<1> QED BY <1>2, Invariance, NoticedKept, PTL DEF Spec, SuccessMeansAllRan

\* No value outlives an execution or skips an endpoint: an endpoint that
\* succeeded had every key from the initial context or from a result before
\* its own (gontext.go:21-33, endpoint.go:362-409).
THEOREM NoLeak == Spec => []InputsComeFromBefore
<1>1. Inv => InputsComeFromBefore
  <2> SUFFICES ASSUME Inv PROVE InputsComeFromBefore
    OBVIOUS
  <2>1. DOMAIN results = 1..Len(results)
    BY DEF Inv, Typed
  <2> QED BY <2>1 DEF Inv, Inputs, InputsComeFromBefore
<1> QED BY <1>1, Invariance, PTL

-----------------------------------------------------------------------------
(* Alerts *)

\* Endpoint e has a result.
Ran(e) == \E n \in 1..Len(results) : results[n].name = e

\* Up to the first that was skipped, endpoints and results go by the same
\* index, and what was handled is the result at that index.
SameIndex ==
    /\ Len(results) <= i - 1
    /\ \A e \in Endpoints : (\A d \in 1..e : Ran(d)) =>
          \A d \in 1..e : d <= Len(results) /\ results[d].name = d
    /\ handled \in [Endpoints -> 0..NumberOfEndpoints]
    /\ \A e \in Endpoints : handled[e] # 0 =>
          e <= Len(results) /\ handled[e] = results[e].name

AtFirst == results = <<>> /\ i = 1 /\ handled = NothingHandled

\* Nothing is handled before there is a result.
LEMMA NothingAtFirst == AtFirst => SameIndex
<1> SUFFICES ASSUME results = <<>>, i = 1, handled = NothingHandled PROVE SameIndex
  BY DEF AtFirst
<1>1. NumberOfEndpoints \in Nat \ {0} /\ Len(results) = 0
  BY SuiteAssumption
<1>2. ASSUME NEW e \in Endpoints PROVE ~Ran(1) /\ 1 \in 1..e
  BY <1>1 DEF Ran, Endpoints
<1>3. handled \in [Endpoints -> 0..NumberOfEndpoints] /\ \A e \in Endpoints : handled[e] = 0
  BY <1>1 DEF NothingHandled
<1> QED BY <1>1, <1>2, <1>3 DEF SameIndex

\* The next result goes by the index of its endpoint if all before it did.
LEMMA FinishKeepsIndex ==
    ASSUME Inv, SameIndex, FinishEndpoint
    PROVE  SameIndex'
<1> DEFINE len == Len(results)
<1>1. PICK r \in Results : /\ r.name = i /\ results' = Append(results, r) /\ i' = i + 1
                           /\ handled' = handled /\ pc = "evaluating"
  <2>1. PICK success \in BOOLEAN :
          /\ results' = Append(results, [name |-> i, success |-> success, inputs |-> ctx])
          /\ i' = i + 1 /\ handled' = handled /\ pc = "evaluating"
    BY DEF FinishEndpoint
  <2>2. i \in Endpoints /\ ctx \in [Keys -> Origins]
    BY <2>1, SuiteAssumption DEF Inv, Typed, Progress, Endpoints
  <2>3. [name |-> i, success |-> success, inputs |-> ctx] \in Results
    BY <2>2 DEF Results
  <2> QED BY <2>1, <2>3
<1>2. i \in Nat /\ i <= NumberOfEndpoints /\ NumberOfEndpoints \in Nat
  BY <1>1, SuiteAssumption DEF Inv, Typed, Progress
<1>3. /\ results \in Seq(Results) /\ len \in Nat /\ Len(results') = len + 1
      /\ results'[len + 1] = r
      /\ \A n \in 1..len : results'[n] = results[n]
  BY <1>1 DEF Inv, Typed
<1>4. \A n \in 1..len : results[n].name < i
  BY DEF Inv, Progress
<1>5. len <= i - 1
  BY DEF SameIndex
<1> HIDE DEF len
<1>6. \A d : Ran(d)' => d = i \/ Ran(d)
  <2> SUFFICES ASSUME NEW d, NEW n \in 1..len + 1, results'[n].name = d, d # i
               PROVE  Ran(d)
    BY <1>3 DEF Ran
  <2>1. n \in 1..len
    BY <1>1, <1>3
  <2> QED BY <1>3, <2>1 DEF Ran, len
<1>7. ASSUME NEW e \in Endpoints, \A d \in 1..e : Ran(d)', NEW d \in 1..e
      PROVE  d <= len + 1 /\ results'[d].name = d
  <2>1. e \in Nat /\ e >= 1 /\ e \in 1..e
    BY <1>2 DEF Endpoints
  <2>2. e <= i
    <3>1. e = i \/ Ran(e)
      BY <1>6, <1>7, <2>1
    <3> QED BY <1>2, <1>4, <2>1, <3>1 DEF Ran, len
  <2>3. CASE e < i
    <3>1. \A c \in 1..e : Ran(c)
      BY <1>2, <1>6, <1>7, <2>1, <2>3
    <3>2. d <= len /\ results[d].name = d
      BY <3>1 DEF SameIndex, len
    <3>3. d \in 1..len
      BY <1>3, <2>1, <3>2
    <3> QED BY <1>3, <3>2, <3>3
  <2>4. CASE e = i
    <3>1. \A c \in 1..i - 1 : c <= len /\ results[c].name = c
      <4>1. CASE i = 1
        BY <4>1
      <4>2. CASE i # 1
        <5>1. i - 1 \in Endpoints
          BY <1>2, <2>1, <2>4, <4>2 DEF Endpoints
        <5>2. \A c \in 1..i - 1 : Ran(c)
          BY <1>2, <1>6, <1>7, <2>4
        <5> QED BY <5>1, <5>2 DEF SameIndex, len
      <4> QED BY <4>1, <4>2
    <3>2. len = i - 1
      <4>1. CASE i = 1
        BY <1>3, <1>5, <4>1
      <4>2. CASE i # 1
        <5>1. i - 1 \in 1..i - 1
          BY <1>2, <2>1, <2>4, <4>2
        <5> QED BY <1>2, <1>3, <1>5, <3>1, <5>1
      <4> QED BY <4>1, <4>2
    <3>3. CASE d = i
      BY <1>1, <1>2, <1>3, <3>2, <3>3
    <3>4. CASE d # i
      <4>1. d \in 1..i - 1 /\ d \in 1..len
        BY <1>2, <2>4, <3>2, <3>4
      <4> QED BY <1>3, <3>1, <4>1
    <3> QED BY <3>3, <3>4
  <2> QED BY <1>2, <2>1, <2>2, <2>3, <2>4
<1>8. ASSUME NEW e \in Endpoints, handled'[e] # 0
      PROVE  e <= len + 1 /\ handled'[e] = results'[e].name
  <2>1. e <= len /\ handled[e] = results[e].name
    BY <1>1, <1>8 DEF SameIndex, len
  <2>2. e \in 1..len
    BY <1>3, <2>1 DEF Endpoints
  <2> QED BY <1>1, <1>3, <2>1, <2>2
<1>9. len + 1 <= i' - 1
  BY <1>1, <1>2, <1>3, <1>5
<1>10. handled' \in [Endpoints -> 0..NumberOfEndpoints]
  BY <1>1 DEF SameIndex
<1> QED BY <1>3, <1>7, <1>8, <1>9, <1>10 DEF SameIndex

\* Every step leaves the results and what was handled at the same index.
LEMMA IndexKept == Inv /\ SameIndex /\ [Next]_vars => SameIndex'
<1> SUFFICES ASSUME Inv, SameIndex, [Next]_vars PROVE SameIndex'
  OBVIOUS
<1>1. i \in Nat /\ results \in Seq(Results) /\ NumberOfEndpoints \in Nat
      /\ \A n \in 1..Len(results) : results[n] \in Results
  BY SuiteAssumption DEF Inv, Typed
<1>2. CASE Begin
  <2>1. AtFirst'
    BY <1>2 DEF Begin, AtFirst, NothingHandled
  <2> QED BY <2>1, NothingAtFirst, PTL
<1>3. CASE SkipEndpoint
  <2>1. i' = i + 1 /\ results' = results /\ handled' = handled
    BY <1>3 DEF SkipEndpoint
  <2>2. Len(results) \in Nat /\ Len(results) <= i' - 1
    BY <1>1, <2>1 DEF SameIndex
  <2>3. \A d : Ran(d)' <=> Ran(d)
    BY <2>1 DEF Ran
  <2> QED BY <2>1, <2>2, <2>3 DEF SameIndex
<1>4. CASE HandleAlertings
  <2>1. PICK muted \in SUBSET Endpoints :
          handled' = [e \in Endpoints |->
                        IF e <= Len(results) /\ e \notin muted THEN results[e].name ELSE 0]
    BY <1>4 DEF HandleAlertings
  <2>2. results' = results /\ i' = i
    BY <1>4 DEF HandleAlertings
  <2>3. ASSUME NEW e \in Endpoints, e <= Len(results)
        PROVE  results[e].name \in 0..NumberOfEndpoints
    <3>1. e \in 1..Len(results)
      BY <1>1, <2>3 DEF Endpoints
    <3> QED BY <1>1, <3>1 DEF Results, Endpoints
  <2>4. handled' \in [Endpoints -> 0..NumberOfEndpoints]
    BY <1>1, <2>1, <2>3
  <2>5. \A e \in Endpoints : handled'[e] # 0 =>
           e <= Len(results) /\ handled'[e] = results[e].name
    BY <2>1
  <2> QED BY <2>2, <2>4, <2>5 DEF SameIndex, Ran
<1>5. CASE \/ Expire \/ StartEndpoint \/ EndExecute \/ UpdateSuiteStatus
           \/ UNCHANGED vars
  <2>1. i' = i /\ results' = results /\ handled' = handled
    BY <1>5 DEF Expire, StartEndpoint, EndExecute, UpdateSuiteStatus, vars
  <2> QED BY <2>1 DEF SameIndex, Ran
<1> QED BY <1>2, <1>3, <1>4, <1>5, FinishKeepsIndex DEF Next

\* As long as no endpoint before it was skipped, the result that decides on
\* the alerts of an endpoint is its own: the index by which the two lists are
\* walked (watchdog/suite.go:54-71) only slips at the first that is skipped.
THEOREM OwnResult == Spec => []OwnResultUpToTheFirstSkip
<1>1. Init => SameIndex
  BY NothingAtFirst DEF Init, AtFirst
<1>2. Inv /\ SameIndex => OwnResultUpToTheFirstSkip
  <2> SUFFICES ASSUME Inv, SameIndex, NEW e \in Endpoints,
                      \A d \in 1..e : d \in Range(Executed(results)), handled[e] # 0
               PROVE  handled[e] = e
    BY DEF OwnResultUpToTheFirstSkip
  <2>1. DOMAIN results = 1..Len(results)
    BY DEF Inv, Typed
  <2>2. \A d \in 1..e : Ran(d)
    BY <2>1 DEF Range, Executed, Ran
  <2>3. e \in 1..e
    BY SuiteAssumption DEF Endpoints
  <2> QED BY <2>2, <2>3 DEF SameIndex
<1> QED BY <1>1, <1>2, IndexKept, Invariance, PTL DEF Spec
=============================================================================
