----------------------- MODULE ExternalEndpointProofs -----------------------
(***************************************************************************)
(* What becomes of the counters and alerts of an external endpoint when    *)
(* requests and the heartbeat share them without a lock: nothing wrong as  *)
(* long as they do not overlap, and a bounded number of duplicates when    *)
(* they do.  For any number of requests in flight and any alerts.          *)
(***************************************************************************)
EXTENDS ExternalEndpoint, FiniteSetTheorems, TLAPS

-----------------------------------------------------------------------------
(* Types *)

LocalsTyped ==
    /\ pc \in [Procs -> PCs]
    /\ result \in [Procs -> BOOLEAN]
    /\ copy \in [Procs -> Counters]
    /\ at \in [Procs -> Alerts]
    /\ initial \in [Procs -> BOOLEAN]

(***************************************************************************)
(* Counters stay under their bound.                                        *)
(***************************************************************************)
LEMMA CountedTyped ==
    ASSUME NEW c \in Counters, NEW success \in BOOLEAN
    PROVE  Counted(c, success) \in Counters
<1>1. 0 \in Counts /\ \A n \in Counts : OneMore(n) \in Counts
  BY AlertAssumption DEF Counts, OneMore
<1>2. c.failures \in Counts /\ c.successes \in Counts
  BY DEF Counters
<1> QED
  BY <1>1, <1>2 DEF Counted, Counters

(***************************************************************************)
(* A goroutine that returns leaves local variables of their types behind.  *)
(***************************************************************************)
LEMMA ReturnTyped ==
    ASSUME LocalsTyped, NEW p \in Procs, Return(p)
    PROVE  LocalsTyped'
<1>1. NoCount \in Counters /\ 1 \in Alerts /\ "idle" \in PCs
  BY AlertAssumption DEF NoCount, Counters, Counts, Alerts, PCs
<1> QED
  BY <1>1 DEF LocalsTyped, Return, Goto

(***************************************************************************)
(* The loop over the alerts stays within the list.                         *)
(***************************************************************************)
LEMMA NextAlertTyped ==
    ASSUME LocalsTyped, NEW p \in Procs, NextAlert(p), UNCHANGED <<result, copy>>,
           initial' \in [Procs -> BOOLEAN]
    PROVE  LocalsTyped'
<1>1. at[p] \in Alerts /\ "loop" \in PCs /\ "syncSuccesses" \in PCs
  BY DEF LocalsTyped, PCs
<1>2. CASE at[p] < NumberOfAlerts
  <2>1. at[p] + 1 \in Alerts
    BY <1>1, <1>2, AlertAssumption DEF Alerts
  <2> QED
    BY <1>1, <1>2, <2>1 DEF LocalsTyped, NextAlert, Goto
<1>3. CASE ~(at[p] < NumberOfAlerts)
  BY <1>1, <1>3 DEF LocalsTyped, NextAlert, Goto
<1> QED
  BY <1>2, <1>3

(***************************************************************************)
(* The copy that a goroutine makes of the counters has their types.        *)
(***************************************************************************)
LEMMA ToEndpointTyped ==
    ASSUME TypeOK, NEW p \in Procs, ToEndpoint(p)
    PROVE  /\ copy' \in [Procs -> Counters]
           /\ overlapped' \in BOOLEAN /\ truth' \in Counters
<1>1. NoCount \in Counters /\ [failures |-> failures, successes |-> successes] \in Counters
  BY AlertAssumption DEF NoCount, Counters, Counts, TypeOK
<1>2. overlapped' \in BOOLEAN
  BY DEF TypeOK, ToEndpoint
<1> QED
  BY <1>1, <1>2 DEF TypeOK, ToEndpoint

(***************************************************************************)
(* The same when a result is counted, in the copy and in the history.      *)
(***************************************************************************)
LEMMA InsertTyped ==
    ASSUME TypeOK, NEW p \in Procs, HandleAlerting(p) \/ Muted(p)
    PROVE  LocalsTyped' /\ truth' \in Counters
<1>1. LocalsTyped /\ "loop" \in PCs /\ truth \in Counters /\ result[p] \in BOOLEAN
      /\ copy[p] \in Counters
  BY DEF TypeOK, LocalsTyped, PCs
<1>2. CASE HandleAlerting(p)
  <2>1. Counted(copy[p], result[p]) \in Counters /\ Counted(truth, result[p]) \in Counters
    BY <1>1, CountedTyped
  <2> QED
    BY <1>1, <1>2, <2>1 DEF LocalsTyped, HandleAlerting, Goto
<1>3. CASE Muted(p)
  BY <1>1, <1>3, ReturnTyped DEF Muted
<1> QED
  BY <1>2, <1>3

(***************************************************************************)
(* Every step of a request, of the heartbeat and of the loop that both run *)
(* keeps the types.                                                        *)
(***************************************************************************)
LEMMA TypeStep == TypeOK /\ [Next]_vars => TypeOK'
<1> SUFFICES ASSUME TypeOK, [Next]_vars PROVE TypeOK'
  OBVIOUS
<1>i. installed' \in Installations
  BY DEF Next, vars, TypeOK
<1> USE <1>i
<1>0. /\ LocalsTyped /\ \A where \in PCs : where \in PCs
      /\ \A p \in Pushers : p \in Procs
      /\ Heartbeat \in Procs
  BY DEF TypeOK, LocalsTyped, Procs
<1>1. ASSUME LocalsTyped', failures' \in Counts, successes' \in Counts,
             triggered' \subseteq Alerts, persisted' \subseteq Alerts,
             newest' \in [firings : 0..2, madeUp : BOOLEAN],
             initials' \in [Alerts -> Nat], overlapped' \in BOOLEAN, truth' \in Counters
      PROVE  TypeOK'
  BY <1>1 DEF TypeOK, LocalsTyped
<1>2. ASSUME NEW p \in Pushers, Push(p) PROVE TypeOK'
  <2>1. copy' \in [Procs -> Counters] /\ overlapped' \in BOOLEAN /\ truth' \in Counters
    BY <1>0, <1>2, ToEndpointTyped DEF Push
  <2>2. result' \in [Procs -> BOOLEAN] /\ pc' \in [Procs -> PCs]
    BY <1>0, <1>2 DEF Push, LocalsTyped, Goto, PCs
  <2>3. UNCHANGED <<shared, newest, at, initial, initials>>
    BY <1>2 DEF Push
  <2> QED
    BY <2>1, <2>2, <2>3 DEF TypeOK, shared
<1>3. ASSUME NEW p \in Pushers, PushInsert(p) PROVE TypeOK'
  <2>1. LocalsTyped' /\ truth' \in Counters
    BY <1>0, <1>3, InsertTyped DEF PushInsert
  <2>2. newest' \in [firings : 0..2, madeUp : BOOLEAN]
    BY <1>3 DEF PushInsert
  <2>3. UNCHANGED <<shared, initials, overlapped>>
    BY <1>3 DEF PushInsert
  <2> QED
    BY <1>1, <2>1, <2>2, <2>3 DEF TypeOK, shared
<1>4. ASSUME NEW p \in Pushers, PushInsertFails(p) PROVE TypeOK'
  <2>1. LocalsTyped'
    BY <1>0, <1>4, ReturnTyped DEF PushInsertFails
  <2> QED
    BY <1>1, <1>4, <2>1 DEF TypeOK, PushInsertFails, shared
<1>5. ASSUME HeartbeatFires PROVE TypeOK'
  <2>1. copy' \in [Procs -> Counters] /\ overlapped' \in BOOLEAN /\ truth' \in Counters
    BY <1>0, <1>5, ToEndpointTyped DEF HeartbeatFires
  <2>2. pc' \in [Procs -> PCs]
    BY <1>0, <1>5 DEF HeartbeatFires, LocalsTyped, Goto, PCs
  <2>3. newest' \in [firings : 0..2, madeUp : BOOLEAN]
    BY <1>5 DEF HeartbeatFires, Firing, TypeOK
  <2>4. UNCHANGED <<shared, result, at, initial, initials>>
    BY <1>5 DEF HeartbeatFires
  <2> QED
    BY <2>1, <2>2, <2>3, <2>4 DEF TypeOK, shared
<1>6. ASSUME HeartbeatFindsResult PROVE TypeOK'
  <2>1. LocalsTyped'
    BY <1>0, <1>6, ReturnTyped DEF HeartbeatFindsResult
  <2> QED
    BY <1>1, <1>6, <2>1 DEF TypeOK, HeartbeatFindsResult, shared
<1>7. ASSUME HeartbeatFindsSilence PROVE TypeOK'
  <2>1. pc' \in [Procs -> PCs]
    BY <1>0, <1>7 DEF HeartbeatFindsSilence, LocalsTyped, Goto, PCs
  <2> QED
    BY <1>7, <2>1 DEF TypeOK, HeartbeatFindsSilence, shared, locals
<1>8. ASSUME HeartbeatInsert PROVE TypeOK'
  <2>1. LocalsTyped' /\ truth' \in Counters
    BY <1>0, <1>8, InsertTyped DEF HeartbeatInsert
  <2>2. newest' \in [firings : 0..2, madeUp : BOOLEAN]
    <3>1. [firings |-> 0, madeUp |-> TRUE] \in [firings : 0..2, madeUp : BOOLEAN]
      OBVIOUS
    <3>2. newest \in [firings : 0..2, madeUp : BOOLEAN]
      BY DEF TypeOK
    <3>3. newest' = [firings |-> 0, madeUp |-> TRUE] \/ newest' = newest
      BY <1>8 DEF HeartbeatInsert
    <3> QED
      BY <3>1, <3>2, <3>3
  <2>3. UNCHANGED <<shared, initials, overlapped>>
    BY <1>8 DEF HeartbeatInsert
  <2> QED
    BY <1>1, <2>1, <2>2, <2>3 DEF TypeOK, shared
<1>9. ASSUME NEW p \in Procs, LoopStep(p) PROVE TypeOK'
  <2>0. at[p] \in Alerts /\ copy[p] \in Counters
    BY DEF TypeOK
  <2>1. CASE SkipAlert(p)
    <3>1. LocalsTyped'
      BY <1>0, <2>1, NextAlertTyped DEF SkipAlert, LocalsTyped
    <3> QED
      BY <1>1, <2>1, <3>1 DEF TypeOK, SkipAlert, shared
  <2>2. CASE DecideToSend(p)
    <3>1. pc' \in [Procs -> PCs] /\ initial' \in [Procs -> BOOLEAN]
      BY <1>0, <2>2 DEF DecideToSend, LocalsTyped, Goto, PCs
    <3> QED
      BY <2>2, <3>1 DEF TypeOK, DecideToSend, shared
  <2>3. CASE SendFails(p)
    <3>1. LocalsTyped'
      BY <1>0, <2>3, NextAlertTyped DEF SendFails, LocalsTyped
    <3> QED
      BY <1>1, <2>3, <3>1 DEF TypeOK, SendFails, shared
  <2>4. CASE SendSucceeds(p)
    <3>1. LocalsTyped'
      BY <1>0, <2>4, NextAlertTyped DEF SendSucceeds, LocalsTyped
    <3>2. triggered' \subseteq Alerts /\ persisted' \subseteq Alerts
      BY <2>0, <2>4 DEF SendSucceeds, TypeOK
    <3>3. initials' \in [Alerts -> Nat]
      BY <2>0, <2>4 DEF SendSucceeds, TypeOK
    <3>4. UNCHANGED <<failures, successes, newest, overlapped, truth>>
      BY <2>4 DEF SendSucceeds
    <3> QED
      BY <1>1, <3>1, <3>2, <3>3, <3>4 DEF TypeOK
  <2>5. CASE PersistSuccesses(p)
    <3>1. LocalsTyped'
      BY <1>0, <2>5, NextAlertTyped DEF PersistSuccesses, LocalsTyped
    <3>2. persisted' \subseteq Alerts
      BY <2>0, <2>5 DEF PersistSuccesses, TypeOK
    <3> QED
      BY <1>1, <2>5, <3>1, <3>2 DEF TypeOK, PersistSuccesses
  <2>6. CASE Resolve(p)
    <3>1. LocalsTyped'
      BY <1>0, <2>6, NextAlertTyped DEF Resolve, LocalsTyped
    <3>2. /\ triggered' \subseteq Alerts /\ persisted' \subseteq Alerts
          /\ initials' \in [Alerts -> Nat]
      BY <2>6 DEF Resolve, TypeOK
    <3>3. UNCHANGED <<failures, successes, newest, overlapped, truth>>
      BY <2>6 DEF Resolve
    <3> QED
      BY <1>1, <3>1, <3>2, <3>3 DEF TypeOK
  <2>7. CASE SyncSuccesses(p)
    <3>1. pc' \in [Procs -> PCs] /\ successes' \in Counts
      BY <1>0, <2>0, <2>7 DEF SyncSuccesses, LocalsTyped, Goto, PCs, Counters
    <3> QED
      BY <2>7, <3>1 DEF TypeOK, SyncSuccesses, locals
  <2>8. CASE SyncFailures(p)
    <3>1. LocalsTyped'
      BY <1>0, <2>8, ReturnTyped DEF SyncFailures
    <3>2. failures' \in Counts
      BY <2>0, <2>8 DEF SyncFailures, Counters
    <3> QED
      BY <1>1, <2>8, <3>1, <3>2 DEF TypeOK, SyncFailures
  <2> QED
    BY <1>9, <2>1, <2>2, <2>3, <2>4, <2>5, <2>6, <2>7, <2>8 DEF LoopStep
<1>10. ASSUME HeartbeatSkips PROVE TypeOK'
  <2>1. newest' \in [firings : 0..2, madeUp : BOOLEAN]
    BY <1>10 DEF HeartbeatSkips, Firing, TypeOK
  <2> QED
    BY <1>10, <2>1 DEF TypeOK, HeartbeatSkips, shared, locals
<1>11. CASE UNCHANGED vars
  BY <1>11 DEF TypeOK, vars, moving, shared, locals
<1> QED
  BY <1>0, <1>2, <1>3, <1>4, <1>5, <1>6, <1>7, <1>8, <1>9, <1>10, <1>11
     DEF Next, PushStep, HeartbeatStep

(***************************************************************************)
(* A new external endpoint has its types.                                  *)
(***************************************************************************)
LEMMA TypeInit == Init => TypeOK
<1>1. NoCount \in Counters /\ 1 \in Alerts /\ "idle" \in PCs /\ 0 \in Counts
  BY AlertAssumption DEF NoCount, Counters, Counts, Alerts, PCs
<1> SUFFICES ASSUME Init PROVE TypeOK
  OBVIOUS
<1>2. failures \in Counts /\ successes \in Counts /\ truth \in Counters
  BY <1>1 DEF Init
<1>3. triggered \subseteq Alerts /\ persisted \subseteq Alerts /\ overlapped \in BOOLEAN
  BY DEF Init
<1>4. newest \in [firings : 0..2, madeUp : BOOLEAN]
  BY DEF Init
<1>5. pc \in [Procs -> PCs] /\ copy \in [Procs -> Counters] /\ at \in [Procs -> Alerts]
  BY <1>1 DEF Init
<1>6. result \in [Procs -> BOOLEAN] /\ initial \in [Procs -> BOOLEAN]
  BY DEF Init
<1>7. initials \in [Alerts -> Nat] /\ installed \in Installations
  BY DEF Init
<1> QED
  BY <1>2, <1>3, <1>4, <1>5, <1>6, <1>7 DEF TypeOK

(***************************************************************************)
(* Counters, flags, rows and everybody's local copies keep their types.    *)
(***************************************************************************)
THEOREM TypeCorrect == Spec => []TypeOK
BY TypeInit, TypeStep, PTL DEF Spec

-----------------------------------------------------------------------------
(* Duplicates *)

\* Who is in a handler was installed.
Present == \A p \in Procs : pc[p] # "idle" => p \in installed

(***************************************************************************)
(* A goroutine that moves on stays one of those installed.                 *)
(***************************************************************************)
LEMMA PresentMove ==
    ASSUME TypeOK, Present, UNCHANGED installed, NEW p \in Procs, NEW where,
           Goto(p, where), pc[p] # "idle" \/ p \in installed
    PROVE  Present'
BY DEF TypeOK, Present, Goto

(***************************************************************************)
(* No step brings a goroutine into a handler that was not installed.       *)
(***************************************************************************)
LEMMA PresentStep == TypeOK /\ Present /\ [Next]_vars => Present'
<1> SUFFICES ASSUME TypeOK, Present, [Next]_vars PROVE Present'
  OBVIOUS
<1>0. UNCHANGED installed /\ Heartbeat \in Procs /\ \A p \in Pushers : p \in Procs
  BY DEF Next, vars, Procs
<1>1. ASSUME NEW p \in Procs, Return(p), pc[p] # "idle" PROVE Present'
  BY <1>0, <1>1, PresentMove DEF Return
<1>2. ASSUME NEW p \in Procs, HandleAlerting(p) \/ Muted(p), pc[p] # "idle" PROVE Present'
  BY <1>0, <1>1, <1>2, PresentMove DEF HandleAlerting, Muted
<1>3. ASSUME NEW p \in Procs, NextAlert(p), pc[p] # "idle" PROVE Present'
  BY <1>0, <1>3, PresentMove DEF NextAlert
<1>4. ASSUME NEW p \in Procs, LoopStep(p) PROVE Present'
  <2>1. CASE SkipAlert(p) \/ SendFails(p) \/ SendSucceeds(p) \/ PersistSuccesses(p) \/ Resolve(p)
    BY <1>3, <2>1 DEF SkipAlert, SendFails, SendSucceeds, PersistSuccesses, Resolve
  <2>2. CASE DecideToSend(p) \/ SyncSuccesses(p)
    BY <1>0, <2>2, PresentMove DEF DecideToSend, SyncSuccesses
  <2>3. CASE SyncFailures(p)
    BY <1>1, <2>3 DEF SyncFailures
  <2> QED
    BY <1>4, <2>1, <2>2, <2>3 DEF LoopStep
<1>5. ASSUME NEW p \in Pushers, Push(p) PROVE Present'
  BY <1>0, <1>5, PresentMove DEF Push
<1>6. ASSUME NEW p \in Pushers, PushInsert(p) \/ PushInsertFails(p) PROVE Present'
  BY <1>0, <1>1, <1>2, <1>6 DEF PushInsert, PushInsertFails
<1>7. CASE HeartbeatFires \/ HeartbeatFindsSilence
  BY <1>0, <1>7, PresentMove DEF HeartbeatFires, HeartbeatFindsSilence
<1>8. CASE HeartbeatFindsResult \/ HeartbeatInsert
  BY <1>0, <1>1, <1>2, <1>8 DEF HeartbeatFindsResult, HeartbeatInsert
<1>9. CASE HeartbeatSkips \/ UNCHANGED vars
  BY <1>0, <1>9 DEF Present, HeartbeatSkips, vars, moving
<1> QED
  BY <1>0, <1>4, <1>5, <1>6, <1>7, <1>8, <1>9 DEF Next, PushStep, HeartbeatStep

(***************************************************************************)
(* Only the goroutines that were installed are ever in a handler.          *)
(***************************************************************************)
LEMMA PresentAlways == Spec => []Present
<1>1. Init => Present
  BY DEF Init, Present
<1> QED
  BY <1>1, PresentStep, TypeCorrect, PTL DEF Spec

\* Those that are about to send an initial alert.
Senders(a) == {p \in installed : pc[p] = "send" /\ initial[p] /\ at[p] = a}

(***************************************************************************)
(* The initial alerts sent and those under way are together no more than   *)
(* the goroutines; while an alert is not triggered none was sent.          *)
(***************************************************************************)
DupInv ==
    \A a \in Alerts :
        /\ a \notin triggered => initials[a] = 0
        /\ initials[a] + Cardinality(Senders(a)) <= Cardinality(installed)

(***************************************************************************)
(* Finitely many goroutines, of which the senders are some.                *)
(***************************************************************************)
LEMMA SendersFinite ==
    ASSUME TypeOK
    PROVE  /\ IsFiniteSet(installed) /\ Cardinality(installed) \in Nat
           /\ \A a : /\ IsFiniteSet(Senders(a)) /\ Cardinality(Senders(a)) \in Nat
                     /\ Cardinality(Senders(a)) <= Cardinality(installed)
<1>1. IsFiniteSet(installed)
  <2>1. IsFiniteSet(Procs)
    BY ProcAssumption, FS_AddElement DEF Procs
  <2>2. installed \subseteq Procs
    BY ProcAssumption DEF TypeOK
  <2> QED
    BY <2>1, <2>2, FS_Subset
<1>2. \A a : Senders(a) \subseteq installed
  BY DEF Senders
<1> QED
  BY <1>1, <1>2, FS_Subset, FS_CardinalityType

(***************************************************************************)
(* A step that sends nothing, resolves nothing and decides nothing keeps   *)
(* the bound.                                                              *)
(***************************************************************************)
LEMMA NothingSent ==
    ASSUME TypeOK, DupInv, UNCHANGED <<installed, triggered, initials>>,
           \A a \in Alerts : Senders(a)' \subseteq Senders(a)
    PROVE  DupInv'
<1> SUFFICES ASSUME NEW a \in Alerts
             PROVE  /\ a \notin triggered' => initials'[a] = 0
                    /\ initials'[a] + Cardinality(Senders(a)') <= Cardinality(installed)
  BY DEF DupInv
<1>1. /\ a \notin triggered => initials[a] = 0
      /\ initials[a] + Cardinality(Senders(a)) <= Cardinality(installed)
      /\ initials[a] \in Nat
  BY DEF DupInv, TypeOK
<1>2. /\ Cardinality(Senders(a)') <= Cardinality(Senders(a))
      /\ Cardinality(Senders(a)') \in Nat /\ Cardinality(Senders(a)) \in Nat
      /\ Cardinality(installed) \in Nat
  BY SendersFinite, FS_Subset, FS_CardinalityType
<1> QED
  BY <1>1, <1>2

(***************************************************************************)
(* A goroutine that is not about to send afterwards is one sender fewer or *)
(* none.                                                                   *)
(***************************************************************************)
LEMMA NoNewSender ==
    ASSUME TypeOK, UNCHANGED installed, NEW p \in Procs, NEW where, where # "send",
           Goto(p, where),
           \A q \in Procs \ {p} : at'[q] = at[q] /\ initial'[q] = initial[q]
    PROVE  \A a : Senders(a)' \subseteq Senders(a) \ {p}
<1>1. \A q \in Procs : pc'[q] = IF q = p THEN where ELSE pc[q]
  BY DEF TypeOK, Goto
<1>2. installed \subseteq Procs
  BY ProcAssumption DEF TypeOK
<1> QED
  BY <1>1, <1>2 DEF Senders

(***************************************************************************)
(* The loop goes on to the next alert or leaves.                           *)
(***************************************************************************)
LEMMA NextAlertMoves ==
    ASSUME TypeOK, NEW p \in Procs, NextAlert(p)
    PROVE  /\ \E where \in {"loop", "syncSuccesses"} : Goto(p, where)
           /\ \A q \in Procs \ {p} : at'[q] = at[q]
BY DEF TypeOK, NextAlert

(***************************************************************************)
(* A goroutine that returns touches its own local variables only.          *)
(***************************************************************************)
LEMMA ReturnMoves ==
    ASSUME TypeOK, NEW p \in Procs, Return(p)
    PROVE  /\ Goto(p, "idle")
           /\ \A q \in Procs \ {p} : at'[q] = at[q] /\ initial'[q] = initial[q]
BY DEF TypeOK, Return

(***************************************************************************)
(* Every step of the loop keeps the bound on the initial alerts.           *)
(***************************************************************************)
LEMMA DupLoopStep ==
    ASSUME TypeOK, Present, DupInv, UNCHANGED installed, NEW p \in Procs, LoopStep(p)
    PROVE  DupInv'
<1>0. /\ installed \subseteq Procs
      /\ at[p] \in Alerts
      /\ \A a \in Alerts : initials[a] \in Nat
      /\ initials \in [Alerts -> Nat]
  BY ProcAssumption DEF TypeOK
<1>1. CASE SkipAlert(p) \/ SendFails(p) \/ PersistSuccesses(p)
  <2>1. NextAlert(p) /\ UNCHANGED <<triggered, initials, initial>>
    BY <1>1 DEF SkipAlert, SendFails, PersistSuccesses, shared
  <2> QED
    BY <2>1, NextAlertMoves, NoNewSender, NothingSent
<1>2. CASE SyncSuccesses(p)
  <2>1. Goto(p, "syncFailures") /\ UNCHANGED <<triggered, initials, initial, at>>
    BY <1>2 DEF SyncSuccesses, locals
  <2> QED
    BY <2>1, NoNewSender, NothingSent
<1>3. CASE SyncFailures(p)
  <2>1. Return(p) /\ UNCHANGED <<triggered, initials>>
    BY <1>3 DEF SyncFailures
  <2> QED
    BY <2>1, ReturnMoves, NoNewSender, NothingSent
<1>4. CASE DecideToSend(p)
  <2>1. /\ UNCHANGED <<triggered, initials, at>> /\ pc[p] = "loop"
        /\ \A q \in Procs : /\ pc'[q] = IF q = p THEN "send" ELSE pc[q]
                            /\ initial'[q] = IF q = p THEN at[p] \notin triggered ELSE initial[q]
    BY <1>4 DEF DecideToSend, Goto, shared, TypeOK
  <2>2. CASE at[p] \in triggered
    <3>1. \A a \in Alerts : Senders(a)' \subseteq Senders(a)
      BY <1>0, <2>1, <2>2 DEF Senders
    <3> QED
      BY <2>1, <3>1, NothingSent
  <2>3. CASE at[p] \notin triggered
    <3> SUFFICES ASSUME NEW a \in Alerts
                 PROVE  /\ a \notin triggered' => initials'[a] = 0
                        /\ initials'[a] + Cardinality(Senders(a)') <= Cardinality(installed)
      BY DEF DupInv
    <3>1. a \notin triggered' => initials'[a] = 0
      BY <2>1 DEF DupInv
    <3>2. CASE a = at[p]
      <4>1. initials'[a] = 0
        BY <2>1, <2>3, <3>2 DEF DupInv
      <4>2. /\ Cardinality(Senders(a)') \in Nat /\ Cardinality(installed) \in Nat
            /\ Cardinality(Senders(a)') <= Cardinality(installed)
        <5>1. Senders(a)' \subseteq installed
          BY DEF Senders
        <5> QED
          BY <5>1, SendersFinite, FS_Subset, FS_CardinalityType
      <4> QED
        BY <3>1, <4>1, <4>2
    <3>3. CASE a # at[p]
      <4>1. Senders(a)' = Senders(a)
        BY <1>0, <2>1, <3>3 DEF Senders
      <4> QED
        BY <2>1, <3>1, <4>1 DEF DupInv
    <3> QED
      BY <3>2, <3>3
  <2> QED
    BY <2>2, <2>3
<1>5. CASE SendSucceeds(p)
  <2>1. /\ NextAlert(p) /\ UNCHANGED initial /\ pc[p] = "send"
        /\ triggered' = IF initial[p] THEN triggered \cup {at[p]} ELSE triggered
        /\ initials' = IF initial[p] THEN [initials EXCEPT ![at[p]] = @ + 1] ELSE initials
    BY <1>5 DEF SendSucceeds
  <2>2. \A a : Senders(a)' \subseteq Senders(a) \ {p}
    BY <2>1, NextAlertMoves, NoNewSender
  <2>3. CASE ~initial[p]
    BY <2>1, <2>2, <2>3, NothingSent
  <2>4. CASE initial[p]
    <3> SUFFICES ASSUME NEW a \in Alerts
                 PROVE  /\ a \notin triggered' => initials'[a] = 0
                        /\ initials'[a] + Cardinality(Senders(a)') <= Cardinality(installed)
      BY DEF DupInv
    <3>1. /\ a \notin triggered => initials[a] = 0
          /\ initials[a] + Cardinality(Senders(a)) <= Cardinality(installed)
          /\ initials[a] \in Nat
      BY <1>0 DEF DupInv
    <3>2. CASE a = at[p]
      <4>1. a \in triggered' /\ initials'[a] = initials[a] + 1
        BY <1>0, <2>1, <2>4, <3>2
      <4>2. p \in Senders(a)
        BY <2>1, <2>4, <3>2 DEF Senders, Present
      <4>3. /\ IsFiniteSet(Senders(a) \ {p})
            /\ Cardinality(Senders(a) \ {p}) = Cardinality(Senders(a)) - 1
        BY <4>2, SendersFinite, FS_RemoveElement
      <4>4. /\ Cardinality(Senders(a)') <= Cardinality(Senders(a)) - 1
            /\ Cardinality(Senders(a)') \in Nat /\ Cardinality(Senders(a)) \in Nat
            /\ Cardinality(installed) \in Nat
        BY <2>2, <4>3, SendersFinite, FS_Subset, FS_CardinalityType
      <4> QED
        BY <3>1, <4>1, <4>4
    <3>3. CASE a # at[p]
      <4>1. initials'[a] = initials[a] /\ (a \in triggered' <=> a \in triggered)
        BY <1>0, <2>1, <2>4, <3>3
      <4>2. /\ Cardinality(Senders(a)') <= Cardinality(Senders(a))
            /\ Cardinality(Senders(a)') \in Nat /\ Cardinality(Senders(a)) \in Nat
            /\ Cardinality(installed) \in Nat
        <5>1. Senders(a)' \subseteq Senders(a)
          BY <2>2
        <5> QED
          BY <5>1, SendersFinite, FS_Subset, FS_CardinalityType
      <4> QED
        BY <3>1, <4>1, <4>2
    <3> QED
      BY <3>2, <3>3
  <2> QED
    BY <2>3, <2>4
<1>6. CASE Resolve(p)
  <2>1. /\ NextAlert(p) /\ UNCHANGED initial
        /\ triggered' = triggered \ {at[p]}
        /\ initials' = [initials EXCEPT ![at[p]] = 0]
    BY <1>6 DEF Resolve
  <2>2. \A a : Senders(a)' \subseteq Senders(a)
    BY <2>1, NextAlertMoves, NoNewSender
  <2> SUFFICES ASSUME NEW a \in Alerts
               PROVE  /\ a \notin triggered' => initials'[a] = 0
                      /\ initials'[a] + Cardinality(Senders(a)') <= Cardinality(installed)
    BY DEF DupInv
  <2>3. /\ a \notin triggered => initials[a] = 0
        /\ initials[a] + Cardinality(Senders(a)) <= Cardinality(installed)
        /\ initials[a] \in Nat
    BY <1>0 DEF DupInv
  <2>4. /\ Cardinality(Senders(a)') <= Cardinality(Senders(a))
        /\ Cardinality(Senders(a)') \in Nat /\ Cardinality(Senders(a)) \in Nat
        /\ Cardinality(installed) \in Nat
    BY <2>2, SendersFinite, FS_Subset, FS_CardinalityType
  <2>5. initials'[a] = IF a = at[p] THEN 0 ELSE initials[a]
    BY <1>0, <2>1
  <2>6. a \notin triggered' => initials'[a] = 0
    BY <2>1, <2>3, <2>5
  <2> QED
    BY <2>3, <2>4, <2>5, <2>6
<1> QED
  BY <1>1, <1>2, <1>3, <1>4, <1>5, <1>6 DEF LoopStep

(***************************************************************************)
(* Every step keeps the bound.                                             *)
(***************************************************************************)
LEMMA DupStep == TypeOK /\ Present /\ DupInv /\ [Next]_vars => DupInv'
<1> SUFFICES ASSUME TypeOK, Present, DupInv, [Next]_vars PROVE DupInv'
  OBVIOUS
<1>i. UNCHANGED installed
  BY DEF Next, vars
<1> USE <1>i
<1>0. Heartbeat \in Procs /\ \A p \in Pushers : p \in Procs
  BY DEF Procs
<1>1. ASSUME NEW p \in Procs, HandleAlerting(p) \/ Muted(p), UNCHANGED <<shared, initials>>
      PROVE  DupInv'
  <2>1. CASE HandleAlerting(p)
    BY <1>1, <2>1, NoNewSender, NothingSent DEF HandleAlerting, shared
  <2>2. CASE Muted(p)
    BY <1>1, <2>2, ReturnMoves, NoNewSender, NothingSent DEF Muted, shared
  <2> QED
    BY <1>1, <2>1, <2>2
<1>2. ASSUME NEW p \in Pushers, Push(p) PROVE DupInv'
  BY <1>0, <1>2, NoNewSender, NothingSent DEF Push, shared
<1>3. ASSUME NEW p \in Pushers, PushInsert(p) PROVE DupInv'
  BY <1>0, <1>1, <1>3 DEF PushInsert
<1>4. ASSUME NEW p \in Pushers, PushInsertFails(p) PROVE DupInv'
  BY <1>0, <1>4, ReturnMoves, NoNewSender, NothingSent DEF PushInsertFails, shared
<1>5. CASE HeartbeatFires
  BY <1>0, <1>5, NoNewSender, NothingSent DEF HeartbeatFires, shared
<1>6. CASE HeartbeatFindsResult
  BY <1>0, <1>6, ReturnMoves, NoNewSender, NothingSent DEF HeartbeatFindsResult, shared
<1>7. CASE HeartbeatFindsSilence
  BY <1>0, <1>7, NoNewSender, NothingSent DEF HeartbeatFindsSilence, shared, locals
<1>8. CASE HeartbeatInsert
  BY <1>0, <1>1, <1>8 DEF HeartbeatInsert
<1>9. CASE HeartbeatSkips \/ UNCHANGED vars
  BY <1>9 DEF DupInv, Senders, HeartbeatSkips, vars, moving, shared, locals
<1> QED
  BY <1>0, <1>2, <1>3, <1>4, <1>5, <1>6, <1>7, <1>8, <1>9, DupLoopStep
     DEF Next, PushStep, HeartbeatStep

(***************************************************************************)
(* However requests and the heartbeat interleave, an incident gets at most *)
(* one initial alert from each of them.                                    *)
(***************************************************************************)
THEOREM NoFloodOfDuplicates == Spec => []DuplicatesBounded
<1>1. Init => DupInv
  <2> SUFFICES ASSUME Init PROVE DupInv
    OBVIOUS
  <2>1. TypeOK /\ installed \subseteq Procs
    BY TypeInit, ProcAssumption DEF TypeOK
  <2>2. \A a : Senders(a) = {}
    BY <2>1 DEF Init, Senders
  <2> QED
    BY <2>1, <2>2, SendersFinite, FS_EmptySet DEF Init, DupInv
<1>2. TypeOK /\ DupInv => DuplicatesBounded
  <2> SUFFICES ASSUME TypeOK, DupInv, NEW a \in Alerts
               PROVE  initials[a] <= Cardinality(installed)
    BY DEF DuplicatesBounded
  <2>1. /\ initials[a] \in Nat /\ Cardinality(Senders(a)) \in Nat
        /\ Cardinality(installed) \in Nat
        /\ initials[a] + Cardinality(Senders(a)) <= Cardinality(installed)
    BY SendersFinite DEF TypeOK, DupInv
  <2> QED
    BY <2>1
<1> QED
  BY <1>1, <1>2, DupStep, PresentAlways, TypeCorrect, PTL DEF Spec

-----------------------------------------------------------------------------
(* Sequential use *)

Stored == [failures |-> failures, successes |-> successes]

\* What a goroutine that has the endpoint for itself knows of it.
Agrees(p) ==
    /\ copy[p] = truth
    /\ pc[p] \in {"insert", "check"} => truth = Stored
    /\ pc[p] = "send" => initial[p] = (at[p] \notin triggered)
    /\ pc[p] = "syncFailures" => successes = truth.successes

\* At most one goroutine is in a handler.
Solo == \A p, q \in Procs : pc[p] # "idle" /\ pc[q] # "idle" => p = q

AlertsExact ==
    /\ persisted = triggered
    /\ \A a \in Alerts : initials[a] = IF a \in triggered THEN 1 ELSE 0

(***************************************************************************)
(* Until two goroutines overlap, the one in a handler agrees with the      *)
(* history about the counters, and the rows and the initial alerts are     *)
(* those of the triggered alerts.                                          *)
(***************************************************************************)
SeqInv ==
    ~overlapped =>
        /\ Solo
        /\ AlertsExact
        /\ Quiet => truth = Stored
        /\ \A p \in Procs : pc[p] # "idle" => Agrees(p)

(***************************************************************************)
(* It is enough that the goroutine in a handler still agrees, or has left  *)
(* the counters right behind it.                                           *)
(***************************************************************************)
LEMMA SoloStep ==
    ASSUME TypeOK, ~overlapped', NEW p \in Procs, NEW where, Goto(p, where),
           \A q \in Procs \ {p} : pc[q] = "idle",
           AlertsExact',
           IF where = "idle" THEN truth' = Stored' ELSE Agrees(p)'
    PROVE  SeqInv'
<1>1. \A q \in Procs : pc'[q] = IF q = p THEN where ELSE "idle"
  BY DEF TypeOK, Goto
<1>2. Solo'
  BY <1>1 DEF Solo
<1>3. Quiet' => truth' = Stored'
  BY <1>1 DEF Quiet
<1>4. \A q \in Procs : pc'[q] # "idle" => q = p /\ where # "idle"
  BY <1>1
<1>5. \A q \in Procs : pc'[q] # "idle" => Agrees(q)'
  BY <1>4
<1> QED
  BY <1>2, <1>3, <1>5 DEF SeqInv

(***************************************************************************)
(* A goroutine that enters while nobody is in a handler copies the truth.  *)
(***************************************************************************)
LEMMA SeqEnter ==
    ASSUME TypeOK, SeqInv, ~overlapped', NEW p \in Procs, NEW where \in {"insert", "check"},
           pc[p] = "idle", ToEndpoint(p), Goto(p, where), UNCHANGED <<shared, initials>>
    PROVE  SeqInv'
<1>1. ~overlapped /\ (\A q \in Procs \ {p} : pc[q] = "idle") /\ UNCHANGED truth
  BY DEF ToEndpoint
<1>2. Quiet
  BY <1>1 DEF Quiet
<1>3. AlertsExact' /\ truth' = Stored'
  BY <1>1, <1>2 DEF SeqInv, AlertsExact, Stored, shared
<1>4. copy'[p] = Stored /\ pc'[p] = where
  BY DEF ToEndpoint, TypeOK, Goto, Stored
<1>5. Agrees(p)'
  BY <1>1, <1>3, <1>4 DEF Agrees, Stored, shared
<1> QED
  BY <1>1, <1>3, <1>5, SoloStep

(***************************************************************************)
(* The count of a result is the same in the copy and in the history; a     *)
(* request or a heartbeat whose result is not counted leaves everything as *)
(* it found it.                                                            *)
(***************************************************************************)
LEMMA SeqInsert ==
    ASSUME TypeOK, SeqInv, ~overlapped', NEW p \in Procs, pc[p] \in {"insert", "check"},
           HandleAlerting(p) \/ Muted(p), UNCHANGED <<shared, initials, overlapped>>
    PROVE  SeqInv'
<1>1. /\ \A q \in Procs \ {p} : pc[q] = "idle"
      /\ AlertsExact /\ Agrees(p)
  BY DEF SeqInv, Solo
<1>2. AlertsExact'
  BY <1>1 DEF AlertsExact, shared
<1>3. CASE HandleAlerting(p)
  <2>1. copy'[p] = Counted(copy[p], result[p]) /\ truth' = Counted(truth, result[p])
        /\ Goto(p, "loop") /\ pc'[p] = "loop"
    BY <1>3 DEF HandleAlerting, TypeOK, Goto
  <2>2. Agrees(p)'
    BY <1>1, <2>1 DEF Agrees
  <2> QED
    BY <1>1, <1>2, <2>1, <2>2, SoloStep
<1>4. CASE Muted(p)
  <2>1. truth' = Stored' /\ Goto(p, "idle")
    BY <1>1, <1>4 DEF Agrees, Stored, Muted, Return, shared
  <2> QED
    BY <1>1, <1>2, <2>1, SoloStep
<1> QED
  BY <1>3, <1>4

(***************************************************************************)
(* Every step of the loop of a goroutine that is alone keeps it in         *)
(* agreement.                                                              *)
(***************************************************************************)
LEMMA SeqLoopStep ==
    ASSUME TypeOK, SeqInv, ~overlapped', NEW p \in Procs, LoopStep(p)
    PROVE  SeqInv'
<1>1. pc[p] \in {"loop", "send", "syncSuccesses", "syncFailures"} /\ ~overlapped
  BY DEF LoopStep, SkipAlert, DecideToSend, SendFails, SendSucceeds, PersistSuccesses,
         Resolve, SyncSuccesses, SyncFailures
<1>2. /\ \A q \in Procs \ {p} : pc[q] = "idle"
      /\ AlertsExact /\ Agrees(p)
  BY <1>1 DEF SeqInv, Solo
<1>3. initials \in [Alerts -> Nat] /\ triggered \subseteq Alerts /\ at[p] \in Alerts
  BY DEF TypeOK
<1>4. ASSUME NextAlert(p), UNCHANGED <<copy, truth>>, AlertsExact' PROVE SeqInv'
  <2>1. \E where \in {"loop", "syncSuccesses"} : Goto(p, where) /\ pc'[p] = where
    BY <1>4, NextAlertMoves DEF Goto, TypeOK
  <2>2. Agrees(p)'
    BY <1>2, <1>4, <2>1 DEF Agrees
  <2> QED
    BY <1>2, <1>4, <2>1, <2>2, SoloStep
<1>5. CASE SkipAlert(p) \/ SendFails(p)
  <2>1. NextAlert(p) /\ UNCHANGED <<copy, truth, triggered, persisted, initials>>
    BY <1>5 DEF SkipAlert, SendFails, shared
  <2> QED
    BY <1>2, <1>4, <2>1 DEF AlertsExact
<1>6. CASE DecideToSend(p)
  <2>1. /\ UNCHANGED <<copy, truth, at, triggered, persisted, initials>>
        /\ Goto(p, "send") /\ pc'[p] = "send"
        /\ initial'[p] = (at[p] \notin triggered)
    BY <1>6 DEF DecideToSend, Goto, shared, TypeOK
  <2>2. Agrees(p)' /\ AlertsExact'
    BY <1>2, <2>1 DEF Agrees, AlertsExact
  <2> QED
    BY <1>2, <2>1, <2>2, SoloStep
<1>7. CASE SendSucceeds(p)
  <2>1. /\ NextAlert(p) /\ UNCHANGED <<copy, truth>> /\ pc[p] = "send"
        /\ triggered' = IF initial[p] THEN triggered \cup {at[p]} ELSE triggered
        /\ persisted' = persisted \cup {at[p]}
        /\ initials' = IF initial[p] THEN [initials EXCEPT ![at[p]] = @ + 1] ELSE initials
    BY <1>7 DEF SendSucceeds
  <2>2. initial[p] = (at[p] \notin triggered)
    BY <1>2, <2>1 DEF Agrees
  <2>3. AlertsExact'
    <3>1. CASE at[p] \in triggered
      BY <1>2, <2>1, <2>2, <3>1 DEF AlertsExact
    <3>2. CASE at[p] \notin triggered
      <4>1. triggered' = triggered \cup {at[p]} /\ persisted' = triggered'
            /\ initials' = [initials EXCEPT ![at[p]] = @ + 1] /\ initials[at[p]] = 0
        BY <1>2, <1>3, <2>1, <2>2, <3>2 DEF AlertsExact
      <4> QED
        BY <1>2, <1>3, <4>1 DEF AlertsExact
    <3> QED
      BY <3>1, <3>2
  <2> QED
    BY <1>4, <2>1, <2>3
<1>8. CASE PersistSuccesses(p)
  <2>1. /\ NextAlert(p) /\ UNCHANGED <<copy, truth, triggered, initials>>
        /\ at[p] \in triggered /\ persisted' = persisted \cup {at[p]}
    BY <1>8 DEF PersistSuccesses
  <2> QED
    BY <1>2, <1>4, <2>1 DEF AlertsExact
<1>9. CASE Resolve(p)
  <2>1. /\ NextAlert(p) /\ UNCHANGED <<copy, truth>>
        /\ triggered' = triggered \ {at[p]} /\ persisted' = persisted \ {at[p]}
        /\ initials' = [initials EXCEPT ![at[p]] = 0]
    BY <1>9 DEF Resolve
  <2>2. AlertsExact'
    BY <1>2, <1>3, <2>1 DEF AlertsExact
  <2> QED
    BY <1>4, <2>1, <2>2
<1>10. CASE SyncSuccesses(p)
  <2>1. /\ UNCHANGED <<copy, truth, triggered, persisted, initials>>
        /\ Goto(p, "syncFailures") /\ pc'[p] = "syncFailures"
        /\ successes' = copy[p].successes
    BY <1>10 DEF SyncSuccesses, Goto, locals, TypeOK
  <2>2. Agrees(p)' /\ AlertsExact'
    BY <1>2, <2>1 DEF Agrees, AlertsExact
  <2> QED
    BY <1>2, <2>1, <2>2, SoloStep
<1>11. CASE SyncFailures(p)
  <2>1. /\ UNCHANGED <<truth, successes, triggered, persisted, initials>>
        /\ Goto(p, "idle") /\ pc[p] = "syncFailures"
        /\ failures' = copy[p].failures
    BY <1>11 DEF SyncFailures, Return
  <2>2. AlertsExact'
    BY <1>2, <2>1 DEF AlertsExact
  <2>3. truth' = [failures |-> truth.failures, successes |-> truth.successes]
    BY <2>1 DEF TypeOK, Counters
  <2>4. truth' = Stored'
    BY <1>2, <2>1, <2>3 DEF Agrees, Stored
  <2> QED
    BY <1>2, <2>1, <2>2, <2>4, SoloStep
<1> QED
  BY <1>5, <1>6, <1>7, <1>8, <1>9, <1>10, <1>11 DEF LoopStep

(***************************************************************************)
(* A goroutine that gives up before it counts leaves things as they were.  *)
(***************************************************************************)
LEMMA SeqGiveUp ==
    ASSUME TypeOK, SeqInv, ~overlapped', NEW p \in Procs, pc[p] \in {"insert", "check"},
           Return(p), UNCHANGED <<shared, initials, overlapped, truth>>
    PROVE  SeqInv'
BY SeqInsert DEF Muted

(***************************************************************************)
(* Every step keeps sequential use exact.                                  *)
(***************************************************************************)
LEMMA SeqStep == TypeOK /\ SeqInv /\ [Next]_vars => SeqInv'
<1> SUFFICES ASSUME TypeOK, SeqInv, [Next]_vars, ~overlapped' PROVE SeqInv'
  BY DEF SeqInv
<1>0. Heartbeat \in Procs /\ \A p \in Pushers : p \in Procs
  BY DEF Procs
<1>1. ASSUME NEW p \in Pushers, Push(p) PROVE SeqInv'
  BY <1>0, <1>1, SeqEnter DEF Push
<1>2. ASSUME NEW p \in Pushers, PushInsert(p) PROVE SeqInv'
  BY <1>0, <1>2, SeqInsert DEF PushInsert
<1>3. ASSUME NEW p \in Pushers, PushInsertFails(p) PROVE SeqInv'
  BY <1>0, <1>3, SeqGiveUp DEF PushInsertFails
<1>4. CASE HeartbeatFires
  BY <1>0, <1>4, SeqEnter DEF HeartbeatFires
<1>5. CASE HeartbeatFindsResult
  BY <1>0, <1>5, SeqGiveUp DEF HeartbeatFindsResult
<1>6. CASE HeartbeatFindsSilence
  <2>1. /\ UNCHANGED <<copy, failures, successes, triggered, persisted, initials, truth>>
        /\ Goto(Heartbeat, "insert") /\ pc'[Heartbeat] = "insert"
        /\ pc[Heartbeat] = "check" /\ ~overlapped
    BY <1>0, <1>6 DEF HeartbeatFindsSilence, Goto, shared, locals, TypeOK
  <2>2. /\ \A q \in Procs \ {Heartbeat} : pc[q] = "idle"
        /\ AlertsExact /\ Agrees(Heartbeat)
    BY <1>0, <2>1 DEF SeqInv, Solo
  <2>3. AlertsExact' /\ Agrees(Heartbeat)'
    BY <2>1, <2>2 DEF AlertsExact, Agrees, Stored
  <2> QED
    BY <1>0, <2>1, <2>2, <2>3, SoloStep
<1>7. CASE HeartbeatInsert
  BY <1>0, <1>7, SeqInsert DEF HeartbeatInsert
<1>8. CASE HeartbeatSkips \/ UNCHANGED vars
  BY <1>8 DEF SeqInv, Solo, AlertsExact, Quiet, Agrees, Stored, HeartbeatSkips, vars,
              moving, shared, locals
<1> QED
  BY <1>0, <1>1, <1>2, <1>3, <1>4, <1>5, <1>6, <1>7, <1>8, SeqLoopStep
     DEF Next, PushStep, HeartbeatStep

(***************************************************************************)
(* Requests and heartbeats that never overlapped have counted exactly, and *)
(* rows, flags and initial alerts tell the same.                           *)
(***************************************************************************)
THEOREM SequentialUse == Spec => []SequentialUseIsExact
<1>1. Init => SeqInv
  BY DEF Init, SeqInv, Solo, AlertsExact, Quiet, Stored, NoCount
<1>2. SeqInv => SequentialUseIsExact
  BY DEF SeqInv, AlertsExact, Stored, SequentialUseIsExact
<1> QED
  BY <1>1, <1>2, SeqStep, TypeCorrect, PTL DEF Spec
=============================================================================
