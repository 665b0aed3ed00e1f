-------------------------- MODULE LifecycleProofs ---------------------------
(***************************************************************************)
(* That no semaphore lets in more than it may and that a reload loses no   *)
(* result of the configuration in force, for any number of monitored       *)
(* things, any concurrency and any number of configurations.               *)
(***************************************************************************)
EXTENDS Lifecycle, FiniteSetTheorems, SequenceTheorems, TLAPS

-----------------------------------------------------------------------------
(* Queues *)

(***************************************************************************)
(* A worker that begins to wait is behind those that wait already.         *)
(***************************************************************************)
LEMMA QueueAfterAppend ==
    ASSUME NEW q \in Seq(Workers), NEW w \in Workers
    PROVE  /\ Append(q, w) \in Seq(Workers)
           /\ Len(Append(q, w)) = Len(q) + 1
           /\ \A n \in 1..Len(q) + 1 :
                Append(q, w)[n] = IF n <= Len(q) THEN q[n] ELSE w
OBVIOUS

(***************************************************************************)
(* A worker that gives up lets those behind it move up.                    *)
(***************************************************************************)
LEMMA QueueAfterRemoval ==
    ASSUME NEW q \in Seq(Workers), NEW n \in 1..Len(q)
    PROVE  /\ RemoveAt(q, n) \in Seq(Workers)
           /\ Len(RemoveAt(q, n)) = Len(q) - 1
           /\ \A m \in 1..Len(q) - 1 :
                RemoveAt(q, n)[m] = IF m < n THEN q[m] ELSE q[m + 1]
<1> DEFINE front == SubSeq(q, 1, n - 1)
           rest == SubSeq(q, n + 1, Len(q))
<1>1. /\ front \in Seq(Workers) /\ Len(front) = n - 1
      /\ \A m \in 1..n - 1 : front[m] = q[m]
  BY SubSeqProperties, LenProperties
<1>2. /\ rest \in Seq(Workers) /\ Len(rest) = Len(q) - n
      /\ \A m \in 1..Len(q) - n : rest[m] = q[n + m]
  BY SubSeqProperties, LenProperties
<1>3. RemoveAt(q, n) = front \o rest
  BY DEF RemoveAt
<1>4. Len(q) \in Nat
  OBVIOUS
<1>5. /\ front \o rest \in Seq(Workers) /\ Len(front \o rest) = Len(front) + Len(rest)
      /\ \A m \in 1..Len(front) + Len(rest) : (front \o rest)[m] =
            IF m <= Len(front) THEN front[m] ELSE rest[m - Len(front)]
  BY <1>1, <1>2, ConcatProperties
<1> HIDE DEF front, rest
<1>6. ASSUME NEW m \in 1..Len(q) - 1
      PROVE  (front \o rest)[m] = IF m < n THEN q[m] ELSE q[m + 1]
  <2>1. CASE m < n
    BY <1>1, <1>2, <1>4, <1>5, <2>1
  <2>2. CASE ~(m < n)
    <3>1. m - (n - 1) \in 1..Len(q) - n /\ n + (m - (n - 1)) = m + 1
      BY <1>4, <2>2
    <3>2. rest[m - (n - 1)] = q[n + (m - (n - 1))]
      BY <1>2, <3>1
    <3>3. (front \o rest)[m] = rest[m - (n - 1)]
      <4>1. m \in 1..Len(front) + Len(rest) /\ ~(m <= Len(front))
        BY <1>1, <1>2, <1>4, <2>2
      <4> QED BY <1>1, <1>5, <4>1
    <3> QED BY <2>2, <3>1, <3>2, <3>3
  <2> QED BY <2>1, <2>2
<1> QED BY <1>1, <1>2, <1>3, <1>4, <1>5, <1>6

(***************************************************************************)
(* The first worker leaves, and the others move up.                        *)
(***************************************************************************)
LEMMA QueueAfterTail ==
    ASSUME NEW q \in Seq(Workers), q # <<>>
    PROVE  /\ Tail(q) \in Seq(Workers)
           /\ Len(q) \in Nat \ {0}
           /\ Head(q) = q[1]
           /\ Len(Tail(q)) = Len(q) - 1
           /\ \A m \in 1..Len(q) - 1 : Tail(q)[m] = q[m + 1]
OBVIOUS

-----------------------------------------------------------------------------
(* The invariant *)

Typed ==
    /\ main \in Mains /\ file \in {"same", "valid", "invalid"}
    /\ current \in Gens /\ ctxGen \in Gens /\ cancelled \subseteq Gens
    /\ worker \in [Workers -> Stages]
    /\ queue \in [Gens -> Seq(Workers)]
    /\ holders \in [Gens -> SUBSET Workers]

\* Where a reload stands, and what has been cancelled by then.
Reloading ==
    /\ ctxGen <= current
    /\ main # "monitor" => ctxGen = current
    /\ main = "monitor" =>
          \/ ctxGen < current /\ ctxGen \in cancelled
          \/ \A w \in Workers : worker[w] = "unborn"
    /\ main \in {"load", "close", "init"} => ctxGen \in cancelled
    /\ main \in {"close", "init"} => current < MaxGen
    /\ ~storeOpen => main = "init"
    /\ file = "valid" => current < MaxGen /\ main \in {"monitor", "spawn", "watch", "load"}

\* A goroutine is of the generation of a context or of one that was stopped.
Belongs(w, g) == w[1] = g \/ (w[1] < g /\ w[1] \in cancelled)

Born == \A w \in Workers : worker[w] # "unborn" => Belongs(w, ctxGen)

Queued ==
    \A g \in Gens : \A n \in 1..Len(queue[g]) :
        worker[queue[g][n]] = "acquiring" /\ Belongs(queue[g][n], g)

QueuedOnce ==
    \A g, h \in Gens : \A n \in 1..Len(queue[g]), m \in 1..Len(queue[h]) :
        queue[g][n] = queue[h][m] => g = h /\ n = m

Held ==
    /\ \A g \in Gens : \A w \in holders[g] :
         worker[w] = "executing" /\ Belongs(w, g) /\ \A h \in Gens : w \in holders[h] => h = g
    /\ \A w \in Workers : worker[w] = "executing" => \E g \in Gens : w \in holders[g]

Limited ==
    \A g \in Gens : IsFiniteSet(holders[g]) /\ Cardinality(holders[g]) <= Concurrency

Inv == Typed /\ Reloading /\ Born /\ Queued /\ QueuedOnce /\ Held /\ Limited

(***************************************************************************)
(* Workers belong to generations, which are numbers up to the bound.       *)
(***************************************************************************)
LEMMA Generations ==
    /\ \A g \in Gens : g \in Nat
    /\ \A w \in Workers : w[1] \in Gens /\ w[1] \in Nat
    /\ \A g \in Gens, m \in Monitored : <<g, m>> \in Workers /\ <<g, m>>[1] = g
    /\ \A g \in Gens : g < MaxGen => g + 1 \in Gens
    /\ Concurrency \in Nat \ {0}
BY LifecycleAssumption DEF Gens, Workers

(***************************************************************************)
(* The invariant holds in the first state.                                 *)
(***************************************************************************)
LEMMA Initially == Init => Inv
<1> SUFFICES ASSUME Init PROVE Inv
  OBVIOUS
<1>1. 1 \in Gens
  BY LifecycleAssumption DEF Gens
<1>2. Typed
  <2>1. <<>> \in Seq(Workers)
    OBVIOUS
  <2>2. worker \in [Workers -> Stages]
    BY DEF Init, Stages
  <2>3. queue \in [Gens -> Seq(Workers)] /\ holders \in [Gens -> SUBSET Workers]
    BY <2>1 DEF Init
  <2> QED BY <1>1, <2>2, <2>3 DEF Init, Typed, Mains
<1>3. Reloading
  BY <1>1 DEF Init, Reloading
<1>4. Born
  BY DEF Init, Born
<1>5. \A g \in Gens : queue[g] = <<>> /\ holders[g] = {}
  BY DEF Init
<1>6. Queued /\ QueuedOnce
  BY <1>5 DEF Queued, QueuedOnce
<1>7. Held
  BY <1>5 DEF Init, Held
<1>8. Limited
  <2>1. IsFiniteSet({}) /\ Cardinality({}) = 0
    BY FS_EmptySet
  <2>2. 0 <= Concurrency
    BY Generations
  <2> QED BY <1>5, <2>1, <2>2 DEF Limited
<1> QED BY <1>2, <1>3, <1>4, <1>6, <1>7, <1>8 DEF Inv

-----------------------------------------------------------------------------
(* The steps of the goroutines *)

\* A goroutine that is not in a queue enters that of the semaphore of the
\* moment: its own, or one that came after it was stopped.
LEMMA CallAcquireKeeps ==
    ASSUME Inv, NEW w \in Workers, worker[w] \in {"waiting", "unborn"},
           Belongs(w, ctxGen), CallAcquire(w),
           UNCHANGED <<main, file, current, ctxGen, cancelled, storeOpen>>,
           main = "monitor" => worker[w] # "unborn"
    PROVE  Inv'
<1>1. /\ worker' = [worker EXCEPT ![w] = "acquiring"] /\ holders' = holders
      /\ queue' = [queue EXCEPT ![ctxGen] = Append(queue[ctxGen], w)]
  BY DEF CallAcquire, Goto
<1>2. /\ ctxGen \in Gens /\ queue \in [Gens -> Seq(Workers)]
      /\ worker \in [Workers -> Stages] /\ holders \in [Gens -> SUBSET Workers]
  BY DEF Inv, Typed
<1>3. /\ queue'[ctxGen] \in Seq(Workers)
      /\ Len(queue'[ctxGen]) = Len(queue[ctxGen]) + 1 /\ Len(queue[ctxGen]) \in Nat
      /\ \A n \in 1..Len(queue[ctxGen]) + 1 :
            queue'[ctxGen][n] = IF n <= Len(queue[ctxGen]) THEN queue[ctxGen][n] ELSE w
  BY <1>1, <1>2, QueueAfterAppend
<1>4. \A g \in Gens \ {ctxGen} : queue'[g] = queue[g]
  BY <1>1, <1>2
<1>5. Typed'
  BY <1>1, <1>2, <1>3 DEF Inv, Typed, Stages
<1>6. Reloading'
  BY <1>1, <1>2 DEF Inv, Reloading
<1>7. Born'
  BY <1>1, <1>2 DEF Inv, Born, Belongs
<1>8. Queued'
  <2> SUFFICES ASSUME NEW g \in Gens, NEW n \in 1..Len(queue'[g])
               PROVE  worker'[queue'[g][n]] = "acquiring" /\ Belongs(queue'[g][n], g)
    BY <1>1 DEF Queued, Belongs
  <2>1. CASE queue'[g][n] = w
    <3>1. g = ctxGen
      BY <1>2, <1>4, <2>1 DEF Inv, Queued
    <3> QED BY <1>1, <1>2, <2>1, <3>1
  <2>2. CASE queue'[g][n] # w
    <3>1. n \in 1..Len(queue[g]) /\ queue'[g][n] = queue[g][n]
      BY <1>3, <1>4, <2>2
    <3>2. worker[queue[g][n]] = "acquiring" /\ Belongs(queue[g][n], g)
      BY <3>1 DEF Inv, Queued
    <3>3. queue[g][n] \in Workers
      BY <1>2, <3>1
    <3> QED BY <1>1, <1>2, <2>2, <3>1, <3>2, <3>3
  <2> QED BY <2>1, <2>2
<1>9. QueuedOnce'
  <2> SUFFICES ASSUME NEW g \in Gens, NEW h \in Gens,
                      NEW n \in 1..Len(queue'[g]), NEW m \in 1..Len(queue'[h]),
                      queue'[g][n] = queue'[h][m]
               PROVE  g = h /\ n = m
    BY DEF QueuedOnce
  <2>1. ASSUME NEW k \in Gens, NEW p \in 1..Len(queue'[k])
        PROVE  \/ k = ctxGen /\ p = Len(queue[ctxGen]) + 1 /\ queue'[k][p] = w
               \/ p \in 1..Len(queue[k]) /\ queue'[k][p] = queue[k][p]
                  /\ queue'[k][p] # w
    <3>1. \A o \in 1..Len(queue[k]) : queue[k][o] # w
      BY DEF Inv, Queued
    <3>2. CASE k = ctxGen
      <4>1. p \in 1..Len(queue[ctxGen]) + 1
        BY <1>3, <3>2
      <4>2. queue'[k][p] = IF p <= Len(queue[ctxGen]) THEN queue[ctxGen][p] ELSE w
        BY <1>3, <3>2, <4>1
      <4>3. CASE p <= Len(queue[ctxGen])
        <5>1. p \in 1..Len(queue[k])
          BY <1>3, <3>2, <4>1, <4>3
        <5> QED BY <3>1, <3>2, <4>2, <4>3, <5>1
      <4>4. CASE ~(p <= Len(queue[ctxGen]))
        <5>1. p = Len(queue[ctxGen]) + 1
          BY <1>3, <4>1, <4>4
        <5> QED BY <3>2, <4>2, <4>4, <5>1
      <4> QED BY <4>3, <4>4
    <3>3. CASE k # ctxGen
      BY <1>4, <3>1, <3>3
    <3> QED BY <3>2, <3>3
  <2>2. CASE queue'[g][n] = w
    <3>1. g = ctxGen /\ n = Len(queue[ctxGen]) + 1
      BY <2>1, <2>2
    <3>2. h = ctxGen /\ m = Len(queue[ctxGen]) + 1
      BY <2>1, <2>2
    <3> QED BY <3>1, <3>2
  <2>3. CASE queue'[g][n] # w
    <3>1. n \in 1..Len(queue[g]) /\ queue'[g][n] = queue[g][n]
      BY <2>1, <2>3
    <3>2. m \in 1..Len(queue[h]) /\ queue'[h][m] = queue[h][m]
      BY <2>1, <2>3
    <3>3. queue[g][n] = queue[h][m]
      BY <3>1, <3>2
    <3>4. QueuedOnce
      BY DEF Inv
    <3> QED BY <3>1, <3>2, <3>3, <3>4 DEF QueuedOnce
  <2> QED BY <2>2, <2>3
<1>10. Held'
  BY <1>1, <1>2 DEF Inv, Held, Belongs
<1>11. Limited'
  BY <1>1 DEF Inv, Limited
<1> QED BY <1>5, <1>6, <1>7, <1>8, <1>9, <1>10, <1>11 DEF Inv

\* One that is in no queue and has no permit may return.
LEMMA DoneKeeps ==
    ASSUME Inv, NEW w \in Workers, Done(w)
    PROVE  Inv'
<1>1. /\ worker[w] = "waiting" /\ worker' = [worker EXCEPT ![w] = "done"]
      /\ UNCHANGED <<mainVars, queue, holders>>
  BY DEF Done, Goto
<1>2. worker \in [Workers -> Stages] /\ queue \in [Gens -> Seq(Workers)]
      /\ holders \in [Gens -> SUBSET Workers]
  BY DEF Inv, Typed
<1>3. Typed' /\ Reloading' /\ Born'
  <2>1. Typed'
    BY <1>1, <1>2 DEF Inv, Typed, Stages, mainVars
  <2>2. Reloading'
    BY <1>1, <1>2 DEF Inv, Reloading, mainVars
  <2>3. Born'
    BY <1>1, <1>2 DEF Inv, Born, Belongs, mainVars
  <2> QED BY <2>1, <2>2, <2>3
<1>4. Queued'
  <2> SUFFICES ASSUME NEW g \in Gens, NEW n \in 1..Len(queue[g])
               PROVE  worker'[queue[g][n]] = "acquiring" /\ Belongs(queue[g][n], g)
    BY <1>1 DEF Queued, Belongs, mainVars
  <2>1. worker[queue[g][n]] = "acquiring" /\ Belongs(queue[g][n], g)
    BY DEF Inv, Queued
  <2>2. queue[g][n] \in Workers
    BY <1>2
  <2> QED BY <1>1, <1>2, <2>1, <2>2
<1>5. QueuedOnce' /\ Limited'
  BY <1>1 DEF Inv, QueuedOnce, Limited
<1>6. Held'
  BY <1>1, <1>2 DEF Inv, Held, Belongs, mainVars
<1> QED BY <1>3, <1>4, <1>5, <1>6 DEF Inv

\* The first in a queue gets one of the permits that are left.
LEMMA AcquireKeeps ==
    ASSUME Inv, NEW w \in Workers, Acquire(w)
    PROVE  Inv'
<1>1. PICK g \in Gens \ cancelled :
        /\ queue[g] # <<>> /\ w = Head(queue[g])
        /\ Cardinality(holders[g]) < Concurrency
        /\ queue' = [queue EXCEPT ![g] = Tail(queue[g])]
        /\ holders' = [holders EXCEPT ![g] = holders[g] \cup {w}]
        /\ worker' = [worker EXCEPT ![w] = "executing"]
        /\ UNCHANGED mainVars
  BY DEF Acquire, Goto
<1>2. worker \in [Workers -> Stages] /\ queue \in [Gens -> Seq(Workers)]
      /\ holders \in [Gens -> SUBSET Workers] /\ g \in Gens
  BY DEF Inv, Typed
<1>3. /\ queue'[g] \in Seq(Workers) /\ Len(queue[g]) \in Nat \ {0}
      /\ w = queue[g][1] /\ Len(queue'[g]) = Len(queue[g]) - 1
      /\ \A n \in 1..Len(queue[g]) - 1 : queue'[g][n] = queue[g][n + 1]
  BY <1>1, <1>2, QueueAfterTail
<1>4. \A h \in Gens \ {g} : queue'[h] = queue[h] /\ holders'[h] = holders[h]
  BY <1>1, <1>2
<1>5. worker[w] = "acquiring" /\ Belongs(w, g)
  <2>1. 1 \in 1..Len(queue[g])
    BY <1>3
  <2> QED BY <1>3, <2>1 DEF Inv, Queued
<1>6. \A h \in Gens : w \notin holders[h]
  BY <1>2, <1>5 DEF Inv, Held
<1>7. ASSUME NEW h \in Gens, NEW n \in 1..Len(queue'[h])
      PROVE  \E m \in 1..Len(queue[h]) :
                /\ queue'[h][n] = queue[h][m]
                /\ m = IF h = g THEN n + 1 ELSE n
                /\ queue[h][m] # w
  <2>1. CASE h = g
    <3>1. n \in 1..Len(queue[g]) - 1 /\ n + 1 \in 1..Len(queue[g]) /\ n + 1 # 1
      BY <1>3, <2>1
    <3>2. queue[g][n + 1] # queue[g][1]
      <4>1. 1 \in 1..Len(queue[g])
        BY <1>3
      <4> QED BY <3>1, <4>1 DEF Inv, QueuedOnce
    <3> QED BY <1>3, <2>1, <3>1, <3>2
  <2>2. CASE h # g
    <3>1. n \in 1..Len(queue[h]) /\ queue'[h][n] = queue[h][n]
      BY <1>4, <2>2
    <3>2. 1 \in 1..Len(queue[g])
      BY <1>3
    <3>3. queue[h][n] # queue[g][1]
      BY <1>2, <2>2, <3>1, <3>2 DEF Inv, QueuedOnce
    <3> QED BY <1>3, <2>2, <3>1, <3>3
  <2> QED BY <2>1, <2>2
<1>8. Typed'
  BY <1>1, <1>2, <1>3 DEF Inv, Typed, Stages, mainVars
<1>9. Reloading'
  BY <1>1, <1>2, <1>5 DEF Inv, Reloading, mainVars
<1>10. Born'
  BY <1>1, <1>2, <1>5 DEF Inv, Born, Belongs, mainVars
<1>11. Queued'
  <2> SUFFICES ASSUME NEW h \in Gens, NEW n \in 1..Len(queue'[h])
               PROVE  worker'[queue'[h][n]] = "acquiring" /\ Belongs(queue'[h][n], h)
    BY <1>1 DEF Queued, Belongs, mainVars
  <2>1. PICK m \in 1..Len(queue[h]) : queue'[h][n] = queue[h][m] /\ queue[h][m] # w
    BY <1>7
  <2>2. worker[queue[h][m]] = "acquiring" /\ Belongs(queue[h][m], h)
    BY DEF Inv, Queued
  <2>3. queue[h][m] \in Workers
    BY <1>2
  <2> QED BY <1>1, <1>2, <2>1, <2>2, <2>3
<1>12. QueuedOnce'
  <2> SUFFICES ASSUME NEW h \in Gens, NEW k \in Gens,
                      NEW n \in 1..Len(queue'[h]), NEW m \in 1..Len(queue'[k]),
                      queue'[h][n] = queue'[k][m]
               PROVE  h = k /\ n = m
    BY DEF QueuedOnce
  <2>1. PICK o \in 1..Len(queue[h]) :
           queue'[h][n] = queue[h][o] /\ o = IF h = g THEN n + 1 ELSE n
    BY <1>7
  <2>2. PICK p \in 1..Len(queue[k]) :
           queue'[k][m] = queue[k][p] /\ p = IF k = g THEN m + 1 ELSE m
    BY <1>7
  <2>3. h = k /\ o = p
    <3>1. queue[h][o] = queue[k][p]
      BY <2>1, <2>2
    <3>2. QueuedOnce
      BY DEF Inv
    <3> QED BY <3>1, <3>2, Zenon DEF QueuedOnce
  <2>4. n \in Int /\ m \in Int
    OBVIOUS
  <2> QED BY <2>1, <2>2, <2>3, <2>4
<1>13. Held'
  <2>1. ASSUME NEW h \in Gens, NEW v \in holders'[h]
        PROVE  worker'[v] = "executing" /\ Belongs(v, h)
               /\ \A k \in Gens : v \in holders'[k] => k = h
    <3>1. CASE v = w
      <4>1. h = g
        BY <1>4, <1>6, <2>1, <3>1
      <4> QED BY <1>1, <1>2, <1>4, <1>5, <1>6, <3>1, <4>1
    <3>2. CASE v # w
      <4>1. \A k \in Gens : v \in holders'[k] <=> v \in holders[k]
        BY <1>1, <1>2, <3>2
      <4>2. worker[v] = "executing" /\ Belongs(v, h)
            /\ \A k \in Gens : v \in holders[k] => k = h
        BY <2>1, <4>1 DEF Inv, Held
      <4>3. v \in Workers
        BY <1>2, <2>1, <4>1
      <4> QED BY <1>1, <1>2, <3>2, <4>1, <4>2, <4>3
    <3> QED BY <3>1, <3>2
  <2>2. ASSUME NEW v \in Workers, worker'[v] = "executing"
        PROVE  \E h \in Gens : v \in holders'[h]
    <3>1. CASE v = w
      BY <1>1, <1>2, <3>1
    <3>2. CASE v # w
      BY <1>1, <1>2, <2>2, <3>2 DEF Inv, Held
    <3> QED BY <3>1, <3>2
  <2> QED BY <1>1, <2>1, <2>2 DEF Held, Belongs, mainVars
<1>14. Limited'
  <2>1. IsFiniteSet(holders[g]) /\ w \notin holders[g]
    BY <1>2, <1>6 DEF Inv, Limited
  <2>2. /\ IsFiniteSet(holders[g] \cup {w})
        /\ Cardinality(holders[g] \cup {w}) = Cardinality(holders[g]) + 1
        /\ Cardinality(holders[g]) \in Nat
    BY <2>1, FS_AddElement, FS_CardinalityType
  <2>3. Cardinality(holders[g]) + 1 <= Concurrency
    BY <1>1, <2>2, Generations
  <2>4. holders'[g] = holders[g] \cup {w}
    BY <1>1, <1>2
  <2> QED BY <1>4, <2>2, <2>3, <2>4 DEF Inv, Limited
<1> QED BY <1>8, <1>9, <1>10, <1>11, <1>12, <1>13, <1>14 DEF Inv

\* One whose context is cancelled leaves its queue; the others move up.
LEMMA AcquireFailsKeeps ==
    ASSUME Inv, NEW w \in Workers, AcquireFails(w)
    PROVE  Inv'
<1>1. PICK g \in cancelled : \E n \in DOMAIN queue[g] :
        /\ queue[g][n] = w
        /\ queue' = [queue EXCEPT ![g] = RemoveAt(queue[g], n)]
        /\ worker' = [worker EXCEPT ![w] = "waiting"]
        /\ UNCHANGED <<mainVars, holders>>
  BY DEF AcquireFails, Goto
<1>2. worker \in [Workers -> Stages] /\ queue \in [Gens -> Seq(Workers)]
      /\ holders \in [Gens -> SUBSET Workers] /\ g \in Gens
  BY DEF Inv, Typed
<1>3. PICK o \in 1..Len(queue[g]) :
        /\ queue[g][o] = w
        /\ queue' = [queue EXCEPT ![g] = RemoveAt(queue[g], o)]
        /\ worker' = [worker EXCEPT ![w] = "waiting"]
        /\ UNCHANGED <<mainVars, holders>>
  <2>1. DOMAIN queue[g] = 1..Len(queue[g])
    BY <1>2
  <2> QED BY <1>1, <2>1
<1>4. /\ queue'[g] \in Seq(Workers) /\ Len(queue[g]) \in Nat
      /\ Len(queue'[g]) = Len(queue[g]) - 1
      /\ \A n \in 1..Len(queue[g]) - 1 :
            queue'[g][n] = IF n < o THEN queue[g][n] ELSE queue[g][n + 1]
  <2>1. queue[g] \in Seq(Workers) /\ queue'[g] = RemoveAt(queue[g], o)
    BY <1>2, <1>3
  <2>2. Len(queue[g]) \in Nat
    BY <2>1
  <2> QED BY <2>1, <2>2, QueueAfterRemoval
<1>5. \A h \in Gens \ {g} : queue'[h] = queue[h]
  BY <1>2, <1>3
<1>6. worker[w] = "acquiring" /\ Belongs(w, g)
  BY <1>2, <1>3 DEF Inv, Queued
<1>7. ASSUME NEW h \in Gens, NEW n \in 1..Len(queue'[h])
      PROVE  \E m \in 1..Len(queue[h]) :
                /\ queue'[h][n] = queue[h][m]
                /\ m = IF h = g /\ ~(n < o) THEN n + 1 ELSE n
                /\ queue[h][m] # w
  <2>1. QueuedOnce
    BY DEF Inv
  <2>2. CASE h = g
    <3> DEFINE m == IF n < o THEN n ELSE n + 1
    <3>1. m \in 1..Len(queue[g]) /\ m # o /\ n \in 1..Len(queue[g]) - 1
      BY <1>4, <2>2
    <3>2. queue'[g][n] = queue[g][m]
      BY <1>4, <3>1
    <3>3. queue[g][m] # queue[g][o]
      BY <1>2, <2>1, <3>1 DEF QueuedOnce
    <3> QED BY <1>3, <2>2, <3>1, <3>2, <3>3
  <2>3. CASE h # g
    <3>1. n \in 1..Len(queue[h]) /\ queue'[h][n] = queue[h][n]
      BY <1>5, <2>3
    <3>2. queue[h][n] # queue[g][o]
      BY <1>2, <2>1, <2>3, <3>1 DEF QueuedOnce
    <3> QED BY <1>3, <2>3, <3>1, <3>2
  <2> QED BY <2>2, <2>3
<1>8. Typed'
  BY <1>2, <1>3, <1>4 DEF Inv, Typed, Stages, mainVars
<1>9. Reloading'
  BY <1>2, <1>3, <1>6 DEF Inv, Reloading, mainVars
<1>10. Born'
  BY <1>2, <1>3, <1>6 DEF Inv, Born, Belongs, mainVars
<1>11. Queued'
  <2> SUFFICES ASSUME NEW h \in Gens, NEW n \in 1..Len(queue'[h])
               PROVE  worker'[queue'[h][n]] = "acquiring" /\ Belongs(queue'[h][n], h)
    BY <1>3 DEF Queued, Belongs, mainVars
  <2>1. PICK m \in 1..Len(queue[h]) : queue'[h][n] = queue[h][m] /\ queue[h][m] # w
    BY <1>7
  <2>2. worker[queue[h][m]] = "acquiring" /\ Belongs(queue[h][m], h)
    BY DEF Inv, Queued
  <2>3. queue[h][m] \in Workers
    BY <1>2
  <2> QED BY <1>2, <1>3, <2>1, <2>2, <2>3
<1>12. QueuedOnce'
  <2> SUFFICES ASSUME NEW h \in Gens, NEW k \in Gens,
                      NEW n \in 1..Len(queue'[h]), NEW m \in 1..Len(queue'[k]),
                      queue'[h][n] = queue'[k][m]
               PROVE  h = k /\ n = m
    BY DEF QueuedOnce
  <2>1. PICK p \in 1..Len(queue[h]) :
           queue'[h][n] = queue[h][p] /\ p = IF h = g /\ ~(n < o) THEN n + 1 ELSE n
    BY <1>7
  <2>2. PICK q \in 1..Len(queue[k]) :
           queue'[k][m] = queue[k][q] /\ q = IF k = g /\ ~(m < o) THEN m + 1 ELSE m
    BY <1>7
  <2>3. h = k /\ p = q
    <3>1. queue[h][p] = queue[k][q]
      BY <2>1, <2>2
    <3>2. QueuedOnce
      BY DEF Inv
    <3>3. p \in 1..Len(queue[h]) /\ q \in 1..Len(queue[k])
      OBVIOUS
    <3> QED BY <3>1, <3>2, <3>3 DEF QueuedOnce
  <2>4. n \in Int /\ m \in Int /\ o \in Int
    OBVIOUS
  <2> QED BY <2>1, <2>2, <2>3, <2>4
<1>13. Held' /\ Limited'
  <2>1. Held'
    BY <1>2, <1>3, <1>6 DEF Inv, Held, Belongs, mainVars
  <2>2. Limited'
    BY <1>3 DEF Inv, Limited
  <2> QED BY <2>1, <2>2
<1> QED BY <1>8, <1>9, <1>10, <1>11, <1>12, <1>13 DEF Inv

\* The deferred Release gives back the one permit that an execution has.
LEMMA ReturnKeeps ==
    ASSUME Inv, NEW w \in Workers, Return(w)
    PROVE  Inv'
<1>1. PICK g \in Gens :
        /\ w \in holders[g]
        /\ holders' = [holders EXCEPT ![g] = holders[g] \ {w}]
        /\ worker' = [worker EXCEPT ![w] = "waiting"]
        /\ UNCHANGED <<mainVars, queue>>
  BY DEF Return, Goto
<1>2. worker \in [Workers -> Stages] /\ queue \in [Gens -> Seq(Workers)]
      /\ holders \in [Gens -> SUBSET Workers] /\ g \in Gens
  BY DEF Inv, Typed
<1>3. worker[w] = "executing" /\ Belongs(w, g) /\ \A h \in Gens : w \in holders[h] => h = g
  BY <1>1 DEF Inv, Held
<1>4. Typed'
  BY <1>1, <1>2 DEF Inv, Typed, Stages, mainVars
<1>5. Reloading'
  BY <1>1, <1>2, <1>3 DEF Inv, Reloading, mainVars
<1>6. Born'
  BY <1>1, <1>2, <1>3 DEF Inv, Born, Belongs, mainVars
<1>7. Queued'
  <2> SUFFICES ASSUME NEW h \in Gens, NEW n \in 1..Len(queue[h])
               PROVE  worker'[queue[h][n]] = "acquiring" /\ Belongs(queue[h][n], h)
    BY <1>1 DEF Queued, Belongs, mainVars
  <2>1. worker[queue[h][n]] = "acquiring" /\ Belongs(queue[h][n], h)
    BY DEF Inv, Queued
  <2>2. queue[h][n] \in Workers
    BY <1>2
  <2> QED BY <1>1, <1>2, <1>3, <2>1, <2>2
<1>8. QueuedOnce'
  BY <1>1 DEF Inv, QueuedOnce
<1>9. Held'
  <2>1. \A h \in Gens : \A v \in holders'[h] : v \in holders[h] /\ v # w
    BY <1>1, <1>2, <1>3
  <2>2. \A h \in Gens : \A v \in holders[h] : v # w => v \in holders'[h]
    BY <1>1, <1>2
  <2>3. \A v \in Workers : v # w => worker'[v] = worker[v]
    BY <1>1, <1>2
  <2>4. worker'[w] # "executing"
    BY <1>1, <1>2
  <2> QED BY <1>1, <1>2, <2>1, <2>2, <2>3, <2>4 DEF Inv, Held, Belongs, mainVars
<1>10. Limited'
  <2>1. IsFiniteSet(holders[g]) /\ Cardinality(holders[g]) <= Concurrency
    BY DEF Inv, Limited
  <2>2. /\ IsFiniteSet(holders[g] \ {w})
        /\ Cardinality(holders[g] \ {w}) = Cardinality(holders[g]) - 1
        /\ Cardinality(holders[g]) \in Nat
    BY <1>1, <2>1, FS_RemoveElement, FS_CardinalityType
  <2>3. Cardinality(holders[g]) - 1 <= Concurrency
    BY <2>1, <2>2, Generations
  <2>4. holders'[g] = holders[g] \ {w} /\ \A h \in Gens \ {g} : holders'[h] = holders[h]
    BY <1>1, <1>2
  <2> QED BY <2>2, <2>3, <2>4 DEF Inv, Limited
<1> QED BY <1>4, <1>5, <1>6, <1>7, <1>8, <1>9, <1>10 DEF Inv

-----------------------------------------------------------------------------
(* The steps of main *)

\* What one generation has to do with another does not change when more of
\* them are cancelled and nothing else happens to the goroutines.
LEMMA MainKeeps ==
    ASSUME Inv, UNCHANGED workerVars, cancelled \subseteq cancelled',
           Typed', Reloading', ctxGen' = ctxGen \/ Born'
    PROVE  Inv'
<1>1. worker' = worker /\ queue' = queue /\ holders' = holders
  BY DEF workerVars
<1>2. \A w \in Workers, g \in Gens : Belongs(w, g) => Belongs(w, g)'
  BY DEF Belongs
<1>3. worker \in [Workers -> Stages] /\ queue \in [Gens -> Seq(Workers)]
      /\ holders \in [Gens -> SUBSET Workers] /\ ctxGen \in Gens
  BY DEF Inv, Typed
<1>4. Born'
  BY <1>1, <1>2, <1>3 DEF Inv, Born, Belongs
<1>5. Queued'
  <2>1. \A g \in Gens : \A n \in 1..Len(queue[g]) : queue[g][n] \in Workers
    BY <1>3
  <2> QED BY <1>1, <1>2, <2>1 DEF Inv, Queued
<1>6. Held'
  BY <1>1, <1>2, <1>3 DEF Inv, Held
<1>7. QueuedOnce' /\ Limited'
  BY <1>1 DEF Inv, QueuedOnce, Limited
<1> QED BY <1>4, <1>5, <1>6, <1>7 DEF Inv

\* The new context is not older than any goroutine, and those that are older
\* than it have been cancelled.
LEMMA NewMonitorKeeps ==
    ASSUME Inv, NewMonitor
    PROVE  Inv'
<1>1. /\ main = "monitor" /\ main' = "spawn" /\ ctxGen' = current
      /\ UNCHANGED <<file, current, cancelled, storeOpen, workerVars>>
  BY DEF NewMonitor
<1>2. Typed'
  BY <1>1 DEF Inv, Typed, Mains, workerVars
<1>3. Reloading'
  BY <1>1, <1>2, Generations DEF Inv, Reloading, Typed, workerVars
<1>4. Born'
  <2> SUFFICES ASSUME NEW w \in Workers, worker[w] # "unborn"
               PROVE  w[1] = current \/ (w[1] < current /\ w[1] \in cancelled)
    BY <1>1 DEF Born, Belongs, workerVars
  <2>1. ctxGen < current /\ ctxGen \in cancelled
    BY <1>1 DEF Inv, Reloading
  <2>2. Belongs(w, ctxGen)
    BY DEF Inv, Born
  <2>3. w[1] \in Nat /\ ctxGen \in Nat /\ current \in Nat
    BY Generations DEF Inv, Typed
  <2> QED BY <2>1, <2>2, <2>3 DEF Belongs
<1> QED BY <1>1, <1>2, <1>3, <1>4, MainKeeps

(***************************************************************************)
(* A goroutine that is started is of the generation of the context.        *)
(***************************************************************************)
LEMMA SpawnKeeps ==
    ASSUME Inv, Spawn
    PROVE  Inv'
<1>1. PICK m \in Unborn :
        /\ main = "spawn"
        /\ IF m \in Heartbeats
           THEN Goto(<<current, m>>, "waiting") /\ UNCHANGED <<queue, holders>>
           ELSE CallAcquire(<<current, m>>)
        /\ UNCHANGED mainVars
  BY DEF Spawn
<1> DEFINE w == <<current, m>>
<1>2. current \in Gens /\ m \in Monitored /\ worker[w] = "unborn"
  BY DEF Inv, Typed, Unborn
<1>3. w \in Workers /\ w[1] = current
  BY <1>2, Generations
<1>4. ctxGen = current
  BY <1>1 DEF Inv, Reloading
<1>5. Belongs(w, ctxGen)
  BY <1>3, <1>4 DEF Belongs
<1> HIDE DEF w
<1>6. CASE m \notin Heartbeats
  BY <1>1, <1>2, <1>3, <1>5, <1>6, CallAcquireKeeps DEF w, mainVars
<1>7. CASE m \in Heartbeats
  <2>1. /\ worker' = [worker EXCEPT ![w] = "waiting"]
        /\ UNCHANGED <<mainVars, queue, holders>>
    BY <1>1, <1>7 DEF Goto, w
  <2>2. worker \in [Workers -> Stages] /\ queue \in [Gens -> Seq(Workers)]
        /\ holders \in [Gens -> SUBSET Workers]
    BY DEF Inv, Typed
  <2>3. Typed'
    BY <1>3, <2>1, <2>2 DEF Inv, Typed, Stages, mainVars
  <2>4. Reloading'
    BY <1>1, <2>1 DEF Inv, Reloading, mainVars
  <2>5. Born'
    BY <1>5, <2>1, <2>2 DEF Inv, Born, Belongs, mainVars
  <2>6. Queued'
    <3> SUFFICES ASSUME NEW g \in Gens, NEW n \in 1..Len(queue[g])
                 PROVE  worker'[queue[g][n]] = "acquiring" /\ Belongs(queue[g][n], g)
      BY <2>1 DEF Queued, Belongs, mainVars
    <3>1. worker[queue[g][n]] = "acquiring" /\ Belongs(queue[g][n], g)
      BY DEF Inv, Queued
    <3>2. queue[g][n] \in Workers
      BY <2>2
    <3> QED BY <1>2, <2>1, <2>2, <3>1, <3>2 DEF w
  <2>7. QueuedOnce' /\ Limited'
    BY <2>1 DEF Inv, QueuedOnce, Limited
  <2>8. Held'
    <3>1. worker[w] = "unborn"
      BY <1>2 DEF w
    <3> QED BY <1>3, <2>1, <2>2, <3>1 DEF Inv, Held, Belongs, mainVars
  <2> QED BY <2>3, <2>4, <2>5, <2>6, <2>7, <2>8 DEF Inv
<1> QED BY <1>6, <1>7

\* The steps of a reload and of an end follow one another as Reloading says.
LEMMA ReloadKeeps ==
    ASSUME Inv,
           \/ Watch \/ StopAll \/ LoadValid \/ SkipInvalid \/ PanicInvalid
           \/ CloseStore \/ InitializeStorage \/ InitializeStorageFails
           \/ Signal \/ Exit \/ Edit
    PROVE  Inv'
<1>1. UNCHANGED workerVars /\ ctxGen' = ctxGen /\ cancelled \subseteq cancelled'
  BY DEF Watch, StopAll, LoadValid, SkipInvalid, PanicInvalid, CloseStore,
         InitializeStorage, InitializeStorageFails, Signal, Exit, Edit
<1>2. Typed'
  <2>1. worker' = worker /\ queue' = queue /\ holders' = holders
    BY <1>1 DEF workerVars
  <2>2. main' \in Mains /\ file' \in {"same", "valid", "invalid"}
    BY DEF Inv, Typed, Mains, Watch, StopAll, LoadValid, SkipInvalid, PanicInvalid,
           CloseStore, InitializeStorage, InitializeStorageFails, Signal, Exit, Edit
  <2>3. current' \in Gens
    <3>1. CASE InitializeStorage
      BY <3>1, Generations DEF Inv, Typed, Reloading, InitializeStorage
    <3>2. CASE ~InitializeStorage
      BY <3>2 DEF Inv, Typed, Watch, StopAll, LoadValid, SkipInvalid, PanicInvalid,
                  CloseStore, InitializeStorageFails, Signal, Exit, Edit
    <3> QED BY <3>1, <3>2
  <2>4. cancelled' \subseteq Gens
    BY DEF Inv, Typed, Watch, StopAll, LoadValid, SkipInvalid, PanicInvalid,
           CloseStore, InitializeStorage, InitializeStorageFails, Signal, Exit, Edit
  <2> QED BY <1>1, <2>1, <2>2, <2>3, <2>4 DEF Inv, Typed
<1>3. Reloading'
  <2>1. worker' = worker
    BY <1>1 DEF workerVars
  <2>2. Reloading /\ ctxGen \in Nat /\ current \in Nat
    BY Generations DEF Inv, Typed
  <2>3. CASE Watch \/ LoadValid \/ SkipInvalid \/ CloseStore
    BY <1>1, <2>1, <2>2, <2>3 DEF Reloading, Watch, LoadValid, SkipInvalid, CloseStore
  <2>4. CASE StopAll \/ Signal
    BY <1>1, <2>1, <2>2, <2>4 DEF Reloading, StopAll, Signal
  <2>5. CASE PanicInvalid \/ InitializeStorageFails \/ Exit
    BY <1>1, <2>1, <2>2, <2>5 DEF Reloading, PanicInvalid, InitializeStorageFails, Exit
  <2>6. CASE InitializeStorage
    BY <1>1, <2>1, <2>2, <2>6 DEF Reloading, InitializeStorage
  <2>7. CASE Edit
    BY <1>1, <2>1, <2>2, <2>7 DEF Reloading, Edit
  <2> QED BY <2>3, <2>4, <2>5, <2>6, <2>7
<1> QED BY <1>1, <1>2, <1>3, MainKeeps

-----------------------------------------------------------------------------
(* The theorems *)

(***************************************************************************)
(* Every step keeps the invariant.                                         *)
(***************************************************************************)
LEMMA Inductive == Inv /\ [Next]_vars => Inv'
<1> SUFFICES ASSUME Inv, [Next]_vars PROVE Inv'
  OBVIOUS
<1>1. ASSUME NEW w \in Workers, Tick(w) PROVE Inv'
  <2>1. worker[w] = "waiting" /\ CallAcquire(w) /\ UNCHANGED mainVars
    BY <1>1 DEF Tick
  <2>2. Belongs(w, ctxGen)
    BY <2>1 DEF Inv, Born
  <2> QED BY <2>1, <2>2, CallAcquireKeeps DEF mainVars
<1>2. ASSUME NEW w \in Workers, WorkerStep(w) PROVE Inv'
  BY <1>1, <1>2, DoneKeeps, AcquireKeeps, AcquireFailsKeeps, ReturnKeeps DEF WorkerStep
<1>3. CASE MainStep \/ Signal \/ Exit \/ Edit
  BY <1>3, NewMonitorKeeps, SpawnKeeps, ReloadKeeps DEF MainStep
<1>4. CASE UNCHANGED vars
  <2>1. UNCHANGED <<mainVars, worker, queue, holders>>
    BY <1>4 DEF vars, workerVars
  <2> QED BY <2>1 DEF Inv, Typed, Reloading, Born, Belongs, Queued, QueuedOnce, Held,
                      Limited, mainVars
<1> QED BY <1>2, <1>3, <1>4 DEF Next, Terminated

\* No semaphore lets in more than the configured concurrency, every execution
\* has one permit, and one on the semaphore of another configuration has been
\* stopped, through any number of reloads that nobody waits for
\* (watchdog.go, endpoint.go:20-26).
THEOREM NeverTooMany == Spec => []ConcurrencyRespected
<1>1. Inv => ConcurrencyRespected
  <2> SUFFICES ASSUME Inv PROVE ConcurrencyRespected
    OBVIOUS
  <2>1. \A g \in Gens : Cardinality(holders[g]) <= Concurrency
    BY DEF Inv, Limited
  <2>2. ASSUME NEW w \in Workers
        PROVE  worker[w] = "executing" <=> Cardinality({g \in Gens : w \in holders[g]}) = 1
    <3> DEFINE in == {g \in Gens : w \in holders[g]}
    <3>1. ASSUME worker[w] = "executing" PROVE Cardinality(in) = 1
      <4>1. PICK g \in Gens : w \in holders[g]
        BY <3>1 DEF Inv, Held
      <4>2. in = {g}
        BY <4>1 DEF Inv, Held
      <4> QED BY <4>2, FS_Singleton
    <3>2. ASSUME worker[w] # "executing" PROVE Cardinality(in) = 0
      <4>1. in = {}
        BY <3>2 DEF Inv, Held
      <4> QED BY <4>1, FS_EmptySet
    <3> QED BY <3>1, <3>2
  <2>3. \A w \in Workers, g \in Gens :
            w \in holders[g] /\ w[1] # g => w[1] < g /\ w[1] \in cancelled
    BY DEF Inv, Held, Belongs
  <2> QED BY <2>1, <2>2, <2>3 DEF ConcurrencyRespected
<1> QED BY <1>1, Initially, Inductive, PTL DEF Spec

\* A result that finds the store closed belongs to a configuration that has
\* been stopped: main.go stops before it closes, however long an execution
\* takes to return.
THEOREM NoLoss == Spec => []OnlyStoppedResultsAreLost
<1>1. Inv => OnlyStoppedResultsAreLost
  <2> SUFFICES ASSUME Inv, NEW w \in Workers, worker[w] = "executing", ~storeOpen
               PROVE  w[1] \in cancelled
    BY DEF OnlyStoppedResultsAreLost
  <2>1. ctxGen \in cancelled
    BY DEF Inv, Reloading
  <2>2. Belongs(w, ctxGen)
    BY DEF Inv, Born
  <2> QED BY <2>1, <2>2 DEF Belongs
<1> QED BY <1>1, Initially, Inductive, PTL DEF Spec
=============================================================================
