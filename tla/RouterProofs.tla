------------------------------ MODULE RouterProofs ----------------------------
(***************************************************************************)
(* The router's counts, its health and its start-up are right for every    *)
(* number of workers and requests, and whatever workers do.                *)
(***************************************************************************)
EXTENDS Router, FiniteSetTheorems, TLAPS

Others == Workers \ {First}

Waiting == {v \in Others : starting[v] = "waits"}

(* What has started stays loaded, or is gone for good.                     *)
Started ==
    /\ \A w \in Workers : proc[w] = "loading" => starting[w] = "waits"
    /\ Serving => \A w \in Workers : starting[w] = "done" => proc[w] # "none"
    /\ allStarted => \A w \in Workers : starting[w] = "done"

(* The others start after worker 0, a few at a time.                       *)
TakeTurns ==
    /\ \A w \in Others : starting[w] # "no" => starting[First] = "done"
    /\ Cardinality(Waiting) <= StartParallel

IInv == TypeOK /\ CountsConserved /\ Started /\ TakeTurns

-------------------------------------------------------------------------------
(* Counting.                                                               *)

LEMMA CountType ==
  ASSUME NEW S \in SUBSET Requests
  PROVE  IsFiniteSet(S) /\ Cardinality(S) \in Nat
  BY RouterRequestsAssumption, FS_Subset, FS_CardinalityType

LEMMA WorkersCount ==
  ASSUME NEW S \in SUBSET Workers
  PROVE  IsFiniteSet(S) /\ Cardinality(S) \in Nat
  BY WorkersAssumption, FS_Subset, FS_CardinalityType

(* A step that leaves alone who holds which worker, and the counts.        *)
LEMMA SameHolds ==
  ASSUME IInv, UNCHANGED inflight, \A w \in Workers : Holds(w)' = Holds(w)
  PROVE  CountsConserved'
  BY DEF IInv, CountsConserved

(* Send takes one, for its own worker only.                                *)
LEMMA SendCounts ==
  ASSUME IInv, NEW r \in Requests, Send(r)
  PROVE  CountsConserved'
<1> SUFFICES ASSUME NEW w \in Workers
             PROVE  inflight'[w] = Cardinality(Holds(w)')
  BY DEF CountsConserved
<1>1. r \notin Holds(w) /\ Holds(w) \in SUBSET Requests
  BY DEF IInv, TypeOK, Send, Holds, Sent
<1>2. CASE w = target[r]
  <2>1. Holds(w)' = Holds(w) \cup {r}
    BY <1>2 DEF IInv, TypeOK, Send, Holds, Sent
  <2>2. Cardinality(Holds(w)') = Cardinality(Holds(w)) + 1
    BY <2>1, <1>1, CountType, FS_AddElement
  <2> QED BY <1>2, <2>2 DEF IInv, TypeOK, CountsConserved, Send
<1>3. CASE w # target[r]
  <2>1. Holds(w)' = Holds(w)
    BY <1>3 DEF IInv, TypeOK, Send, Holds, Sent
  <2> QED BY <1>3, <2>1 DEF IInv, TypeOK, CountsConserved, Send
<1> QED BY <1>2, <1>3

(* release() gives it back, and there is one to give back.                 *)
LEMMA ReleaseCounts ==
  ASSUME IInv, NEW r \in Requests, NEW end \in {"ok", "failed"},
         stage[r] \in Sent, Release(r, end)
  PROVE  CountsConserved' /\ inflight' \in [Workers -> Nat]
<1>1. \A w \in Workers : Holds(w) \in SUBSET Requests /\ Cardinality(Holds(w)) \in Nat
  BY CountType DEF Holds
<1>2. ASSUME NEW w \in Workers, w = target[r]
      PROVE  inflight'[w] = Cardinality(Holds(w)') /\ inflight'[w] \in Nat
  <2>1. r \in Holds(w)
    BY <1>2 DEF Holds
  <2>2. Holds(w)' = Holds(w) \ {r}
    BY <1>2 DEF IInv, TypeOK, Release, Holds, Sent
  <2>3. Cardinality(Holds(w)') = Cardinality(Holds(w)) - 1
    BY <2>1, <2>2, <1>1, CountType, FS_RemoveElement
  <2>4. Holds(w)' \in SUBSET Requests
    BY <2>2, <1>1
  <2>5. Cardinality(Holds(w)') \in Nat
    BY <2>4, CountType
  <2>6. inflight'[w] = inflight[w] - 1
    BY <1>2 DEF IInv, TypeOK, Release
  <2> QED BY <2>3, <2>5, <2>6 DEF IInv, CountsConserved
<1>3. ASSUME NEW w \in Workers, w # target[r]
      PROVE  inflight'[w] = Cardinality(Holds(w)') /\ inflight'[w] \in Nat
  <2>1. Holds(w)' = Holds(w)
    BY <1>3 DEF IInv, TypeOK, Release, Holds, Sent
  <2> QED BY <1>3, <2>1 DEF IInv, TypeOK, CountsConserved, Release
<1>4. inflight' = [w \in Workers |-> inflight'[w]]
  BY DEF IInv, TypeOK, Release
<1>5. \A w \in Workers : inflight'[w] = Cardinality(Holds(w)') /\ inflight'[w] \in Nat
  BY <1>2, <1>3
<1>6. inflight' \in [Workers -> Nat]
  BY <1>4, <1>5
<1> QED BY <1>5, <1>6 DEF CountsConserved

-------------------------------------------------------------------------------
(* Each step keeps the invariant.                                          *)

(* Steps that leave the requests alone.                                    *)
LEMMA RequestsAlone ==
  ASSUME IInv, UNCHANGED <<stage, target, inflight>>
  PROVE  CountsConserved'
  BY SameHolds DEF Holds

(* Steps that leave the start-up alone.                                    *)
LEMMA StartupAlone ==
  ASSUME IInv, UNCHANGED <<router, proc, starting, allStarted>>
  PROVE  Started' /\ TakeTurns'
  BY DEF IInv, Started, TakeTurns, Waiting, Others, Serving

LEMMA InitInv == Init => IInv
<1> SUFFICES ASSUME Init PROVE IInv
  OBVIOUS
<1>1. TypeOK
  BY WorkersAssumption DEF Init, TypeOK, Stages, Open, Sent
<1>2. CountsConserved
  <2>1. \A w \in Workers : Holds(w) = {}
    BY DEF Init, Holds, Sent
  <2> QED BY <2>1, FS_EmptySet DEF Init, CountsConserved
<1>3. Started
  BY DEF Init, Started
<1>4. TakeTurns
  <2>1. Waiting = {}
    BY DEF Init, Waiting, Others
  <2> QED BY <2>1, FS_EmptySet, StartParallelAssumption DEF Init, TakeTurns, Others
<1> QED BY <1>1, <1>2, <1>3, <1>4 DEF IInv

LEMMA SpawnInv == ASSUME IInv, NEW w \in Workers, Spawn(w) PROVE IInv'
<1>1. TypeOK'
  BY DEF IInv, TypeOK, Spawn
<1>2. CountsConserved'
  BY RequestsAlone DEF Spawn
<1>3. Started'
  BY DEF IInv, TypeOK, Started, Serving, Spawn
<1>4. TakeTurns'
  <2>1. \A v \in Others : starting'[v] # "no" => starting'[First] = "done"
    BY WorkersAssumption DEF IInv, TypeOK, TakeTurns, Others, Spawn, MayStart
  <2>2. Cardinality(Waiting') <= StartParallel
    <3>1. Waiting \in SUBSET Workers
      BY DEF Waiting, Others
    <3>2. CASE w = First
      <4>1. Waiting' = Waiting
        BY <3>2 DEF IInv, TypeOK, Waiting, Others, Spawn
      <4> QED BY <4>1 DEF IInv, TakeTurns
    <3>3. CASE w # First
      <4>1. w \notin Waiting /\ Waiting' = Waiting \cup {w}
        BY <3>3 DEF IInv, TypeOK, Waiting, Others, Spawn
      <4>2. Cardinality(Waiting') = Cardinality(Waiting) + 1
        BY <4>1, <3>1, WorkersCount, FS_AddElement
      <4>3. Cardinality(Waiting) < StartParallel
        BY <3>3 DEF Spawn, MayStart, Waiting, Others
      <4> QED BY <4>2, <4>3, <3>1, WorkersCount, StartParallelAssumption
    <3> QED BY <3>2, <3>3
  <2> QED BY <2>1, <2>2 DEF TakeTurns
<1> QED BY <1>1, <1>2, <1>3, <1>4 DEF IInv

LEMMA BecomesReadyInv == ASSUME IInv, NEW w \in Workers, BecomesReady(w) PROVE IInv'
<1>1. TypeOK'
  BY DEF IInv, TypeOK, BecomesReady
<1>2. CountsConserved'
  BY RequestsAlone DEF BecomesReady
<1>3. Started'
  BY DEF IInv, TypeOK, Started, Serving, BecomesReady
<1>4. TakeTurns'
  <2>1. \A v \in Others : starting'[v] # "no" => starting'[First] = "done"
    BY WorkersAssumption DEF IInv, TypeOK, TakeTurns, Others, BecomesReady
  <2>2. Waiting \in SUBSET Workers /\ Waiting' \in SUBSET Waiting
    BY DEF IInv, TypeOK, Waiting, Others, BecomesReady
  <2>3. Cardinality(Waiting') <= Cardinality(Waiting) /\ Cardinality(Waiting') \in Nat
    <3>1. IsFiniteSet(Waiting)
      BY <2>2, WorkersCount
    <3>2. Waiting' \in SUBSET Workers
      BY <2>2
    <3> QED BY <2>2, <3>1, <3>2, FS_Subset, WorkersCount
  <2> QED BY <2>1, <2>2, <2>3, WorkersCount, StartParallelAssumption DEF IInv, TakeTurns
<1> QED BY <1>1, <1>2, <1>3, <1>4 DEF IInv

LEMMA AllStartedInv == ASSUME IInv, AllStarted PROVE IInv'
<1>1. TypeOK'
  BY DEF IInv, TypeOK, AllStarted
<1>2. CountsConserved'
  BY RequestsAlone DEF AllStarted
<1>3. Started' /\ TakeTurns'
  BY DEF IInv, Started, TakeTurns, Waiting, Others, Serving, AllStarted
<1> QED BY <1>1, <1>2, <1>3 DEF IInv

LEMMA MonitorProbesInv == ASSUME IInv, NEW w \in Workers, MonitorProbes(w) PROVE IInv'
<1>1. TypeOK'
  BY DEF IInv, TypeOK, MonitorProbes
<1>2. CountsConserved'
  BY RequestsAlone DEF MonitorProbes
<1>3. Started' /\ TakeTurns'
  BY StartupAlone DEF MonitorProbes
<1> QED BY <1>1, <1>2, <1>3 DEF IInv

LEMMA DieInv == ASSUME IInv, NEW w \in Workers, Die(w) PROVE IInv'
<1>1. TypeOK'
  BY DEF IInv, TypeOK, Die, Fresh, Stages, Open, Sent
<1>2. CountsConserved'
  <2>1. \A v \in Workers : Holds(v)' = {}
    BY DEF IInv, TypeOK, Die, Holds, Open, Sent
  <2> QED BY <2>1, FS_EmptySet DEF Die, Fresh, CountsConserved
<1>3. Started'
  BY DEF Die, Fresh, Started
<1>4. TakeTurns'
  <2>1. Waiting' = {}
    BY DEF Die, Fresh, Waiting, Others
  <2> QED BY <2>1, FS_EmptySet, StartParallelAssumption DEF Die, Fresh, TakeTurns, Others
<1> QED BY <1>1, <1>2, <1>3, <1>4 DEF IInv

LEMMA WorkerChangesInv ==
  ASSUME IInv, NEW w \in Workers,
         NEW from \in {"loading", "up", "hung"}, NEW to \in {"up", "hung", "exited"},
         WorkerChanges(w, from, to)
  PROVE  IInv'
<1>1. TypeOK'
  BY DEF IInv, TypeOK, WorkerChanges
<1>2. CountsConserved'
  BY RequestsAlone DEF WorkerChanges
<1>3. Started'
  BY DEF IInv, TypeOK, Started, Serving, WorkerChanges
<1>4. TakeTurns'
  BY DEF IInv, TakeTurns, Waiting, Others, WorkerChanges
<1> QED BY <1>1, <1>2, <1>3, <1>4 DEF IInv

LEMMA PickInv == ASSUME IInv, NEW r \in Requests, Pick(r) PROVE IInv'
<1>1. TypeOK'
  BY DEF IInv, TypeOK, Pick, Candidates, Stages, Open, Sent
<1>2. CountsConserved'
  <2>1. \A w \in Workers : Holds(w)' = Holds(w)
    BY DEF IInv, TypeOK, Pick, Holds, Sent
  <2> QED BY <2>1, SameHolds DEF Pick
<1>3. Started' /\ TakeTurns'
  BY StartupAlone DEF Pick
<1> QED BY <1>1, <1>2, <1>3 DEF IInv

LEMMA BodyFailsInv == ASSUME IInv, NEW r \in Requests, BodyFails(r) PROVE IInv'
<1>1. TypeOK'
  BY DEF IInv, TypeOK, BodyFails, Stages
<1>2. CountsConserved'
  <2>1. \A w \in Workers : Holds(w)' = Holds(w)
    BY DEF IInv, TypeOK, BodyFails, Holds, Sent
  <2> QED BY <2>1, SameHolds DEF BodyFails
<1>3. Started' /\ TakeTurns'
  BY StartupAlone DEF BodyFails
<1> QED BY <1>1, <1>2, <1>3 DEF IInv

LEMMA SendInv == ASSUME IInv, NEW r \in Requests, Send(r) PROVE IInv'
<1>1. TypeOK'
  BY DEF IInv, TypeOK, Send, Stages, Open, Sent
<1>2. Started' /\ TakeTurns'
  BY StartupAlone DEF Send
<1> QED BY <1>1, <1>2, SendCounts DEF IInv

LEMMA ReleaseInv ==
  ASSUME IInv, NEW r \in Requests, NEW end \in {"ok", "failed"},
         stage[r] \in Sent, Release(r, end)
  PROVE  IInv'
<1>1. CountsConserved' /\ inflight' \in [Workers -> Nat]
  BY ReleaseCounts
<1>2. TypeOK'
  BY <1>1 DEF IInv, TypeOK, Release, Stages
<1>3. Started' /\ TakeTurns'
  BY StartupAlone DEF Release
<1> QED BY <1>1, <1>2, <1>3 DEF IInv

LEMMA HeadersArriveInv == ASSUME IInv, NEW r \in Requests, HeadersArrive(r) PROVE IInv'
<1>1. TypeOK'
  BY DEF IInv, TypeOK, HeadersArrive, Stages, Open, Sent
<1>2. CountsConserved'
  <2>1. \A w \in Workers : Holds(w)' = Holds(w)
    BY DEF IInv, TypeOK, HeadersArrive, Holds, Sent
  <2> QED BY <2>1, SameHolds DEF HeadersArrive
<1>3. Started' /\ TakeTurns'
  BY StartupAlone DEF HeadersArrive
<1> QED BY <1>1, <1>2, <1>3 DEF IInv

LEMMA UpstreamInv == ASSUME IInv, NEW r \in Requests, Upstream(r) PROVE IInv'
<1>1. CASE SendFails(r)
  BY <1>1, ReleaseInv DEF SendFails, Sent
<1>2. CASE HeadersArrive(r)
  BY <1>2, HeadersArriveInv
<1>3. CASE BodyEnds(r)
  BY <1>3, ReleaseInv DEF BodyEnds, Sent
<1> QED BY <1>1, <1>2, <1>3 DEF Upstream

LEMMA StopInv == ASSUME IInv, Sigterm \/ Shutdown PROVE IInv'
<1>1. TypeOK'
  BY DEF IInv, TypeOK, Sigterm, Shutdown
<1>2. CountsConserved'
  BY RequestsAlone DEF Sigterm, Shutdown
<1>3. Started'
  BY DEF IInv, Started, Serving, Sigterm, Shutdown
<1>4. TakeTurns'
  BY DEF IInv, TakeTurns, Waiting, Others, Sigterm, Shutdown
<1> QED BY <1>1, <1>2, <1>3, <1>4 DEF IInv

LEMMA NextInv == IInv /\ [Next]_vars => IInv'
<1> SUFFICES ASSUME IInv, [Next]_vars PROVE IInv'
  OBVIOUS
<1>1. CASE Startup
  BY <1>1, AllStartedInv, SpawnInv, BecomesReadyInv DEF Startup
<1>2. ASSUME NEW w \in Workers, MonitorProbes(w) \/ Die(w) PROVE IInv'
  BY <1>2, MonitorProbesInv, DieInv
<1>3. ASSUME NEW w \in Workers, Loads(w) \/ Hangs(w) \/ Recovers(w) \/ Exits(w) PROVE IInv'
  BY <1>3, WorkerChangesInv DEF Loads, Hangs, Recovers, Exits
<1>4. ASSUME NEW r \in Requests, Pick(r) \/ BodyFails(r) \/ Send(r) \/ Upstream(r) PROVE IInv'
  BY <1>4, PickInv, BodyFailsInv, SendInv, UpstreamInv
<1>5. ASSUME NEW r \in Requests, ClientLeaves(r) PROVE IInv'
  BY <1>5, ReleaseInv DEF ClientLeaves, Sent
<1>6. CASE Sigterm \/ Shutdown
  BY <1>6, StopInv
<1>7. CASE UNCHANGED vars
  <2>1. TypeOK'
    BY <1>7 DEF IInv, TypeOK, vars
  <2>2. CountsConserved'
    BY <1>7, RequestsAlone DEF vars
  <2>3. Started' /\ TakeTurns'
    BY <1>7, StartupAlone DEF vars
  <2> QED BY <2>1, <2>2, <2>3 DEF IInv
<1> QED BY <1>1, <1>2, <1>3, <1>4, <1>5, <1>6, <1>7 DEF Next

LEMMA Invariant == Spec => []IInv
  BY InitInv, NextInv, PTL DEF Spec

-------------------------------------------------------------------------------

(* Type correctness.                                                       *)
THEOREM TypeCorrect == Spec => []TypeOK
<1>1. IInv => TypeOK
  BY DEF IInv
<1> QED BY <1>1, Invariant, PTL

(* The counts _pick compares are right, whatever way requests end.         *)
THEOREM CountsCorrect == Spec => []CountsConserved
<1>1. IInv => CountsConserved
  BY DEF IInv
<1> QED BY <1>1, Invariant, PTL

(* /health answers 200 only when every worker has been loaded.             *)
THEOREM HealthCorrect == Spec => []NoPartialInstance
<1>1. IInv => NoPartialInstance
  <2> SUFFICES ASSUME IInv, Healthy, NEW w \in Workers
               PROVE  proc[w] \notin {"none", "loading"}
    BY DEF NoPartialInstance
  <2>1. Serving /\ starting[w] = "done"
    BY DEF IInv, Started, Healthy, Serving
  <2> QED BY <2>1 DEF IInv, Started
<1> QED BY <1>1, Invariant, PTL

(* Worker 0 loads alone, the others no more than START_PARALLEL at a time. *)
THEOREM LoadsCorrect == Spec => []LoadsBounded
<1>1. IInv => LoadsBounded
  <2> SUFFICES ASSUME IInv PROVE LoadsBounded
    OBVIOUS
  <2> DEFINE loading == {w \in Workers : proc[w] = "loading"}
  <2>1. \A w \in loading : starting[w] = "waits"
    BY DEF IInv, Started
  <2>2. CASE First \in loading
    <3>1. loading = {First}
      BY <2>1, <2>2 DEF IInv, TakeTurns, Others
    <3>2. Cardinality(loading) = 1
      BY <3>1, FS_Singleton
    <3> QED BY <3>1, <3>2, StartParallelAssumption DEF LoadsBounded
  <2>3. CASE First \notin loading
    <3>1. loading \in SUBSET Waiting /\ Waiting \in SUBSET Workers
      BY <2>1, <2>3 DEF Waiting, Others
    <3>2. Cardinality(loading) <= Cardinality(Waiting)
      BY <3>1, WorkersCount, FS_Subset
    <3>3. Cardinality(loading) \in Nat /\ Cardinality(Waiting) \in Nat
      BY <3>1, WorkersCount
    <3> QED
      BY <2>3, <3>2, <3>3, StartParallelAssumption DEF IInv, TakeTurns, LoadsBounded
  <2> QED BY <2>2, <2>3
<1> QED BY <1>1, Invariant, PTL

===============================================================================
