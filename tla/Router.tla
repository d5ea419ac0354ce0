-------------------------------- MODULE Router --------------------------------
(***************************************************************************)
(* The data-parallel front end of one Trainium instance                    *)
(* (vllm/models/qwen3-5-9b-nxdi/router.py): it starts one replica server   *)
(* per slice of cores, watches their processes and their /health, and      *)
(* proxies each request to the ready replica with the fewest in flight.    *)
(*                                                                         *)
(* One asyncio loop: what happens between two awaits is one step.  Which   *)
(* of the least loaded candidates the rotating counter hits is left open.  *)
(***************************************************************************)
EXTENDS Integers, FiniteSets

CONSTANTS
    Workers,         \* the replicas
    First,           \* worker 0, which loads alone
    Requests,        \* requests clients may send
    StartParallel,   \* START_PARALLEL, how many others load at a time
    Faults           \* what replicas may do, a subset of FaultKinds

(* "exit": a replica's process exits; "hang": it stops answering.          *)
FaultKinds == {"exit", "hang"}

ASSUME WorkersAssumption == IsFiniteSet(Workers) /\ First \in Workers
ASSUME RouterRequestsAssumption == IsFiniteSet(Requests)
ASSUME StartParallelAssumption == StartParallel \in Nat \ {0}
ASSUME RouterFaultsAssumption == Faults \subseteq FaultKinds

VARIABLES
    router,     \* "serving", "draining" after SIGTERM, or "stopped"
    proc,       \* worker -> its process
    starting,   \* worker -> how far _start_and_wait has come with it
    ready,      \* worker -> the flag _pick and /health read
    inflight,   \* worker -> the count _pick compares
    allStarted, \* _all_started
    stage,      \* request -> where its _proxy call is
    target      \* request -> the worker it picked

vars == <<router, proc, starting, ready, inflight, allStarted, stage, target>>

Sent == {"sent", "reading", "streaming"}
Open == {"body"} \cup Sent
Stages == {"new", "refused", "ok", "failed"} \cup Open

TypeOK ==
    /\ router \in {"serving", "draining", "stopped"}
    /\ proc \in [Workers -> {"none", "loading", "up", "hung", "exited"}]
    /\ starting \in [Workers -> {"no", "waits", "done"}]
    /\ ready \in [Workers -> BOOLEAN]
    /\ inflight \in [Workers -> Nat]
    /\ allStarted \in BOOLEAN
    /\ stage \in [Requests -> Stages]
    /\ target \in [Requests -> Workers]

Fresh ==
    /\ proc' = [w \in Workers |-> "none"]
    /\ starting' = [w \in Workers |-> "no"]
    /\ ready' = [w \in Workers |-> FALSE]
    /\ inflight' = [w \in Workers |-> 0]
    /\ allStarted' = FALSE

Init ==
    /\ router = "serving"
    /\ proc = [w \in Workers |-> "none"]
    /\ starting = [w \in Workers |-> "no"]
    /\ ready = [w \in Workers |-> FALSE]
    /\ inflight = [w \in Workers |-> 0]
    /\ allStarted = FALSE
    /\ stage = [r \in Requests |-> "new"]
    /\ target = [r \in Requests |-> First]

Serving == router # "stopped"

(***************************************************************************)
(* Start-up and monitoring.                                                *)
(***************************************************************************)
MayStart_Free(w) ==
    /\ w = First \/ starting[First] # "no"
    /\ w # First => Cardinality({v \in Workers \ {First} : starting[v] = "waits"}) < StartParallel

(* Worker 0 loads alone; the others take turns on a semaphore.             *)
MayStart(w) ==
    /\ w = First \/ starting[First] = "done"
    /\ w # First => Cardinality({v \in Workers \ {First} : starting[v] = "waits"}) < StartParallel

Spawn(w) ==
    /\ Serving /\ starting[w] = "no"
    /\ MayStart(w)
    /\ starting' = [starting EXCEPT ![w] = "waits"]
    /\ proc' = [proc EXCEPT ![w] = "loading"]
    /\ UNCHANGED <<router, ready, inflight, allStarted, stage, target>>

(* The probe of a starting worker that answers 200.                        *)
BecomesReady(w) ==
    /\ Serving /\ starting[w] = "waits" /\ proc[w] = "up"
    /\ starting' = [starting EXCEPT ![w] = "done"]
    /\ ready' = [ready EXCEPT ![w] = TRUE]
    /\ UNCHANGED <<router, proc, inflight, allStarted, stage, target>>

AllStarted_First ==
    /\ Serving /\ ~allStarted
    /\ starting[First] = "done"
    /\ allStarted' = TRUE
    /\ UNCHANGED <<router, proc, starting, ready, inflight, stage, target>>

AllStarted ==
    /\ Serving /\ ~allStarted
    /\ \A w \in Workers : starting[w] = "done"
    /\ allStarted' = TRUE
    /\ UNCHANGED <<router, proc, starting, ready, inflight, stage, target>>

(* Once all have started the monitor refreshes each flag from a probe.     *)
MonitorProbes(w) ==
    /\ Serving /\ allStarted
    /\ ready' = [ready EXCEPT ![w] = (proc[w] = "up")]
    /\ UNCHANGED <<router, proc, starting, inflight, allStarted, stage, target>>

Die_WorkersOnly(w) ==
    /\ Serving /\ proc[w] = "exited"
    /\ Fresh
    /\ UNCHANGED <<router, stage, target>>

Die_OnlyStarted(w) ==
    /\ Serving /\ proc[w] = "exited" /\ allStarted
    /\ Fresh
    /\ stage' = [r \in Requests |-> IF stage[r] \in Open THEN "failed" ELSE stage[r]]
    /\ router' = IF router = "draining" THEN "stopped" ELSE router
    /\ UNCHANGED target

(* _die(), called by the start-up and by the monitor when a process has    *)
(* exited: it ends every worker and itself with them, without a step for   *)
(* anyone else.  Kubernetes starts the container again.                    *)
Die(w) ==
    /\ Serving /\ proc[w] = "exited"
    /\ Fresh
    /\ stage' = [r \in Requests |-> IF stage[r] \in Open THEN "failed" ELSE stage[r]]
    /\ router' = IF router = "draining" THEN "stopped" ELSE router
    /\ UNCHANGED target

(***************************************************************************)
(* The replicas.                                                           *)
(***************************************************************************)
WorkerChanges(w, from, to) ==
    /\ Serving /\ proc[w] = from
    /\ proc' = [proc EXCEPT ![w] = to]
    /\ UNCHANGED <<router, starting, ready, inflight, allStarted, stage, target>>

Loads(w) == WorkerChanges(w, "loading", "up")
Hangs(w) == "hang" \in Faults /\ WorkerChanges(w, "up", "hung")
Recovers(w) == WorkerChanges(w, "hung", "up")
Exits(w) ==
    "exit" \in Faults /\ \E from \in {"loading", "up", "hung"} : WorkerChanges(w, from, "exited")

(***************************************************************************)
(* _proxy(): pick, read the body, send, pass the answer on.                *)
(***************************************************************************)
Candidates ==
    {w \in Workers : ready[w] /\ \A v \in Workers : ready[v] => inflight[w] <= inflight[v]}

Pick(r) ==
    /\ router = "serving" /\ stage[r] = "new"
    /\ \/ /\ Candidates = {}
          /\ stage' = [stage EXCEPT ![r] = "refused"]
          /\ UNCHANGED target
       \/ \E w \in Candidates :
          /\ stage' = [stage EXCEPT ![r] = "body"]
          /\ target' = [target EXCEPT ![r] = w]
    /\ UNCHANGED <<router, proc, starting, ready, inflight, allStarted>>

(* release(), with how the request ended.                                  *)
Release(r, end) ==
    /\ stage' = [stage EXCEPT ![r] = end]
    /\ inflight' = [inflight EXCEPT ![target[r]] = @ - 1]
    /\ UNCHANGED <<router, proc, starting, ready, allStarted, target>>

BodyFails_Releases(r) ==
    /\ Serving /\ stage[r] = "body"
    /\ Release(r, "failed")

(* The client goes away before its body is complete.                       *)
BodyFails(r) ==
    /\ Serving /\ stage[r] = "body"
    /\ stage' = [stage EXCEPT ![r] = "failed"]
    /\ UNCHANGED <<router, proc, starting, ready, inflight, allStarted, target>>

Send(r) ==
    /\ Serving /\ stage[r] = "body"
    /\ stage' = [stage EXCEPT ![r] = "sent"]
    /\ inflight' = [inflight EXCEPT ![target[r]] = @ + 1]
    /\ UNCHANGED <<router, proc, starting, ready, allStarted, target>>

SendFails_Keeps(r) ==
    /\ Serving /\ stage[r] = "sent"
    /\ stage' = [stage EXCEPT ![r] = "failed"]
    /\ UNCHANGED <<router, proc, starting, ready, inflight, allStarted, target>>

(* httpx.HTTPError: the worker is gone, does not take the connection, or   *)
(* closed it just as it was used again.                                    *)
SendFails(r) ==
    /\ Serving /\ stage[r] = "sent"
    /\ Release(r, "failed")

(* The worker's status and headers: a stream is passed on chunk by chunk,  *)
(* any other body is read to its end.                                      *)
HeadersArrive(r) ==
    /\ Serving /\ stage[r] = "sent" /\ proc[target[r]] = "up"
    /\ stage' \in {[stage EXCEPT ![r] = kind] : kind \in {"reading", "streaming"}}
    /\ UNCHANGED <<router, proc, starting, ready, inflight, allStarted, target>>

BodyEnds(r) ==
    /\ Serving /\ stage[r] \in {"reading", "streaming"}
    /\ \/ proc[target[r]] = "up" /\ Release(r, "ok")
       \/ proc[target[r]] = "exited" /\ Release(r, "failed")

(* A client that leaves a stream cancels the generator, whose finally      *)
(* clause releases the worker.                                             *)
ClientLeaves(r) ==
    /\ Serving /\ stage[r] = "streaming"
    /\ Release(r, "failed")

(***************************************************************************)
(* SIGTERM: uvicorn accepts no more, waits for open responses, and the     *)
(* lifespan stops the monitor before it signals the workers.               *)
(***************************************************************************)
Sigterm ==
    /\ router = "serving"
    /\ router' = "draining"
    /\ UNCHANGED <<proc, starting, ready, inflight, allStarted, stage, target>>

Shutdown ==
    /\ router = "draining" /\ \A r \in Requests : stage[r] \notin Open
    /\ router' = "stopped"
    /\ proc' = [w \in Workers |-> "none"]
    /\ UNCHANGED <<starting, ready, inflight, allStarted, stage, target>>

-------------------------------------------------------------------------------

Upstream(r) == SendFails(r) \/ HeadersArrive(r) \/ BodyEnds(r)

Startup == AllStarted \/ \E w \in Workers : Spawn(w) \/ BecomesReady(w)

Next ==
    \/ Startup
    \/ \E w \in Workers :
          MonitorProbes(w) \/ Die(w) \/ Loads(w) \/ Hangs(w) \/ Recovers(w) \/ Exits(w)
    \/ \E r \in Requests : Pick(r) \/ BodyFails(r) \/ Send(r) \/ Upstream(r) \/ ClientLeaves(r)
    \/ Sigterm \/ Shutdown

(* The monitor runs, and a replica that does not hang answers what it is   *)
(* sent (ReplicaServer: EveryoneAnswered).  Nothing is assumed of clients  *)
(* that have yet to send their body, or of a replica that hangs: _client   *)
(* has no read timeout.                                                    *)
Fairness ==
    /\ \A w \in Workers : WF_vars(Die(w))
    /\ \A r \in Requests : WF_vars(proc[target[r]] # "hung" /\ Upstream(r))

Spec == Init /\ [][Next]_vars /\ Fairness

-------------------------------------------------------------------------------
(***************************************************************************)
(* What must hold.                                                         *)
(***************************************************************************)

Holds(w) == {r \in Requests : stage[r] \in Sent /\ target[r] = w}

(* The counts _pick compares are the requests each worker really has:      *)
(* every way a proxied request ends gives back what Send took, once.       *)
CountsConserved == \A w \in Workers : inflight[w] = Cardinality(Holds(w))

Healthy == router = "serving" /\ allStarted /\ \E w \in Workers : ready[w]

(* /health answers 200 only when no worker is still to load, so that no    *)
(* benchmark meets a partially loaded instance (router.py: /health returns *)
(* 200 only after every worker has become ready).                          *)
NoPartialInstance == Healthy => \A w \in Workers : proc[w] \notin {"none", "loading"}

(* Host memory: worker 0 loads alone, and never more than START_PARALLEL   *)
(* of the others at once.                                                  *)
LoadsBounded ==
    LET loading == {w \in Workers : proc[w] = "loading"} IN
    /\ First \in loading => loading = {First}
    /\ Cardinality(loading) <= StartParallel

(* A worker that exits takes the router with it (router.py: if any worker  *)
(* process dies the router exits non-zero), and no request hangs on it.    *)
ExitIsNoticed ==
    \A w \in Workers : proc[w] = "exited" ~> proc[w] # "exited"

(* A request that was sent to a worker ends, whichever worker exits and    *)
(* whenever, unless its own worker hangs: _client has no read timeout.     *)
EveryRequestEnds ==
    \A r \in Requests :
        stage[r] \in Sent ~> stage[r] \notin Sent \/ proc[target[r]] = "hung"

===============================================================================
