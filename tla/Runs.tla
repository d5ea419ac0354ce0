--------------------------------- MODULE Runs ---------------------------------
(***************************************************************************)
(* Several command lines for one model in one cluster: deploys, standalone *)
(* evaluations, stops and the auto-stop Jobs that outlive them.  What one  *)
(* pipeline does inside is module Pipeline's subject; here a run has one   *)
(* final Job, and the question is what runs of the same tag, or of tags    *)
(* that begin alike, do to each other.                                     *)
(*                                                                         *)
(* tools/oai/lifecycle.py deploy(), preflight.py, inference/run-autostop.sh*)
(* and, for the deploy.sh and stop.sh that are generated for every GPU     *)
(* model, tools/oai/templates/gpu.py with vllm/lib/gpu-terminate.sh.       *)
(***************************************************************************)
EXTENDS Naturals, FiniteSets

CONSTANTS
    RunIds,      \* the command lines `oai deploy`, `oai benchmark`, `oai quality`
    StopIds,     \* the command lines `oai stop`
    Tags,        \* the values of --tag
    NoTag,       \* the absence of --tag
    LongNames,   \* endpoints whose Job names are cut at 63 characters
    Longer,      \* pairs <<base, tag>>: tag begins with base and a dash
    Nodes,       \* the GPU nodes Karpenter may provision
    None,
    Lines,       \* the run command lines considered, a subset of Line
    Overlap,     \* TRUE if a command may start while another one is at work
    Neuron,      \* TRUE if the model is served on Trainium
    Outages      \* the look-ups of preflight that may go without an answer

Endpoints == Tags \cup {NoTag}

(* kind: a deploy, or an evaluation of what is deployed; stage: what its   *)
(* last Job is.                                                            *)
Line == [kind: {"deploy", "evaluate"}, tag: Endpoints,
         stage: {"none", "bench", "quality"}, autoStop: BOOLEAN]

ASSUME NamesAssumption ==
    /\ NoTag \notin Tags
    /\ None \notin Nodes /\ "pending" \notin Nodes /\ None # "pending"
ASSUME LongerAssumption == Longer \subseteq Tags \X Tags
ASSUME LongNamesAssumption == LongNames \subseteq Endpoints
ASSUME LinesAssumption == Lines \subseteq Line
ASSUME FlagsAssumption == Overlap \in BOOLEAN /\ Neuron \in BOOLEAN
ASSUME OutagesAssumption == Outages \subseteq {"deployment", "jobs"}

VARIABLES
    line,     \* line[r]: the flags of command line r
    pc,       \* pc[r]: how far r has got
    missed,   \* missed[r]: the look-ups whose failure let r go on beside something active
    job,      \* job[r]: its last Job, which outlives the command line
    stopper,  \* stopper[r]: its auto-stop Job
    dep,      \* dep[e]: the runs that applied the Deployment of endpoint e, {} if absent
    pod,      \* pod[e]: the node of its pod, "pending", or None without a pod
    nodes,    \* the GPU nodes that exist, and are billed
    stop      \* stop[s]: progress of a stop, the endpoint, the node it looked up, and that
              \* of the pod it deleted

vars == <<line, pc, missed, job, stopper, dep, pod, nodes, stop>>

-------------------------------------------------------------------------------
(* A Neuron deploy drops the tag, but after preflight has used it.         *)
Endpoint(r) == IF Neuron /\ line[r].kind = "deploy" THEN NoTag ELSE line[r].tag

(* Auto-stop is not supported for Neuron models, nor without a pipeline.   *)
WantsStopper(r) ==
    /\ line[r].autoStop
    /\ line[r].stage # "none"
    /\ ~(Neuron /\ line[r].kind = "deploy")

InFlight == {"checked", "applied", "submitted"}
AtWork(r) == pc[r] \in InFlight

(* What preflight's look-ups find active; an evaluation only cares for     *)
(* other runs.  Names are matched up to the timestamp, so another tag is   *)
(* never taken for this one, and a name whose timestamp was cut is not     *)
(* matched at all; a Job is active until its Complete or Failed condition  *)
(* is set.                                                                 *)
Deployed(r) == line[r].kind = "deploy" /\ dep[line[r].tag] # {}
Running(r) == \E q \in RunIds : job[q] = "active" /\ Endpoint(q) \in {line[r].tag} \ LongNames

Active_DeploymentOnly(r) == {look \in {"deployment"} : Deployed(r)}
Active_JobsOnly(r) == {look \in {"jobs"} : Running(r)}
Active(r) == {look \in {"deployment"} : Deployed(r)} \cup {look \in {"jobs"} : Running(r)}

(* The quality Jobs an auto-stop counts: those whose run-tag is its tag or *)
(* begins with it and a dash.  Without a tag it looks for "untagged",      *)
(* which no Job is labelled with.                                          *)
Counted(r) ==
    {q \in RunIds :
        /\ line[q].stage = "quality" /\ job[q] \in {"active", "done"}
        /\ Endpoint(r) # NoTag
        /\ \/ Endpoint(q) = Endpoint(r)
           \/ <<Endpoint(r), Endpoint(q)>> \in Longer}

(* When the auto-stop's polling loop is left: every counted quality Job    *)
(* finished, and at least as many as expected (one: a run has one final    *)
(* Job here); or the benchmark Job of this run, looked up by its own name, *)
(* terminal.                                                               *)
PipelineDone_Any(r) ==
    IF line[r].stage = "quality" THEN \E q \in Counted(r) : job[q] = "done" ELSE job[r] = "done"
PipelineDone(r) ==
    IF line[r].stage = "quality"
    THEN Counted(r) # {} /\ \A q \in Counted(r) : job[q] = "done"
    ELSE job[r] = "done"

-------------------------------------------------------------------------------
Init ==
    /\ line \in [RunIds -> Lines]
    /\ pc = [r \in RunIds |-> "idle"]
    /\ missed = [r \in RunIds |-> {}]
    /\ job = [r \in RunIds |-> "none"]
    /\ stopper = [r \in RunIds |-> "none"]
    /\ dep = [e \in Endpoints |-> {}]
    /\ pod = [e \in Endpoints |-> None]
    /\ nodes = {}
    /\ stop = [s \in StopIds |-> [at |-> "idle", of |-> NoTag, node |-> None, last |-> None]]

(* One operator types one command at a time, unless commands overlap.      *)
Free ==
    \/ Overlap
    \/ /\ \A r \in RunIds : ~AtWork(r)
       /\ \A s \in StopIds : stop[s].at \in {"idle", "over"}

(* A look-up that fails, or takes more than 30 s, finds nothing: preflight *)
(* fails open, and the run goes on although something is active.           *)
Preflight(r) ==
    /\ pc[r] = "idle" /\ Free
    /\ \/ /\ Active(r) # {}
          /\ pc' = [pc EXCEPT ![r] = "refused"]
          /\ UNCHANGED missed
       \/ /\ Active(r) \subseteq Outages
          /\ pc' = [pc EXCEPT ![r] = "checked"]
          /\ missed' = [missed EXCEPT ![r] = Active(r)]
    /\ UNCHANGED <<line, job, stopper, dep, pod, nodes, stop>>

(* deploy.sh applies the Deployment; applying what exists leaves the pod.  *)
Apply(r) ==
    LET e == Endpoint(r) IN
    /\ pc[r] = "checked" /\ line[r].kind = "deploy"
    /\ pc' = [pc EXCEPT ![r] = "applied"]
    /\ dep' = [dep EXCEPT ![e] = @ \cup {r}]
    /\ pod' = [pod EXCEPT ![e] = IF @ = None THEN "pending" ELSE @]
    /\ UNCHANGED <<line, missed, job, stopper, nodes, stop>>

(* deploy.sh exits non-zero (weights missing, or not Ready in 15 min), or  *)
(* there is no pipeline to submit.                                         *)
DeployOnly(r) ==
    /\ pc[r] = "applied"
    /\ pc' = [pc EXCEPT ![r] = "over"]
    /\ UNCHANGED <<line, missed, job, stopper, dep, pod, nodes, stop>>

Submits(r) ==
    /\ line[r].stage # "none"
    /\ pc[r] = IF line[r].kind = "deploy" THEN "applied" ELSE "checked"

SubmitJobs(r) ==
    /\ Submits(r)
    /\ pc' = [pc EXCEPT ![r] = "submitted"]
    /\ job' = [job EXCEPT ![r] = "active"]
    /\ UNCHANGED <<line, missed, stopper, dep, pod, nodes, stop>>

(* kubectl apply refuses the Jobs: only a deploy that ends with quality    *)
(* goes on to its auto-stop.                                               *)
SubmitRefused(r) ==
    /\ Submits(r)
    /\ pc' = [pc EXCEPT ![r] =
                IF line[r].kind = "deploy" /\ line[r].stage = "quality" THEN "submitted" ELSE "over"]
    /\ UNCHANGED <<line, missed, job, stopper, dep, pod, nodes, stop>>

SubmitStopper(r) ==
    /\ pc[r] = "submitted"
    /\ pc' = [pc EXCEPT ![r] = "over"]
    /\ stopper' = [stopper EXCEPT ![r] = IF WantsStopper(r) THEN "waiting" ELSE @]
    /\ UNCHANGED <<line, missed, job, dep, pod, nodes, stop>>

-------------------------------------------------------------------------------
(* In the cluster.                                                         *)

JobEnds(r) ==
    /\ job[r] = "active"
    /\ job' = [job EXCEPT ![r] = "done"]
    /\ UNCHANGED <<line, missed, pc, stopper, dep, pod, nodes, stop>>

Poll(r) ==
    /\ stopper[r] = "waiting" /\ PipelineDone(r)
    /\ stopper' = [stopper EXCEPT ![r] = "due"]
    /\ UNCHANGED <<line, missed, pc, job, dep, pod, nodes, stop>>

(* The 14 h deadline, longer than what this run's Jobs may take.           *)
GiveUp(r) ==
    /\ stopper[r] = "waiting" /\ job[r] # "active"
    /\ stopper' = [stopper EXCEPT ![r] = "due"]
    /\ UNCHANGED <<line, missed, pc, job, dep, pod, nodes, stop>>

(* The auto-stop deletes by name whatever is deployed there.               *)
AutoStop(r) ==
    LET e == Endpoint(r) IN
    /\ stopper[r] = "due"
    /\ stopper' = [stopper EXCEPT ![r] = "over"]
    /\ dep' = [dep EXCEPT ![e] = {}]
    /\ pod' = [pod EXCEPT ![e] = None]
    /\ UNCHANGED <<line, missed, pc, job, nodes, stop>>

(* The scheduler puts a pod on a node with room, new or not.               *)
Schedule(e) == \E n \in Nodes :
    /\ pod[e] = "pending"
    /\ pod' = [pod EXCEPT ![e] = n]
    /\ nodes' = nodes \cup {n}
    /\ UNCHANGED <<line, missed, pc, job, stopper, dep, stop>>

(* Karpenter reclaims a node without pods.                                 *)
Reap(n) ==
    /\ n \in nodes /\ \A e \in Endpoints : pod[e] # n
    /\ nodes' = nodes \ {n}
    /\ UNCHANGED <<line, missed, pc, job, stopper, dep, pod, stop>>

-------------------------------------------------------------------------------
(* stop.sh.                                                                *)

Progress(s, where) == stop' = [stop EXCEPT ![s].at = where]

NodeOf(e) == IF pod[e] \in Nodes THEN pod[e] ELSE None

StopLooksUp_AnyPod(s, e) ==
    /\ stop[s].at = "idle" /\ Free
    /\ stop' = [stop EXCEPT ![s] = [at |-> "found", of |-> e, node |-> pod[e], last |-> None]]
    /\ UNCHANGED <<line, missed, pc, job, stopper, dep, pod, nodes>>
StopLooksUp(s, e) ==
    /\ stop[s].at = "idle" /\ Free
    /\ stop' = [stop EXCEPT ![s] =
                  [at |-> "found", of |-> e, node |-> NodeOf(e), last |-> None]]
    /\ UNCHANGED <<line, missed, pc, job, stopper, dep, pod, nodes>>

StopDeletes(s) ==
    LET e == stop[s].of IN
    /\ stop[s].at = "found"
    /\ dep' = [dep EXCEPT ![e] = {}]
    /\ pod' = [pod EXCEPT ![e] = None]
    /\ stop' = [stop EXCEPT ![s].at = "deleted", ![s].last = NodeOf(e)]
    /\ UNCHANGED <<line, missed, pc, job, stopper, nodes>>

(* The node is known: it goes only if no other inference pod is on it.     *)
StopChecksNode(s) ==
    /\ stop[s].at = "deleted" /\ stop[s].node # None
    /\ Progress(s, IF \E e \in Endpoints \ {stop[s].of} : pod[e] = stop[s].node
                   THEN "terminated" ELSE "alone")
    /\ UNCHANGED <<line, missed, pc, job, stopper, dep, pod, nodes>>

(* Deleting a node sends its pods back to the scheduler.                   *)
Delete(n) ==
    /\ nodes' = nodes \ {n}
    /\ pod' = [e \in Endpoints |-> IF pod[e] = n THEN "pending" ELSE pod[e]]

StopDeletesNode(s) ==
    /\ stop[s].at = "alone"
    /\ Delete(stop[s].node)
    /\ Progress(s, "terminated")
    /\ UNCHANGED <<line, missed, pc, job, stopper, dep>>

(* The node is not known, and not found now either, for there was no pod   *)
(* or it is gone: the first GPU node in the cluster goes, if there is one. *)
StopFallsBack(s) ==
    /\ stop[s].at = "deleted" /\ stop[s].node = None
    /\ IF nodes = {} THEN UNCHANGED <<nodes, pod>> ELSE \E n \in nodes : Delete(n)
    /\ Progress(s, "terminated")
    /\ UNCHANGED <<line, missed, pc, job, stopper, dep>>

(* The pod was scheduled after the first look-up, and is still terminating *)
(* at the second.                                                          *)
StopLooksAgain(s) ==
    /\ stop[s].at = "deleted" /\ stop[s].node = None /\ stop[s].last # None
    /\ stop' = [stop EXCEPT ![s].node = stop[s].last]
    /\ UNCHANGED <<line, missed, pc, job, stopper, dep, pod, nodes>>

(* A tagged stop leaves the Jobs alone; an untagged one deletes the        *)
(* model's benchmark Jobs, whatever their tag.                             *)
StopCleansJobs(s) ==
    /\ stop[s].at = "terminated"
    /\ job' = [r \in RunIds |->
                 IF stop[s].of = NoTag /\ line[r].stage = "bench" /\ job[r] # "none"
                 THEN "gone" ELSE job[r]]
    /\ Progress(s, "over")
    /\ UNCHANGED <<line, missed, pc, stopper, dep, pod, nodes>>

-------------------------------------------------------------------------------
Command(r) ==
    \/ Preflight(r) \/ Apply(r) \/ DeployOnly(r)
    \/ SubmitJobs(r) \/ SubmitRefused(r) \/ SubmitStopper(r)

Cluster(r) == JobEnds(r) \/ Poll(r) \/ GiveUp(r) \/ AutoStop(r)

Stop(s) ==
    \/ \E e \in Endpoints : StopLooksUp(s, e)
    \/ StopDeletes(s) \/ StopChecksNode(s) \/ StopDeletesNode(s)
    \/ StopFallsBack(s) \/ StopLooksAgain(s) \/ StopCleansJobs(s)

Next ==
    \/ \E r \in RunIds : Command(r) \/ Cluster(r)
    \/ \E s \in StopIds : Stop(s)
    \/ \E e \in Endpoints : Schedule(e)
    \/ \E n \in Nodes : Reap(n)

Spec == Init /\ [][Next]_vars

-------------------------------------------------------------------------------
TypeOK ==
    /\ line \in [RunIds -> Lines]
    /\ pc \in [RunIds -> {"idle", "refused", "over"} \cup InFlight]
    /\ missed \in [RunIds -> SUBSET Outages]
    /\ job \in [RunIds -> {"none", "active", "done", "gone"}]
    /\ stopper \in [RunIds -> {"none", "waiting", "due", "over"}]
    /\ dep \in [Endpoints -> SUBSET RunIds]
    /\ pod \in [Endpoints -> Nodes \cup {"pending", None}]
    /\ nodes \subseteq Nodes
    /\ stop \in [StopIds -> [at: {"idle", "found", "deleted", "alone", "terminated", "over"},
                             of: Endpoints, node: Nodes \cup {None}, last: Nodes \cup {None}]]

(* Preflight's promise, for commands typed one after another: no two runs  *)
(* load one endpoint at the same time, whatever stops, auto-stops, refused *)
(* submissions and deploys that never became ready came before; unless one *)
(* of the two went on because kubectl failed to list an active Job.        *)
OneRunPerEndpoint ==
    \A q, r \in RunIds :
        /\ job[q] = "active" /\ job[r] = "active" /\ Endpoint(q) = Endpoint(r)
        /\ "jobs" \notin missed[q] \cup missed[r]
        => q = r

(* Nor does a deploy ever apply over the Deployment of another one, unless *)
(* kubectl failed to show one of the two a Deployment that was there.      *)
OneDeployer ==
    \A e \in Endpoints : \A q, r \in dep[e] : "deployment" \notin missed[q] \cup missed[r] => q = r

(* An auto-stop waits for the Job of its own run, although it counts the   *)
(* quality Jobs of every tag that begins like its own, of earlier and      *)
(* later runs too.                                                         *)
Patience ==
    [][\A r \in RunIds : stopper[r] = "waiting" /\ stopper'[r] = "due" => job[r] # "active"]_vars

===============================================================================
