------------------------------- MODULE Pipeline -------------------------------
(***************************************************************************)
(* One `oai deploy ... --benchmark --quality --auto-stop`: the command     *)
(* line submits Kubernetes Jobs (realtime, batch, one quality Job per      *)
(* sheet, auto-stop) and they order themselves in the cluster, through S3  *)
(* completion markers and Job conditions, with nobody supervising them.    *)
(*                                                                         *)
(* tools/oai/lifecycle.py deploy() and quality.py submit;                  *)
(* inference/run-benchmark.sh, run-quality.sh and run-autostop.sh render   *)
(* what each Job does.  Time is a discrete clock: age[j] counts the ticks  *)
(* since Job j was created (what activeDeadlineSeconds measures), wait[j]  *)
(* the ticks since its current polling loop began.  A tick is longer than  *)
(* any loop's sleep (20 s for the gates, 30 s for the auto-stop).          *)
(***************************************************************************)
EXTENDS Integers, FiniteSets

CONSTANTS
    SheetKeys,         \* the transcript sheets, each evaluated by a Job of its own
    Invocations,       \* the command lines considered, records of Invocation
    Faults,            \* the kinds of failure that may happen, a subset of FaultKinds
    RealtimeDeadline,  \* REALTIME_DEADLINE, 3 h in the code
    BatchDeadline,     \* BATCH_DEADLINE, 6 h
    GateSlack,         \* the 600 s both the gate and the gated deadline add
    QualityWait,       \* how long a quality gate waits for its marker, 10 h
    QualityBudget,     \* JOB_DEADLINE of an ungated quality Job, 3 h
    QualityDeadline,   \* JOB_DEADLINE of a gated quality Job, 13 h
    AutoStopDeadline,  \* JOB_DEADLINE of the auto-stop's polling loop, 14 h
    AutoStopSlack,     \* what activeDeadlineSeconds adds to it, 600 s
    ReadyTimeout,      \* --wait-timeout of the runners, 40 min
    StartDelay,        \* ticks until the auto-stop's pod runs
    KillLag            \* ticks a Job may outlive its activeDeadlineSeconds

Profiles == {"realtime", "batch"}
JobIds == Profiles \cup SheetKeys \cup {"autostop"}
PipelineJobs == Profiles \cup SheetKeys

(* "submit": a kubectl apply is refused; "close": the terminal goes away;  *)
(* "pod": a running Job's pod is lost; "gate": an init container fails     *)
(* (S3 error, pip, eviction); "marker": the put of a marker fails;         *)
(* "stopper": the auto-stop's pod fails, "stopperAgain": so does the one   *)
(* that replaces it; "delete": a kubectl delete of the auto-stop is        *)
(* refused.                                                                *)
FaultKinds ==
    {"submit", "close", "pod", "gate", "marker", "stopper", "stopperAgain", "delete"}

(* What the flags of one command line amount to.  sheets: the resolved,    *)
(* de-duplicated sheets ({} without --quality); sheetArgs: how many        *)
(* --quality-sheet flags were given.                                       *)
Invocation ==
    {i \in [bench: SUBSET Profiles, sheets: SUBSET SheetKeys, sheetArgs: Nat,
            tagged: BOOLEAN, autoStop: BOOLEAN, detach: BOOLEAN] :
        /\ i.sheetArgs = 0 => i.sheets \in {{}, SheetKeys}
        /\ i.sheetArgs # 0 => i.sheets # {} /\ Cardinality(i.sheets) <= i.sheetArgs}

ASSUME SheetsAssumption ==
    /\ IsFiniteSet(SheetKeys)
    /\ SheetKeys \cap (Profiles \cup {"autostop", "follow"}) = {}
ASSUME InvocationsAssumption == Invocations \subseteq Invocation
ASSUME FaultsAssumption == Faults \subseteq FaultKinds
ASSUME DurationsAssumption ==
    /\ RealtimeDeadline \in Nat /\ BatchDeadline \in Nat /\ GateSlack \in Nat
    /\ QualityWait \in Nat /\ QualityBudget \in Nat /\ QualityDeadline \in Nat
    /\ AutoStopDeadline \in Nat /\ AutoStopSlack \in Nat
    /\ ReadyTimeout \in Nat /\ StartDelay \in Nat /\ KillLag \in Nat

(* The margins the scripts leave between one another's deadlines: 600 s    *)
(* between realtime's deadline and the end of the batch gate, 36000 s      *)
(* against 33000 s for quality, 50400 s against 46800 s for auto-stop.     *)
ASSUME MarginsAssumption ==
    /\ KillLag < GateSlack
    /\ BatchDeadline + RealtimeDeadline + GateSlack + KillLag < QualityWait
    /\ QualityWait < QualityDeadline /\ QualityBudget <= QualityDeadline
    /\ QualityDeadline + KillLag < AutoStopDeadline
    /\ StartDelay < AutoStopSlack

VARIABLES
    inv,       \* the command line being run
    tried,     \* the submission steps the command line has been through
    phase,     \* Job -> where it is
    age,       \* Job -> ticks since it was created
    wait,      \* Job -> ticks since its current polling loop began
    code,      \* Job -> TEST_EXIT, from the end of the test on
    marker,    \* profile -> body of its S3 completion marker
    model,     \* the vLLM Deployment: "starting", "ready" or "deleted"
    leftover,  \* which of the Service and the PVC still exist
    pods       \* pods the auto-stop Job has started

vars == <<inv, tried, phase, age, wait, code, marker, model, leftover, pods>>

(* Exit codes: 0 success, 1 any failure, 3 model never ready, 124 the      *)
(* gate's own timeout.                                                     *)
Codes == {0, 1, 3, 124}
NoMarker == -1

Phases == {"absent", "pending", "gate", "health", "load", "mark", "exit",
           "poll", "delDeployment", "delService", "delPvc", "complete", "failed"}
Terminal(j) == phase[j] \in {"complete", "failed"}
Active(j) == phase[j] # "absent" /\ ~Terminal(j)
Loading(j) == phase[j] = "load"
UsesModel(j) == phase[j] \in {"health", "load"}
Waiting(j) == \/ phase[j] \in {"gate", "health", "poll"}
              \/ j = "autostop" /\ phase[j] = "pending"

(* Names with an underscore are mutated forms of the definition that       *)
(* follows them: what a plausible slip in the code would make of it.       *)
LastProfile_First == IF "realtime" \in inv.bench THEN "realtime" ELSE "batch"

LastProfile == IF "batch" \in inv.bench THEN "batch" ELSE "realtime"

(* A Job that must follow another one polls for that one's marker first.   *)
Gated(j) == \/ j = "batch" /\ "realtime" \in inv.bench
            \/ j \in SheetKeys /\ inv.bench # {}
GateMarker(j) == IF j = "batch" THEN "realtime" ELSE LastProfile
GateWait_NoSlack(j) == IF j = "batch" THEN RealtimeDeadline ELSE QualityWait
GateWait_UngatedBatch(j) ==
    IF j = "batch" THEN RealtimeDeadline + GateSlack ELSE BatchDeadline
GateWait(j) == IF j = "batch" THEN RealtimeDeadline + GateSlack ELSE QualityWait

Deadline_NoStopSlack(j) ==
    IF j = "realtime" THEN RealtimeDeadline
    ELSE IF j = "batch"
         THEN BatchDeadline + (IF Gated(j) THEN RealtimeDeadline + GateSlack ELSE 0)
    ELSE IF j \in SheetKeys THEN (IF Gated(j) THEN QualityDeadline ELSE QualityBudget)
    ELSE AutoStopDeadline

Deadline_StopperAsQuality(j) ==
    IF j = "realtime" THEN RealtimeDeadline
    ELSE IF j = "batch"
         THEN BatchDeadline + (IF Gated(j) THEN RealtimeDeadline + GateSlack ELSE 0)
    ELSE IF j \in SheetKeys \/ j = "autostop" THEN QualityDeadline
    ELSE AutoStopDeadline

(* activeDeadlineSeconds of each Job.                                      *)
Deadline(j) ==
    IF j = "realtime" THEN RealtimeDeadline
    ELSE IF j = "batch"
         THEN BatchDeadline + (IF Gated(j) THEN RealtimeDeadline + GateSlack ELSE 0)
    ELSE IF j \in SheetKeys THEN (IF Gated(j) THEN QualityDeadline ELSE QualityBudget)
    ELSE AutoStopDeadline + AutoStopSlack

TypeOK ==
    /\ inv \in Invocations
    /\ tried \subseteq JobIds \cup {"follow"}
    /\ phase \in [JobIds -> Phases]
    /\ age \in [JobIds -> Nat]
    /\ wait \in [JobIds -> Nat]
    /\ code \in [JobIds -> Codes]
    /\ marker \in [Profiles -> Codes \cup {NoMarker}]
    /\ model \in {"starting", "ready", "deleted"}
    /\ leftover \subseteq {"service", "pvc"}
    /\ pods \in 0..2

Init ==
    /\ inv \in Invocations
    /\ tried = {}
    /\ phase = [j \in JobIds |-> "absent"]
    /\ age = [j \in JobIds |-> 0]
    /\ wait = [j \in JobIds |-> 0]
    /\ code = [j \in JobIds |-> 0]
    /\ marker = [p \in Profiles |-> NoMarker]
    /\ model = "starting"
    /\ leftover = {"service", "pvc"}
    /\ pods = 0

(***************************************************************************)
(* The command line: lifecycle.deploy() after deploy.sh has applied the    *)
(* Deployment.  It submits stage by stage.  Without quality it follows the *)
(* log of the first benchmark Job before it goes on; a lone quality Job,   *)
(* with neither benchmark nor auto-stop, it watches to its end.            *)
(***************************************************************************)
Follows == \/ inv.bench # {} /\ inv.sheets = {}
           \/ inv.bench = {} /\ Cardinality(inv.sheets) = 1 /\ ~inv.autoStop

Wanted ==
    LET evaluated == inv.bench # {} \/ inv.sheets # {} IN
    inv.bench \cup inv.sheets
        \cup (IF Follows THEN {"follow"} ELSE {})
        \cup (IF inv.autoStop /\ evaluated THEN {"autostop"} ELSE {})

Rank(step) == IF step = "realtime" THEN 1
              ELSE IF step = "batch" THEN 2
              ELSE IF step \in SheetKeys THEN 3
              ELSE IF step = "follow" THEN 4 ELSE 5

NextStep(step) ==
    /\ step \in Wanted \ tried
    /\ \A other \in Wanted \ tried : Rank(step) <= Rank(other)

(* A kubectl apply that succeeds creates the Job; its clock starts here.   *)
Submit(j) ==
    /\ NextStep(j) /\ j \in JobIds
    /\ tried' = tried \cup {j}
    /\ phase' = [phase EXCEPT ![j] = "pending"]
    /\ pods' = IF j = "autostop" THEN 1 ELSE pods
    /\ UNCHANGED <<inv, age, wait, code, marker, model, leftover>>

(* A refused apply: deploy() returns when the benchmark submission fails,  *)
(* but goes on after a sheet's or the auto-stop's.                         *)
SubmitFails(j) ==
    /\ "submit" \in Faults
    /\ NextStep(j) /\ j \in JobIds
    /\ tried' = IF j \in Profiles THEN Wanted ELSE tried \cup {j}
    /\ UNCHANGED <<inv, phase, age, wait, code, marker, model, leftover, pods>>

(* Following a pod's log is best effort: it may end at any time.           *)
FollowEnds ==
    /\ NextStep("follow")
    /\ tried' = tried \cup {"follow"}
    /\ UNCHANGED <<inv, phase, age, wait, code, marker, model, leftover, pods>>

(* The terminal is closed before the command line is through.              *)
CloseTerminal ==
    /\ "close" \in Faults
    /\ tried # Wanted
    /\ tried' = Wanted
    /\ UNCHANGED <<inv, phase, age, wait, code, marker, model, leftover, pods>>

(***************************************************************************)
(* Kubernetes: pods start, clocks run, deadlines and lost pods end Jobs.   *)
(* backoffLimit is 0 for every Job but the auto-stop's.                    *)
(***************************************************************************)
Finish(j, outcome) ==
    /\ phase' = [phase EXCEPT ![j] = outcome]
    /\ age' = [age EXCEPT ![j] = 0]
    /\ wait' = [wait EXCEPT ![j] = 0]
    /\ code' = [code EXCEPT ![j] = 0]

MoveTo(j, where) ==
    /\ phase' = [phase EXCEPT ![j] = where]
    /\ wait' = [wait EXCEPT ![j] = 0]
    /\ UNCHANGED <<age, code>>

(* The pod starts with the init container when there is one.               *)
PodStarts(j) ==
    /\ phase[j] = "pending" /\ j \in PipelineJobs
    /\ MoveTo(j, IF Gated(j) THEN "gate" ELSE "health")
    /\ UNCHANGED <<inv, tried, marker, model, leftover, pods>>

(* What the auto-stop's poll looks for: the last profile's Job, or the    *)
(* quality Jobs whose run-tag label is the base tag or starts with it and  *)
(* a dash.  An untagged run labels its Jobs "org" and "xl" while the       *)
(* filter's base is "untagged".                                            *)
MatchedJobs == {s \in SheetKeys : inv.tagged /\ phase[s] # "absent"}

(* lifecycle passes one --quality-sheet per flag given, both without one.  *)
ExpectedJobs_Default == Cardinality(SheetKeys) + 1
ExpectedJobs == IF inv.sheetArgs = 0 THEN Cardinality(SheetKeys) ELSE inv.sheetArgs

LooksFinished_AnyProfile ==
    IF inv.sheets # {}
    THEN /\ Cardinality(MatchedJobs) >= ExpectedJobs
         /\ \A s \in MatchedJobs : Terminal(s)
    ELSE \E p \in inv.bench : Terminal(p)

LooksFinished ==
    IF inv.sheets # {}
    THEN /\ Cardinality(MatchedJobs) >= ExpectedJobs
         /\ \A s \in MatchedJobs : Terminal(s)
    ELSE Terminal(LastProfile)

(* A polling loop that has something to act on does so before the clock    *)
(* moves on, and so does the auto-stop's script once its loop has ended.   *)
Due ==
    \/ \E j \in PipelineJobs :
          phase[j] = "gate" /\ (wait[j] >= GateWait(j) \/ marker[GateMarker(j)] # NoMarker)
    \/ phase["autostop"] = "pending" /\ wait["autostop"] >= StartDelay
    \/ phase["autostop"] = "poll" /\ (LooksFinished \/ wait["autostop"] >= AutoStopDeadline)
    \/ phase["autostop"] \in {"delDeployment", "delService", "delPvc"}

(* The Job controller enforces activeDeadlineSeconds, at most KillLag late.*)
Tick ==
    /\ \E j \in JobIds : Active(j)
    /\ \A j \in JobIds : Active(j) => age[j] < Deadline(j) + KillLag
    /\ ~Due
    /\ age' = [j \in JobIds |-> IF Active(j) THEN age[j] + 1 ELSE age[j]]
    /\ wait' = [j \in JobIds |-> IF Waiting(j) THEN wait[j] + 1 ELSE wait[j]]
    /\ UNCHANGED <<inv, tried, phase, code, marker, model, leftover, pods>>

DeadlineExceeded_NotQuality(j) ==
    /\ Active(j) /\ age[j] >= Deadline(j) /\ j \notin SheetKeys
    /\ Finish(j, "failed")
    /\ UNCHANGED <<inv, tried, marker, model, leftover, pods>>

DeadlineExceeded(j) ==
    /\ Active(j) /\ age[j] >= Deadline(j)
    /\ Finish(j, "failed")
    /\ UNCHANGED <<inv, tried, marker, model, leftover, pods>>

(* A pod that dies after its gate (evicted, or a quality Job whose own      *)
(* set-up fails under set -e): no marker is written on the way out.        *)
PodLost(j) ==
    /\ "pod" \in Faults
    /\ j \in PipelineJobs /\ phase[j] \in {"health", "load", "mark", "exit"}
    /\ Finish(j, "failed")
    /\ UNCHANGED <<inv, tried, marker, model, leftover, pods>>

(* The model becomes Ready some time after the Deployment is applied, or   *)
(* never.                                                                  *)
ModelReady ==
    /\ model = "starting"
    /\ model' = "ready"
    /\ UNCHANGED <<inv, tried, phase, age, wait, code, marker, leftover, pods>>

(***************************************************************************)
(* The gates: init containers that poll S3 for the marker of the stage     *)
(* before.  The loop reads the clock first, so a marker that appears at    *)
(* the deadline is not read.                                               *)
(***************************************************************************)
GateOpens_AnyExit(j) ==
    /\ phase[j] = "gate" /\ wait[j] < GateWait(j)
    /\ marker[GateMarker(j)] # NoMarker
    /\ MoveTo(j, "health")
    /\ UNCHANGED <<inv, tried, marker, model, leftover, pods>>

GateOpens(j) ==
    /\ phase[j] = "gate" /\ wait[j] < GateWait(j)
    /\ marker[GateMarker(j)] # NoMarker
    /\ j = "batch" => marker["realtime"] = 0
    /\ MoveTo(j, "health")
    /\ UNCHANGED <<inv, tried, marker, model, leftover, pods>>

(* Batch does not start after a failed realtime: it passes the code on to  *)
(* the quality gate and fails.                                             *)
GateRefuses ==
    /\ phase["batch"] = "gate" /\ wait["batch"] < GateWait("batch")
    /\ marker["realtime"] \notin {NoMarker, 0}
    /\ marker' = [marker EXCEPT !["batch"] = marker["realtime"]]
    /\ Finish("batch", "failed")
    /\ UNCHANGED <<inv, tried, model, leftover, pods>>

BatchGateTimesOut_OwnCode ==
    /\ phase["batch"] = "gate" /\ wait["batch"] >= GateWait("batch")
    /\ marker' = [marker EXCEPT !["batch"] = 2]
    /\ Finish("batch", "failed")
    /\ UNCHANGED <<inv, tried, model, leftover, pods>>

BatchGateTimesOut ==
    /\ phase["batch"] = "gate" /\ wait["batch"] >= GateWait("batch")
    /\ marker' = [marker EXCEPT !["batch"] = 124]
    /\ Finish("batch", "failed")
    /\ UNCHANGED <<inv, tried, model, leftover, pods>>

(* The quality gate gives up waiting and starts the evaluation anyway.     *)
QualityGateTimesOut(j) ==
    /\ j \in SheetKeys
    /\ phase[j] = "gate" /\ wait[j] >= GateWait(j)
    /\ MoveTo(j, "health")
    /\ UNCHANGED <<inv, tried, marker, model, leftover, pods>>

(* Any other S3 error ends the init container, and with it the Job.        *)
GateFails(j) ==
    /\ "gate" \in Faults
    /\ phase[j] = "gate"
    /\ Finish(j, "failed")
    /\ UNCHANGED <<inv, tried, marker, model, leftover, pods>>

(***************************************************************************)
(* The runners: load-test.py and quality-eval.py poll /health, load the    *)
(* model, and exit; the benchmark's wrapper then writes the marker.        *)
(***************************************************************************)
ModelHealthy(j) ==
    /\ phase[j] = "health" /\ wait[j] < ReadyTimeout
    /\ model = "ready"
    /\ MoveTo(j, "load")
    /\ UNCHANGED <<inv, tried, marker, model, leftover, pods>>

TestEnds(j, exit) ==
    IF j \in Profiles
    THEN /\ phase' = [phase EXCEPT ![j] = "mark"]
         /\ wait' = [wait EXCEPT ![j] = 0]
         /\ code' = [code EXCEPT ![j] = exit]
         /\ UNCHANGED age
    ELSE Finish(j, IF exit = 0 THEN "complete" ELSE "failed")

ModelNotReady(j) ==
    /\ phase[j] = "health" /\ wait[j] >= ReadyTimeout
    /\ TestEnds(j, 3)
    /\ UNCHANGED <<inv, tried, marker, model, leftover, pods>>

(* The exit code says little of the endpoint: load-test.py skips a level   *)
(* that raises and exits 0 when another one measured something, and        *)
(* quality-eval.py turns a failed request into an UNKNOWN verdict.         *)
LoadEnds(j, exit) ==
    /\ Loading(j) /\ exit \in {0, 1}
    /\ TestEnds(j, exit)
    /\ UNCHANGED <<inv, tried, marker, model, leftover, pods>>

WriteMarker(p) ==
    /\ phase[p] = "mark"
    /\ marker' = [marker EXCEPT ![p] = code[p]]
    /\ phase' = [phase EXCEPT ![p] = "exit"]
    /\ UNCHANGED <<inv, tried, age, wait, code, model, leftover, pods>>

(* "|| echo WARN": the Job goes on without its marker.                     *)
WriteMarkerFails(p) ==
    /\ "marker" \in Faults
    /\ phase[p] = "mark"
    /\ phase' = [phase EXCEPT ![p] = "exit"]
    /\ UNCHANGED <<inv, tried, age, wait, code, marker, model, leftover, pods>>

RunnerExits(p) ==
    /\ phase[p] = "exit"
    /\ Finish(p, IF code[p] = 0 THEN "complete" ELSE "failed")
    /\ UNCHANGED <<inv, tried, marker, model, leftover, pods>>

(***************************************************************************)
(* The auto-stop Job: poll until the pipeline looks finished, then delete  *)
(* the Deployment, the Service and the PVC.                                *)
(***************************************************************************)
StopperStarts ==
    /\ phase["autostop"] = "pending"
    /\ MoveTo("autostop", "poll")
    /\ UNCHANGED <<inv, tried, marker, model, leftover, pods>>

StopperSeesEnd ==
    /\ phase["autostop"] = "poll" /\ wait["autostop"] < AutoStopDeadline
    /\ LooksFinished
    /\ MoveTo("autostop", "delDeployment")
    /\ UNCHANGED <<inv, tried, marker, model, leftover, pods>>

(* The loop runs out: the model is stopped anyway.                         *)
StopperTimesOut ==
    /\ phase["autostop"] = "poll" /\ wait["autostop"] >= AutoStopDeadline
    /\ MoveTo("autostop", "delDeployment")
    /\ UNCHANGED <<inv, tried, marker, model, leftover, pods>>

(* Each delete is followed by "|| true": refused or not, the next runs.    *)
DeleteDeployment ==
    /\ phase["autostop"] = "delDeployment"
    /\ MoveTo("autostop", "delService")
    /\ model' \in {"deleted"} \cup (IF "delete" \in Faults THEN {model} ELSE {})
    /\ UNCHANGED <<inv, tried, marker, leftover, pods>>

DeleteService ==
    /\ phase["autostop"] = "delService"
    /\ MoveTo("autostop", "delPvc")
    /\ leftover' \in {leftover \ {"service"}} \cup
                     (IF "delete" \in Faults THEN {leftover} ELSE {})
    /\ UNCHANGED <<inv, tried, marker, model, pods>>

DeletePvc ==
    /\ phase["autostop"] = "delPvc"
    /\ Finish("autostop", "complete")
    /\ leftover' \in {leftover \ {"pvc"}} \cup
                     (IF "delete" \in Faults THEN {leftover} ELSE {})
    /\ UNCHANGED <<inv, tried, marker, model, pods>>

(* backoffLimit 1: a first lost pod is replaced, whose loop starts its own *)
(* deadline while the Job's keeps running; a second one ends the Job.      *)
StopperPodFails ==
    /\ Active("autostop")
    /\ \/ /\ "stopper" \in Faults /\ pods = 1
          /\ MoveTo("autostop", "pending")
          /\ pods' = 2
       \/ /\ "stopperAgain" \in Faults /\ pods = 2
          /\ Finish("autostop", "failed")
          /\ UNCHANGED pods
    /\ UNCHANGED <<inv, tried, marker, model, leftover>>

-------------------------------------------------------------------------------

CommandLine ==
    \/ \E j \in JobIds : Submit(j) \/ SubmitFails(j)
    \/ FollowEnds
    \/ CloseTerminal

Gate(j) ==
    \/ GateOpens(j)
    \/ j = "batch" /\ (GateRefuses \/ BatchGateTimesOut)
    \/ QualityGateTimesOut(j)

Runner(j) ==
    \/ PodStarts(j)
    \/ Gate(j)
    \/ ModelHealthy(j)
    \/ ModelNotReady(j)
    \/ \E exit \in {0, 1} : LoadEnds(j, exit)
    \/ j \in Profiles /\ (WriteMarker(j) \/ WriteMarkerFails(j) \/ RunnerExits(j))

Stopper ==
    \/ StopperStarts \/ StopperSeesEnd \/ StopperTimesOut
    \/ DeleteDeployment \/ DeleteService \/ DeletePvc

Next ==
    \/ CommandLine
    \/ Tick
    \/ ModelReady
    \/ \E j \in JobIds : DeadlineExceeded(j)
    \/ \E j \in PipelineJobs : Runner(j) \/ PodLost(j) \/ GateFails(j)
    \/ Stopper
    \/ StopperPodFails

(* Time passes, the Job controller acts, polling loops run.                *)
(* Nothing is assumed of the tests, the pods or the user.                  *)
Fairness ==
    /\ WF_vars(Tick)
    /\ \A j \in JobIds : WF_vars(DeadlineExceeded(j))
    /\ \A j \in PipelineJobs : WF_vars(Gate(j))
    /\ WF_vars(Stopper)

Spec == Init /\ [][Next]_vars /\ Fairness

-------------------------------------------------------------------------------
(***************************************************************************)
(* What must hold.                                                         *)
(***************************************************************************)

(* The stage of a Job is closed when it cannot come to load the endpoint   *)
(* any more; until then it is open, to StageOrder, or loading it.          *)
Closed(j) ==
    \/ phase[j] = "absent" /\ j \notin Wanted \ tried
    \/ phase[j] \in {"mark", "exit", "complete", "failed"}

StageStatus ==
    [j \in PipelineJobs |->
        IF Loading(j) THEN "loading" ELSE IF Closed(j) THEN "closed" ELSE "open"]

Order == INSTANCE StageOrder
    WITH Stages <- PipelineJobs, StageRank <- Rank, status <- StageStatus

(* The stages load the endpoint in order, whatever fails: batch never      *)
(* while realtime is measuring latency (run-benchmark.sh: so batch never   *)
(* loads the GPU while ...), quality never during a performance stage      *)
(* (run-quality.sh), and no stage after a later one has begun.             *)
StagesInOrder == Order!Spec

(* A Job that is past its gate leaves nothing behind it that may still     *)
(* load the endpoint, although the quality gate opens for any marker, one  *)
(* the batch gate wrote for a batch that never ran included, and starts    *)
(* the evaluation anyway after a bounded wait for none.                    *)
PastGateIsAlone ==
    \A j \in PipelineJobs :
        UsesModel(j) => \A k \in PipelineJobs : Rank(k) < Rank(j) => Closed(k)

(* A batch that follows realtime only ever runs after its success.         *)
BatchOnlyAfterSuccess ==
    Gated("batch") /\ phase["batch"] \in {"health", "load", "mark", "exit"}
        => marker["realtime"] = 0

(* A gate that reaches its deadline gives up on a stage that died without  *)
(* a marker, never on one that is still running or has reported: the       *)
(* scripts' margins (600 s for batch, 10 h for quality) are wide enough.   *)
GateDeadlineIsEnough ==
    \A j \in PipelineJobs :
        phase[j] = "gate" /\ wait[j] >= GateWait(j)
            => ~Active(GateMarker(j)) /\ marker[GateMarker(j)] = NoMarker

PipelineOver == \A j \in PipelineJobs : Closed(j)

(* The auto-stop does not take the model from under its own pipeline: when *)
(* it deletes the Deployment no Job of the run needs the endpoint any more *)
(* (run-autostop.sh: it waits for the pipeline to finish).                 *)
StopsAfterPipeline ==
    [][phase["autostop"] = "delDeployment" /\ phase'["autostop"] = "delService"
         => PipelineOver]_vars

(* When every Job of the pipeline is over, the auto-stop's poll sees it.   *)
EndIsSeen ==
    phase["autostop"] = "poll" /\ (\A j \in PipelineJobs \cap Wanted : Terminal(j))
        => LooksFinished

(* An auto-stop Job that is over has stopped the model and released its    *)
(* Service and volume.                                                     *)
StopperStops == Terminal("autostop") => model = "deleted" /\ leftover = {}

(* Every Job that is submitted ends: no gate and no wait holds it forever, *)
(* so from some time on no Job is active.                                  *)
EveryJobEnds == <>[](\A j \in JobIds : ~Active(j))

(* An auto-stop that was submitted ends up with the model deleted, unless  *)
(* its pod was lost: the one that replaces it polls for 14 h anew, and the *)
(* Job's own deadline does not wait for it.                                *)
ModelIsStopped == Active("autostop") ~> model = "deleted" \/ pods = 2

===============================================================================
