------------------------------ MODULE RunsProofs ------------------------------
(***************************************************************************)
(* For every number of command lines, tags and nodes: while commands are   *)
(* typed one after another, an endpoint has one run at a time, whatever    *)
(* auto-stops, stops and refused submissions do in between, unless kubectl *)
(* failed when preflight looked for another run.                           *)
(***************************************************************************)
EXTENDS Runs, TLAPS

-------------------------------------------------------------------------------
(* Types.                                                                  *)

LEMMA EndpointType == TypeOK => \A r \in RunIds : line[r] \in Line /\ Endpoint(r) \in Endpoints
  BY LinesAssumption DEF TypeOK, Line, Endpoint, Endpoints

LEMMA TypeInit == Init => TypeOK
  BY NamesAssumption, LinesAssumption DEF Init, TypeOK, Endpoints, InFlight

(* A command line that is at work changes its own progress, what it        *)
(* deploys and its Jobs.                                                   *)
LEMMA TypeCommand == ASSUME TypeOK, NEW r \in RunIds, Command(r) PROVE TypeOK'
<1>1. Endpoint(r) \in Endpoints
  BY EndpointType
<1>2. CASE Preflight(r)
  BY <1>2, OutagesAssumption DEF Preflight, TypeOK, InFlight
<1>3. CASE Apply(r)
  BY <1>1, <1>3 DEF Apply, TypeOK, InFlight
<1>4. CASE DeployOnly(r)
  BY <1>4 DEF DeployOnly, TypeOK, InFlight
<1>5. CASE SubmitJobs(r)
  BY <1>5 DEF SubmitJobs, TypeOK, InFlight
<1>6. CASE SubmitRefused(r)
  BY <1>6 DEF SubmitRefused, TypeOK, InFlight
<1>7. CASE SubmitStopper(r)
  BY <1>7 DEF SubmitStopper, TypeOK, InFlight
<1> QED BY <1>2, <1>3, <1>4, <1>5, <1>6, <1>7 DEF Command

LEMMA TypeCluster == ASSUME TypeOK, NEW r \in RunIds, Cluster(r) PROVE TypeOK'
<1>1. Endpoint(r) \in Endpoints
  BY EndpointType
<1>2. CASE JobEnds(r)
  BY <1>2 DEF JobEnds, TypeOK
<1>3. CASE Poll(r)
  BY <1>3 DEF Poll, TypeOK
<1>4. CASE GiveUp(r)
  BY <1>4 DEF GiveUp, TypeOK
<1>5. CASE AutoStop(r)
  BY <1>1, <1>5 DEF AutoStop, TypeOK
<1> QED BY <1>2, <1>3, <1>4, <1>5 DEF Cluster

(* Deleting a node leaves pods that are on nodes, pending, or not there.   *)
LEMMA DeleteType ==
  ASSUME TypeOK, NEW n, Delete(n)
  PROVE  nodes' \subseteq Nodes /\ pod' \in [Endpoints -> Nodes \cup {"pending", None}]
  BY DEF Delete, TypeOK

LEMMA TypeStop == ASSUME TypeOK, NEW s \in StopIds, Stop(s) PROVE TypeOK'
<1> DEFINE Where == {"idle", "found", "deleted", "alone", "terminated", "over"}
           Stops == [at: Where, of: Endpoints, node: Nodes \cup {None}, last: Nodes \cup {None}]
<1>0. stop \in [StopIds -> Stops] /\ stop[s] \in Stops /\ stop[s].of \in Endpoints
  BY DEF TypeOK
<1>1. \A where \in Where : Progress(s, where) => stop' \in [StopIds -> Stops]
  BY <1>0 DEF Progress
<1>2. \A e : NodeOf(e) \in Nodes \cup {None}
  BY DEF NodeOf
<1>3. ASSUME NEW e \in Endpoints, StopLooksUp(s, e) PROVE TypeOK'
  <2>1. stop' \in [StopIds -> Stops]
    BY <1>0, <1>2, <1>3 DEF StopLooksUp
  <2> QED BY <2>1, <1>3 DEF StopLooksUp, TypeOK
<1>4. CASE StopDeletes(s)
  <2>1. stop' \in [StopIds -> Stops]
    BY <1>0, <1>2, <1>4 DEF StopDeletes
  <2> QED BY <2>1, <1>0, <1>4 DEF StopDeletes, TypeOK
<1>5. CASE StopChecksNode(s)
  BY <1>1, <1>5 DEF StopChecksNode, TypeOK
<1>6. CASE StopDeletesNode(s)
  BY <1>1, <1>6, DeleteType DEF StopDeletesNode, TypeOK
<1>7. CASE StopFallsBack(s)
  <2>1. nodes' \subseteq Nodes /\ pod' \in [Endpoints -> Nodes \cup {"pending", None}]
    BY <1>7, DeleteType DEF StopFallsBack, TypeOK
  <2> QED BY <2>1, <1>1, <1>7 DEF StopFallsBack, TypeOK
<1>8. CASE StopLooksAgain(s)
  <2>1. stop' \in [StopIds -> Stops]
    BY <1>0, <1>8 DEF StopLooksAgain
  <2> QED BY <2>1, <1>8 DEF StopLooksAgain, TypeOK
<1>9. CASE StopCleansJobs(s)
  <2>1. job' \in [RunIds -> {"none", "active", "done", "gone"}]
    BY <1>9 DEF StopCleansJobs, TypeOK
  <2> QED BY <2>1, <1>1, <1>9 DEF StopCleansJobs, TypeOK
<1> QED BY <1>3, <1>4, <1>5, <1>6, <1>7, <1>8, <1>9 DEF Stop

LEMMA TypeNext == TypeOK /\ [Next]_vars => TypeOK'
<1> SUFFICES ASSUME TypeOK, [Next]_vars PROVE TypeOK'
  OBVIOUS
<1>1. CASE UNCHANGED vars
  BY <1>1 DEF vars, TypeOK
<1>2. ASSUME NEW e \in Endpoints, Schedule(e) PROVE TypeOK'
  BY <1>2 DEF Schedule, TypeOK
<1>3. ASSUME NEW n \in Nodes, Reap(n) PROVE TypeOK'
  BY <1>3 DEF Reap, TypeOK
<1> QED BY <1>1, <1>2, <1>3, TypeCommand, TypeCluster, TypeStop DEF Next

(* Every variable keeps its type.                                          *)
THEOREM RunsTypes == Spec => []TypeOK
  BY TypeInit, TypeNext, PTL DEF Spec

-------------------------------------------------------------------------------
(* One run at a time.                                                      *)

(* One operator, a GPU model, and names that fit.                          *)
Tidy == ~Overlap /\ ~Neuron /\ LongNames = {}

(* What a preflight that overlooked nothing has found stays so while its   *)
(* command line is at work: nothing else can start a Job or a Deployment.  *)
OneAtWork == \A q, r \in RunIds : AtWork(q) /\ AtWork(r) => q = r

JobsLater == \A r \in RunIds : pc[r] \in {"idle", "checked", "applied"} => job[r] = "none"

PathIsClear ==
    \A r \in RunIds : pc[r] \in {"checked", "applied"} /\ "jobs" \notin missed[r] =>
        \A q \in RunIds : job[q] = "active" => Endpoint(q) # Endpoint(r)

NotDeployed ==
    \A r \in RunIds :
        pc[r] = "checked" /\ line[r].kind = "deploy" /\ "deployment" \notin missed[r] =>
            dep[Endpoint(r)] = {}

Unasked == \A r \in RunIds : pc[r] = "idle" => missed[r] = {}

IInv ==
    /\ TypeOK
    /\ OneAtWork /\ Unasked /\ JobsLater /\ PathIsClear /\ NotDeployed
    /\ OneRunPerEndpoint /\ OneDeployer

LEMMA InvInit == Init => IInv
  BY TypeInit
     DEF Init, IInv, OneAtWork, Unasked, JobsLater, PathIsClear, NotDeployed, OneRunPerEndpoint,
         OneDeployer, AtWork, InFlight

(* Flags do not change, and so neither do endpoints.                       *)
LEMMA LineStays == [Next]_vars => line' = line
  BY DEF Next, vars, Command, Preflight, Apply, DeployOnly, SubmitJobs, SubmitRefused,
         SubmitStopper, Cluster, JobEnds, Poll, GiveUp, AutoStop, Stop, StopLooksUp,
         StopDeletes, StopChecksNode, StopDeletesNode, StopFallsBack, StopLooksAgain,
         StopCleansJobs, Schedule, Reap

(* A step that starts no Job, deploys nothing and lets no command line go  *)
(* on keeps all of it.                                                     *)
LEMMA Fewer ==
  ASSUME IInv, [Next]_vars, pc' = pc, missed' = missed,
         \A r \in RunIds : job'[r] = "active" => job[r] = "active",
         \A r \in RunIds : job[r] = "none" => job'[r] = "none",
         \A e \in Endpoints : dep'[e] \subseteq dep[e]
  PROVE  IInv'
<1>1. TypeOK'
  BY TypeNext DEF IInv
<1>2. \A r \in RunIds : Endpoint(r)' = Endpoint(r) /\ Endpoint(r) \in Endpoints /\ line'[r] = line[r]
  BY LineStays, EndpointType DEF IInv, Endpoint
<1>3. (OneAtWork /\ Unasked /\ JobsLater /\ PathIsClear)'
  BY <1>2 DEF IInv, OneAtWork, AtWork, Unasked, JobsLater, PathIsClear
<1>4. NotDeployed'
  BY <1>2 DEF IInv, NotDeployed
<1>5. OneRunPerEndpoint' /\ OneDeployer'
  BY <1>2 DEF IInv, OneRunPerEndpoint, OneDeployer
<1> QED BY <1>1, <1>3, <1>4, <1>5 DEF IInv

LEMMA InvCommand ==
  ASSUME Tidy, IInv, NEW r \in RunIds, Command(r)
  PROVE  IInv'
<1>0. [Next]_vars
  BY DEF Next
<1>1. TypeOK'
  BY <1>0, TypeNext DEF IInv
<1>2. /\ line' = line
      /\ \A q \in RunIds : Endpoint(q)' = Endpoint(q) /\ Endpoint(q) = line[q].tag
      /\ \A q \in RunIds : Endpoint(q) \in Endpoints
  BY <1>0, LineStays, EndpointType DEF IInv, Endpoint, Tidy
<1>3. /\ pc \in [RunIds -> {"idle", "refused", "over"} \cup InFlight]
      /\ job \in [RunIds -> {"none", "active", "done", "gone"}]
      /\ dep \in [Endpoints -> SUBSET RunIds]
  BY DEF IInv, TypeOK
<1>4. CASE Preflight(r)
  <2>1. /\ pc[r] = "idle" /\ \A q \in RunIds : ~AtWork(q)
        /\ job' = job /\ dep' = dep
    BY <1>4 DEF Preflight, Free, Tidy
  <2>2. \A q \in RunIds : q # r => pc'[q] = pc[q] /\ pc[q] \notin {"checked", "applied", "submitted"}
    BY <1>3, <1>4, <2>1 DEF AtWork, InFlight, Preflight
  <2>3. pc'[r] \in {"refused", "checked"}
    BY <1>3, <1>4 DEF Preflight
  <2>4. (OneAtWork /\ JobsLater)'
    BY <2>1, <2>2, <2>3 DEF IInv, OneAtWork, JobsLater, AtWork, InFlight
  <2>5. pc'[r] = "checked" => missed'[r] = Active(r)
    BY <1>3, <1>4 DEF Preflight, IInv, TypeOK
  <2>6. /\ "deployment" \notin Active(r) /\ line[r].kind = "deploy" => dep[Endpoint(r)] = {}
        /\ "jobs" \notin Active(r) => \A q \in RunIds : job[q] = "active" => Endpoint(q) # Endpoint(r)
    BY <1>2 DEF Active, Deployed, Running, Tidy
  <2>7. PathIsClear' /\ NotDeployed'
    BY <1>2, <2>1, <2>2, <2>3, <2>5, <2>6 DEF PathIsClear, NotDeployed
  <2>8. \A q \in RunIds : missed[q] \subseteq missed'[q]
    BY <1>4, <2>1 DEF Preflight, IInv, TypeOK, Unasked
  <2>9. OneRunPerEndpoint' /\ OneDeployer'
    BY <1>2, <1>3, <2>1, <2>8 DEF IInv, OneRunPerEndpoint, OneDeployer
  <2>10. Unasked'
    BY <1>4, <2>2, <2>3 DEF IInv, Unasked, Preflight, TypeOK
  <2> QED BY <1>1, <2>4, <2>7, <2>9, <2>10 DEF IInv
<1>5. \A q \in RunIds : AtWork(r) /\ q # r => pc[q] \notin {"checked", "applied", "submitted"}
  BY DEF IInv, OneAtWork, AtWork, InFlight
<1>6. CASE Apply(r)
  <2>1. /\ pc[r] = "checked" /\ line[r].kind = "deploy"
        /\ pc' = [pc EXCEPT ![r] = "applied"] /\ job' = job /\ missed' = missed
        /\ dep' = [dep EXCEPT ![Endpoint(r)] = @ \cup {r}]
    BY <1>6 DEF Apply
  <2>2. "deployment" \notin missed[r] => dep[Endpoint(r)] = {}
    BY <2>1 DEF IInv, NotDeployed
  <2>3. \A q \in RunIds : q # r => pc'[q] = pc[q] /\ pc[q] \notin {"checked", "applied", "submitted"}
    BY <1>3, <1>5, <2>1 DEF AtWork, InFlight
  <2>4. pc'[r] = "applied"
    BY <1>3, <2>1
  <2>5. (OneAtWork /\ Unasked /\ JobsLater /\ PathIsClear /\ NotDeployed)'
    BY <1>2, <2>1, <2>3, <2>4
       DEF IInv, OneAtWork, Unasked, JobsLater, AtWork, InFlight, PathIsClear, NotDeployed
  <2>6. OneRunPerEndpoint'
    BY <1>2, <2>1 DEF IInv, OneRunPerEndpoint
  <2>7. OneDeployer'
    BY <1>2, <1>3, <2>1, <2>2 DEF IInv, OneDeployer
  <2> QED BY <1>1, <2>5, <2>6, <2>7 DEF IInv
<1>7. CASE SubmitJobs(r)
  <2>1. /\ pc[r] \in {"checked", "applied"} /\ pc' = [pc EXCEPT ![r] = "submitted"]
        /\ job' = [job EXCEPT ![r] = "active"] /\ dep' = dep /\ missed' = missed
    BY <1>7 DEF SubmitJobs, Submits
  <2>2. \A q \in RunIds : q # r => /\ pc'[q] = pc[q] /\ pc[q] \notin {"checked", "applied", "submitted"}
                                   /\ job'[q] = job[q]
    BY <1>3, <1>5, <2>1 DEF AtWork, InFlight
  <2>3. pc'[r] = "submitted" /\ job'[r] = "active"
    BY <1>3, <2>1
  <2>4. (OneAtWork /\ Unasked /\ JobsLater /\ PathIsClear /\ NotDeployed)'
    BY <1>2, <2>1, <2>2, <2>3
       DEF IInv, OneAtWork, Unasked, JobsLater, AtWork, InFlight, PathIsClear, NotDeployed
  <2>5. "jobs" \notin missed[r] => \A q \in RunIds : job[q] = "active" => Endpoint(q) # Endpoint(r)
    BY <2>1 DEF IInv, PathIsClear
  <2>6. OneRunPerEndpoint'
    BY <1>2, <2>1, <2>2, <2>3, <2>5 DEF IInv, OneRunPerEndpoint
  <2>7. OneDeployer'
    BY <2>1 DEF IInv, OneDeployer
  <2> QED BY <1>1, <2>4, <2>6, <2>7 DEF IInv
<1>8. CASE DeployOnly(r) \/ SubmitRefused(r) \/ SubmitStopper(r)
  <2>1. /\ AtWork(r) /\ job' = job /\ dep' = dep /\ missed' = missed
        /\ \E where \in {"submitted", "over"} : pc' = [pc EXCEPT ![r] = where]
    BY <1>8 DEF DeployOnly, SubmitRefused, SubmitStopper, Submits, AtWork, InFlight
  <2>2. \A q \in RunIds : q # r => pc'[q] = pc[q] /\ pc[q] \notin {"checked", "applied", "submitted"}
    BY <1>3, <1>5, <2>1
  <2>3. pc'[r] \in {"submitted", "over"}
    BY <1>3, <2>1
  <2>4. (OneAtWork /\ Unasked /\ JobsLater /\ PathIsClear /\ NotDeployed)'
    BY <1>2, <2>1, <2>2, <2>3
       DEF IInv, OneAtWork, Unasked, JobsLater, AtWork, InFlight, PathIsClear, NotDeployed
  <2>5. OneRunPerEndpoint' /\ OneDeployer'
    BY <1>2, <2>1 DEF IInv, OneRunPerEndpoint, OneDeployer
  <2> QED BY <1>1, <2>4, <2>5 DEF IInv
<1> QED BY <1>4, <1>6, <1>7, <1>8 DEF Command

LEMMA InvNext == Tidy /\ IInv /\ [Next]_vars => IInv'
<1> SUFFICES ASSUME Tidy, IInv, [Next]_vars PROVE IInv'
  OBVIOUS
<1>0. /\ job \in [RunIds -> {"none", "active", "done", "gone"}]
      /\ dep \in [Endpoints -> SUBSET RunIds]
  BY DEF IInv, TypeOK
<1>1. CASE UNCHANGED vars
  BY <1>1, Fewer DEF vars
<1>2. ASSUME NEW r \in RunIds, Command(r) PROVE IInv'
  BY <1>2, InvCommand
<1>3. ASSUME NEW r \in RunIds, Cluster(r) PROVE IInv'
  <2>1. CASE JobEnds(r)
    BY <1>0, <2>1, Fewer DEF JobEnds
  <2>2. CASE Poll(r) \/ GiveUp(r)
    BY <2>2, Fewer DEF Poll, GiveUp
  <2>3. CASE AutoStop(r)
    BY <1>0, <2>3, Fewer DEF AutoStop
  <2> QED BY <1>3, <2>1, <2>2, <2>3 DEF Cluster
<1>4. ASSUME NEW s \in StopIds, Stop(s) PROVE IInv'
  <2>1. ASSUME NEW e \in Endpoints, StopLooksUp(s, e) PROVE IInv'
    BY <2>1, Fewer DEF StopLooksUp
  <2>2. CASE StopDeletes(s)
    BY <1>0, <2>2, Fewer DEF StopDeletes
  <2>3. CASE StopChecksNode(s) \/ StopDeletesNode(s) \/ StopFallsBack(s) \/ StopLooksAgain(s)
    BY <2>3, Fewer DEF StopChecksNode, StopDeletesNode, StopFallsBack, StopLooksAgain
  <2>4. CASE StopCleansJobs(s)
    BY <1>0, <2>4, Fewer DEF StopCleansJobs
  <2> QED BY <1>4, <2>1, <2>2, <2>3, <2>4 DEF Stop
<1>5. ASSUME NEW e \in Endpoints, Schedule(e) PROVE IInv'
  BY <1>5, Fewer DEF Schedule
<1>6. ASSUME NEW n \in Nodes, Reap(n) PROVE IInv'
  BY <1>6, Fewer DEF Reap
<1> QED BY <1>1, <1>2, <1>3, <1>4, <1>5, <1>6 DEF Next

(* preflight.py: no two runs load one endpoint at a time when commands do  *)
(* not overlap, names are not cut and the model is served on GPUs, unless  *)
(* preflight let one of the two go on because its look-up of Jobs failed.  *)
THEOREM OneRunAtATime ==
  ASSUME Tidy PROVE Spec => []OneRunPerEndpoint
<1>1. Init => IInv
  BY InvInit
<1>2. IInv /\ [Next]_vars => IInv'
  BY InvNext
<1>3. IInv => OneRunPerEndpoint
  BY DEF IInv
<1> QED BY <1>1, <1>2, <1>3, PTL DEF Spec

(* preflight.py: nor does one deploy apply over another then, unless the   *)
(* look-up of the Deployment failed for one of the two.                    *)
THEOREM OneDeployAtATime ==
  ASSUME Tidy PROVE Spec => []OneDeployer
<1>1. Init => IInv
  BY InvInit
<1>2. IInv /\ [Next]_vars => IInv'
  BY InvNext
<1>3. IInv => OneDeployer
  BY DEF IInv
<1> QED BY <1>1, <1>2, <1>3, PTL DEF Spec

(* run-autostop.sh:260-300: an auto-stop that acts before its deadline     *)
(* leaves the Job of its own run behind it, whichever other runs it has    *)
(* counted, and however their commands overlap.                            *)
THEOREM StopperIsPatient == Spec => Patience
<1> DEFINE Waits == \A r \in RunIds : stopper[r] = "waiting" /\ stopper'[r] = "due" => job[r] # "active"
<1>1. TypeOK /\ [Next]_vars => Waits
  <2> SUFFICES ASSUME TypeOK, [Next]_vars,
                      NEW r \in RunIds, stopper[r] = "waiting", stopper'[r] = "due"
               PROVE  job[r] # "active"
    OBVIOUS
  <2>0. stopper \in [RunIds -> {"none", "waiting", "due", "over"}]
    BY DEF TypeOK
  <2>1. Poll(r) \/ GiveUp(r)
    <3>1. ASSUME NEW q \in RunIds, Command(q) PROVE FALSE
      BY <2>0, <3>1 DEF Command, Preflight, Apply, DeployOnly, SubmitJobs, SubmitRefused, SubmitStopper
    <3>2. ASSUME NEW q \in RunIds, Cluster(q) PROVE Poll(r) \/ GiveUp(r)
      BY <2>0, <3>2 DEF Cluster, JobEnds, Poll, GiveUp, AutoStop
    <3>3. ASSUME NEW s \in StopIds, Stop(s) PROVE FALSE
      BY <2>0, <3>3 DEF Stop, StopLooksUp, StopDeletes, StopChecksNode, StopDeletesNode,
                        StopFallsBack, StopLooksAgain, StopCleansJobs
    <3> QED BY <2>0, <3>1, <3>2, <3>3 DEF Next, vars, Schedule, Reap
  <2>2. ASSUME PipelineDone(r), job[r] = "active" PROVE FALSE
    <3>1. CASE line[r].stage = "quality"
      BY <2>2, <3>1 DEF PipelineDone, Counted
    <3>2. CASE line[r].stage # "quality"
      BY <2>2, <3>2 DEF PipelineDone
    <3> QED BY <3>1, <3>2
  <2> QED BY <2>1, <2>2 DEF Poll, GiveUp
<1>2. Spec => []TypeOK
  BY RunsTypes
<1> QED BY <1>1, <1>2, PTL DEF Spec, Patience

===============================================================================
