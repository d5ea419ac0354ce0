---------------------------- MODULE PipelineProofs ----------------------------
(***************************************************************************)
(* The pipeline keeps its stages in order for every set of sheets, every   *)
(* command line, every kind of failure and all deadlines that keep the     *)
(* margins of MarginsAssumption.  The auto-stop never deletes the model    *)
(* from under its own pipeline, as long as no init container fails early;  *)
(* it sees the end of the pipeline when the command line names its sheets  *)
(* as it should, and it ends with everything deleted when neither its pod  *)
(* nor a delete fails.                                                     *)
(***************************************************************************)
EXTENDS Pipeline, FiniteSetTheorems, TLAPS

(* Past its gate, or without one, a Job is on its own.                     *)
Passed(j) == phase[j] \in {"health", "load", "mark", "exit"}

(* Jobs are created in order, each only when those below it are dealt with. *)
Submitted ==
    /\ tried \subseteq Wanted
    /\ \A j \in JobIds : phase[j] # "absent" =>
          j \in tried /\ \A k \in Wanted : Rank(k) < Rank(j) => k \in tried

(* Clocks start at the creation, run together, and stay within deadlines.  *)
Clocks ==
    /\ \A j \in JobIds : ~Active(j) => age[j] = 0
    /\ \A j \in JobIds : Active(j) => age[j] <= Deadline(j) + KillLag
    /\ \A j, k \in PipelineJobs :
          Active(j) /\ Active(k) /\ Rank(k) < Rank(j) => age[j] <= age[k]
    /\ \A j \in PipelineJobs : phase[j] = "gate" => Gated(j) /\ wait[j] <= age[j]

(* A marker is there only when its stage and those below it are closed.    *)
Marked ==
    \A p \in Profiles :
        marker[p] # NoMarker =>
            /\ phase[p] \in {"exit", "complete", "failed"}
            /\ \A k \in PipelineJobs : Rank(k) < Rank(p) => Closed(k)

Alone ==
    \A j, k \in PipelineJobs : Passed(j) /\ Rank(k) < Rank(j) => Closed(k)

IInv == TypeOK /\ Submitted /\ Clocks /\ Marked /\ Alone /\ BatchOnlyAfterSuccess
            /\ GateDeadlineIsEnough

-------------------------------------------------------------------------------
(* Facts about the constants and the command line.                         *)

LEMMA LineType == inv \in Invocations => inv.bench \subseteq Profiles /\ inv.sheets \subseteq SheetKeys
  BY InvocationsAssumption DEF Invocation

LEMMA WantedType == inv \in Invocations => Wanted \subseteq JobIds \cup {"follow"}
  BY LineType DEF Wanted, JobIds

LEMMA RankType == \A j : Rank(j) \in 1..5
  BY DEF Rank

LEMMA DeadlineType == \A j : Deadline(j) \in Nat
  BY DurationsAssumption DEF Deadline

LEMMA GateWaitType == \A j : GateWait(j) \in Nat
  BY DurationsAssumption DEF GateWait

(* A gate waits longer than any stage below its Job can last.              *)
LEMMA Margin ==
  ASSUME NEW j \in PipelineJobs, NEW k \in PipelineJobs, inv \in Invocations,
         Gated(j), Rank(k) < Rank(j)
  PROVE  Deadline(k) + KillLag < GateWait(j)
<1>1. CASE j = "batch"
  BY <1>1, SheetsAssumption, DurationsAssumption, MarginsAssumption
     DEF Rank, Deadline, GateWait, PipelineJobs, Profiles, Gated
<1>2. CASE j \in SheetKeys
  BY <1>2, SheetsAssumption, DurationsAssumption, MarginsAssumption
     DEF Rank, Deadline, GateWait, PipelineJobs, Profiles, Gated
<1> QED BY <1>1, <1>2 DEF Gated

(* The stage whose marker a gated Job waits for is submitted before it.    *)
LEMMA GateMarkerBelow ==
  ASSUME NEW j \in PipelineJobs, inv \in Invocations, Gated(j)
  PROVE  /\ GateMarker(j) \in Profiles /\ GateMarker(j) \in Wanted
         /\ Rank(GateMarker(j)) < Rank(j)
  BY LineType, SheetsAssumption
     DEF Gated, GateMarker, LastProfile, Wanted, Rank, Profiles

(* What a Job below an ungated one is: not part of the run.                *)
LEMMA UngatedAlone ==
  ASSUME NEW j \in PipelineJobs, NEW k \in PipelineJobs, inv \in Invocations,
         ~Gated(j), Rank(k) < Rank(j)
  PROVE  k \notin Wanted
  BY LineType, SheetsAssumption
     DEF Gated, Wanted, Rank, Profiles, PipelineJobs

-------------------------------------------------------------------------------
(* Types.                                                                  *)

LEMMA InitType == Init => TypeOK
  BY DEF Init, TypeOK, Phases, Codes, NoMarker

LEMMA FinishType ==
  ASSUME TypeOK, NEW j \in JobIds, NEW outcome \in Phases, Finish(j, outcome)
  PROVE  /\ phase' \in [JobIds -> Phases] /\ age' \in [JobIds -> Nat]
         /\ wait' \in [JobIds -> Nat] /\ code' \in [JobIds -> Codes]
  BY DEF TypeOK, Finish, Codes

LEMMA MoveToType ==
  ASSUME TypeOK, NEW j \in JobIds, NEW where \in Phases, MoveTo(j, where)
  PROVE  /\ phase' \in [JobIds -> Phases] /\ age' \in [JobIds -> Nat]
         /\ wait' \in [JobIds -> Nat] /\ code' \in [JobIds -> Codes]
  BY DEF TypeOK, MoveTo

LEMMA NextType == TypeOK /\ [Next]_vars => TypeOK'
<1> SUFFICES ASSUME TypeOK, [Next]_vars PROVE TypeOK'
  OBVIOUS
<1> USE DEF TypeOK
<1>1. ASSUME NEW j \in JobIds, Submit(j) PROVE TypeOK'
  BY <1>1 DEF Submit, Phases
<1>2. ASSUME NEW j \in JobIds, SubmitFails(j) PROVE TypeOK'
  BY <1>2, WantedType DEF SubmitFails
<1>3. CASE FollowEnds
  BY <1>3 DEF FollowEnds
<1>4. CASE CloseTerminal
  BY <1>4, WantedType DEF CloseTerminal
<1>5. CASE Tick
  BY <1>5 DEF Tick
<1>6. CASE ModelReady
  BY <1>6 DEF ModelReady
<1>7. ASSUME NEW j \in JobIds, DeadlineExceeded(j) PROVE TypeOK'
  BY <1>7, FinishType DEF DeadlineExceeded, Phases
<1>8. ASSUME NEW j \in PipelineJobs, Runner(j) PROVE TypeOK'
  <2>0. j \in JobIds
    BY DEF PipelineJobs, JobIds
  <2>1. CASE PodStarts(j)
    BY <2>0, <2>1, MoveToType DEF PodStarts, Phases
  <2>2. CASE GateOpens(j)
    BY <2>0, <2>2, MoveToType DEF GateOpens, Phases
  <2>3. CASE j = "batch" /\ GateRefuses
    BY <2>0, <2>3, FinishType DEF GateRefuses, Phases, Profiles
  <2>4. CASE j = "batch" /\ BatchGateTimesOut
    <3>1. phase' \in [JobIds -> Phases] /\ age' \in [JobIds -> Nat]
            /\ wait' \in [JobIds -> Nat] /\ code' \in [JobIds -> Codes]
      BY <2>0, <2>4, FinishType DEF BatchGateTimesOut, Phases
    <3> QED BY <2>4, <3>1 DEF BatchGateTimesOut, Codes
  <2>5. CASE QualityGateTimesOut(j)
    BY <2>0, <2>5, MoveToType DEF QualityGateTimesOut, Phases
  <2>6. CASE ModelHealthy(j)
    BY <2>0, <2>6, MoveToType DEF ModelHealthy, Phases
  <2>7. ASSUME NEW exit \in Codes, TestEnds(j, exit)
        PROVE  /\ phase' \in [JobIds -> Phases] /\ age' \in [JobIds -> Nat]
               /\ wait' \in [JobIds -> Nat] /\ code' \in [JobIds -> Codes]
    BY <2>0, <2>7, FinishType DEF TestEnds, Phases
  <2>8. CASE ModelNotReady(j)
    BY <2>7, <2>8 DEF ModelNotReady, Codes
  <2>9. ASSUME NEW exit \in {0, 1}, LoadEnds(j, exit) PROVE TypeOK'
    BY <2>7, <2>9 DEF LoadEnds, Codes
  <2>10. CASE j \in Profiles /\ WriteMarker(j)
    BY <2>10 DEF WriteMarker, Phases, Profiles, JobIds
  <2>11. CASE j \in Profiles /\ WriteMarkerFails(j)
    BY <2>11 DEF WriteMarkerFails, Phases
  <2>12. CASE j \in Profiles /\ RunnerExits(j)
    BY <2>0, <2>12, FinishType DEF RunnerExits, Phases
  <2> QED BY <1>8, <2>1, <2>2, <2>3, <2>4, <2>5, <2>6, <2>8, <2>9, <2>10, <2>11, <2>12
          DEF Runner, Gate
<1>9. ASSUME NEW j \in PipelineJobs, PodLost(j) \/ GateFails(j) PROVE TypeOK'
  BY <1>9, FinishType DEF PodLost, GateFails, Phases, PipelineJobs, JobIds
<1>10. CASE Stopper
  <2>0. "autostop" \in JobIds
    BY DEF JobIds
  <2>1. CASE StopperStarts \/ StopperSeesEnd \/ StopperTimesOut
    BY <2>0, <2>1, MoveToType DEF StopperStarts, StopperSeesEnd, StopperTimesOut, Phases
  <2>2. CASE DeleteDeployment
    BY <2>0, <2>2, MoveToType DEF DeleteDeployment, Phases
  <2>3. CASE DeleteService
    BY <2>0, <2>3, MoveToType DEF DeleteService, Phases
  <2>4. CASE DeletePvc
    BY <2>0, <2>4, FinishType DEF DeletePvc, Phases
  <2> QED BY <1>10, <2>1, <2>2, <2>3, <2>4 DEF Stopper
<1>11. CASE StopperPodFails
  <2>0. "autostop" \in JobIds
    BY DEF JobIds
  <2>1. /\ phase' \in [JobIds -> Phases] /\ age' \in [JobIds -> Nat]
        /\ wait' \in [JobIds -> Nat] /\ code' \in [JobIds -> Codes]
    BY <2>0, <1>11, MoveToType, FinishType DEF StopperPodFails, Phases
  <2> QED BY <1>11, <2>1 DEF StopperPodFails
<1>12. CASE UNCHANGED vars
  BY <1>12 DEF vars
<1> QED BY <1>1, <1>2, <1>3, <1>4, <1>5, <1>6, <1>7, <1>8, <1>9, <1>10, <1>11, <1>12
        DEF Next, CommandLine

(* Every variable keeps its type: clocks never run backwards past zero, a  *)
(* marker holds an exit code and the auto-stop starts at most two pods.    *)
THEOREM TypeCorrect == Spec => []TypeOK
  BY InitType, NextType, PTL DEF Spec

-------------------------------------------------------------------------------
(* The kinds of step the induction tells apart.                            *)

(* Steps of the submission are given up or over; no Job is touched.        *)
GivesUp ==
    /\ tried \subseteq tried' /\ tried' \subseteq Wanted
    /\ UNCHANGED <<inv, phase, age, wait, marker>>

(* A Job of the pipeline that is not over goes on, its clock running.      *)
GoesOn(j, where) ==
    /\ phase' = [phase EXCEPT ![j] = where]
    /\ wait' \in {wait, [wait EXCEPT ![j] = 0]}
    /\ UNCHANGED <<inv, tried, age, marker>>

EntersGate(j) ==
    phase[j] = "pending" /\ Gated(j) /\ wait' = [wait EXCEPT ![j] = 0] /\ GoesOn(j, "gate")

PassesGate(j) ==
    /\ \/ phase[j] = "pending" /\ ~Gated(j)
       \/ phase[j] = "gate" /\ marker[GateMarker(j)] # NoMarker
              /\ (j = "batch" => marker["realtime"] = 0)
       \/ phase[j] = "gate" /\ j \in SheetKeys /\ wait[j] >= GateWait(j)
    /\ GoesOn(j, "health")

Works(j) ==
    \/ phase[j] = "health" /\ GoesOn(j, "load")
    \/ phase[j] \in {"health", "load"} /\ GoesOn(j, "mark")
    \/ phase[j] = "mark" /\ GoesOn(j, "exit")

(* A Job is over; its clock is put back.                                   *)
Ends(j, outcome) ==
    /\ Active(j) /\ outcome \in {"complete", "failed"}
    /\ phase' = [phase EXCEPT ![j] = outcome]
    /\ age' = [age EXCEPT ![j] = 0] /\ wait' = [wait EXCEPT ![j] = 0]
    /\ UNCHANGED <<inv, tried>>

EndsSilently(j) ==
    /\ \E outcome \in {"complete", "failed"} : Ends(j, outcome) /\ UNCHANGED marker
    /\ \/ j = "autostop" \/ Passed(j) \/ age[j] >= Deadline(j)
       \/ phase[j] = "gate" /\ "gate" \in Faults

(* Batch ends in its gate and reports on its own behalf.                   *)
BatchReports ==
    /\ phase["batch"] = "gate" /\ Ends("batch", "failed")
    /\ \/ marker["realtime"] # NoMarker
       \/ wait["batch"] >= GateWait("batch")
    /\ \E c \in Codes : marker' = [marker EXCEPT !["batch"] = c]

Deleting == {"delDeployment", "delService", "delPvc"}

StopperGoesOn ==
    /\ Active("autostop")
    /\ wait' = [wait EXCEPT !["autostop"] = 0]
    /\ \E where \in {"pending", "poll"} \cup Deleting :
          /\ GoesOn("autostop", where)
          /\ where \in Deleting =>
                \/ phase["autostop"] \in Deleting
                \/ phase["autostop"] = "poll"
                       /\ (LooksFinished \/ wait["autostop"] >= AutoStopDeadline)

Marks(p) == phase[p] = "mark" /\ GoesOn(p, "exit")

Kind ==
    \/ \E j \in JobIds : Submit(j)
    \/ GivesUp
    \/ Tick
    \/ \E j \in PipelineJobs : EntersGate(j) \/ PassesGate(j) \/ Works(j)
    \/ \E j \in JobIds : EndsSilently(j)
    \/ \E p \in Profiles : WriteMarker(p)
    \/ BatchReports
    \/ StopperGoesOn

(* Every step is of one of these kinds.                                    *)
LEMMA StepKind == TypeOK /\ tried \subseteq Wanted /\ [Next]_vars => Kind
<1> SUFFICES ASSUME TypeOK, tried \subseteq Wanted, [Next]_vars PROVE Kind
  OBVIOUS
<1>0. /\ PipelineJobs \subseteq JobIds /\ Profiles \subseteq PipelineJobs
      /\ "autostop" \in JobIds /\ "batch" \in Profiles /\ "autostop" \notin PipelineJobs
  BY SheetsAssumption DEF PipelineJobs, JobIds, Profiles
<1>1. ASSUME NEW j \in JobIds, SubmitFails(j) PROVE Kind
  BY <1>1 DEF SubmitFails, NextStep, GivesUp, Kind
<1>2. CASE FollowEnds \/ CloseTerminal \/ ModelReady \/ UNCHANGED vars
  BY <1>2 DEF FollowEnds, NextStep, CloseTerminal, ModelReady, vars, GivesUp, Kind
<1>3. ASSUME NEW j \in JobIds, DeadlineExceeded(j) PROVE Kind
  BY <1>3 DEF DeadlineExceeded, EndsSilently, Ends, Finish, Kind
<1>4. ASSUME NEW j \in PipelineJobs, Runner(j) PROVE Kind
  <2>1. CASE PodStarts(j)
    <3>1. CASE Gated(j)
      BY <1>4, <2>1, <3>1 DEF PodStarts, MoveTo, EntersGate, GoesOn, Kind
    <3>2. CASE ~Gated(j)
      BY <1>4, <2>1, <3>2 DEF PodStarts, MoveTo, PassesGate, GoesOn, Kind
    <3> QED BY <3>1, <3>2
  <2>2. CASE GateOpens(j) \/ QualityGateTimesOut(j)
    BY <1>4, <2>2 DEF GateOpens, QualityGateTimesOut, MoveTo, PassesGate, GoesOn, Kind
  <2>3. CASE j = "batch" /\ (GateRefuses \/ BatchGateTimesOut)
    <3>1. phase["batch"] = "gate" /\ Active("batch")
      BY <2>3 DEF GateRefuses, BatchGateTimesOut, Active, Terminal
    <3>2. CASE GateRefuses
      BY <3>1, <3>2 DEF GateRefuses, Finish, BatchReports, Ends, Kind, TypeOK, Profiles
    <3>3. CASE BatchGateTimesOut
      BY <3>1, <3>3 DEF BatchGateTimesOut, Finish, BatchReports, Ends, Kind, Codes
    <3> QED BY <2>3, <3>2, <3>3
  <2>4. CASE ModelHealthy(j)
    BY <1>4, <2>4 DEF ModelHealthy, MoveTo, Works, GoesOn, Kind
  <2>5. ASSUME NEW exit \in Codes, TestEnds(j, exit), UsesModel(j), UNCHANGED <<inv, tried, marker>>
        PROVE  Kind
    <3>1. CASE j \in Profiles
      BY <2>5, <3>1 DEF TestEnds, UsesModel, Works, GoesOn, Kind
    <3>2. CASE j \notin Profiles
      BY <1>0, <2>5, <3>2 DEF TestEnds, Finish, EndsSilently, Ends, UsesModel, Passed, Active, Terminal, Kind
    <3> QED BY <3>1, <3>2
  <2>6. CASE ModelNotReady(j)
    BY <2>5, <2>6 DEF ModelNotReady, UsesModel, Codes
  <2>7. ASSUME NEW exit \in {0, 1}, LoadEnds(j, exit) PROVE Kind
    BY <2>5, <2>7 DEF LoadEnds, Loading, UsesModel, Codes
  <2>8. CASE j \in Profiles /\ WriteMarker(j)
    BY <2>8 DEF Kind
  <2>9. CASE j \in Profiles /\ WriteMarkerFails(j)
    BY <1>4, <2>9 DEF WriteMarkerFails, Works, GoesOn, Kind
  <2>10. CASE j \in Profiles /\ RunnerExits(j)
    BY <1>0, <1>4, <2>10
       DEF RunnerExits, Passed, Finish, EndsSilently, Ends, Active, Terminal, Kind
  <2> QED BY <1>4, <2>1, <2>2, <2>3, <2>4, <2>6, <2>7, <2>8, <2>9, <2>10 DEF Runner, Gate
<1>5. ASSUME NEW j \in PipelineJobs, PodLost(j) \/ GateFails(j) PROVE Kind
  BY <1>0, <1>5
     DEF PodLost, GateFails, Passed, Finish, EndsSilently, Ends, Active, Terminal, Kind
<1>6. CASE Stopper
  <2>1. Active("autostop")
    BY <1>6 DEF Stopper, StopperStarts, StopperSeesEnd, StopperTimesOut, DeleteDeployment,
                DeleteService, DeletePvc, Active, Terminal
  <2>2. CASE StopperStarts \/ StopperSeesEnd \/ StopperTimesOut
    BY <2>1, <2>2 DEF StopperStarts, StopperSeesEnd, StopperTimesOut, MoveTo, StopperGoesOn,
                      GoesOn, Deleting, Kind
  <2>3. CASE DeleteDeployment \/ DeleteService
    BY <2>1, <2>3 DEF DeleteDeployment, DeleteService, MoveTo, StopperGoesOn, GoesOn,
                      Deleting, Kind
  <2>4. CASE DeletePvc
    BY <1>0, <2>1, <2>4 DEF DeletePvc, Finish, EndsSilently, Ends, Kind
  <2> QED BY <1>6, <2>2, <2>3, <2>4 DEF Stopper
<1>7. CASE StopperPodFails
  BY <1>0, <1>7 DEF StopperPodFails, MoveTo, Finish, StopperGoesOn, GoesOn, Deleting,
                    EndsSilently, Ends, Kind
<1> QED BY <1>1, <1>2, <1>3, <1>4, <1>5, <1>6, <1>7 DEF Next, CommandLine, Kind

(* The command line stays what it is, and all that depends on it alone.    *)
LEMMA SameLine ==
  ASSUME inv' = inv
  PROVE  /\ Wanted' = Wanted
         /\ \A j : Gated(j)' <=> Gated(j)
         /\ \A j : GateMarker(j)' = GateMarker(j)
         /\ \A j : Deadline(j)' = Deadline(j)
  BY DEF Wanted, Follows, Gated, GateMarker, LastProfile, Deadline

LEMMA KindLine == Kind => inv' = inv
  BY DEF Kind, Submit, GivesUp, Tick, EntersGate, PassesGate, Works, GoesOn, EndsSilently, Ends,
         WriteMarker, BatchReports, StopperGoesOn

-------------------------------------------------------------------------------
(* The inductive invariant, one conjunct at a time.                        *)

LEMMA InitIInv == Init => IInv
<1> SUFFICES ASSUME Init PROVE IInv
  OBVIOUS
<1>1. TypeOK
  BY InitType
<1>2. Submitted
  BY DEF Init, Submitted
<1>3. \A j \in JobIds : phase[j] = "absent" /\ ~Active(j) /\ age[j] = 0
  BY DEF Init, Active
<1>4. PipelineJobs \subseteq JobIds /\ Profiles \subseteq PipelineJobs
  BY DEF PipelineJobs, JobIds
<1>5. Clocks
  BY <1>3, <1>4 DEF Clocks
<1>6. Marked
  BY DEF Init, Marked
<1>7. Alone /\ GateDeadlineIsEnough
  BY <1>3, <1>4 DEF Alone, Passed, GateDeadlineIsEnough
<1>8. BatchOnlyAfterSuccess
  BY <1>3, <1>4 DEF BatchOnlyAfterSuccess, Profiles
<1> QED BY <1>1, <1>2, <1>5, <1>6, <1>7, <1>8 DEF IInv

LEMMA SubmittedStep ==
  ASSUME TypeOK, Submitted, Kind
  PROVE  Submitted'
<1>0. Wanted' = Wanted
  BY KindLine, SameLine
<1> USE DEF TypeOK, Submitted
<1>1. ASSUME NEW j \in JobIds, Submit(j) PROVE Submitted'
  <2>1. j \in Wanted /\ tried' = tried \cup {j} /\ \A k \in Wanted : Rank(k) < Rank(j) => k \in tried
    BY <1>1, RankType DEF Submit, NextStep
  <2>2. \A k \in JobIds : phase'[k] # "absent" => phase[k] # "absent" \/ k = j
    BY <1>1 DEF Submit
  <2> QED BY <1>0, <2>1, <2>2
<1>2. CASE GivesUp
  BY <1>0, <1>2 DEF GivesUp
<1>3. CASE Tick
  BY <1>0, <1>3 DEF Tick
<1>4. ASSUME NEW j \in JobIds, NEW where, phase[j] # "absent",
             phase' = [phase EXCEPT ![j] = where], UNCHANGED tried
      PROVE  Submitted'
  BY <1>0, <1>4
<1>5. ASSUME NEW j \in PipelineJobs, EntersGate(j) \/ PassesGate(j) \/ Works(j) PROVE Submitted'
  <2>1. j \in JobIds
    BY DEF PipelineJobs, JobIds
  <2>2. phase[j] # "absent"
    BY <1>5 DEF EntersGate, PassesGate, Works
  <2>3. \E where : GoesOn(j, where)
    BY <1>5 DEF EntersGate, PassesGate, Works
  <2> QED BY <1>4, <2>1, <2>2, <2>3 DEF GoesOn
<1>6. ASSUME NEW j \in JobIds, EndsSilently(j) PROVE Submitted'
  BY <1>4, <1>6 DEF EndsSilently, Ends, Active
<1>7. ASSUME NEW p \in Profiles, WriteMarker(p) PROVE Submitted'
  BY <1>4, <1>7 DEF WriteMarker, JobIds
<1>8. CASE BatchReports
  BY <1>4, <1>8 DEF BatchReports, Ends, JobIds, Profiles
<1>9. CASE StopperGoesOn
  BY <1>4, <1>9 DEF StopperGoesOn, GoesOn, Deleting, Active, JobIds
<1> QED BY <1>1, <1>2, <1>3, <1>5, <1>6, <1>7, <1>8, <1>9 DEF Kind

(* A stage that cannot load the endpoint any more never will.              *)
LEMMA ClosedStable ==
  ASSUME TypeOK, Submitted, Kind, NEW k \in PipelineJobs, Closed(k)
  PROVE  Closed(k)'
<1>0. Wanted' = Wanted /\ k \in JobIds
  BY KindLine, SameLine DEF PipelineJobs, JobIds
<1> USE DEF TypeOK, Closed
<1>1. ASSUME NEW j \in JobIds, Submit(j) PROVE Closed(k)'
  BY <1>0, <1>1 DEF Submit, NextStep, Submitted
<1>2. CASE GivesUp
  BY <1>0, <1>2 DEF GivesUp
<1>3. CASE Tick
  BY <1>0, <1>3 DEF Tick
<1>4. ASSUME NEW j \in JobIds, NEW where, phase[j] # "absent", UNCHANGED tried,
             phase' = [phase EXCEPT ![j] = where],
             Closed(j) => where \in {"mark", "exit", "complete", "failed"}
      PROVE  Closed(k)'
  BY <1>0, <1>4
<1>5. ASSUME NEW j \in PipelineJobs, EntersGate(j) \/ PassesGate(j) \/ Works(j) PROVE Closed(k)'
  <2>0. j \in JobIds
    BY DEF PipelineJobs, JobIds
  <2>1. CASE EntersGate(j) \/ PassesGate(j)
    BY <1>4, <2>0, <2>1 DEF EntersGate, PassesGate, GoesOn
  <2>2. CASE Works(j)
    BY <1>4, <2>0, <2>2 DEF Works, GoesOn
  <2> QED BY <1>5, <2>1, <2>2
<1>6. ASSUME NEW j \in JobIds, EndsSilently(j) PROVE Closed(k)'
  BY <1>4, <1>6 DEF EndsSilently, Ends, Active
<1>7. ASSUME NEW p \in Profiles, WriteMarker(p) PROVE Closed(k)'
  BY <1>4, <1>7 DEF WriteMarker, JobIds
<1>8. CASE BatchReports
  BY <1>4, <1>8 DEF BatchReports, Ends, JobIds, Profiles
<1>9. CASE StopperGoesOn
  BY <1>0, <1>9, SheetsAssumption DEF StopperGoesOn, GoesOn, PipelineJobs, Profiles
<1> QED BY <1>1, <1>2, <1>3, <1>5, <1>6, <1>7, <1>8, <1>9 DEF Kind

LEMMA ClocksStep ==
  ASSUME TypeOK, Submitted, Clocks, Kind
  PROVE  Clocks'
<1>0. /\ \A j : Gated(j)' <=> Gated(j)
      /\ \A j : Deadline(j)' = Deadline(j)
      /\ PipelineJobs \subseteq JobIds /\ Profiles \subseteq PipelineJobs
      /\ "autostop" \in JobIds /\ "autostop" \notin PipelineJobs /\ "batch" \in PipelineJobs
  BY KindLine, SameLine, SheetsAssumption DEF PipelineJobs, JobIds, Profiles
<1>a. KillLag \in Nat /\ \A j : Deadline(j) \in Nat
  BY DeadlineType, DurationsAssumption
<1> USE DEF TypeOK, Clocks, Active, Terminal
<1>1. ASSUME NEW j \in JobIds, Submit(j) PROVE Clocks'
  <2>1. phase[j] = "absent" /\ age[j] = 0
    BY <1>1 DEF Submit, NextStep, Submitted
  <2>2. \A i \in JobIds : Active(i) => ~(Rank(j) < Rank(i))
    BY <1>1 DEF Submit, NextStep, Submitted
  <2>3. phase' = [phase EXCEPT ![j] = "pending"] /\ age' = age /\ wait' = wait
    BY <1>1 DEF Submit
  <2> QED BY <1>0, <1>a, <2>1, <2>2, <2>3
<1>2. CASE GivesUp
  BY <1>0, <1>2 DEF GivesUp
<1>3. CASE Tick
  <2>1. /\ phase' = phase
        /\ \A j \in JobIds : age'[j] = IF Active(j) THEN age[j] + 1 ELSE age[j]
        /\ \A j \in JobIds : Active(j) => age[j] < Deadline(j) + KillLag
        /\ \A j \in JobIds : wait'[j] \in {wait[j], wait[j] + 1}
    BY <1>3 DEF Tick
  <2> QED BY <1>0, <1>a, <2>1
<1>4. ASSUME NEW j \in JobIds, Active(j),
             NEW where, where \notin {"absent", "complete", "failed"},
             GoesOn(j, where), where = "gate" => EntersGate(j)
      PROVE  Clocks'
  <2>1. /\ age' = age /\ \A i \in JobIds : phase'[i] = IF i = j THEN where ELSE phase[i]
        /\ \A i \in JobIds : i # j => wait'[i] = wait[i]
    BY <1>4 DEF GoesOn
  <2>2. \A i \in JobIds : Active(i)' <=> Active(i)
    BY <1>4, <2>1
  <2>3. where = "gate" => Gated(j) /\ wait'[j] = 0
    BY <1>4 DEF EntersGate
  <2> QED BY <1>0, <2>1, <2>2, <2>3
<1>5. ASSUME NEW j \in JobIds, NEW outcome, Ends(j, outcome) PROVE Clocks'
  <2>1. /\ outcome \in {"complete", "failed"}
        /\ \A i \in JobIds : phase'[i] = IF i = j THEN outcome ELSE phase[i]
        /\ \A i \in JobIds : age'[i] = IF i = j THEN 0 ELSE age[i]
        /\ \A i \in JobIds : i # j => wait'[i] = wait[i]
    BY <1>5 DEF Ends
  <2> QED BY <1>0, <2>1
<1>6. ASSUME NEW j \in PipelineJobs, EntersGate(j) \/ PassesGate(j) \/ Works(j) PROVE Clocks'
  BY <1>0, <1>4, <1>6 DEF EntersGate, PassesGate, Works
<1>7. ASSUME NEW p \in Profiles, WriteMarker(p) PROVE Clocks'
  <2>1. /\ age' = age /\ wait' = wait
        /\ phase[p] = "mark" /\ phase' = [phase EXCEPT ![p] = "exit"]
    BY <1>7 DEF WriteMarker
  <2> QED BY <1>0, <2>1
<1>8. CASE StopperGoesOn
  BY <1>0, <1>4, <1>8 DEF StopperGoesOn, Deleting
<1> QED BY <1>0, <1>1, <1>2, <1>3, <1>5, <1>6, <1>7, <1>8 DEF Kind, EndsSilently, BatchReports

(* A gate that has waited its time has outlasted every stage below it.     *)
LEMMA GateOutlasts ==
  ASSUME TypeOK, Submitted, Clocks, NEW j \in PipelineJobs, NEW k \in PipelineJobs,
         Rank(k) < Rank(j), phase[j] = "gate", wait[j] >= GateWait(j)
  PROVE  Closed(k)
<1>0. j \in JobIds /\ k \in JobIds /\ Active(j)
  BY DEF PipelineJobs, JobIds, Active, Terminal
<1>1. CASE Active(k)
  <2>1. Gated(j) /\ wait[j] <= age[j] /\ age[j] <= age[k] /\ age[k] <= Deadline(k) + KillLag
    BY <1>0, <1>1 DEF Clocks
  <2>2. Deadline(k) + KillLag < GateWait(j)
    BY <2>1, Margin DEF TypeOK
  <2> QED BY <1>0, <2>1, <2>2, DeadlineType, GateWaitType, DurationsAssumption DEF TypeOK
<1>2. CASE ~Active(k)
  BY <1>0, <1>2 DEF Submitted, Active, Terminal, Closed
<1> QED BY <1>1, <1>2

(* So is every stage below one whose gate opens.                           *)
LEMMA MarkedOutlasts ==
  ASSUME TypeOK, Submitted, Marked, NEW j \in PipelineJobs, NEW k \in PipelineJobs,
         Rank(k) < Rank(j), Gated(j), marker[GateMarker(j)] # NoMarker
  PROVE  Closed(k)
<1>1. GateMarker(j) \in Profiles /\ Closed(GateMarker(j))
         /\ \A i \in PipelineJobs : Rank(i) < Rank(GateMarker(j)) => Closed(i)
  BY GateMarkerBelow DEF Marked, Closed, TypeOK
<1>2. CASE k = GateMarker(j) \/ Rank(k) < Rank(GateMarker(j))
  BY <1>1, <1>2
<1>3. CASE k # GateMarker(j) /\ ~(Rank(k) < Rank(GateMarker(j)))
  <2>1. k = "batch" /\ j \in SheetKeys /\ "batch" \notin inv.bench
    BY <1>3, LineType, SheetsAssumption
       DEF PipelineJobs, Profiles, Rank, GateMarker, LastProfile, Gated, TypeOK
  <2>2. k \notin Wanted
    BY <2>1, LineType, SheetsAssumption DEF Wanted, TypeOK, Profiles
  <2>3. phase[k] = "absent"
    BY <2>2 DEF Submitted, PipelineJobs, JobIds
  <2> QED BY <2>2, <2>3 DEF Closed
<1> QED BY <1>2, <1>3

LEMMA MarkedStep ==
  ASSUME TypeOK, Submitted, Clocks, Marked, Alone, Kind
  PROVE  Marked'
<1>0. /\ PipelineJobs \subseteq JobIds /\ Profiles \subseteq PipelineJobs
      /\ "autostop" \notin Profiles /\ "batch" \in Profiles
  BY DEF PipelineJobs, JobIds, Profiles
<1>1. \A k \in PipelineJobs : Closed(k) => Closed(k)'
  BY ClosedStable
<1> USE DEF TypeOK, Marked
<1>2. ASSUME marker' = marker,
             \A p \in Profiles : phase[p] \in {"exit", "complete", "failed"} =>
                                 phase'[p] \in {"exit", "complete", "failed"}
      PROVE  Marked'
  BY <1>0, <1>1, <1>2
<1>3. ASSUME NEW j \in JobIds, NEW where, phase' = [phase EXCEPT ![j] = where], marker' = marker,
             phase[j] \in {"exit", "complete", "failed"} => where \in {"exit", "complete", "failed"}
      PROVE  Marked'
  BY <1>0, <1>2, <1>3
<1>4. ASSUME NEW j \in JobIds, Submit(j) PROVE Marked'
  <2>1. phase[j] = "absent"
    BY <1>4 DEF Submit, NextStep, Submitted
  <2> QED BY <1>3, <1>4, <2>1 DEF Submit
<1>5. CASE GivesUp \/ Tick
  BY <1>2, <1>5 DEF GivesUp, Tick
<1>6. ASSUME NEW j \in PipelineJobs, EntersGate(j) \/ PassesGate(j) \/ Works(j) PROVE Marked'
  BY <1>0, <1>3, <1>6 DEF EntersGate, PassesGate, Works, GoesOn
<1>7. ASSUME NEW j \in JobIds, EndsSilently(j) PROVE Marked'
  BY <1>3, <1>7 DEF EndsSilently, Ends
<1>8. ASSUME NEW p \in Profiles, marker' \in [Profiles -> Codes \cup {NoMarker}],
             \A i \in Profiles : i # p => marker'[i] = marker[i] /\ phase'[i] = phase[i],
             phase'[p] \in {"exit", "complete", "failed"},
             \A k \in PipelineJobs : Rank(k) < Rank(p) => Closed(k)
      PROVE  Marked'
  BY <1>0, <1>1, <1>8
<1>9. ASSUME NEW p \in Profiles, WriteMarker(p) PROVE Marked'
  <2>1. \A k \in PipelineJobs : Rank(k) < Rank(p) => Closed(k)
    BY <1>0, <1>9 DEF WriteMarker, Alone, Passed
  <2>2. code[p] \in Codes
    BY <1>0
  <2> QED BY <1>0, <1>8, <1>9, <2>1, <2>2 DEF WriteMarker
<1>10. CASE BatchReports
  <2>1. Gated("batch")
    BY <1>0, <1>10 DEF BatchReports, Clocks
  <2>2. \A k \in PipelineJobs : Rank(k) < Rank("batch") => Closed(k)
    <3>1. CASE marker["realtime"] # NoMarker
      BY <1>0, <2>1, <3>1, MarkedOutlasts DEF GateMarker
    <3>2. CASE wait["batch"] >= GateWait("batch")
      BY <1>0, <1>10, <3>2, GateOutlasts DEF BatchReports
    <3> QED BY <1>10, <3>1, <3>2 DEF BatchReports
  <2> QED BY <1>0, <1>8, <1>10, <2>2 DEF BatchReports, Ends
<1>11. CASE StopperGoesOn
  BY <1>0, <1>2, <1>11 DEF StopperGoesOn, GoesOn, Deleting
<1> QED BY <1>4, <1>5, <1>6, <1>7, <1>9, <1>10, <1>11 DEF Kind

LEMMA AloneStep ==
  ASSUME TypeOK, Submitted, Clocks, Marked, Alone, Kind
  PROVE  Alone'
<1>0. /\ PipelineJobs \subseteq JobIds /\ Profiles \subseteq PipelineJobs
      /\ "autostop" \notin PipelineJobs /\ "batch" \in PipelineJobs
  BY SheetsAssumption DEF PipelineJobs, JobIds, Profiles
<1>1. \A k \in PipelineJobs : Closed(k) => Closed(k)'
  BY ClosedStable
<1> USE DEF TypeOK, Alone, Passed
<1>2. ASSUME \A j \in PipelineJobs : Passed(j)' => Passed(j)
      PROVE  Alone'
  BY <1>1, <1>2
<1>3. ASSUME NEW j \in JobIds, NEW where, phase' = [phase EXCEPT ![j] = where],
             j \in PipelineJobs /\ where \in {"health", "load", "mark", "exit"} => Passed(j)
      PROVE  Alone'
  BY <1>0, <1>2, <1>3
<1>4. ASSUME NEW j \in JobIds, Submit(j) PROVE Alone'
  BY <1>3, <1>4 DEF Submit
<1>5. CASE GivesUp \/ Tick
  BY <1>2, <1>5 DEF GivesUp, Tick
<1>6. ASSUME NEW j \in PipelineJobs, EntersGate(j) \/ Works(j) PROVE Alone'
  BY <1>0, <1>3, <1>6 DEF EntersGate, Works, GoesOn
<1>7. ASSUME NEW j \in PipelineJobs, PassesGate(j) PROVE Alone'
  <2>1. \A k \in PipelineJobs : Rank(k) < Rank(j) => Closed(k)
    <3> SUFFICES ASSUME NEW k \in PipelineJobs, Rank(k) < Rank(j) PROVE Closed(k)
      OBVIOUS
    <3>1. CASE ~Gated(j)
      <4>1. k \notin Wanted
        BY <3>1, UngatedAlone
      <4> QED BY <1>0, <4>1 DEF Submitted, Closed
    <3>2. CASE phase[j] = "gate" /\ marker[GateMarker(j)] # NoMarker
      BY <3>2, MarkedOutlasts DEF Clocks
    <3>3. CASE phase[j] = "gate" /\ wait[j] >= GateWait(j)
      BY <3>3, GateOutlasts
    <3> QED BY <1>7, <3>1, <3>2, <3>3 DEF PassesGate
  <2>2. \A i \in JobIds : i # j => phase'[i] = phase[i]
    BY <1>7 DEF PassesGate, GoesOn
  <2> QED BY <1>0, <1>1, <2>1, <2>2
<1>8. ASSUME NEW j \in JobIds, EndsSilently(j) PROVE Alone'
  BY <1>3, <1>8 DEF EndsSilently, Ends
<1>9. ASSUME NEW p \in Profiles, WriteMarker(p) PROVE Alone'
  BY <1>0, <1>3, <1>9 DEF WriteMarker
<1>10. CASE BatchReports
  BY <1>0, <1>3, <1>10 DEF BatchReports, Ends
<1>11. CASE StopperGoesOn
  BY <1>0, <1>2, <1>11 DEF StopperGoesOn, GoesOn, Deleting
<1> QED BY <1>4, <1>5, <1>6, <1>7, <1>8, <1>9, <1>10, <1>11 DEF Kind

LEMMA BatchOnlyStep ==
  ASSUME TypeOK, Submitted, Clocks, Marked, BatchOnlyAfterSuccess, Kind
  PROVE  BatchOnlyAfterSuccess'
<1>0. /\ Gated("batch")' <=> Gated("batch")
      /\ PipelineJobs \subseteq JobIds /\ Profiles \subseteq PipelineJobs
      /\ "batch" \in Profiles /\ "realtime" \in Profiles /\ "batch" \notin SheetKeys
      /\ "realtime" # "batch" /\ "autostop" # "batch"
  BY KindLine, SameLine, SheetsAssumption DEF PipelineJobs, JobIds, Profiles
<1> USE DEF TypeOK, BatchOnlyAfterSuccess
<1>1. ASSUME marker'["realtime"] = marker["realtime"],
             phase'["batch"] \in {"health", "load", "mark", "exit"}
                => phase["batch"] \in {"health", "load", "mark", "exit"}
      PROVE  BatchOnlyAfterSuccess'
  BY <1>0, <1>1
<1>2. ASSUME NEW j \in JobIds, Submit(j) PROVE BatchOnlyAfterSuccess'
  BY <1>0, <1>1, <1>2 DEF Submit
<1>3. CASE GivesUp \/ Tick
  BY <1>1, <1>3 DEF GivesUp, Tick
<1>4. ASSUME NEW j \in PipelineJobs, EntersGate(j) \/ Works(j) PROVE BatchOnlyAfterSuccess'
  BY <1>0, <1>1, <1>4 DEF EntersGate, Works, GoesOn
<1>5. ASSUME NEW j \in PipelineJobs, PassesGate(j) PROVE BatchOnlyAfterSuccess'
  <2>1. CASE j = "batch"
    BY <1>0, <1>5, <2>1 DEF PassesGate, GoesOn, Clocks
  <2>2. CASE j # "batch"
    BY <1>0, <1>1, <1>5, <2>2 DEF PassesGate, GoesOn
  <2> QED BY <2>1, <2>2
<1>6. ASSUME NEW j \in JobIds, EndsSilently(j) PROVE BatchOnlyAfterSuccess'
  BY <1>0, <1>1, <1>6 DEF EndsSilently, Ends
<1>7. ASSUME NEW p \in Profiles, WriteMarker(p) PROVE BatchOnlyAfterSuccess'
  <2>1. CASE p = "batch"
    BY <1>0, <1>1, <1>7, <2>1 DEF WriteMarker
  <2>2. CASE p = "realtime"
    <3>1. marker["realtime"] = NoMarker
      BY <1>0, <1>7, <2>2 DEF WriteMarker, Marked
    <3> QED BY <1>0, <1>7, <2>2, <3>1 DEF WriteMarker, NoMarker
  <2> QED BY <2>1, <2>2 DEF Profiles
<1>8. CASE BatchReports
  BY <1>0, <1>1, <1>8 DEF BatchReports, Ends
<1>9. CASE StopperGoesOn
  BY <1>0, <1>1, <1>9 DEF StopperGoesOn, GoesOn, Deleting
<1> QED BY <1>2, <1>3, <1>4, <1>5, <1>6, <1>7, <1>8, <1>9 DEF Kind

LEMMA GateDeadlineStep ==
  ASSUME TypeOK, Submitted, Clocks, Clocks', GateDeadlineIsEnough, Kind
  PROVE  GateDeadlineIsEnough'
<1>0. /\ \A j : Gated(j)' <=> Gated(j)
      /\ \A j : GateMarker(j)' = GateMarker(j)
      /\ \A j : Deadline(j)' = Deadline(j)
      /\ PipelineJobs \subseteq JobIds /\ Profiles \subseteq PipelineJobs
      /\ "batch" \in Profiles /\ "autostop" \notin PipelineJobs
  BY KindLine, SameLine, SheetsAssumption DEF PipelineJobs, JobIds, Profiles
<1>a. KillLag \in Nat /\ (\A j : Deadline(j) \in Nat) /\ (\A j : GateWait(j) \in Nat)
  BY DeadlineType, GateWaitType, DurationsAssumption
<1>b. \A j \in PipelineJobs : phase[j] = "gate" =>
         GateMarker(j) \in Profiles /\ GateMarker(j) \in Wanted /\ Rank(GateMarker(j)) < Rank(j)
  BY GateMarkerBelow DEF Clocks, TypeOK
<1> USE DEF TypeOK, GateDeadlineIsEnough, Active, Terminal
<1>1. ASSUME UNCHANGED marker,
             \A j \in PipelineJobs : phase'[j] = "gate" /\ wait'[j] >= GateWait(j)
                => phase[j] = "gate" /\ wait[j] >= GateWait(j),
             \A p \in Profiles : Active(p)' => Active(p)
      PROVE  GateDeadlineIsEnough'
  BY <1>0, <1>1, <1>b
<1>2. ASSUME NEW j \in JobIds, Submit(j) PROVE GateDeadlineIsEnough'
  <2>1. \A i \in PipelineJobs : phase[i] = "gate" => GateMarker(i) # j
    BY <1>0, <1>2, <1>b DEF Submit, NextStep, Submitted
  <2>2. phase' = [phase EXCEPT ![j] = "pending"] /\ marker' = marker /\ wait' = wait
    BY <1>2 DEF Submit
  <2> QED BY <1>0, <1>b, <2>1, <2>2
<1>3. CASE GivesUp
  BY <1>1, <1>3 DEF GivesUp
<1>4. CASE Tick
  <2> SUFFICES ASSUME NEW j \in PipelineJobs, phase'[j] = "gate", wait'[j] >= GateWait(j)
               PROVE  ~Active(GateMarker(j))' /\ marker'[GateMarker(j)] = NoMarker
    BY <1>0
  <2>1. phase' = phase /\ marker' = marker /\ phase[j] = "gate"
    BY <1>4 DEF Tick
  <2>2. ~Active(GateMarker(j))'
    <3> SUFFICES ASSUME Active(GateMarker(j))' PROVE FALSE
      OBVIOUS
    <3>1. GateMarker(j) \in PipelineJobs /\ Rank(GateMarker(j)) < Rank(j) /\ Gated(j)
      BY <1>0, <1>b, <2>1 DEF Clocks
    <3>2. wait'[j] <= age'[j] /\ age'[j] <= age'[GateMarker(j)]
            /\ age'[GateMarker(j)] <= Deadline(GateMarker(j)) + KillLag
      BY <1>0, <2>1, <3>1 DEF Clocks
    <3>3. Deadline(GateMarker(j)) + KillLag < GateWait(j)
      BY <3>1, Margin
    <3>4. wait'[j] \in Int /\ age'[j] \in Int /\ age'[GateMarker(j)] \in Int
      BY <1>0, <1>4, <3>1 DEF Tick
    <3> QED BY <1>a, <3>2, <3>3, <3>4
  <2>3. marker[GateMarker(j)] = NoMarker
    BY <1>4, <2>1 DEF Tick, Due
  <2> QED BY <2>1, <2>2, <2>3
<1>5. ASSUME NEW j \in PipelineJobs, EntersGate(j) \/ PassesGate(j) \/ Works(j)
      PROVE  GateDeadlineIsEnough'
  <2>1. EntersGate(j) => wait'[j] = 0 /\ 0 < GateWait(j)
    <3>1. Gated(j) => 0 < GateWait(j)
      BY SheetsAssumption, DurationsAssumption, MarginsAssumption DEF Gated, GateWait, Profiles
    <3> QED BY <1>0, <3>1 DEF EntersGate
  <2>2. /\ marker' = marker /\ Active(j) /\ Active(j)'
        /\ \A i \in JobIds : i # j => phase'[i] = phase[i] /\ wait'[i] = wait[i]
        /\ phase'[j] = "gate" => EntersGate(j)
    BY <1>0, <1>5 DEF EntersGate, PassesGate, Works, GoesOn
  <2> QED BY <1>0, <1>1, <1>a, <2>1, <2>2
<1>6. ASSUME NEW j \in JobIds, EndsSilently(j) PROVE GateDeadlineIsEnough'
  <2>1. /\ marker' = marker /\ ~Active(j)' /\ phase'[j] # "gate"
        /\ \A i \in JobIds : i # j => phase'[i] = phase[i] /\ wait'[i] = wait[i]
    BY <1>6 DEF EndsSilently, Ends
  <2> QED BY <1>0, <1>1, <2>1
<1>7. ASSUME NEW p \in Profiles, Active(p), phase'[p] # "gate",
             \A i \in JobIds : i # p => phase'[i] = phase[i] /\ wait'[i] = wait[i],
             \A i \in Profiles : i # p => marker'[i] = marker[i]
      PROVE  GateDeadlineIsEnough'
  <2>1. \A j \in PipelineJobs : phase[j] = "gate" /\ wait[j] >= GateWait(j) => GateMarker(j) # p
    BY <1>7
  <2> QED BY <1>0, <1>7, <1>b, <2>1
<1>8. ASSUME NEW p \in Profiles, WriteMarker(p) PROVE GateDeadlineIsEnough'
  BY <1>0, <1>7, <1>8 DEF WriteMarker
<1>9. CASE BatchReports
  BY <1>0, <1>7, <1>9 DEF BatchReports, Ends
<1>10. CASE StopperGoesOn
  <2>1. "autostop" \in JobIds /\ "autostop" \notin Profiles
    BY DEF JobIds, Profiles
  <2> QED BY <1>0, <1>1, <1>10, <2>1 DEF StopperGoesOn, GoesOn, Deleting
<1> QED BY <1>2, <1>3, <1>4, <1>5, <1>6, <1>8, <1>9, <1>10 DEF Kind

LEMMA NextIInv == IInv /\ [Next]_vars => IInv'
<1> SUFFICES ASSUME IInv, [Next]_vars PROVE IInv'
  OBVIOUS
<1> USE DEF IInv
<1>1. Kind /\ TypeOK'
  BY StepKind, NextType DEF Submitted
<1>2. Submitted' /\ Clocks'
  BY <1>1, SubmittedStep, ClocksStep
<1>3. Marked' /\ Alone' /\ BatchOnlyAfterSuccess'
  BY <1>1, MarkedStep, AloneStep, BatchOnlyStep
<1>4. GateDeadlineIsEnough'
  BY <1>1, <1>2, GateDeadlineStep
<1> QED BY <1>1, <1>2, <1>3, <1>4

LEMMA InductiveInvariant == Spec => []IInv
  BY InitIInv, NextIInv, PTL DEF Spec

-------------------------------------------------------------------------------
(* What the invariant gives.                                               *)

(* A Job past its gate leaves nothing behind it that may still load the    *)
(* endpoint, whatever fails.                                               *)
THEOREM PastGateCorrect == Spec => []PastGateIsAlone
<1>1. IInv => PastGateIsAlone
  BY DEF IInv, Alone, Passed, PastGateIsAlone, UsesModel
<1> QED BY <1>1, InductiveInvariant, PTL

(* Batch, when it follows realtime, only ever runs after its success.      *)
THEOREM BatchOnlyCorrect == Spec => []BatchOnlyAfterSuccess
<1>1. IInv => BatchOnlyAfterSuccess
  BY DEF IInv
<1> QED BY <1>1, InductiveInvariant, PTL

(* The deadlines' margins are wide enough: a gate only ever gives up on a  *)
(* stage that is over and has left no marker.                              *)
THEOREM GateDeadlineCorrect == Spec => []GateDeadlineIsEnough
<1>1. IInv => GateDeadlineIsEnough
  BY DEF IInv
<1> QED BY <1>1, InductiveInvariant, PTL

LEMMA InitOrder == Init => Order!Init
<1> SUFFICES ASSUME Init PROVE Order!Init
  OBVIOUS
<1>1. PipelineJobs \subseteq JobIds
  BY DEF PipelineJobs, JobIds
<1>2. \A j \in PipelineJobs : StageStatus[j] \in {"open", "closed"}
  BY <1>1 DEF Init, StageStatus, Loading
<1>3. StageStatus = [j \in PipelineJobs |-> StageStatus[j]]
  BY DEF StageStatus
<1> QED BY <1>2, <1>3 DEF Order!Init

(* A step maps to a stage that begins, to stages that close, or to nothing. *)
LEMMA NextOrder == IInv /\ [Next]_vars => [Order!Next]_StageStatus
<1> SUFFICES ASSUME IInv, [Next]_vars PROVE [Order!Next]_StageStatus
  OBVIOUS
<1>0. /\ TypeOK /\ Submitted /\ Kind /\ Wanted' = Wanted
      /\ PipelineJobs \subseteq JobIds /\ Profiles \subseteq PipelineJobs
      /\ "autostop" \notin PipelineJobs /\ "batch" \in PipelineJobs
  BY StepKind, KindLine, SameLine, SheetsAssumption
     DEF IInv, Submitted, PipelineJobs, JobIds, Profiles
<1> USE DEF Loading, TypeOK
<1>1. \A k \in PipelineJobs : Closed(k) => Closed(k)'
  BY <1>0, ClosedStable
<1>2. ASSUME \A k \in PipelineJobs : StageStatus'[k] \in {StageStatus[k], "closed"}
      PROVE  Order!Next
  <2> DEFINE S == {k \in PipelineJobs : StageStatus'[k] # StageStatus[k]}
  <2>1. StageStatus' = [k \in PipelineJobs |-> IF k \in S THEN "closed" ELSE StageStatus[k]]
    <3>1. StageStatus' = [k \in PipelineJobs |-> StageStatus'[k]]
      BY DEF StageStatus
    <3> QED BY <1>2, <3>1
  <2> QED BY <2>1 DEF Order!Next, Order!Close
<1>3. ASSUME \A k \in PipelineJobs : phase'[k] = "load" => phase[k] = "load",
             \A k \in PipelineJobs : phase[k] = "load" /\ phase'[k] # "load" => Closed(k)'
      PROVE  Order!Next
  <2>1. \A k \in PipelineJobs : StageStatus'[k] \in {StageStatus[k], "closed"}
    BY <1>1, <1>3 DEF StageStatus
  <2> QED BY <1>2, <2>1
<1>4. ASSUME NEW j \in JobIds, NEW where, phase' = [phase EXCEPT ![j] = where],
             where # "load",
             phase[j] = "load" => where \in {"mark", "exit", "complete", "failed"}
      PROVE  Order!Next
  BY <1>0, <1>3, <1>4 DEF Closed
<1>5. ASSUME NEW j \in JobIds, Submit(j) PROVE Order!Next
  <2>1. phase[j] = "absent"
    BY <1>0, <1>5 DEF Submit, NextStep, Submitted
  <2> QED BY <1>4, <1>5, <2>1 DEF Submit
<1>6. CASE GivesUp \/ Tick
  BY <1>3, <1>6 DEF GivesUp, Tick
<1>7. ASSUME NEW j \in PipelineJobs, EntersGate(j) \/ PassesGate(j) PROVE Order!Next
  BY <1>0, <1>4, <1>7 DEF EntersGate, PassesGate, GoesOn
<1>8. ASSUME NEW j \in PipelineJobs, Works(j) PROVE Order!Next
  <2>1. CASE phase[j] = "health" /\ GoesOn(j, "load")
    <3>1. StageStatus[j] = "open"
      BY <2>1 DEF StageStatus, Closed
    <3>2. \A k \in PipelineJobs : Rank(k) < Rank(j) => StageStatus[k] = "closed"
      BY <2>1 DEF IInv, Alone, Passed, StageStatus, Closed
    <3>3. StageStatus' = [StageStatus EXCEPT ![j] = "loading"]
      <4>1. /\ tried' = tried
            /\ \A k \in PipelineJobs : phase'[k] = IF k = j THEN "load" ELSE phase[k]
        BY <1>0, <2>1 DEF GoesOn
      <4>2. \A k \in PipelineJobs : k # j => StageStatus'[k] = StageStatus[k]
        BY <1>0, <4>1 DEF StageStatus, Closed
      <4>3. StageStatus'[j] = "loading"
        BY <4>1 DEF StageStatus
      <4> QED BY <4>2, <4>3 DEF StageStatus
    <3> QED BY <3>1, <3>2, <3>3 DEF Order!Next, Order!Begin
  <2>2. CASE phase[j] \in {"health", "load"} /\ GoesOn(j, "mark")
    BY <1>0, <1>4, <2>2 DEF GoesOn
  <2>3. CASE phase[j] = "mark" /\ GoesOn(j, "exit")
    BY <1>0, <1>4, <2>3 DEF GoesOn
  <2> QED BY <1>8, <2>1, <2>2, <2>3 DEF Works
<1>9. ASSUME NEW j \in JobIds, EndsSilently(j) PROVE Order!Next
  BY <1>4, <1>9 DEF EndsSilently, Ends
<1>10. ASSUME NEW p \in Profiles, WriteMarker(p) PROVE Order!Next
  BY <1>0, <1>4, <1>10 DEF WriteMarker
<1>11. CASE BatchReports
  BY <1>0, <1>4, <1>11 DEF BatchReports, Ends
<1>12. CASE StopperGoesOn
  BY <1>0, <1>3, <1>12 DEF StopperGoesOn, GoesOn, Deleting
<1> QED BY <1>0, <1>5, <1>6, <1>7, <1>8, <1>9, <1>10, <1>11, <1>12 DEF Kind

(* The pipeline implements StageOrder: its stages load the endpoint in     *)
(* order, whatever fails and whenever the command line stops submitting.   *)
THEOREM StagesInOrderCorrect == Spec => StagesInOrder
<1>1. StagesInOrder <=> Order!Init /\ [][Order!Next]_StageStatus
  BY DEF StagesInOrder, Order!Spec
<1> QED BY <1>1, InitOrder, NextOrder, InductiveInvariant, PTL DEF Spec

-----------------------------------------------------------------------------
(* THE AUTO-STOP                                                           *)

(* The auto-stop is submitted last, and its clocks are the youngest.       *)
StopperLast ==
    phase["autostop"] # "absent" =>
        /\ tried = Wanted
        /\ \A j \in PipelineJobs : Active(j) /\ Active("autostop") => age["autostop"] <= age[j]
        /\ phase["autostop"] = "poll" => wait["autostop"] <= age["autostop"]

(* Unless a gate breaks, a Job ends only when those below it are closed.   *)
EndsInOrder ==
    \A j, k \in PipelineJobs : Terminal(j) /\ Rank(k) < Rank(j) => Closed(k)

(* Once the poll is over so is the pipeline.                               *)
StopsLate ==
    phase["autostop"] \in Deleting => PipelineOver

SInv == IInv /\ StopperLast /\ EndsInOrder /\ StopsLate

(* A Job outlives every stage below it, by its deadline alone.             *)
LEMMA DeadlineMargin ==
  ASSUME NEW j \in PipelineJobs, NEW k \in PipelineJobs, inv \in Invocations,
         Gated(j), Rank(k) < Rank(j)
  PROVE  Deadline(k) + KillLag < Deadline(j)
<1>1. CASE j = "batch"
  BY <1>1, SheetsAssumption, DurationsAssumption, MarginsAssumption
     DEF Rank, Deadline, PipelineJobs, Profiles, Gated
<1>2. CASE j \in SheetKeys
  BY <1>2, SheetsAssumption, DurationsAssumption, MarginsAssumption
     DEF Rank, Deadline, PipelineJobs, Profiles, Gated
<1> QED BY <1>1, <1>2 DEF Gated

LEMMA AutoStopMargin ==
  ASSUME NEW j \in PipelineJobs
  PROVE  Deadline(j) + KillLag < AutoStopDeadline
  BY SheetsAssumption, DurationsAssumption, MarginsAssumption
     DEF Deadline, PipelineJobs, Profiles

LEMMA StopperLastStep ==
  ASSUME TypeOK, Submitted, Clocks, StopperLast, Kind
  PROVE  StopperLast'
<1>0. /\ Wanted' = Wanted
      /\ PipelineJobs \subseteq JobIds /\ Profiles \subseteq PipelineJobs
      /\ "autostop" \in JobIds /\ "autostop" \notin PipelineJobs /\ "batch" \in PipelineJobs
  BY KindLine, SameLine, SheetsAssumption DEF PipelineJobs, JobIds, Profiles
<1> USE DEF TypeOK, StopperLast, Active, Terminal
<1>1. ASSUME NEW j \in JobIds, Submit(j) PROVE StopperLast'
  <2>1. CASE j = "autostop"
    <3>1. \A k \in Wanted : Rank(k) < 5 => k \in tried
      BY <1>1, <2>1, RankType, SheetsAssumption DEF Submit, NextStep, Rank
    <3>2. \A k \in Wanted : k # "autostop" => Rank(k) < 5
      BY <1>0, WantedType, SheetsAssumption DEF Rank, JobIds, PipelineJobs, Profiles
    <3>3. tried' = Wanted /\ phase["autostop"] = "absent" /\ age["autostop"] = 0
      BY <1>0, <1>1, <2>1, <3>1, <3>2 DEF Submit, NextStep, Submitted, Clocks
    <3> QED BY <1>0, <1>1, <2>1, <3>3 DEF Submit
  <2>2. CASE j # "autostop"
    <3>1. phase["autostop"] = "absent"
      BY <1>0, <1>1, <2>2 DEF Submit, NextStep
    <3> QED BY <1>0, <1>1, <2>2, <3>1 DEF Submit
  <2> QED BY <2>1, <2>2
<1>2. CASE GivesUp
  BY <1>0, <1>2 DEF GivesUp, Submitted
<1>3. CASE Tick
  <2>1. /\ phase' = phase /\ tried' = tried
        /\ \A j \in JobIds : age'[j] = IF Active(j) THEN age[j] + 1 ELSE age[j]
        /\ \A j \in JobIds : wait'[j] \in {wait[j], wait[j] + 1}
    BY <1>3 DEF Tick
  <2> QED BY <1>0, <2>1
<1>4. ASSUME NEW j \in PipelineJobs, NEW where, GoesOn(j, where), Active(j) PROVE StopperLast'
  <2>1. /\ age' = age /\ tried' = tried
        /\ phase'["autostop"] = phase["autostop"] /\ wait'["autostop"] = wait["autostop"]
        /\ \A i \in PipelineJobs : Active(i)' => Active(i)
    BY <1>0, <1>4 DEF GoesOn
  <2> QED BY <1>0, <2>1
<1>5. ASSUME NEW j \in JobIds, NEW outcome, Ends(j, outcome) PROVE StopperLast'
  <2>1. /\ tried' = tried /\ outcome \in {"complete", "failed"} /\ Active(j)
        /\ \A i \in JobIds : phase'[i] = IF i = j THEN outcome ELSE phase[i]
        /\ \A i \in JobIds : i # j => wait'[i] = wait[i] /\ age'[i] = age[i]
    BY <1>5 DEF Ends
  <2> QED BY <1>0, <2>1
<1>6. ASSUME NEW j \in PipelineJobs, EntersGate(j) \/ PassesGate(j) \/ Works(j) PROVE StopperLast'
  BY <1>4, <1>6 DEF EntersGate, PassesGate, Works
<1>7. ASSUME NEW p \in Profiles, WriteMarker(p) PROVE StopperLast'
  <2>1. /\ age' = age /\ wait' = wait /\ tried' = tried
        /\ phase[p] = "mark" /\ phase' = [phase EXCEPT ![p] = "exit"]
    BY <1>7 DEF WriteMarker
  <2> QED BY <1>0, <2>1
<1>8. CASE StopperGoesOn
  BY <1>0, <1>8 DEF StopperGoesOn, GoesOn
<1> QED BY <1>0, <1>1, <1>2, <1>3, <1>5, <1>6, <1>7, <1>8 DEF Kind, EndsSilently, BatchReports

LEMMA EndsInOrderStep ==
  ASSUME "gate" \notin Faults, IInv, EndsInOrder, Kind
  PROVE  EndsInOrder'
<1>0. /\ PipelineJobs \subseteq JobIds /\ Profiles \subseteq PipelineJobs
      /\ "autostop" \notin PipelineJobs /\ "batch" \in PipelineJobs
      /\ TypeOK /\ Submitted /\ Clocks /\ Marked /\ Alone
  BY SheetsAssumption DEF PipelineJobs, JobIds, Profiles, IInv
<1>1. \A k \in PipelineJobs : Closed(k) => Closed(k)'
  BY <1>0, ClosedStable
<1> USE DEF TypeOK, EndsInOrder, Terminal
<1>2. ASSUME \A j \in PipelineJobs : Terminal(j)' => Terminal(j)
      PROVE  EndsInOrder'
  BY <1>1, <1>2
<1>3. ASSUME NEW j \in JobIds, NEW where, phase' = [phase EXCEPT ![j] = where],
             j \in PipelineJobs => where \notin {"complete", "failed"}
      PROVE  EndsInOrder'
  BY <1>0, <1>2, <1>3
<1>4. ASSUME NEW j \in PipelineJobs, NEW outcome, Ends(j, outcome),
             \A k \in PipelineJobs : Rank(k) < Rank(j) => Closed(k)
      PROVE  EndsInOrder'
  <2>1. \A i \in PipelineJobs : i # j => phase'[i] = phase[i]
    BY <1>0, <1>4 DEF Ends
  <2> QED BY <1>1, <1>4, <2>1
<1>5. ASSUME NEW j \in JobIds, Submit(j) PROVE EndsInOrder'
  BY <1>3, <1>5 DEF Submit
<1>6. CASE GivesUp \/ Tick
  BY <1>2, <1>6 DEF GivesUp, Tick
<1>7. ASSUME NEW j \in PipelineJobs, EntersGate(j) \/ PassesGate(j) \/ Works(j) PROVE EndsInOrder'
  BY <1>0, <1>3, <1>7 DEF EntersGate, PassesGate, Works, GoesOn
<1>8. ASSUME NEW j \in JobIds, EndsSilently(j) PROVE EndsInOrder'
  <2>1. CASE j = "autostop"
    BY <1>0, <1>3, <1>8, <2>1 DEF EndsSilently, Ends
  <2>2. CASE j \in PipelineJobs
    <3>1. \A k \in PipelineJobs : Rank(k) < Rank(j) => Closed(k)
      <4> SUFFICES ASSUME NEW k \in PipelineJobs, Rank(k) < Rank(j) PROVE Closed(k)
        OBVIOUS
      <4>1. CASE Passed(j)
        BY <1>0, <2>2, <4>1 DEF Alone
      <4>2. CASE ~Gated(j)
        <5>1. k \notin Wanted
          BY <1>0, <2>2, <4>2, UngatedAlone
        <5> QED BY <1>0, <5>1 DEF Submitted, Closed
      <4>3. CASE ~Passed(j) /\ Gated(j)
        <5>1. Active(j) /\ age[j] >= Deadline(j) /\ Deadline(k) + KillLag < Deadline(j)
          BY <1>0, <1>8, <2>2, <4>3, DeadlineMargin DEF EndsSilently, Ends
        <5>2. ~Active(k)
          BY <1>0, <2>2, <5>1, DeadlineType, DurationsAssumption DEF Clocks
        <5> QED BY <1>0, <2>2, <5>1, <5>2 DEF Submitted, Active, Closed
      <4> QED BY <4>1, <4>2, <4>3
    <3> QED BY <1>4, <1>8, <2>2, <3>1 DEF EndsSilently
  <2> QED BY <2>1, <2>2, SheetsAssumption DEF JobIds, PipelineJobs
<1>9. ASSUME NEW p \in Profiles, WriteMarker(p) PROVE EndsInOrder'
  BY <1>0, <1>3, <1>9 DEF WriteMarker
<1>10. CASE BatchReports
  <2>1. Gated("batch") /\ phase["batch"] = "gate"
    BY <1>0, <1>10 DEF BatchReports, Clocks
  <2>2. \A k \in PipelineJobs : Rank(k) < Rank("batch") => Closed(k)
    <3>1. CASE marker["realtime"] # NoMarker
      BY <1>0, <2>1, <3>1, MarkedOutlasts DEF GateMarker
    <3>2. CASE wait["batch"] >= GateWait("batch")
      BY <1>0, <2>1, <3>2, GateOutlasts
    <3> QED BY <1>10, <3>1, <3>2 DEF BatchReports
  <2> QED BY <1>0, <1>4, <1>10, <2>2 DEF BatchReports
<1>11. CASE StopperGoesOn
  BY <1>0, <1>2, <1>11 DEF StopperGoesOn, GoesOn
<1> QED BY <1>5, <1>6, <1>7, <1>8, <1>9, <1>10, <1>11 DEF Kind

(* What the poll takes for the end of the pipeline is its end.             *)
LEMMA FinishedIsOver ==
  ASSUME SInv, phase["autostop"] = "poll", LooksFinished
  PROVE  PipelineOver
<1>0. /\ TypeOK /\ Submitted /\ EndsInOrder /\ tried = Wanted
      /\ PipelineJobs \subseteq JobIds /\ Profiles \subseteq PipelineJobs
      /\ SheetKeys \subseteq PipelineJobs
  BY DEF SInv, IInv, StopperLast, PipelineJobs, JobIds
<1>1. \A j \in PipelineJobs : phase[j] = "absent" \/ Terminal(j) => Closed(j)
  BY <1>0 DEF Closed, Terminal
<1>2. CASE inv.sheets # {}
  <2>1. ExpectedJobs \in Nat \ {0}
    <3>1. CASE inv.sheetArgs = 0
      <4>1. SheetKeys # {} /\ IsFiniteSet(SheetKeys)
        BY <1>0, <1>2, <3>1, InvocationsAssumption, SheetsAssumption DEF TypeOK, Invocation
      <4> QED BY <3>1, <4>1, FS_EmptySet, FS_CardinalityType DEF ExpectedJobs
    <3>2. CASE inv.sheetArgs # 0
      BY <1>0, <3>2, InvocationsAssumption DEF ExpectedJobs, TypeOK, Invocation
    <3> QED BY <3>1, <3>2
  <2>2. Cardinality(MatchedJobs) >= ExpectedJobs /\ \A s \in MatchedJobs : Terminal(s)
    BY <1>2 DEF LooksFinished
  <2>3. MatchedJobs # {}
    BY <2>1, <2>2, FS_EmptySet
  <2>4. PICK s \in SheetKeys : s \in MatchedJobs /\ inv.tagged
    BY <2>3 DEF MatchedJobs
  <2>5. \A p \in Profiles : Closed(p)
    BY <1>0, <2>2, <2>4, SheetsAssumption DEF EndsInOrder, Rank, Profiles
  <2>6. \A t \in SheetKeys : Closed(t)
    BY <1>0, <1>1, <2>2, <2>4 DEF MatchedJobs
  <2> QED BY <2>5, <2>6 DEF PipelineOver, PipelineJobs
<1>3. CASE inv.sheets = {}
  <2>1. LastProfile \in Profiles /\ Terminal(LastProfile)
    BY <1>3 DEF LooksFinished, LastProfile, Profiles
  <2>2. \A j \in PipelineJobs : j \notin Wanted => Closed(j)
    BY <1>0, <1>1 DEF Submitted
  <2>3. \A s \in SheetKeys : s \notin Wanted
    BY <1>0, <1>3, LineType, SheetsAssumption DEF Wanted, TypeOK, Profiles
  <2>4. ASSUME NEW p \in Profiles PROVE Closed(p)
    <3>1. CASE p = LastProfile \/ Rank(p) < Rank(LastProfile)
      BY <1>0, <1>1, <2>1, <3>1 DEF EndsInOrder
    <3>2. CASE p # LastProfile /\ ~(Rank(p) < Rank(LastProfile))
      <4>1. p = "batch" /\ "batch" \notin inv.bench
        BY <3>2 DEF Rank, LastProfile, Profiles
      <4> QED BY <1>0, <1>3, <2>2, <4>1, SheetsAssumption DEF Wanted, Profiles
    <3> QED BY <3>1, <3>2
  <2> QED BY <1>0, <2>2, <2>3, <2>4 DEF PipelineOver, PipelineJobs
<1> QED BY <1>2, <1>3

(* At the end of its loop the auto-stop has outlasted the pipeline.        *)
LEMMA TimeoutIsOver ==
  ASSUME SInv, phase["autostop"] = "poll", wait["autostop"] >= AutoStopDeadline
  PROVE  PipelineOver
<1>0. TypeOK /\ Submitted /\ Clocks /\ tried = Wanted /\ PipelineJobs \subseteq JobIds
        /\ Active("autostop") /\ "autostop" \in JobIds
  BY DEF SInv, IInv, StopperLast, PipelineJobs, JobIds, Active, Terminal
<1> SUFFICES ASSUME NEW j \in PipelineJobs PROVE Closed(j)
  BY DEF PipelineOver
<1>1. CASE Active(j)
  <2>1. /\ wait["autostop"] <= age["autostop"] /\ age["autostop"] <= age[j]
        /\ age[j] <= Deadline(j) + KillLag
    BY <1>0, <1>1 DEF SInv, StopperLast, Clocks
  <2>2. Deadline(j) + KillLag < AutoStopDeadline
    BY AutoStopMargin
  <2> QED BY <1>0, <2>1, <2>2, DeadlineType, DurationsAssumption DEF TypeOK
<1>2. CASE ~Active(j)
  BY <1>0, <1>2 DEF Active, Terminal, Closed
<1> QED BY <1>1, <1>2

LEMMA StopsLateStep ==
  ASSUME SInv, Kind
  PROVE  StopsLate'
<1>0. /\ PipelineJobs \subseteq JobIds /\ Profiles \subseteq PipelineJobs
      /\ "autostop" \notin PipelineJobs /\ "batch" \in PipelineJobs
      /\ TypeOK /\ Submitted
  BY SheetsAssumption DEF PipelineJobs, JobIds, Profiles, SInv, IInv
<1>1. PipelineOver => PipelineOver'
  BY <1>0, ClosedStable DEF PipelineOver
<1> USE DEF TypeOK, StopsLate
<1>2. ASSUME phase'["autostop"] \in Deleting => phase["autostop"] \in Deleting
      PROVE  StopsLate'
  BY <1>1, <1>2 DEF SInv
<1>3. ASSUME NEW j \in JobIds, NEW where, phase' = [phase EXCEPT ![j] = where],
             where \notin Deleting
      PROVE  StopsLate'
  BY <1>0, <1>2, <1>3
<1>4. ASSUME NEW j \in JobIds, Submit(j) PROVE StopsLate'
  BY <1>3, <1>4 DEF Submit, Deleting
<1>5. CASE GivesUp \/ Tick
  BY <1>2, <1>5 DEF GivesUp, Tick
<1>6. ASSUME NEW j \in PipelineJobs, EntersGate(j) \/ PassesGate(j) \/ Works(j) PROVE StopsLate'
  BY <1>0, <1>3, <1>6 DEF EntersGate, PassesGate, Works, GoesOn, Deleting
<1>7. ASSUME NEW j \in JobIds, EndsSilently(j) PROVE StopsLate'
  BY <1>3, <1>7 DEF EndsSilently, Ends, Deleting
<1>8. ASSUME NEW p \in Profiles, WriteMarker(p) PROVE StopsLate'
  BY <1>0, <1>3, <1>8 DEF WriteMarker, Deleting
<1>9. CASE BatchReports
  BY <1>0, <1>3, <1>9 DEF BatchReports, Ends, Deleting
<1>10. CASE StopperGoesOn
  <2>1. CASE phase["autostop"] \in Deleting
    BY <1>2, <2>1
  <2>2. CASE phase'["autostop"] \notin Deleting
    BY <1>2, <2>2
  <2>3. CASE phase["autostop"] \notin Deleting /\ phase'["autostop"] \in Deleting
    <3>1. PipelineOver
      BY <1>0, <1>10, <2>3, FinishedIsOver, TimeoutIsOver DEF StopperGoesOn, GoesOn, JobIds
    <3> QED BY <1>1, <3>1
  <2> QED BY <2>1, <2>2, <2>3
<1> QED BY <1>4, <1>5, <1>6, <1>7, <1>8, <1>9, <1>10 DEF Kind

LEMMA InitSInv == Init => SInv
<1> SUFFICES ASSUME Init PROVE SInv
  OBVIOUS
<1>1. \A j \in JobIds : phase[j] = "absent"
  BY DEF Init
<1>2. StopperLast /\ EndsInOrder /\ StopsLate
  BY <1>1 DEF StopperLast, EndsInOrder, StopsLate, Terminal, Deleting, PipelineJobs, JobIds
<1> QED BY <1>2, InitIInv DEF SInv

LEMMA NextSInv == "gate" \notin Faults /\ SInv /\ [Next]_vars => SInv'
<1> SUFFICES ASSUME "gate" \notin Faults, SInv, [Next]_vars PROVE SInv'
  OBVIOUS
<1> USE DEF SInv
<1>1. IInv' /\ Kind
  BY NextIInv, StepKind DEF IInv, Submitted
<1>2. StopperLast' /\ EndsInOrder' /\ StopsLate'
  BY <1>1, StopperLastStep, EndsInOrderStep, StopsLateStep DEF IInv
<1> QED BY <1>1, <1>2

(* Without a broken gate the auto-stop waits for the end of its pipeline:  *)
(* it deletes the Deployment only when no Job needs the endpoint any more, *)
(* whether it saw the end or ran into its own deadline.                    *)
THEOREM StopsAfterPipelineCorrect ==
  ASSUME "gate" \notin Faults
  PROVE  Spec => StopsAfterPipeline
<1>1. SInv /\ [Next]_vars =>
        [phase["autostop"] = "delDeployment" /\ phase'["autostop"] = "delService"
           => PipelineOver]_vars
  BY DEF SInv, StopsLate, Deleting
<1>2. Spec => []SInv
  BY InitSInv, NextSInv, PTL DEF Spec
<1> QED BY <1>1, <1>2, PTL DEF Spec, StopsAfterPipeline

-------------------------------------------------------------------------------
(* What the auto-stop sees.                                                *)

(* The line is tagged and gives as many --quality-sheet flags as there are *)
(* sheets to evaluate, or none for all of them.                            *)
OneFlagPerSheet(i) == i.tagged /\ i.sheetArgs \in {0, Cardinality(i.sheets)}

(* The quality Jobs the poll matches are those of the line once all are    *)
(* submitted, and it waits for as many.                                    *)
LEMMA ExpectedAreMatched ==
  ASSUME TypeOK, Submitted, OneFlagPerSheet(inv), inv.sheets # {},
         \A s \in inv.sheets : phase[s] # "absent"
  PROVE  MatchedJobs = inv.sheets /\ Cardinality(MatchedJobs) >= ExpectedJobs
<1>0. inv.sheets \subseteq SheetKeys /\ inv \in Invocation
  BY LineType, InvocationsAssumption DEF TypeOK
<1>1. \A s \in SheetKeys : phase[s] # "absent" => s \in inv.sheets
  BY LineType, SheetsAssumption
     DEF TypeOK, Submitted, Wanted, JobIds, PipelineJobs, Profiles
<1>2. MatchedJobs = inv.sheets
  BY <1>0, <1>1 DEF MatchedJobs, OneFlagPerSheet
<1>3. IsFiniteSet(inv.sheets) /\ Cardinality(inv.sheets) \in Nat
  BY <1>0, SheetsAssumption, FS_Subset, FS_CardinalityType
<1>4. ExpectedJobs = Cardinality(inv.sheets)
  BY <1>0 DEF OneFlagPerSheet, ExpectedJobs, Invocation
<1> QED BY <1>2, <1>3, <1>4

(* A command line that tags its run and names each sheet at most once is   *)
(* one whose auto-stop sees the end: it does not sit out its 14 hours      *)
(* after the last Job of the pipeline is over.                             *)
THEOREM EndIsSeenCorrect ==
  ASSUME \A i \in Invocations : OneFlagPerSheet(i)
  PROVE  Spec => []EndIsSeen
<1>1. IInv => EndIsSeen
  <2> SUFFICES ASSUME IInv, phase["autostop"] = "poll",
                      \A j \in PipelineJobs \cap Wanted : Terminal(j)
               PROVE  LooksFinished
    BY DEF EndIsSeen
  <2>0. /\ TypeOK /\ Submitted /\ OneFlagPerSheet(inv)
        /\ inv.bench \subseteq Profiles /\ inv.sheets \subseteq SheetKeys
    BY LineType DEF IInv, TypeOK
  <2>1. "autostop" \in Wanted
    BY <2>0 DEF Submitted, JobIds
  <2>2. inv.bench # {} \/ inv.sheets # {}
    BY <2>0, <2>1, SheetsAssumption DEF Wanted, Profiles
  <2>3. CASE inv.sheets # {}
    <3>1. \A s \in inv.sheets : Terminal(s)
      BY <2>0 DEF Wanted, PipelineJobs
    <3>2. MatchedJobs = inv.sheets /\ Cardinality(MatchedJobs) >= ExpectedJobs
      BY <2>0, <2>3, <3>1, ExpectedAreMatched DEF Terminal
    <3> QED BY <2>3, <3>1, <3>2 DEF LooksFinished
  <2>4. CASE inv.sheets = {}
    <3>1. LastProfile \in inv.bench
      BY <2>0, <2>2, <2>4 DEF LastProfile, Profiles
    <3> QED BY <2>0, <2>4, <3>1 DEF LooksFinished, Wanted, PipelineJobs
  <2> QED BY <2>3, <2>4
<1> QED BY <1>1, InductiveInvariant, PTL

-------------------------------------------------------------------------------
(* What the auto-stop leaves behind.                                       *)

(* Its first pod keeps within the deadlines of its phases, so that the Job *)
(* never reaches its own.                                                  *)
StopperOnTime ==
    /\ phase["autostop"] \in {"absent", "pending", "poll", "complete"} \cup Deleting
    /\ pods \in {0, 1}
    /\ phase["autostop"] = "absent" => wait["autostop"] = 0
    /\ phase["autostop"] = "pending" =>
          age["autostop"] = wait["autostop"] /\ wait["autostop"] <= StartDelay
    /\ phase["autostop"] = "poll" =>
          /\ wait["autostop"] <= AutoStopDeadline
          /\ age["autostop"] <= StartDelay + wait["autostop"]
    /\ phase["autostop"] \in Deleting => age["autostop"] <= StartDelay + AutoStopDeadline

(* What is past its delete is gone.                                        *)
DeletedInOrder ==
    /\ phase["autostop"] \in {"delService", "delPvc", "complete"} => model = "deleted"
    /\ phase["autostop"] \in {"delPvc", "complete"} => "service" \notin leftover
    /\ phase["autostop"] = "complete" => "pvc" \notin leftover

StopperInv == IInv /\ StopperOnTime /\ DeletedInOrder

(* The steps that leave the auto-stop and what it deletes alone.           *)
LeavesStopper ==
    /\ phase'["autostop"] = phase["autostop"] /\ age'["autostop"] = age["autostop"]
    /\ wait'["autostop"] = wait["autostop"] /\ pods' = pods /\ leftover' = leftover
    /\ model' = model \/ (model = "starting" /\ model' = "ready")

LEMMA OthersLeaveStopper ==
  ASSUME TypeOK
  PROVE  /\ \A j \in JobIds : j # "autostop" /\ (Submit(j) \/ DeadlineExceeded(j)) => LeavesStopper
         /\ (\E j \in JobIds : SubmitFails(j)) \/ FollowEnds \/ CloseTerminal => LeavesStopper
         /\ \A j \in PipelineJobs : Runner(j) \/ PodLost(j) \/ GateFails(j) => LeavesStopper
         /\ ModelReady \/ UNCHANGED vars => LeavesStopper
<1>0. /\ PipelineJobs \subseteq JobIds /\ Profiles \subseteq PipelineJobs
      /\ "autostop" \in JobIds /\ "batch" \in PipelineJobs /\ "autostop" \notin PipelineJobs
  BY SheetsAssumption DEF PipelineJobs, JobIds, Profiles
<1> USE DEF TypeOK, LeavesStopper
<1>1. ASSUME NEW j \in JobIds, j # "autostop", Submit(j) \/ DeadlineExceeded(j)
      PROVE  LeavesStopper
  BY <1>0, <1>1 DEF Submit, DeadlineExceeded, Finish
<1>2. ASSUME (\E j \in JobIds : SubmitFails(j)) \/ FollowEnds \/ CloseTerminal
      PROVE  LeavesStopper
  BY <1>2 DEF SubmitFails, FollowEnds, CloseTerminal
<1>3. ASSUME NEW j \in PipelineJobs, Runner(j) \/ PodLost(j) \/ GateFails(j)
      PROVE  LeavesStopper
  <2>1. CASE PodStarts(j) \/ GateOpens(j) \/ QualityGateTimesOut(j) \/ ModelHealthy(j)
    BY <1>0, <2>1 DEF PodStarts, GateOpens, QualityGateTimesOut, ModelHealthy, MoveTo
  <2>2. CASE GateRefuses \/ BatchGateTimesOut
    BY <1>0, <2>2 DEF GateRefuses, BatchGateTimesOut, Finish
  <2>3. CASE ModelNotReady(j) \/ \E exit \in {0, 1} : LoadEnds(j, exit)
    BY <1>0, <2>3 DEF ModelNotReady, LoadEnds, TestEnds, Finish
  <2>4. CASE j \in Profiles /\ (WriteMarker(j) \/ WriteMarkerFails(j) \/ RunnerExits(j))
    BY <1>0, <2>4 DEF WriteMarker, WriteMarkerFails, RunnerExits, Finish
  <2>5. CASE PodLost(j) \/ GateFails(j)
    BY <1>0, <2>5 DEF PodLost, GateFails, Finish
  <2> QED BY <1>3, <2>1, <2>2, <2>3, <2>4, <2>5 DEF Runner, Gate
<1>4. ASSUME ModelReady \/ UNCHANGED vars PROVE LeavesStopper
  BY <1>4 DEF ModelReady, vars
<1> QED BY <1>1, <1>2, <1>3, <1>4

LEMMA InitStopper == Init => StopperInv
<1> SUFFICES ASSUME Init PROVE StopperInv
  OBVIOUS
<1>1. "autostop" \in JobIds
  BY DEF JobIds
<1> QED BY <1>1, InitIInv DEF Init, StopperInv, StopperOnTime, DeletedInOrder, Deleting

LEMMA NextStopper ==
  ASSUME "stopper" \notin Faults, "delete" \notin Faults, StopperInv, [Next]_vars
  PROVE  StopperInv'
<1>0. /\ TypeOK /\ Submitted /\ Clocks /\ StopperOnTime /\ DeletedInOrder
      /\ "autostop" \in JobIds /\ IInv'
  BY NextIInv DEF StopperInv, IInv, JobIds
<1>t. /\ AutoStopDeadline \in Nat /\ AutoStopSlack \in Nat /\ StartDelay \in Nat
      /\ StartDelay < AutoStopSlack
  BY DurationsAssumption, MarginsAssumption
<1> SUFFICES StopperOnTime' /\ DeletedInOrder'
  BY <1>0 DEF StopperInv
<1> USE <1>0, <1>t DEF TypeOK, StopperOnTime, DeletedInOrder, Deleting
<1>1. CASE LeavesStopper
  BY <1>1 DEF LeavesStopper
<1>2. CASE Submit("autostop")
  <2>1. phase["autostop"] = "absent" /\ age["autostop"] = 0
    BY <1>2 DEF Submit, NextStep, Submitted, Clocks, Active
  <2> QED BY <1>2, <2>1 DEF Submit
<1>3. CASE Tick
  <2>1. /\ phase' = phase /\ model' = model /\ leftover' = leftover /\ pods' = pods
        /\ age'["autostop"] = IF Active("autostop") THEN age["autostop"] + 1 ELSE age["autostop"]
        /\ wait'["autostop"] = IF Waiting("autostop") THEN wait["autostop"] + 1 ELSE wait["autostop"]
    BY <1>3 DEF Tick
  <2>2. /\ phase["autostop"] = "pending" => wait["autostop"] < StartDelay
        /\ phase["autostop"] = "poll" => wait["autostop"] < AutoStopDeadline
        /\ phase["autostop"] \notin Deleting
    BY <1>3 DEF Tick, Due
  <2> QED BY <2>1, <2>2 DEF Active, Terminal, Waiting
<1>4. CASE DeadlineExceeded("autostop")
  <2>1. age["autostop"] >= AutoStopDeadline + AutoStopSlack
    BY <1>4, SheetsAssumption DEF DeadlineExceeded, Deadline
  <2>2. age["autostop"] <= StartDelay + AutoStopDeadline
    BY <1>4 DEF DeadlineExceeded, Active, Terminal
  <2> QED BY <2>1, <2>2
<1>5. CASE StopperStarts \/ StopperSeesEnd \/ StopperTimesOut
  BY <1>5 DEF StopperStarts, StopperSeesEnd, StopperTimesOut, MoveTo
<1>6. CASE DeleteDeployment \/ DeleteService
  BY <1>6 DEF DeleteDeployment, DeleteService, MoveTo
<1>7. CASE DeletePvc
  BY <1>7 DEF DeletePvc, Finish
<1>8. CASE StopperPodFails
  BY <1>8 DEF StopperPodFails
<1> QED BY <1>1, <1>2, <1>3, <1>4, <1>5, <1>6, <1>7, <1>8, OthersLeaveStopper
        DEF Next, CommandLine, Stopper

(* An auto-stop Job whose pod survives and whose deletes are accepted is   *)
(* over only with the Deployment, the Service and the volume gone: the     *)
(* slack its activeDeadlineSeconds adds keeps the Job controller from      *)
(* killing it between two deletes.                                         *)
THEOREM StopperStopsCorrect ==
  ASSUME "stopper" \notin Faults, "delete" \notin Faults
  PROVE  Spec => []StopperStops
<1>1. StopperInv => StopperStops
  BY DEF StopperInv, IInv, TypeOK, StopperOnTime, DeletedInOrder, StopperStops, Terminal, Deleting
<1>2. Spec => []StopperInv
  BY InitStopper, NextStopper, PTL DEF Spec
<1> QED BY <1>1, <1>2, PTL

===============================================================================
