# Verification of the inference-optimization pipeline

This directory holds TLA+ models of the repository in `src/`, TLC
configurations that check them on small instances, and theorems about them
that TLAPS proves for every value of the constants. `PROJECT.json` maps each
definition to the lines it stands for, and lists the runs, the mutants that
show each property can fail, the hazards and the theorems.

## 1. The system

One command line, `oai` (`tools/oai`), deploys a model on a GPU or Trainium
node of an EKS cluster, and submits Kubernetes Jobs that benchmark it,
evaluate its answers and stop it. Nothing supervises the Jobs once they are
submitted: they find out about each other through S3 objects and through the
conditions of other Jobs.

| component | state it keeps | operations | talks to | must be right about |
|---|---|---|---|---|
| deploy pipeline driver (`lifecycle.py`, `benchmark.py`, `quality.py`) | none but the run timestamp; its effects are Jobs | deploy, submit stages, submit auto-stop | Kubernetes, the scripts | order of submission; what a failed step ends; what `--detach` waits for |
| benchmark Job (`run-benchmark.sh`) | Job, S3 marker | gate, health wait, load, marker, exit | S3, the endpoint | batch never beside realtime |
| quality Job (`run-quality.sh`) | Job, ConfigMaps | gate, evaluation | S3, the endpoint | never beside a performance stage |
| auto-stop Job (`run-autostop.sh`) | Job, its pods | poll, three deletes | Jobs, the Deployment | stops the model, and only after the pipeline |
| preflight (`preflight.py`) | none | list what is active | Job and Deployment names | one active run per model and tag |
| load test (`load-test.py`) | result rows, telemetry samples | sweep levels, upload after each | endpoint, DCGM, S3 | which levels reach S3 and stay there; a row measures its own level |
| quality evaluation (`quality-eval.py`) | verdicts, result row, samples | request pool, retries, parse, score | endpoint, S3 | a verdict is stated, and stands by its own row |
| request router (`qwen3-5-9b-nxdi/router.py`) | workers, ready flags, in-flight counts | start, monitor, pick, proxy | replica servers | counts conserved, dead worker ends the container |
| replica server (`qwen3-5-9b-nxdi/server.py`; the 4b model has an older one of its own) | queue, batch, futures, streams | admit, batch, step, stream, stop | router | every admitted request answered within its own limit |
| deploy and stop scripts (`vllm/models/*`, `vllm/lib`) | Deployment, PVC, node claims | apply, delete, terminate node | Kubernetes, Karpenter | the node that is terminated is the model's |
| NxDI model code (`modeling_qwen35.py`, `nki_kernels`, `compile.py`) | recurrent and convolution state, KV cache | prefill, decode step | replica server | a row's state is its own; every kernel computes the same |
| report generator (`report_generator.py`) | none; reads what was uploaded | load, fix labels, filter, de-duplicate, per-question sheet | S3 | which row is shown; counts that add up |
| instance selection (`instances.py`), catalog, generation | files | rank, fit, render | EC2 prices and capacity | a model fits what it is given |
| collector (`collector.py`) | latest pointer | aggregate, publish | S3, Prometheus | missing metrics |
| cluster set-up, Trainium node groups, model download | cloud resources, files | one-shot scripts | AWS | idempotence |

The hard behaviours are these. Jobs start, poll, time out and die in any order
(interleaving, timeouts). Markers may be lost and Jobs end without one (partial
failure). Deadlines are literals in three scripts that must keep margins among
one another. The auto-stop computes what it waits for from the flags of the
command line, apart from what was submitted (stale state); its pod may be
replaced (restart). Preflight lets a run go on when it cannot look. The router reads a worker's load before an `await` and uses
it after; the replica server resolves the futures of a whole batch from a worker
thread. Command lines, stops and the auto-stops of earlier runs act on one
Deployment by name only. The served model never clears its buffers between
batches. A sweep persists its rows while its own threads, its disk and its
uploads fail around it, and the report reads what is left. The `hazards` of `PROJECT.json` name the line of each.

## 2. Modules

| module | models |
|---|---|
| `Pipeline` | one command line, its Jobs, their gates and markers, the auto-stop, the cluster's clock |
| `StageOrder` | what the pipeline promises about the endpoint: stages load it in order. Abstract: no line of the code |
| `MCPipeline` | the command lines of the runs |
| `PipelineProofs` | theorems about `Pipeline` |
| `ReplicaServer` | one NxDI replica: handlers, queue, batch loop, decoding thread, streams |
| `Completions` | what a completion endpoint promises its clients. Abstract: no line of the code |
| `MCReplicaServer` | the requests of the runs |
| `ReplicaProofs` | theorems about `ReplicaServer` |
| `Router`, `MCRouter` | the data-parallel front end: start-up, monitor, dispatch, its container's restart |
| `RouterProofs` | theorems about `Router` |
| `Runs`, `MCRuns` | several command lines for one model: preflight, deploys, evaluations, stops, auto-stops, nodes |
| `RunsProofs` | theorems about `Runs` |
| `DeltaRule` | the gated delta rule of one head, in the five ways the code computes it |
| `DeltaNet` | a DeltaNet layer with its state buffers, over `DeltaRule` |
| `Artifact` | what `compile.py` builds and what the server needs of it |
| `HybridModel`, `MCHybridModel` | the served model through batches, over `DeltaNet` and `Artifact` |
| `ModelProofs` | theorems about `HybridModel` |
| `LoadTest` | the sweep of a benchmark container |
| `Report` | from result files to the performance sheet: operators |
| `Results`, `MCResults` | sweeps and the report over what they leave: `LoadTest` with `Report` |
| `ResultsProofs` | theorems about `Results` |
| `Verdict` | what is read from a model's reply: operators |
| `QualitySheet` | confusion counts and the per-question sheet: operators |
| `Evaluate`, `MCEvaluate` | the evaluation container, over `Verdict` and `QualitySheet` |
| `EvaluateProofs` | theorems about `Evaluate` |
| `SumTheorems` | what the proofs need of recursion, sums and sequences; no model |

### Pipeline

`inv` is the command line (flags as a record: the profiles, the resolved sheets,
how many `--quality-sheet` flags were given, tagged, auto-stop, detach). `tried`
is how far `deploy()` has come, `phase[j]` where Job `j` is, `age[j]` the ticks
since it was created (what `activeDeadlineSeconds` counts), `wait[j]` the ticks
of its current polling loop, `code[j]` its `TEST_EXIT`, `marker[p]` the body of
profile `p`'s S3 marker, `model` the Deployment, `leftover` its Service and PVC,
`pods` how many pods the auto-stop Job has had.

The command line submits (`Submit`), is refused (`SubmitFails`), follows a log
(`FollowEnds`) or is closed (`CloseTerminal`). A Job goes through its gate
(`GateOpens`, `GateRefuses`, `BatchGateTimesOut`, `QualityGateTimesOut`,
`GateFails`), its wait for `/health` (`ModelHealthy`, `ModelNotReady`), its load
(`LoadEnds`), its marker (`WriteMarker`, `WriteMarkerFails`) and its exit. The
cluster ends it at its deadline (`DeadlineExceeded`) or loses its pod
(`PodLost`, `StopperPodFails`). The auto-stop polls (`StopperSeesEnd`,
`StopperTimesOut`) and deletes three objects in order.

Time is a discrete clock. A tick stands for more than the longest sleep of a
polling loop (20 s in the gates, 30 s in the auto-stop), so a loop that has
something to act on does so before the next tick (`Due`). A Job controller may
act `KillLag` ticks late. Everything else may take any time: loads end when they
end, a pod starts when it starts, the model becomes Ready at some time or never.

`Faults` says which failures a run considers: refused submissions, a closed
terminal, lost pods, failing gates, lost markers, the auto-stop's pod failing
once or twice, refused deletes. The last are in no run, for nothing is promised of them;
the theorem about `StopperStops` names them as what it excludes.

Left out: the content of results, the ConfigMaps, log tailing but for the time
it takes, the marker mode of the auto-stop (no command uses it), the pods of
other runs.

### ReplicaServer

Three parties share a replica. Handlers run on the event loop (`Arrive`,
`SseReads`, `ClientLeaves`), so does the batch loop (`LoopTakesFirst`,
`WindowTakes`, `WindowEnds`, `BatchResumes`), and a thread decodes
(`DecodeStep`, `ThreadReturns`, `DeviceFails`). The thread reaches the loop only
through `call_soon_threadsafe`; `calls` is that queue of callbacks, in order,
and a token or the return of `to_thread` takes effect when the loop runs it
(`TokenReachesStream`, `BatchResumes`).

`ask[r]` is what a request asks for, `status[r]` how far its client has come,
`rows[r]` its `_RowState`, `stream[r]` its event queue, `got[r]` the tokens its
SSE generator has read and those it has sent the text of. Tokens are counted,
not spelled: a sample leaves the text whole or inside a multi-byte character, is
an end of sequence, or is an id outside the vocabulary. `Limit` is what `admit`
grants, `Budget` what the batch decodes.

One coarsening: `WindowEnds` also builds the padded batch and enters
`to_thread`, with no `await` in between.

### Router

`proc[w]` is a worker's process, `starting[w]` how far `_start_and_wait` has
come, `ready[w]` and `inflight[w]` what `_pick` and `/health` read, `stage[r]`
where the `_proxy` call of a request is and `target[r]` its worker. What happens
between two awaits is one step: `Pick` chooses, `Send` raises the count after
the body has come, `SendFails`, `BodyEnds` and `ClientLeaves` give it back.
`_die` ends the workers and the router with them, and Kubernetes starts the
container again (`Die`). The rotating counter that breaks ties among the least
loaded is a free choice. A worker is abstract here: it loads, answers, hangs,
recovers, exits. That a worker which does not hang answers what it is sent is
the fairness of `Upstream`; `ReplicaServer` shows it (`EveryoneAnswered`), given
clients that read their streams, which the router does.

### Runs

`Pipeline` looks inside one run; `Runs` looks at several. A run has one final
Job here. `line[r]` holds the flags of a command line, `pc[r]` how far it has
come, `job[r]` and `stopper[r]` the Jobs it leaves behind, `dep[e]` which runs
applied the Deployment of endpoint `e`, `pod[e]` where its pod is, `nodes` what
Karpenter has provisioned. A command goes through `Preflight`, `Apply`,
`SubmitJobs` and `SubmitStopper` or drops out of any of them; a stop looks the
node up, deletes, checks the node, deletes it too or falls back on another, and
cleans up Jobs, each a step of its own. Preflight asks for the Deployment and for
Jobs; a look-up in `Outages` may go without an answer, and then finds nothing:
`missed[r]` holds those that let `r` go on beside something active. The auto-stop counts quality Jobs by tag
prefix and deletes by name. Names are compared without their characters:
`Longer` says which tag begins like which, `LongNames` which Job names are cut.
`Overlap` lets commands run at the same time, `Neuron` serves on Trainium, where
a deploy drops its tag after preflight; the runs leave both off.

### DeltaRule, DeltaNet, Artifact, HybridModel

The model is reduced to one layer of each kind. The DeltaNet layer computes with
numbers, integers modulo a prime, so that what is compared is the algebra of the
five forms of the rule (token by token in PyTorch and NKI; in chunks with a
solve row by row, by a Neumann product, and fused by blocks) and not rounding.
A log-decay is represented by its exponential. Of the attention layer it is
recorded which keys each query attends to, and by which angles they are turned.
Prompts may have any length from one token, as `/v1/completions` and `admit()`
allow; the convolution state of one shorter than the window is gathered with the
code's clamp. `rec` and `conv` are the two state buffers, `kv` the cache, `fed` and `pads` what
a row of the batch has been given. `Begin` is `_process_batch`, `PrefillOne` and
`PrefillAll` the context-encoding graph with and without continuous batching,
`Decode` a step of the token-generation graph for every slot, used or not. The
buffers are never cleared; `Junk` is what padded positions carry.

`Artifact` has the rules of `compile.py` (which pairs of batch sizes compile, which
buckets remain) and of the server's `load()` and `admit()`: an artifact compiled
earlier is reused by a server in another environment.

### LoadTest, Report, Results

A level is scraped, measured by an external client, joined with its sampler
thread, recorded in memory, appended to the container's disk and uploaded whole
(`BeginLevel`, `BenchEnds`, `ScrapeLands`, `Record`, `Upload`); after the last the
file is written anew and uploaded once more (`Finish`, `FinalUpload`). `Faults`
names what may fail: the client, a scrape, a slow scrape that outlives its join,
the disk, an upload, the pod, the engine. An append that fails may leave a part of
its line (`torn`), which swallows the row appended next. The last write truncates
first: when it fails the disk holds any prefix of the rows, the sweep exits with 1,
and the wrapper uploads what there is (`RewriteFails`). Tokens are counted twice, by the
engine, whose counter restarts with it, and by the client, which may miss some.

`Report` is the generator's passes as operators, in their order: load, fix
labels, de-duplicate Trainium rows, filter by day and by time, unique rows.
`Results` feeds it the sweeps' files beside those of an earlier run. A sequence of
files stands for a listing, and every order is tried.

### Verdict, QualitySheet, Evaluate

A reply is a sequence of lines of content and of reasoning, each a label and the
way it is said (`alone`, `declared`, `inline`, an echoed instruction, the opening
or the close of a thought, prose, a long passage), and whether it was cut. The
regular expressions are modelled by which of those lines they match. `Evaluate`
loads the worksheet, probes guided decoding, hands rows to a pool (`Take`,
`Answered`, `Fails`, `Retried`) and collects in order; `Finish` scores and writes
a result row and samples, `Upload` brings any part of them to S3, `PodDies`
loses all. Rows without a question id are grouped by the first 60 characters of
their text: `Stub` says which texts begin alike. `QualitySheet` holds the confusion counts and what the report makes of
stored counts, of counts scaled from samples, or of neither.

## 3. Properties and runs

* `StagesInOrder` (refinement of `StageOrder`), `PastGateIsAlone`: no stage loads
  the endpoint beside or after a later one, although the quality gate opens for
  any exit code and at its own deadline.
* `BatchOnlyAfterSuccess`: a gated batch runs only after realtime exited 0.
* `GateDeadlineIsEnough`: a gate that gives up gives up on a stage that died.
* `EndIsSeen`, `StopsAfterPipeline`, `StopperStops`, `ModelIsStopped`: the
  auto-stop sees the end of its pipeline, deletes the model only then, leaves
  nothing, and does it in the end, unless its pod is lost: the one that replaces it
  polls for 14 h anew, which the Job's deadline does not wait for.
* `EveryJobEnds`: no gate and no wait holds a Job for ever.

* `ContextFits`, `OwnLimit`: whichever prompts and limits meet in a batch, the
  compiled context is not overrun and no row gets more than it was admitted for.
* `NoRequestLost`, `EveryoneAnswered`: a client that waits is in the queue, in
  the batch or has its end coming, when the device fails and when the server is
  told to stop too; in the end it is answered.
* `EndIsLast`, `StopIsFinal`: a stream's end does not overtake its tokens; a row
  that has stopped stays as it is while the others go on.
* `PromiseKept`: `ReplicaServer` implements `Completions`.
* `CountsConserved`: the counts that dispatch compares are the requests each
  worker has, however requests end.
* `NoPartialInstance`, `LoadsBounded`: the router is healthy only when all
  workers have loaded, and they load a few at a time.
* `ExitIsNoticed`, `EveryRequestEnds`: a worker's exit ends the container, and
  nobody waits on it. A worker that hangs does hold its requests: the client has
  no read timeout, and the property says so.

* `OneRunPerEndpoint`, `OneDeployer`: whatever was stopped, refused or left behind
  before, no two runs load one endpoint and no deploy applies over another, unless
  a look-up of preflight failed for one of the two (`preflight.py:7-9` fails open).
* `Patience`: an auto-stop, which counts quality Jobs of any tag that begins like
  its own, is never due while its own run's Job is active.
* `StateIsOwn`, `OutputIsOwn`: the recurrent state of a row, and what its logits
  are computed from, are those of its own tokens alone, whatever kernel ran the
  prefill, whatever padding, neighbours and earlier batches left in the buffers.
  They speak of prompts as long as the convolution looks back, three tokens; shorter
  ones are in the model, and what is true of them is said: their state after the
  prefill, and the first logits of a prompt of two. The first logits of a
  one-token prompt come from its padding, and both decode wrongly (see below).
* `NothingLost`: whatever fails while levels are measured, an upload takes no level
  out of S3 and brings none twice. A sweep whose last write failed may take away its
  last levels, never one in between, and exits with 1.
* `RowIsOfItsLevel`: a row reports no fewer tokens than the client saw and no more
  than the engine made in its level, and telemetry of its own level only.
* `ReportIsFaithful`: in any order of the files, rows inside the bounds are shown
  once and others are not, the freshest of a Trainium row's duplicates is, and
  costs are those of the instance a row is shown with.
* `VerdictIsStated`: a verdict is one the reply states; a cut reply counts only
  what it declares; an unfinished thought or an echoed instruction is no answer.
* `RowsKeepTheirVerdicts`: answers come out of order, verdicts stay with their rows.
* `SheetReconciles`: counts make up their rows, per question and in all, and
  another test set's samples do not enter.

Each module that is checked also has its `TypeOK`; that of `HybridModel` says that every
decode position is inside the compiled cache.

| run | question | instance |
|---|---|---|
| `PipelineOrder` | order, and a complete clean-up, under every fault but the stopper's | both profiles, two symmetric sheets |
| `PipelineEnds` | every Job ends; the stopper sees the end, stops after it, and does stop | every choice of stages, one sheet, a lag of one tick, every fault but failing gates and refused deletes |
| `ReplicaBatch` | safety, refinement, liveness | three requests, two streams or one, an empty prompt; batches of two, every kind of sample |
| `RouterFaults` | safety and liveness | three workers that exit, hang and recover, two requests |
| `RunsShareCluster` | runs of one model beside each other | three commands of six kinds, one stop, two tags that begin alike and none, one node, look-ups that fail |
| `ModelServes` | rows are isolated, kernels agree | two slots, two batches, three decode steps, five prompts of one to eight tokens, seven environments |
| `ResultsReach` | what a sweep leaves, and what the report shows | two levels, every fault, four earlier archives, fourteen sets of flags |
| `EvaluateScores` | verdicts and counts | four rows, two threads, five replies, every message of up to three lines |

### Where the code differs from what it says

Four runs violate one property each; the finding in `PROJECT.json` quotes the line.

* `RunsBlind`: a Job name longer than 63 characters is cut where preflight looks
  for the timestamp, so an active Job is not found and a duplicate starts.
* `ModelLeftPads`: the 4b server pads on the left, but the convolution state is
  gathered as if padding came last; the shorter row of a batch goes wrong.
* `ModelShortPrompts`: for a prompt of one or two tokens the gather of the
  convolution state is clamped (`modeling_qwen35.py:833-838`) and takes padding
  where zeros belong: the first decode steps see a wrong window, and the recurrence
  keeps what they leave.
* `ResultsRewrite`: the final write opens the result file with mode `w`. When it
  fails, what is left is uploaded over the complete object, and levels that were in
  S3 are gone (`load-test.py:868-874`, `run-benchmark.sh:497-505`).

### Met while modelling

These have no run of their own; the models contain most of them.

* Gates: a quality Job whose init container dies on an S3 error
  (`run-quality.sh:222`) is terminal, and the auto-stop deletes the model under the
  benchmark (`PipelineEnds` excludes it).
* Auto-stop: an untagged run is never seen to end, so only the 14 h loop stops the
  model; a replaced auto-stop pod starts its 14 h again but the Job's deadline does
  not; a sheet named twice makes it expect one Job too many (`lifecycle.py:359`); a
  refused `kubectl delete` is not retried and the Job still succeeds
  (`run-autostop.sh:370`); one that outlives its run deletes the Deployment of a later
  deploy.
* Command line: `--detach` does not reach a benchmark that follows a log
  (`lifecycle.py:275`); a Neuron deploy drops `--tag` after preflight used it; files
  are generated only when `deploy.sh` is missing; two command lines at the same
  time may both pass preflight; an untagged stop deletes the benchmark Jobs of every
  tag; when no node is found for a stopped pod, `gpu-terminate.sh` deletes the first
  GPU node claim of the cluster.
* Serving: a short prompt that meets a long one in a batch is cut below its own
  `max_tokens`, with reason `length` (`server.py:431`); a stream that ends inside a
  multi-byte character never sends its last tokens (`server.py:622`); requests whose
  bodies are being read are not counted, so several may go to one worker
  (`router.py:207`); a build with vision inputs and a prefill bucket shorter than
  `seq_len` raises on every request (`PrefillRaises`); the compile Job leaves a
  non-empty folder alone, and of the environment it was built in only
  `QWEN35_TEXT_ONLY` is compared. The clamp of decode positions is never needed
  (theorem `PositionsStayInside`).
* Results: a level that fails leaves the exit code 0; a row appended behind a
  half-written line is unreadable until the last write; the manifest's hourly price
  wins even when `--hw` names other hardware; `--date` and `--after` together may take
  a row's day from its folder and its time from the row; duplicates go before dates
  are filtered, so a filtered sheet may miss a row; labels are not fixed in samples.
* Quality: a run without one readable verdict is written and exits 0; results
  are written only at the end; a smoke run may shadow a full one of the same key;
  `--sheet xl` with another sheet's configuration labels the row `Test-XL` and its samples
  `Test-ORG`; scaled counts are off by their rounding; the same instruction echoed in
  the closing region of a complete reply is read as its last label.
* Collector (not modelled): accuracy that is missing counts as 100, and a failed
  section as passed.

## 4. Bounds

Durations are small numbers that keep the order and the margins of the
scripts' literals (`MarginsAssumption`); the theorems show that only the margins
matter. Two sheets are what the code has (`org`, `xl`); they are symmetric. One
command line and one Deployment: a second run is the subject of `Runs`.
`pods` is bounded by `backoffLimit` 1. Sheets interact only through the
stopper's count: `PipelineEnds` uses one, `PipelineOrder` two, and the
theorems hold for any number. Deadlock checking is off: the run is over when its
Jobs are.

`ReplicaServer` needs two requests to share a batch and a third to wait for it,
two prompt lengths to pad, and room for one and for two tokens: `SeqLen` 4 with
prompts of 1 and 2 gives limits 1 and 2 and budgets that differ from both. `Asks` says
what the three ask together: a stream, a longer answer and a single token, or two
streams and an empty prompt. They arrive in any order; no symmetry is used, so that
liveness is checked in the same run.

`Router` needs worker 0 and two others for `StartParallel` 1 to hold one back, and
two requests to compete. No symmetry is used.

`Runs` needs a run, its successor and a third that stops or evaluates, a tag that
begins like another one and the untagged model; more runs meet only in pairs.
The theorems hold for any number of each.

`HybridModel`: a chunk of 4 with blocks of 2 and prompts of 1, 2, 3, 6 and 8
tokens gives prompts too short for the convolution, a prefill shorter than a chunk,
one of two chunks and a refused one; two
slots let a row have a neighbour and an unused slot; a second batch finds what the
first left. Modulo 7 two different sums may agree by accident; mutants of each
step are caught all the same. A prompt may hold the padding token in the model and
the proofs; the run has none that does. Heads do not mix, and dimension 2 tells an outer
product from a scalar one and a row from a column.

`Results`: two levels give a level after which another fails; a sweep that begins
in the last part of a day and ends in the next one crosses the date filters. The
four archives hold a duplicate before and after, a wrong label and a quality row.

`Evaluate`: four rows on two threads overtake one another; the worksheet has two
rows of one question id, two without an id whose texts begin alike, and a gold label
that is none. Messages
of three lines have something before and behind a closing line.

## 5. Fairness

Weak fairness of the clock, of the Job controller at a passed deadline, of each
gate's polling loop and of the auto-stop's script: all are loops or controllers
that run whenever they may. Nothing is assumed of loads, pods, the model, the
markers' writers or the user: they may stop anywhere, and the deadlines must
still end every Job.

`ReplicaServer`: the event loop runs what is ready, the thread steps or raises,
and a client that keeps its stream open reads it. Requests, departures and
SIGTERM are free. `Router`: the monitor's loop runs; a worker that is up or gone
lets its requests go on or fail. Nothing is assumed of clients that have not
sent their bodies, or of start-up.

`Runs`, `HybridModel`, `Results` and `Evaluate` are checked for safety and state
no fairness: a command may be left at any prompt, a pod may never be scheduled, a
sweep may hang until its Job's deadline, which is `Pipeline`'s subject.

## 6. Proofs

`PipelineProofs` proves, for every set of sheets, command line, fault set and
durations that satisfy the assumptions of `Pipeline`, that `TypeOK`,
`PastGateIsAlone`, `BatchOnlyAfterSuccess` and `GateDeadlineIsEnough` hold and
that the pipeline implements `StageOrder`. The inductive invariant `IInv` adds
three conjuncts. `Submitted`: a Job that exists was tried, and so was every Job
of a lower rank that is still wanted, or it never will be. `Clocks`: a Job's age bounds its wait, the age
of an earlier Job is at least that of a later one, and no active Job outlives
its deadline by more than `KillLag`. `Marked`: a marker says that its profile is
past its load. Without `Clocks` the case of a gate that times out cannot be
closed: the gate's wait is compared with the age of the Job it waits for, and
the margins with both. The order theorem maps `phase` to the abstract status and
shows that each action is a `Begin`, a `Close` or a stutter.

It goes on with the auto-stop. `StopsAfterPipeline` holds when gates do not fail,
from the invariant that a poll which has passed its exit condition leaves every
stage closed: quality Jobs are terminal only when past their gates, and then
everything before them is closed; the 14 h loop outlasts every deadline.
`EndIsSeen` holds of command lines that are tagged and give as many
`--quality-sheet` flags as there are sheets (`OneFlagPerSheet`): the poll counts the
flags, a repeated one twice, and matches Jobs by the tag.
`StopperStops` holds when neither the auto-stop's pod nor a delete fails:
`StopperOnTime` bounds the Job's age by its start and the poll's wait, so that the
Job's own deadline is out of reach, and `DeletedInOrder` says what each phase has
left behind it.

`RouterProofs` proves `TypeOK`, `CountsConserved`, `NoPartialInstance` and
`LoadsBounded` for every number of workers and requests. `IInv` adds `Started` (what
is loading is being waited for; what has started is not unloaded; all started
means all done) and `TakeTurns` (the others start after worker 0, as many at a
time as the semaphore admits). That counts are natural numbers follows from
`CountsConserved` only: a `Release` finds its own request among those the worker
holds, so there is one to give back.

`ReplicaProofs` proves `TypeOK`, `ContextFits`, `OwnLimit`, `NoRequestLost` and
`StopIsFinal` for every set of requests, shape of the artifact, batch size and
set of samples. `IInv` adds five conjuncts. `Admitted`: what is queued or
decoded has passed `admit()`; so prompts and limits of a batch are bounded and
have a largest (`MostIsMost`), and `Budget` fits next to the padding
(`BudgetFits`). `RowLimits`: a row that goes on is strictly below its limit; that
it is not above it is not enough for the next step. `CallsInOrder`: the thread's
return is the last callback, and while it is on the way the loop is where it
called `to_thread`; it makes the batch that resumes the batch that decoded.
`Decoding`: the loop's place and the thread's agree with the batch, and the steps
stay within `Budget`. `Stopped`: the loop is cancelled after the server has
closed.

`EndIsLast` and the refinement of `Completions` (`PromiseKept`) take a second
invariant, `Delivery`, of six conjuncts. Its heart is `Accounted`: the tokens a
client has read, those that wait in its stream and those posted to the event loop
are together the tokens of its row. For that a request is in the line once
(`InLineOnce`), callbacks are those of the batch that runs (`PostsOfBatch`), an end
is the last event of a stream whose batch is over (`EndsLast`), and who has been
answered has an empty stream (`Settled`).

`RunsProofs` proves `TypeOK` and `Patience` of every set of command lines, stops,
tags and nodes, and `OneRunPerEndpoint` and `OneDeployer` under `Tidy`: commands do
not overlap, the model is served on GPUs, and no name is cut. Drop any of the three and
they fail. A fourth condition is in the properties themselves: they except runs that
went on because a look-up of preflight failed (`missed`), and say nothing else
of outages. The invariant says that one command is at work at a time
(`OneAtWork`), that a run which has not submitted has no Job (`JobsLater`), and that
what preflight found stays so until the command ends (`PathIsClear`,
`NotDeployed`): nothing but a command starts a Job or applies a Deployment.

`ResultsProofs` proves `TypeOK`, `NothingLost` and `RowIsOfItsLevel` for any number of
sweeps and levels. `LevelsRise`: levels rise and the one being measured has no row yet.
`Behind`: what is on the disk is in memory while levels are measured, and what is in
S3 is on the disk, until the pod goes, but for what a failed last write cuts off the
end (`Cut`). `OwnLevel`: the counter has not risen by more than the engine made
since the level began, and threads of earlier levels cannot reach this level's
lists. The lemmas before them say what appending does to rising sequences.

It then proves `ReportIsFaithful`, for files, archives and flags of any number and in
any order. The passes of the generator are folds, and each has a lemma that says what
it leaves: `OnlyIs` (a filter keeps the good rows, each in one place), `FreshestIs`
(one row of each identity, and none of its identity is later), `UniqueIs` (one row of
each key, and every key). `FixedRelabels` says that a corrected label keeps a cost the
cost of its label. `ExportIs` composes them in the order of `main()`, and
`SheetIsFaithful` reads the property from that, for any rows that are told apart by
level and start. Rows of one sweep are, because what is uploaded rises in level
(`Uploaded`, an invariant that follows from `IInv`). Assumed of the constants:
folders carry known labels (`FoldersAssumption`), the prices divide the stored tokens
per dollar, so that rescaling rounds nothing (`WorthAssumption`), and an archive's
rows began at other times than the sweep, no two of a level at once, and cost what
their label costs (`ArchivesAssumption`). TLC evaluates all three in `ResultsReach`.

`EvaluateProofs` begins with the reader of replies: `VerdictIsStated` holds of every
message of any length, by induction over the folds that search it. For every
worksheet, pool and set of replies it proves `TypeOK` and `RowsKeepTheirVerdicts`:
a future holds its own row's verdict (`DoneOwn`), and the list collected so far is in the
order of the rows (`InOrder`). `SheetReconciles` needs `FInv` besides: what was
written, and what of it was uploaded, is made of all the rows. Then the four
counts of a result row make up its rows, in all and question by question
(`PartsMakeTheWhole`, a lemma on sums over a finite set), and the sheet's passes keep
that, from per-question counts, from samples that are scaled, or from neither.
Assumed of the constants: a gold label is not the marker of a missing verdict
(`GoldAssumption`), and what earlier evaluations left adds up as this one's is
proved to (`ArchivesAssumption`).

`ModelProofs` proves of the served model, for any artifact, embedding and requests:

* `PositionsFit`. Every position a batch decodes at is inside the compiled cache.
  `BudgetFits`, a lemma about the largest of a set of numbers, shows that budget and
  longest prompt fit `seq_len` together; the invariant `Room` carries what is left of
  it through the steps (theorem `PositionsStayInside`).
* `TypeOK`, `StateIsOwn` and `OutputIsOwn`. A slot's state, window, cache and output
  are what its own tokens make of them alone. `Isolated` is the inductive form: a slot
  that serves and has been fed no padding carries the state of its tokens so far,
  whatever the slot held before and whatever its neighbours do. It has two parts:
  `Fresh` after the prefill, where prompts of every length are right, and `Carried`
  after decode steps, where a prompt must fill the convolution window, without which
  it fails (run `ModelShortPrompts`). The hypotheses:
  prompts are not padded on the left, without which the property fails (run
  `ModelLeftPads`), and `KernelsAgree`, that the build's prefill computes the
  token-by-token recurrence.
* `RecurrentAgrees` and `TokenByTokenAgrees`. That hypothesis holds of builds that
  prefill with the sequential loop or the recurrent NKI kernel, whose matrix
  instructions compute the recurrence for token sequences of every length. For the chunked
  kernels it is model-checked in `ModelServes`, where each build is one of the
  environments.

`SumTheorems` has what these share: the existence of a function made step by step,
the folds of the community modules as sums, and the size of a set as the sum of its
parts. The induction theorems of the library cannot be instantiated here, so the
lemma `Upwards` does induction over sets of numbers, from the well-foundedness of
`<` on them.

Model-checked only: liveness (`EveryJobEnds`, `ModelIsStopped`,
`EveryoneAnswered`, `ShutdownEnds`, `ExitIsNoticed`, `EveryRequestEnds`), which the
prover cannot do under fairness; and the agreement of the chunked kernels, which takes
the algebra of a triangular solve modulo a prime.

## 7. Not modelled

* Instance selection: sequential look-ups against AWS that return the first
  candidate on offer; no state.
* Catalog, configuration, generation, serving manifests, dashboards, autoport:
  text and data. What the generated `deploy.sh` and `stop.sh` do is in `Runs`.
* Metrics collector: a CronJob that may not overlap itself, queries, compares with
  fixed thresholds and writes two files that nothing reads back.
* Cluster set-up and tear-down, Trainium node groups, model download: sequences of
  cloud calls run once by one operator; their state is that of AWS.
* Of the deploy driver: the checks before `deploy.sh`, which only refuse. Of the
  quality Job: dataset staging and the clean-up of ConfigMaps. Of the quality
  evaluation: `validate_dataset.py`, run by hand.
* Of the model code: several heads and layers, projections, norms and MLP, which
  carry on what the two layers compute; image inputs; weight conversion; rounding;
  decode buckets of several lengths. Of the 4b server: all but its padding; it has
  neither admission nor streams, and its loop is a part of that of 9b.
* Of the report: columns, cell formats, CSV and Excel layout. Of the load test:
  percentiles, which the external client computes.

## 8. Plan

Done: the modules of section 2 and the theorems of section 6. What remains is
`KernelsAgree` for the chunked kernels: that a chunk's triangular solve and the scan
over chunks compute the recurrence, by algebra modulo a prime.
