------------------------------- MODULE LoadTest -------------------------------
(***************************************************************************)
(* The sweep of inference/load-test.py in its container: one level of      *)
(* concurrency after another, the sampler thread beside each, and the way  *)
(* of a row from memory to the container's disk to S3.  The gates around   *)
(* the container and the marker after it are module Pipeline's subject.    *)
(*                                                                         *)
(* A level's tokens are counted twice: by the engine, whose counter starts *)
(* at zero with the server, and by the client, which may miss reasoning.   *)
(***************************************************************************)
EXTENDS Naturals, Sequences, FiniteSets, SequencesExt

CONSTANTS
    Runs,       \* the benchmark containers, one sweep each
    Levels,     \* how many levels of concurrency a profile has
    MaxMade,    \* bound: tokens the engine makes within one level
    Slo,        \* throughput_tokens_s_min, for a level
    MaxRestart, \* bound: restarts of the engine
    Launch,     \* when the containers are submitted: the time of the run folder
    LastTick,   \* bound: when the clock stops
    None,       \* no scrape, no result, no file, no exit code yet
    Faults      \* which failures are considered: see FaultNames

FaultNames == {"bench", "scrape", "slow", "disk", "upload", "pod", "engine"}

ASSUME LevelsAssumption == Levels \in Nat \ {0}
ASSUME MadeAssumption == MaxMade \in Nat \ {0} /\ Slo \in Nat
ASSUME RestartAssumption == MaxRestart \in Nat
ASSUME FaultsAssumption == Faults \subseteq FaultNames
ASSUME ClockAssumption == Launch \in Nat /\ LastTick \in Nat /\ Launch <= LastTick
ASSUME NoneAssumption == None \notin Nat

VARIABLES
    at,       \* where the sweep is
    level,    \* the level it is at
    counter,  \* the engine's counter of generated tokens
    restarts, \* how often the engine has started again
    made,     \* tokens the engine has made since the level began
    began,    \* the time it began
    before,   \* the counter as scraped before the level, or None
    scraping, \* levels whose sampler thread has a scrape under way
    samples,  \* samples[r][l]: under which levels the readings in l's lists were taken
    bench,    \* what the client counted, or None if it failed
    rows,     \* all_results: the rows in memory
    disk,     \* the rows of the JSONL file in the container, or None
    torn,     \* whether the file ends in a line that was not written to its end
    s3,       \* the object in S3, or None
    exit,     \* the exit code of load-test.py, or None
    clock     \* the time, in parts of a day

loadVars == <<at, level, counter, restarts, made, began, before, scraping, samples, bench,
              rows, disk, torn, s3, exit, clock>>

Level == 1..Levels

(* started_at; the levels under which the telemetry was read.              *)
Row == [level: Level, started: Launch..LastTick, tokens: Nat, tele: SUBSET Level,
        status: {"passed", "failed_slo", "error"}]

-------------------------------------------------------------------------------
(* _engine_generation_delta: a counter that was not scraped at both ends,  *)
(* or that has not risen, says nothing.                                    *)
EngineDelta(b, a) == IF None \in {b, a} THEN None ELSE IF a > b THEN a - b ELSE None

(* The engine's count replaces the client's when it is materially higher.  *)
Tokens(seen, delta) ==
    IF delta # None /\ delta * 20 > seen * 21 THEN delta ELSE seen

(* _check_slo: zero tokens are an error whatever the thresholds.  The      *)
(* throughput stands for the three of them.                                *)
Status(tokens) ==
    IF tokens < 1 THEN "error" ELSE IF tokens < Slo THEN "failed_slo" ELSE "passed"

InitLoad ==
    /\ at = [r \in Runs |-> "waiting"]
    /\ level = [r \in Runs |-> 0]
    /\ counter = [r \in Runs |-> 0]
    /\ restarts = [r \in Runs |-> 0]
    /\ made = [r \in Runs |-> 0]
    /\ before = [r \in Runs |-> None]
    /\ scraping = [r \in Runs |-> {}]
    /\ samples = [r \in Runs |-> [l \in Level |-> {}]]
    /\ bench = [r \in Runs |-> None]
    /\ rows = [r \in Runs |-> <<>>]
    /\ disk = [r \in Runs |-> None]
    /\ torn = [r \in Runs |-> FALSE]
    /\ s3 = [r \in Runs |-> None]
    /\ exit = [r \in Runs |-> None]
    /\ clock = Launch
    /\ began = [r \in Runs |-> Launch]

(* The process ends, and what it held in memory with it; the engine and    *)
(* the end of the file are not looked at again.                            *)
Forget(r) ==
    /\ counter' = [counter EXCEPT ![r] = 0]
    /\ restarts' = [restarts EXCEPT ![r] = 0]
    /\ level' = [level EXCEPT ![r] = 0]
    /\ made' = [made EXCEPT ![r] = 0]
    /\ began' = [began EXCEPT ![r] = Launch]
    /\ before' = [before EXCEPT ![r] = None]
    /\ scraping' = [scraping EXCEPT ![r] = {}]
    /\ samples' = [samples EXCEPT ![r] = [l \in Level |-> {}]]
    /\ bench' = [bench EXCEPT ![r] = None]
    /\ rows' = [rows EXCEPT ![r] = <<>>]
    /\ torn' = [torn EXCEPT ![r] = FALSE]

Goes(r, where) == at' = [at EXCEPT ![r] = where]
Scraped(r) == {counter[r]} \cup IF "scrape" \in Faults THEN {None} ELSE {}

-------------------------------------------------------------------------------
(* The server answers within the wait budget: probe it, empty the file.    *)
Ready(r) ==
    /\ at[r] = "waiting"
    /\ disk' = [disk EXCEPT ![r] = <<>>]
    /\ Goes(r, "next")
    /\ UNCHANGED <<level, counter, restarts, made, began, before, scraping, samples, bench, rows, torn, s3, exit, clock>>

(* EXIT_MODEL_NOT_READY, before any file is written; or the file cannot be *)
(* made.                                                                   *)
NotReady(r) ==
    /\ at[r] = "waiting"
    /\ \E code \in {3} \cup IF "disk" \in Faults THEN {1} ELSE {} :
          exit' = [exit EXCEPT ![r] = code]
    /\ Goes(r, "exited")
    /\ Forget(r)
    /\ UNCHANGED <<disk, s3, clock>>

(* Scrape, start the level's sampler with its own lists, run the client.   *)
BeginLevel_OneMore(r) ==
    /\ at[r] = "next" /\ level[r] <= Levels
    /\ level' = [level EXCEPT ![r] = @ + 1]
    /\ \E c \in Scraped(r) : before' = [before EXCEPT ![r] = c]
    /\ made' = [made EXCEPT ![r] = 0]
    /\ began' = [began EXCEPT ![r] = clock]
    /\ scraping' = [scraping EXCEPT ![r] = @ \cup {level[r] + 1}]
    /\ Goes(r, "bench")
    /\ UNCHANGED <<counter, restarts, samples, bench, rows, disk, torn, s3, exit, clock>>
BeginLevel(r) ==
    /\ at[r] = "next" /\ level[r] < Levels
    /\ level' = [level EXCEPT ![r] = @ + 1]
    /\ \E c \in Scraped(r) : before' = [before EXCEPT ![r] = c]
    /\ made' = [made EXCEPT ![r] = 0]
    /\ began' = [began EXCEPT ![r] = clock]
    /\ scraping' = [scraping EXCEPT ![r] = @ \cup {level[r] + 1}]
    /\ Goes(r, "bench")
    /\ UNCHANGED <<counter, restarts, samples, bench, rows, disk, torn, s3, exit, clock>>

Generate(r) ==
    /\ at[r] = "bench" /\ made[r] < MaxMade
    /\ made' = [made EXCEPT ![r] = @ + 1]
    /\ counter' = [counter EXCEPT ![r] = @ + 1]
    /\ UNCHANGED <<at, level, restarts, began, before, scraping, samples, bench, rows, disk, torn, s3, exit, clock>>

(* The server is replaced: its counter starts again.  (An upload does not  *)
(* look at it.)                                                            *)
EngineRestarts(r) ==
    /\ "engine" \in Faults /\ restarts[r] < MaxRestart /\ at[r] \in {"next", "bench", "joining"}
    /\ counter' = [counter EXCEPT ![r] = 0]
    /\ restarts' = [restarts EXCEPT ![r] = @ + 1]
    /\ UNCHANGED <<at, level, made, began, before, scraping, samples, bench, rows, disk, torn, s3, exit, clock>>

(* vllm bench serve returns a result that counts what it saw, or fails;    *)
(* either way the sampler is told to stop.                                 *)
BenchEnds(r) ==
    /\ at[r] = "bench"
    /\ \E seen \in (0..made[r]) \cup IF "bench" \in Faults THEN {None} ELSE {} :
          bench' = [bench EXCEPT ![r] = seen]
    /\ Goes(r, "joining")
    /\ UNCHANGED <<level, counter, restarts, made, began, before, scraping, samples, rows, disk, torn, s3, exit, clock>>

(* A scrape of level l's thread comes back, and goes to l's lists; the     *)
(* thread goes on until it has been told to stop.                          *)
(* Readings of an idle engine are left out.                                *)
Reading(r) == IF at[r] = "bench" THEN {level[r]} ELSE {}
ScrapeLands_OneSampler(r, l) ==
    /\ l \in scraping[r]
    /\ samples' = [samples EXCEPT ![r] = [k \in Level |-> @[k] \cup Reading(r)]]
    /\ scraping' = [scraping EXCEPT ![r] = IF at[r] = "bench" /\ l = level[r] THEN @ ELSE @ \ {l}]
    /\ UNCHANGED <<at, level, counter, restarts, made, began, before, bench, rows, disk, torn, s3, exit, clock>>
ScrapeLands(r, l) ==
    /\ l \in scraping[r]
    /\ samples' = [samples EXCEPT ![r][l] = @ \cup Reading(r)]
    /\ scraping' = [scraping EXCEPT ![r] = IF at[r] = "bench" /\ l = level[r] THEN @ ELSE @ \ {l}]
    /\ UNCHANGED <<at, level, counter, restarts, made, began, before, bench, rows, disk, torn, s3, exit, clock>>

(* The join ends, in time or because a scrape hangs.                       *)
Joined(r) == level[r] \notin scraping[r] \/ "slow" \in Faults

LevelFails(r) ==
    /\ at[r] = "joining" /\ Joined(r) /\ bench[r] = None
    /\ Goes(r, "next")
    /\ UNCHANGED <<level, counter, restarts, made, began, before, scraping, samples, bench, rows, disk, torn, s3, exit, clock>>

(* The row: to memory, then to the end of the file.  A write that fails    *)
(* leaves nothing or part of a line, and no upload at this level; the next *)
(* row then goes on in that line, and nobody can read it.                  *)
Record(r) ==
    /\ at[r] = "joining" /\ Joined(r) /\ bench[r] # None
    /\ \E c \in Scraped(r) :
         LET tokens == Tokens(bench[r], EngineDelta(before[r], c)) IN
         rows' = [rows EXCEPT ![r] = Append(@,
            [level |-> level[r], started |-> began[r], tokens |-> tokens,
             tele |-> samples[r][level[r]], status |-> Status(tokens)])]
    /\ \/ /\ disk' = IF torn[r] THEN disk ELSE [disk EXCEPT ![r] = Append(@, Last(rows'[r]))]
          /\ torn' = [torn EXCEPT ![r] = FALSE]
          /\ Goes(r, "upload")
       \/ /\ "disk" \in Faults
          /\ \E part \in BOOLEAN : torn' = [torn EXCEPT ![r] = @ \/ part]
          /\ Goes(r, "next")
          /\ UNCHANGED disk
    /\ UNCHANGED <<level, counter, restarts, made, began, before, scraping, samples, bench, s3, exit, clock>>

(* Best effort, the whole file under one key.                              *)
Put(r) ==
    \/ s3' = [s3 EXCEPT ![r] = disk[r]]
    \/ "upload" \in Faults /\ UNCHANGED s3

Upload(r) ==
    /\ at[r] = "upload"
    /\ Put(r)
    /\ Goes(r, "next")
    /\ UNCHANGED <<level, counter, restarts, made, began, before, scraping, samples, bench, rows, disk, torn, exit, clock>>

(* After the last level: no row at all is an error; otherwise the file is  *)
(* emptied and written anew from memory, and an empty measurement is an    *)
(* error.  A write that fails leaves the first rows: with the old file,    *)
(* if it cannot even be opened, those it had.                              *)
ExitCode(r) ==
    IF rows[r] = <<>> \/ (\E i \in DOMAIN rows[r] : rows[r][i].status = "error") THEN 1 ELSE 0
RewriteFails(r) ==
    /\ "disk" \in Faults /\ rows[r] # <<>>
    /\ \/ UNCHANGED disk
       \/ \E n \in 0..Len(rows[r]) : disk' = [disk EXCEPT ![r] = SubSeq(rows[r], 1, n)]
    /\ exit' = [exit EXCEPT ![r] = 1]
Finish_Appends(r) ==
    /\ at[r] = "next" /\ level[r] = Levels
    /\ \/ /\ disk' = [disk EXCEPT ![r] = @ \o rows[r]]
          /\ exit' = [exit EXCEPT ![r] = ExitCode(r)]
       \/ RewriteFails(r)
    /\ Goes(r, "exited")
    /\ Forget(r)
    /\ UNCHANGED <<s3, clock>>
Finish(r) ==
    /\ at[r] = "next" /\ level[r] = Levels
    /\ \/ /\ disk' = [disk EXCEPT ![r] = rows[r]]
          /\ exit' = [exit EXCEPT ![r] = ExitCode(r)]
       \/ RewriteFails(r)
    /\ Goes(r, "exited")
    /\ Forget(r)
    /\ UNCHANGED <<s3, clock>>

(* The container uploads the file once more, whatever the exit code.       *)
FinalUpload(r) ==
    /\ at[r] = "exited"
    /\ IF disk[r] = None THEN UNCHANGED s3 ELSE Put(r)
    /\ Goes(r, "over")
    /\ UNCHANGED <<level, counter, restarts, made, began, before, scraping, samples, bench, rows, disk, torn, exit, clock>>

(* The pod goes, and its disk with it; backoffLimit is 0.                  *)
PodDies(r) ==
    /\ "pod" \in Faults /\ at[r] \notin {"over", "dead"}
    /\ disk' = [disk EXCEPT ![r] = None]
    /\ Goes(r, "dead")
    /\ Forget(r)
    /\ UNCHANGED <<s3, exit, clock>>

Tick ==
    /\ clock < LastTick /\ clock' = clock + 1
    /\ UNCHANGED <<at, level, counter, restarts, made, began, before, scraping, samples, bench,
                   rows, disk, torn, s3, exit>>

Sweep(r) ==
    \/ Ready(r) \/ NotReady(r) \/ BeginLevel(r) \/ Generate(r) \/ EngineRestarts(r)
    \/ BenchEnds(r) \/ LevelFails(r) \/ Record(r) \/ Upload(r) \/ Finish(r)
    \/ FinalUpload(r) \/ PodDies(r)
    \/ \E l \in Level : ScrapeLands(r, l)

===============================================================================
