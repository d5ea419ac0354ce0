---------------------------- MODULE ReplicaServer -----------------------------
(***************************************************************************)
(* One NxDI replica (vllm/models/qwen3-5-9b-nxdi/server.py): requests are  *)
(* admitted into a queue, an asyncio task collects them into batches, a    *)
(* thread decodes a batch in lock-step, and clients are answered through   *)
(* futures or token by token through streams.                              *)
(*                                                                         *)
(* The thread reaches the event loop through call_soon_threadsafe only:    *)
(* calls is the loop's queue of callbacks, in order.  Tokens are counted,  *)
(* not spelled.  The text of a row may end inside a multi-byte character   *)
(* after any token; such a token is a "part".                              *)
(***************************************************************************)
EXTENDS Integers, Sequences, FiniteSets

CONSTANTS
    Requests,      \* requests clients may send
    Asks,          \* what the requests may be, a set of functions to records of Ask
    SeqLen,        \* seq_len of the compiled artifact
    MaxContext,    \* max_context_length
    MaxBatch,      \* max_batch_size, the compiled decode batch
    Samples        \* what the device may sample, a subset of SampleKinds

(* prompt: tokens of the prompt; tokens: max_tokens, or the default.       *)
Ask == [prompt: Nat, tokens: Nat \ {0}, ignoreEos: BOOLEAN, stream: BOOLEAN]

(* A token after which the text is whole, one inside a character, an end   *)
(* of sequence, an id outside the vocabulary.                              *)
SampleKinds == {"whole", "part", "eos", "invalid"}

ASSUME RequestsAssumption == IsFiniteSet(Requests)
ASSUME AsksAssumption == Asks \subseteq [Requests -> Ask]
ASSUME SamplesAssumption == Samples \subseteq SampleKinds /\ Samples # {}
ASSUME ShapeAssumption ==
    SeqLen \in Nat /\ MaxContext \in 1..SeqLen /\ MaxBatch \in Nat \ {0}

VARIABLES
    ask,       \* request -> what it asks for
    status,    \* request -> how far it has come
    queue,     \* _queue: requests nobody has taken yet
    batch,     \* items: the batch being collected or decoded
    loop,      \* where _batch_loop is
    thread,    \* what the decoding thread is doing
    step,      \* decode steps done for the batch
    rows,      \* request -> its _RowState
    calls,     \* callbacks the thread has posted to the event loop
    stream,    \* request -> events in its stream queue
    got,       \* request -> tokens its SSE generator has read, and sent the text of
    serving    \* uvicorn accepts connections

vars == <<ask, status, queue, batch, loop, thread, step, rows, calls, stream, got, serving>>

Lesser(a, b) == IF a <= b THEN a ELSE b
Elements(seq) == {seq[i] : i \in DOMAIN seq}

(* admit(): an empty prompt, one past the compiled context, and one that   *)
(* leaves no room are refused; max_tokens is cut to the room left.         *)
Room(r) == SeqLen - ask[r].prompt - 1
Admissible(r) == ask[r].prompt \in 1..MaxContext /\ Room(r) >= 1
Limit(r) == Lesser(ask[r].tokens, Room(r))

Statuses == {"new", "waiting", "refused", "ok", "failed", "left"}
Reasons == {"length", "stop", "error"}
Post == [to: Requests, what: {"whole", "part", "eos"}]
Return == [what: {"returned", "raised"}]
StreamEvents == {"whole", "part", "eos", "done", "error"}

TypeOK ==
    /\ ask \in Asks
    /\ status \in [Requests -> Statuses]
    /\ queue \in Seq(Requests)
    /\ batch \in Seq(Requests) /\ Len(batch) <= MaxBatch
    /\ loop \in {"idle", "window", "decode", "stopped"}
    /\ thread \in {"off", "decode"}
    /\ step \in Nat
    /\ rows \in [Requests -> [tokens: Nat, done: BOOLEAN, reason: Reasons]]
    /\ calls \in Seq(Post \cup Return)
    /\ stream \in [Requests -> Seq(StreamEvents)]
    /\ got \in [Requests -> [read: Nat, sent: Nat]]
    /\ serving \in BOOLEAN

(* The artifact is loaded and start_worker() has run: uvicorn serves       *)
(* nothing before.                                                         *)
Init ==
    /\ ask \in Asks
    /\ status = [r \in Requests |-> "new"]
    /\ queue = <<>>
    /\ batch = <<>>
    /\ loop = "idle"
    /\ thread = "off"
    /\ step = 0
    /\ rows = [r \in Requests |-> [tokens |-> 0, done |-> FALSE, reason |-> "length"]]
    /\ calls = <<>>
    /\ stream = [r \in Requests |-> <<>>]
    /\ got = [r \in Requests |-> [read |-> 0, sent |-> 0]]
    /\ serving = TRUE

(***************************************************************************)
(* Handlers: _run() admits a request or answers 400, and puts it on the    *)
(* queue, which has no bound.                                              *)
(***************************************************************************)
Arrive(r) ==
    /\ serving /\ status[r] = "new"
    /\ IF Admissible(r)
       THEN /\ status' = [status EXCEPT ![r] = "waiting"]
            /\ queue' = Append(queue, r)
       ELSE /\ status' = [status EXCEPT ![r] = "refused"]
            /\ UNCHANGED queue
    /\ UNCHANGED <<ask, batch, loop, thread, step, rows, calls, stream, got, serving>>

(* A client that closes its stream ends the generator; the request stays   *)
(* where it is, in the queue or in the batch.                              *)
ClientLeaves(r) ==
    /\ ask[r].stream /\ status[r] = "waiting"
    /\ status' = [status EXCEPT ![r] = "left"]
    /\ UNCHANGED <<ask, queue, batch, loop, thread, step, rows, calls, stream, got, serving>>

(* _sse(): one event of the stream.  A token whose text ends inside a      *)
(* character is kept back until another one completes it; an end of        *)
(* sequence that was appended decodes to nothing, so it completes nothing. *)
SseReads(r) ==
    /\ ask[r].stream /\ status[r] = "waiting" /\ stream[r] # <<>>
    /\ stream' = [stream EXCEPT ![r] = Tail(@)]
    /\ LET event == Head(stream[r])
           read == got[r].read + 1 IN
       \/ /\ event = "whole" \/ (event = "eos" /\ got[r].sent = got[r].read)
          /\ got' = [got EXCEPT ![r] = [read |-> read, sent |-> read]]
          /\ UNCHANGED status
       \/ /\ event = "part" \/ (event = "eos" /\ got[r].sent < got[r].read)
          /\ got' = [got EXCEPT ![r].read = read]
          /\ UNCHANGED status
       \/ /\ event \in {"done", "error"}
          /\ status' = [status EXCEPT ![r] = IF event = "done" THEN "ok" ELSE "failed"]
          /\ UNCHANGED got
    /\ UNCHANGED <<ask, queue, batch, loop, thread, step, rows, calls, serving>>

(***************************************************************************)
(* _batch_loop(): one request starts a batch, more join it until it is     *)
(* full or the window is over.                                             *)
(***************************************************************************)
LoopTakesFirst ==
    /\ loop = "idle" /\ queue # <<>>
    /\ batch' = <<Head(queue)>>
    /\ queue' = Tail(queue)
    /\ loop' = "window"
    /\ UNCHANGED <<ask, status, thread, step, rows, calls, stream, got, serving>>

WindowTakes ==
    /\ loop = "window" /\ Len(batch) < MaxBatch /\ queue # <<>>
    /\ batch' = Append(batch, Head(queue))
    /\ queue' = Tail(queue)
    /\ UNCHANGED <<ask, status, loop, thread, step, rows, calls, stream, got, serving>>

WindowEnds_DropsDrained ==
    /\ loop = "window"
    /\ \E k \in {0, Lesser(MaxBatch - Len(batch), Len(queue))} :
          /\ UNCHANGED batch
          /\ queue' = SubSeq(queue, k + 1, Len(queue))
    /\ loop' = "decode" /\ thread' = "decode" /\ step' = 0
    /\ UNCHANGED <<ask, status, rows, calls, stream, got, serving>>

WindowEnds_DrainsAll ==
    /\ loop = "window"
    /\ \E k \in {0, Len(queue)} :
          /\ batch' = batch \o SubSeq(queue, 1, k)
          /\ queue' = SubSeq(queue, k + 1, Len(queue))
    /\ loop' = "decode" /\ thread' = "decode" /\ step' = 0
    /\ UNCHANGED <<ask, status, rows, calls, stream, got, serving>>

(* The window ends in wait_for's timeout, which takes nothing more, or is  *)
(* found over, which drains what is queued into the room that is left.     *)
WindowEnds ==
    /\ loop = "window"
    /\ \E k \in {0, Lesser(MaxBatch - Len(batch), Len(queue))} :
          /\ batch' = batch \o SubSeq(queue, 1, k)
          /\ queue' = SubSeq(queue, k + 1, Len(queue))
    /\ loop' = "decode" /\ thread' = "decode" /\ step' = 0
    /\ UNCHANGED <<ask, status, rows, calls, stream, got, serving>>

(***************************************************************************)
(* _process_batch() in its thread: every row decodes in every step.  The   *)
(* prompts are padded to the longest, and the budget is the batch's.       *)
(***************************************************************************)
Most(S) == CHOOSE m \in S : \A n \in S : n <= m
Padded == Most({ask[r].prompt : r \in Elements(batch)})
Budget_FullContext == Most({Limit(r) : r \in Elements(batch)})
Budget ==
    LET fits == Lesser(Most({Limit(r) : r \in Elements(batch)}), SeqLen - Padded - 1)
    IN IF fits >= 1 THEN fits ELSE 1

Generating == thread = "decode" /\ step < Budget /\ \E r \in Elements(batch) : ~rows[r].done

(* _StepTracker: what one sampled token does to a row, and whether its     *)
(* text goes to the stream.                                                *)
Appends(r, sample) ==
    /\ ~rows[r].done
    /\ sample \in {"whole", "part"} \/ (sample = "eos" /\ ask[r].ignoreEos)

Stepped_NoLimit(r, sample) ==
    LET n == rows[r].tokens + 1 IN
    IF Appends(r, sample) THEN [rows[r] EXCEPT !.tokens = n]
    ELSE IF rows[r].done THEN rows[r]
    ELSE [rows[r] EXCEPT !.done = TRUE,
                         !.reason = IF sample = "invalid" THEN "error" ELSE "stop"]

Stepped_AfterDone(r, sample) ==
    LET n == rows[r].tokens + 1 IN
    IF sample \in {"whole", "part"}
    THEN [rows[r] EXCEPT !.tokens = n, !.done = (n >= Limit(r))]
    ELSE IF rows[r].done THEN rows[r]
    ELSE [rows[r] EXCEPT !.done = TRUE,
                         !.reason = IF sample = "invalid" THEN "error" ELSE "stop"]

Stepped(r, sample) ==
    LET n == rows[r].tokens + 1 IN
    IF Appends(r, sample) THEN [rows[r] EXCEPT !.tokens = n, !.done = (n >= Limit(r))]
    ELSE IF rows[r].done THEN rows[r]
    ELSE [rows[r] EXCEPT !.done = TRUE,
                         !.reason = IF sample = "invalid" THEN "error" ELSE "stop"]

(* The rows of a step whose tokens go to streams, in the order of the      *)
(* batch.                                                                  *)
Hearing(samples) ==
    {i \in DOMAIN batch : ask[batch[i]].stream /\ Appends(batch[i], samples[batch[i]])}
InOrder(I) ==
    {f \in [1..Cardinality(I) -> I] : \A m, n \in DOMAIN f : m < n => f[m] < f[n]}

DecodeStep ==
    /\ Generating
    /\ step' = step + 1
    /\ \E samples \in [Elements(batch) -> Samples] :
          /\ rows' = [r \in Requests |->
                        IF r \in Elements(batch) THEN Stepped(r, samples[r]) ELSE rows[r]]
          /\ \E heard \in InOrder(Hearing(samples)) :
                calls' = calls \o [n \in 1..Cardinality(Hearing(samples)) |->
                            [to |-> batch[heard[n]], what |-> samples[batch[heard[n]]]]]
    /\ UNCHANGED <<ask, status, queue, batch, loop, thread, stream, got, serving>>

ThreadReturns_Ahead ==
    /\ thread = "decode" /\ ~Generating
    /\ thread' = "off"
    /\ calls' = <<[what |-> "returned"]>> \o calls
    /\ UNCHANGED <<ask, status, queue, batch, loop, step, rows, stream, got, serving>>

ThreadReturns ==
    /\ thread = "decode" /\ ~Generating
    /\ thread' = "off"
    /\ calls' = Append(calls, [what |-> "returned"])
    /\ UNCHANGED <<ask, status, queue, batch, loop, step, rows, stream, got, serving>>

(* generate() may raise at any step: a device error takes the whole batch. *)
DeviceFails ==
    /\ thread = "decode"
    /\ thread' = "off"
    /\ calls' = Append(calls, [what |-> "raised"])
    /\ UNCHANGED <<ask, status, queue, batch, loop, step, rows, stream, got, serving>>

(***************************************************************************)
(* The event loop runs the callbacks in order.                             *)
(***************************************************************************)
TokenReachesStream ==
    /\ calls # <<>> /\ loop # "stopped"
    /\ LET call == Head(calls) IN
       /\ call.what \in {"whole", "part", "eos"}
       /\ stream' = [stream EXCEPT ![call.to] = Append(@, call.what)]
    /\ calls' = Tail(calls)
    /\ UNCHANGED <<ask, status, queue, batch, loop, thread, step, rows, got, serving>>

BatchResumes_StreamsOnly ==
    /\ calls # <<>> /\ loop # "stopped"
    /\ Head(calls).what \in {"returned", "raised"}
    /\ LET failed == Head(calls).what = "raised" IN
       /\ stream' = [r \in Requests |->
             IF r \in Elements(batch) /\ ask[r].stream
             THEN Append(stream[r], IF failed THEN "error" ELSE "done") ELSE stream[r]]
       /\ status' = [r \in Requests |->
             IF r \in Elements(batch) /\ ~ask[r].stream /\ ~failed THEN "ok" ELSE status[r]]
    /\ calls' = Tail(calls)
    /\ batch' = <<>>
    /\ loop' = "idle"
    /\ UNCHANGED <<ask, queue, thread, step, rows, got, serving>>

(* to_thread() returns or raises into the batch loop, which ends every     *)
(* stream of the batch and resolves every future.                          *)
BatchResumes ==
    /\ calls # <<>> /\ loop # "stopped"
    /\ Head(calls).what \in {"returned", "raised"}
    /\ LET failed == Head(calls).what = "raised" IN
       /\ stream' = [r \in Requests |->
             IF r \in Elements(batch) /\ ask[r].stream
             THEN Append(stream[r], IF failed THEN "error" ELSE "done") ELSE stream[r]]
       /\ status' = [r \in Requests |->
             IF r \in Elements(batch) /\ ~ask[r].stream
             THEN IF failed THEN "failed" ELSE "ok" ELSE status[r]]
    /\ calls' = Tail(calls)
    /\ batch' = <<>>
    /\ loop' = "idle"
    /\ UNCHANGED <<ask, queue, thread, step, rows, got, serving>>

(***************************************************************************)
(* SIGTERM: uvicorn stops accepting, waits for the responses it still owes *)
(* and then runs the lifespan's shutdown, which cancels the batch loop.    *)
(***************************************************************************)
Sigterm ==
    /\ serving
    /\ serving' = FALSE
    /\ UNCHANGED <<ask, status, queue, batch, loop, thread, step, rows, calls, stream, got>>

StopWorker ==
    /\ ~serving /\ loop # "stopped"
    /\ \A r \in Requests : status[r] # "waiting"
    /\ loop' = "stopped"
    /\ UNCHANGED <<ask, status, queue, batch, thread, step, rows, calls, stream, got, serving>>

-------------------------------------------------------------------------------

BatchLoop == LoopTakesFirst \/ WindowTakes \/ WindowEnds
Thread == DecodeStep \/ ThreadReturns \/ DeviceFails
Callbacks == TokenReachesStream \/ BatchResumes

Next ==
    \/ \E r \in Requests : Arrive(r) \/ ClientLeaves(r) \/ SseReads(r)
    \/ BatchLoop \/ Thread \/ Callbacks
    \/ Sigterm \/ StopWorker

(* The event loop and the thread run; the device steps or fails.  Clients  *)
(* and the operator need not do anything.                                  *)
Fairness ==
    /\ WF_vars(LoopTakesFirst) /\ WF_vars(WindowEnds)
    /\ WF_vars(Thread) /\ WF_vars(Callbacks) /\ WF_vars(StopWorker)
    /\ \A r \in Requests : WF_vars(SseReads(r))

Spec == Init /\ [][Next]_vars /\ Fairness

-------------------------------------------------------------------------------
(***************************************************************************)
(* What must hold.                                                         *)
(***************************************************************************)

(* The batch never decodes past the compiled context, whichever prompts    *)
(* met in it: the longest prompt and the steps together fit seq_len.       *)
ContextFits == thread = "decode" => Padded + step < SeqLen

(* A row never gets more tokens than its own request was admitted for,     *)
(* although all rows decode as long as the longest (server.py: each row is *)
(* still cut at its own max_tokens).                                       *)
OwnLimit == \A r \in Requests : rows[r].tokens > 0 => rows[r].tokens <= Limit(r)

(* A request whose client is waiting is somewhere: in the queue, in the    *)
(* batch, or its stream holds its end.  None is left when the batch loop   *)
(* has been cancelled.                                                     *)
NoRequestLost ==
    \A r \in Requests : status[r] = "waiting" =>
        /\ loop # "stopped"
        /\ \/ r \in Elements(queue)
           \/ r \in Elements(batch)
           \/ ask[r].stream /\ Elements(stream[r]) \cap {"done", "error"} # {}

(* A client whose stream ended well has read every token of its row: no    *)
(* token overtakes or is overtaken by the end on the way from the thread.  *)
EndIsLast ==
    \A r \in Requests :
        ask[r].stream /\ status[r] = "ok" => got[r].read = rows[r].tokens

(* A row that has stopped (end of sequence, its limit, an invalid token)   *)
(* keeps its tokens and its reason while the rest of the batch goes on.    *)
StopIsFinal ==
    [][\A r \in Requests : rows[r].done => rows'[r] = rows[r]]_vars

(* Every client that waits is answered, or leaves.                         *)
EveryoneAnswered ==
    \A r \in Requests : status[r] = "waiting" ~> status[r] # "waiting"

(* A shutdown ends with the batch loop stopped.                            *)
ShutdownEnds == ~serving ~> loop = "stopped"

Promise == INSTANCE Completions
    WITH Clients <- Requests,
         allowed <- [r \in Requests |-> Limit(r)],
         stage <- [r \in Requests |->
                      IF status[r] = "new" THEN "new"
                      ELSE IF status[r] = "waiting" THEN "open" ELSE "over"],
         received <- [r \in Requests |->
                      IF ask[r].stream THEN got[r].sent
                      ELSE IF status[r] = "ok" THEN rows[r].tokens ELSE 0]

(* The server keeps what Completions promises to each client.              *)
PromiseKept == Promise!Spec

===============================================================================
