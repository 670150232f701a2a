---------------------------- MODULE GambitClient ----------------------------
(***************************************************************************)
(* LLM.generate() with Gambit enabled: the frontend loop of                *)
(* vllm/entrypoints/llm.py, LLMEngine and its OutputProcessor, the request *)
(* fan-out of n > 1 samples, and the two ways to reach the engine core     *)
(* (vllm/v1/engine/core_client.py):                                        *)
(*                                                                         *)
(*    Multiprocess      SyncMPClient: the engine core is a process of its  *)
(*                      own that steps by itself; requests, aborts and     *)
(*                      utility calls go to it through a queue, its        *)
(*                      outputs come back through another;                 *)
(*    ~Multiprocess     InprocClient: each get_output() steps the engine   *)
(*                      and takes the one output of that step.             *)
(*                                                                         *)
(* The engine core is reduced to what the frontend can tell apart: which   *)
(* requests the scheduler holds, which traces ended and how.  One of its   *)
(* steps may end requests by eviction or by a stop, and branch; that every *)
(* request ends is a result about the engine (EngineDrains in              *)
(* GambitEngine) and a fairness assumption here.                           *)
(***************************************************************************)
EXTENDS Integers, Sequences, FiniteSets

CONSTANTS Configs,              \* configurations, one of which is chosen
          N,                    \* samples of a prompt
          NumPrompts,           \* bound: calls of generate()
          MaxBranches,          \* bound: branches of a prompt
          MaxOutputs            \* bound: outputs waiting for the frontend

ASSUME ClientAssumption ==
    /\ N \in Nat \ {0} /\ NumPrompts \in Nat /\ MaxBranches \in Nat
    /\ MaxOutputs \in Nat \ {0}
    /\ Configs \subseteq [multiprocess : BOOLEAN, stop_strings : BOOLEAN]

VARIABLES config,               \* VLLM_ENABLE_V1_MULTIPROCESSING and whether the
                                \* sampling parameters have stop strings
          pc,                   \* where the frontend is
          prompt,               \* number of the current generate() call
          request_states,       \* OutputProcessor.request_states
          child_requests,       \* ParentRequest.child_requests
          returned,             \* RequestOutputs finished in this call
          reqs_to_abort,        \* ended by a stop string, still in the engine
          stored,               \* LLMEngine._gambit_tree_export
          exported,             \* result of get_gambit_tree_export()
          inbox,                \* messages to the engine process
          outbox,               \* outputs_queue: what its steps sent back
          reply,                \* result of the utility call under way
          live,                 \* ids in the scheduler's queues
          unsent,               \* finished_req_ids is not empty
          ghosts,               \* active in the trace tree, not in the scheduler
          completed,            \* completed in the trace tree
          branch_counter

clientVars == <<config, pc, prompt, request_states, child_requests, returned,
                reqs_to_abort, stored, exported>>
queueVars == <<inbox, outbox, reply>>
engineVars == <<live, unsent, ghosts, completed, branch_counter>>
vars == <<clientVars, queueVars, engineVars>>

\* No export, and the result of a utility call that returns nothing.
None == [count |-> -1, completed |-> {}]
Done == [count |-> -2, completed |-> {}]

\* get_child_info: "{index}_{request_id}", as TraceIds spells branch ids.
Samples(p) == {<<i, p>> : i \in 1 .. N}

PromptOf(id) == id[Len(id)]

Multiprocess == config.multiprocess
StopStrings == config.stop_strings

Init ==
    /\ config \in Configs
    /\ pc = "returned" /\ prompt = 0
    /\ request_states = {} /\ child_requests = {} /\ returned = 0
    /\ reqs_to_abort = {}
    /\ stored = None /\ exported = None
    /\ inbox = <<>> /\ outbox = <<>> /\ reply = None
    /\ live = {} /\ unsent = FALSE /\ ghosts = {} /\ completed = {}
    /\ branch_counter = 0

-----------------------------------------------------------------------------
(***************************************************************************)
(* The engine core                                                         *)
(***************************************************************************)
\* Seeded fault: the traces the tree believes in are counted.
TreeActiveCount == Cardinality(live \cup ghosts)

SchedulerActiveCount == Cardinality(live)

TreeExport == [count |-> SchedulerActiveCount, completed |-> completed]

HasRequests == live # {} \/ unsent

\* Seeded fault: the export is taken before the finished traces are marked.
ExportBefore(active, done) == [count |-> Cardinality(active), completed |-> completed]

\* The export that travels with a step in which requests finished.
ExportAfter(active, done) == [count |-> Cardinality(active), completed |-> done]

Nothing == [finished |-> {}, decoded |-> {}, export |-> None]

\* get_output() steps the engine, or the engine's process does.
StepDue ==
    IF Multiprocess
    THEN Len(outbox) < MaxOutputs
    ELSE /\ outbox = <<>> /\ reqs_to_abort = {}
         /\ pc = "drain" \/ (pc = "main" /\ request_states # {})

\* The process sends no empty output; the in-process client makes one up.
Emit(msg) ==
    outbox' = IF msg = Nothing /\ Multiprocess THEN outbox ELSE Append(outbox, msg)

\* EngineCore.step() with requests: some are evicted, never all; one may branch;
\* some stop, of which those in pruned were told to.  Those in decoded get a
\* token.
StepWith(evicted, stopped, pruned, children, decoded) ==
    LET active == (live \ (evicted \cup stopped)) \cup children
        done == completed \cup (stopped \ pruned)
    IN  /\ live' = active
        /\ unsent' = (stopped # {})
        /\ ghosts' = ghosts \cup evicted
        /\ completed' = done
        /\ branch_counter' = branch_counter + Cardinality(children)
        /\ Emit([finished |-> evicted \cup stopped,
                 decoded |-> decoded,
                 export |-> IF stopped = {} THEN None ELSE ExportAfter(active, done)])

\* The child of one of the traces in parents, or none.
Children(parents) ==
    {{}} \cup IF branch_counter < MaxBranches
              THEN {{<<branch_counter>> \o p} : p \in parents}
              ELSE {}

Step ==
    /\ StepDue
    /\ live # {}
    /\ \E evicted \in SUBSET live \ {live} :
       \E stopped \in SUBSET (live \ evicted) :
       \E pruned \in SUBSET stopped :
       LET left == live \ (evicted \cup stopped) IN
       \E children \in Children(left \cup (stopped \ pruned)), decoded \in {{}, left} :
          StepWith(evicted, stopped, pruned, children, decoded)
    /\ UNCHANGED <<clientVars, inbox, reply>>

\* A step that only tells the worker which requests ended.
StepEmpty ==
    /\ StepDue
    /\ live = {} /\ unsent
    /\ unsent' = FALSE
    /\ Emit(Nothing)
    /\ UNCHANGED <<clientVars, inbox, reply, live, ghosts, completed, branch_counter>>

\* A step without any request marks the leftover active traces as pruned.  The
\* busy loop of the process does not step then.
StepWithoutRequests ==
    /\ StepDue
    /\ ~Multiprocess
    /\ ~HasRequests
    /\ ghosts' = {}
    /\ Emit(Nothing)
    /\ UNCHANGED <<clientVars, inbox, reply, live, unsent, completed, branch_counter>>

AbortRequests(ids) ==
    /\ live' = live \ ids
    /\ unsent' = (unsent \/ ids \cap live # {})
    /\ ghosts' = ghosts \cup (ids \cap live)
    /\ UNCHANGED <<completed, branch_counter>>

\* Skipped while the scheduler still has requests.
ResetGambitState ==
    IF live = {}
    THEN /\ ghosts' = {} /\ completed' = {} /\ branch_counter' = 0
         /\ UNCHANGED <<live, unsent>>
    ELSE UNCHANGED engineVars

-----------------------------------------------------------------------------
(***************************************************************************)
(* The engine process: its busy loop and the handler of client requests    *)
(***************************************************************************)
Send(messages) == inbox' = inbox \o messages

HandleAdd ==
    /\ inbox # <<>> /\ Head(inbox).type = "add"
    /\ live' = live \cup Head(inbox).ids
    /\ inbox' = Tail(inbox)
    /\ UNCHANGED <<clientVars, outbox, reply, unsent, ghosts, completed, branch_counter>>

HandleAbort ==
    /\ inbox # <<>> /\ Head(inbox).type = "abort"
    /\ AbortRequests(Head(inbox).ids)
    /\ inbox' = Tail(inbox)
    /\ UNCHANGED <<clientVars, outbox, reply>>

HandleExport ==
    /\ inbox # <<>> /\ Head(inbox).type = "export"
    /\ reply' = TreeExport
    /\ inbox' = Tail(inbox)
    /\ UNCHANGED <<clientVars, outbox, engineVars>>

HandleReset ==
    /\ inbox # <<>> /\ Head(inbox).type = "reset"
    /\ ResetGambitState
    /\ reply' = Done
    /\ inbox' = Tail(inbox)
    /\ UNCHANGED <<clientVars, outbox>>

-----------------------------------------------------------------------------
(***************************************************************************)
(* The frontend                                                            *)
(***************************************************************************)
\* reset_gambit_state(), which callers do before the next question.
CallReset ==
    /\ pc = "returned"
    /\ prompt < NumPrompts
    /\ stored' = None
    /\ IF Multiprocess
       THEN /\ Send(<<[type |-> "reset", ids |-> {}]>>)
            /\ pc' = "resetting"
            /\ UNCHANGED engineVars
       ELSE /\ ResetGambitState
            /\ pc' = "ready"
            /\ UNCHANGED inbox
    /\ UNCHANGED <<config, prompt, request_states, child_requests, returned, reqs_to_abort,
                   exported, outbox, reply>>

ResetReturns ==
    /\ pc = "resetting"
    /\ reply # None
    /\ reply' = None
    /\ pc' = "ready"
    /\ UNCHANGED <<config, prompt, request_states, child_requests, returned, reqs_to_abort,
                   stored, exported, inbox, outbox, engineVars>>

\* generate(): add_request() fans the prompt out into its samples.
Generate ==
    /\ pc = "ready"
    /\ pc' = "main"
    /\ prompt' = prompt + 1
    /\ request_states' = Samples(prompt')
    /\ child_requests' = Samples(prompt')
    /\ returned' = 0
    /\ exported' = None
    /\ IF Multiprocess
       THEN /\ Send([i \in 1 .. N |-> [type |-> "add", ids |-> {<<i, prompt'>>}]])
            /\ UNCHANGED live
       ELSE live' = live \cup Samples(prompt') /\ UNCHANGED inbox
    /\ UNCHANGED <<config, reqs_to_abort, stored, outbox, reply, unsent, ghosts, completed,
                   branch_counter>>

\* Seeded fault: every sample that ends finishes the RequestOutput.
FinishedPerSample(ended) == Cardinality(ended)

\* make_request_output(): with the last of the samples, in FINAL_ONLY mode.
FinishedOutputs(ended) ==
    IF child_requests \cap ended # {} /\ child_requests \subseteq ended THEN 1 ELSE 0

\* process_outputs(): outputs of unknown requests are skipped.  Those in stops
\* are found to contain a stop string.
ProcessOutputs(msg, stops) ==
    LET ended == request_states \cap (msg.finished \cup stops)
    IN  /\ stored' = IF msg.export = None THEN stored ELSE msg.export
        /\ request_states' = request_states \ ended
        /\ child_requests' = child_requests \ ended
        /\ returned' = returned + FinishedOutputs(ended)
        /\ reqs_to_abort' = stops

\* LLMEngine.step(), up to the aborts.
TakeOutput ==
    /\ pc = "drain" \/ (pc = "main" /\ request_states # {})
    /\ outbox # <<>>
    /\ reqs_to_abort = {}
    /\ LET msg == Head(outbox)
       IN  \E stops \in IF StopStrings THEN SUBSET (request_states \cap msg.decoded)
                        ELSE {{}} :
              ProcessOutputs(msg, stops)
    /\ outbox' = Tail(outbox)
    /\ pc' = IF pc = "drain" THEN "poll" ELSE "main"
    /\ UNCHANGED <<config, prompt, exported, inbox, reply, engineVars>>

\* LLMEngine.step(), the aborts.
AbortStopped ==
    /\ reqs_to_abort # {}
    /\ reqs_to_abort' = {}
    /\ IF Multiprocess
       THEN Send(<<[type |-> "abort", ids |-> reqs_to_abort]>>) /\ UNCHANGED engineVars
       ELSE AbortRequests(reqs_to_abort) /\ UNCHANGED inbox
    /\ UNCHANGED <<config, pc, prompt, request_states, child_requests, returned, stored,
                   exported, outbox, reply>>

MainLoopEnds ==
    /\ pc = "main"
    /\ request_states = {} /\ reqs_to_abort = {}
    /\ pc' = "poll"
    /\ UNCHANGED <<config, prompt, request_states, child_requests, returned, reqs_to_abort,
                   stored, exported, queueVars, engineVars>>

\* Seeded fault: what the outputs brought is believed in every mode.
StoredExport == FALSE

\* A live export is asked of the engine core when the client can call utilities.
LiveExport == Multiprocess

\* _drain_counts() and the test of the drain loop.
Decide(export) ==
    /\ exported' = export
    /\ pc' = IF export.count > 0 THEN "drain" ELSE "returned"

CallExport ==
    /\ pc = "poll" /\ reqs_to_abort = {}
    /\ LiveExport
    /\ Send(<<[type |-> "export", ids |-> {}]>>)
    /\ pc' = "polling"
    /\ UNCHANGED <<config, prompt, request_states, child_requests, returned, reqs_to_abort,
                   stored, exported, outbox, reply, engineVars>>

ExportReturns ==
    /\ pc = "polling"
    /\ reply # None
    /\ reply' = None
    /\ Decide(reply)
    /\ UNCHANGED <<config, prompt, request_states, child_requests, returned, reqs_to_abort,
                   stored, inbox, outbox, engineVars>>

LocalExport ==
    /\ pc = "poll" /\ reqs_to_abort = {}
    /\ ~LiveExport
    /\ Decide(IF stored # None \/ Multiprocess THEN stored ELSE TreeExport)
    /\ UNCHANGED <<config, prompt, request_states, child_requests, returned, reqs_to_abort,
                   stored, queueVars, engineVars>>

-----------------------------------------------------------------------------
Handle == HandleAdd \/ HandleAbort \/ HandleExport \/ HandleReset

Frontend ==
    \/ CallReset \/ ResetReturns \/ Generate
    \/ TakeOutput \/ AbortStopped \/ MainLoopEnds
    \/ CallExport \/ ExportReturns \/ LocalExport

Next == Handle \/ Step \/ StepEmpty \/ StepWithoutRequests \/ Frontend

\* Threads and the busy loop run.  A request does not run forever: the engine
\* drains whatever it holds.
Progress ==
    /\ WF_vars(Handle) /\ WF_vars(Frontend)
    /\ WF_vars(StepEmpty) /\ WF_vars(StepWithoutRequests)
    /\ WF_vars(Step)
    /\ SF_vars(Step /\ live' \subseteq live /\ live' # live)

Spec == Init /\ [][Next]_vars /\ Progress

-----------------------------------------------------------------------------
(***************************************************************************)
(* Properties                                                              *)
(***************************************************************************)
\* generate() returns one finished RequestOutput for its prompt, made when the
\* last sample ends: outputs that arrive late, from branches or from the
\* previous prompt, and samples both sides end add or lose none.
SamplesReturnedOnce ==
    /\ returned = (IF prompt > 0 /\ child_requests = {} THEN 1 ELSE 0)
    /\ child_requests = request_states
    /\ request_states \subseteq Samples(prompt)

\* When generate() returns, the scheduler holds nothing, the branches the
\* frontend never heard of included, so the reset before the next prompt is not
\* skipped and blocks no longer belong to anyone.
ReturnsDrained == pc \in {"returned", "ready"} => live = {}

\* The tree export at the return has every completed trace of this prompt, the
\* branches included, and none of an earlier one.
ExportIsComplete ==
    pc = "returned" /\ prompt > 0 =>
        /\ exported # None
        /\ exported.completed = completed
        /\ \A id \in completed : PromptOf(id) = prompt

\* generate() returns: no lost wake-up between the engine's outputs, the aborts
\* and the polls of the drain loop.  In process, without stop strings.
GenerateReturns ==
    (pc = "main" /\ (Multiprocess \/ ~StopStrings)) ~> (pc = "returned")

\* generate() returns in every configuration.
GenerateAlwaysReturns == (pc = "main") ~> (pc = "returned")
=============================================================================
