------------------------------ MODULE Scheduler ------------------------------
(***************************************************************************)
(* vllm/v1/core/sched/scheduler.py under SchedulingPolicy.GAMBIT: the      *)
(* waiting and running queues, the score-ordered schedule() loop that ends *)
(* the lowest-scoring request when the KV cache is full, and the           *)
(* bookkeeping of finished requests towards the worker and the client.     *)
(*                                                                         *)
(* schedule() is one call, split here into the iterations of its two loops *)
(* by the variable phase:                                                  *)
(*                                                                         *)
(*    "idle"      between calls: requests may be added and aborted;        *)
(*    "running"   in the loop over self.running;                           *)
(*    "waiting"   in the loop over self.waiting;                           *)
(*    "scheduled" schedule() has returned and the batch is executing, until*)
(*                update_from_output.                                      *)
(***************************************************************************)
EXTENDS TraceIds, FiniteSetsExt

CONSTANTS MaxRunning,           \* max_num_running_reqs
          TokenBudget,          \* max_num_scheduled_tokens
          MaxLen,               \* max_model_len
          PromptLen,            \* root -> tokens of its prompt
          Arrival,              \* root -> arrival_time
          Scores                \* values an average score takes

ASSUME SchedulerAssumption ==
    /\ MaxRunning \in Nat \ {0}
    /\ TokenBudget \in Nat \ {0}
    /\ MaxLen \in Nat \ {0}
    /\ PromptLen \in [Roots -> 1 .. MaxLen - 1]
    /\ Arrival \in [Roots -> Nat]
    /\ Scores \subseteq Int

VARIABLES requests,             \* live requests: id -> Request
          waiting,              \* queue of ids, FCFS
          running,              \* list of ids
          sched_scores,         \* Scheduler.trace_scores: id -> average score
          finished_req_ids,     \* finished since the last schedule()
          pending_pruned,       \* ids of pending_pruned_outputs
          worker_requests,      \* ids the model runner holds a state for
          phase,
          req_index,            \* 1-based position in running
          token_budget,
          num_scheduled,        \* num_scheduled_tokens of the current batch
          scheduled_new,        \* scheduled_new_reqs of the current batch
          admitted,             \* history: every id ever added
          aborted,              \* history: ids ended by finish_requests
          evicted,              \* history: ids ended by _stop_lowest_running
          reported              \* history: ids whose finish was sent to the client

queueVars == <<requests, waiting, running, finished_req_ids>>
loopVars == <<phase, req_index, token_budget, num_scheduled, scheduled_new>>
historyVars == <<admitted, aborted, evicted, reported>>
schedVars == <<queueVars, loopVars, historyVars,
               sched_scores, pending_pruned, worker_requests>>

\* A Request: its tokens so far (prompt and output), how many of them have
\* their KV computed, and the arrival time it shares with its siblings.
Request(n, time) == [num_tokens |-> n, computed |-> 0, arrival |-> time]

Live == DOMAIN requests

Scheduled == DOMAIN num_scheduled

SchedInit ==
    /\ requests = EmptyDict /\ waiting = <<>> /\ running = <<>>
    /\ sched_scores = EmptyDict
    /\ finished_req_ids = {} /\ pending_pruned = {} /\ worker_requests = {}
    /\ phase = "idle" /\ req_index = 1 /\ token_budget = 0
    /\ num_scheduled = EmptyDict /\ scheduled_new = {}
    /\ admitted = {} /\ aborted = {} /\ evicted = {} /\ reported = {}

HasRequests == Len(waiting) + Len(running) > 0 \/ finished_req_ids # {}

-----------------------------------------------------------------------------
(***************************************************************************)
(* Entry points used between two batches, and by the engine core while a   *)
(* batch is executing.                                                     *)
(***************************************************************************)
AddRequest(id, request) ==
    /\ waiting' = Append(waiting, id)
    /\ requests' = Update(requests, [i \in {id} |-> request])
    /\ admitted' = admitted \cup {id}
    /\ UNCHANGED <<running, finished_req_ids, loopVars, aborted, evicted, reported,
                   sched_scores, pending_pruned, worker_requests>>

\* The list of what a queue holds at the places p names, in the order of p.
ReadAt(queue, p) == [i \in DOMAIN p |-> queue[p[i]]]

\* rest is the queue without the ids, in the same order.
RemoveAll(queue, ids, rest) ==
    LET kept == {i \in DOMAIN queue : queue[i] \notin ids}
        n == Cardinality(kept)
    IN  \E p \in Bijection(1 .. n, kept) :
            /\ \A i, j \in 1 .. n : i < j => p[i] < p[j]
            /\ rest = ReadAt(queue, p)

\* _free_request and _free_blocks, for every id of a set.
FreeRequests(ids) ==
    /\ requests' = Drop(requests, ids)
    /\ finished_req_ids' = finished_req_ids \cup ids

\* Seeded fault: a request aborted while it waits stays in the queue.
FinishRunningOnly(ids) ==
    LET valid == ids \cap Live
    IN  /\ RemoveAll(running, valid, running')
        /\ FreeRequests(valid)
        /\ aborted' = aborted \cup valid
        /\ UNCHANGED <<waiting, loopVars, admitted, evicted, reported, sched_scores,
                       pending_pruned, worker_requests>>

FinishRequests(ids) ==
    LET valid == ids \cap Live
    IN  /\ RemoveAll(running, valid, running')
        /\ RemoveAll(waiting, valid, waiting')
        /\ FreeRequests(valid)
        /\ aborted' = aborted \cup valid
        /\ UNCHANGED <<loopVars, admitted, evicted, reported, sched_scores,
                       pending_pruned, worker_requests>>

\* An entry is never removed: a score outlives its request.
UpdateTraceScores(scores) == sched_scores' = Update(sched_scores, scores)

-----------------------------------------------------------------------------
(***************************************************************************)
(* schedule()                                                              *)
(***************************************************************************)
RequestScore(id) == Get(sched_scores, id, 0)

\* list.sort by (-score, arrival_time) is stable: position i of the old list
\* goes before position j.
Precedes(i, j) ==
    LET a == running[i] b == running[j]
    IN  \/ RequestScore(a) > RequestScore(b)
        \/ /\ RequestScore(a) = RequestScore(b)
           /\ \/ requests[a].arrival < requests[b].arrival
              \/ requests[a].arrival = requests[b].arrival /\ i < j

\* Seeded fault: the running list is not sorted.
KeepRunningOrder == running' = running

OrderRunningByScore ==
    \E p \in Bijection(1 .. Len(running), 1 .. Len(running)) :
        /\ \A i, j \in 1 .. Len(running) : i < j => Precedes(p[i], p[j])
        /\ running' = ReadAt(running, p)

ScheduleStart ==
    /\ phase = "idle"
    /\ HasRequests
    /\ OrderRunningByScore
    /\ phase' = "running"
    /\ req_index' = 1
    /\ token_budget' = TokenBudget
    /\ num_scheduled' = EmptyDict
    /\ scheduled_new' = {}
    /\ UNCHANGED <<requests, waiting, finished_req_ids, historyVars,
                   sched_scores, pending_pruned, worker_requests>>

\* One iteration of the first loop looks at running[req_index].
RunningLoop == phase = "running" /\ req_index <= Len(running) /\ token_budget > 0

\* Seeded fault: the token budget is not applied.
NumNewTokensUnbudgeted(request, computed) ==
    Min({request.num_tokens - computed, MaxLen - 1 - computed})

NumNewTokens(request, computed) ==
    Min({request.num_tokens - computed, token_budget, MaxLen - 1 - computed})

\* allocate_slots succeeds.  num_new_tokens is never 0 here, so the continue for
\* it is not reached (ScheduleAssertions).
ScheduleRunning ==
    /\ RunningLoop
    /\ LET id == running[req_index]
           n == NumNewTokens(requests[id], requests[id].computed)
       IN  /\ num_scheduled' = Update(num_scheduled, [i \in {id} |-> n])
           /\ token_budget' = token_budget - n
    /\ req_index' = req_index + 1
    /\ UNCHANGED <<queueVars, historyVars, phase, scheduled_new,
                   sched_scores, pending_pruned, worker_requests>>

\* allocate_slots found no free block.  The cache is sized for one request of
\* max_model_len tokens (checked when it is created), so this cannot happen to
\* a request that runs alone.
CacheMayBeFull == Len(running) > 1

\* What list.pop() leaves.
Popped(queue) == SubSeq(queue, 1, Len(queue) - 1)

\* Seeded fault: the first request of the order is ended.
StopHighestRunning ==
    /\ RunningLoop
    /\ CacheMayBeFull
    /\ running' = Tail(running)
    /\ FreeRequests({Head(running)})
    /\ pending_pruned' = pending_pruned \cup {Head(running)}
    /\ evicted' = evicted \cup {Head(running)}
    /\ UNCHANGED <<waiting, loopVars, admitted, aborted, reported, sched_scores,
                   worker_requests>>

\* Seeded fault: the allocation is not retried after the eviction.
StopLowestAndBreak ==
    /\ RunningLoop
    /\ CacheMayBeFull
    /\ running' = Popped(running)
    /\ FreeRequests({running[Len(running)]})
    /\ pending_pruned' = pending_pruned \cup {running[Len(running)]}
    /\ evicted' = evicted \cup {running[Len(running)]}
    /\ phase' = "waiting"
    /\ UNCHANGED <<waiting, req_index, token_budget, num_scheduled, scheduled_new,
                   admitted, aborted, reported, sched_scores, worker_requests>>

\* _stop_lowest_running ends the last request of the order.  The loop retries
\* the allocation, or breaks when the victim is the very request it looks at.
StopLowestRunning ==
    /\ RunningLoop
    /\ CacheMayBeFull
    /\ LET victim == running[Len(running)]
       IN  /\ running' = Popped(running)
           /\ FreeRequests({victim})
           /\ pending_pruned' = pending_pruned \cup {victim}
           /\ evicted' = evicted \cup {victim}
           /\ phase' = IF req_index = Len(running) THEN "waiting" ELSE "running"
    /\ UNCHANGED <<waiting, req_index, token_budget, num_scheduled, scheduled_new,
                   admitted, aborted, reported, sched_scores, worker_requests>>

RunningDone ==
    /\ phase = "running"
    /\ ~RunningLoop
    /\ phase' = "waiting"
    /\ UNCHANGED <<queueVars, historyVars, req_index, token_budget, num_scheduled,
                   scheduled_new, sched_scores, pending_pruned, worker_requests>>

\* Seeded fault: the limit on running requests is not checked.
WaitingLoopUnlimited == phase = "waiting" /\ waiting # <<>> /\ token_budget > 0

WaitingLoop ==
    /\ phase = "waiting"
    /\ waiting # <<>>
    /\ token_budget > 0
    /\ Len(running) # MaxRunning

\* The prefix cache already holds hit tokens of the request, never its last.
AdmitWaiting(hit) ==
    /\ WaitingLoop
    /\ LET id == Head(waiting)
           n == Min({requests[id].num_tokens - hit, token_budget})
       IN  /\ hit < requests[id].num_tokens
           /\ waiting' = Tail(waiting)
           /\ running' = Append(running, id)
           /\ requests' = [requests EXCEPT ![id].computed = hit]
           /\ num_scheduled' = Update(num_scheduled, [i \in {id} |-> n])
           /\ scheduled_new' = scheduled_new \cup {id}
           /\ token_budget' = token_budget - n
    /\ UNCHANGED <<finished_req_ids, historyVars, phase, req_index,
                   sched_scores, pending_pruned, worker_requests>>

\* _update_after_schedule advances the computed tokens and forgets the finished
\* ids, which the output has already taken over.
UpdateAfterSchedule ==
    /\ requests' = [i \in Live |->
                      [requests[i] EXCEPT !.computed = @ + Get(num_scheduled, i, 0)]]
    /\ finished_req_ids' = {}

\* Seeded fault: the worker ignores which requests finished.
KeepStates == worker_requests' = worker_requests \cup scheduled_new

\* The model runner's _update_states, before it runs the batch.
UpdateStates == worker_requests' = (worker_requests \ finished_req_ids) \cup scheduled_new

\* The second loop ends, with allocate_slots failing if requests could still be
\* admitted, which it cannot do to a request that is alone; schedule() returns
\* and the batch is handed to the worker.
ScheduleDone ==
    /\ phase = "waiting"
    /\ WaitingLoop => running # <<>>
    /\ phase' = "scheduled"
    /\ UpdateAfterSchedule
    /\ UpdateStates
    /\ UNCHANGED <<waiting, running, req_index, token_budget, num_scheduled,
                   scheduled_new, historyVars, sched_scores, pending_pruned>>

-----------------------------------------------------------------------------
(***************************************************************************)
(* update_from_output: the requests in emitted get one token, those in     *)
(* stopped among them finish; the outputs of the requests evicted by       *)
(* schedule() travel with this batch.                                      *)
(***************************************************************************)
Sampled == {i \in Scheduled \cap Live : requests[i].computed = requests[i].num_tokens}

\* Seeded fault: the length limit is not checked.
NeverReachesMaxLen(ids) == {}

ReachesMaxLen(ids) == {i \in ids : requests[i].num_tokens + 1 >= MaxLen}

\* Seeded fault: the outputs of evicted requests are sent but kept.
UpdateKeepingPruned(emitted, stopped) ==
    /\ RemoveAll(running, stopped, running')
    /\ requests' = [i \in Live \ stopped |->
                       IF i \in emitted
                       THEN [requests[i] EXCEPT !.num_tokens = @ + 1]
                       ELSE requests[i]]
    /\ finished_req_ids' = finished_req_ids \cup stopped
    /\ reported' = reported \cup stopped \cup pending_pruned
    /\ phase' = "idle"
    /\ req_index' = 1 /\ token_budget' = 0
    /\ num_scheduled' = EmptyDict /\ scheduled_new' = {}
    /\ UNCHANGED <<pending_pruned, waiting, admitted, aborted, evicted, sched_scores,
                   worker_requests>>

\* Seeded fault: a stopped request is not freed.
UpdateWithoutFree(emitted, stopped) ==
    /\ running' = running
    /\ requests' = requests
    /\ finished_req_ids' = finished_req_ids \cup stopped
    /\ reported' = reported \cup stopped \cup pending_pruned
    /\ pending_pruned' = {}
    /\ phase' = "idle"
    /\ req_index' = 1 /\ token_budget' = 0
    /\ num_scheduled' = EmptyDict /\ scheduled_new' = {}
    /\ UNCHANGED <<waiting, admitted, aborted, evicted, sched_scores, worker_requests>>

UpdateFromOutput(emitted, stopped) ==
    /\ RemoveAll(running, stopped, running')
    /\ requests' = [i \in Live \ stopped |->
                       IF i \in emitted
                       THEN [requests[i] EXCEPT !.num_tokens = @ + 1]
                       ELSE requests[i]]
    /\ finished_req_ids' = finished_req_ids \cup stopped
    /\ reported' = reported \cup stopped \cup pending_pruned
    /\ pending_pruned' = {}
    /\ phase' = "idle"
    /\ req_index' = 1 /\ token_budget' = 0
    /\ num_scheduled' = EmptyDict /\ scheduled_new' = {}
    /\ UNCHANGED <<waiting, admitted, aborted, evicted, sched_scores, worker_requests>>

-----------------------------------------------------------------------------
(***************************************************************************)
(* The scheduler on its own.  Its environment adds each root once, aborts  *)
(* requests between two batches, changes scores while a batch executes and *)
(* decides which sampled requests stop before they reach max_model_len.    *)
(***************************************************************************)
ClientAdd(r) ==
    /\ phase = "idle"
    /\ RootId(r) \notin admitted
    /\ AddRequest(RootId(r), Request(PromptLen[r], Arrival[r]))

ClientAbort(ids) ==
    /\ phase = "idle"
    /\ ids # {}
    /\ FinishRequests(ids)

ScoreBatch(scores) ==
    /\ phase = "scheduled"
    /\ UpdateTraceScores(scores)
    /\ UNCHANGED <<queueVars, loopVars, historyVars, pending_pruned, worker_requests>>

FinishBatch(natural) ==
    /\ phase = "scheduled"
    /\ UpdateFromOutput(Sampled, natural \cup ReachesMaxLen(Sampled))

Schedule ==
    \/ ScheduleStart
    \/ ScheduleRunning
    \/ StopLowestRunning
    \/ RunningDone
    \/ \E hit \in 0 .. MaxLen : AdmitWaiting(hit)
    \/ ScheduleDone

Batch == Schedule \/ \E natural \in SUBSET Sampled : FinishBatch(natural)

SchedNext ==
    \/ \E r \in Roots : ClientAdd(r)
    \/ \E ids \in SUBSET Live : ClientAbort(ids)
    \/ \E s \in [Scheduled -> Scores] : ScoreBatch(s)
    \/ Batch

SchedSpec == SchedInit /\ [][SchedNext]_schedVars

-----------------------------------------------------------------------------
\* The type invariant of the scheduler.
SchedTypeOK ==
    /\ DOMAIN requests \subseteq Ids
    /\ \A i \in Live : requests[i] \in [num_tokens : Nat, computed : Nat, arrival : Nat]
    /\ waiting \in Seq(Ids) /\ running \in Seq(Ids)
    /\ \A i \in DOMAIN sched_scores : sched_scores[i] \in Int
    /\ finished_req_ids \subseteq Ids /\ pending_pruned \subseteq Ids
    /\ worker_requests \subseteq Ids
    /\ phase \in {"idle", "running", "waiting", "scheduled"}
    /\ req_index \in Nat \ {0} /\ token_budget \in Nat
    /\ Scheduled \subseteq Ids /\ scheduled_new \subseteq Ids
    /\ admitted \subseteq Ids /\ aborted \subseteq Ids
    /\ evicted \subseteq Ids /\ reported \subseteq Ids

\* Every live request is in exactly one place of one queue, and the queues hold
\* nothing else: no entry survives _free_blocks, none is lost by remove_all.
QueuesPartitionRequests ==
    /\ IsInjective(running) /\ IsInjective(waiting)
    /\ Range(running) \cap Range(waiting) = {}
    /\ Range(running) \cup Range(waiting) = Live

\* A request that already has its place in the batch being built is never the
\* victim of a later allocation, so _update_after_schedule finds every scheduled
\* id in self.requests and update_from_output removes it from running.
ScheduledStayRunning == Scheduled \subseteq Range(running)

\* Every request ever admitted is live, or was aborted, or has had its finish
\* sent to the client, or is evicted with its finish queued: exactly one of the
\* four, so none is lost and none is reported twice.
EveryRequestAccountedFor ==
    /\ admitted = Live \cup aborted \cup reported \cup pending_pruned
    /\ Live \cap (aborted \cup reported \cup pending_pruned) = {}
    /\ aborted \cap (reported \cup pending_pruned) = {}
    /\ reported \cap pending_pruned = {}

\* The model runner's cached states follow the scheduler: every scheduled
\* request has one when the batch runs (_update_states looks it up), and a state
\* whose request has ended is one the next schedule() will tell it to drop.
WorkerInSync ==
    /\ phase = "scheduled" => Scheduled \subseteq worker_requests
    /\ worker_requests \subseteq Live \cup finished_req_ids

\* Assertions of the code: every scheduled request has at least one token when
\* update_from_output starts, and schedule() keeps the running list to its limit.
ScheduleAssertions ==
    /\ \A i \in Scheduled : num_scheduled[i] > 0
    /\ Len(running) <= MaxRunning

\* The tokens of the batch, each a request and its place among the request's new
\* ones: total_num_scheduled_tokens of them.
BatchTokens == UNION {{i} \X (1 .. num_scheduled[i]) : i \in Scheduled}

\* The assertion of schedule() on total_num_scheduled_tokens: the batch keeps to
\* the budget through chunked prefills, evictions and prefix-cache hits.
BatchWithinBudget == Cardinality(BatchTokens) <= TokenBudget

\* schedule() never returns an empty batch while requests are running: evicting
\* the lowest ones frees the cache for the best one.
BatchMakesProgress ==
    phase = "scheduled" /\ running # <<>> => Scheduled # {}

\* The request ended for lack of memory has the lowest score of all that run.
EvictsTheLowest ==
    [][\A v \in pending_pruned' \ pending_pruned :
         \A i \in Range(running') : RequestScore(v) <= RequestScore(i)]_schedVars

-----------------------------------------------------------------------------
(***************************************************************************)
(* The inductive invariant behind the safety properties: what the loops of *)
(* schedule() have done so far, the token counts that keep num_new_tokens  *)
(* positive, and what the worker has been told.                            *)
(***************************************************************************)
LoopInv ==
    /\ phase = "idle" => Scheduled = {} /\ scheduled_new = {}
    /\ phase = "running" =>
         /\ req_index <= Len(running) + 1
         /\ Scheduled = {running[i] : i \in 1 .. req_index - 1}
         /\ scheduled_new = {}
         /\ \A i, j \in DOMAIN running :
               i < j => RequestScore(running[i]) >= RequestScore(running[j])
    /\ Len(running) <= MaxRunning

TokenInv ==
    /\ \A i \in Live :
         /\ requests[i].num_tokens < MaxLen
         /\ requests[i].computed <= requests[i].num_tokens
         /\ \/ phase = "scheduled" /\ i \in Scheduled
            \/ requests[i].computed < requests[i].num_tokens
    /\ \A i \in Scheduled :
         /\ num_scheduled[i] \in Nat \ {0}
         /\ phase \in {"running", "waiting"} =>
              requests[i].computed + num_scheduled[i] <= requests[i].num_tokens

WorkerInv ==
    /\ finished_req_ids \subseteq aborted \cup reported \cup pending_pruned
    /\ Range(running) \subseteq worker_requests \cup scheduled_new
    /\ phase = "scheduled" => Range(running) \subseteq worker_requests
    /\ scheduled_new \subseteq Range(running)

\* The invariant every step of the scheduler preserves: the five properties above
\* and, with them, that the batch under construction is a prefix of the sorted
\* running list, that a request between batches has a token left to compute, and
\* that the worker knows or is being told of every running request.
SchedInv ==
    /\ SchedTypeOK /\ QueuesPartitionRequests /\ ScheduledStayRunning
    /\ EveryRequestAccountedFor /\ WorkerInSync
    /\ LoopInv /\ TokenInv /\ WorkerInv

\* What the loops of schedule() keep about the size of the batch: the tokens taken
\* and the budget left add up, and an empty batch leaves nothing running once the
\* first loop is over.
BatchInv ==
    /\ IsFiniteSet(BatchTokens) /\ BatchWithinBudget
    /\ phase \in {"running", "waiting"} =>
         Cardinality(BatchTokens) + token_budget = TokenBudget
    /\ phase \in {"waiting", "scheduled"} /\ running # <<>> => Scheduled # {}
=============================================================================
