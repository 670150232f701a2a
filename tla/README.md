# Verification of Gambit on the vLLM engine core

Gambit (`src/`, built on vLLM v0.11.1) runs a score-guided tournament beam search
over reasoning traces: every trace is a vLLM request, a scorer rates its hidden state
at step boundaries, low traces are pruned and high ones are branched while generation
goes on. This directory holds TLA+ models of the part that decides and keeps the books,
TLC configurations that check them on small instances, and proofs that TLAPS checks
for every instance.

## The system and what is modelled

| Part (source) | State it owns | Module | Status |
|---|---|---|---|
| Trace tree (`v1/engine/trace_tree.py`) | nodes, parents, active/completed/pruned, branch counter, cooldown | `TraceTree`, `TraceLifecycle` | modelled |
| Tournament round (`v1/engine/core.py:925`) | none: a function of ranking and capacity | `Tournament`, `TournamentRound` | modelled |
| Scheduler, policy GAMBIT (`v1/core/sched/scheduler.py`) | queues, requests, scores, finished ids, pruned outputs | `Scheduler` | partly |
| Engine core step (`v1/engine/core.py:422`) | trace scores, pending stops, token counts, scorer future | `GambitEngine` | partly |
| Busy loop and request handler (`core.py:2163`) | order of client requests and steps | `GambitEngine`, `GambitClient` | partly |
| Model runner cache (`v1/worker/gpu_model_runner.py:870`) | request states of the worker, where tokens are written | `Scheduler` (`worker_requests`), `KVCache` (`content`) | partly |
| Scorer trigger, result and histories (`gpu_model_runner.py:657`) | ids waiting for a score, hidden-state histories | `GambitEngine` (`pending_hs`, `future`, `histories`) | partly |
| `LLM.generate`, drain loop, tree export (`entrypoints/llm.py`, `v1/engine/llm_engine.py`) | stored export | `GambitClient` | modelled |
| Engine core clients (`v1/engine/core_client.py`) | queues to and from the engine process | `GambitClient` | partly |
| Output processor, parallel sampling (`v1/engine/output_processor.py`, `parallel_sampling.py`) | request states, remaining samples | `GambitClient` | partly |
| KV cache manager, block pool (`v1/core/kv_cache_manager.py`, `block_pool.py`) | blocks, reference counts, prefix cache | `KVCache` | partly |
| Weighted vote, models, kernels, API servers, executors, training | | | no |

`PROJECT.json` gives the source lines of every definition (`map`), the hazards, the
runs and the theorems.

The parts interact as follows. The client adds requests; the scheduler queues them and
in every `schedule()` builds a batch, ending the lowest-scoring running request when
no KV block is free. The worker runs the batch. The engine core then takes scores,
updates the tree, prunes (records a stop), branches (adds child requests), replaces
the sampled token of the stopped requests by EOS, lets the scheduler process the
tokens and finalises whatever finished. So the tree and the scheduler hold two views
of the same traces: a request that is evicted or aborted leaves the scheduler but
stays active in the tree, a *ghost*.

The frontend knows only the samples it asked for, not the branches. When its samples
have ended it therefore polls the exported tree and goes on stepping until the scheduler
has nothing left, and only then returns; callers reset the engine's Gambit state before the next
question. Below the scheduler, a branch starts with its parent's tokens as prompt and finds
the parent's blocks in the prefix cache, so blocks are shared and reference-counted.

## Modules

* `TraceIds`: request ids. The string `gambit_{n}_{parent}` is the
  path it encodes, `<<n>> \o parent`.
* `TraceTree`: the operations of the tree as operators on a record, used by the engine
  core, and a specification of the tree on its own (`TreeSpec`). Steps since the last
  branch saturate at the cooldown.
* `TraceLifecycle`: what the tree promises, a trace has at most one outcome and keeps
  it. `GambitEngine!TreeKeepsOutcomes` is the refinement.
* `Tournament`: ranking, excess prune, fill and swap of one round. `TournamentRound`
  applies them to every small pool and states what a round guarantees.
* `Scheduler`: `schedule()` cut into the iterations of its two loops (`phase`), with
  `add_request`, `finish_requests`, `update_trace_scores` and `update_from_output`.
  `SchedSpec` is the scheduler with an arbitrary environment.
* `GambitEngine`: `EngineCore` with Gambit, composing the three. `step()` is cut at the
  places where other state is consulted (`stage`); no client request is handled
  between the stages, as in the single engine thread. `histories` is the set of ids for
  which the worker keeps the hidden states of the sequence scorer.
* `KVCache`: block pool, prefix cache and `allocate_slots`/`free`, driven by the two loops
  of `schedule()` under any of the three policies. The hash of a block is the
  prefix it stands for; `content` is the prefix really computed into it.
* `GambitClient`: the frontend, the output processor, and either an engine process reached
  through two queues or an engine called in process. The engine core is reduced to
  which requests it holds and how traces end.
* `Dicts`: Python dictionaries as functions.
* `MCTraceTree`, `MCScheduler`, `MCGambitEngine`, `MCKVCache`, `MCGambitClient`: values of
  the constants for TLC.
* `ComponentProofs` (tree and scheduler), `TournamentProofs`, `TournamentRoundProofs`, `EngineLemmas`,
  `EngineProofs`, `GambitClientProofs`, `KVCachePoolProofs`, `KVCacheProofs`: theorems and lemmas.

Operators introduced by "Seeded fault" are mutated forms of a definition; they are used
by no specification and serve to show that each property can fail.

### Abstractions

* A score is the average the code keeps, any member of a small set after each new
  score; ties in a ranking may be broken either way, since the order of the Python
  dictionary behind it is not modelled.
* Token counts stop at the largest threshold they are compared with; the length
  limit stands for both `max_model_len` and `max_tokens`.
* In `Scheduler` an allocation may fail whenever another request runs, and never for a request
  that runs alone, which is `LoneRequestFits` of `KVCache`. A prefix hit is any length
  below the prompt's.
* In `KVCache` the order of the running list and the budget left are open, since any scores
  and any other requests may produce them; an id is used again after its request ended.
* In `GambitClient` a step of the engine may evict, stop and prune any requests and branch
  one of the others, also one that stops in the same step; several branches of one decision
  take as many steps. `MaxOutputs` bounds the outputs the frontend has not read.
* Chunked prefill is on; LoRA, encoder inputs, structured output, speculative decoding
  and KV connectors are off, and `min_tokens` is 0.
* Children beyond `MaxBranches` are refused, the bound on the otherwise unbounded tree.

## Runs

| Run | Shows |
|---|---|
| `trace_tree` | the tree is a forest that mirrors the ids, ids are fresh even after failed branches |
| `tournament_round` | a round prunes the lowest, comes back to capacity, leaves the pool full once its traces are warm, asks a pruned trace to branch only when no warm survivor is left (greedy parents) |
| `scheduler` | four requests: queues partition the live requests, no scheduled request is evicted, every request is reported once, worker and scheduler agree, the code's assertions, the inductive invariant |
| `engine_tournament` | tree, scheduler and histories through branches, evictions, aborts and resets, synchronous scorer; a decision keeps the best; the tree implements `TraceLifecycle` |
| `engine_threshold` | the legacy mode, with cooldown, late roots, stop after the first completion and a root that ignores EOS, under fair stepping: branches stay within capacity, a forced stop reaches every trace that heeds EOS, waiting ones included, the early return after it loses no history, and the engine runs dry |
| `engine_async` | scores that arrive a step late: outcomes are kept, and only the histories of a scoring in flight outlive a reset |
| `kv_cache` | blocks are neither leaked nor handed out twice, cached blocks hold what their hash says, every request attends to its own tokens, prefixes are cached without gaps, common prefixes are shared, one request always fits |
| `client` | `generate()` returns, once per prompt, with the scheduler drained and every completed branch in the export |

Bounds. The engine runs have two roots and two branches, which give a parent, its child, a
sibling and a grandchild. A capacity of two traces (three in `engine_threshold`) under a
running limit of three makes both the excess prune and the swap happen. Scores
{0, 1, 2} lie below, at and above the hard floor of 1; `engine_threshold` uses {0, 2} around
its thresholds of 1. Prompts of one token and a length limit of 4 (5 in `engine_async`,
where a score comes a step later) leave room for a prefill, a branch and a forced
stop; the token budget of 3 splits the prefill of a branch when others are scheduled
before it. `scheduler` has four requests for three running places, a budget of 4, a length
limit of 5 and prompts of two tokens, one of four: requests wait, are admitted in chunks
and are evicted; a running request can need more than the budget has left, and the
running limit can bind while budget is left. `tournament_round` takes every pool of up to four
scored and two unscored traces at capacity 3. `kv_cache` has three requests for three
usable blocks of two tokens and a length limit of 6, so that one request can need all of them, two
can share a prefix and a third must evict; a budget that may be 2, 3 or 6 ends chunks
inside and at the end of blocks. `client` has two samples, one branch per prompt, two
prompts, so that late outputs of the first meet the second, and one unread output.
Larger instances of `client` were explored once by hand without a violation: two unread
outputs (3.0 million states, liveness included), two branches (19.5 million states,
safety only).

Symmetry: the two roots of the tree and engine runs are interchangeable, in `scheduler` the
three that arrive together (`r3` arrives later), and in `kv_cache` the three requests. The runs with
liveness properties, `engine_threshold` and `client`, use none.

Deadlock is not checked in `scheduler`, which stops when every root has come and gone, in the
tournament rounds, which end after one round, and in the client runs, which end
after the last prompt.

Fairness. `FairSpec` of the engine core is weak fairness of `Step`: `run_busy_loop` calls `step()`
again as long as there are requests. Nothing is assumed of the client, the scorer's values or
the sampled tokens. `GambitClient` assumes weak fairness of the frontend thread, of the
request handler and of the engine's steps, and strong fairness of the steps that end
requests without adding one. The last stands for a result about the engine core,
`EngineDrains`. There `MaxBranches` ends the branching; in the code the length limit takes
that part, since a branch starts with all of its parent's tokens.

### Where code and comments disagree

Each of these runs is expected to fail; `findings` in `PROJECT.json` quotes the lines.

| Run | Property | What happens |
|---|---|---|
| `round_clamp` | `ScoredPoolSurvives` | the clamp on the excess still allows the whole scored pool to be pruned |
| `engine_reset` | `NoTraceFromEarlierPrompt` | an asynchronous scoring in flight survives the reset |
| `kv_priority` | `RunsOnItsOwnTokens` | under the priority policy a request preempted out of the batch leaves blocks in the prefix cache that nobody computed |
| `client_inproc` | `GenerateAlwaysReturns` | in process, after a stop string, the drain loop polls a stored export that no step refreshes |

Further behaviours that the models contain without a run of their own:

* A pruned request with `ignore_eos` leaves the pending stops when EOS is put in place of its
  token and keeps decoding to its length limit, so `PrunedTracesTerminate` is about the requests
  that honour EOS (`HonoursEos`); `engine_threshold` has both kinds.
* A branch pruned during a chunked prefill gets an EOS token although it sampled none
  (`Injected` need not be part of `Sampled`).
* With `tournament_branch_random` the parents are drawn from a list that still contains the traces
  the excess prune just removed (`core.py:1080`): `NoBranchIsWasted` and `PoolStaysFull` fail
  for `BranchRandom = TRUE`.
* `pending_hs_classification` is cleaned of `finished_req_ids` after `schedule()` has emptied
  that set (`core.py:652`), so ids of finished requests stay in it until the reset.
* With the asynchronous scorer `CompletedIsOver` fails: a score that arrives after its trace
  completed puts the trace back among the scored ones. If late scores count at once
  (`Warmup = 0`, or `MinTokensPrune = 0` in the threshold mode) the completed trace can even be
  pruned; the refinement is therefore checked and proved under `LateScoresAreCold`.
* `check_enough_kv_cache_memory` (`v1/core/kv_cache_utils.py:695`) counts the null block as one a
  request can have. With `NumGpuBlocks * BlockSize = MaxLen` exactly, the longest request may not
  fit; `LoneRequestFits` therefore has the condition
  `MaxLen - 1 <= (NumGpuBlocks - 1) * BlockSize`, which `kv_cache` meets.

## Proofs

All theorems hold for every value of the constants that the assumptions of the modules
allow; further conditions are hypotheses of the theorem.

`ComponentProofs`, the scheduler, from `SchedulerAssumption`:

* `SchedulerInvariant`: `SchedSpec => []SchedInv`, and from it type correctness,
  `QueuesPartitionRequests`, `ScheduledStayRunning`, `EveryRequestAccountedFor`,
  `WorkerInSync`, `ScheduleAssertions`;
* `EvictionIsLowest`: the action property `EvictsTheLowest`;
* `BatchInvariant`: `SchedSpec => []BatchInv`, and from it `BudgetHolds` (`BatchWithinBudget`) and
  `BatchIsNotEmpty` (`BatchMakesProgress`).

None of the properties is inductive alone. `ScheduledStayRunning` needs `LoopInv`: in the
first loop the batch is exactly the prefix of the sorted running list before `req_index`, so
the last element, the victim, is not in it. That the list stays sorted through the
evictions of the loop gives `EvictsTheLowest`. A positive token count needs
`TokenInv`: between batches every request has a token left to compute and stays below
the length limit, which in turn rests on what `update_from_output` does with sampled
requests. `WorkerInSync` needs `WorkerInv`: finished ids are never live, and a running
request is known to the worker or new in this batch. `SchedInv` is the conjunction; the
run `scheduler` checks it on an instance. The proof first settles the queues as sequences
(`AppendFacts`, `TailFacts`, `PoppedFacts`, `RemoveAllFacts`, `SortFacts`), then has one lemma
per operation, stated for arbitrary arguments where the engine core calls it with
others, and combines them.

`BatchInv` says that the tokens of the batch and the budget left add up to the configured
budget while the loops run, and that after the first loop an empty batch leaves nothing
running. The tokens are counted as the set of pairs `BatchTokens`, because a sum over a function
would need induction.

`ComponentProofs`, the tree: `TreeInvariant`, and from it `TraceTreeTypeOK`, `Forest` and
`BranchIdsFresh` of `TreeSpec`. Freshness of ids needs the invariant that every
branch, those whose request could not be created included, bears a number below the
counter, which a failed branch does not turn back.

`TournamentRoundProofs`, for any pool, capacity and swap size: `RoundPrunesTheLowest`,
`RoundRespectsCapacity` (`BackToCapacity`), and with greedy parents `RoundWastesNoBranch`
(`NoBranchIsWasted`) and `RoundKeepsPoolFull` (`PoolStaysFull`). The victims of a round are a tail of the ranking and the greedy parents come from
its front (`TournamentProofs`, shared with the engine), and a ranking is sorted. The pool stays
full because at most half of what the excess left is swapped out, so that the survivors, each
branching once, are enough: either none of the parents is a victim, or all survivors are parents.

`EngineProofs`, with the lemmas of `EngineLemmas` (operations on the tree, the calls into the
scheduler, scoring): `EngineInvariant`, that is `Spec => []EngineInv`, and from it

* `EngineKeepsScheduler`: the scheduler keeps `SchedInv` when the engine core drives it;
* `EngineStopsOnlyPruned`, and `EngineStopsThePruned` for every request that honours EOS;
* `EngineGhosts`: tree and scheduler differ by ghosts only;
* `EngineCompletedIsOver` and `EngineIsolatesPrompts`, with the synchronous scorer;
* `EngineKeepsHistories`: a trace that is ranked has its history at the worker; `EngineFreesHistories`:
  no history belongs to a trace that the tree will never hear of;
* `EngineWithinCapacity`, and `EngineKeepsTheBest` in tournament mode;
* `EngineImplementsLifecycle`: the refinement of `TraceLifecycle`, under `LateScoresAreCold`.

`EngineInv` joins `SchedInv` with `FlagsInv` (the flags of a node exclude each other), `KnownInv` (every
id the engine holds belonged to a request), `StageInv` (what the stages of `step()` have ready),
`NamesInv`, the tree's outcomes against the scheduler's requests (`StopInv`, `OverInv`, `GhostInv`) and
`WorkerHistoryInv`. `NamesInv` is why the scheduler's assumption that a new id was never used
survives the reset of the branch counter: requests alive descend from roots admitted after the
last reset, so a branch number that is used again comes with a new root in its path.
`WorkerHistoryInv` follows a history through a decision: a branch has its history or is about
to inherit it from a parent that still has one, and the clears and copies are handed to the
worker before the decision ends.

`GambitClientProofs`: `ClientInvariant`, that is `Spec => []ClientInv`, and from it

* `ClientReturnsOnce`: `SamplesReturnedOnce`;
* `ClientDrains`: `ReturnsDrained`, nothing is left in the engine when `generate()` returns;
* `ClientExportsAll`: `ExportIsComplete`.

They hold with an engine process and in process, for any number of samples, branches,
prompts and unread outputs. The argument of `ClientInv` is the order of the request queue
(`CallInv`): an unanswered utility call is the last message, so its answer finds all that was sent
before it done, and an export that counts no unfinished trace is final (`DrainInv`). In process,
`LocalInv` says the same of the export that the outputs brought.

`KVCachePoolProofs` (the first three) and `KVCacheProofs`, for any number of blocks, block size, length limit and
requests:

* `PoolAccounts`: `BlocksAccountedFor`, no block is leaked or handed out twice;
* `PoolSharesPrefix`: `CommonPrefixIsShared`;
* `PoolFitsOne`: `LoneRequestFits`, with the condition stated in it;
* `PoolLeavesNoGap`: `NoGapInTheCache`;
* `PoolCachesComputed` (`CachedIsComputed`) and `PoolRunsOnOwnTokens` (`RunsOnItsOwnTokens`), for every policy
  but `"priority"`, for which `kv_priority` shows the second to fail.

The first three rest on `PoolInv`: a block's reference count is the number of requests that hold it
and the free queue has exactly the blocks with none (`AccountInv`); the blocks a request counts
as cached carry the hash of its own tokens and the rest are its own (`HashInv`). `NoGapInTheCache` adds
`QueueInv`: the block before a free one in a prefix is held, or comes later in the queue and so is
evicted later; this is what the reversed order of `free` is for. The last two add
`ComputedInv`: `allocate_slots` puts blocks into the prefix cache before the batch computes them, so
the contents agree with the hashes only up to `Pending` blocks, the ones the present batch will
fill (`ContentInv`), and no two requests are to compute the same block (`WriterInv`). A policy that never
takes a request out of the batch leaves no `Pending` block behind.

Only model-checked: the liveness properties `EngineDrains` and `GenerateReturns`,
because fairness and `ENABLED` are beyond the prover. Every invariant and action property of the
passing runs has its theorem.

## Not modelled

* KV cache: sliding-window, Mamba and cross-attention managers, hybrid groups, connectors and
  events. Full attention in one group is the case in which branches share blocks as modelled.
* Scheduler: LoRA, encoder inputs, structured output, speculative decoding.
* Engine core: the batch queue of pipeline parallelism, data-parallel waves, a dead engine,
  performance counters, mining of training data.
* Frontend: the asynchronous and data-parallel clients, detokenisation, log probabilities.
* The weighted vote (`gambit/tests/benchmark_eval.py`): a sequential sum of floating-point weights
  over the export, without state. Which traces it sees is `ExportIsComplete`.
* What the scorers compute, training, models, kernels, distributed executors and API servers:
  numerical code or I/O, by far the largest part of the lines under `src/`, most of it inherited from vLLM
  unchanged.
