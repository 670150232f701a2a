------------------------------ MODULE KVCache ------------------------------
(***************************************************************************)
(* vllm/v1/core/block_pool.py, kv_cache_manager.py and the full-attention  *)
(* manager of single_type_kv_cache_manager.py: the pool of KV-cache blocks *)
(* with reference counts, the prefix cache that lets a Gambit branch share *)
(* the blocks of its parent, and the calls that Scheduler.schedule() makes *)
(* of them under the three scheduling policies.                            *)
(*                                                                         *)
(* The hash of a full block covers all the tokens up to its end (each hash *)
(* takes the one before it in), so the hash is modelled as that prefix.    *)
(* What a block really contains is the variable content, which the code    *)
(* has only on the GPU: the prefix whose keys and values were computed     *)
(* into the block last.                                                    *)
(*                                                                         *)
(* schedule() visits the running requests in an order that any scores may  *)
(* produce, and the budget it finds depends on those before it, so both    *)
(* are left open here.  An id is taken again after its request ended.      *)
(***************************************************************************)
EXTENDS Dicts, Sequences, FiniteSetsExt

CONSTANTS Requests,             \* request ids
          Tokens,               \* token ids a step samples
          Prompts,              \* prompts of the root requests
          BlockSize,            \* tokens in a block
          NumGpuBlocks,         \* blocks of the pool, null_block included
          MaxLen,               \* max_model_len
          Budgets,              \* token budgets a request may find left
          Policy                \* SchedulingPolicy

\* check_enough_kv_cache_memory at start-up: the memory holds one request of
\* max_model_len tokens.
ASSUME KVCacheAssumption ==
    /\ BlockSize \in Nat \ {0} /\ MaxLen \in Nat \ {0}
    /\ NumGpuBlocks \in Nat \ {0}
    /\ NumGpuBlocks * BlockSize >= MaxLen
    /\ Prompts \subseteq UNION {[1 .. n -> Tokens] : n \in 1 .. MaxLen - 1}
    /\ Budgets \subseteq Nat \ {0}
    /\ Policy \in {"gambit", "fcfs", "priority"}

VARIABLES free,                 \* free_block_queue, in eviction order
          ref_cnt,              \* block -> its reference count
          block_hash,           \* block -> its hash or NoHash
          cached,               \* cached_block_hash_to_block: hash -> its blocks
          req_to_blocks,        \* request -> its blocks
          num_cached_block,     \* request -> how many of them are cached
          tokens,               \* live request -> all_token_ids
          computed,             \* live request -> num_computed_tokens
          running,              \* set of running requests; the others wait
          phase,                \* "idle", or a loop of schedule()
          batch,                \* num_scheduled_tokens
          retry,                \* <<request, n>> whose allocation failed, or <<>>
          preempted,            \* preempted_reqs is not empty
          content               \* block -> prefix last computed into it

poolVars == <<free, ref_cnt, block_hash, cached>>
managerVars == <<req_to_blocks, num_cached_block>>
requestVars == <<tokens, computed, running>>
loopVars == <<phase, batch, retry, preempted>>
vars == <<poolVars, managerVars, requestVars, loopVars, content>>

\* Block 0 is taken out of the queue as null_block when the pool is built.
Blocks == 1 .. NumGpuBlocks - 1

NoHash == <<>>

Live == DOMAIN tokens

Waiting == Live \ running

\* The first n tokens of a request: the hash of the block they end in.
Prefix(r, n) == SubSeq(tokens[r], 1, n)

Cdiv(n) == (n + BlockSize - 1) \div BlockSize

Held(r) == Get(req_to_blocks, r, <<>>)

\* [x for x in list if x in set]: SelectSeq, written out so that it can be
\* reasoned about.
Kept(list, set) ==
    LET places == {i \in DOMAIN list : list[i] \in set}
        place(n) == CHOOSE i \in places : Cardinality({j \in places : j <= i}) = n
    IN  [n \in 1 .. Cardinality(places) |-> list[place(n)]]

Init ==
    /\ free = [i \in Blocks |-> i]
    /\ ref_cnt = [b \in Blocks |-> 0]
    /\ block_hash = [b \in Blocks |-> NoHash]
    /\ cached = EmptyDict
    /\ req_to_blocks = EmptyDict /\ num_cached_block = EmptyDict
    /\ tokens = EmptyDict /\ computed = EmptyDict /\ running = {}
    /\ phase = "idle" /\ batch = EmptyDict /\ retry = <<>> /\ preempted = FALSE
    /\ content = [b \in Blocks |-> <<>>]

-----------------------------------------------------------------------------
(***************************************************************************)
(* Looking up the prefix cache                                             *)
(***************************************************************************)
\* The last token is always recomputed, for its logits.
MaxHit(r) == (Len(tokens[r]) - 1) \div BlockSize

\* find_longest_cache_hit stops at the first hash that is not cached.
HitLength(r) ==
    Max({n \in 0 .. MaxHit(r) :
            \A k \in 1 .. n : Prefix(r, k * BlockSize) \in DOMAIN cached})

\* get_computed_blocks; of several blocks with a hash the oldest is taken.
ComputedBlocks(r) ==
    [k \in 1 .. HitLength(r) |-> Head(cached[Prefix(r, k * BlockSize)])]

-----------------------------------------------------------------------------
(***************************************************************************)
(* BlockHashToBlockMap                                                     *)
(***************************************************************************)
\* pop, for every block of a set.
WithoutBlocks(map, blocks) ==
    LET kept(h) == Kept(map[h], Blocks \ blocks)
    IN  [h \in {g \in DOMAIN map : kept(g) # <<>>} |-> kept(h)]

\* insert, for every entry of a dict from hashes to new blocks.
WithBlocks(map, new) ==
    Update(map, [h \in DOMAIN new |-> Append(Get(map, h, <<>>), new[h])])

-----------------------------------------------------------------------------
(***************************************************************************)
(* KVCacheManager.allocate_slots for n new tokens after the blocks hit.    *)
(***************************************************************************)
ComputedWith(r, hit) == computed[r] + Len(hit) * BlockSize

RequiredBlocks(r, hit, n) == Cdiv(Min({ComputedWith(r, hit) + n, MaxLen}))

\* Seeded fault: the hits are not subtracted.
NumBlocksWithHits(r, hit, n) ==
    RequiredBlocks(r, hit, n) - Len(Held(r))
        + Cardinality({k \in DOMAIN hit : ref_cnt[hit[k]] = 0})

\* A hit that is free stops being so, and counts as one to allocate.
NumBlocksToAllocate(r, hit, n) ==
    RequiredBlocks(r, hit, n) - Len(hit) - Len(Held(r))
        + Cardinality({k \in DOMAIN hit : ref_cnt[hit[k]] = 0})

CanAllocate(r, hit, n) == NumBlocksToAllocate(r, hit, n) <= Len(free)

\* Seeded fault: a hit that is free stays in the free queue.
TouchedInQueue(hit) == free

\* touch takes the hits that are free out of the queue.
Touched(hit) == Kept(free, Blocks \ Range(hit))

NumTokensToCache(r, hit, n) ==
    Min({ComputedWith(r, hit) + n, Len(tokens[r])})

\* Seeded fault: a block taken from the queue keeps its hash and cache entry.
EvictNone(blocks) == {}

\* get_new_blocks evicts what the blocks had cached.
MaybeEvictCached(blocks) == blocks

\* touch, save_new_computed_blocks, get_new_blocks and cache_full_blocks: full
\* blocks are cached now, before the batch computes them.
AllocateSlots(r, hit, n) ==
    LET queue == Touched(hit)
        num_new == Max({0, RequiredBlocks(r, hit, n) - Len(Held(r) \o hit)})
        new == SubSeq(queue, 1, num_new)
        blocks == Held(r) \o hit \o new
        evicted == MaybeEvictCached(Range(new))
        num_cached == Get(num_cached_block, r, Len(hit))
        num_full == Max({num_cached, NumTokensToCache(r, hit, n) \div BlockSize})
        filled == num_cached + 1 .. num_full
        end(h) == Len(h) \div BlockSize
        hashes == [h \in {Prefix(r, k * BlockSize) : k \in filled} |-> blocks[end(h)]]
    IN  /\ free' = SubSeq(queue, num_new + 1, Len(queue))
        /\ ref_cnt' = [b \in Blocks |->
                          IF b \in Range(hit \o new) THEN ref_cnt[b] + 1 ELSE ref_cnt[b]]
        /\ block_hash' = [b \in Blocks |->
                             IF \E h \in DOMAIN hashes : hashes[h] = b
                             THEN CHOOSE h \in DOMAIN hashes : hashes[h] = b
                             ELSE IF b \in evicted THEN NoHash ELSE block_hash[b]]
        /\ cached' = WithBlocks(WithoutBlocks(cached, evicted), hashes)
        /\ req_to_blocks' = Update(req_to_blocks, [q \in {r} |-> blocks])
        /\ num_cached_block' = Update(num_cached_block, [q \in {r} |-> num_full])
        /\ computed' = [computed EXCEPT ![r] = ComputedWith(r, hit)]
        /\ batch' = Update(batch, [q \in {r} |-> n])

\* Seeded fault: the blocks go to the queue in the order of the tokens.
FreedForward(r) == Held(r)

\* The last blocks are evicted first.
FreedOrder(r) == [i \in DOMAIN Held(r) |-> Held(r)[Len(Held(r)) + 1 - i]]

\* Seeded fault: a block is put in the queue while other requests hold it.
FreeAll(r) ==
    LET blocks == FreedOrder(r)
    IN  /\ ref_cnt' = [b \in Blocks |->
                          IF b \in Range(blocks) THEN ref_cnt[b] - 1 ELSE ref_cnt[b]]
        /\ free' = free \o blocks
        /\ req_to_blocks' = Drop(req_to_blocks, {r})
        /\ num_cached_block' = Drop(num_cached_block, {r})
        /\ UNCHANGED <<block_hash, cached>>

\* free: only blocks nobody else holds go back to the queue, and they stay
\* cached there.
Free(r) ==
    LET blocks == FreedOrder(r)
        unused == Kept(blocks, {b \in Blocks : ref_cnt[b] = 1})
    IN  /\ ref_cnt' = [b \in Blocks |->
                          IF b \in Range(blocks) THEN ref_cnt[b] - 1 ELSE ref_cnt[b]]
        /\ free' = free \o unused
        /\ req_to_blocks' = Drop(req_to_blocks, {r})
        /\ num_cached_block' = Drop(num_cached_block, {r})
        /\ UNCHANGED <<block_hash, cached>>

-----------------------------------------------------------------------------
(***************************************************************************)
(* Between two steps                                                       *)
(***************************************************************************)
AddRequest(r, toks) ==
    /\ r \notin Live
    /\ tokens' = Update(tokens, [q \in {r} |-> toks])
    /\ computed' = Update(computed, [q \in {r} |-> 0])
    /\ UNCHANGED <<poolVars, managerVars, running, loopVars, content>>

\* The end of a request, with all its state.
Forget(rs) ==
    /\ tokens' = Drop(tokens, rs)
    /\ computed' = Drop(computed, rs)
    /\ running' = running \ rs

AddRoot(r, prompt) == phase = "idle" /\ AddRequest(r, prompt)

AbortRequest(r) ==
    /\ phase = "idle"
    /\ r \in Live
    /\ Free(r)
    /\ Forget({r})
    /\ UNCHANGED <<loopVars, content>>

AllFree == Len(free) = NumGpuBlocks - 1

ResetPrefixCache ==
    /\ phase = "idle"
    /\ AllFree
    /\ cached' = EmptyDict
    /\ block_hash' = [b \in Blocks |-> NoHash]
    /\ UNCHANGED <<free, ref_cnt, managerVars, requestVars, loopVars, content>>

-----------------------------------------------------------------------------
(***************************************************************************)
(* The calls of schedule()                                                 *)
(***************************************************************************)
ScheduleStart ==
    /\ phase = "idle"
    /\ Live # {}
    /\ phase' = "running"
    /\ preempted' = FALSE
    /\ UNCHANGED <<poolVars, managerVars, requestVars, batch, retry, content>>

Unscheduled == running \ DOMAIN batch

\* num_new_tokens, when that many tokens are not computed yet.
NumNewTokens(missing) == {Min({missing, budget}) : budget \in Budgets}

ScheduleRunning(r, n) ==
    /\ phase = "running"
    /\ r \in Unscheduled
    /\ retry \in {<<>>, <<r, n>>}
    /\ CanAllocate(r, <<>>, n)
    /\ AllocateSlots(r, <<>>, n)
    /\ retry' = <<>>
    /\ UNCHANGED <<tokens, running, phase, preempted, content>>

\* _stop_lowest_running ends the last request of the order, and the default
\* policy preempts it.  The order is that of the loop, so it is a request the
\* loop has not reached.  Priority scheduling may pick one that was scheduled.
Victims == IF Policy = "priority" THEN running ELSE Unscheduled

\* No block is left for the next n tokens of r: the victim loses its blocks.
\* Unless the victim is r, its allocation is tried again.
TakeBlocksFrom(victim, r, n) ==
    /\ phase = "running"
    /\ r \in Unscheduled
    /\ retry \in {<<>>, <<r, n>>}
    /\ ~CanAllocate(r, <<>>, n)
    /\ victim \in Victims
    /\ Free(victim)
    /\ IF Policy = "gambit"
       THEN Forget({victim}) /\ UNCHANGED preempted
       ELSE /\ computed' = [computed EXCEPT ![victim] = 0]
            /\ running' = running \ {victim}
            /\ preempted' = TRUE
            /\ UNCHANGED tokens
    /\ batch' = Drop(batch, {victim})
    /\ phase' = IF victim = r THEN "waiting" ELSE "running"
    /\ retry' = IF victim = r THEN <<>> ELSE <<r, n>>
    /\ UNCHANGED content

RunningDone ==
    /\ phase = "running"
    /\ retry = <<>>
    /\ phase' = "waiting"
    /\ UNCHANGED <<poolVars, managerVars, requestVars, batch, retry, preempted, content>>

AdmitWaiting(r, n) ==
    /\ phase = "waiting"
    /\ ~preempted
    /\ r \in Waiting
    /\ CanAllocate(r, ComputedBlocks(r), n)
    /\ AllocateSlots(r, ComputedBlocks(r), n)
    /\ running' = running \cup {r}
    /\ UNCHANGED <<tokens, phase, retry, preempted, content>>

\* The loop breaks.  The allocation that failed has left an empty entry for the
\* request in req_to_blocks, which is a defaultdict.
AdmissionFails(r, n) ==
    /\ phase = "waiting"
    /\ ~preempted
    /\ r \in Waiting
    /\ ~CanAllocate(r, ComputedBlocks(r), n)
    /\ req_to_blocks' = Update(req_to_blocks, [q \in {r} |-> Held(r)])
    /\ phase' = "scheduled"
    /\ UNCHANGED <<poolVars, num_cached_block, requestVars, batch, retry, preempted, content>>

WaitingDone ==
    /\ phase = "waiting"
    /\ phase' = "scheduled"
    /\ UNCHANGED <<poolVars, managerVars, requestVars, batch, retry, preempted, content>>

-----------------------------------------------------------------------------
(***************************************************************************)
(* The batch                                                               *)
(***************************************************************************)
\* What the batch computes into block b on behalf of request r.
Writes(r, b) ==
    {Prefix(r, Min({k * BlockSize, computed[r] + batch[r]})) :
        k \in {j \in DOMAIN Held(r) :
                   /\ Held(r)[j] = b
                   /\ j * BlockSize > computed[r]
                   /\ (j - 1) * BlockSize < computed[r] + batch[r]}}

\* execute_model, and _update_after_schedule before it.  A block that two
\* requests write with different tokens holds neither prefix, and what is left
\* in a block that nobody can find any more is of no interest.
ExecuteModel ==
    /\ phase = "scheduled"
    /\ content' = [b \in Blocks |->
                       LET written == UNION {Writes(r, b) : r \in DOMAIN batch}
                       IN  IF written = {}
                           THEN IF ref_cnt[b] = 0 /\ block_hash[b] = NoHash
                                THEN <<>> ELSE content[b]
                           ELSE IF Cardinality(written) = 1
                                THEN CHOOSE w \in written : TRUE ELSE <<>>]
    /\ computed' = [r \in Live |-> computed[r] + Get(batch, r, 0)]
    /\ phase' = "executed"
    /\ UNCHANGED <<poolVars, managerVars, tokens, running, batch, retry, preempted>>

\* _gambit_create_branch, before the tokens of this step are appended.
AddBranch(child, parent) ==
    /\ phase = "executed"
    /\ Policy = "gambit"
    /\ parent \in Live
    /\ AddRequest(child, tokens[parent])

Sampled == {r \in DOMAIN batch : computed[r] = Len(tokens[r])}

\* update_from_output appends a token to the sampled requests; those in
\* stopped end with it, as does a request whose prompt is not computed yet when
\* the engine core has put EOS in place of its token.
UpdateFromOutput(new, stopped) ==
    /\ phase = "executed"
    /\ {r \in Sampled : Len(tokens[r]) + 1 >= MaxLen} \subseteq stopped
    /\ tokens' = [r \in Live |->
                     IF r \in DOMAIN new THEN Append(tokens[r], new[r]) ELSE tokens[r]]
    /\ batch' = [r \in stopped |-> batch[r]]
    /\ phase' = "stopping"
    /\ UNCHANGED <<poolVars, managerVars, computed, running, retry, preempted, content>>

\* _free_request of one of them.
FreeStopped(r) ==
    /\ phase = "stopping"
    /\ r \in DOMAIN batch
    /\ Free(r)
    /\ Forget({r})
    /\ batch' = Drop(batch, {r})
    /\ UNCHANGED <<phase, retry, preempted, content>>

StepDone ==
    /\ phase = "stopping"
    /\ batch = EmptyDict
    /\ phase' = "idle"
    /\ UNCHANGED <<poolVars, managerVars, requestVars, batch, retry, preempted, content>>

Next ==
    \/ \E r \in Requests, prompt \in Prompts : AddRoot(r, prompt)
    \/ \E r \in Requests : AbortRequest(r)
    \/ ResetPrefixCache
    \/ ScheduleStart
    \/ \E r \in running : \E n \in NumNewTokens(Len(tokens[r]) - computed[r]) :
          \/ ScheduleRunning(r, n)
          \/ \E victim \in running : TakeBlocksFrom(victim, r, n)
    \/ RunningDone
    \/ \E r \in Waiting : \E n \in NumNewTokens(Len(tokens[r]) - Len(ComputedBlocks(r)) * BlockSize) :
          AdmitWaiting(r, n) \/ AdmissionFails(r, n)
    \/ WaitingDone
    \/ ExecuteModel
    \/ \E child \in Requests, parent \in Live : AddBranch(child, parent)
    \/ \E stopped \in SUBSET DOMAIN batch : \E new \in [Sampled \ stopped -> Tokens] :
          UpdateFromOutput(new, stopped)
    \/ \E r \in Requests : FreeStopped(r)
    \/ StepDone

Spec == Init /\ [][Next]_vars

-----------------------------------------------------------------------------
(***************************************************************************)
(* Properties                                                              *)
(***************************************************************************)
\* Every reference count is the number of requests that hold the block, and
\* the free queue holds exactly the blocks with count 0, once each: touch,
\* get_new_blocks and free_blocks neither leak a block nor hand one out that
\* somebody uses.
BlocksAccountedFor ==
    /\ \A b \in Blocks :
          ref_cnt[b] = Cardinality({r \in DOMAIN req_to_blocks : b \in Range(Held(r))})
    /\ Range(free) = {b \in Blocks : ref_cnt[b] = 0}
    /\ Len(free) = Cardinality(Range(free))

\* Between two steps every cached block contains what its hash promises ("Get
\* the computed (cached) blocks for the request"), although allocate_slots
\* caches blocks that the batch has not computed yet.
CachedIsComputed ==
    phase = "idle" =>
        \A h \in DOMAIN cached : \A b \in Range(cached[h]) :
            content[b] = h /\ block_hash[b] = h

\* Between two steps the blocks of a running request hold the keys and values
\* of its own tokens, for all tokens it counts as computed: the blocks it took
\* from the prefix cache were "computed for the request", as get_computed_blocks
\* says.
RunsOnItsOwnTokens ==
    phase = "idle" =>
        \A r \in running :
            /\ Cdiv(computed[r]) <= Len(Held(r))
            /\ \A k \in 1 .. Cdiv(computed[r]) :
                  content[Held(r)[k]] = Prefix(r, Min({k * BlockSize, computed[r]}))

\* A block is never cached without the blocks before it: find_longest_cache_hit
\* may stop at the first miss ("the following block hashes are not computed
\* yet for sure") because free() puts the last blocks first.
NoGapInTheCache ==
    \A h \in DOMAIN cached :
        Len(h) > BlockSize => SubSeq(h, 1, Len(h) - BlockSize) \in DOMAIN cached

\* Seeded fault: only the requests of the batch are counted.
NumCommonBatchBlocks(r) ==
    Max({n \in 0 .. Len(Held(r)) :
            \A k \in 1 .. n : ref_cnt[Held(r)[k]] = Cardinality(DOMAIN batch)})

\* get_num_common_prefix_blocks counts leading blocks whose reference count is
\* the number of requests with blocks.
NumCommonPrefixBlocks(r) ==
    Max({n \in 0 .. Len(Held(r)) :
            \A k \in 1 .. n :
                ref_cnt[Held(r)[k]] = Cardinality(DOMAIN req_to_blocks)})

\* Those blocks are really the first blocks of every request of the batch, as
\* cascade attention takes them to be.
CommonPrefixIsShared ==
    phase = "scheduled" =>
        \A r, q \in DOMAIN batch :
            LET n == NumCommonPrefixBlocks(r)
            IN  n <= Len(Held(q)) /\ SubSeq(Held(q), 1, n) = SubSeq(Held(r), 1, n)

\* A request that runs alone finds room for all its tokens, and so does one
\* that would ("the KV cache [can] hold at least one request with the model's
\* max_model_len"): no eviction can leave the engine without a batch.  The
\* start-up check counts null_block as a block that a request can have; where
\* the blocks that are left are too few for MaxLen - 1 tokens, nothing is said.
LoneRequestFits ==
    MaxLen - 1 <= (NumGpuBlocks - 1) * BlockSize =>
        /\ phase = "running" =>
              \A r \in running : running = {r} =>
                  CanAllocate(r, <<>>, Len(tokens[r]) - computed[r])
        /\ phase = "waiting" /\ running = {} =>
              \A r \in Waiting :
                  LET hit == ComputedBlocks(r)
                  IN  CanAllocate(r, hit, Len(tokens[r]) - Len(hit) * BlockSize)
=============================================================================
