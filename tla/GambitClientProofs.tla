------------------------- MODULE GambitClientProofs -------------------------
(***************************************************************************)
(* Proofs about generate(), for every number of samples, prompts and       *)
(* branches, every bound on the outputs under way and both clients: what   *)
(* it returns, that it leaves the scheduler empty, and that its tree       *)
(* export is complete.                                                     *)
(***************************************************************************)
EXTENDS GambitClient, FiniteSetTheorems, SequenceTheorems, TLAPS

-----------------------------------------------------------------------------
(***************************************************************************)
(* The inductive invariant.                                                *)
(***************************************************************************)

Traces == Seq(Nat) \ {<<>>}

Messages == [type : {"add", "abort", "export", "reset"}, ids : SUBSET Traces]

Outputs == [finished : SUBSET Traces, decoded : SUBSET Traces,
            export : [count : Int, completed : SUBSET Traces]]

TypeInv ==
    /\ pc \in {"returned", "resetting", "ready", "main", "poll", "polling", "drain"}
    /\ prompt \in Nat /\ branch_counter \in Nat
    /\ request_states \subseteq Traces /\ reqs_to_abort \subseteq Traces
    /\ live \subseteq Traces /\ IsFiniteSet(live) /\ completed \subseteq Traces
    /\ inbox \in Seq(Messages) /\ outbox \in Seq(Outputs)

\* Whatever the engine core holds, or is about to be given, is of this prompt.
PromptInv ==
    /\ \A id \in live \cup completed : PromptOf(id) = prompt
    /\ \A i \in 1 .. Len(inbox) : inbox[i].type = "add" =>
         /\ IsFiniteSet(inbox[i].ids)
         /\ \A id \in inbox[i].ids : PromptOf(id) = prompt

\* The frontend waits for the result of a utility call.
Calling == pc \in {"resetting", "polling"}

CallType == IF pc = "resetting" THEN "reset" ELSE "export"

\* An unanswered call is the last message to the engine process, so that its
\* answer finds everything sent before it done.
CallInv ==
    /\ ~Calling => reply = None
    /\ Calling /\ reply = None => inbox # <<>> /\ inbox[Len(inbox)].type = CallType
    /\ Calling /\ reply # None => inbox = <<>>
    /\ \A i \in 1 .. Len(inbox) :
         \/ inbox[i].type \in {"add", "abort"}
         \/ Calling /\ reply = None /\ i = Len(inbox) /\ inbox[i].type = CallType
    /\ pc = "resetting" => Len(inbox) <= 1
    /\ pc \in {"returned", "ready"} => inbox = <<>>
    /\ reqs_to_abort # {} => pc \in {"main", "poll"}
    /\ ~Multiprocess => ~Calling /\ inbox = <<>>

\* An export that counts no active trace is still the whole truth.
Final(export) ==
    /\ export.count \in Nat
    /\ export.count = 0 => live = {} /\ export.completed = completed

\* Between two prompts the engine core is empty, and the export that ends a prompt
\* may be trusted: the answer to a call, or in process what the outputs brought.
DrainInv ==
    /\ pc \in {"returned", "resetting", "ready"} => live = {}
    /\ pc = "ready" \/ (pc = "resetting" /\ reply # None) => completed = {}
    /\ pc = "polling" /\ reply # None => Final(reply)
    /\ ExportIsComplete

LocalInv == ~Multiprocess =>
    /\ outbox # <<>> => Len(outbox) = 1 /\ (pc = "drain" \/ (pc = "main" /\ request_states # {}))
    /\ \A i \in 1 .. Len(outbox) : outbox[i].export # None => Final(outbox[i].export)
    /\ stored # None => Final(stored)
    /\ pc = "ready" => stored = None

\* The samples the frontend waits for, and what it has returned of them.
SamplesInv == SamplesReturnedOnce /\ (prompt = 0 => request_states = {})

ClientInv ==
    TypeInv /\ PromptInv /\ CallInv /\ DrainInv /\ LocalInv /\ SamplesInv

-----------------------------------------------------------------------------
(***************************************************************************)
(* Traces, samples and messages.                                           *)
(***************************************************************************)

\* A branch id puts the branch number before its parent's id (TraceIds), so that
\* it stays a trace of its parent's prompt.
LEMMA ChildOfTrace ==
    ASSUME NEW p \in Traces, NEW n \in Nat
    PROVE  <<n>> \o p \in Traces /\ PromptOf(<<n>> \o p) = PromptOf(p)
<1>1. p \in Seq(Nat) /\ p # <<>> /\ <<n>> \in Seq(Nat) /\ Len(<<n>>) = 1
  BY DEF Traces
<1>2. Len(p) \in Nat \ {0}
  BY <1>1, EmptySeq
<1>3. /\ <<n>> \o p \in Seq(Nat) /\ Len(<<n>> \o p) = 1 + Len(p)
      /\ \A i \in 1 .. 1 + Len(p) :
           (<<n>> \o p)[i] = IF i <= 1 THEN <<n>>[i] ELSE p[i - 1]
  BY <1>1, ConcatProperties
<1>4. (<<n>> \o p)[1 + Len(p)] = p[Len(p)]
  BY <1>2, <1>3
<1>5. <<n>> \o p # <<>>
  BY <1>2, <1>3
<1> QED
  BY <1>3, <1>4, <1>5 DEF Traces, PromptOf

\* get_child_info: there is at least one sample, finitely many, and each is of its
\* prompt.
LEMMA SamplesOfPrompt ==
    ASSUME NEW p \in Nat
    PROVE  /\ Samples(p) \subseteq Traces /\ IsFiniteSet(Samples(p)) /\ Samples(p) # {}
           /\ \A id \in Samples(p) : PromptOf(id) = p
<1>1. \A i \in 1 .. N : <<i, p>> \in Traces /\ PromptOf(<<i, p>>) = p
  BY ClientAssumption DEF Traces, PromptOf
<1>2. 1 \in 1 .. N
  BY ClientAssumption
<1>3. Samples(p) = (1 .. N) \X {p}
  BY DEF Samples
<1>4. IsFiniteSet(1 .. N)
  BY FS_Interval, ClientAssumption
<1>5. IsFiniteSet({p})
  BY FS_Singleton
<1>6. IsFiniteSet((1 .. N) \X {p})
  BY <1>4, <1>5, FS_Product
<1> QED
  BY <1>1, <1>2, <1>3, <1>6 DEF Samples

\* Send of one message: it comes after those under way.
LEMMA MessageSent ==
    ASSUME NEW m \in Messages, inbox \in Seq(Messages), Send(<<m>>)
    PROVE  /\ inbox' \in Seq(Messages) /\ inbox' # <<>>
           /\ Len(inbox) \in Nat /\ Len(inbox') = Len(inbox) + 1
           /\ \A i \in 1 .. Len(inbox) : inbox'[i] = inbox[i]
           /\ inbox'[Len(inbox')] = m
<1>1. inbox' = inbox \o <<m>>
  BY DEF Send
<1>2. <<m>> \in Seq(Messages) /\ Len(<<m>>) = 1 /\ <<m>>[1] = m
  OBVIOUS
<1> QED
  BY <1>1, <1>2

\* A handler takes the first message.
LEMMA MessageTaken ==
    ASSUME inbox \in Seq(Messages), inbox # <<>>, inbox' = Tail(inbox)
    PROVE  /\ inbox' \in Seq(Messages) /\ Len(inbox) \in Nat \ {0}
           /\ Len(inbox') = Len(inbox) - 1
           /\ \A i \in 1 .. Len(inbox') : inbox'[i] = inbox[i + 1]
           /\ Head(inbox) = inbox[1] /\ Head(inbox) \in Messages
BY HeadTailProperties, EmptySeq

-----------------------------------------------------------------------------
(***************************************************************************)
(* The engine process.  The frontend's variables are unchanged.            *)
(***************************************************************************)

LEMMA LastPlace ==
    /\ 1 .. 0 = {} /\ 1 .. 1 = {1} /\ 0 <= 1
    /\ \A k \in Nat \ {0} : k <= 1 => k = 1
    /\ \A k \in Nat \ {0} : \A i \in 1 .. k - 1 : i + 1 = k => i = k - 1
OBVIOUS

USE Zenon

\* What the messages under way say does not change when the first is taken.
LEMMA TakenKeepsPrompt ==
    ASSUME ClientInv, inbox # <<>>, inbox' = Tail(inbox), UNCHANGED clientVars
    PROVE  \A i \in 1 .. Len(inbox') : inbox'[i].type = "add" =>
             /\ IsFiniteSet(inbox'[i].ids)
             /\ \A id \in inbox'[i].ids : PromptOf(id) = prompt'
<1>1. inbox \in Seq(Messages) /\ prompt' = prompt
  BY DEF ClientInv, TypeInv, clientVars
<1> SUFFICES ASSUME NEW i \in 1 .. Len(inbox'), inbox'[i].type = "add"
             PROVE  IsFiniteSet(inbox'[i].ids) /\ \A id \in inbox'[i].ids : PromptOf(id) = prompt
  BY <1>1
<1>2. i + 1 \in 1 .. Len(inbox) /\ inbox'[i] = inbox[i + 1]
  BY <1>1, MessageTaken, SMT
<1> QED
  BY <1>2 DEF ClientInv, PromptInv

\* A request or an abort is taken: a call, if any, is still the last message.
LEMMA TakenKeepsCall ==
    ASSUME ClientInv, inbox # <<>>, inbox' = Tail(inbox), UNCHANGED <<clientVars, reply>>,
           Head(inbox).type \in {"add", "abort"}
    PROVE  CallInv'
<1>1. /\ inbox \in Seq(Messages) /\ pc' = pc /\ reply' = reply /\ config' = config
      /\ reqs_to_abort' = reqs_to_abort
  BY DEF ClientInv, TypeInv, clientVars
<1>2. /\ Len(inbox) \in Nat \ {0} /\ Len(inbox') = Len(inbox) - 1
      /\ \A i \in 1 .. Len(inbox') : inbox'[i] = inbox[i + 1]
      /\ Head(inbox) = inbox[1] /\ inbox' \in Seq(Messages)
  BY <1>1, MessageTaken
<1>3. (Calling' <=> Calling) /\ CallType' = CallType /\ (Multiprocess' <=> Multiprocess)
  BY <1>1 DEF Calling, CallType, Multiprocess
<1>4. CallInv
  BY DEF ClientInv
<1>5. "reset" \notin {"add", "abort"} /\ "export" \notin {"add", "abort"}
  OBVIOUS
<1>6. CallType \in {"reset", "export"}
  BY DEF CallType
<1>7. Calling /\ reply = None => Len(inbox) # 1
  BY <1>2, <1>4, <1>5, <1>6 DEF CallInv
<1>8. Calling /\ reply = None => inbox' # <<>> /\ inbox'[Len(inbox')].type = CallType
  <2> SUFFICES ASSUME Calling, reply = None
               PROVE  inbox' # <<>> /\ inbox'[Len(inbox')].type = CallType
    OBVIOUS
  <2>1. Len(inbox') \in 1 .. Len(inbox') /\ Len(inbox') # 0
    BY <1>2, <1>7, SMT
  <2>2. inbox'[Len(inbox')] = inbox[Len(inbox)]
    BY <1>2, <2>1, SMT
  <2>3. inbox' # <<>>
    BY <2>1, <1>2, EmptySeq
  <2> QED
    BY <2>2, <2>3, <1>4 DEF CallInv
<1>9. ASSUME NEW i \in 1 .. Len(inbox')
      PROVE  \/ inbox'[i].type \in {"add", "abort"}
             \/ Calling /\ reply = None /\ i = Len(inbox') /\ inbox'[i].type = CallType
  <2>1. i + 1 \in 1 .. Len(inbox) /\ inbox'[i] = inbox[i + 1]
    BY <1>2, SMT
  <2>2. i + 1 = Len(inbox) => i = Len(inbox')
    BY <1>2, LastPlace
  <2> QED
    BY <2>1, <2>2, <1>4 DEF CallInv
<1>10. ~(Calling /\ reply # None) /\ pc \notin {"returned", "ready"} /\ Multiprocess
  BY <1>4 DEF CallInv
<1>11. pc # "resetting"
  <2> SUFFICES ASSUME pc = "resetting" PROVE FALSE
    OBVIOUS
  <2>1. Calling /\ Len(inbox) <= 1
    BY <1>4 DEF CallInv, Calling
  <2> QED
    BY <2>1, <1>2, <1>7, <1>10, SMT
<1> QED
  BY <1>1, <1>3, <1>4, <1>8, <1>9, <1>10, <1>11 DEF CallInv

\* What the scheduler holds may change while the frontend is in the two loops of
\* a prompt: nothing of the in-between states is touched.
LEMMA NotBetweenPrompts ==
    ASSUME ClientInv, inbox # <<>>, Head(inbox).type \in {"add", "abort"}
    PROVE  pc \in {"main", "poll", "polling", "drain"} /\ Multiprocess /\ ~(Calling /\ reply # None)
<1>1. CallInv /\ TypeInv
  BY DEF ClientInv
<1>2. ~(Calling /\ reply # None) /\ pc \notin {"returned", "ready"} /\ Multiprocess
  BY <1>1 DEF CallInv
<1>3. Len(inbox) \in Nat \ {0} /\ Head(inbox) = inbox[1]
  BY <1>1, EmptySeq, SMT DEF TypeInv
<1>4. pc # "resetting"
  <2> SUFFICES ASSUME pc = "resetting" PROVE FALSE
    OBVIOUS
  <2>1. Calling /\ Len(inbox) <= 1 /\ CallType = "reset"
    BY <1>1 DEF CallInv, Calling, CallType
  <2>2. inbox[Len(inbox)].type = "reset"
    BY <2>1, <1>1, <1>2 DEF CallInv
  <2>3. Len(inbox) = 1
    BY <2>1, <1>3, LastPlace
  <2> QED
    BY <2>2, <2>3, <1>3
<1> QED
  BY <1>1, <1>2, <1>4 DEF TypeInv

\* The engine process knows nothing of the samples the frontend waits for.
LEMMA EngineKeepsSamples ==
    ASSUME SamplesInv, UNCHANGED clientVars
    PROVE  SamplesInv'
BY DEF SamplesInv, SamplesReturnedOnce, Samples, clientVars

\* Within a prompt, with no answer under way, nothing has to be final.
LEMMA WithinPrompt ==
    ASSUME pc \in {"main", "poll", "polling", "drain"}, Multiprocess,
           ~(Calling /\ reply # None), UNCHANGED clientVars, UNCHANGED reply
    PROVE  DrainInv' /\ LocalInv'
<1>1. pc' = pc /\ config' = config /\ reply' = reply
  BY DEF clientVars
<1>2. /\ pc' \notin {"returned", "resetting", "ready"} /\ Multiprocess'
      /\ ~(pc' = "polling" /\ reply' # None)
  BY <1>1 DEF Multiprocess, Calling
<1> QED
  BY <1>2 DEF DrainInv, LocalInv, ExportIsComplete

LEMMA HandleAddInv ==
    ASSUME ClientInv, HandleAdd
    PROVE  ClientInv'
<1>1. /\ inbox # <<>> /\ Head(inbox).type = "add" /\ inbox' = Tail(inbox)
      /\ live' = live \cup Head(inbox).ids /\ completed' = completed
      /\ UNCHANGED <<clientVars, outbox, reply, branch_counter>>
      /\ UNCHANGED clientVars /\ UNCHANGED <<clientVars, reply>> /\ UNCHANGED reply
  BY DEF HandleAdd
<1>2. /\ pc' = pc /\ prompt' = prompt /\ request_states' = request_states
      /\ reqs_to_abort' = reqs_to_abort /\ outbox' = outbox /\ branch_counter' = branch_counter
  BY <1>1 DEF clientVars
<1>3. TypeInv /\ PromptInv /\ SamplesInv
  BY DEF ClientInv
<1>4. /\ Head(inbox) = inbox[1] /\ Head(inbox) \in Messages /\ inbox' \in Seq(Messages)
      /\ 1 \in 1 .. Len(inbox)
  <2>1. Head(inbox) = inbox[1] /\ Head(inbox) \in Messages /\ inbox' \in Seq(Messages)
    BY <1>1, <1>3, MessageTaken DEF TypeInv
  <2>2. Len(inbox) \in Nat \ {0}
    BY <1>1, <1>3, MessageTaken DEF TypeInv
  <2> QED
    BY <2>1, <2>2, SMT
<1>5. /\ Head(inbox).ids \subseteq Traces /\ IsFiniteSet(Head(inbox).ids)
      /\ \A id \in Head(inbox).ids : PromptOf(id) = prompt
  <2>1. Head(inbox).ids \subseteq Traces
    BY <1>4, SMT DEF Messages
  <2> QED
    BY <2>1, <1>1, <1>3, <1>4 DEF PromptInv
<1>6. IsFiniteSet(live')
  BY <1>1, <1>3, <1>5, FS_Union DEF TypeInv
<1>7. TypeInv'
  BY <1>1, <1>2, <1>3, <1>4, <1>5, <1>6 DEF TypeInv
<1>8. PromptInv'
  <2>1. \A id \in live' \cup completed' : PromptOf(id) = prompt'
    BY <1>1, <1>2, <1>3, <1>5 DEF PromptInv
  <2> QED
    BY <2>1, <1>1, TakenKeepsPrompt DEF PromptInv
<1>9. CallInv'
  BY <1>1, TakenKeepsCall
<1>10. DrainInv' /\ LocalInv'
  BY <1>1, NotBetweenPrompts, WithinPrompt
<1>11. SamplesInv'
  BY <1>1, <1>3, EngineKeepsSamples
<1> QED
  BY <1>7, <1>8, <1>9, <1>10, <1>11 DEF ClientInv

LEMMA HandleAbortInv ==
    ASSUME ClientInv, HandleAbort
    PROVE  ClientInv'
<1>1. /\ inbox # <<>> /\ Head(inbox).type = "abort" /\ inbox' = Tail(inbox)
      /\ live' = live \ Head(inbox).ids /\ completed' = completed
      /\ UNCHANGED branch_counter /\ UNCHANGED outbox
      /\ UNCHANGED clientVars /\ UNCHANGED <<clientVars, reply>> /\ UNCHANGED reply
  BY DEF HandleAbort, AbortRequests
<1>2. /\ pc' = pc /\ prompt' = prompt /\ request_states' = request_states
      /\ reqs_to_abort' = reqs_to_abort
  BY <1>1 DEF clientVars
<1>3. TypeInv /\ PromptInv /\ SamplesInv
  BY DEF ClientInv
<1>4. inbox' \in Seq(Messages)
  BY <1>1, <1>3, MessageTaken DEF TypeInv
<1>5. live' \subseteq live /\ IsFiniteSet(live')
  BY <1>1, <1>3, FS_Subset DEF TypeInv
<1>6. TypeInv'
  BY <1>1, <1>2, <1>3, <1>4, <1>5 DEF TypeInv
<1>7. PromptInv'
  <2>1. \A id \in live' \cup completed' : PromptOf(id) = prompt'
    BY <1>1, <1>2, <1>3, <1>5 DEF PromptInv
  <2> QED
    BY <2>1, <1>1, TakenKeepsPrompt DEF PromptInv
<1>8. CallInv'
  BY <1>1, TakenKeepsCall
<1>9. DrainInv' /\ LocalInv'
  BY <1>1, NotBetweenPrompts, WithinPrompt
<1>10. SamplesInv'
  BY <1>1, <1>3, EngineKeepsSamples
<1> QED
  BY <1>6, <1>7, <1>8, <1>9, <1>10 DEF ClientInv

\* The call is the only message left when its handler takes it, as the last.
LEMMA CallIsTaken ==
    ASSUME ClientInv, inbox # <<>>, inbox' = Tail(inbox), UNCHANGED clientVars, reply' # None,
           Head(inbox).type \in {"export", "reset"}
    PROVE  /\ CallInv' /\ inbox' = <<>> /\ Calling /\ reply = None /\ Multiprocess
           /\ Head(inbox).type = CallType
<1>1. TypeInv /\ CallInv
  BY DEF ClientInv
<1>2. /\ pc' = pc /\ config' = config /\ reqs_to_abort' = reqs_to_abort
  BY DEF clientVars
<1>3. Len(inbox) \in Nat \ {0} /\ Head(inbox) = inbox[1] /\ Len(inbox') = Len(inbox) - 1
  BY <1>1, MessageTaken DEF TypeInv
<1>4. 1 \in 1 .. Len(inbox)
  BY <1>3, SMT
<1>5. Calling /\ reply = None /\ 1 = Len(inbox) /\ inbox[1].type = CallType
  BY <1>1, <1>3, <1>4 DEF CallInv
<1>6. inbox' = <<>>
  <2>1. Len(inbox') = 0 /\ inbox' \in Seq(Messages)
    BY <1>1, <1>3, <1>5, MessageTaken, SMT DEF TypeInv
  <2> QED
    BY <2>1, EmptySeq, SMT
<1>7. Multiprocess /\ pc \notin {"returned", "ready"}
  BY <1>1, <1>5 DEF CallInv
<1>8. Calling' /\ Multiprocess' /\ reqs_to_abort' = {}
  BY <1>1, <1>2, <1>5, <1>7 DEF Calling, Multiprocess, CallInv
<1>9. Len(inbox') = 0 /\ 1 .. Len(inbox') = {} /\ Len(inbox') <= 1
  BY <1>6, EmptySeq, LastPlace
<1> QED
  BY <1>2, <1>3, <1>5, <1>6, <1>7, <1>8, <1>9 DEF CallInv

\* An export that counts the requests of the scheduler: gambit_tree_export.
LEMMA ExportOfActive ==
    ASSUME NEW S, IsFiniteSet(S), NEW done, NEW e, e = [count |-> Cardinality(S), completed |-> done]
    PROVE  /\ e # None /\ e.count \in Nat /\ e.completed = done
           /\ e.count = 0 => S = {}
<1>1. Cardinality(S) \in Nat /\ (Cardinality(S) = 0 => S = {})
  BY FS_CardinalityType, FS_EmptySet
<1>2. e.count = Cardinality(S) /\ e.completed = done
  OBVIOUS
<1>3. None.count = -1
  BY DEF None
<1>4. e # None
  BY <1>1, <1>2, <1>3, SMT
<1> QED
  BY <1>1, <1>2, <1>4

LEMMA HandleExportInv ==
    ASSUME ClientInv, HandleExport
    PROVE  ClientInv'
<1>1. /\ inbox # <<>> /\ Head(inbox).type = "export" /\ inbox' = Tail(inbox)
      /\ reply' = TreeExport /\ UNCHANGED clientVars /\ UNCHANGED engineVars /\ UNCHANGED outbox
  BY DEF HandleExport
<1>2. /\ pc' = pc /\ prompt' = prompt /\ request_states' = request_states
      /\ reqs_to_abort' = reqs_to_abort /\ config' = config
      /\ live' = live /\ completed' = completed /\ branch_counter' = branch_counter
  BY <1>1 DEF clientVars, engineVars
<1>3. TypeInv /\ PromptInv /\ CallInv /\ DrainInv /\ SamplesInv
  BY DEF ClientInv
<1>4. reply' # None /\ Final(reply')
  <2>1. IsFiniteSet(live) /\ reply' = [count |-> Cardinality(live), completed |-> completed]
    BY <1>1, <1>3 DEF TypeInv, TreeExport, SchedulerActiveCount
  <2> QED
    BY <2>1, ExportOfActive DEF Final
<1>5. /\ CallInv' /\ inbox' = <<>> /\ Calling /\ Multiprocess /\ CallType = "export"
  <2>1. Head(inbox).type \in {"export", "reset"}
    BY <1>1
  <2> QED
    BY <1>1, <1>4, <2>1, CallIsTaken
<1>6. pc' = "polling" /\ Multiprocess'
  BY <1>2, <1>5 DEF Calling, CallType, Multiprocess
<1>7. TypeInv'
  BY <1>1, <1>2, <1>3, MessageTaken DEF TypeInv
<1>8. PromptInv'
  <2>1. \A id \in live' \cup completed' : PromptOf(id) = prompt'
    BY <1>2, <1>3 DEF PromptInv
  <2> QED
    BY <2>1, <1>1, TakenKeepsPrompt DEF PromptInv
<1>9. DrainInv' /\ LocalInv'
  <2>1. Final(reply)'
    BY <1>2, <1>4 DEF Final
  <2> QED
    BY <2>1, <1>6 DEF DrainInv, LocalInv, ExportIsComplete
<1>10. SamplesInv'
  BY <1>1, <1>3, EngineKeepsSamples
<1> QED
  BY <1>5, <1>7, <1>8, <1>9, <1>10 DEF ClientInv

LEMMA HandleResetInv ==
    ASSUME ClientInv, HandleReset
    PROVE  ClientInv'
<1>1. /\ inbox # <<>> /\ Head(inbox).type = "reset" /\ inbox' = Tail(inbox)
      /\ reply' = Done /\ ResetGambitState /\ UNCHANGED clientVars /\ UNCHANGED outbox
  BY DEF HandleReset
<1>2. /\ pc' = pc /\ prompt' = prompt /\ request_states' = request_states
      /\ reqs_to_abort' = reqs_to_abort /\ config' = config
  BY <1>1 DEF clientVars
<1>3. TypeInv /\ PromptInv /\ CallInv /\ DrainInv /\ SamplesInv
  BY DEF ClientInv
<1>4. reply' # None
  BY <1>1, SMT DEF Done, None
<1>5. /\ CallInv' /\ inbox' = <<>> /\ Calling /\ Multiprocess /\ CallType = "reset"
  <2>1. Head(inbox).type \in {"export", "reset"}
    BY <1>1
  <2> QED
    BY <1>1, <1>4, <2>1, CallIsTaken
<1>6. pc' = "resetting" /\ Multiprocess' /\ pc = "resetting"
  BY <1>2, <1>5 DEF Calling, CallType, Multiprocess
<1>7. live = {} /\ live' = {} /\ completed' = {} /\ branch_counter' = 0
  BY <1>1, <1>3, <1>6 DEF DrainInv, ResetGambitState
<1>8. TypeInv'
  <2>1. inbox' \in Seq(Messages)
    BY <1>1, <1>3, MessageTaken DEF TypeInv
  <2> QED
    BY <2>1, <1>1, <1>2, <1>3, <1>7, FS_EmptySet, SMT DEF TypeInv
<1>9. PromptInv'
  BY <1>1, <1>7, TakenKeepsPrompt DEF PromptInv
<1>10. DrainInv' /\ LocalInv'
  BY <1>6, <1>7 DEF DrainInv, LocalInv, ExportIsComplete
<1>11. SamplesInv'
  BY <1>1, <1>3, EngineKeepsSamples
<1> QED
  BY <1>5, <1>8, <1>9, <1>10, <1>11 DEF ClientInv

-----------------------------------------------------------------------------
(***************************************************************************)
(* The steps of the engine core.                                           *)
(***************************************************************************)

\* Emit: at most one output is added.
LEMMA OutputEmitted ==
    ASSUME NEW msg \in Outputs, outbox \in Seq(Outputs), Emit(msg)
    PROVE  /\ outbox' \in Seq(Outputs)
           /\ ~Multiprocess /\ outbox = <<>> => Len(outbox') = 1 /\ outbox'[1] = msg
<1>1. /\ Append(outbox, msg) \in Seq(Outputs)
      /\ outbox = <<>> => Len(Append(outbox, msg)) = 1 /\ Append(outbox, msg)[1] = msg
  BY SMT
<1> QED
  BY <1>1 DEF Emit

\* A step of the engine core, StepDue, leaves calls and samples alone.
LEMMA StepKeepsCall ==
    ASSUME ClientInv, UNCHANGED <<clientVars, inbox, reply>>
    PROVE  /\ CallInv' /\ SamplesInv'
           /\ \A i \in 1 .. Len(inbox') : inbox'[i].type = "add" =>
                /\ IsFiniteSet(inbox'[i].ids)
                /\ \A id \in inbox'[i].ids : PromptOf(id) = prompt'
<1>1. /\ pc' = pc /\ prompt' = prompt /\ reqs_to_abort' = reqs_to_abort /\ config' = config
      /\ inbox' = inbox /\ reply' = reply /\ UNCHANGED clientVars
  BY DEF clientVars
<1>2. CallInv'
  BY <1>1 DEF ClientInv, CallInv, Calling, CallType, Multiprocess
<1>3. SamplesInv'
  BY <1>1, EngineKeepsSamples DEF ClientInv
<1> QED
  BY <1>1, <1>2, <1>3 DEF ClientInv, PromptInv

\* The outputs of steps that only tell the worker, and of those without requests.
LEMMA EmptyOutput == Nothing \in Outputs /\ Nothing.export = None
BY SMT DEF Nothing, Outputs, None

\* Such a step changes neither the requests nor the completed traces.
LEMMA QuietStepInv ==
    ASSUME ClientInv, StepDue, Emit(Nothing), UNCHANGED <<clientVars, inbox, reply>>,
           UNCHANGED <<live, completed, branch_counter>>
    PROVE  ClientInv'
<1>1. /\ pc' = pc /\ prompt' = prompt /\ reqs_to_abort' = reqs_to_abort /\ config' = config
      /\ inbox' = inbox /\ reply' = reply /\ stored' = stored /\ exported' = exported
      /\ request_states' = request_states /\ UNCHANGED clientVars
      /\ live' = live /\ completed' = completed /\ branch_counter' = branch_counter
  BY DEF clientVars
<1>2. TypeInv /\ PromptInv /\ DrainInv /\ LocalInv
  BY DEF ClientInv
<1>3. /\ outbox' \in Seq(Outputs)
      /\ ~Multiprocess /\ outbox = <<>> => Len(outbox') = 1 /\ outbox'[1] = Nothing
  BY <1>2, EmptyOutput, OutputEmitted DEF TypeInv
<1>4. TypeInv'
  BY <1>1, <1>2, <1>3 DEF TypeInv
<1>5. PromptInv'
  BY <1>1, <1>2, StepKeepsCall DEF PromptInv
<1>6. DrainInv'
  BY <1>1, <1>2 DEF DrainInv, Final, ExportIsComplete
<1>7. LocalInv'
  <2> SUFFICES ASSUME ~Multiprocess
               PROVE  LocalInv'
    BY <1>1 DEF LocalInv, Multiprocess
  <2>1. outbox = <<>> /\ (pc = "drain" \/ (pc = "main" /\ request_states # {}))
    BY DEF StepDue
  <2>2. Len(outbox') = 1 /\ outbox'[1] = Nothing
    BY <1>3, <2>1
  <2>3. \A i \in 1 .. Len(outbox') : outbox'[i].export = None
    BY <2>2, EmptyOutput, LastPlace
  <2>4. pc # "ready" /\ (stored # None => Final(stored))
    BY <1>2, <2>1 DEF LocalInv
  <2>5. stored' # None => Final(stored)'
    BY <1>1, <2>4 DEF Final
  <2> QED
    BY <1>1, <2>1, <2>2, <2>3, <2>4, <2>5 DEF LocalInv
<1> QED
  BY <1>4, <1>5, <1>6, <1>7, StepKeepsCall DEF ClientInv

LEMMA StepEmptyInv ==
    ASSUME ClientInv, StepEmpty
    PROVE  ClientInv'
<1>1. /\ StepDue /\ Emit(Nothing) /\ UNCHANGED <<clientVars, inbox, reply>>
      /\ UNCHANGED <<live, completed, branch_counter>>
  BY DEF StepEmpty
<1> QED
  BY <1>1, QuietStepInv

LEMMA StepWithoutRequestsInv ==
    ASSUME ClientInv, StepWithoutRequests
    PROVE  ClientInv'
<1>1. /\ StepDue /\ Emit(Nothing) /\ UNCHANGED <<clientVars, inbox, reply>>
      /\ UNCHANGED <<live, completed, branch_counter>>
  BY DEF StepWithoutRequests
<1> QED
  BY <1>1, QuietStepInv

\* The traces a step may create: at most one, of the prompt of its parent.
LEMMA ChildrenOfTraces ==
    ASSUME TypeInv, PromptInv, NEW parents \in SUBSET live, NEW children \in Children(parents)
    PROVE  /\ children \subseteq Traces /\ IsFiniteSet(children)
           /\ \A id \in children : PromptOf(id) = prompt
<1>1. CASE children = {}
  BY <1>1, FS_EmptySet
<1>2. CASE children # {}
  <2>1. PICK p \in parents : children = {<<branch_counter>> \o p}
    BY <1>2 DEF Children
  <2>2. p \in Traces /\ branch_counter \in Nat /\ PromptOf(p) = prompt
    BY DEF TypeInv, PromptInv
  <2>3. <<branch_counter>> \o p \in Traces /\ PromptOf(<<branch_counter>> \o p) = prompt
    BY <2>2, ChildOfTrace
  <2> QED
    BY <2>1, <2>3, FS_Singleton
<1> QED
  BY <1>1, <1>2

LEMMA StepInv ==
    ASSUME ClientInv, Step
    PROVE  ClientInv'
<1>1. StepDue /\ live # {} /\ UNCHANGED <<clientVars, inbox, reply>>
  BY DEF Step
<1>2. /\ pc' = pc /\ prompt' = prompt /\ reqs_to_abort' = reqs_to_abort /\ config' = config
      /\ inbox' = inbox /\ reply' = reply /\ stored' = stored /\ exported' = exported
      /\ request_states' = request_states
  BY <1>1 DEF clientVars
<1>3. TypeInv /\ PromptInv /\ DrainInv /\ LocalInv
  BY DEF ClientInv
<1>4. PICK evicted \in SUBSET live \ {live} : \E stopped \in SUBSET (live \ evicted) :
        \E pruned \in SUBSET stopped :
        \E children \in Children((live \ (evicted \cup stopped)) \cup (stopped \ pruned)),
           decoded \in {{}, live \ (evicted \cup stopped)} :
           StepWith(evicted, stopped, pruned, children, decoded)
  BY DEF Step
<1>5. PICK stopped \in SUBSET (live \ evicted) : \E pruned \in SUBSET stopped :
        \E children \in Children((live \ (evicted \cup stopped)) \cup (stopped \ pruned)),
           decoded \in {{}, live \ (evicted \cup stopped)} :
           StepWith(evicted, stopped, pruned, children, decoded)
  BY <1>4
<1>6. PICK pruned \in SUBSET stopped :
        \E children \in Children((live \ (evicted \cup stopped)) \cup (stopped \ pruned)),
           decoded \in {{}, live \ (evicted \cup stopped)} :
           StepWith(evicted, stopped, pruned, children, decoded)
  BY <1>5
<1>6a. PICK children \in Children((live \ (evicted \cup stopped)) \cup (stopped \ pruned)),
            decoded \in {{}, live \ (evicted \cup stopped)} :
           StepWith(evicted, stopped, pruned, children, decoded)
  BY <1>6
<1> DEFINE left == live \ (evicted \cup stopped)
           export == IF stopped = {} THEN None
                     ELSE [count |-> Cardinality(live'), completed |-> completed']
           msg == [finished |-> evicted \cup stopped, decoded |-> decoded, export |-> export]
<1>7. /\ live' = left \cup children /\ completed' = completed \cup (stopped \ pruned)
      /\ branch_counter' = branch_counter + Cardinality(children) /\ Emit(msg)
  BY <1>6a DEF StepWith, ExportAfter
<1>8. /\ children \subseteq Traces /\ IsFiniteSet(children)
      /\ \A id \in children : PromptOf(id) = prompt
  <2> DEFINE parents == left \cup (stopped \ pruned)
  <2>1. parents \in SUBSET live /\ children \in Children(parents)
    OBVIOUS
  <2> HIDE DEF parents
  <2> QED
    BY <1>3, <2>1, ChildrenOfTraces
<1>9. IsFiniteSet(live') /\ live' \subseteq Traces /\ completed' \subseteq Traces
  <2>1. left \subseteq live /\ left \subseteq Traces /\ completed' \subseteq Traces
    BY <1>3, <1>7 DEF TypeInv
  <2>2. IsFiniteSet(left)
    BY <1>3, <2>1, FS_Subset DEF TypeInv
  <2> HIDE DEF left
  <2> QED
    BY <1>7, <1>8, <2>1, <2>2, FS_Union
<1>10. branch_counter' \in Nat
  <2>1. Cardinality(children) \in Nat
    BY <1>8, FS_CardinalityType
  <2> QED
    BY <1>3, <1>7, <2>1, SMT DEF TypeInv
<1>11. export # None => export.count \in Nat /\ (export.count = 0 => live' = {})
                        /\ export.completed = completed'
  <2> DEFINE e == [count |-> Cardinality(live'), completed |-> completed']
  <2>1. e = [count |-> Cardinality(live'), completed |-> completed']
    OBVIOUS
  <2>2. export # None => export = e
    OBVIOUS
  <2>3. IsFiniteSet(live')
    BY <1>9
  <2> HIDE DEF e, export
  <2>4. e.count \in Nat /\ (e.count = 0 => live' = {}) /\ e.completed = completed'
    BY <2>1, <2>3, FS_CardinalityType, FS_EmptySet
  <2> QED
    BY <2>2, <2>4
<1>12. msg \in Outputs
  <2>1. Cardinality(live') \in Nat
    BY <1>9, FS_CardinalityType
  <2>2. [count |-> Cardinality(live'), completed |-> completed']
          \in [count : Int, completed : SUBSET Traces]
    BY <1>9, <2>1, SMT
  <2>3. None \in [count : Int, completed : SUBSET Traces]
    BY SMT DEF None
  <2>4. export \in [count : Int, completed : SUBSET Traces]
    BY <2>2, <2>3
  <2>5. evicted \cup stopped \in SUBSET Traces /\ decoded \in SUBSET Traces
    BY <1>3 DEF TypeInv
  <2> HIDE DEF export
  <2> QED
    BY <2>4, <2>5, SMT DEF Outputs
<1> HIDE DEF export
<1>13. /\ outbox' \in Seq(Outputs)
       /\ ~Multiprocess /\ outbox = <<>> => Len(outbox') = 1 /\ outbox'[1] = msg
  <2> HIDE DEF msg
  <2> QED
    BY <1>3, <1>7, <1>12, OutputEmitted DEF TypeInv
<1>14. TypeInv'
  BY <1>2, <1>3, <1>9, <1>10, <1>13 DEF TypeInv
<1>15. PromptInv'
  <2>1. \A id \in live' \cup completed' : PromptOf(id) = prompt'
    BY <1>2, <1>3, <1>7, <1>8 DEF PromptInv
  <2> QED
    BY <2>1, <1>1, StepKeepsCall DEF PromptInv
<1>16. DrainInv'
  <2>1. pc \notin {"returned", "resetting", "ready"}
    BY <1>1, <1>3 DEF DrainInv
  <2>2. pc = "polling" /\ reply # None => Final(reply)'
    BY <1>1, <1>2, <1>3 DEF DrainInv, Final
  <2> QED
    BY <1>2, <2>1, <2>2 DEF DrainInv, ExportIsComplete
<1>17. LocalInv'
  <2> SUFFICES ASSUME ~Multiprocess
               PROVE  LocalInv'
    BY <1>2 DEF LocalInv, Multiprocess
  <2>1. outbox = <<>> /\ (pc = "drain" \/ (pc = "main" /\ request_states # {}))
    BY <1>1 DEF StepDue
  <2>2. Len(outbox') = 1 /\ outbox'[1] = msg
    BY <1>13, <2>1
  <2>3. ASSUME NEW i \in 1 .. Len(outbox'), outbox'[i].export # None
        PROVE  Final(outbox[i].export)'
    <3>1. msg.export = export
      OBVIOUS
    <3> HIDE DEF msg
    <3>2. i \in 1 .. 1
      BY <2>2
    <3>3. i = 1
      BY <3>2, LastPlace
    <3>4. outbox'[i].export = export
      BY <2>2, <3>1, <3>3
    <3> QED
      BY <1>11, <2>3, <3>4 DEF Final
  <2>4. stored' # None => Final(stored)'
    BY <1>1, <1>2, <1>3 DEF LocalInv, Final
  <2> QED
    BY <1>2, <2>1, <2>2, <2>3, <2>4 DEF LocalInv
<1> QED
  BY <1>1, <1>14, <1>15, <1>16, <1>17, StepKeepsCall DEF ClientInv

-----------------------------------------------------------------------------
(***************************************************************************)
(* The frontend.                                                           *)
(***************************************************************************)

\* Messages other than requests say nothing about prompts.
LEMMA SentKeepsPrompt ==
    ASSUME ClientInv, NEW m \in Messages, m.type # "add", Send(<<m>>), prompt' = prompt
    PROVE  \A i \in 1 .. Len(inbox') : inbox'[i].type = "add" =>
             /\ IsFiniteSet(inbox'[i].ids)
             /\ \A id \in inbox'[i].ids : PromptOf(id) = prompt'
<1>1. TypeInv /\ PromptInv
  BY DEF ClientInv
<1>2. /\ Len(inbox) \in Nat /\ Len(inbox') = Len(inbox) + 1
      /\ \A i \in 1 .. Len(inbox) : inbox'[i] = inbox[i]
      /\ inbox'[Len(inbox')] = m
  BY <1>1, MessageSent DEF TypeInv
<1> SUFFICES ASSUME NEW i \in 1 .. Len(inbox'), inbox'[i].type = "add"
             PROVE  IsFiniteSet(inbox'[i].ids) /\ \A id \in inbox'[i].ids : PromptOf(id) = prompt
  OBVIOUS
<1>3. i # Len(inbox')
  BY <1>2
<1>4. i \in 1 .. Len(inbox)
  BY <1>2, <1>3, SMT
<1> QED
  BY <1>1, <1>2, <1>4 DEF PromptInv

\* call_utility: the call becomes the last message.
LEMMA CallSent ==
    ASSUME ClientInv, NEW m \in Messages, Send(<<m>>), ~Calling, Calling', m.type = CallType',
           pc' = "resetting" => inbox = <<>>, Multiprocess', reply' = reply,
           reqs_to_abort' = {}
    PROVE  CallInv' /\ inbox' \in Seq(Messages)
<1>1. TypeInv /\ CallInv
  BY DEF ClientInv
<1>2. /\ Len(inbox) \in Nat /\ Len(inbox') = Len(inbox) + 1 /\ inbox' # <<>>
      /\ \A i \in 1 .. Len(inbox) : inbox'[i] = inbox[i]
      /\ inbox'[Len(inbox')] = m /\ inbox' \in Seq(Messages)
  BY <1>1, MessageSent DEF TypeInv
<1>3. reply' = None
  BY <1>1 DEF CallInv
<1>4. ASSUME NEW i \in 1 .. Len(inbox')
      PROVE  inbox'[i].type \in {"add", "abort"} \/ (i = Len(inbox') /\ inbox'[i].type = CallType')
  <2>1. CASE i = Len(inbox')
    BY <2>1, <1>2
  <2>2. CASE i # Len(inbox')
    <3>1. i \in 1 .. Len(inbox)
      BY <1>2, <2>2, SMT
    <3> QED
      BY <3>1, <1>1, <1>2 DEF CallInv
  <2> QED
    BY <2>1, <2>2
<1>5. pc' = "resetting" => Len(inbox') <= 1
  <2> SUFFICES ASSUME inbox = <<>> PROVE Len(inbox') <= 1
    OBVIOUS
  <2>1. Len(inbox) = 0
    BY EmptySeq
  <2> QED
    BY <2>1, <1>2, SMT
<1>6. pc' \notin {"returned", "ready"}
  BY DEF Calling
<1> QED
  BY <1>2, <1>3, <1>4, <1>5, <1>6 DEF CallInv

LEMMA CallResetInv ==
    ASSUME ClientInv, CallReset
    PROVE  ClientInv'
<1>1. /\ pc = "returned" /\ stored' = None /\ config' = config /\ prompt' = prompt
      /\ request_states' = request_states /\ reqs_to_abort' = reqs_to_abort
      /\ child_requests' = child_requests /\ returned' = returned
      /\ outbox' = outbox /\ reply' = reply
  BY DEF CallReset
<1>2. TypeInv /\ PromptInv /\ CallInv /\ DrainInv /\ LocalInv /\ SamplesInv
  BY DEF ClientInv
<1>3. /\ live = {} /\ inbox = <<>> /\ reply = None /\ ~Calling /\ reqs_to_abort = {}
      /\ ~Multiprocess => outbox = <<>>
  BY <1>1, <1>2 DEF DrainInv, CallInv, Calling, LocalInv
<1>4. SamplesInv'
  BY <1>1, <1>2 DEF SamplesInv, SamplesReturnedOnce, Samples
<1>5. CASE Multiprocess
  <2> DEFINE m == [type |-> "reset", ids |-> {}]
  <2>1. Send(<<m>>) /\ pc' = "resetting" /\ UNCHANGED engineVars
    BY <1>5 DEF CallReset
  <2>2. live' = live /\ completed' = completed /\ branch_counter' = branch_counter
    BY <2>1 DEF engineVars
  <2>3. m \in Messages /\ m.type = "reset"
    BY SMT DEF Messages
  <2> HIDE DEF m
  <2>4. Calling' /\ CallType' = "reset" /\ Multiprocess'
    BY <1>1, <1>5, <2>1 DEF Calling, CallType, Multiprocess
  <2>5. CallInv' /\ inbox' \in Seq(Messages)
    BY <1>1, <1>3, <2>1, <2>3, <2>4, CallSent
  <2>6. TypeInv'
    BY <1>1, <1>2, <2>1, <2>2, <2>5 DEF TypeInv
  <2>7. PromptInv'
    <3>1. m.type # "add"
      BY <2>3
    <3>2. \A id \in live' \cup completed' : PromptOf(id) = prompt'
      BY <1>1, <1>2, <2>2 DEF PromptInv
    <3> QED
      BY <1>1, <2>1, <2>3, <3>1, <3>2, SentKeepsPrompt DEF PromptInv
  <2>8. DrainInv' /\ LocalInv'
    BY <1>1, <1>3, <2>1, <2>2, <2>4 DEF DrainInv, LocalInv, ExportIsComplete
  <2> QED
    BY <1>4, <2>5, <2>6, <2>7, <2>8 DEF ClientInv
<1>6. CASE ~Multiprocess
  <2>1. ResetGambitState /\ pc' = "ready" /\ inbox' = inbox
    BY <1>6 DEF CallReset
  <2>2. live' = {} /\ completed' = {} /\ branch_counter' = 0 /\ inbox' = <<>>
    BY <1>3, <2>1 DEF ResetGambitState
  <2>3. ~Multiprocess' /\ ~Calling'
    BY <1>1, <1>6, <2>1 DEF Multiprocess, Calling
  <2>4. 1 .. Len(inbox') = {} /\ 1 .. Len(outbox') = {}
    BY <1>1, <1>3, <1>6, <2>2, EmptySeq, LastPlace
  <2>5. 0 \in Nat
    BY SMT
  <2>6. TypeInv'
    BY <1>1, <1>2, <2>1, <2>2, <2>5, FS_EmptySet DEF TypeInv
  <2>7. PromptInv'
    BY <2>2, <2>4 DEF PromptInv
  <2>8. CallInv'
    BY <1>1, <1>3, <2>1, <2>2, <2>3, <2>4 DEF CallInv
  <2>9. DrainInv' /\ LocalInv'
    BY <1>1, <1>3, <1>6, <2>1, <2>2, <2>4 DEF DrainInv, LocalInv, ExportIsComplete
  <2> QED
    BY <1>4, <2>6, <2>7, <2>8, <2>9 DEF ClientInv
<1> QED
  BY <1>5, <1>6

LEMMA ResetReturnsInv ==
    ASSUME ClientInv, ResetReturns
    PROVE  ClientInv'
<1>1. /\ pc = "resetting" /\ reply # None /\ reply' = None /\ pc' = "ready"
      /\ config' = config /\ prompt' = prompt /\ stored' = stored
      /\ request_states' = request_states /\ reqs_to_abort' = reqs_to_abort
      /\ child_requests' = child_requests /\ returned' = returned
      /\ inbox' = inbox /\ outbox' = outbox /\ UNCHANGED engineVars
  BY DEF ResetReturns
<1>2. live' = live /\ completed' = completed /\ branch_counter' = branch_counter
  BY <1>1 DEF engineVars
<1>3. TypeInv /\ PromptInv /\ CallInv /\ DrainInv /\ LocalInv /\ SamplesInv
  BY DEF ClientInv
<1>4. /\ live = {} /\ completed = {} /\ inbox = <<>> /\ Multiprocess /\ reqs_to_abort = {}
  BY <1>1, <1>3 DEF DrainInv, CallInv, Calling
<1>5. Multiprocess' /\ ~Calling'
  BY <1>1, <1>4 DEF Multiprocess, Calling
<1>6. TypeInv'
  BY <1>1, <1>2, <1>3 DEF TypeInv
<1>7. PromptInv'
  BY <1>1, <1>2, <1>3 DEF PromptInv
<1>8. CallInv'
  <2>1. 1 .. Len(inbox') = {}
    BY <1>1, <1>4, EmptySeq, LastPlace
  <2> QED
    BY <1>1, <1>4, <1>5, <2>1 DEF CallInv
<1>9. DrainInv' /\ LocalInv'
  BY <1>1, <1>2, <1>4, <1>5 DEF DrainInv, LocalInv, ExportIsComplete
<1>10. SamplesInv'
  BY <1>1, <1>3 DEF SamplesInv, SamplesReturnedOnce, Samples
<1> QED
  BY <1>6, <1>7, <1>8, <1>9, <1>10 DEF ClientInv

LEMMA AddMessage ==
    ASSUME NEW ids \in SUBSET Traces
    PROVE  [type |-> "add", ids |-> ids] \in Messages
BY SMT DEF Messages

LEMMA IntervalLength ==
    ASSUME NEW a \in Nat \ {0}, NEW b \in Nat, 1 .. b = 1 .. a
    PROVE  b = a
<1>1. a \in 1 .. a
  BY SMT
<1>2. a \in 1 .. b
  BY <1>1
<1>3. b \in 1 .. b
  BY <1>2, SMT
<1>4. b \in 1 .. a
  BY <1>3
<1> QED
  BY <1>2, <1>4, SMT

LEMMA GenerateInv ==
    ASSUME ClientInv, Generate
    PROVE  ClientInv'
<1>1. /\ pc = "ready" /\ pc' = "main" /\ prompt' = prompt + 1
      /\ request_states' = Samples(prompt') /\ child_requests' = Samples(prompt')
      /\ returned' = 0 /\ config' = config /\ reqs_to_abort' = reqs_to_abort
      /\ stored' = stored /\ outbox' = outbox /\ reply' = reply
      /\ completed' = completed /\ branch_counter' = branch_counter
  BY DEF Generate
<1>2. TypeInv /\ PromptInv /\ CallInv /\ DrainInv /\ LocalInv /\ SamplesInv
  BY DEF ClientInv
<1>3. prompt' \in Nat /\ prompt' > 0
  BY <1>1, <1>2, SMT DEF TypeInv
<1>4. /\ Samples(prompt') \subseteq Traces /\ IsFiniteSet(Samples(prompt')) /\ Samples(prompt') # {}
      /\ \A id \in Samples(prompt') : PromptOf(id) = prompt'
  BY <1>3, SamplesOfPrompt
<1>5. /\ live = {} /\ completed = {} /\ inbox = <<>> /\ reply = None /\ reqs_to_abort = {}
      /\ ~Multiprocess => outbox = <<>> /\ stored = None
  BY <1>1, <1>2 DEF DrainInv, CallInv, Calling, LocalInv
<1>6. SamplesInv'
  <2>1. prompt' # 0
    BY <1>3, SMT
  <2> QED
    BY <1>1, <1>4, <2>1 DEF SamplesInv, SamplesReturnedOnce, Samples
<1>7. ~Calling' /\ (Multiprocess' <=> Multiprocess)
  BY <1>1 DEF Calling, Multiprocess
<1>8. DrainInv' /\ LocalInv'
  <2>1. ~Multiprocess => 1 .. Len(outbox') = {}
    BY <1>1, <1>5, EmptySeq, LastPlace
  <2> QED
    BY <1>1, <1>5, <1>7, <2>1 DEF DrainInv, LocalInv, ExportIsComplete
<1>9. CASE Multiprocess
  <2>1. /\ inbox' = inbox \o [i \in 1 .. N |-> [type |-> "add", ids |-> {<<i, prompt'>>}]]
        /\ live' = live
    BY <1>9 DEF Generate, Send
  <2>2. \A i \in 1 .. N : {<<i, prompt'>>} \in SUBSET Traces
    BY <1>4 DEF Samples
  <2>3. /\ inbox' \in Seq(Messages) /\ Len(inbox') = N
        /\ \A i \in 1 .. N : inbox'[i] = [type |-> "add", ids |-> {<<i, prompt'>>}]
    <3> DEFINE q == [i \in 1 .. N |-> [type |-> "add", ids |-> {<<i, prompt'>>}]]
    <3>1. \A i \in 1 .. N : [type |-> "add", ids |-> {<<i, prompt'>>}] \in Messages
      BY <2>2, AddMessage
    <3>2. q \in Seq(Messages) /\ Len(q) = N
      <4>1. N \in Nat
        BY ClientAssumption, SMT
      <4>2. q \in [1 .. N -> Messages] /\ DOMAIN q = 1 .. N
        BY <3>1
      <4> HIDE DEF q
      <4>3. q \in Seq(Messages)
        BY <4>1, <4>2, SeqDef
      <4>4. DOMAIN q = 1 .. Len(q) /\ Len(q) \in Nat
        BY <4>3, LenProperties
      <4>5. 1 .. Len(q) = 1 .. N
        BY <4>2, <4>4
      <4> QED
        BY <4>3, <4>4, <4>5, ClientAssumption, IntervalLength
    <3>3. \A i \in 1 .. N : q[i] = [type |-> "add", ids |-> {<<i, prompt'>>}]
      OBVIOUS
    <3>4. inbox' = <<>> \o q
      BY <1>5, <2>1
    <3> HIDE DEF q
    <3>5. inbox' = q
      BY <3>2, <3>4, ConcatEmptySeq
    <3> QED
      BY <3>2, <3>3, <3>5
  <2>4. \A i \in 1 .. N : /\ inbox'[i].type = "add" /\ IsFiniteSet(inbox'[i].ids)
                          /\ \A id \in inbox'[i].ids : PromptOf(id) = prompt'
    <3> SUFFICES ASSUME NEW i \in 1 .. N
                 PROVE  /\ inbox'[i].type = "add" /\ IsFiniteSet(inbox'[i].ids)
                        /\ \A id \in inbox'[i].ids : PromptOf(id) = prompt'
      OBVIOUS
    <3>1. inbox'[i].type = "add" /\ inbox'[i].ids = {<<i, prompt'>>}
      BY <2>3, SMT
    <3>2. PromptOf(<<i, prompt'>>) = prompt'
      BY <1>4 DEF Samples
    <3> QED
      BY <3>1, <3>2, FS_Singleton
  <2>5. TypeInv'
    BY <1>1, <1>2, <1>3, <1>4, <2>1, <2>3 DEF TypeInv
  <2>6. PromptInv'
    BY <1>1, <1>5, <2>1, <2>3, <2>4 DEF PromptInv
  <2>7. CallInv'
    BY <1>1, <1>5, <1>7, <1>9, <2>3, <2>4 DEF CallInv
  <2> QED
    BY <1>6, <1>8, <2>5, <2>6, <2>7 DEF ClientInv
<1>10. CASE ~Multiprocess
  <2>1. live' = live \cup Samples(prompt') /\ inbox' = inbox
    BY <1>10 DEF Generate
  <2>2. live' = Samples(prompt') /\ 1 .. Len(inbox') = {}
    BY <1>5, <2>1, EmptySeq, LastPlace
  <2>3. TypeInv'
    BY <1>1, <1>2, <1>3, <1>4, <2>1, <2>2 DEF TypeInv
  <2>4. PromptInv'
    BY <1>1, <1>4, <1>5, <2>2 DEF PromptInv
  <2>5. CallInv'
    BY <1>1, <1>5, <1>7, <2>1, <2>2 DEF CallInv
  <2> QED
    BY <1>6, <1>8, <2>3, <2>4, <2>5 DEF ClientInv
<1> QED
  BY <1>9, <1>10

\* process_outputs: the request is finished with the last of its samples, once.
LEMMA ProcessOutputsSamples ==
    ASSUME SamplesInv, prompt \in Nat, NEW msg, NEW stops, ProcessOutputs(msg, stops),
           prompt' = prompt
    PROVE  SamplesInv'
<1> DEFINE ended == request_states \cap (msg.finished \cup stops)
<1>1. /\ request_states' = request_states \ ended /\ child_requests' = child_requests \ ended
      /\ returned' = returned + FinishedOutputs(ended)
  BY DEF ProcessOutputs
<1>2. ended \subseteq request_states
  OBVIOUS
<1> HIDE DEF ended
<1>3. /\ returned = (IF prompt > 0 /\ child_requests = {} THEN 1 ELSE 0)
      /\ child_requests = request_states /\ request_states \subseteq Samples(prompt)
      /\ prompt = 0 => request_states = {}
  BY DEF SamplesInv, SamplesReturnedOnce
<1>4. /\ child_requests' = request_states' /\ request_states' \subseteq Samples(prompt)
      /\ prompt = 0 => request_states' = {}
  BY <1>1, <1>3
<1>5. Samples(prompt') = Samples(prompt) /\ (Samples(prompt))' = Samples(prompt)
  BY DEF Samples
<1>6. returned' = (IF prompt > 0 /\ child_requests' = {} THEN 1 ELSE 0)
  <2>1. CASE child_requests = {}
    <3>1. FinishedOutputs(ended) = 0 /\ child_requests' = {}
      BY <1>1, <2>1 DEF FinishedOutputs
    <3> QED
      BY <1>1, <1>3, <2>1, <3>1, SMT
  <2>2. CASE child_requests # {} /\ child_requests \subseteq ended
    <3>1. FinishedOutputs(ended) = 1 /\ child_requests' = {}
      BY <1>1, <2>2 DEF FinishedOutputs
    <3>2. returned = 0 /\ (returned' = returned + 1)
      BY <1>1, <1>3, <2>2, <3>1
    <3>3. prompt # 0
      BY <1>3, <2>2
    <3>4. prompt > 0
      BY <3>3, SMT
    <3> QED
      BY <3>1, <3>2, <3>4, SMT
  <2>3. CASE ~(child_requests \subseteq ended)
    <3>1. FinishedOutputs(ended) = 0 /\ child_requests' # {} /\ child_requests # {}
      BY <1>1, <2>3 DEF FinishedOutputs
    <3> QED
      BY <1>1, <1>3, <3>1, SMT
  <2> QED
    BY <2>1, <2>2, <2>3
<1> QED
  BY <1>4, <1>5, <1>6 DEF SamplesInv, SamplesReturnedOnce

LEMMA TakeOutputInv ==
    ASSUME ClientInv, TakeOutput
    PROVE  ClientInv'
<1>1. /\ pc = "drain" \/ (pc = "main" /\ request_states # {})
      /\ outbox # <<>> /\ reqs_to_abort = {} /\ outbox' = Tail(outbox)
      /\ pc' = (IF pc = "drain" THEN "poll" ELSE "main")
      /\ config' = config /\ prompt' = prompt /\ inbox' = inbox /\ reply' = reply
      /\ UNCHANGED engineVars
  BY DEF TakeOutput
<1>2. live' = live /\ completed' = completed /\ branch_counter' = branch_counter
  BY <1>1 DEF engineVars
<1>3. TypeInv /\ PromptInv /\ CallInv /\ DrainInv /\ LocalInv /\ SamplesInv
  BY DEF ClientInv
<1>4. PICK stops \in SUBSET request_states : ProcessOutputs(Head(outbox), stops)
  <2>1. PICK stops \in IF StopStrings THEN SUBSET (request_states \cap Head(outbox).decoded)
                       ELSE {{}} :
             ProcessOutputs(Head(outbox), stops)
    BY DEF TakeOutput
  <2>2. stops \in SUBSET request_states
    BY <2>1
  <2> QED
    BY <2>1, <2>2
<1>5. /\ stored' = (IF Head(outbox).export = None THEN stored ELSE Head(outbox).export)
      /\ request_states' \subseteq request_states /\ reqs_to_abort' = stops
  BY <1>4 DEF ProcessOutputs
<1>6. /\ outbox' \in Seq(Outputs) /\ Head(outbox) = outbox[1] /\ Len(outbox') = Len(outbox) - 1
      /\ Len(outbox) \in Nat \ {0}
  <2>1. outbox \in Seq(Outputs)
    BY <1>3 DEF TypeInv
  <2>2. Len(outbox) \in Nat \ {0}
    BY <1>1, <2>1, EmptySeq
  <2>3. outbox' \in Seq(Outputs) /\ Len(outbox') = Len(outbox) - 1
    BY <1>1, <2>1, HeadTailProperties
  <2>4. Head(outbox) = outbox[1]
    BY <1>1, <2>1, SMT
  <2> QED
    BY <2>2, <2>3, <2>4
<1>7. pc' \in {"main", "poll"} /\ ~Calling /\ ~Calling' /\ (Multiprocess' <=> Multiprocess)
  BY <1>1 DEF Calling, Multiprocess
<1>8. TypeInv'
  BY <1>1, <1>2, <1>3, <1>5, <1>6, <1>7 DEF TypeInv
<1>9. PromptInv'
  BY <1>1, <1>2, <1>3 DEF PromptInv
<1>10. CallInv'
  BY <1>1, <1>3, <1>7 DEF CallInv
<1>11. DrainInv'
  BY <1>7 DEF DrainInv, ExportIsComplete
<1>12. LocalInv'
  <2> SUFFICES ASSUME ~Multiprocess
               PROVE  LocalInv'
    BY <1>7 DEF LocalInv
  <2>1. /\ Len(outbox) = 1 /\ (stored # None => Final(stored))
        /\ \A i \in 1 .. Len(outbox) : outbox[i].export # None => Final(outbox[i].export)
    BY <1>1, <1>3 DEF LocalInv
  <2>2. outbox' = <<>> /\ 1 .. Len(outbox') = {}
    <3>1. Len(outbox') = 0
      BY <1>6, <2>1, SMT
    <3>2. outbox' = <<>>
      BY <1>6, <3>1, EmptySeq
    <3> QED
      BY <3>1, <3>2, LastPlace
  <2>3. 1 \in 1 .. Len(outbox)
    BY <2>1, LastPlace
  <2>4. stored' # None => Final(stored)'
    <3>1. stored' # None => Final(stored')
      BY <1>5, <1>6, <2>1, <2>3
    <3> QED
      BY <1>2, <3>1 DEF Final
  <2> QED
    BY <1>7, <2>2, <2>4 DEF LocalInv
<1>13. SamplesInv'
  BY <1>1, <1>3, <1>4, ProcessOutputsSamples DEF TypeInv
<1> QED
  BY <1>8, <1>9, <1>10, <1>11, <1>12, <1>13 DEF ClientInv

LEMMA AbortStoppedInv ==
    ASSUME ClientInv, AbortStopped
    PROVE  ClientInv'
<1>1. /\ reqs_to_abort # {} /\ reqs_to_abort' = {} /\ config' = config /\ pc' = pc
      /\ prompt' = prompt /\ request_states' = request_states /\ stored' = stored
      /\ child_requests' = child_requests /\ returned' = returned
      /\ outbox' = outbox /\ reply' = reply
  BY DEF AbortStopped
<1>2. TypeInv /\ PromptInv /\ CallInv /\ DrainInv /\ LocalInv /\ SamplesInv
  BY DEF ClientInv
<1>3. pc \in {"main", "poll"} /\ ~Calling /\ ~Calling' /\ (Multiprocess' <=> Multiprocess)
  BY <1>1, <1>2 DEF CallInv, Calling, Multiprocess
<1>4. SamplesInv'
  BY <1>1, <1>2 DEF SamplesInv, SamplesReturnedOnce, Samples
<1>5. DrainInv'
  BY <1>1, <1>3 DEF DrainInv, ExportIsComplete
<1>6. CASE Multiprocess
  <2> DEFINE m == [type |-> "abort", ids |-> reqs_to_abort]
  <2>1. Send(<<m>>) /\ UNCHANGED engineVars
    BY <1>6 DEF AbortStopped
  <2>2. live' = live /\ completed' = completed /\ branch_counter' = branch_counter
    BY <2>1 DEF engineVars
  <2>3. m \in Messages /\ m.type = "abort"
    BY <1>2, SMT DEF Messages, TypeInv
  <2> HIDE DEF m
  <2>4. /\ inbox' \in Seq(Messages)
        /\ Len(inbox) \in Nat /\ Len(inbox') = Len(inbox) + 1
        /\ \A i \in 1 .. Len(inbox) : inbox'[i] = inbox[i]
        /\ inbox'[Len(inbox')] = m
    BY <1>2, <2>1, <2>3, MessageSent DEF TypeInv
  <2>5. ASSUME NEW i \in 1 .. Len(inbox')
        PROVE  inbox'[i].type \in {"add", "abort"}
    <3>1. CASE i = Len(inbox')
      BY <3>1, <2>3, <2>4
    <3>2. CASE i # Len(inbox')
      <4>1. i \in 1 .. Len(inbox)
        BY <2>4, <3>2, SMT
      <4> QED
        BY <4>1, <1>2, <1>3, <2>4 DEF CallInv
    <3> QED
      BY <3>1, <3>2
  <2>6. TypeInv'
    BY <1>1, <1>2, <2>2, <2>4 DEF TypeInv
  <2>7. PromptInv'
    <3>1. m.type # "add"
      BY <2>3
    <3>2. \A id \in live' \cup completed' : PromptOf(id) = prompt'
      BY <1>1, <1>2, <2>2 DEF PromptInv
    <3> QED
      BY <1>1, <2>1, <2>3, <3>1, <3>2, SentKeepsPrompt DEF PromptInv
  <2>8. CallInv'
    BY <1>1, <1>2, <1>3, <1>6, <2>5 DEF CallInv
  <2>9. LocalInv'
    BY <1>3, <1>6 DEF LocalInv
  <2> QED
    BY <1>4, <1>5, <2>6, <2>7, <2>8, <2>9 DEF ClientInv
<1>7. CASE ~Multiprocess
  <2>1. live' = live \ reqs_to_abort /\ completed' = completed /\ branch_counter' = branch_counter
        /\ inbox' = inbox
    BY <1>7 DEF AbortStopped, AbortRequests
  <2>2. live' \subseteq live /\ IsFiniteSet(live')
    BY <1>2, <2>1, FS_Subset DEF TypeInv
  <2>3. TypeInv'
    BY <1>1, <1>2, <2>1, <2>2 DEF TypeInv
  <2>4. PromptInv'
    BY <1>1, <1>2, <2>1, <2>2 DEF PromptInv
  <2>5. CallInv'
    BY <1>1, <1>2, <1>3, <1>7, <2>1 DEF CallInv
  <2>6. LocalInv'
    BY <1>1, <1>2, <1>3, <1>7, <2>1, <2>2 DEF LocalInv, Final
  <2> QED
    BY <1>4, <1>5, <2>3, <2>4, <2>5, <2>6 DEF ClientInv
<1> QED
  BY <1>6, <1>7

LEMMA MainLoopEndsInv ==
    ASSUME ClientInv, MainLoopEnds
    PROVE  ClientInv'
<1>1. /\ pc = "main" /\ pc' = "poll" /\ request_states = {} /\ reqs_to_abort = {}
      /\ config' = config /\ prompt' = prompt /\ request_states' = request_states
      /\ child_requests' = child_requests /\ returned' = returned
      /\ reqs_to_abort' = reqs_to_abort /\ stored' = stored
      /\ UNCHANGED queueVars /\ UNCHANGED engineVars
  BY DEF MainLoopEnds
<1>2. /\ live' = live /\ completed' = completed /\ branch_counter' = branch_counter
      /\ inbox' = inbox /\ outbox' = outbox /\ reply' = reply
  BY <1>1 DEF engineVars, queueVars
<1>3. TypeInv /\ PromptInv /\ CallInv /\ DrainInv /\ LocalInv /\ SamplesInv
  BY DEF ClientInv
<1>4. ~Calling /\ ~Calling' /\ (Multiprocess' <=> Multiprocess)
  BY <1>1 DEF Calling, Multiprocess
<1>5. TypeInv'
  BY <1>1, <1>2, <1>3 DEF TypeInv
<1>6. PromptInv'
  BY <1>1, <1>2, <1>3 DEF PromptInv
<1>7. CallInv'
  BY <1>1, <1>2, <1>3, <1>4 DEF CallInv
<1>8. DrainInv'
  BY <1>1 DEF DrainInv, ExportIsComplete
<1>9. LocalInv'
  <2>1. ~Multiprocess => outbox = <<>>
    BY <1>1, <1>3 DEF LocalInv
  <2> QED
    BY <1>1, <1>2, <1>3, <1>4, <2>1 DEF LocalInv, Final
<1>10. SamplesInv'
  BY <1>1, <1>3 DEF SamplesInv, SamplesReturnedOnce, Samples
<1> QED
  BY <1>5, <1>6, <1>7, <1>8, <1>9, <1>10 DEF ClientInv

LEMMA CallExportInv ==
    ASSUME ClientInv, CallExport
    PROVE  ClientInv'
<1> DEFINE m == [type |-> "export", ids |-> {}]
<1>1. /\ pc = "poll" /\ pc' = "polling" /\ reqs_to_abort = {} /\ Multiprocess /\ Send(<<m>>)
      /\ config' = config /\ prompt' = prompt /\ request_states' = request_states
      /\ child_requests' = child_requests /\ returned' = returned
      /\ reqs_to_abort' = reqs_to_abort /\ outbox' = outbox /\ reply' = reply
      /\ UNCHANGED engineVars
  BY DEF CallExport, LiveExport
<1>2. live' = live /\ completed' = completed /\ branch_counter' = branch_counter
  BY <1>1 DEF engineVars
<1>3. TypeInv /\ PromptInv /\ CallInv /\ SamplesInv
  BY DEF ClientInv
<1>4. m \in Messages /\ m.type = "export"
  BY SMT DEF Messages
<1> HIDE DEF m
<1>5. ~Calling /\ Calling' /\ CallType' = "export" /\ Multiprocess' /\ reply = None
  BY <1>1, <1>3 DEF Calling, CallType, Multiprocess, CallInv
<1>6. CallInv' /\ inbox' \in Seq(Messages)
  BY <1>1, <1>4, <1>5, CallSent
<1>7. TypeInv'
  BY <1>1, <1>2, <1>3, <1>6 DEF TypeInv
<1>8. PromptInv'
  <2>1. m.type # "add"
    BY <1>4
  <2>2. \A id \in live' \cup completed' : PromptOf(id) = prompt'
    BY <1>1, <1>2, <1>3 DEF PromptInv
  <2> QED
    BY <1>1, <1>4, <2>1, <2>2, SentKeepsPrompt DEF PromptInv
<1>9. DrainInv' /\ LocalInv'
  BY <1>1, <1>5 DEF DrainInv, LocalInv, ExportIsComplete
<1>10. SamplesInv'
  BY <1>1, <1>3 DEF SamplesInv, SamplesReturnedOnce, Samples
<1> QED
  BY <1>6, <1>7, <1>8, <1>9, <1>10 DEF ClientInv

\* _drain_counts: generate() leaves the drain loop with an export that counts
\* nothing, which is the whole truth.
LEMMA Decided ==
    ASSUME ClientInv, NEW e, e # None, Final(e), Decide(e), UNCHANGED engineVars,
           UNCHANGED <<config, prompt, request_states, child_requests, returned, reqs_to_abort,
                       stored, inbox, outbox>>,
           reply' = None, reqs_to_abort = {}, pc \in {"poll", "polling"},
           Multiprocess => inbox = <<>>
    PROVE  ClientInv'
<1>1. /\ config' = config /\ prompt' = prompt /\ request_states' = request_states
      /\ child_requests' = child_requests /\ returned' = returned /\ stored' = stored
      /\ reqs_to_abort' = reqs_to_abort /\ outbox' = outbox /\ inbox' = inbox
      /\ live' = live /\ completed' = completed /\ branch_counter' = branch_counter
  BY DEF engineVars
<1>2. /\ exported' = e /\ pc' \in {"drain", "returned"}
      /\ pc' = "returned" => live = {} /\ e.completed = completed
  <2>1. e.count \in Nat /\ (e.count = 0 => live = {} /\ e.completed = completed)
    BY DEF Final
  <2>2. exported' = e /\ pc' = (IF e.count > 0 THEN "drain" ELSE "returned")
    BY DEF Decide
  <2>3. e.count > 0 \/ e.count = 0
    BY <2>1, SMT
  <2>4. ASSUME pc' = "returned"
        PROVE  live = {} /\ e.completed = completed
    BY <2>1, <2>2, <2>3, <2>4
  <2> QED
    BY <2>2, <2>4
<1>3. TypeInv /\ PromptInv /\ CallInv /\ DrainInv /\ LocalInv /\ SamplesInv
  BY DEF ClientInv
<1>4. ~Calling' /\ (Multiprocess' <=> Multiprocess) /\ inbox' = <<>>
  BY <1>1, <1>2, <1>3 DEF Calling, Multiprocess, CallInv
<1>5. TypeInv'
  BY <1>1, <1>2, <1>3 DEF TypeInv
<1>6. PromptInv'
  BY <1>1, <1>3 DEF PromptInv
<1>7. CallInv'
  <2>1. 1 .. Len(inbox') = {}
    BY <1>4, EmptySeq, LastPlace
  <2> QED
    BY <1>1, <1>2, <1>4, <2>1 DEF CallInv
<1>8. DrainInv'
  <2>1. ExportIsComplete'
    BY <1>1, <1>2, <1>3 DEF ExportIsComplete, PromptInv
  <2> QED
    BY <1>1, <1>2, <2>1 DEF DrainInv
<1>9. LocalInv'
  <2>1. ~Multiprocess => outbox = <<>>
    BY <1>3 DEF LocalInv
  <2> QED
    BY <1>1, <1>2, <1>3, <1>4, <2>1 DEF LocalInv, Final
<1>10. SamplesInv'
  BY <1>1, <1>3 DEF SamplesInv, SamplesReturnedOnce, Samples
<1> QED
  BY <1>5, <1>6, <1>7, <1>8, <1>9, <1>10 DEF ClientInv

LEMMA ExportReturnsInv ==
    ASSUME ClientInv, ExportReturns
    PROVE  ClientInv'
<1>1. /\ pc = "polling" /\ reply # None /\ reply' = None /\ Decide(reply)
      /\ UNCHANGED <<config, prompt, request_states, child_requests, returned, reqs_to_abort,
                     stored, inbox, outbox>>
      /\ UNCHANGED engineVars
  BY DEF ExportReturns
<1>2. CallInv /\ DrainInv
  BY DEF ClientInv
<1>3. Final(reply) /\ inbox = <<>> /\ reqs_to_abort = {}
  BY <1>1, <1>2 DEF CallInv, DrainInv, Calling
<1> QED
  BY <1>1, <1>3, Decided

LEMMA LocalExportInv ==
    ASSUME ClientInv, LocalExport
    PROVE  ClientInv'
<1> DEFINE e == IF stored # None \/ Multiprocess THEN stored ELSE TreeExport
<1>1. /\ pc = "poll" /\ reqs_to_abort = {} /\ ~Multiprocess /\ Decide(e)
      /\ UNCHANGED <<config, prompt, request_states, child_requests, returned, reqs_to_abort,
                     stored, inbox, outbox>>
      /\ UNCHANGED engineVars /\ reply' = reply
  BY DEF LocalExport, LiveExport, queueVars
<1>2. TypeInv /\ CallInv /\ LocalInv
  BY DEF ClientInv
<1>3. reply' = None
  BY <1>1, <1>2 DEF CallInv, Calling
<1>4. e # None /\ Final(e)
  <2>1. CASE stored # None
    BY <1>1, <1>2, <2>1 DEF LocalInv
  <2>2. CASE stored = None
    <3>1. IsFiniteSet(live) /\ TreeExport = [count |-> Cardinality(live), completed |-> completed]
      BY <1>2 DEF TypeInv, TreeExport, SchedulerActiveCount
    <3>2. TreeExport # None /\ Final(TreeExport)
      BY <3>1, ExportOfActive DEF Final
    <3> QED
      BY <1>1, <2>2, <3>2
  <2> QED
    BY <2>1, <2>2
<1> HIDE DEF e
<1> QED
  BY <1>1, <1>3, <1>4, Decided

-----------------------------------------------------------------------------
(***************************************************************************)
(* The theorems.                                                           *)
(***************************************************************************)

LEMMA ClientInitInv == Init => ClientInv
<1> SUFFICES ASSUME Init PROVE ClientInv
  OBVIOUS
<1> USE DEF Init
<1>1. 0 \in Nat /\ ~(0 > 0)
  BY SMT
<1>2. <<>> \in Seq(Messages) /\ <<>> \in Seq(Outputs) /\ 1 .. Len(<<>>) = {} /\ Len(<<>>) <= 1
  BY EmptySeq, LastPlace
<1>3. TypeInv
  BY <1>1, <1>2, FS_EmptySet DEF TypeInv
<1>4. PromptInv
  BY <1>2 DEF PromptInv
<1>5. CallInv
  BY <1>2 DEF CallInv, Calling
<1>6. DrainInv /\ LocalInv
  BY <1>1, <1>2 DEF DrainInv, LocalInv, ExportIsComplete
<1>7. SamplesInv
  BY <1>1 DEF SamplesInv, SamplesReturnedOnce
<1> QED
  BY <1>3, <1>4, <1>5, <1>6, <1>7 DEF ClientInv

LEMMA ClientNextInv == ClientInv /\ [Next]_vars => ClientInv'
<1> SUFFICES ASSUME ClientInv, [Next]_vars PROVE ClientInv'
  OBVIOUS
<1>1. CASE Handle
  BY <1>1, HandleAddInv, HandleAbortInv, HandleExportInv, HandleResetInv DEF Handle
<1>2. CASE Step \/ StepEmpty \/ StepWithoutRequests
  BY <1>2, StepInv, StepEmptyInv, StepWithoutRequestsInv
<1>3. CASE Frontend
  BY <1>3, CallResetInv, ResetReturnsInv, GenerateInv, TakeOutputInv, AbortStoppedInv,
     MainLoopEndsInv, CallExportInv, ExportReturnsInv, LocalExportInv DEF Frontend
<1>4. CASE UNCHANGED vars
  <2>1. /\ config' = config /\ pc' = pc /\ prompt' = prompt /\ request_states' = request_states
        /\ child_requests' = child_requests /\ returned' = returned
        /\ reqs_to_abort' = reqs_to_abort /\ stored' = stored /\ exported' = exported
        /\ inbox' = inbox /\ outbox' = outbox /\ reply' = reply
        /\ live' = live /\ completed' = completed /\ branch_counter' = branch_counter
        /\ UNCHANGED <<clientVars, inbox, reply>>
    BY <1>4 DEF vars, clientVars, queueVars, engineVars
  <2>2. TypeInv' /\ PromptInv'
    BY <2>1 DEF ClientInv, TypeInv, PromptInv
  <2>3. DrainInv' /\ LocalInv'
    BY <2>1 DEF ClientInv, DrainInv, LocalInv, Final, ExportIsComplete, Multiprocess
  <2> QED
    BY <2>1, <2>2, <2>3, StepKeepsCall DEF ClientInv
<1> QED
  BY <1>1, <1>2, <1>3, <1>4 DEF Next

\* The inductive invariant of generate().
THEOREM ClientInvariant == Spec => []ClientInv
BY ClientInitInv, ClientNextInv, PTL DEF Spec

\* make_request_output(): whatever outputs arrive late or twice, from branches or
\* from the previous prompt, the prompt is returned once, with its last sample.
THEOREM ClientReturnsOnce == Spec => []SamplesReturnedOnce
<1>1. ClientInv => SamplesReturnedOnce
  BY DEF ClientInv, SamplesInv
<1> QED
  BY <1>1, ClientInvariant, PTL

\* _run_engine(): the drain loop ends only when the scheduler holds nothing, so
\* the reset before the next prompt is never skipped.
THEOREM ClientDrains == Spec => []ReturnsDrained
<1>1. ClientInv => ReturnsDrained
  BY DEF ClientInv, DrainInv, ReturnsDrained
<1> QED
  BY <1>1, ClientInvariant, PTL

\* get_gambit_tree_export(): at the return it has exactly the completed traces,
\* all of them of this prompt, whichever client brought it.
THEOREM ClientExportsAll == Spec => []ExportIsComplete
<1>1. ClientInv => ExportIsComplete
  BY DEF ClientInv, DrainInv
<1> QED
  BY <1>1, ClientInvariant, PTL
=============================================================================
