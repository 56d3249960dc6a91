------------------------ MODULE TrainingQueueProofs ------------------------
(***************************************************************************)
(* Proofs about TrainingQueue for every set of agents and threads and      *)
(* every bound: its types, the agreement of the two queue structures, the  *)
(* gate, the slots and the strength of a merged request.                   *)
(***************************************************************************)
EXTENDS TrainingQueue, FiniteSetTheorems, TLAPS

USE QueueAssumption

\* A thread that goes to a well-formed record leaves all threads well formed.
LEMMA PutKeeps ==
    ASSUME thread \in [Threads -> Locals], Shape,
           NEW t \in Threads, NEW r \in Locals, ShapeOf(r), Put(t, r)
    PROVE  thread' \in [Threads -> Locals] /\ Shape'
BY DEF Put, Shape

\* Idle is well formed.
LEMMA IdleOK == Idle \in Locals /\ ShapeOf(Idle)
BY DEF Idle, Locals, Steps, ShapeOf

\* A step of a thread that keeps its locals.
LEMMA GotoKeeps ==
    ASSUME thread \in [Threads -> Locals], Shape,
           NEW t \in Threads, NEW step \in Steps, Goto(t, step),
           ShapeOf([thread[t] EXCEPT !.step = step])
    PROVE  thread' \in [Threads -> Locals] /\ Shape'
<1>1. [thread[t] EXCEPT !.step = step] \in Locals
  BY DEF Locals
<1> QED BY <1>1, PutKeeps DEF Goto

\* What a returning thread goes to is well formed.
LEMMA DoneOK ==
    ASSUME NEW t \in Threads
    PROVE  Done(t) \in Locals /\ ShapeOf(Done(t))
BY DEF Done, Idle, Locals, Steps, ShapeOf

LEMMA ReturnKeeps ==
    ASSUME thread \in [Threads -> Locals], Shape, NEW t \in Threads, Return(t)
    PROVE  thread' \in [Threads -> Locals] /\ Shape'
BY DoneOK, PutKeeps DEF Return

\* Upgrading a job leaves a job of the same agent and the same number.
LEMMA UpgradedOK ==
    ASSUME NEW j \in Jobs, NEW r \in AllRequests
    PROVE  /\ Upgraded(j, r) \in Jobs
           /\ Upgraded(j, r).agent = j.agent
BY DEF Upgraded, Jobs, AllRequests, Reasons, Priority

\* The end of enqueue is well formed.
LEMMA EnqueuedOK ==
    ASSUME NEW t \in Threads, thread[t] \in Locals,
           thread[t].agent \in Agents, thread[t].req \in AllRequests
    PROVE  Enqueued(t) \in Locals /\ ShapeOf(Enqueued(t))
<1>1. [thread[t] EXCEPT !.step = "offer"] \in Locals
  BY DEF Locals, Steps
<1>2. ShapeOf([thread[t] EXCEPT !.step = "offer"])
  BY DEF ShapeOf, Locals
<1> QED BY <1>1, <1>2, DoneOK DEF Enqueued

-----------------------------------------------------------------------------
(* Types *)

Typed == TypeOK /\ Shape

LEMMA TypedInit == Init => Typed
BY IdleOK DEF Init, Typed, TypeOK, Shape, Reasons

\* Upgrading the waiting job keeps the types.
LEMMA UpgradeTyped ==
    ASSUME Typed, NEW t \in Threads, NEW j \in jobs, j.agent = thread[t].agent,
           thread[t].agent \in Agents, thread[t].req \in AllRequests,
           Upgrade(t, j), UNCHANGED <<slots, history, sequence, exists>>
    PROVE  Typed'
<1>1. j \in Jobs /\ thread \in [Threads -> Locals]
  BY DEF Typed, TypeOK
<1> DEFINE k == Upgraded(j, thread[t].req)
<1>2. k \in Jobs
  BY <1>1, UpgradedOK
<1>3. Enqueued(t) \in Locals /\ ShapeOf(Enqueued(t))
  BY <1>1, EnqueuedOK
<1>4. ASSUME NEW u \in Threads
      PROVE  /\ [thread[u] EXCEPT !.job = k] \in Locals
             /\ ShapeOf([thread[u] EXCEPT !.job = k])
  <2>1. thread[u] \in Locals /\ ShapeOf(thread[u])
    BY <1>1 DEF Typed, Shape
  <2> QED BY <1>2, <2>1 DEF Locals, ShapeOf
<1>5. thread' = [u \in Threads |-> IF u = t THEN Enqueued(t)
                   ELSE IF thread[u].job = j
                        THEN [thread[u] EXCEPT !.job = k] ELSE thread[u]]
  BY DEF Upgrade
<1> HIDE DEF k
<1>6. thread' \in [Threads -> Locals] /\ Shape'
  <2>1. ASSUME NEW u \in Threads PROVE thread'[u] \in Locals /\ ShapeOf(thread'[u])
    BY <1>1, <1>3, <1>4, <1>5 DEF Typed, Shape
  <2> QED BY <1>5, <2>1 DEF Shape
<1>7. jobs' \in SUBSET Jobs /\ wanted' \in [Agents -> SUBSET AllRequests]
      /\ pending' \in SUBSET Agents /\ lost' \in SUBSET Agents
  BY <1>1, <1>2 DEF Upgrade, Typed, TypeOK, k
<1> QED
  BY <1>6, <1>7 DEF Typed, TypeOK, slots, history, vars

\* Calls of other threads.
LEMMA CallTyped ==
    ASSUME Typed, NEW t \in Callers, Call(t)
    PROVE  Typed'
<1>1. t \in Threads /\ thread \in [Threads -> Locals] /\ Shape
  BY DEF Threads, Typed, TypeOK
<1>2. CASE \E a \in Agents, r \in Requests : Enqueue(t, a, r)
  <2>1. PICK a \in Agents, r \in Requests : Enqueue(t, a, r)
    BY <1>2
  <2> DEFINE new == [Idle EXCEPT !.step = "check", !.agent = a, !.req = r]
  <2>2. new \in Locals /\ ShapeOf(new)
    BY DEF Idle, Locals, Steps, ShapeOf
  <2>3. thread' \in [Threads -> Locals] /\ Shape'
    BY <1>1, <2>1, <2>2, PutKeeps DEF Enqueue
  <2> QED BY <2>1, <2>3 DEF Enqueue, Typed, TypeOK, queue, slots, history
<1>3. ASSUME NEW a \in Agents, Cancel(t, a) PROVE Typed'
  BY <1>3 DEF Cancel, Withdraw, Typed, TypeOK, Shape, queue, slots, history
<1>4. ASSUME NEW a \in Agents, Discard(t, a) PROVE Typed'
  <2> DEFINE new == [Idle EXCEPT !.step = "discard", !.agent = a, !.snap = Running]
  <2>1. Running \in SUBSET Agents
    BY DEF Running
  <2>2. new \in Locals /\ ShapeOf(new)
    BY <2>1 DEF Idle, Locals, Steps, ShapeOf
  <2>3. thread' \in [Threads -> Locals] /\ Shape'
    BY <1>1, <1>4, <2>2, PutKeeps DEF Discard
  <2> QED BY <1>4, <2>3 DEF Discard, Typed, TypeOK, queue, slots, history
<1>5. ASSUME NEW a \in Agents, Delete(t, a) PROVE Typed'
  <2> DEFINE new == [Idle EXCEPT !.step = "cancel", !.agent = a]
  <2>2. new \in Locals /\ ShapeOf(new)
    BY DEF Idle, Locals, Steps, ShapeOf
  <2>3. thread' \in [Threads -> Locals] /\ Shape'
    BY <1>1, <1>5, <2>2, PutKeeps DEF Delete
  <2> QED BY <1>5, <2>3 DEF Delete, Typed, TypeOK, queue, slots, history
<1> QED BY <1>2, <1>3, <1>4, <1>5 DEF Call

\* The steps of enqueue.
LEMMA EnqueueTyped ==
    ASSUME Typed, NEW t \in Threads,
           Check(t) \/ Yield(t) \/ AppendRequest(t) \/ Offer(t)
    PROVE  Typed'
<1>1. thread \in [Threads -> Locals] /\ Shape /\ thread[t] \in Locals
      /\ ShapeOf(thread[t])
  BY DEF Typed, TypeOK, Shape
<1> USE DEF queue, slots, history
<1>2. CASE Check(t)
  <2>1. thread[t].agent \in Agents /\ thread[t].req \in AllRequests
    BY <1>1, <1>2 DEF Check, ShapeOf
  <2>2. CASE Return(t) /\ UNCHANGED queue
    BY <1>1, <1>2, <2>2, ReturnKeeps DEF Check, Typed, TypeOK
  <2>3. ASSUME NEW j \in jobs, j.agent = thread[t].agent, Upgrade(t, j) PROVE Typed'
    BY <1>2, <2>1, <2>3, UpgradeTyped DEF Check
  <2>4. CASE Goto(t, "yield") /\ UNCHANGED queue
    <3>1. ShapeOf([thread[t] EXCEPT !.step = "yield"])
      BY <1>1, <2>1 DEF ShapeOf, Locals
    <3>2. thread' \in [Threads -> Locals] /\ Shape'
      BY <1>1, <2>4, <3>1, GotoKeeps DEF Steps
    <3> QED BY <1>2, <2>4, <3>2 DEF Check, Typed, TypeOK
  <2> QED BY <1>2, <2>2, <2>3, <2>4 DEF Check
<1>3. CASE Yield(t)
  <2>1. thread[t].agent \in Agents /\ thread[t].req \in AllRequests
    BY <1>1, <1>3 DEF Yield, ShapeOf
  <2> DEFINE new == [thread[t] EXCEPT !.step = "append", !.seq = sequence + 1]
  <2>2. sequence + 1 \in Nat
    BY DEF Typed, TypeOK
  <2>3. new \in Locals /\ ShapeOf(new)
    BY <1>1, <2>1, <2>2 DEF Locals, Steps, ShapeOf
  <2>4. thread' \in [Threads -> Locals] /\ Shape'
    <3>1. CASE Put(t, new)
      <4> HIDE DEF new
      <4> QED BY <1>1, <2>3, <3>1, PutKeeps
    <3>2. CASE Put(t, Idle)
      BY <1>1, <3>2, IdleOK, PutKeeps
    <3> QED BY <1>3, <3>1, <3>2 DEF Yield
  <2> QED BY <1>3, <2>2, <2>4 DEF Yield, Typed, TypeOK
<1>4. CASE AppendRequest(t)
  <2>1. thread[t].agent \in Agents /\ thread[t].req \in AllRequests
    BY <1>1, <1>4 DEF AppendRequest, ShapeOf
  <2>2. ASSUME NEW j \in jobs, j.agent = thread[t].agent, Upgrade(t, j) PROVE Typed'
    BY <1>4, <2>1, <2>2, UpgradeTyped DEF AppendRequest
  <2>3. CASE Put(t, Enqueued(t)) /\ ~(\E j \in jobs : j.agent = thread[t].agent /\ Upgrade(t, j))
    <3> DEFINE r == thread[t].req
               new == [agent |-> thread[t].agent, reason |-> r.reason,
                       rebuild |-> r.rebuild, priority |-> Priority(r.reason),
                       seq |-> thread[t].seq]
    <3>1. new \in Jobs
      BY <1>1, <2>1 DEF Jobs, AllRequests, Reasons, Priority, Locals
    <3>2. thread' \in [Threads -> Locals] /\ Shape'
      BY <1>1, <2>1, <2>3, EnqueuedOK, PutKeeps
    <3>3. /\ jobs' = jobs \cup {new} /\ pending' = pending \cup {thread[t].agent}
          /\ wanted' = [wanted EXCEPT ![thread[t].agent] = {r}] /\ lost' = lost
      BY <1>4, <2>3 DEF AppendRequest
    <3> HIDE DEF new
    <3> QED BY <1>4, <2>1, <3>1, <3>2, <3>3 DEF AppendRequest, Typed, TypeOK
  <2> QED BY <1>4, <2>2, <2>3 DEF AppendRequest
<1>5. CASE Offer(t)
  <2>1. thread' \in [Threads -> Locals] /\ Shape'
    <3>1. CASE Goto(t, "pick")
      <4>1. ShapeOf([thread[t] EXCEPT !.step = "pick"])
        BY <1>1 DEF ShapeOf, Locals
      <4> QED BY <1>1, <3>1, <4>1, GotoKeeps DEF Steps
    <3> QED BY <1>1, <1>5, <3>1, ReturnKeeps DEF Offer
  <2> QED BY <1>5, <2>1 DEF Offer, Typed, TypeOK
<1> QED BY <1>2, <1>3, <1>4, <1>5

\* The steps of cancel_active, of DELETE and of _finish_active_if_done.
LEMMA FinishTyped ==
    ASSUME Typed, NEW t \in Threads,
           CancelActive(t) \/ CancelDeleted(t) \/ Erase(t)
             \/ Poll(t) \/ ListDone(t) \/ Free(t)
    PROVE  Typed'
<1>1. thread \in [Threads -> Locals] /\ Shape /\ thread[t] \in Locals
      /\ ShapeOf(thread[t])
  BY DEF Typed, TypeOK, Shape
<1> USE DEF queue, slots, history
<1>2. CASE CancelActive(t)
  <2>1. thread' \in [Threads -> Locals] /\ Shape'
    BY <1>1, <1>2, IdleOK, PutKeeps DEF CancelActive
  <2>2. thread[t].agent \in Agents
    BY <1>1, <1>2 DEF CancelActive, ShapeOf
  <2> QED BY <1>2, <2>1, <2>2 DEF CancelActive, Typed, TypeOK
<1>3. CASE CancelDeleted(t)
  <2>1. ShapeOf([thread[t] EXCEPT !.step = "erase"])
    BY <1>1, <1>3 DEF CancelDeleted, ShapeOf, Locals
  <2>2. thread' \in [Threads -> Locals] /\ Shape'
    BY <1>1, <1>3, <2>1, GotoKeeps DEF CancelDeleted, Steps
  <2> QED BY <1>3, <2>2 DEF CancelDeleted, Withdraw, Typed, TypeOK
<1>4. CASE Erase(t)
  <2>1. thread' \in [Threads -> Locals] /\ Shape'
    BY <1>1, <1>4, IdleOK, PutKeeps DEF Erase
  <2> QED BY <1>4, <2>1 DEF Erase, Typed, TypeOK
<1>5. CASE Poll(t)
  <2> DEFINE new == [Idle EXCEPT !.step = "list", !.snap = Running]
  <2>3. Running \in SUBSET Agents
    BY DEF Running
  <2>1. new \in Locals /\ ShapeOf(new)
    BY <2>3 DEF Idle, Locals, Steps, ShapeOf
  <2>2. thread' \in [Threads -> Locals] /\ Shape'
    BY <1>1, <1>5, <2>1, PutKeeps DEF Poll
  <2> QED BY <1>5, <2>2 DEF Poll, Typed, TypeOK
<1>6. CASE ListDone(t)
  <2>1. thread' \in [Threads -> Locals] /\ Shape'
    <3>1. CASE Put(t, [Idle EXCEPT !.step = "pick"])
      <4>1. [Idle EXCEPT !.step = "pick"] \in Locals
            /\ ShapeOf([Idle EXCEPT !.step = "pick"])
        BY DEF Idle, Locals, Steps, ShapeOf
      <4> QED BY <1>1, <3>1, <4>1, PutKeeps
    <3>2. CASE \E j \in ActiveJobs : Put(t, Finishing(j))
      <4>1. PICK j \in ActiveJobs : Put(t, Finishing(j))
        BY <3>2
      <4>2. j \in Jobs
        BY DEF ActiveJobs, Typed, TypeOK
      <4>3. Finishing(j) \in Locals /\ ShapeOf(Finishing(j))
        BY <4>2 DEF Finishing, Idle, Locals, Steps, ShapeOf, Typed, TypeOK
      <4> QED BY <1>1, <4>1, <4>3, PutKeeps
    <3>3. \/ Put(t, [Idle EXCEPT !.step = "pick"])
          \/ \E j \in ActiveJobs : Put(t, Finishing(j))
      BY <1>6 DEF ListDone
    <3> QED BY <3>1, <3>2, <3>3
  <2> QED BY <1>6, <2>1 DEF ListDone, Typed, TypeOK
<1>7. CASE Free(t)
  <2>1. thread[t].job \in Jobs
    BY <1>1, <1>7 DEF Free, ShapeOf
  <2>2. thread[t].job.agent \in Agents /\ thread[t].job.rebuild \in BOOLEAN
        /\ thread[t].job.reason \in Reasons
    BY <2>1 DEF Jobs
  <2>3. active' \in Jobs \cup {None} /\ parallel' \in SUBSET Jobs
    BY <1>7 DEF Free, FreeSlot, Typed, TypeOK
  <2>4. thread' \in [Threads -> Locals] /\ Shape'
    <3>1. CASE Put(t, [Idle EXCEPT !.step = "pick"])
      <4>1. [Idle EXCEPT !.step = "pick"] \in Locals
            /\ ShapeOf([Idle EXCEPT !.step = "pick"])
        BY DEF Idle, Locals, Steps, ShapeOf
      <4> QED BY <1>1, <3>1, <4>1, PutKeeps
    <3>2. ASSUME NEW rebuild \in {FALSE, thread[t].job.rebuild},
                 Put(t, [Idle EXCEPT !.step = "check", !.agent = thread[t].job.agent,
                           !.req = [reason |-> thread[t].job.reason,
                                    rebuild |-> rebuild]])
          PROVE  thread' \in [Threads -> Locals] /\ Shape'
      <4> DEFINE req == [reason |-> thread[t].job.reason, rebuild |-> rebuild]
                 new == [Idle EXCEPT !.step = "check",
                           !.agent = thread[t].job.agent, !.req = req]
      <4>1. req \in AllRequests
        BY <2>2 DEF AllRequests
      <4> HIDE DEF req
      <4>2. new \in Locals /\ ShapeOf(new)
        BY <2>2, <4>1 DEF Idle, Locals, Steps, ShapeOf
      <4>3. Put(t, new)
        BY <3>2 DEF req
      <4> HIDE DEF new
      <4> QED BY <1>1, <4>2, <4>3, PutKeeps
    <3> QED BY <1>7, <3>1, <3>2 DEF Free
  <2> QED BY <1>7, <2>2, <2>3, <2>4 DEF Free, Typed, TypeOK
<1> QED BY <1>2, <1>3, <1>4, <1>5, <1>6, <1>7

\* Dropping the head of the queue.
LEMMA DropHeadTyped ==
    ASSUME Typed, NEW t \in Threads, DropHead(t)
    PROVE  /\ jobs' \in SUBSET Jobs /\ pending' \in SUBSET Agents
           /\ wanted' \in [Agents -> SUBSET AllRequests] /\ lost' \in SUBSET Agents
<1>1. \A h \in Heads : h.agent \in Agents
  BY DEF Heads, Typed, TypeOK, Jobs
<1> QED BY <1>1 DEF DropHead, Take, queue, Typed, TypeOK

\* The steps of _try_start_head.
LEMMA StartTyped ==
    ASSUME Typed, NEW t \in Threads, StartStep(t)
    PROVE  Typed'
<1>1. thread \in [Threads -> Locals] /\ Shape /\ thread[t] \in Locals
      /\ ShapeOf(thread[t])
  BY DEF Typed, TypeOK, Shape
<1> USE DEF slots, history
<1>2. ASSUME NEW step \in Steps, thread[t].job \in Jobs, Goto(t, step),
             step \in {"admit", "setup", "unwind", "failed", "pop"}
      PROVE  thread' \in [Threads -> Locals] /\ Shape'
  <2>1. ShapeOf([thread[t] EXCEPT !.step = step])
    BY <1>1, <1>2 DEF ShapeOf, Locals
  <2> QED BY <1>1, <1>2, <2>1, GotoKeeps
<1>3. CASE Pick(t)
  <2>1. CASE Return(t)
    BY <1>1, <1>3, <2>1, ReturnKeeps DEF Pick, Typed, TypeOK, queue
  <2>2. CASE \E h \in Heads : Put(t, Picked(t, h))
    <3>1. PICK h \in Heads : Put(t, Picked(t, h))
      BY <2>2
    <3>2. h \in Jobs /\ ActiveAgents \in SUBSET Agents
      BY DEF Heads, ActiveAgents, ActiveJobs, Typed, TypeOK, Jobs
    <3>3. Picked(t, h) \in Locals /\ ShapeOf(Picked(t, h))
      BY <1>1, <3>2 DEF Picked, Locals, Steps, ShapeOf
    <3>5. thread' \in [Threads -> Locals] /\ Shape'
      BY <1>1, <3>1, <3>3, PutKeeps
    <3> QED BY <1>3, <3>5 DEF Pick, Typed, TypeOK, queue
  <2>3. \/ Return(t)
        \/ \E h \in Heads : Put(t, Picked(t, h))
    BY <1>3 DEF Pick
  <2> QED BY <2>1, <2>2, <2>3
<1>4. CASE Validate(t)
  <2>1. thread[t].job \in Jobs
    BY <1>1, <1>4 DEF Validate, ShapeOf
  <2>2. thread' \in [Threads -> Locals] /\ Shape'
    BY <1>1, <1>2, <1>4, <2>1, ReturnKeeps DEF Validate, Steps
  <2>3. /\ jobs' \in SUBSET Jobs /\ pending' \in SUBSET Agents
        /\ wanted' \in [Agents -> SUBSET AllRequests] /\ lost' \in SUBSET Agents
    <3>1. CASE DropHead(t)
      BY <3>1, DropHeadTyped
    <3>2. CASE UNCHANGED queue
      BY <3>2 DEF queue, Typed, TypeOK
    <3> QED BY <1>4, <3>1, <3>2 DEF Validate
  <2> QED BY <1>4, <2>2, <2>3 DEF Validate, Typed, TypeOK
<1>5. CASE Admit(t)
  <2>1. thread[t].job \in Jobs
    BY <1>1, <1>5 DEF Admit, ShapeOf
  <2>2. thread' \in [Threads -> Locals] /\ Shape'
    BY <1>1, <1>2, <1>5, <2>1, ReturnKeeps DEF Admit, Steps
  <2>3. thread[t].job.agent \in Agents /\ thread[t].job.reason \in Reasons
    BY <2>1 DEF Jobs
  <2>4. running' \in [Agents -> Reasons \cup {"none"}]
        /\ gate' \in {"none", "agent_pool", "other"}
    BY <1>5, <2>3 DEF Admit, Typed, TypeOK
  <2> QED BY <1>5, <2>2, <2>4 DEF Admit, Typed, TypeOK, queue
<1>6. CASE Setup(t)
  <2>1. thread[t].job \in Jobs
    BY <1>1, <1>6 DEF Setup, ShapeOf
  <2>2. thread' \in [Threads -> Locals] /\ Shape'
    BY <1>1, <1>2, <1>6, <2>1 DEF Setup, Steps
  <2>3. running' \in [Agents -> Reasons \cup {"none"}]
    BY <1>6, <2>1 DEF Setup, Typed, TypeOK, Jobs
  <2> QED BY <1>6, <2>2, <2>3 DEF Setup, Typed, TypeOK, queue
<1>7. CASE Unwind(t)
  <2>1. thread[t].job \in Jobs
    BY <1>1, <1>7 DEF Unwind, ShapeOf
  <2>2. thread' \in [Threads -> Locals] /\ Shape'
    BY <1>1, <1>2, <1>7, <2>1 DEF Unwind, Steps
  <2> QED BY <1>7, <2>2 DEF Unwind, Released, Typed, TypeOK, queue
<1>8. CASE Failed(t)
  <2>1. thread' \in [Threads -> Locals] /\ Shape'
    BY <1>1, <1>8, ReturnKeeps DEF Failed
  <2> QED BY <1>8, <2>1, DropHeadTyped DEF Failed, Typed, TypeOK
<1>9. CASE Pop(t)
  <2>1. thread' \in [Threads -> Locals] /\ Shape'
    BY <1>1, <1>9, ReturnKeeps DEF Pop
  <2>2. DropHead(t)
    BY <1>9 DEF Pop, DropHead, queue
  <2>3. active' \in Jobs \cup {None} /\ parallel' \in SUBSET Jobs
    <3>1. \A h \in Heads : h \in Jobs
      BY DEF Heads, Typed, TypeOK
    <3> QED BY <1>9, <3>1 DEF Pop, Occupy, Typed, TypeOK
  <2> QED BY <1>9, <2>1, <2>2, <2>3, DropHeadTyped DEF Pop, Typed, TypeOK
<1> QED
  BY <1>3, <1>4, <1>5, <1>6, <1>7, <1>8, <1>9 DEF StartStep

\* The training jobs and the other heavy jobs.
LEMMA EnvironmentTyped ==
    ASSUME Typed,
           (\E a \in Agents : JobEnds(a) \/ ReleaseGate(a)) \/ OtherStarts \/ OtherEnds
    PROVE  Typed'
<1>1. thread' = thread /\ UNCHANGED <<queue, slots, sequence, exists>>
  BY DEF JobEnds, ReleaseGate, OtherStarts, OtherEnds, slots
<1>2. /\ running' \in [Agents -> Reasons \cup {"none"}]
      /\ releasing' \in SUBSET Agents
      /\ gate' \in {"none", "agent_pool", "other"}
      /\ others' \in 0 .. MaxOthers
  BY DEF JobEnds, ReleaseGate, OtherStarts, OtherEnds, Released, Typed, TypeOK
<1> QED BY <1>1, <1>2 DEF Typed, TypeOK, Shape, queue, slots

LEMMA TypedStep == Typed /\ [Next]_vars => Typed'
<1> SUFFICES ASSUME Typed, [Next]_vars PROVE Typed'
  OBVIOUS
<1>1. CASE UNCHANGED vars
  BY <1>1 DEF vars, Typed, TypeOK, Shape
<1>2. CASE Next
  <2>1. CASE \E t \in Callers : Call(t)
    BY <2>1, CallTyped
  <2>2. CASE \E t \in Threads : ThreadStep(t)
    BY <2>2, EnqueueTyped, FinishTyped, StartTyped DEF ThreadStep
  <2> QED BY <1>2, <2>1, <2>2, EnvironmentTyped DEF Next
<1> QED BY <1>1, <1>2

\* Every reachable state is well typed: the sets and counters of the queue, the
\* slots, the gate and the locals of every thread.
THEOREM QueueTypeCorrect == Spec => []TypeOK
<1>1. Typed => TypeOK
  BY DEF Typed
<1> QED BY <1>1, TypedInit, TypedStep, PTL DEF Spec

HIDE QueueAssumption

-----------------------------------------------------------------------------
(* The gate *)

\* A step that leaves the jobs, the gate and the unwinding threads alone.
LEMMA GateUntouched ==
    ASSUME GateInv, UNCHANGED <<running, releasing, gate>>,
           \A t \in Threads : thread'[t].step = "unwind" => thread[t].step = "unwind"
    PROVE  GateInv'
BY DEF GateInv, Running

\* A thread that goes anywhere but to "unwind" adds no unwinding thread.
LEMMA PutNoUnwind ==
    ASSUME Typed, NEW t \in Threads, NEW r, Put(t, r), r.step # "unwind"
    PROVE  \A u \in Threads : thread'[u].step = "unwind" => thread[u].step = "unwind"
BY DEF Put, Typed, TypeOK

LEMMA GotoNoUnwind ==
    ASSUME Typed, NEW t \in Threads, NEW step, Goto(t, step), step # "unwind"
    PROVE  \A u \in Threads : thread'[u].step = "unwind" => thread[u].step = "unwind"
BY DEF Goto, Put, Typed, TypeOK, Locals

LEMMA ReturnNoUnwind ==
    ASSUME Typed, NEW t \in Threads, Return(t)
    PROVE  \A u \in Threads : thread'[u].step = "unwind" => thread[u].step = "unwind"
<1>1. Done(t).step # "unwind"
  BY DEF Done, Idle
<1> QED BY <1>1, PutNoUnwind DEF Return

\* Enqueue, cancel, DELETE and the finishing of jobs do not touch the gate.
LEMMA GateAside ==
    ASSUME Typed, GateInv, NEW t \in Threads,
           \/ Check(t) \/ Yield(t) \/ AppendRequest(t) \/ Offer(t)
           \/ CancelActive(t) \/ CancelDeleted(t) \/ Erase(t)
           \/ Poll(t) \/ ListDone(t) \/ Free(t)
    PROVE  GateInv'
<1>1. UNCHANGED <<running, releasing, gate>>
  BY DEF Check, Yield, AppendRequest, Offer, CancelActive, CancelDeleted, Erase, Poll,
         ListDone, Free, history
<1>2. thread[t] \in Locals /\ Idle.step = "idle"
  BY DEF Typed, TypeOK, Idle
<1>3. Enqueued(t).step # "unwind"
  BY <1>2 DEF Enqueued, Done, Idle, Locals
<1>4. ASSUME NEW j \in jobs, Upgrade(t, j)
      PROVE  \A u \in Threads : thread'[u].step = "unwind" => thread[u].step = "unwind"
  <2>1. \A u \in Threads : thread[u] \in Locals
    BY DEF Typed, TypeOK
  <2> DEFINE k == Upgraded(j, thread[t].req)
  <2>2. thread' = [u \in Threads |-> IF u = t THEN Enqueued(t)
                   ELSE IF thread[u].job = j
                        THEN [thread[u] EXCEPT !.job = k] ELSE thread[u]]
    BY <1>4 DEF Upgrade
  <2> HIDE DEF k
  <2> QED BY <1>3, <2>1, <2>2 DEF Locals
<1>5. CASE Check(t)
  <2>1. CASE Return(t)
    BY <1>1, <2>1, ReturnNoUnwind, GateUntouched
  <2>2. CASE Goto(t, "yield")
    BY <1>1, <2>2, GotoNoUnwind, GateUntouched
  <2>3. CASE \E j \in jobs : Upgrade(t, j)
    BY <1>1, <1>4, <2>3, GateUntouched
  <2> QED BY <1>5, <2>1, <2>2, <2>3 DEF Check
<1>6. CASE AppendRequest(t)
  <2>1. CASE Put(t, Enqueued(t))
    BY <1>1, <1>3, <2>1, PutNoUnwind, GateUntouched
  <2>2. CASE \E j \in jobs : Upgrade(t, j)
    BY <1>1, <1>4, <2>2, GateUntouched
  <2> QED BY <1>6, <2>1, <2>2 DEF AppendRequest
<1>7. CASE Yield(t)
  <2> DEFINE new == [thread[t] EXCEPT !.step = "append", !.seq = sequence + 1]
  <2>1. new.step # "unwind"
    BY <1>2 DEF Locals
  <2>2. Put(t, new) \/ Put(t, Idle)
    BY <1>7 DEF Yield
  <2> HIDE DEF new
  <2> QED BY <1>1, <1>2, <2>1, <2>2, PutNoUnwind, GateUntouched
<1>8. CASE Offer(t)
  BY <1>1, <1>8, ReturnNoUnwind, GotoNoUnwind, GateUntouched DEF Offer
<1>9. CASE CancelActive(t) \/ Erase(t)
  BY <1>1, <1>2, <1>9, PutNoUnwind, GateUntouched DEF CancelActive, Erase
<1>10. CASE CancelDeleted(t)
  BY <1>1, <1>10, GotoNoUnwind, GateUntouched DEF CancelDeleted
<1>11. CASE Poll(t)
  <2>1. [Idle EXCEPT !.step = "list", !.snap = Running].step # "unwind"
    BY DEF Idle
  <2> QED BY <1>1, <1>11, <2>1, PutNoUnwind, GateUntouched DEF Poll
<1>12. CASE ListDone(t)
  <2>1. [Idle EXCEPT !.step = "pick"].step # "unwind"
        /\ \A j \in ActiveJobs : Finishing(j).step # "unwind"
    BY DEF Idle, Finishing
  <2>2. \/ Put(t, [Idle EXCEPT !.step = "pick"])
        \/ \E j \in ActiveJobs : Put(t, Finishing(j))
    BY <1>12 DEF ListDone
  <2> QED BY <1>1, <2>1, <2>2, PutNoUnwind, GateUntouched
<1>13. CASE Free(t)
  <2>1. [Idle EXCEPT !.step = "pick"].step # "unwind"
    BY DEF Idle
  <2>2. \A a, r : [Idle EXCEPT !.step = "check", !.agent = a, !.req = r].step # "unwind"
    BY DEF Idle
  <2>3. \A u \in Threads : thread'[u].step = "unwind" => thread[u].step = "unwind"
    <3>1. thread \in [Threads -> Locals]
      BY DEF Typed, TypeOK
    <3> QED BY <1>13, <3>1 DEF Free, Put, Idle
  <2> QED BY <1>1, <2>3, GateUntouched
<1> QED BY <1>5, <1>6, <1>7, <1>8, <1>9, <1>10, <1>11, <1>12, <1>13

\* The calls of other threads do not touch the gate either.
LEMMA GateCall ==
    ASSUME Typed, GateInv, NEW t \in Callers, Call(t)
    PROVE  GateInv'
<1>1. UNCHANGED <<running, releasing, gate>>
  <2>1. ASSUME NEW a \in Agents, NEW r \in Requests, Enqueue(t, a, r)
        PROVE  UNCHANGED <<running, releasing, gate>>
    BY <2>1 DEF Enqueue, history
  <2>2. ASSUME NEW a \in Agents, Cancel(t, a) \/ Discard(t, a) \/ Delete(t, a)
        PROVE  UNCHANGED <<running, releasing, gate>>
    BY <2>2 DEF Cancel, Discard, Delete, history
  <2> QED BY <2>1, <2>2 DEF Call
<1>2. thread \in [Threads -> Locals] /\ t \in Threads
  BY DEF Typed, TypeOK, Threads
<1>3. \A u \in Threads : thread'[u].step = "unwind" => thread[u].step = "unwind"
  <2>1. ASSUME NEW a \in Agents, NEW r \in Requests, Enqueue(t, a, r)
        PROVE  \A u \in Threads : thread'[u].step = "unwind" => thread[u].step = "unwind"
    BY <1>2, <2>1 DEF Enqueue, Put, Idle
  <2>2. ASSUME NEW a \in Agents, Cancel(t, a) \/ Discard(t, a) \/ Delete(t, a)
        PROVE  \A u \in Threads : thread'[u].step = "unwind" => thread[u].step = "unwind"
    BY <1>2, <2>2 DEF Cancel, Discard, Delete, Put, Idle
  <2> QED BY <2>1, <2>2 DEF Call
<1> QED BY <1>1, <1>3, GateUntouched

\* Starting a job: the first one takes the gate, a failed first one owes its
\* release as the only thread that does.
LEMMA GateStart ==
    ASSUME Typed, GateInv, NEW t \in Threads, StartStep(t)
    PROVE  GateInv'
<1>1. thread \in [Threads -> Locals] /\ thread[t] \in Locals /\ ShapeOf(thread[t])
  BY DEF Typed, TypeOK, Shape
<1> USE DEF history
<1>2. CASE Pick(t)
  <2>1. \A h \in Heads : Picked(t, h).step # "unwind"
    BY <1>1 DEF Picked, Locals
  <2>2. Return(t) \/ \E h \in Heads : Put(t, Picked(t, h))
    BY <1>2 DEF Pick
  <2>3. \A u \in Threads : thread'[u].step = "unwind" => thread[u].step = "unwind"
    BY <2>1, <2>2, ReturnNoUnwind, PutNoUnwind
  <2> QED BY <1>2, <2>3, GateUntouched DEF Pick
<1>3. CASE Validate(t)
  <2>1. \A u \in Threads : thread'[u].step = "unwind" => thread[u].step = "unwind"
    BY <1>3, ReturnNoUnwind, GotoNoUnwind DEF Validate
  <2> QED BY <1>3, <2>1, GateUntouched DEF Validate
<1>4. CASE Admit(t)
  <2>1. \A u \in Threads : thread'[u].step = "unwind" => thread[u].step = "unwind"
    BY <1>4, ReturnNoUnwind, GotoNoUnwind DEF Admit
  <2>2. CASE UNCHANGED <<running, gate>>
    BY <1>4, <2>1, <2>2, GateUntouched DEF Admit
  <2>3. CASE /\ gate = IF Running = {} THEN "none" ELSE "agent_pool"
             /\ running' = [running EXCEPT ![thread[t].job.agent] = thread[t].job.reason]
             /\ gate' = "agent_pool"
    <3>1. releasing = {} /\ \A u \in Threads : thread[u].step # "unwind"
      BY <2>3 DEF GateInv
    <3>2. releasing' = releasing
      BY <1>4 DEF Admit
    <3> QED BY <2>1, <2>3, <3>1, <3>2 DEF GateInv
  <2> QED BY <1>4, <2>2, <2>3 DEF Admit, Admissible
<1>5. CASE Setup(t)
  <2> DEFINE a == thread[t].job.agent
  <2>1. a \in Agents
    BY <1>1, <1>5 DEF Setup, ShapeOf, Jobs
  <2>2. UNCHANGED <<releasing, gate>>
    BY <1>5 DEF Setup
  <2>3. CASE UNCHANGED running /\ Goto(t, "pop")
    BY <2>2, <2>3, GotoNoUnwind, GateUntouched
  <2>4. CASE /\ running' = [running EXCEPT ![a] = "none"]
             /\ Running = {a} /\ Goto(t, "unwind")
    <3>1. Running' = {}
      BY <2>1, <2>4 DEF Running, Typed, TypeOK
    <3>2. gate = "agent_pool" /\ releasing = {}
          /\ \A u \in Threads : thread[u].step # "unwind"
      BY <2>4 DEF GateInv
    <3>3. \A u \in Threads \ {t} : thread'[u] = thread[u]
      BY <1>1, <2>4 DEF Goto, Put
    <3> QED BY <2>2, <3>1, <3>2, <3>3 DEF GateInv
  <2>5. CASE /\ running' = [running EXCEPT ![a] = "none"]
             /\ Running # {a} /\ Goto(t, "failed")
    <3>1. Running' = Running \ {a}
      BY <2>1, <2>5 DEF Running, Typed, TypeOK
    <3>2. \A u \in Threads : thread'[u].step = "unwind" => thread[u].step = "unwind"
      BY <2>5, GotoNoUnwind
    <3>3. \A u \in Threads : thread'[u].step = "unwind" =>
            \A v \in Threads \ {u} : thread'[v].step # "unwind"
      BY <3>2 DEF GateInv
    <3> QED BY <2>2, <3>1, <3>2, <3>3 DEF GateInv
  <2> QED BY <1>5, <2>3, <2>4, <2>5 DEF Setup
<1>6. CASE Unwind(t)
  <2>1. thread[t].step = "unwind" /\ UNCHANGED <<running, releasing>> /\ Goto(t, "failed")
    BY <1>6 DEF Unwind
  <2>2. Running' = {} /\ releasing' = {}
    BY <2>1 DEF GateInv, Running
  <2>3. \A u \in Threads : thread'[u].step # "unwind"
    BY <1>1, <2>1 DEF GateInv, Goto, Put, Locals
  <2> QED BY <2>2, <2>3 DEF GateInv
<1>7. CASE Failed(t) \/ Pop(t)
  <2>1. \A u \in Threads : thread'[u].step = "unwind" => thread[u].step = "unwind"
    BY <1>7, ReturnNoUnwind DEF Failed, Pop
  <2> QED BY <1>7, <2>1, GateUntouched DEF Failed, Pop
<1> QED BY <1>2, <1>3, <1>4, <1>5, <1>6, <1>7 DEF StartStep

\* The end of a training job, its release of the gate, and other heavy jobs.
LEMMA GateEnvironment ==
    ASSUME Typed, GateInv,
           (\E a \in Agents : JobEnds(a) \/ ReleaseGate(a)) \/ OtherStarts \/ OtherEnds
    PROVE  GateInv'
<1>1. thread' = thread
  BY DEF JobEnds, ReleaseGate, OtherStarts, OtherEnds
<1>2. ASSUME NEW a \in Agents, JobEnds(a) PROVE GateInv'
  <2>1. /\ a \in Running /\ gate' = gate
        /\ running' = [running EXCEPT ![a] = "none"]
        /\ releasing' = IF Running = {a} THEN releasing \cup {a} ELSE releasing
    BY <1>2 DEF JobEnds, Emptied
  <2>2. Running' = Running \ {a}
    BY <2>1 DEF Running, Typed, TypeOK
  <2>3. gate = "agent_pool" /\ releasing = {}
        /\ \A u \in Threads : thread[u].step # "unwind"
    BY <2>1 DEF GateInv
  <2> QED BY <1>1, <2>1, <2>2, <2>3 DEF GateInv
<1>3. ASSUME NEW a \in Agents, ReleaseGate(a) PROVE GateInv'
  <2>1. a \in releasing /\ releasing' = releasing \ {a} /\ running' = running
    BY <1>3 DEF ReleaseGate
  <2>2. Running' = {} /\ releasing' = {} /\ \A u \in Threads : thread[u].step # "unwind"
    BY <2>1 DEF GateInv, Running
  <2> QED BY <1>1, <2>2 DEF GateInv
<1>4. CASE OtherStarts \/ OtherEnds
  <2>1. gate # "agent_pool" /\ UNCHANGED <<running, releasing>>
    BY <1>4 DEF OtherStarts, OtherEnds
  <2>2. Running = {} /\ releasing = {} /\ \A u \in Threads : thread[u].step # "unwind"
    BY <2>1 DEF GateInv
  <2> QED BY <1>1, <2>1, <2>2 DEF GateInv, Running
<1> QED BY <1>2, <1>3, <1>4

LEMMA GateStep == Typed /\ GateInv /\ [Next]_vars => GateInv'
<1> SUFFICES ASSUME Typed, GateInv, [Next]_vars PROVE GateInv'
  OBVIOUS
<1>1. CASE UNCHANGED vars
  BY <1>1 DEF vars, GateInv, Running
<1>2. CASE \E t \in Callers : Call(t)
  BY <1>2, GateCall
<1>3. CASE \E t \in Threads : ThreadStep(t)
  BY <1>3, GateAside, GateStart DEF ThreadStep
<1> QED BY <1>1, <1>2, <1>3, GateEnvironment DEF Next

LEMMA GateInit == Init => GateInv
BY DEF Init, GateInv, Running, Idle

\* While any agent trains the heavy-job gate is owned by the agent pool: the
\* release that the last job owes after it left agent_jobs is never late enough
\* to free the gate under another job.
THEOREM GateIsHeld == Spec => []GateCoversTraining
<1>1. GateInv => GateCoversTraining
  BY DEF GateInv, GateCoversTraining
<1> QED BY <1>1, TypedInit, TypedStep, GateInit, GateStep, PTL DEF Spec

-----------------------------------------------------------------------------
(* The slots *)

\* Admission counts the jobs under the lock that adds one, so no interleaving of
\* the starters exceeds MaxSlots.
THEOREM SlotsAreBounded == Spec => []SlotsBound
<1>1. Init => SlotsBound
  <2>1. ASSUME Init PROVE Running = {}
    BY <2>1 DEF Init, Running
  <2>2. Cardinality({}) = 0
    BY FS_EmptySet
  <2>3. 0 <= MaxSlots
    BY QueueAssumption DEF QueueAssumption
  <2> QED BY <2>1, <2>2, <2>3 DEF SlotsBound
<1>2. Typed /\ SlotsBound /\ [Next]_vars => SlotsBound'
  <2> SUFFICES ASSUME Typed, SlotsBound, [Next]_vars PROVE SlotsBound'
    OBVIOUS
  <2>1. IsFiniteSet(Running)
    <3>1. IsFiniteSet(Agents) /\ Running \in SUBSET Agents
      BY QueueAssumption DEF QueueAssumption, Running
    <3> QED BY <3>1, FS_Subset
  <2>2. CASE Running' \subseteq Running
    <3>1. /\ Cardinality(Running') <= Cardinality(Running)
          /\ IsFiniteSet(Running')
      BY <2>1, <2>2, FS_Subset
    <3>2. Cardinality(Running) \in Nat /\ Cardinality(Running') \in Nat
          /\ MaxSlots \in Nat
      BY <2>1, <3>1, FS_CardinalityType, QueueAssumption DEF QueueAssumption
    <3> QED BY <3>1, <3>2 DEF SlotsBound
  <2>3. ASSUME NEW a \in Agents, NEW n \in 1 .. MaxSlots, Cardinality(Running) < n,
               Running' = Running \cup {a}
        PROVE  SlotsBound'
    <3>1. Cardinality(Running \cup {a}) \in
            {Cardinality(Running), Cardinality(Running) + 1}
      BY <2>1, FS_AddElement
    <3>2. Cardinality(Running) \in Nat /\ MaxSlots \in Nat
      BY <2>1, FS_CardinalityType, QueueAssumption DEF QueueAssumption
    <3> QED BY <2>3, <3>1, <3>2 DEF SlotsBound
  <2>4. \/ Running' \subseteq Running
        \/ \E a \in Agents, n \in 1 .. MaxSlots :
             Cardinality(Running) < n /\ Running' = Running \cup {a}
    <3>1. CASE running' = running
      BY <3>1 DEF Running
    <3>2. ASSUME NEW a \in Agents, running' = [running EXCEPT ![a] = "none"]
          PROVE  Running' \subseteq Running
      BY <3>2 DEF Running, Typed, TypeOK
    <3>3. ASSUME NEW t \in Threads, Admit(t)
          PROVE  \/ Running' \subseteq Running
                 \/ \E a \in Agents, n \in 1 .. MaxSlots :
                      Cardinality(Running) < n /\ Running' = Running \cup {a}
      <4> DEFINE j == thread[t].job
      <4>1. j.agent \in Agents /\ j.reason \in Reasons
        BY <3>3 DEF Admit, Typed, Shape, ShapeOf, Jobs
      <4>2. CASE running' = running
        BY <4>2 DEF Running
      <4>3. CASE (\E n \in 1 .. MaxSlots : Admissible(j.agent, n))
                 /\ running' = [running EXCEPT ![j.agent] = j.reason]
        <5>1. Running' = Running \cup {j.agent}
          BY <4>1, <4>3 DEF Running, Typed, TypeOK, Reasons
        <5>2. \E n \in 1 .. MaxSlots : Cardinality(Running) < n
          BY <4>3 DEF Admissible
        <5> QED BY <4>1, <5>1, <5>2
      <4> QED BY <3>3, <4>2, <4>3 DEF Admit
    <3>4. ASSUME NEW t \in Threads, Setup(t) PROVE Running' \subseteq Running
      <4>1. thread[t].job.agent \in Agents
        BY <3>4 DEF Setup, Typed, Shape, ShapeOf, Jobs
      <4> QED BY <3>2, <3>4, <4>1 DEF Setup, Running
    <3>5. ASSUME NEW a \in Agents, JobEnds(a) PROVE Running' \subseteq Running
      BY <3>2, <3>5 DEF JobEnds
    <3>6. ASSUME NEW t \in Callers, Call(t) PROVE running' = running
      <4>1. ASSUME NEW a \in Agents, NEW r \in Requests, Enqueue(t, a, r)
            PROVE  running' = running
        BY <4>1 DEF Enqueue, history
      <4>2. ASSUME NEW a \in Agents, Cancel(t, a) \/ Discard(t, a) \/ Delete(t, a)
            PROVE  running' = running
        BY <4>2 DEF Cancel, Discard, Delete, history
      <4> QED BY <3>6, <4>1, <4>2 DEF Call
    <3>7. ASSUME NEW t \in Threads, ThreadStep(t), ~Admit(t), ~Setup(t)
          PROVE  running' = running
      BY <3>7 DEF ThreadStep, StartStep, Check, Yield, AppendRequest, Offer, CancelActive,
         CancelDeleted, Erase, Poll, ListDone, Free, Pick, Validate, Unwind,
         Failed, Pop, history
    <3>8. ASSUME NEW a \in Agents, ReleaseGate(a) PROVE running' = running
      BY <3>8 DEF ReleaseGate
    <3>9. CASE OtherStarts \/ OtherEnds
      BY <3>1, <3>9 DEF OtherStarts, OtherEnds
    <3>10. CASE UNCHANGED vars
      BY <3>1, <3>10 DEF vars
    <3>11. CASE Next
      <4>1. CASE \E t \in Callers : Call(t)
        BY <3>1, <3>6, <4>1
      <4>2. CASE \E t \in Threads : ThreadStep(t)
        BY <3>1, <3>3, <3>4, <3>7, <4>2
      <4>3. CASE \E a \in Agents : JobEnds(a) \/ ReleaseGate(a)
        BY <3>1, <3>5, <3>8, <4>3
      <4> QED BY <3>9, <3>11, <4>1, <4>2, <4>3 DEF Next
    <3> QED BY <3>10, <3>11
  <2> QED BY <2>2, <2>3, <2>4
<1> QED BY <1>1, <1>2, TypedInit, TypedStep, PTL DEF Spec

-----------------------------------------------------------------------------
(* The waiting requests *)

Waiting == OneJobPerAgent /\ KeepsStrongest

LEMMA WaitingUntouched ==
    ASSUME Waiting, UNCHANGED queue
    PROVE  Waiting'
BY DEF Waiting, OneJobPerAgent, KeepsStrongest, queue

\* The upgraded job is as strong as the old one and as the new request.
LEMMA UpgradedStrong ==
    ASSUME NEW j \in Jobs, NEW r \in AllRequests, NEW q \in AllRequests,
           \/ q = r
           \/ /\ j.priority <= Priority(q.reason)
              /\ q.rebuild => j.rebuild
              /\ q.reason = "teach" => j.reason = "teach"
    PROVE  LET k == Upgraded(j, r) IN
             /\ k.priority <= Priority(q.reason)
             /\ q.rebuild => k.rebuild
             /\ q.reason = "teach" => k.reason = "teach"
<1>1. j.priority \in {0, 10, 20} /\ Priority(r.reason) \in {0, 10, 20}
      /\ Priority(q.reason) \in {0, 10, 20}
  BY DEF Jobs, AllRequests, Reasons, Priority
<1>2. r.reason \in Reasons /\ q.reason \in Reasons /\ j.reason \in Reasons
  BY DEF AllRequests, Jobs
<1>3. Upgraded(j, r).priority = IF Priority(r.reason) < j.priority
                                THEN Priority(r.reason) ELSE j.priority
  BY DEF Upgraded, Jobs
<1>4. Upgraded(j, r).rebuild = (j.rebuild \/ r.rebuild \/ r.reason = "teach")
  BY DEF Upgraded, Jobs
<1>5. "teach" \in {r.reason, j.reason} => Upgraded(j, r).reason = "teach"
  BY DEF Upgraded, Jobs
<1>6. Upgraded(j, r).priority <= Priority(q.reason)
  BY <1>1, <1>3
<1>7. q.rebuild => Upgraded(j, r).rebuild
  BY <1>4
<1>8. q.reason = "teach" => Upgraded(j, r).reason = "teach"
  BY <1>5
<1> QED BY <1>6, <1>7, <1>8

LEMMA UpgradeWaiting ==
    ASSUME Typed, Waiting, NEW t \in Threads, NEW j \in jobs, Upgrade(t, j),
           thread[t].req \in AllRequests
    PROVE  Waiting'
<1> DEFINE r == thread[t].req
           k == Upgraded(j, r)
<1>1. j \in Jobs /\ r \in AllRequests
  BY DEF Typed, TypeOK
<1>2. k.agent = j.agent /\ j.agent \in Agents
  BY <1>1, UpgradedOK DEF Jobs
<1>3. /\ jobs' = (jobs \ {j}) \cup {k}
      /\ pending' = pending
      /\ wanted' = [wanted EXCEPT ![j.agent] = @ \cup {r}]
  BY DEF Upgrade
<1>4. ASSUME NEW q \in wanted[j.agent] \cup {r}
      PROVE  /\ k.priority <= Priority(q.reason)
             /\ q.rebuild => k.rebuild
             /\ q.reason = "teach" => k.reason = "teach"
  <2>1. q \in AllRequests
    BY <1>1, <1>2 DEF Typed, TypeOK
  <2> HIDE DEF r
  <2> QED BY <1>1, <2>1, UpgradedStrong DEF Waiting, KeepsStrongest
<1> HIDE DEF k, r
<1>5. OneJobPerAgent'
  BY <1>2, <1>3 DEF Waiting, OneJobPerAgent
<1>6. wanted'[j.agent] = wanted[j.agent] \cup {r}
      /\ \A i \in jobs \ {j} : wanted'[i.agent] = wanted[i.agent]
  <2>1. \A i \in jobs \ {j} : i.agent # j.agent /\ i.agent \in Agents
    BY DEF Waiting, OneJobPerAgent, Typed, TypeOK, Jobs
  <2> QED BY <1>2, <1>3, <2>1 DEF Typed, TypeOK
<1>7. KeepsStrongest'
  BY <1>2, <1>3, <1>4, <1>6 DEF Waiting, KeepsStrongest
<1> QED BY <1>5, <1>7 DEF Waiting

LEMMA DropHeadWaiting ==
    ASSUME Typed, Waiting, NEW t \in Threads, DropHead(t)
    PROVE  Waiting'
<1>1. CASE UNCHANGED queue
  BY <1>1, WaitingUntouched
<1>2. ASSUME NEW h \in Heads, Take(t, h) PROVE Waiting'
  <2>1. h \in jobs /\ jobs' = jobs \ {h} /\ pending' = pending \ {h.agent}
        /\ wanted' = wanted
    BY <1>2 DEF Take, Heads
  <2> QED BY <2>1 DEF Waiting, OneJobPerAgent, KeepsStrongest
<1> QED BY <1>1, <1>2 DEF DropHead

LEMMA WithdrawWaiting ==
    ASSUME Typed, Waiting, NEW a \in Agents, Withdraw(a)
    PROVE  Waiting'
<1>1. CASE UNCHANGED queue
  BY <1>1, WaitingUntouched
<1>2. CASE /\ jobs' = {j \in jobs : j.agent # a}
           /\ pending' = pending \ {a} /\ wanted' = wanted
  BY <1>2 DEF Waiting, OneJobPerAgent, KeepsStrongest
<1> QED BY <1>1, <1>2 DEF Withdraw

\* The second look of enqueue is what keeps the entries unique.
LEMMA AppendWaiting ==
    ASSUME Typed, Waiting, NEW t \in Threads, AppendRequest(t)
    PROVE  Waiting'
<1>1. thread[t].agent \in Agents /\ thread[t].req \in AllRequests
      /\ thread[t].seq \in Nat
  BY DEF AppendRequest, Typed, TypeOK, Shape, ShapeOf, Locals
<1>2. CASE \E j \in jobs : Upgrade(t, j)
  BY <1>1, <1>2, UpgradeWaiting
<1>3. CASE ~\E j \in jobs : Upgrade(t, j)
  <2> DEFINE a == thread[t].agent
             r == thread[t].req
             new == [agent |-> a, reason |-> r.reason, rebuild |-> r.rebuild,
                     priority |-> Priority(r.reason), seq |-> thread[t].seq]
  <2>1. /\ a \notin pending
        /\ jobs' = jobs \cup {new} /\ pending' = pending \cup {a}
        /\ wanted' = [wanted EXCEPT ![a] = {r}]
    BY <1>3 DEF AppendRequest
  <2>2. new.agent = a /\ new.reason = r.reason /\ new.rebuild = r.rebuild
        /\ new.priority = Priority(r.reason) /\ Priority(r.reason) \in {0, 10, 20}
    BY <1>1 DEF Priority
  <2>3. \A i \in jobs : i.agent # a /\ i.agent \in Agents
    BY <2>1 DEF Waiting, OneJobPerAgent, Typed, TypeOK, Jobs
  <2>4. wanted'[a] = {r} /\ \A i \in jobs : wanted'[i.agent] = wanted[i.agent]
    BY <1>1, <2>1, <2>3 DEF Typed, TypeOK
  <2> HIDE DEF new
  <2>5. OneJobPerAgent'
    BY <2>1, <2>2, <2>3 DEF Waiting, OneJobPerAgent
  <2>6. KeepsStrongest'
    BY <2>1, <2>2, <2>4 DEF Waiting, KeepsStrongest
  <2> QED BY <2>5, <2>6 DEF Waiting
<1> QED BY <1>2, <1>3

LEMMA WaitingStep == Typed /\ Waiting /\ [Next]_vars => Waiting'
<1> SUFFICES ASSUME Typed, Waiting, [Next]_vars PROVE Waiting'
  OBVIOUS
<1>1. CASE UNCHANGED vars
  BY <1>1, WaitingUntouched DEF vars, queue
<1>2. ASSUME NEW t \in Callers, Call(t) PROVE Waiting'
  <2>1. ASSUME NEW a \in Agents, NEW r \in Requests, Enqueue(t, a, r) PROVE Waiting'
    BY <2>1, WaitingUntouched DEF Enqueue
  <2>2. ASSUME NEW a \in Agents, Discard(t, a) \/ Delete(t, a) PROVE Waiting'
    BY <2>2, WaitingUntouched DEF Discard, Delete
  <2>3. ASSUME NEW a \in Agents, Cancel(t, a) PROVE Waiting'
    BY <2>3, WithdrawWaiting DEF Cancel
  <2> QED BY <1>2, <2>1, <2>2, <2>3 DEF Call
<1>3. ASSUME NEW t \in Threads, ThreadStep(t) PROVE Waiting'
  <2>1. CASE Check(t)
    <3>1. thread[t].req \in AllRequests
      BY <2>1 DEF Check, Typed, Shape, ShapeOf
    <3>2. CASE \E j \in jobs : Upgrade(t, j)
      BY <3>1, <3>2, UpgradeWaiting
    <3> QED BY <2>1, <3>2, WaitingUntouched DEF Check
  <2>2. CASE AppendRequest(t)
    BY <2>2, AppendWaiting
  <2>3. CASE Validate(t) \/ Failed(t)
    BY <2>3, DropHeadWaiting, WaitingUntouched DEF Validate, Failed
  <2>4. CASE Pop(t)
    <3>1. DropHead(t)
      BY <2>4 DEF Pop, DropHead, queue
    <3> QED BY <3>1, DropHeadWaiting
  <2>5. CASE CancelDeleted(t)
    <3>1. thread[t].agent \in Agents
      BY <2>5 DEF CancelDeleted, Typed, Shape, ShapeOf
    <3> QED BY <2>5, <3>1, WithdrawWaiting DEF CancelDeleted
  <2>6. CASE \/ Yield(t) \/ Offer(t) \/ CancelActive(t) \/ Erase(t) \/ Poll(t)
             \/ ListDone(t) \/ Free(t) \/ Pick(t) \/ Admit(t) \/ Setup(t)
             \/ Unwind(t)
    <3>1. UNCHANGED queue
      BY <2>6 DEF Yield, Offer, CancelActive, Erase, Poll, ListDone, Free, Pick,
         Admit, Setup, Unwind
    <3> QED BY <3>1, WaitingUntouched
  <2> QED BY <1>3, <2>1, <2>2, <2>3, <2>4, <2>5, <2>6 DEF ThreadStep, StartStep
<1>4. CASE (\E a \in Agents : JobEnds(a) \/ ReleaseGate(a)) \/ OtherStarts \/ OtherEnds
  <2>1. UNCHANGED queue
    BY <1>4 DEF JobEnds, ReleaseGate, OtherStarts, OtherEnds
  <2> QED BY <2>1, WaitingUntouched
<1> QED BY <1>1, <1>2, <1>3, <1>4 DEF Next

\* The deque and the dictionary always agree and hold one job per agent.
THEOREM QueueIsOnePerAgent == Spec => []OneJobPerAgent
<1>1. Init => Waiting
  BY DEF Init, Waiting, OneJobPerAgent, KeepsStrongest
<1>2. Waiting => OneJobPerAgent
  BY DEF Waiting
<1> QED BY <1>1, <1>2, TypedInit, TypedStep, WaitingStep, PTL DEF Spec

\* No accepted request is weakened while it waits.
THEOREM RequestsKeepStrength == Spec => []KeepsStrongest
<1>1. Init => Waiting
  BY DEF Init, Waiting, OneJobPerAgent, KeepsStrongest
<1>2. Waiting => KeepsStrongest
  BY DEF Waiting
<1> QED BY <1>1, <1>2, TypedInit, TypedStep, WaitingStep, PTL DEF Spec

=============================================================================
