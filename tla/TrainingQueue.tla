---------------------------- MODULE TrainingQueue ----------------------------
(***************************************************************************)
(* Admission of expensive training jobs: training_queue.py as patched by   *)
(* startup_train_guard.py, HistoryManager._start_agent_job and its worker  *)
(* thread (history.py), and the process-wide HeavyJobGate (telemetry.py).  *)
(*                                                                         *)
(* The queue lock cv is held only inside single steps.  One worker thread  *)
(* polls; every caller of enqueue is a thread of its own, and the wrapper  *)
(* of startup_train_guard lets a caller start the head of the queue too,   *)
(* so there are several starters.  The deque is re-sorted under the lock   *)
(* that changed it: it is modelled as a set ordered by Before.             *)
(***************************************************************************)
EXTENDS Naturals, FiniteSets

CONSTANTS
    Agents,       \* trainable agents (candidates included)
    Targets,      \* physical targets
    TargetOf,     \* agent -> the target it is trained for
    Callers,      \* threads that call the queue
    Worker,       \* the thread of the queue
    None,
    Requests,     \* the requests that occur: [reason, rebuild]
    Operations,   \* bound: which other calls occur
    MaxSlots,     \* upper limit of effective_training_slots
    Failures,     \* may a start or a release of Control raise?
    Pressure,     \* may storage be short?
    MaxRequests,  \* bound: new calls only while fewer were numbered
    MaxOthers     \* bound on the heavy jobs of other owners

Reasons == {"teach", "user", "auto"}
AllRequests == [reason : Reasons, rebuild : BOOLEAN]
Jobs == [agent : Agents, reason : Reasons, rebuild : BOOLEAN,
         priority : {0, 10, 20}, seq : Nat]
Threads == Callers \cup {Worker}

ASSUME QueueAssumption ==
    /\ IsFiniteSet(Agents)
    /\ TargetOf \in [Agents -> Targets]
    /\ Worker \notin Callers
    /\ None \notin Agents \cup AllRequests \cup Jobs
    /\ Requests \subseteq AllRequests
    /\ Operations \subseteq {"cancel", "discard", "delete"}
    /\ MaxSlots \in Nat \ {0}
    /\ Failures \in BOOLEAN /\ Pressure \in BOOLEAN
    /\ MaxRequests \in Nat /\ MaxOthers \in Nat

VARIABLES
    jobs,       \* the waiting requests (TrainingQueue.jobs)
    pending,    \* the agents that have one (the keys of TrainingQueue.pending)
    active,     \* the job in the primary slot, or None
    parallel,   \* the jobs in parallel_active, at most one per agent
    cancelled,  \* cancel_requested
    sequence,   \* _queue_sequence
    running,    \* agent -> the reason its job in history.agent_jobs was started
                \* for, or "none"
    releasing,  \* workers of history that emptied agent_jobs and have still to
                \* release the gate
    gate,       \* HEAVY_JOBS.owner
    others,     \* heavy jobs of other owners so far
    exists,     \* the agents in the store
    thread,     \* what each thread is doing
    wanted,     \* history: agent -> requests its waiting job answers for
    lost        \* history: agents whose job left the queue though another one
                \* was started or had failed

vars == <<jobs, pending, active, parallel, cancelled, sequence, running,
          releasing, gate, others, exists, thread, wanted, lost>>
queue == <<jobs, pending, wanted, lost>>
slots == <<active, parallel, cancelled>>
history == <<running, releasing, gate, others>>

Steps == {"idle", "check", "yield", "append", "offer", "discard", "cancel",
          "erase", "list", "free", "pick", "validate", "admit", "setup",
          "unwind", "failed", "pop"}

Locals == [step : Steps, agent : Agents \cup {None},
           req : AllRequests \cup {None}, seq : Nat,
           job : Jobs \cup {None}, snap : SUBSET Agents]

Idle == [step |-> "idle", agent |-> None, req |-> None, seq |-> 0,
         job |-> None, snap |-> {}]

TypeOK ==
    /\ jobs \in SUBSET Jobs
    /\ pending \in SUBSET Agents
    /\ active \in Jobs \cup {None}
    /\ parallel \in SUBSET Jobs
    /\ cancelled \in SUBSET Agents
    /\ sequence \in Nat
    /\ running \in [Agents -> Reasons \cup {"none"}]
    /\ releasing \in SUBSET Agents
    /\ gate \in {"none", "agent_pool", "other"}
    /\ others \in 0 .. MaxOthers
    /\ exists \in SUBSET Agents
    /\ thread \in [Threads -> Locals]
    /\ wanted \in [Agents -> SUBSET AllRequests]
    /\ lost \in SUBSET Agents

Init ==
    /\ jobs = {} /\ pending = {} /\ lost = {}
    /\ active = None /\ parallel = {} /\ cancelled = {}
    /\ sequence = 0
    /\ running = [a \in Agents |-> "none"]
    /\ releasing = {} /\ gate = "none" /\ others = 0
    /\ exists = Agents
    /\ thread = [t \in Threads |-> Idle]
    /\ wanted = [a \in Agents |-> {}]

-----------------------------------------------------------------------------
(* Reading the queue *)

Priority(reason) ==
    CASE reason = "teach" -> 0
      [] reason = "user" -> 10
      [] OTHER -> 20

Before(j, k) ==
    \/ j.priority < k.priority
    \/ j.priority = k.priority /\ j.seq < k.seq

\* The head of the deque, if any.
Heads == {j \in jobs : \A k \in jobs \ {j} : Before(j, k)}

ActiveJobs == parallel \cup IF active = None THEN {} ELSE {active}
ActiveAgents == {j.agent : j \in ActiveJobs}

\* history.agent_jobs
Running == {a \in Agents : running[a] # "none"}

Put(t, r) == thread' = [thread EXCEPT ![t] = r]
Goto(t, step) == Put(t, [thread[t] EXCEPT !.step = step])

\* The worker goes on with its own start attempt after enqueueing a job again.
Done(t) ==
    IF t = Worker /\ thread[t].req # None
    THEN [Idle EXCEPT !.step = "pick"] ELSE Idle

Return(t) == Put(t, Done(t))

-----------------------------------------------------------------------------
(* enqueue *)

Enqueue(t, a, r) ==
    /\ thread[t] = Idle /\ a \in exists /\ sequence < MaxRequests
    /\ Put(t, [Idle EXCEPT !.step = "check", !.agent = a, !.req = r])
    /\ UNCHANGED <<queue, slots, history, sequence, exists>>

\* Mutant of Upgraded: the later request replaces the earlier one.
UpgradedToLatest(j, r) ==
    [j EXCEPT !.reason = r.reason, !.rebuild = r.rebuild,
              !.priority = Priority(r.reason)]

\* _upgrade_pending_job_locked: the stronger of the two requests in each respect.
Upgraded(j, r) ==
    [j EXCEPT
       !.reason = IF "teach" \in {r.reason, j.reason} THEN "teach"
                  ELSE IF Priority(r.reason) < j.priority THEN r.reason
                  ELSE IF r.rebuild /\ ~j.rebuild THEN "user" ELSE @,
       !.rebuild = @ \/ r.rebuild \/ r.reason = "teach",
       !.priority = IF Priority(r.reason) < @ THEN Priority(r.reason) ELSE @]

\* Where enqueue ends: status_for reports "queued", and Teach is left to the
\* worker, or the wrapper has nothing to do.
Enqueued(t) ==
    IF thread[t].req.reason # "teach"
         /\ thread[t].agent \notin ActiveAgents \cup Running
    THEN [thread[t] EXCEPT !.step = "offer"]
    ELSE Done(t)

\* The entry is changed in place: a starter that picked it sees the change.
Upgrade(t, j) ==
    LET r == thread[t].req
        k == Upgraded(j, r) IN
    /\ jobs' = (jobs \ {j}) \cup {k}
    /\ wanted' = [wanted EXCEPT ![j.agent] = @ \cup {r}]
    /\ thread' = [u \in Threads |->
                    IF u = t THEN Enqueued(t)
                    ELSE IF thread[u].job = j
                         THEN [thread[u] EXCEPT !.job = k] ELSE thread[u]]
    /\ UNCHANGED <<pending, lost>>

\* The first look, under the queue lock.
Check(t) ==
    LET a == thread[t].agent IN
    /\ thread[t].step = "check"
    /\ \/ a \in ActiveAgents \cup Running /\ Return(t) /\ UNCHANGED queue
       \/ /\ a \notin ActiveAgents \cup Running
          /\ \E j \in jobs : a \in pending /\ j.agent = a /\ Upgrade(t, j)
       \/ /\ a \notin ActiveAgents \cup Running \cup pending
          /\ Goto(t, "yield") /\ UNCHANGED queue
    /\ UNCHANGED <<slots, history, sequence, exists>>

\* Outside the lock: Control is released, which may raise; then a number is drawn.
Yield(t) ==
    /\ thread[t].step = "yield"
    /\ \/ /\ sequence' = sequence + 1
          /\ Put(t, [thread[t] EXCEPT !.step = "append", !.seq = sequence + 1])
       \/ Failures /\ Put(t, Idle) /\ UNCHANGED sequence
    /\ UNCHANGED <<queue, slots, history, exists>>

\* Mutant of AppendRequest: no second look.
AppendBlindly(t) ==
    LET r == thread[t].req IN
    /\ thread[t].step = "append"
    /\ jobs' = jobs \cup
         {[agent |-> thread[t].agent, reason |-> r.reason, rebuild |-> r.rebuild,
           priority |-> Priority(r.reason), seq |-> thread[t].seq]}
    /\ pending' = pending \cup {thread[t].agent}
    /\ wanted' = [wanted EXCEPT ![thread[t].agent] = {r}]
    /\ Put(t, Enqueued(t))
    /\ UNCHANGED <<lost, slots, history, sequence, exists>>

\* The second look: somebody may have queued the agent meanwhile.
AppendRequest(t) ==
    LET a == thread[t].agent
        r == thread[t].req IN
    /\ thread[t].step = "append"
    /\ \/ \E j \in jobs : a \in pending /\ j.agent = a /\ Upgrade(t, j)
       \/ /\ a \notin pending
          /\ jobs' = jobs \cup
               {[agent |-> a, reason |-> r.reason, rebuild |-> r.rebuild,
                 priority |-> Priority(r.reason), seq |-> thread[t].seq]}
          /\ pending' = pending \cup {a}
          /\ wanted' = [wanted EXCEPT ![a] = {r}]
          /\ Put(t, Enqueued(t))
          /\ UNCHANGED lost
    /\ UNCHANGED <<slots, history, sequence, exists>>

\* The wrapper: with an idle gate and no training the caller starts the head.
Offer(t) ==
    /\ thread[t].step = "offer"
    /\ IF gate = "none" /\ Running = {} THEN Goto(t, "pick") ELSE Return(t)
    /\ UNCHANGED <<queue, slots, history, sequence, exists>>

-----------------------------------------------------------------------------
(* cancel, cancel_active and DELETE *)

Withdraw(a) ==
    IF a \in pending
    THEN /\ jobs' = {j \in jobs : j.agent # a}
         /\ pending' = pending \ {a}
         /\ UNCHANGED <<wanted, lost>>
    ELSE UNCHANGED queue

Cancel(t, a) ==
    /\ "cancel" \in Operations /\ thread[t] = Idle /\ a \in pending
    /\ Withdraw(a)
    /\ UNCHANGED <<slots, history, sequence, exists, thread>>

\* cancel_active copies agent_jobs before it takes the queue lock.
Discard(t, a) ==
    /\ "discard" \in Operations /\ thread[t] = Idle
    /\ a \in ActiveAgents \cup Running
    /\ Put(t, [Idle EXCEPT !.step = "discard", !.agent = a, !.snap = Running])
    /\ UNCHANGED <<queue, slots, history, sequence, exists>>

CancelActive(t) ==
    LET a == thread[t].agent IN
    /\ thread[t].step = "discard"
    /\ cancelled' = IF a \in ActiveAgents \cup thread[t].snap
                    THEN cancelled \cup {a} ELSE cancelled
    /\ Put(t, Idle)
    /\ UNCHANGED <<queue, active, parallel, history, sequence, exists>>

\* delete_guard refuses an active agent, cancels, and lets the row be deleted.
Delete(t, a) ==
    /\ "delete" \in Operations /\ thread[t] = Idle
    /\ a \in exists \ (ActiveAgents \cup Running)
    /\ Put(t, [Idle EXCEPT !.step = "cancel", !.agent = a])
    /\ UNCHANGED <<queue, slots, history, sequence, exists>>

CancelDeleted(t) ==
    /\ thread[t].step = "cancel"
    /\ Withdraw(thread[t].agent)
    /\ Goto(t, "erase")
    /\ UNCHANGED <<slots, history, sequence, exists>>

Erase(t) ==
    /\ thread[t].step = "erase"
    /\ exists' = exists \ {thread[t].agent}
    /\ Put(t, Idle)
    /\ UNCHANGED <<queue, slots, history, sequence>>

-----------------------------------------------------------------------------
(* _finish_active_if_done, by the worker *)

Poll(t) ==
    /\ t = Worker /\ thread[t] = Idle
    /\ Put(t, [Idle EXCEPT !.step = "list", !.snap = Running])
    /\ UNCHANGED <<queue, slots, history, sequence, exists>>

\* Whether the job was cancelled is read here and used by Free.
Finishing(j) == [Idle EXCEPT !.step = "free", !.job = j, !.snap = cancelled]

\* The queue lock is taken only after agent_jobs was copied.
ListDone(t) ==
    LET done == {j \in ActiveJobs : j.agent \notin thread[t].snap} IN
    /\ thread[t].step = "list"
    /\ \/ done = {} /\ Put(t, [Idle EXCEPT !.step = "pick"])
       \/ \E j \in done :
            /\ active \in done => j = active
            /\ Put(t, Finishing(j))
    /\ UNCHANGED <<queue, slots, history, sequence, exists>>

\* Mutant of FreeSlot: parallel slots are forgotten.
FreePrimary(a) ==
    /\ active' = IF active # None /\ active.agent = a THEN None ELSE active
    /\ UNCHANGED parallel

FreeSlot(a) ==
    IF active # None /\ active.agent = a
    THEN \/ parallel = {} /\ active' = None /\ UNCHANGED parallel
         \/ \E j \in parallel : active' = j /\ parallel' = parallel \ {j}
    ELSE parallel' = {j \in parallel : j.agent # a} /\ UNCHANGED active

\* A job that storage pressure interrupted is queued again with its own reason;
\* the rebuild flag is dropped once the model was reset.
Free(t) ==
    LET j == thread[t].job IN
    /\ thread[t].step = "free"
    /\ FreeSlot(j.agent)
    /\ cancelled' = cancelled \ {j.agent}
    /\ \/ Put(t, [Idle EXCEPT !.step = "pick"])
       \/ /\ Pressure /\ j.agent \in exists \ thread[t].snap /\ j.reason # "teach"
          /\ sequence < MaxRequests
          /\ \E rebuild \in {FALSE, j.rebuild} :
               Put(t, [Idle EXCEPT !.step = "check", !.agent = j.agent,
                         !.req = [reason |-> j.reason, rebuild |-> rebuild]])
    /\ UNCHANGED <<queue, history, sequence, exists>>

-----------------------------------------------------------------------------
(* _try_start_head, by the worker or by a caller *)

\* Teach stays exclusive, and nothing starts beside an active Teach job.
MayStart(h, n) ==
    /\ Cardinality(ActiveJobs) < n
    /\ h.reason = "teach" => ActiveJobs = {}
    /\ \A j \in ActiveJobs : j.reason # "teach"

Picked(t, h) == [thread[t] EXCEPT !.step = "validate", !.job = h,
                                  !.snap = ActiveAgents]

\* The head is looked at, not taken.
Pick(t) ==
    /\ thread[t].step = "pick"
    /\ \/ (jobs = {} \/ Pressure) /\ Return(t)
       \/ \E h \in Heads, n \in 1 .. MaxSlots :
            IF MayStart(h, n)
            THEN Put(t, Picked(t, h))
            ELSE Return(t)
    /\ UNCHANGED <<queue, slots, history, sequence, exists>>

\* Job h leaves the queue by the hand of a thread that works on thread[t].job.
Take(t, h) ==
    /\ jobs' = jobs \ {h}
    /\ pending' = pending \ {h.agent}
    /\ lost' = IF h.agent = thread[t].job.agent THEN lost
               ELSE lost \cup {h.agent}
    /\ UNCHANGED wanted

\* _drop_head drops whatever is the head by now.
DropHead(t) ==
    \/ jobs = {} /\ UNCHANGED queue
    \/ \E h \in Heads : Take(t, h)

SameTarget(t) ==
    \E b \in thread[t].snap \cap exists :
        TargetOf[b] = TargetOf[thread[t].job.agent]

\* Unlocked checks on the job that was the head.
Validate(t) ==
    LET j == thread[t].job
        wait == SameTarget(t) \/ gate = "other"
                  \/ (j.reason = "teach" /\ Running # {}) IN
    /\ thread[t].step = "validate"
    /\ \/ j.agent \notin exists /\ DropHead(t) /\ Return(t)
       \/ j.agent \in exists /\ wait /\ Return(t) /\ UNCHANGED queue
       \/ j.agent \in exists /\ ~wait /\ Goto(t, "admit") /\ UNCHANGED queue
    /\ UNCHANGED <<slots, history, sequence, exists>>

\* Mutant of Admissible: the slots were counted by the queue already.
AdmissibleWithoutSlots(a, n) ==
    /\ a \in exists \ Running
    /\ gate = IF Running = {} THEN "none" ELSE "agent_pool"

Admissible(a, n) ==
    /\ a \in exists \ Running
    /\ Cardinality(Running) < n
    /\ gate = IF Running = {} THEN "none" ELSE "agent_pool"

\* HistoryManager._start_agent_job up to the entry in agent_jobs.
Admit(t) ==
    LET j == thread[t].job IN
    /\ thread[t].step = "admit"
    /\ \/ /\ \E n \in 1 .. MaxSlots : Admissible(j.agent, n)
          /\ running' = [running EXCEPT ![j.agent] = j.reason]
          /\ gate' = "agent_pool"
          /\ Goto(t, "setup")
       \/ /\ Pressure \/ \E n \in 1 .. MaxSlots : ~Admissible(j.agent, n)
          /\ Return(t)
          /\ UNCHANGED <<running, gate>>
       \/ /\ Failures
          /\ Goto(t, "failed")
          /\ UNCHANGED <<running, gate>>
    /\ UNCHANGED <<queue, slots, releasing, others, sequence, exists>>

\* The session is prepared; when that raises the entry is taken back.
Setup(t) ==
    LET a == thread[t].job.agent IN
    /\ thread[t].step = "setup"
    /\ \/ Goto(t, "pop") /\ UNCHANGED running
       \/ /\ Failures
          /\ running' = [running EXCEPT ![a] = "none"]
          /\ Goto(t, IF Running = {a} THEN "unwind" ELSE "failed")
    /\ UNCHANGED <<queue, slots, releasing, gate, others, sequence, exists>>

\* Mutant of Released: the owner is emptied, not reset.
ReleasedToEmpty == IF gate = "agent_pool" THEN "" ELSE gate

\* HeavyJobGate.release("agent_pool")
Released == IF gate = "agent_pool" THEN "none" ELSE gate

Unwind(t) ==
    /\ thread[t].step = "unwind"
    /\ gate' = Released
    /\ Goto(t, "failed")
    /\ UNCHANGED <<queue, slots, running, releasing, others, sequence, exists>>

Failed(t) ==
    /\ thread[t].step = "failed"
    /\ DropHead(t)
    /\ Return(t)
    /\ UNCHANGED <<slots, history, sequence, exists>>

Occupy(h) ==
    IF active = None THEN active' = h /\ UNCHANGED parallel
    ELSE /\ parallel' = {j \in parallel : j.agent # h.agent} \cup {h}
         /\ UNCHANGED active

\* popleft under the queue lock: on an empty deque it raises.
Pop(t) ==
    /\ thread[t].step = "pop"
    /\ \/ jobs = {} /\ UNCHANGED <<queue, active, parallel>>
       \/ \E h \in Heads : Take(t, h) /\ Occupy(h)
    /\ Return(t)
    /\ UNCHANGED <<cancelled, history, sequence, exists>>

-----------------------------------------------------------------------------
(* The training jobs and the other heavy jobs *)

Spawned(a) ==
    \A t \in Threads : ~(thread[t].step = "setup" /\ thread[t].job.agent = a)

\* Mutant of Emptied: every finished job releases the gate.
EmptiedAlways(a) == a \in Running

\* Mutant of Emptied: the jobs are counted before this one is discarded.
EmptiedBefore(a) == Running \ {a} = Running

Emptied(a) == Running = {a}

\* The worker thread of history ends, whatever the outcome.
JobEnds(a) ==
    /\ a \in Running /\ Spawned(a)
    /\ running' = [running EXCEPT ![a] = "none"]
    /\ releasing' = IF Emptied(a) THEN releasing \cup {a} ELSE releasing
    /\ UNCHANGED <<queue, slots, gate, others, sequence, exists, thread>>

\* HEAVY_JOBS.release, outside agent_jobs_lock.
ReleaseGate(a) ==
    /\ a \in releasing
    /\ releasing' = releasing \ {a}
    /\ gate' = Released
    /\ UNCHANGED <<queue, slots, running, others, sequence, exists, thread>>

\* Discovery, Home bootstrap and the candidate trainers own the gate alone.
OtherStarts ==
    /\ gate = "none" /\ others < MaxOthers
    /\ gate' = "other" /\ others' = others + 1
    /\ UNCHANGED <<queue, slots, running, releasing, sequence, exists, thread>>

OtherEnds ==
    /\ gate = "other"
    /\ gate' = "none"
    /\ UNCHANGED <<queue, slots, running, releasing, others, sequence, exists,
                   thread>>

-----------------------------------------------------------------------------
Call(t) ==
    \/ \E a \in Agents, r \in Requests : Enqueue(t, a, r)
    \/ \E a \in Agents : Cancel(t, a) \/ Discard(t, a) \/ Delete(t, a)

StartStep(t) == Pick(t) \/ Validate(t) \/ Admit(t) \/ Setup(t) \/ Unwind(t)
                  \/ Failed(t) \/ Pop(t)

ThreadStep(t) ==
    \/ Check(t) \/ Yield(t) \/ AppendRequest(t) \/ Offer(t)
    \/ CancelActive(t) \/ CancelDeleted(t) \/ Erase(t)
    \/ Poll(t) \/ ListDone(t) \/ Free(t)
    \/ StartStep(t)

Next ==
    \/ \E t \in Callers : Call(t)
    \/ \E t \in Threads : ThreadStep(t)
    \/ \E a \in Agents : JobEnds(a) \/ ReleaseGate(a)
    \/ OtherStarts \/ OtherEnds

Spec == Init /\ [][Next]_vars

\* Threads run, and every heavy job ends.
Fairness ==
    /\ \A t \in Threads : WF_vars(ThreadStep(t))
    /\ \A a \in Agents : WF_vars(JobEnds(a)) /\ WF_vars(ReleaseGate(a))
    /\ WF_vars(OtherEnds)

FairSpec == Spec /\ Fairness

-----------------------------------------------------------------------------
(* The inductive strengthening of TypeOK and of GateCoversTraining *)

\* What a thread knows at each step.
ShapeOf(r) ==
    /\ r.step \in {"check", "yield", "append", "offer"} =>
          r.agent \in Agents /\ r.req \in AllRequests
    /\ r.step \in {"discard", "cancel", "erase"} => r.agent \in Agents
    /\ r.step \in {"free", "validate", "admit", "setup", "unwind", "failed",
                   "pop"} => r.job \in Jobs

Shape == \A t \in Threads : ShapeOf(thread[t])

\* Somebody found agent_jobs empty and is about to release the gate: it is one
\* thread, the gate is still owned, and nobody can start a first job meanwhile.
GateInv ==
    /\ Running # {} => gate = "agent_pool"
    /\ \A a \in releasing :
          /\ Running = {} /\ gate = "agent_pool" /\ releasing = {a}
          /\ \A t \in Threads : thread[t].step # "unwind"
    /\ \A t \in Threads : thread[t].step = "unwind" =>
          /\ Running = {} /\ gate = "agent_pool"
          /\ \A u \in Threads \ {t} : thread[u].step # "unwind"

-----------------------------------------------------------------------------
(* Properties *)

\* The deque and the dictionary agree: an agent has at most one waiting job, and
\* it is in `pending` exactly while it has one, however enqueue, cancel and the
\* starters interleave.
OneJobPerAgent ==
    /\ pending = {j.agent : j \in jobs}
    /\ \A j, k \in jobs : j.agent = k.agent => j = k

\* A waiting job is at least as strong as every request it answers for:
\* priority, rebuild and Teach are never weakened by a racing caller.
KeepsStrongest ==
    \A j \in jobs : \A r \in wanted[j.agent] :
        /\ j.priority <= Priority(r.reason)
        /\ r.rebuild => j.rebuild
        /\ r.reason = "teach" => j.reason = "teach"

\* While any agent trains, the gate is owned by the agent pool, so discovery,
\* bootstrap and the candidate trainers stay out, although the last job
\* releases the gate after it left agent_jobs.
GateCoversTraining == Running # {} => gate = "agent_pool"

\* However many threads try to start jobs, no more than MaxSlots agents train.
SlotsBound == Cardinality(Running) <= MaxSlots

\* Every waiting request eventually leaves the queue.
QueueDrains == \A a \in Agents : a \in pending ~> a \notin pending

\* Every slot is eventually freed.
SlotsFreed == \A a \in Agents : a \in ActiveAgents ~> a \notin ActiveAgents

\* training_queue.py:7, "requests are accepted, deduplicated and run": no request
\* leaves the queue because another agent's job was started or had failed.
NoRequestLost == lost = {}
=============================================================================
