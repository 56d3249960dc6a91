--------------------------- MODULE ControlHandoff ---------------------------
(***************************************************************************)
(* Transactional hand-over of a target between the Home Assistant          *)
(* automations that used to drive it and a HomeMind agent in Control:      *)
(* handoff.py, control_handoff.py, lease_journal.py, and their callers in  *)
(* executor.py and main.py.                                                *)
(*                                                                         *)
(* Every operation on a target runs under executor.target_lock, so there   *)
(* is one worker per target.  The lifecycle thread Life (startup reconcile *)
(* and shutdown release_all) takes no target lock.  A Home Assistant call, *)
(* a refresh and each journal write are separate steps: the process may    *)
(* die between any two of them.                                            *)
(***************************************************************************)
EXTENDS Naturals

CONSTANTS
    Agents,      \* agents, each bound to one target
    Targets,     \* controlled entities (each on a device of its own here)
    Autos,       \* Home Assistant automations
    TargetOf,    \* agent -> its target
    Known,       \* target -> automations the scan attributes to it
    Life,        \* the lifecycle thread
    None,        \* no lease / no agent
    Failures,    \* may a Home Assistant call raise?
    Ambiguous,   \* may a call that raised have taken effect?
    Callers,     \* bound: the kinds of requests that occur
    Shutdowns,   \* bound: is the add-on ever stopped in an orderly way?
    MaxCrashes   \* bound on process deaths

Leases == [owner : Agents, disabled : SUBSET Autos]

ASSUME HandoffAssumption ==
    /\ TargetOf \in [Agents -> Targets]
    /\ Known \in [Targets -> SUBSET Autos]
    /\ Life \notin Targets
    /\ None \notin Leases
    /\ None \notin Agents
    /\ Failures \in BOOLEAN
    /\ Ambiguous \in BOOLEAN
    /\ Callers \subseteq {"enter", "submit", "leave", "disable", "enable",
                    "suspend", "demote", "delete"}
    /\ Shutdowns \in BOOLEAN
    /\ MaxCrashes \in Nat

VARIABLES
    ha,        \* automation -> its state in Home Assistant
    seen,      \* automation -> its state in Engine.state_map
    lease,     \* target -> journal record in app_meta, or None
    index,     \* control_lease_index in app_meta
    mode,      \* agent -> "shadow", "control", "parked" (mode=control in a row
               \* with enabled=0) or "gone" (row deleted)
    fit,       \* agent -> qualified, reviewed and eligible, in Shadow also enabled?
    waiting,   \* requests that read the agent and have not acted yet
    op,        \* worker or Life -> the operation it executes
    phase,     \* "boot", "reconcile", "ready", "stopping"
    sweep,     \* leases the lifecycle loop has still to visit
    crashes,   \* number of process deaths so far
    owed,      \* history: automations the add-on switched off and not on again
    leaked     \* history: automations lost through a window named below

vars == <<ha, seen, lease, index, mode, fit, waiting, op, phase, sweep,
          crashes, owed, leaked>>
world == <<ha, owed, leaked>>
journal == <<lease, index>>
config == <<mode, fit, waiting>>
lifecycle == <<phase, sweep, crashes>>

Procs == Targets \cup {Life}

Steps == {"idle", "read", "scan", "disable", "journal", "index", "confirm",
          "commit", "publish", "mode", "granted", "rollback", "unwind",
          "release", "restore", "unindex"}
Goals == {"none", "enter", "submit", "leave", "disable", "suspend", "demote",
          "delete", "sweep"}
Requests == {"delete", "erase", "demote"}

Ops == [step : Steps, goal : Goals, agent : Agents \cup {None},
        todo : SUBSET Autos, held : SUBSET Autos, failed : SUBSET Autos]

Idle == [step |-> "idle", goal |-> "none", agent |-> None,
         todo |-> {}, held |-> {}, failed |-> {}]

Start(a, goal, step) ==
    [step |-> step, goal |-> goal, agent |-> a,
     todo |-> {}, held |-> {}, failed |-> {}]

Tgt(p) == TargetOf[op[p].agent]

\* Process p starts something else, or goes to another step of its operation.
Put(p, r) == op' = [op EXCEPT ![p] = r]

Move(p, step, todo, held, failed) ==
    Put(p, [step |-> step, goal |-> op[p].goal, agent |-> op[p].agent,
            todo |-> todo, held |-> held, failed |-> failed])

Goto(p, step) == Move(p, step, op[p].todo, op[p].held, op[p].failed)
Stop(p) == Put(p, Idle)

\* The automations the journal record of t names.
Disabled(t) == IF lease[t] = None THEN {} ELSE lease[t].disabled

\* Mutant of Active: any agent that still exists keeps its lease at startup.
ActiveIfPresent(a) == mode[a] # "gone"

\* The owner, mode and guard checks of reconcile for one journal record.
Active(a) == mode[a] = "control" /\ fit[a]

TypeOK ==
    /\ ha \in [Autos -> {"on", "off"}]
    /\ seen \in [Autos -> {"on", "off", "missing"}]
    /\ lease \in [Targets -> Leases \cup {None}]
    /\ index \in SUBSET Targets
    /\ mode \in [Agents -> {"shadow", "control", "parked", "gone"}]
    /\ fit \in [Agents -> BOOLEAN]
    /\ waiting \in SUBSET (Requests \X Agents)
    /\ op \in [Procs -> Ops]
    /\ phase \in {"boot", "reconcile", "ready", "stopping"}
    /\ sweep \in SUBSET (Targets \X Agents)
    /\ crashes \in 0 .. MaxCrashes
    /\ owed \in SUBSET Autos
    /\ leaked \in SUBSET Autos

Init ==
    /\ ha \in [Autos -> {"on", "off"}]
    /\ seen = ha
    /\ lease = [t \in Targets |-> None]
    /\ index = {}
    /\ mode = [a \in Agents |-> "shadow"]
    /\ fit = [a \in Agents |-> TRUE]
    /\ waiting = {}
    /\ op = [p \in Procs |-> Idle]
    /\ phase = "ready"
    /\ sweep = {}
    /\ crashes = 0
    /\ owed = {}
    /\ leaked = {}

-----------------------------------------------------------------------------
(* The environment *)

\* A websocket state_changed event (or a poll) reaches Engine.state_map.
Observe(x) ==
    /\ seen[x] # ha[x]
    /\ seen' = [seen EXCEPT ![x] = ha[x]]
    /\ UNCHANGED <<world, journal, config, op, lifecycle>>

\* Training, a new benchmark or a capability change moves the Control gates.
GatesChange(a) ==
    /\ mode[a] # "gone"
    /\ fit' = [fit EXCEPT ![a] = ~ @]
    /\ UNCHANGED <<world, journal, mode, waiting, seen, op, lifecycle>>

-----------------------------------------------------------------------------
(* Callers that obtain the target lock *)

Begin(a, goal, step) ==
    /\ op[TargetOf[a]] = Idle
    /\ Put(TargetOf[a], Start(a, goal, step))

Serving == phase \in {"ready", "stopping"}

\* The handlers that leave Control read the mode column, not enabled.
InControl(a) == mode[a] \in {"control", "parked"}

\* PATCH mode=control on an agent in Shadow.
Enter(a) ==
    /\ "enter" \in Callers /\ Serving /\ mode[a] = "shadow" /\ fit[a]
    /\ Begin(a, "enter", "read")
    /\ UNCHANGED <<world, journal, config, seen, lifecycle>>

\* Executor._submit of an agent already in Control: take_control(agent).
Submit(a) ==
    /\ "submit" \in Callers /\ Serving /\ mode[a] = "control" /\ fit[a]
    /\ Begin(a, "submit", "read")
    /\ UNCHANGED <<world, journal, config, seen, lifecycle>>

\* PATCH leaving Control: release first, then commit the new mode.
Leave(a) ==
    /\ "leave" \in Callers /\ Serving /\ InControl(a)
    /\ Begin(a, "leave", "release")
    /\ UNCHANGED <<world, journal, config, seen, lifecycle>>

\* PATCH enabled=false releases too, but leaves mode=control in the row.
Disable(a) ==
    /\ "disable" \in Callers /\ Serving /\ InControl(a)
    /\ Begin(a, "disable", "release")
    /\ UNCHANGED <<world, journal, config, seen, lifecycle>>

\* PATCH enabled=true alone calls no take_control: the agent is back in Control.
Enable(a) ==
    /\ "enable" \in Callers /\ Serving /\ mode[a] = "parked"
    /\ op[TargetOf[a]] = Idle
    /\ mode' = [mode EXCEPT ![a] = "control"]
    /\ UNCHANGED <<world, journal, fit, waiting, seen, op, lifecycle>>

\* _submit with a failed gate, or a heavy job about to start: release, keep mode.
Suspend(a) ==
    /\ "suspend" \in Callers /\ Serving /\ InControl(a)
    /\ Begin(a, "suspend", "release")
    /\ UNCHANGED <<world, journal, config, seen, lifecycle>>

\* Schema promotion writes mode=shadow first and then waits for the lock.
Demote(a) ==
    /\ "demote" \in Callers /\ Serving /\ InControl(a)
    /\ mode' = [mode EXCEPT ![a] = "shadow"]
    /\ waiting' = waiting \cup {<<"demote", a>>}
    /\ UNCHANGED <<world, journal, fit, seen, op, lifecycle>>

\* DELETE reads the agent outside the lock: in Control it will release first.
Delete(a) ==
    /\ "delete" \in Callers /\ Serving /\ mode[a] # "gone"
    /\ waiting' = waiting \cup
         {<<IF InControl(a) THEN "delete" ELSE "erase", a>>}
    /\ UNCHANGED <<world, journal, mode, fit, seen, op, lifecycle>>

\* The waiting release of DELETE or Demote obtains the lock.
Resume(r, a) ==
    /\ <<r, a>> \in waiting
    /\ r # "erase"
    /\ Begin(a, r, "release")
    /\ waiting' = waiting \ {<<r, a>>}
    /\ UNCHANGED <<world, journal, mode, fit, seen, lifecycle>>

\* store.delete_agent, without the target lock.
Erase(a) ==
    /\ <<"erase", a>> \in waiting
    /\ mode' = [mode EXCEPT ![a] = "gone"]
    /\ waiting' = waiting \ {<<"erase", a>>}
    /\ UNCHANGED <<world, journal, fit, seen, op, lifecycle>>

-----------------------------------------------------------------------------
(* ControlHandoff.acquire, under Executor.take_control *)

RivalFree(a) ==
    \A b \in Agents \ {a} : TargetOf[b] = TargetOf[a] => mode[b] # "control"

\* Mutant of Eligible: take_control without the check for a conflicting agent.
EligibleDespiteRival(a) == mode[a] \in {"shadow", "control"} /\ fit[a]

Eligible(a) == mode[a] \in {"shadow", "control"} /\ fit[a] /\ RivalFree(a)

\* The checks of take_control and the lease lookup of acquire.
ReadLease(t) ==
    LET a == op[t].agent IN
    /\ op[t].step = "read"
    /\ \/ /\ ~Eligible(a) \/ (lease[t] # None /\ lease[t].owner # a)
          /\ Stop(t)
       \/ /\ Eligible(a) /\ lease[t] = None
          /\ Goto(t, "scan")
       \/ /\ Eligible(a) /\ lease[t] # None /\ lease[t].owner = a
          /\ Goto(t, IF mode[a] = "control" THEN "granted" ELSE "release")
    /\ UNCHANGED <<world, journal, config, seen, lifecycle>>

\* Mutant of Candidates: automations the household had off are listed too.
CandidatesOffToo(t, view) == Known[t]

Candidates(t, view) == {x \in Known[t] : view[x] # "off"}

\* refresh + scan on an explicit transition, none on a submit; then the review
\* of the fresh target state and the list of automations to turn off.
Scan(t) ==
    /\ op[t].step = "scan"
    /\ \/ /\ op[t].goal = "enter"
          /\ seen' = ha
          /\ Move(t, "disable", Candidates(t, ha), {}, {})
       \/ /\ op[t].goal = "submit"
          /\ \A x \in Known[t] : seen[x] # "missing"
          /\ Move(t, "disable", Candidates(t, seen), {}, {})
          /\ UNCHANGED seen
       \/ /\ \/ op[t].goal = "enter" /\ Failures
             \/ op[t].goal = "submit" /\ \E x \in Known[t] : seen[x] = "missing"
             \/ ~ fit[op[t].agent]
          /\ Stop(t)
          /\ UNCHANGED seen
    /\ UNCHANGED <<world, journal, config, lifecycle>>

SwitchOff(x) ==
    /\ ha' = [ha EXCEPT ![x] = "off"]
    /\ owed' = IF ha[x] = "on" THEN owed \cup {x} ELSE owed

SwitchOn(x) ==
    /\ ha' = [ha EXCEPT ![x] = "on"]
    /\ owed' = owed \ {x}

StartRollback(t) == Move(t, "rollback", op[t].held, op[t].held, {})

\* The call returned; HA may still report the automation on (confirm checks).
DisableOne(t, x) ==
    /\ op[t].step = "disable" /\ x \in op[t].todo
    /\ \/ SwitchOff(x)
       \/ Ambiguous /\ UNCHANGED <<ha, owed>>
    /\ Move(t, "journal", op[t].todo \ {x}, op[t].held \cup {x}, {})
    /\ UNCHANGED <<leaked, journal, config, seen, lifecycle>>

\* The call raised: x is not in `changed`, so the rollback does not visit it.
DisableRaises(t, x) ==
    /\ op[t].step = "disable" /\ x \in op[t].todo
    /\ Failures
    /\ \/ UNCHANGED world
       \/ /\ Ambiguous
          /\ SwitchOff(x)
          /\ leaked' = leaked \cup {x}
    /\ StartRollback(t)
    /\ UNCHANGED <<journal, config, seen, lifecycle>>

AllDisabled(t) ==
    /\ op[t].step = "disable" /\ op[t].todo = {}
    /\ Goto(t, IF op[t].held = {} THEN "commit" ELSE "confirm")
    /\ UNCHANGED <<world, journal, config, seen, lifecycle>>

\* What a journal write loses because release_all ran without the target lock.
Raced(t, kept) ==
    IF phase = "stopping" THEN (Disabled(t) \ kept) \cap owed ELSE {}

\* LeaseJournal.save: the record first, the index in a second transaction.
Checkpoint(t) ==
    /\ op[t].step \in {"journal", "commit"}
    /\ IF lease[t] # None /\ lease[t].owner # op[t].agent
       THEN StartRollback(t) /\ UNCHANGED <<lease, leaked>>
       ELSE /\ lease' = [lease EXCEPT ![t] =
                           [owner |-> op[t].agent, disabled |-> op[t].held]]
            /\ leaked' = leaked \cup Raced(t, op[t].held)
            /\ Goto(t, IF op[t].step = "journal" THEN "index" ELSE "publish")
    /\ UNCHANGED <<ha, owed, index, config, seen, lifecycle>>

\* An acquisition that disabled something on submit asks for a fresh prediction;
\* one that had nothing to disable goes on to dispatch.
AddToIndex(t) ==
    /\ op[t].step \in {"index", "publish"}
    /\ index' = index \cup {t}
    /\ CASE op[t].step = "index" -> Goto(t, "disable")
         [] op[t].step = "publish" /\ op[t].goal = "enter" -> Goto(t, "mode")
         [] op[t].step = "publish" /\ op[t].goal = "submit" /\ op[t].held = {}
              -> Goto(t, "granted")
         [] OTHER -> Stop(t)
    /\ UNCHANGED <<world, lease, config, seen, lifecycle>>

\* Mutant of Confirm: a successful refresh is taken for confirmation.
ConfirmUnseen(t) ==
    /\ op[t].step = "confirm"
    /\ seen' = ha
    /\ Goto(t, "commit")
    /\ UNCHANGED <<world, journal, config, lifecycle>>

\* refresh, then every changed automation must read OFF.
Confirm(t) ==
    /\ op[t].step = "confirm"
    /\ \/ /\ seen' = ha
          /\ IF \A x \in op[t].held : ha[x] = "off"
             THEN Goto(t, "commit")
             ELSE StartRollback(t)
       \/ /\ Failures
          /\ StartRollback(t)
          /\ UNCHANGED seen
    /\ UNCHANGED <<world, journal, config, lifecycle>>

\* The mode column and the enabled flag after the update_agent of a PATCH; a
\* deleted row stays deleted.
Committed(m, goal) ==
    CASE m = "gone" -> "gone"
      [] m # "gone" /\ goal = "enter" -> "control"
      [] m # "gone" /\ goal = "leave" -> "shadow"
      [] m = "control" /\ goal = "disable" -> "parked"
      [] OTHER -> m

\* store.update_agent at the end of PATCH; when the write raises on the way into
\* Control the handler releases again.
CommitMode(t) ==
    LET a == op[t].agent IN
    /\ op[t].step = "mode"
    /\ \/ /\ mode' = [mode EXCEPT ![a] = Committed(@, op[t].goal)]
          /\ Stop(t)
       \/ /\ Failures
          /\ Put(t, IF op[t].goal = "enter"
                    THEN Start(a, "suspend", "release") ELSE Idle)
          /\ UNCHANGED mode
    /\ UNCHANGED <<world, journal, fit, waiting, seen, lifecycle>>

\* take_control returned []: _submit dispatches and unlocks.
Dispatch(t) ==
    /\ op[t].step = "granted"
    /\ Stop(t)
    /\ UNCHANGED <<world, journal, config, seen, lifecycle>>

-----------------------------------------------------------------------------
(* restore_items, for the rollback and for release *)

\* The call returned; nobody confirms that the automation is on again.
RestoreOne(p, x) ==
    /\ op[p].step \in {"rollback", "restore"} /\ x \in op[p].todo
    /\ \/ SwitchOn(x) /\ UNCHANGED leaked
       \/ /\ Ambiguous
          /\ leaked' = leaked \cup {x}
          /\ UNCHANGED <<ha, owed>>
    /\ Move(p, op[p].step, op[p].todo \ {x}, op[p].held, op[p].failed)
    /\ UNCHANGED <<journal, config, seen, lifecycle>>

RestoreRaises(p, x) ==
    /\ op[p].step \in {"rollback", "restore"} /\ x \in op[p].todo
    /\ Failures
    /\ \/ UNCHANGED <<ha, owed>>
       \/ Ambiguous /\ SwitchOn(x)
    /\ Move(p, op[p].step, op[p].todo \ {x}, op[p].held, op[p].failed \cup {x})
    /\ UNCHANGED <<leaked, journal, config, seen, lifecycle>>

\* Mutant of KeepRemaining: a partial restore forgets what is still off.
KeepNothing(t, items) ==
    /\ lease' = [lease EXCEPT ![t] = None]
    /\ UNCHANGED leaked

\* LeaseJournal.keep_remaining does nothing once the record is gone; clear
\* empties the record and then, in a second transaction, the index.
KeepRemaining(t, items) ==
    /\ lease' = [lease EXCEPT ![t] =
                   IF @ = None THEN None
                   ELSE [owner |-> lease[t].owner, disabled |-> items]]
    /\ leaked' = leaked \cup Raced(t, items)
                        \cup IF lease[t] = None /\ phase = "stopping"
                             THEN items \cap owed ELSE {}

\* Mutant of ClearRecord: the record is emptied but not dropped.
ClearToEmpty(t) ==
    /\ lease' = [lease EXCEPT ![t] = [owner |-> None, disabled |-> {}]]
    /\ leaked' = leaked \cup Raced(t, {})

ClearRecord(t) ==
    /\ lease' = [lease EXCEPT ![t] = None]
    /\ leaked' = leaked \cup Raced(t, {})

RollbackDone(t) ==
    /\ op[t].step = "rollback" /\ op[t].todo = {}
    /\ IF op[t].failed = {}
       THEN ClearRecord(t) /\ Goto(t, "unwind")
       ELSE KeepRemaining(t, op[t].failed) /\ Stop(t)
    /\ UNCHANGED <<ha, owed, index, config, seen, lifecycle>>

-----------------------------------------------------------------------------
(* ControlHandoff.release and what its callers do next *)

AfterRelease(p) ==
    LET a == op[p].agent IN
    /\ Put(p, CASE op[p].goal \in {"enter", "submit"} ->
                     Start(a, op[p].goal, "scan")
                [] op[p].goal \in {"leave", "disable"} ->
                     Start(a, op[p].goal, "mode")
                [] OTHER -> Idle)
    /\ waiting' = IF op[p].goal = "delete"
                  THEN waiting \cup {<<"erase", a>>} ELSE waiting

\* Automations that state_map shows as on are taken for restored already.
Release(p) ==
    LET t == Tgt(p) IN
    /\ op[p].step = "release"
    /\ CASE lease[t] = None ->
              AfterRelease(p) /\ UNCHANGED leaked
         [] lease[t] # None /\ lease[t].owner # op[p].agent ->
              Stop(p) /\ UNCHANGED <<waiting, leaked>>
         [] OTHER ->
              /\ Move(p, "restore",
                      {x \in lease[t].disabled : seen[x] # "on"}, {}, {})
              /\ leaked' = leaked \cup {x \in lease[t].disabled :
                                          seen[x] = "on" /\ ha[x] = "off"}
              /\ UNCHANGED waiting
    /\ UNCHANGED <<ha, owed, journal, mode, fit, seen, lifecycle>>

\* Mutant of Settle: release does not return before everything is restored.
SettleWhenRestored(p) ==
    /\ op[p].step = "restore" /\ op[p].todo = {} /\ op[p].failed = {}
    /\ ClearRecord(Tgt(p)) /\ Goto(p, "unindex")
    /\ UNCHANGED <<ha, owed, index, config, seen, lifecycle>>

Settle(p) ==
    /\ op[p].step = "restore" /\ op[p].todo = {}
    /\ IF op[p].failed = {}
       THEN ClearRecord(Tgt(p)) /\ Goto(p, "unindex")
       ELSE KeepRemaining(Tgt(p), op[p].failed) /\ Stop(p)
    /\ UNCHANGED <<ha, owed, index, config, seen, lifecycle>>

RemoveFromIndex(p) ==
    /\ \/ op[p].step = "unindex" /\ AfterRelease(p)
       \/ op[p].step = "unwind" /\ Stop(p) /\ UNCHANGED waiting
    /\ index' = index \ {Tgt(p)}
    /\ UNCHANGED <<world, lease, mode, fit, seen, lifecycle>>

-----------------------------------------------------------------------------
(* Startup, shutdown and death of the process *)

Journalled == {<<t, lease[t].owner>> : t \in {u \in index : lease[u] # None}}

\* Best-effort refresh_states, then reconcile lists the journal.
StartReconcile ==
    /\ phase = "boot"
    /\ phase' = "reconcile"
    /\ sweep' = Journalled
    /\ \/ seen' = ha
       \/ Failures /\ UNCHANGED seen
    /\ UNCHANGED <<world, journal, config, op, crashes>>

StartShutdown ==
    /\ Shutdowns /\ phase = "ready"
    /\ phase' = "stopping"
    /\ sweep' = Journalled
    /\ UNCHANGED <<world, journal, config, seen, op, crashes>>

\* reconcile keeps the lease of an active agent; release_all keeps none.
SweepNext(t, a) ==
    /\ op[Life] = Idle
    /\ <<t, a>> \in sweep
    /\ sweep' = sweep \ {<<t, a>>}
    /\ IF phase = "reconcile" /\ Active(a)
       THEN UNCHANGED op
       ELSE Put(Life, Start(a, "sweep", "release"))
    /\ UNCHANGED <<world, journal, config, seen, phase, crashes>>

SweepDone == sweep = {} /\ op[Life] = Idle

\* Mutant of FinishReconcile: startup waits for every lease to be released.
FinishWhenClean ==
    /\ phase = "reconcile" /\ SweepDone /\ index = {}
    /\ phase' = "ready"
    /\ UNCHANGED <<world, journal, config, seen, op, sweep, crashes>>

FinishReconcile ==
    /\ phase = "reconcile" /\ SweepDone
    /\ phase' = "ready"
    /\ UNCHANGED <<world, journal, config, seen, op, sweep, crashes>>

\* What the running acquisition of t answers for: what it changed, and during
\* the rollback what is still to be restored or could not be.
InFlight(t) ==
    CASE op[t].step \in {"journal", "index", "disable", "confirm", "commit"}
           -> op[t].held
      [] op[t].step = "rollback" -> op[t].todo \cup op[t].failed
      [] OTHER -> {}

\* The next process starts with the database and the house as they are.
NewProcess ==
    /\ leaked' = leaked \cup UNION {InFlight(t) \ Disabled(t) :
                     t \in {u \in Targets : \/ op[u].step = "journal"
                                            \/ phase = "stopping"}}
    /\ seen' = [x \in Autos |-> "missing"]
    /\ waiting' = {}
    /\ op' = [p \in Procs |-> Idle]
    /\ phase' = "boot"
    /\ sweep' = {}
    /\ UNCHANGED <<ha, owed, journal, mode, fit>>

Exit == phase = "stopping" /\ SweepDone /\ NewProcess /\ UNCHANGED crashes

Crash ==
    /\ crashes < MaxCrashes
    /\ crashes' = crashes + 1
    /\ NewProcess

-----------------------------------------------------------------------------
Call(a) == Enter(a) \/ Submit(a) \/ Leave(a) \/ Disable(a) \/ Enable(a)
             \/ Suspend(a) \/ Demote(a) \/ Delete(a)

ReleaseStep(p) ==
    \/ \E x \in Autos : RestoreOne(p, x) \/ RestoreRaises(p, x)
    \/ Release(p) \/ Settle(p) \/ RemoveFromIndex(p)

AcquireStep(t) ==
    \/ \E x \in Autos : DisableOne(t, x) \/ DisableRaises(t, x)
    \/ ReadLease(t) \/ Scan(t) \/ AllDisabled(t) \/ Checkpoint(t)
    \/ AddToIndex(t) \/ Confirm(t) \/ RollbackDone(t) \/ CommitMode(t)
    \/ Dispatch(t)

LifeStep ==
    \/ StartReconcile \/ FinishReconcile
    \/ \E t \in Targets, a \in Agents : SweepNext(t, a)

Next ==
    \/ \E x \in Autos : Observe(x)
    \/ \E a \in Agents : GatesChange(a) \/ Call(a) \/ Erase(a)
    \/ \E r \in Requests, a \in Agents : Resume(r, a)
    \/ \E t \in Targets : AcquireStep(t)
    \/ \E p \in Procs : ReleaseStep(p)
    \/ LifeStep \/ StartShutdown \/ Exit \/ Crash

Spec == Init /\ [][Next]_vars

\* Threads run: an operation that can take a step eventually does.
Fairness ==
    /\ \A t \in Targets : WF_vars(AcquireStep(t) \/ ReleaseStep(t))
    /\ WF_vars(LifeStep \/ ReleaseStep(Life))

FairSpec == Spec /\ Fairness

-----------------------------------------------------------------------------
(* The inductive strengthening of OnlyKnownLeaks *)

Acquiring == {"scan", "disable", "journal", "index", "confirm", "commit",
              "rollback"}

\* Who may be where: control state of the workers, the sweep and the journal.
Shape ==
    /\ \A p \in Procs : op[p] # Idle =>
          op[p].step # "idle" /\ op[p].agent \in Agents
    /\ \A t \in Targets : op[t] # Idle => TargetOf[op[t].agent] = t
    /\ \A t \in Targets : lease[t] # None => TargetOf[lease[t].owner] = t
    /\ op[Life] # Idle =>
          op[Life].goal = "sweep" /\ op[Life].step \in {"release", "restore", "unindex"}
    /\ phase \in {"boot", "reconcile"} =>
          waiting = {} /\ \A t \in Targets : op[t] = Idle
    /\ phase \in {"boot", "ready"} => sweep = {} /\ op[Life] = Idle

\* Local variables of an operation, in every phase.
LocalsOf(r) ==
    /\ r.step \notin {"rollback", "restore"} => r.failed = {}
    /\ r.step \in {"read", "scan", "release", "restore", "idle"} => r.held = {}
    /\ r.step = "rollback" => r.todo \cup r.failed \subseteq r.held

Locals == \A p \in Procs : LocalsOf(op[p])

\* The steps of an acquisition that ended with a lease.
Owning(r) ==
    \/ r.step \in {"publish", "granted"}
    \/ r.goal = "enter" /\ r.step = "mode"

\* What an operation relies on in the journal record of its target.
RelyOf(r, record) ==
    LET disabled == IF record = None THEN {} ELSE record.disabled IN
    /\ r.step \in Acquiring =>
          /\ disabled \subseteq r.held
          /\ record # None => record.owner = r.agent
    /\ r.step \in Acquiring \ {"journal"} => r.held \subseteq disabled
    /\ r.step = "restore" => r.todo \cup r.failed \subseteq disabled
    /\ r.step \in {"unindex", "unwind"} => record = None
    /\ Owning(r) => record # None /\ record.owner = r.agent

\* Outside the unlocked shutdown sweep the journal keeps up with the calls.
JournalKeepsUp ==
    phase # "stopping" =>
        \A p \in Procs : op[p] # Idle => RelyOf(op[p], lease[Tgt(p)])

Restoring(p) == phase # "stopping" /\ op[p].step = "restore"

BeingRestored(t) ==
    UNION {op[p].todo \cup op[p].failed :
             p \in {q \in Procs : Restoring(q) /\ Tgt(q) = t}}

\* Is the record of t about to be cut down to what could not be restored?
Settling(t) ==
    /\ phase # "stopping"
    /\ op[t].step = "rollback" \/ \E p \in Procs : Restoring(p) /\ Tgt(p) = t

\* The automations somebody still answers for on behalf of t.
Hold(t) ==
    InFlight(t) \cup BeingRestored(t)
        \cup IF Settling(t) THEN {} ELSE Disabled(t)

Answered ==
    /\ \A x \in owed : ha[x] = "off"
    /\ \A x \in owed : x \in leaked \/ \E t \in Targets : x \in Hold(t)

\* From the checks of take_control to the commit of the mode or the dispatch no
\* rival is in Control: whoever commits mode=control holds the same target lock.
Bidding(r) ==
    \/ r.step \in Acquiring
    \/ Owning(r)
    \/ r.goal \in {"enter", "submit"} /\ r.step \in {"release", "restore", "unindex"}

Sole == \A t \in Targets : Bidding(op[t]) => RivalFree(op[t].agent)

IInv == TypeOK /\ Shape /\ Locals /\ JournalKeepsUp /\ Answered

-----------------------------------------------------------------------------
(* Properties *)

\* Every automation the add-on switched off and has not switched on again is in
\* a lease, in the hands of a running acquisition, or was lost through one of
\* the windows the actions name (a call whose outcome differs from its report,
\* death between a call and its checkpoint, a stale ON in state_map, the
\* unlocked shutdown sweep).  No other path of acquire, rollback, release,
\* reconcile or restart leaves an automation off and forgotten.
OnlyKnownLeaks ==
    \A x \in owed :
        x \in leaked \/ \E t \in Targets : x \in InFlight(t) \cup Disabled(t)

\* The add-on never switches on an automation it did not find on and switch off
\* itself: what the household had disabled stays disabled.
ForeignStaysOff ==
    [][\A x \in Autos : ha[x] = "off" /\ ha'[x] = "on" => x \in owed]_vars

Private(t, x) == \A u \in Targets \ {t} : x \notin Known[u]

\* When PATCH is about to commit mode=control, every automation known for this
\* target alone is really off, however its calls were answered.
EnterMeansOff ==
    \A t \in Targets :
        phase = "ready" /\ op[t].step = "mode" /\ op[t].goal = "enter"
        => \A x \in Known[t] : Private(t, x) => ha[x] = "off"

\* A command is dispatched only by the custodian of the target, and while no
\* rival is in Control, although re-enabling can put two agents of a target in
\* Control at once.
DispatchAlone ==
    \A t \in Targets : phase # "stopping" /\ op[t].step = "granted" =>
        /\ lease[t] # None /\ lease[t].owner = op[t].agent
        /\ RivalFree(op[t].agent)

\* At rest, a journalled lease of an existing agent belongs to an agent in
\* Control, or, where calls fail, still names what could not be restored: no
\* interrupted transition leaves a target taken by nobody and for nothing.
LeaseBacksControl ==
    \A t \in index :
        (/\ phase = "ready" /\ op[t] = Idle /\ lease[t] # None
         /\ mode[lease[t].owner] # "gone"
         /\ \A r \in Requests : <<r, lease[t].owner>> \notin waiting)
        => \/ mode[lease[t].owner] = "control"
           \/ Failures /\ lease[t].disabled # {}

\* The journal and the modes implement exclusive custody of the targets.
Custodians ==
    [t \in Targets |-> IF lease[t] = None THEN None ELSE lease[t].owner]
Engaged == {a \in Agents : mode[a] = "control"}
Parked == {a \in Agents : mode[a] = "parked"}
Custody == INSTANCE TargetCustody
    WITH owner <- Custodians, engaged <- Engaged, parked <- Parked
ImplementsCustody == Custody!Spec

\* Every operation that obtained the target lock gives it back.
LocksReleased ==
    \A t \in Targets : op[t] # Idle ~> op[t] = Idle

\* Startup always reaches the point where the add-on serves requests.
StartupCompletes == phase = "boot" ~> phase = "ready"

\* README.md:14, "Control turns off the recognised automations that control the
\* target and checks that they are off": no dispatch happens while the add-on
\* itself sees such an automation on.
DispatchMeansOff ==
    \A t \in Targets : op[t].step = "granted" =>
        \A x \in Known[t] : ~(seen[x] = "on" /\ ha[x] = "on")
=============================================================================
