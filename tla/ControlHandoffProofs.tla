------------------------ MODULE ControlHandoffProofs ------------------------
(***************************************************************************)
(* Type correctness of ControlHandoff and the shape of its control state,  *)
(* with the lemmas about Put, Move, Goto and Stop the other proofs cite;   *)
(* and the proof that the journal and the modes implement TargetCustody: a *)
(* target has one custodian at a time, of its own, and no agent takes      *)
(* custody or goes into Control while a rival is in Control (Sole).        *)
(***************************************************************************)
EXTENDS ControlHandoff, TLAPS

LEMMA OpsFields ==
    ASSUME NEW r \in Ops
    PROVE  /\ r.step \in Steps /\ r.goal \in Goals /\ r.agent \in Agents \cup {None}
           /\ r.todo \in SUBSET Autos /\ r.held \in SUBSET Autos
           /\ r.failed \in SUBSET Autos
BY DEF Ops

LEMMA StartIsOp ==
    ASSUME NEW a \in Agents, NEW g \in Goals, NEW s \in Steps
    PROVE  Start(a, g, s) \in Ops
BY DEF Start, Ops

LEMMA IdleIsOp == Idle \in Ops
BY DEF Idle, Ops, Steps, Goals

LEMMA PutOp ==
    ASSUME op \in [Procs -> Ops], NEW p \in Procs, NEW r \in Ops, Put(p, r)
    PROVE  /\ op' \in [Procs -> Ops]
           /\ op'[p] = r
           /\ \A q \in Procs \ {p} : op'[q] = op[q]
BY DEF Put

LEMMA MoveOp ==
    ASSUME op \in [Procs -> Ops], NEW p \in Procs, NEW s \in Steps,
           NEW todo \in SUBSET Autos, NEW held \in SUBSET Autos,
           NEW failed \in SUBSET Autos, Move(p, s, todo, held, failed)
    PROVE  /\ op' \in [Procs -> Ops]
           /\ op'[p].step = s /\ op'[p].goal = op[p].goal
           /\ op'[p].agent = op[p].agent /\ op'[p].todo = todo
           /\ op'[p].held = held /\ op'[p].failed = failed
           /\ \A q \in Procs \ {p} : op'[q] = op[q]
<1>1. op[p] \in Ops
  OBVIOUS
<1>2. [step |-> s, goal |-> op[p].goal, agent |-> op[p].agent,
       todo |-> todo, held |-> held, failed |-> failed] \in Ops
  BY <1>1 DEF Ops
<1> QED
  BY <1>2, PutOp DEF Move

LEMMA MoveControl ==
    ASSUME op \in [Procs -> Ops], NEW p \in Procs, NEW s, NEW todo, NEW held,
           NEW failed, Move(p, s, todo, held, failed)
    PROVE  /\ op'[p].step = s /\ op'[p].goal = op[p].goal
           /\ op'[p].agent = op[p].agent /\ op'[p].todo = todo
           /\ op'[p].held = held /\ op'[p].failed = failed
           /\ \A q \in Procs \ {p} : op'[q] = op[q]
BY DEF Move, Put

LEMMA GotoOp ==
    ASSUME op \in [Procs -> Ops], NEW p \in Procs, NEW s \in Steps, Goto(p, s)
    PROVE  /\ op' \in [Procs -> Ops]
           /\ op'[p].step = s /\ op'[p].goal = op[p].goal
           /\ op'[p].agent = op[p].agent /\ op'[p].todo = op[p].todo
           /\ op'[p].held = op[p].held /\ op'[p].failed = op[p].failed
           /\ \A q \in Procs \ {p} : op'[q] = op[q]
<1>1. op[p] \in Ops
  OBVIOUS
<1> QED
  BY <1>1, OpsFields, MoveOp DEF Goto

LEMMA StopOp ==
    ASSUME op \in [Procs -> Ops], NEW p \in Procs, Stop(p)
    PROVE  /\ op' \in [Procs -> Ops]
           /\ op'[p] = Idle
           /\ \A q \in Procs \ {p} : op'[q] = op[q]
BY IdleIsOp, PutOp DEF Stop

LEMMA TypeStep ==
    ASSUME HandoffAssumption, TypeOK, Shape, Next
    PROVE  TypeOK'
<1> USE DEF world, journal, config, lifecycle, TypeOK
<1> DEFINE A == op' \in [Procs -> Ops]
<1>a. /\ "idle" \in Steps /\ "read" \in Steps /\ "scan" \in Steps /\ "disable" \in Steps
      /\ "journal" \in Steps /\ "index" \in Steps /\ "confirm" \in Steps
      /\ "commit" \in Steps /\ "publish" \in Steps /\ "mode" \in Steps
      /\ "granted" \in Steps /\ "rollback" \in Steps /\ "unwind" \in Steps
      /\ "release" \in Steps /\ "restore" \in Steps /\ "unindex" \in Steps
  BY DEF Steps
<1>b. /\ "enter" \in Goals /\ "submit" \in Goals /\ "leave" \in Goals
      /\ "suspend" \in Goals /\ "demote" \in Goals /\ "delete" \in Goals
      /\ "disable" \in Goals /\ "sweep" \in Goals
  BY DEF Goals
<1>c. Targets \subseteq Procs /\ Life \in Procs
  BY DEF Procs
<1>d. \A p \in Procs : op[p].step # "idle" => op[p].agent \in Agents
  BY DEF Shape, Idle
<1>e. \A p \in Procs :
        /\ op[p] \in Ops /\ op[p].step \in Steps /\ op[p].goal \in Goals
        /\ op[p].todo \in SUBSET Autos /\ op[p].held \in SUBSET Autos
        /\ op[p].failed \in SUBSET Autos
  BY OpsFields
<1>f. \A a \in Agents : TargetOf[a] \in Targets
  BY DEF HandoffAssumption
<1>n. {} \in SUBSET Autos
  OBVIOUS
<1>1. ASSUME NEW x \in Autos, Observe(x) PROVE TypeOK'
  BY <1>1 DEF Observe
<1>2. ASSUME NEW a \in Agents, GatesChange(a) PROVE TypeOK'
  BY <1>2 DEF GatesChange
<1>3. ASSUME NEW a \in Agents, Call(a) PROVE TypeOK'
  <2>1. ASSUME NEW g \in Goals, NEW s \in Steps, Begin(a, g, s) PROVE A
    BY <2>1, <1>c, <1>f, StartIsOp, PutOp DEF Begin
  <2>2. CASE Enter(a) BY <2>1, <2>2, <1>a, <1>b DEF Enter
  <2>3. CASE Submit(a) BY <2>1, <2>3, <1>a, <1>b DEF Submit
  <2>4. CASE Leave(a) BY <2>1, <2>4, <1>a, <1>b DEF Leave
  <2>5. CASE Suspend(a) BY <2>1, <2>5, <1>a, <1>b DEF Suspend
  <2>6. CASE Demote(a) BY <2>6 DEF Demote, Requests
  <2>7. CASE Delete(a) BY <2>7 DEF Delete, Requests
  <2>8. CASE Disable(a) BY <2>1, <2>8, <1>a, <1>b DEF Disable
  <2>9. CASE Enable(a) BY <2>9 DEF Enable
  <2> QED BY <1>3, <2>2, <2>3, <2>4, <2>5, <2>6, <2>7, <2>8, <2>9 DEF Call
<1>4. ASSUME NEW a \in Agents, Erase(a) PROVE TypeOK'
  BY <1>4 DEF Erase
<1>5. ASSUME NEW r \in Requests, NEW a \in Agents, Resume(r, a) PROVE TypeOK'
  <2>1. r \in Goals
    BY <1>5 DEF Resume, Requests, Goals
  <2>2. A
    BY <2>1, <1>5, <1>a, <1>c, <1>f, StartIsOp, PutOp DEF Resume, Begin
  <2> QED BY <2>2, <1>5 DEF Resume
<1>6. ASSUME NEW t \in Targets, AcquireStep(t) PROVE TypeOK'
  <2>0. t \in Procs
    BY <1>c
  <2>1. ASSUME NEW x \in Autos, DisableOne(t, x) PROVE TypeOK'
    <3>0. op[t].todo \ {x} \in SUBSET Autos /\ op[t].held \cup {x} \in SUBSET Autos
      BY <2>0, <1>e
    <3>1. A BY <3>0, <2>1, <2>0, <1>a, <1>n, MoveOp DEF DisableOne
    <3> QED BY <3>1, <2>1 DEF DisableOne, SwitchOff
  <2>r. ASSUME StartRollback(t) PROVE A
    <3>1. op[t].held \in SUBSET Autos
      BY <2>0, <1>e
    <3> QED BY <3>1, <2>r, <2>0, <1>a, <1>n, MoveOp DEF StartRollback
  <2>2. ASSUME NEW x \in Autos, DisableRaises(t, x) PROVE TypeOK'
    BY <2>2, <2>r DEF DisableRaises, SwitchOff
  <2>3. CASE ReadLease(t)
    <3>1. A BY <2>3, <2>0, <1>a, GotoOp, StopOp DEF ReadLease
    <3> QED BY <3>1, <2>3 DEF ReadLease
  <2>4. CASE Scan(t)
    <3>1. \A view : Candidates(t, view) \in SUBSET Autos
      BY DEF Candidates, HandoffAssumption
    <3>2. A BY <3>1, <2>4, <2>0, <1>a, <1>n, MoveOp, StopOp DEF Scan
    <3> QED BY <3>2, <2>4 DEF Scan
  <2>5. CASE AllDisabled(t)
    <3>1. A BY <2>5, <2>0, <1>a, GotoOp DEF AllDisabled
    <3> QED BY <3>1, <2>5 DEF AllDisabled
  <2>6. CASE Checkpoint(t)
    <3>1. A BY <2>6, <2>0, <2>r, <1>a, GotoOp DEF Checkpoint
    <3>2. op[t].agent \in Agents
      BY <2>6, <2>0, <1>d DEF Checkpoint
    <3>3. [owner |-> op[t].agent, disabled |-> op[t].held] \in Leases
      BY <3>2, <2>0, <1>e DEF Leases
    <3>4. Raced(t, op[t].held) \in SUBSET Autos
      BY DEF Raced
    <3> QED BY <3>1, <3>3, <3>4, <2>6 DEF Checkpoint
  <2>7. CASE AddToIndex(t)
    <3>1. A BY <2>7, <2>0, <1>a, GotoOp, StopOp DEF AddToIndex
    <3> QED BY <3>1, <2>7 DEF AddToIndex
  <2>8. CASE Confirm(t)
    <3>1. A BY <2>8, <2>0, <2>r, <1>a, GotoOp DEF Confirm
    <3> QED BY <3>1, <2>8 DEF Confirm
  <2>9. CASE RollbackDone(t)
    <3>1. A BY <2>9, <2>0, <1>a, GotoOp, StopOp DEF RollbackDone
    <3>2. lease' \in [Targets -> Leases \cup {None}] /\ leaked' \in SUBSET Autos
      BY <2>9, <2>0, <1>e DEF RollbackDone, ClearRecord, KeepRemaining, Raced, Leases
    <3> QED BY <3>1, <3>2, <2>9 DEF RollbackDone
  <2>10. CASE CommitMode(t)
    <3>1. op[t].agent \in Agents
      BY <2>10, <2>0, <1>d DEF CommitMode
    <3>2. A
      BY <3>1, <2>10, <2>0, <1>a, <1>b, StartIsOp, IdleIsOp, PutOp, StopOp DEF CommitMode
    <3>3. mode' \in [Agents -> {"shadow", "control", "parked", "gone"}]
      BY <3>1, <2>10 DEF CommitMode, Committed
    <3> QED BY <3>1, <3>2, <3>3, <2>10 DEF CommitMode
  <2>11. CASE Dispatch(t)
    BY <2>11, <2>0, StopOp DEF Dispatch
  <2> QED BY <1>6, <2>1, <2>2, <2>3, <2>4, <2>5, <2>6, <2>7, <2>8, <2>9, <2>10, <2>11 DEF AcquireStep
<1>7. ASSUME NEW p \in Procs, ReleaseStep(p) PROVE TypeOK'
  <2>1. ASSUME NEW x \in Autos, RestoreOne(p, x) PROVE TypeOK'
    <3>0. op[p].todo \ {x} \in SUBSET Autos
      BY <1>e
    <3>1. A BY <3>0, <2>1, <1>e, MoveOp DEF RestoreOne
    <3> QED BY <3>1, <2>1 DEF RestoreOne, SwitchOn
  <2>2. ASSUME NEW x \in Autos, RestoreRaises(p, x) PROVE TypeOK'
    <3>0. op[p].todo \ {x} \in SUBSET Autos /\ op[p].failed \cup {x} \in SUBSET Autos
      BY <1>e
    <3>1. A BY <3>0, <2>2, <1>e, MoveOp DEF RestoreRaises
    <3> QED BY <3>1, <2>2 DEF RestoreRaises, SwitchOn
  <2>r. ASSUME op[p].step # "idle", AfterRelease(p)
        PROVE  A /\ waiting' \in SUBSET (Requests \X Agents)
    <3>1. op[p].agent \in Agents
      BY <2>r, <1>d
    <3> QED BY <3>1, <2>r, <1>a, <1>b, <1>e, StartIsOp, IdleIsOp, PutOp DEF AfterRelease, Requests
  <2>3. CASE Release(p)
    <3>0. op[p].agent \in Agents
      BY <2>3, <1>d DEF Release
    <3>1. Tgt(p) \in Targets
      BY <3>0, <1>f DEF Tgt
    <3>2. A /\ waiting' \in SUBSET (Requests \X Agents)
      <4>1. CASE lease[Tgt(p)] = None
        BY <4>1, <2>3, <2>r DEF Release
      <4>2. CASE lease[Tgt(p)] # None /\ lease[Tgt(p)].owner # op[p].agent
        BY <4>2, <2>3, StopOp DEF Release
      <4>3. CASE lease[Tgt(p)] # None /\ lease[Tgt(p)].owner = op[p].agent
        <5>1. {x \in lease[Tgt(p)].disabled : seen[x] # "on"} \in SUBSET Autos
          BY <3>1, <4>3 DEF Leases
        <5> QED BY <5>1, <4>3, <2>3, <1>a, <1>n, MoveOp DEF Release
      <4> QED BY <4>1, <4>2, <4>3
    <3>3. leaked' \in SUBSET Autos
      BY <3>1, <2>3 DEF Release, Leases
    <3> QED BY <3>2, <3>3, <2>3 DEF Release
  <2>4. CASE Settle(p)
    <3>0. op[p].agent \in Agents
      BY <2>4, <1>d DEF Settle
    <3>1. A BY <2>4, <1>a, GotoOp, StopOp DEF Settle
    <3>2. lease' \in [Targets -> Leases \cup {None}] /\ leaked' \in SUBSET Autos
      BY <2>4, <1>e DEF Settle, ClearRecord, KeepRemaining, Raced, Leases
    <3> QED BY <3>1, <3>2, <2>4 DEF Settle
  <2>5. CASE RemoveFromIndex(p)
    <3>1. A /\ waiting' \in SUBSET (Requests \X Agents)
      BY <2>5, <2>r, StopOp DEF RemoveFromIndex
    <3> QED BY <3>1, <2>5 DEF RemoveFromIndex
  <2> QED BY <1>7, <2>1, <2>2, <2>3, <2>4, <2>5 DEF ReleaseStep
<1>i. [q \in Procs |-> Idle] \in [Procs -> Ops]
  BY IdleIsOp
<1>j. Journalled \in SUBSET (Targets \X Agents)
  BY DEF Journalled, Leases
<1>k. ASSUME NewProcess, crashes' \in 0 .. MaxCrashes PROVE TypeOK'
  <2>1. \A t \in Targets : InFlight(t) \in SUBSET Autos
    BY <1>c, <1>e DEF InFlight
  <2>2. leaked' \in SUBSET Autos
    BY <1>k, <2>1 DEF NewProcess
  <2> QED BY <1>k, <1>i, <2>2 DEF NewProcess
<1>8. CASE LifeStep
  <2>1. CASE StartReconcile BY <2>1, <1>j DEF StartReconcile
  <2>2. CASE FinishReconcile BY <2>2 DEF FinishReconcile
  <2>3. ASSUME NEW t \in Targets, NEW a \in Agents, SweepNext(t, a) PROVE TypeOK'
    <3>1. A BY <2>3, <1>a, <1>b, <1>c, StartIsOp, PutOp DEF SweepNext
    <3> QED BY <3>1, <2>3 DEF SweepNext
  <2> QED BY <1>8, <2>1, <2>2, <2>3 DEF LifeStep
<1>9. CASE StartShutdown
  BY <1>9, <1>j DEF StartShutdown
<1>10. CASE Exit
  BY <1>10, <1>k DEF Exit
<1>11. CASE Crash
  BY <1>11, <1>k DEF Crash, HandoffAssumption
<1> QED
  BY <1>1, <1>2, <1>3, <1>4, <1>5, <1>6, <1>7, <1>8, <1>9, <1>10, <1>11 DEF Next

-----------------------------------------------------------------------------
(* Control state *)

LEMMA ShapeOfStep ==
    ASSUME HandoffAssumption, Shape, NEW p \in Procs, op[p] # Idle,
           \A q \in Procs \ {p} : op'[q] = op[q],
           \/ op'[p] = Idle
           \/ /\ op'[p].step # "idle" /\ op'[p].agent = op[p].agent
              /\ p = Life => /\ op'[p].goal = "sweep"
                             /\ op'[p].step \in {"release", "restore", "unindex"},
           phase' = phase, sweep' = sweep,
           waiting' = waiting \/ p \in Targets,
           \A t \in Targets : lease'[t] # None => TargetOf[lease'[t].owner] = t
    PROVE  Shape'
<1>1. Targets \subseteq Procs /\ Life \in Procs /\ Life \notin Targets
  BY DEF Procs, HandoffAssumption
<1>2. \A q \in Procs : op'[q] # Idle => op'[q].step # "idle" /\ op'[q].agent \in Agents
  BY DEF Shape
<1>3. \A t \in Targets : op'[t] # Idle => TargetOf[op'[t].agent] = t
  BY <1>1 DEF Shape
<1>4. op'[Life] # Idle =>
        op'[Life].goal = "sweep" /\ op'[Life].step \in {"release", "restore", "unindex"}
  BY <1>1 DEF Shape
<1>5. phase' \in {"boot", "reconcile"} =>
        waiting' = {} /\ \A t \in Targets : op'[t] = Idle
  BY <1>1 DEF Shape
<1>6. phase' \in {"boot", "ready"} => sweep' = {} /\ op'[Life] = Idle
  BY <1>1 DEF Shape
<1> QED
  BY <1>2, <1>3, <1>4, <1>5, <1>6 DEF Shape

LEMMA ShapeStep ==
    ASSUME HandoffAssumption, TypeOK, Shape, Next
    PROVE  Shape'
<1> USE DEF world, journal, config, lifecycle
<1>a. /\ "idle" \in Steps /\ "read" \in Steps /\ "scan" \in Steps /\ "disable" \in Steps
      /\ "journal" \in Steps /\ "index" \in Steps /\ "confirm" \in Steps
      /\ "commit" \in Steps /\ "publish" \in Steps /\ "mode" \in Steps
      /\ "granted" \in Steps /\ "rollback" \in Steps /\ "unwind" \in Steps
      /\ "release" \in Steps /\ "restore" \in Steps /\ "unindex" \in Steps
  BY DEF Steps
<1>c. Targets \subseteq Procs /\ Life \in Procs /\ Life \notin Targets
  BY DEF Procs, HandoffAssumption
<1>e. /\ op \in [Procs -> Ops]
      /\ \A p \in Procs :
           /\ op[p] \in Ops /\ op[p].step \in Steps /\ op[p].goal \in Goals
           /\ op[p].todo \in SUBSET Autos /\ op[p].held \in SUBSET Autos
           /\ op[p].failed \in SUBSET Autos
  BY OpsFields DEF TypeOK
<1>f. \A a \in Agents : TargetOf[a] \in Targets
  BY DEF HandoffAssumption
<1>g. \A p \in Procs : op[p].step # "idle" => op[p] # Idle
  BY DEF Idle
<1>n. {} \in SUBSET Autos
  OBVIOUS
<1>l. \A t \in Targets : lease[t] # None => TargetOf[lease[t].owner] = t
  BY DEF Shape
<1>s. ASSUME NEW a \in Agents, NEW g, NEW s
      PROVE  /\ Start(a, g, s).step = s /\ Start(a, g, s).agent = a
             /\ Start(a, g, s).goal = g
  BY DEF Start
<1>b. ASSUME NEW a \in Agents, NEW g, NEW s \in Steps \ {"idle"}, Begin(a, g, s),
             phase \in {"ready", "stopping"}, phase' = phase, lease' = lease,
             sweep' = sweep
      PROVE  Shape'
  <2>1. op'[TargetOf[a]] = Start(a, g, s)
    BY <1>b, <1>c, <1>e, <1>f DEF Begin, Put
  <2>2. \A q \in Procs \ {TargetOf[a]} : op'[q] = op[q]
    BY <1>b, <1>c, <1>e, <1>f DEF Begin, Put
  <2> QED BY <2>1, <2>2, <1>b, <1>c, <1>f, <1>s DEF Shape
<1>1. ASSUME NEW x \in Autos, Observe(x) PROVE Shape'
  BY <1>1 DEF Observe, Shape
<1>2. ASSUME NEW a \in Agents, GatesChange(a) PROVE Shape'
  BY <1>2 DEF GatesChange, Shape
<1>3. ASSUME NEW a \in Agents, Call(a) PROVE Shape'
  <2>2. CASE Enter(a) BY <2>2, <1>a, <1>b DEF Enter, Serving
  <2>3. CASE Submit(a) BY <2>3, <1>a, <1>b DEF Submit, Serving
  <2>4. CASE Leave(a) BY <2>4, <1>a, <1>b DEF Leave, Serving
  <2>5. CASE Suspend(a) BY <2>5, <1>a, <1>b DEF Suspend, Serving
  <2>6. CASE Demote(a) BY <2>6 DEF Demote, Serving, Shape
  <2>7. CASE Delete(a) BY <2>7 DEF Delete, Serving, Shape
  <2>8. CASE Disable(a) BY <2>8, <1>a, <1>b DEF Disable, Serving
  <2>9. CASE Enable(a) BY <2>9 DEF Enable, Serving, Shape
  <2> QED BY <1>3, <2>2, <2>3, <2>4, <2>5, <2>6, <2>7, <2>8, <2>9 DEF Call
<1>4. ASSUME NEW a \in Agents, Erase(a) PROVE Shape'
  BY <1>4 DEF Erase, Shape
<1>5. ASSUME NEW r \in Requests, NEW a \in Agents, Resume(r, a) PROVE Shape'
  <2>1. phase \in {"ready", "stopping"}
    BY <1>5 DEF Resume, Shape, TypeOK
  <2> QED BY <2>1, <1>5, <1>a, <1>b DEF Resume
<1>6. ASSUME NEW t \in Targets, AcquireStep(t) PROVE Shape'
  <2>0. t \in Procs /\ t # Life
    BY <1>c
  <2>1. ASSUME NEW x \in Autos, DisableOne(t, x) PROVE Shape'
    <3>1. /\ op'[t].step = "journal" /\ op'[t].agent = op[t].agent
          /\ \A q \in Procs \ {t} : op'[q] = op[q]
      <4>1. Move(t, "journal", op[t].todo \ {x}, op[t].held \cup {x}, {})
        BY <2>1 DEF DisableOne
      <4> QED BY <4>1, <2>0, <1>e, MoveControl
    <3> QED BY <3>1, <2>0, <2>1, <1>g, <1>l, ShapeOfStep DEF DisableOne
  <2>r. ASSUME StartRollback(t)
        PROVE  /\ op'[t].step = "rollback" /\ op'[t].agent = op[t].agent
               /\ \A q \in Procs \ {t} : op'[q] = op[q]
    <3>1. op[t].held \in SUBSET Autos
      BY <2>0, <1>e
    <3> QED BY <3>1, <2>r, <2>0, <1>a, <1>e, <1>n, MoveOp DEF StartRollback
  <2>2. ASSUME NEW x \in Autos, DisableRaises(t, x) PROVE Shape'
    BY <2>2, <2>r, <2>0, <1>g, <1>l, ShapeOfStep DEF DisableRaises
  <2>3. CASE ReadLease(t)
    <3>1. /\ \/ op'[t] = Idle
             \/ op'[t].step # "idle" /\ op'[t].agent = op[t].agent
          /\ \A q \in Procs \ {t} : op'[q] = op[q]
      BY <2>3, <2>0, <1>a, <1>e, GotoOp, StopOp DEF ReadLease
    <3> QED BY <3>1, <2>0, <2>3, <1>g, <1>l, ShapeOfStep DEF ReadLease
  <2>4. CASE Scan(t)
    <3>1. \A view : Candidates(t, view) \in SUBSET Autos
      BY DEF Candidates, HandoffAssumption
    <3>2. /\ \/ op'[t] = Idle
             \/ op'[t].step # "idle" /\ op'[t].agent = op[t].agent
          /\ \A q \in Procs \ {t} : op'[q] = op[q]
      BY <3>1, <2>4, <2>0, <1>a, <1>e, <1>n, MoveOp, StopOp DEF Scan
    <3> QED BY <3>2, <2>0, <2>4, <1>g, <1>l, ShapeOfStep DEF Scan
  <2>5. CASE AllDisabled(t)
    <3>1. /\ op'[t].step # "idle" /\ op'[t].agent = op[t].agent
          /\ \A q \in Procs \ {t} : op'[q] = op[q]
      BY <2>5, <2>0, <1>a, <1>e, GotoOp DEF AllDisabled
    <3> QED BY <3>1, <2>0, <2>5, <1>g, <1>l, ShapeOfStep DEF AllDisabled
  <2>6. CASE Checkpoint(t)
    <3>1. /\ op'[t].step # "idle" /\ op'[t].agent = op[t].agent
          /\ \A q \in Procs \ {t} : op'[q] = op[q]
      BY <2>6, <2>0, <2>r, <1>a, <1>e, GotoOp DEF Checkpoint
    <3>2. TargetOf[op[t].agent] = t
      BY <2>6, <2>0, <1>g DEF Checkpoint, Shape
    <3>3. \A u \in Targets : lease'[u] # None => TargetOf[lease'[u].owner] = u
      BY <3>2, <2>6, <1>l DEF Checkpoint, TypeOK
    <3> QED BY <3>1, <3>3, <2>0, <2>6, <1>g, ShapeOfStep DEF Checkpoint
  <2>7. CASE AddToIndex(t)
    <3>1. /\ \/ op'[t] = Idle
             \/ op'[t].step # "idle" /\ op'[t].agent = op[t].agent
          /\ \A q \in Procs \ {t} : op'[q] = op[q]
      BY <2>7, <2>0, <1>a, <1>e, GotoOp, StopOp DEF AddToIndex
    <3> QED BY <3>1, <2>0, <2>7, <1>g, <1>l, ShapeOfStep DEF AddToIndex
  <2>8. CASE Confirm(t)
    <3>1. /\ op'[t].step # "idle" /\ op'[t].agent = op[t].agent
          /\ \A q \in Procs \ {t} : op'[q] = op[q]
      BY <2>8, <2>0, <2>r, <1>a, <1>e, GotoOp DEF Confirm
    <3> QED BY <3>1, <2>0, <2>8, <1>g, <1>l, ShapeOfStep DEF Confirm
  <2>9. CASE RollbackDone(t)
    <3>1. /\ \/ op'[t] = Idle
             \/ op'[t].step # "idle" /\ op'[t].agent = op[t].agent
          /\ \A q \in Procs \ {t} : op'[q] = op[q]
      BY <2>9, <2>0, <1>a, <1>e, GotoOp, StopOp DEF RollbackDone
    <3>2. \A u \in Targets : lease'[u] # None => TargetOf[lease'[u].owner] = u
      BY <2>9, <1>l DEF RollbackDone, ClearRecord, KeepRemaining, TypeOK
    <3> QED BY <3>1, <3>2, <2>0, <2>9, <1>g, ShapeOfStep DEF RollbackDone
  <2>10. CASE CommitMode(t)
    <3>1. op[t].agent \in Agents
      BY <2>10, <2>0, <1>g DEF CommitMode, Shape
    <3>2. /\ \/ op'[t] = Idle
             \/ op'[t].step # "idle" /\ op'[t].agent = op[t].agent
          /\ \A q \in Procs \ {t} : op'[q] = op[q]
      BY <3>1, <2>10, <2>0, <1>a, <1>e, <1>s DEF CommitMode, Put, Stop
    <3> QED BY <3>2, <2>0, <2>10, <1>g, <1>l, ShapeOfStep DEF CommitMode
  <2>11. CASE Dispatch(t)
    <3>1. op'[t] = Idle /\ \A q \in Procs \ {t} : op'[q] = op[q]
      BY <2>11, <2>0, <1>e, StopOp DEF Dispatch
    <3> QED BY <3>1, <2>0, <2>11, <1>g, <1>l, ShapeOfStep DEF Dispatch
  <2> QED BY <1>6, <2>1, <2>2, <2>3, <2>4, <2>5, <2>6, <2>7, <2>8, <2>9, <2>10, <2>11 DEF AcquireStep
<1>7. ASSUME NEW p \in Procs, ReleaseStep(p) PROVE Shape'
  <2>g. op[p] # Idle => (p = Life => op[p].goal = "sweep"
                           /\ op[p].step \in {"release", "restore", "unindex"})
    BY DEF Shape
  <2>1. ASSUME NEW x \in Autos, RestoreOne(p, x) PROVE Shape'
    <3>1. /\ op'[p].step = op[p].step /\ op'[p].agent = op[p].agent
          /\ op'[p].goal = op[p].goal
          /\ \A q \in Procs \ {p} : op'[q] = op[q]
      <4>1. Move(p, op[p].step, op[p].todo \ {x}, op[p].held, op[p].failed)
        BY <2>1 DEF RestoreOne
      <4> QED BY <4>1, <1>e, MoveControl
    <3> QED BY <3>1, <2>1, <2>g, <1>g, <1>l, ShapeOfStep DEF RestoreOne
  <2>2. ASSUME NEW x \in Autos, RestoreRaises(p, x) PROVE Shape'
    <3>1. /\ op'[p].step = op[p].step /\ op'[p].agent = op[p].agent
          /\ op'[p].goal = op[p].goal
          /\ \A q \in Procs \ {p} : op'[q] = op[q]
      <4>1. Move(p, op[p].step, op[p].todo \ {x}, op[p].held, op[p].failed \cup {x})
        BY <2>2 DEF RestoreRaises
      <4> QED BY <4>1, <1>e, MoveControl
    <3> QED BY <3>1, <2>2, <2>g, <1>g, <1>l, ShapeOfStep DEF RestoreRaises
  <2>r. ASSUME op[p] # Idle, AfterRelease(p)
        PROVE  /\ \A q \in Procs \ {p} : op'[q] = op[q]
               /\ \/ op'[p] = Idle
                  \/ /\ op'[p].step # "idle" /\ op'[p].agent = op[p].agent
                     /\ p # Life
               /\ waiting' = waiting \/ p \in Targets
    <3>1. op[p].agent \in Agents
      BY <2>r DEF Shape
    <3>2. \A q \in Procs \ {p} : op'[q] = op[q]
      BY <2>r, <1>e DEF AfterRelease, Put
    <3>3. CASE p = Life
      BY <3>3, <2>r, <2>g, <3>2, <1>e DEF AfterRelease, Put
    <3>4. CASE p # Life
      BY <3>4, <3>1, <3>2, <2>r, <1>e, <1>s DEF AfterRelease, Put, Procs
    <3> QED BY <3>3, <3>4
  <2>3. CASE Release(p)
    <3>0. op[p] # Idle /\ op[p].agent \in Agents
      BY <2>3, <1>g DEF Release, Shape
    <3>1. Tgt(p) \in Targets
      BY <3>0, <1>f DEF Tgt
    <3>2. CASE lease[Tgt(p)] = None
      BY <3>0, <3>2, <2>3, <2>r, <1>l, ShapeOfStep DEF Release
    <3>3. CASE lease[Tgt(p)] # None /\ lease[Tgt(p)].owner # op[p].agent
      <4>1. op'[p] = Idle /\ \A q \in Procs \ {p} : op'[q] = op[q]
        BY <3>3, <2>3, <1>e, StopOp DEF Release
      <4> QED BY <4>1, <3>0, <3>3, <2>3, <1>l, ShapeOfStep DEF Release
    <3>4. CASE lease[Tgt(p)] # None /\ lease[Tgt(p)].owner = op[p].agent
      <4>2. /\ op'[p].step = "restore" /\ op'[p].agent = op[p].agent
            /\ op'[p].goal = op[p].goal
            /\ \A q \in Procs \ {p} : op'[q] = op[q]
        <5>1. Move(p, "restore", {x \in lease[Tgt(p)].disabled : seen[x] # "on"}, {}, {})
          BY <3>4, <2>3 DEF Release
        <5> QED BY <5>1, <1>e, MoveControl
      <4> QED BY <4>2, <3>0, <3>4, <2>3, <2>g, <1>l, ShapeOfStep DEF Release
    <3> QED BY <3>2, <3>3, <3>4
  <2>4. CASE Settle(p)
    <3>1. /\ \/ op'[p] = Idle
             \/ /\ op'[p].step = "unindex" /\ op'[p].agent = op[p].agent
                /\ op'[p].goal = op[p].goal
          /\ \A q \in Procs \ {p} : op'[q] = op[q]
      BY <2>4, <1>a, <1>e, GotoOp, StopOp DEF Settle
    <3>2. \A u \in Targets : lease'[u] # None => TargetOf[lease'[u].owner] = u
      BY <2>4, <1>l DEF Settle, ClearRecord, KeepRemaining, TypeOK
    <3> QED BY <3>1, <3>2, <2>4, <2>g, <1>g, ShapeOfStep DEF Settle
  <2>5. CASE RemoveFromIndex(p)
    <3>1. op[p] # Idle
      BY <2>5, <1>g DEF RemoveFromIndex
    <3>2. CASE AfterRelease(p)
      BY <3>1, <3>2, <2>5, <2>r, <1>l, ShapeOfStep DEF RemoveFromIndex
    <3>3. CASE Stop(p) /\ UNCHANGED waiting
      <4>1. op'[p] = Idle /\ \A q \in Procs \ {p} : op'[q] = op[q]
        BY <3>3, <1>e, StopOp
      <4> QED BY <4>1, <3>1, <3>3, <2>5, <1>l, ShapeOfStep DEF RemoveFromIndex
    <3> QED BY <3>2, <3>3, <2>5 DEF RemoveFromIndex
  <2> QED BY <1>7, <2>1, <2>2, <2>3, <2>4, <2>5 DEF ReleaseStep
<1>k. ASSUME NewProcess PROVE Shape'
  BY <1>k, <1>c DEF NewProcess, Shape
<1>8. CASE LifeStep
  <2>1. CASE StartReconcile BY <2>1 DEF StartReconcile, Shape
  <2>2. CASE FinishReconcile BY <2>2 DEF FinishReconcile, SweepDone, Shape
  <2>3. ASSUME NEW t \in Targets, NEW a \in Agents, SweepNext(t, a) PROVE Shape'
    <3>1. CASE UNCHANGED op
      BY <3>1, <2>3 DEF SweepNext, Shape
    <3>2. CASE Put(Life, Start(a, "sweep", "release")) /\ phase \notin {"boot", "ready"}
      <4>1. /\ op'[Life] = Start(a, "sweep", "release")
            /\ \A q \in Procs \ {Life} : op'[q] = op[q]
        BY <3>2, <1>c, <1>e DEF Put
      <4> QED BY <4>1, <3>2, <2>3, <1>c, <1>s DEF SweepNext, Shape
    <3>3. phase = "reconcile" \/ phase = "stopping"
      BY <2>3 DEF SweepNext, Shape, TypeOK
    <3> QED BY <3>1, <3>2, <3>3, <2>3 DEF SweepNext
  <2> QED BY <1>8, <2>1, <2>2, <2>3 DEF LifeStep
<1>9. CASE StartShutdown
  BY <1>9 DEF StartShutdown, Shape
<1>10. CASE Exit
  BY <1>10, <1>k DEF Exit
<1>11. CASE Crash
  BY <1>11, <1>k DEF Crash
<1> QED
  BY <1>1, <1>2, <1>3, <1>4, <1>5, <1>6, <1>7, <1>8, <1>9, <1>10, <1>11 DEF Next

LEMMA TypeInit ==
    ASSUME HandoffAssumption, Init
    PROVE  TypeOK /\ Shape
<1>1. [p \in Procs |-> Idle] \in [Procs -> Ops]
  BY IdleIsOp
<1>2. [t \in Targets |-> None] \in [Targets -> Leases \cup {None}]
  OBVIOUS
<1>3. TypeOK
  BY <1>1, <1>2 DEF Init, TypeOK, HandoffAssumption
<1>4. Targets \subseteq Procs /\ Life \in Procs
  BY DEF Procs
<1>5. Shape
  BY <1>4 DEF Init, Shape
<1> QED
  BY <1>3, <1>5

LEMMA TypeStutter ==
    ASSUME TypeOK, Shape, UNCHANGED vars
    PROVE  TypeOK' /\ Shape'
BY DEF TypeOK, Shape, vars

\* Every variable keeps its type, and the control state its shape: a worker
\* serves agents of the target whose lock it holds, Life only ever runs the
\* release of a sweep, and nothing runs while the add-on boots.
THEOREM TypeCorrect == Spec => [](TypeOK /\ Shape)
<1>1. Init => TypeOK /\ Shape
  BY TypeInit, HandoffAssumption
<1>2. (TypeOK /\ Shape) /\ [Next]_vars => (TypeOK /\ Shape)'
  BY TypeStep, ShapeStep, TypeStutter, HandoffAssumption
<1> QED
  BY <1>1, <1>2, PTL DEF Spec

-----------------------------------------------------------------------------
(* Facts the other proof modules use *)

LEMMA ProcFacts ==
    ASSUME HandoffAssumption, TypeOK, Shape
    PROVE  /\ op \in [Procs -> Ops]
           /\ Targets \subseteq Procs /\ Life \in Procs /\ Life \notin Targets
           /\ \A a \in Agents : TargetOf[a] \in Targets
           /\ \A p \in Procs : op[p].step # "idle" =>
                 op[p] # Idle /\ op[p].agent \in Agents /\ Tgt(p) \in Targets
           /\ \A t \in Targets : op[t].step # "idle" => Tgt(t) = t
BY DEF HandoffAssumption, TypeOK, Shape, Procs, Idle, Tgt

LEMMA StartFields ==
    ASSUME NEW a, NEW g, NEW s
    PROVE  /\ Start(a, g, s).step = s /\ Start(a, g, s).goal = g
           /\ Start(a, g, s).agent = a /\ Start(a, g, s).todo = {}
           /\ Start(a, g, s).held = {} /\ Start(a, g, s).failed = {}
BY DEF Start

LEMMA IdleFields ==
    /\ Idle.step = "idle" /\ Idle.todo = {} /\ Idle.held = {} /\ Idle.failed = {}
BY DEF Idle

LEMMA PutControl ==
    ASSUME op \in [Procs -> Ops], NEW p \in Procs, NEW r, Put(p, r)
    PROVE  op'[p] = r /\ \A q \in Procs \ {p} : op'[q] = op[q]
BY DEF Put

LEMMA GotoControl ==
    ASSUME op \in [Procs -> Ops], NEW p \in Procs, NEW s, Goto(p, s)
    PROVE  /\ op'[p].step = s /\ op'[p].goal = op[p].goal
           /\ op'[p].agent = op[p].agent /\ op'[p].todo = op[p].todo
           /\ op'[p].held = op[p].held /\ op'[p].failed = op[p].failed
           /\ \A q \in Procs \ {p} : op'[q] = op[q]
BY MoveControl DEF Goto

LEMMA RollbackControl ==
    ASSUME op \in [Procs -> Ops], NEW p \in Procs, StartRollback(p)
    PROVE  /\ op'[p].step = "rollback" /\ op'[p].goal = op[p].goal
           /\ op'[p].agent = op[p].agent /\ op'[p].todo = op[p].held
           /\ op'[p].held = op[p].held /\ op'[p].failed = {}
           /\ \A q \in Procs \ {p} : op'[q] = op[q]
BY MoveControl DEF StartRollback

LEMMA AfterReleaseControl ==
    ASSUME op \in [Procs -> Ops], NEW p \in Procs, AfterRelease(p)
    PROVE  /\ \/ op'[p] = Idle
              \/ op'[p] = Start(op[p].agent, op[p].goal, "scan")
              \/ /\ op[p].goal \in {"leave", "disable"}
                 /\ op'[p] = Start(op[p].agent, op[p].goal, "mode")
           /\ \A q \in Procs \ {p} : op'[q] = op[q]
BY PutControl DEF AfterRelease

-----------------------------------------------------------------------------
(* Nobody bids for a target while a rival is in Control *)

\* A step of t's worker that changes no mode.
LEMMA SoleFrame ==
    ASSUME HandoffAssumption, TypeOK, Shape, Sole, NEW p \in Procs, op[p] # Idle,
           \A q \in Procs \ {p} : op'[q] = op[q], mode' = mode,
           p \in Targets => \/ ~ Bidding(op'[p])
                           \/ (op'[p].agent = op[p].agent /\ Bidding(op[p]))
                           \/ RivalFree(op'[p].agent)
    PROVE  Sole'
<1>1. Targets \subseteq Procs
  BY DEF Procs
<1>2. \A a : RivalFree(a)' <=> RivalFree(a)
  BY DEF RivalFree
<1> QED
  BY <1>1, <1>2 DEF Sole

LEMMA SoleStep ==
    ASSUME HandoffAssumption, TypeOK, Shape, Sole, Next
    PROVE  Sole'
<1> USE DEF world, journal, config, lifecycle
<1>a. /\ op \in [Procs -> Ops] /\ Targets \subseteq Procs /\ Life \in Procs
      /\ Life \notin Targets
  BY ProcFacts
<1>b. \A a \in Agents : TargetOf[a] \in Targets
  BY DEF HandoffAssumption
<1>s. ASSUME op' = op, \A a \in Agents : mode'[a] = mode[a] \/ mode'[a] # "control"
      PROVE  Sole'
  BY <1>s DEF Sole, RivalFree
<1>i. ~ Bidding(Idle)
  BY DEF Bidding, Owning, Idle, Acquiring
<1>d. ASSUME NEW p \in Procs, op[p] # Idle, Stop(p), mode' = mode PROVE Sole'
  BY <1>a, <1>d, <1>i, PutControl, SoleFrame DEF Stop
<1>e. ASSUME NEW a \in Agents, NEW g, NEW s, Begin(a, g, s), mode' = mode,
             ~ Bidding(Start(a, g, s))
      PROVE  Sole'
  <2>1. /\ op'[TargetOf[a]] = Start(a, g, s)
        /\ \A q \in Procs \ {TargetOf[a]} : op'[q] = op[q]
    BY <1>a, <1>b, <1>e, PutControl DEF Begin
  <2>2. \A b : RivalFree(b)' <=> RivalFree(b)
    BY <1>e DEF RivalFree
  <2> QED BY <1>a, <1>e, <2>1, <2>2 DEF Sole
<1>1. ASSUME NEW a \in Agents, Call(a) PROVE Sole'
  <2>1. \A g : ~ Bidding(Start(a, g, "read"))
    BY StartFields DEF Bidding, Owning, Acquiring
  <2>2. \A g : g \notin {"enter", "submit"} => ~ Bidding(Start(a, g, "release"))
    BY StartFields DEF Bidding, Owning, Acquiring
  <2>3. CASE Demote(a)
    BY <2>3, <1>s DEF Demote, TypeOK
  <2>4. CASE Enter(a) \/ Submit(a)
    BY <2>1, <2>4, <1>e DEF Enter, Submit
  <2>5. CASE Leave(a) \/ Disable(a) \/ Suspend(a)
    BY <2>2, <2>5, <1>e DEF Leave, Disable, Suspend
  <2>6. CASE Delete(a)
    BY <2>6, <1>s DEF Delete
  <2>7. CASE Enable(a)
    <3>1. op' = op /\ op[TargetOf[a]] = Idle
      BY <2>7 DEF Enable
    <3>2. \A b \in Agents : TargetOf[b] # TargetOf[a] => mode'[b] = mode[b]
      BY <2>7 DEF Enable, TypeOK
    <3>3. ASSUME NEW u \in Targets, Bidding(op[u]) PROVE RivalFree(op[u].agent)'
      <4>1. op[u] # Idle /\ RivalFree(op[u].agent)
        BY <3>3, <1>i DEF Sole
      <4>2. TargetOf[op[u].agent] = u /\ u # TargetOf[a]
        BY <4>1, <3>1 DEF Shape
      <4> QED BY <3>1, <3>2, <4>1, <4>2 DEF RivalFree
    <3> QED BY <3>1, <3>3 DEF Sole
  <2> QED BY <1>1, <2>3, <2>4, <2>5, <2>6, <2>7 DEF Call
<1>2. ASSUME NEW r \in Requests, NEW a \in Agents, Resume(r, a) PROVE Sole'
  <2>1. ~ Bidding(Start(a, r, "release"))
    BY StartFields DEF Bidding, Owning, Acquiring, Requests
  <2> QED BY <1>2, <2>1, <1>e DEF Resume
<1>3. ASSUME NEW t \in Targets, AcquireStep(t) PROVE Sole'
  <2>0. t \in Procs /\ (op[t].step # "idle" => op[t] # Idle)
    BY <1>a, ProcFacts
  <2>m. ASSUME NEW s, NEW todo, NEW held, NEW failed, Move(t, s, todo, held, failed),
               op[t].step \in Acquiring \cup {"publish"},
               \/ s \in Acquiring \cup {"publish", "unwind", "granted"}
               \/ s = "mode" /\ op[t].goal = "enter", mode' = mode
        PROVE  Sole'
    <3>1. op[t].step # "idle" /\ Bidding(op[t])
      BY <2>m DEF Bidding, Owning, Acquiring
    <3> QED BY <2>0, <2>m, <3>1, <1>a, MoveControl, SoleFrame
  <2>g. ASSUME NEW s, Goto(t, s),
               op[t].step \in Acquiring \cup {"publish"},
               \/ s \in Acquiring \cup {"publish", "unwind", "granted"}
               \/ s = "mode" /\ op[t].goal = "enter", mode' = mode
        PROVE  Sole'
    BY <2>g, <2>m DEF Goto
  <2>r. ASSUME StartRollback(t), op[t].step \in Acquiring, mode' = mode PROVE Sole'
    BY <2>r, <2>m DEF StartRollback, Acquiring
  <2>1. ASSUME NEW x \in Autos, DisableOne(t, x) PROVE Sole'
    BY <2>1, <2>m DEF DisableOne, Acquiring
  <2>2. ASSUME NEW x \in Autos, DisableRaises(t, x) PROVE Sole'
    BY <2>2, <2>r DEF DisableRaises, Acquiring
  <2>3. CASE ReadLease(t)
    <3>0. op[t].step = "read" /\ mode' = mode
      BY <2>3 DEF ReadLease
    <3>1. CASE Stop(t)
      BY <3>0, <3>1, <2>0, <1>d
    <3>2. ASSUME NEW s, Goto(t, s), RivalFree(op[t].agent) PROVE Sole'
      BY <3>0, <3>2, <2>0, <1>a, GotoControl, SoleFrame
    <3> QED BY <3>1, <3>2, <2>3 DEF ReadLease, Eligible
  <2>4. CASE Scan(t)
    BY <2>4, <2>0, <2>m, <1>d DEF Scan, Acquiring
  <2>5. CASE AllDisabled(t)
    BY <2>5, <2>g DEF AllDisabled, Acquiring
  <2>6. CASE Checkpoint(t)
    BY <2>6, <2>g, <2>r DEF Checkpoint, Acquiring
  <2>7. CASE AddToIndex(t)
    <3>1. CASE Stop(t)
      BY <3>1, <2>7, <2>0, <1>d DEF AddToIndex
    <3>2. CASE ~ Stop(t)
      BY <3>2, <2>7, <2>g DEF AddToIndex, Acquiring
    <3> QED BY <3>1, <3>2
  <2>8. CASE Confirm(t)
    BY <2>8, <2>g, <2>r DEF Confirm, Acquiring
  <2>9. CASE RollbackDone(t)
    BY <2>9, <2>0, <2>g, <1>d DEF RollbackDone, Acquiring
  <2>10. CASE CommitMode(t)
    <3>0. /\ op[t].step = "mode" /\ op[t] # Idle /\ op[t].agent \in Agents
          /\ TargetOf[op[t].agent] = t
      BY <2>10, <2>0, ProcFacts DEF CommitMode, Tgt
    <3>1. /\ \A q \in Procs \ {t} : op'[q] = op[q]
          /\ op'[t] = Idle \/ op'[t] = Start(op[t].agent, "suspend", "release")
      BY <2>10, <2>0, <1>a, PutControl DEF CommitMode, Stop
    <3>2. ~ Bidding(op'[t])
      BY <3>1, <1>i, StartFields DEF Bidding, Owning, Acquiring
    <3>3. \A a \in Agents : TargetOf[a] # t => mode'[a] = mode[a]
      BY <2>10, <3>0 DEF CommitMode, TypeOK
    <3>4. ASSUME NEW u \in Targets \ {t}, Bidding(op[u]) PROVE RivalFree(op[u].agent)'
      <4>1. RivalFree(op[u].agent)
        BY <3>4 DEF Sole
      <4>2. op[u] # Idle
        BY <3>4, <1>i
      <4>3. TargetOf[op[u].agent] = u
        BY <4>2 DEF Shape
      <4> QED BY <3>3, <3>1, <4>1, <4>3, <1>a DEF RivalFree
    <3>5. \A u \in Targets \ {t} : op'[u] = op[u]
      BY <3>1, <1>a
    <3> QED BY <3>2, <3>4, <3>5 DEF Sole
  <2>11. CASE Dispatch(t)
    BY <2>11, <2>0, <1>d DEF Dispatch
  <2> QED BY <1>3, <2>1, <2>2, <2>3, <2>4, <2>5, <2>6, <2>7, <2>8, <2>9, <2>10, <2>11 DEF AcquireStep
<1>4. ASSUME NEW p \in Procs, ReleaseStep(p) PROVE Sole'
  <2>0. op[p].step # "idle" /\ op[p] # Idle /\ mode' = mode
    BY <1>4, ProcFacts DEF ReleaseStep, RestoreOne, RestoreRaises, Release, Settle, RemoveFromIndex
  <2>m. ASSUME NEW s, NEW todo, NEW held, NEW failed, Move(p, s, todo, held, failed),
               \/ s = op[p].step
               \/ op[p].step \in {"release", "restore"} /\ s \in {"restore", "unindex"}
        PROVE  Sole'
    <3>1. Bidding(op'[p]) => Bidding(op[p])
      BY <2>m, <1>a, MoveControl DEF Bidding, Owning, Acquiring
    <3> QED BY <2>0, <2>m, <3>1, <1>a, MoveControl, SoleFrame
  <2>a. ASSUME AfterRelease(p), op[p].step \in {"release", "unindex"} PROVE Sole'
    <3>1. CASE op[p].goal \in {"enter", "submit"}
      <4>1. Bidding(op[p])
        BY <2>a, <3>1 DEF Bidding, Owning
      <4>2. Put(p, Start(op[p].agent, op[p].goal, "scan"))
        BY <2>a, <3>1 DEF AfterRelease
      <4> QED BY <2>0, <4>1, <4>2, <1>a, PutControl, StartFields, SoleFrame
    <3>2. CASE op[p].goal \notin {"enter", "submit"}
      <4>1. \/ Put(p, Idle)
            \/ /\ op[p].goal # "enter"
               /\ Put(p, Start(op[p].agent, op[p].goal, "mode"))
        BY <2>a, <3>2 DEF AfterRelease
      <4>2. ~ Bidding(op'[p])
        BY <4>1, <1>a, <1>i, PutControl, StartFields DEF Bidding, Owning, Acquiring
      <4> QED BY <2>0, <4>1, <4>2, <1>a, PutControl, SoleFrame
    <3> QED BY <3>1, <3>2
  <2>1. ASSUME NEW x \in Autos, RestoreOne(p, x) PROVE Sole'
    BY <2>1, <2>m DEF RestoreOne
  <2>2. ASSUME NEW x \in Autos, RestoreRaises(p, x) PROVE Sole'
    BY <2>2, <2>m DEF RestoreRaises
  <2>3. CASE Release(p)
    BY <2>3, <2>0, <2>a, <2>m, <1>d DEF Release
  <2>4. CASE Settle(p)
    BY <2>4, <2>0, <2>m, <1>d DEF Settle, Goto
  <2>5. CASE RemoveFromIndex(p)
    BY <2>5, <2>0, <2>a, <1>d DEF RemoveFromIndex
  <2> QED BY <1>4, <2>1, <2>2, <2>3, <2>4, <2>5 DEF ReleaseStep
<1>5. ASSUME NewProcess PROVE Sole'
  BY <1>5, <1>a, <1>i DEF NewProcess, Sole
<1>6. CASE LifeStep
  <2>1. CASE StartReconcile \/ FinishReconcile
    BY <2>1, <1>s DEF StartReconcile, FinishReconcile
  <2>2. ASSUME NEW t \in Targets, NEW a \in Agents, SweepNext(t, a) PROVE Sole'
    <3>1. /\ mode' = mode
          /\ op' = op \/ Put(Life, Start(a, "sweep", "release"))
      BY <2>2 DEF SweepNext
    <3>2. \A u \in Targets : op'[u] = op[u]
      BY <3>1, <1>a, PutControl
    <3> QED BY <3>1, <3>2 DEF Sole, RivalFree
  <2> QED BY <1>6, <2>1, <2>2 DEF LifeStep
<1>7. CASE StartShutdown \/ Exit \/ Crash
  BY <1>7, <1>5, <1>s DEF StartShutdown, Exit, Crash
<1>8. ASSUME \/ \E x \in Autos : Observe(x)
             \/ \E a \in Agents : GatesChange(a) \/ Erase(a)
      PROVE  Sole'
  BY <1>8, <1>s DEF Observe, GatesChange, Erase, TypeOK
<1> QED
  BY <1>1, <1>2, <1>3, <1>4, <1>6, <1>7, <1>8 DEF Next

-----------------------------------------------------------------------------
(* The journal *)

\* The three ways a step touches the journal record of t.
LEMMA JournalStep ==
    ASSUME HandoffAssumption, TypeOK, Shape, Sole, Next
    PROVE  \/ lease' = lease
           \/ \E t \in Targets :
                /\ mode' = mode
                /\ \A u \in Targets \ {t} : lease'[u] = lease[u]
                /\ \/ lease'[t] = None
                   \/ /\ lease[t] # None /\ lease'[t] # None
                      /\ lease'[t].owner = lease[t].owner
                   \/ /\ lease[t] = None /\ lease'[t] # None
                      /\ lease'[t].owner \in Agents
                      /\ TargetOf[lease'[t].owner] = t
                      /\ RivalFree(lease'[t].owner)
<1> USE DEF journal, config
<1> DEFINE Touched(t) ==
      /\ mode' = mode
      /\ \A u \in Targets \ {t} : lease'[u] = lease[u]
      /\ \/ lease'[t] = None
         \/ /\ lease[t] # None /\ lease'[t] # None
            /\ lease'[t].owner = lease[t].owner
         \/ /\ lease[t] = None /\ lease'[t] # None
            /\ lease'[t].owner \in Agents
            /\ TargetOf[lease'[t].owner] = t
            /\ RivalFree(lease'[t].owner)
<1>a. /\ Targets \subseteq Procs
      /\ \A p \in Procs : op[p].step # "idle" =>
            op[p] # Idle /\ op[p].agent \in Agents
      /\ \A t \in Targets : op[t].step # "idle" => TargetOf[op[t].agent] = t
  BY DEF Procs, Shape, Idle
<1>b. None \notin Leases /\ lease \in [Targets -> Leases \cup {None}]
  BY DEF TypeOK, HandoffAssumption
<1>c. ASSUME NEW t \in Targets, ClearRecord(t), mode' = mode PROVE Touched(t)
  BY <1>b, <1>c DEF ClearRecord
<1>d. ASSUME NEW t \in Targets, NEW items \in SUBSET Autos, KeepRemaining(t, items),
             mode' = mode
      PROVE  Touched(t)
  <2>1. CASE lease[t] = None
    BY <2>1, <1>b, <1>d DEF KeepRemaining
  <2>2. CASE lease[t] # None
    <3>1. [owner |-> lease[t].owner, disabled |-> items] \in Leases
      BY <2>2, <1>b DEF Leases
    <3> QED BY <2>2, <3>1, <1>b, <1>d DEF KeepRemaining
  <2> QED BY <2>1, <2>2
<1>e. \A p \in Procs : op[p].failed \in SUBSET Autos /\ op[p].held \in SUBSET Autos
  BY OpsFields DEF TypeOK
<1>1. ASSUME NEW a \in Agents, Call(a) PROVE lease' = lease
  BY <1>1 DEF Call, Enter, Submit, Leave, Disable, Enable, Suspend, Demote, Delete
<1>2. ASSUME NEW t \in Targets, AcquireStep(t) PROVE lease' = lease \/ Touched(t)
  <2>1. CASE Checkpoint(t)
    <3>1. CASE lease[t] # None /\ lease[t].owner # op[t].agent
      BY <3>1, <2>1 DEF Checkpoint
    <3>2. CASE lease[t] = None \/ lease[t].owner = op[t].agent
      <4>1. op[t].agent \in Agents /\ TargetOf[op[t].agent] = t
        BY <2>1, <1>a DEF Checkpoint
      <4>2. [owner |-> op[t].agent, disabled |-> op[t].held] \in Leases
        BY <4>1, <1>a, <1>e DEF Leases
      <4>3. RivalFree(op[t].agent)
        BY <2>1 DEF Checkpoint, Sole, Bidding, Owning, Acquiring
      <4>4. /\ lease' = [lease EXCEPT ![t] =
                           [owner |-> op[t].agent, disabled |-> op[t].held]]
            /\ mode' = mode
        BY <3>2, <2>1 DEF Checkpoint
      <4>5. lease'[t] = [owner |-> op[t].agent, disabled |-> op[t].held]
        BY <4>4, <1>b
      <4>6. \A u \in Targets \ {t} : lease'[u] = lease[u]
        BY <4>4, <1>b
      <4> QED BY <3>2, <4>1, <4>2, <4>3, <4>4, <4>5, <4>6, <1>b
    <3> QED BY <3>1, <3>2
  <2>2. CASE RollbackDone(t)
    BY <2>2, <1>a, <1>c, <1>d, <1>e DEF RollbackDone
  <2>3. ASSUME NEW x \in Autos, DisableOne(t, x) \/ DisableRaises(t, x)
        PROVE  lease' = lease
    BY <2>3 DEF DisableOne, DisableRaises
  <2>4. CASE ReadLease(t) \/ Scan(t) \/ AllDisabled(t) \/ AddToIndex(t)
               \/ Confirm(t) \/ CommitMode(t) \/ Dispatch(t)
    BY <2>4 DEF ReadLease, Scan, AllDisabled, AddToIndex, Confirm, CommitMode, Dispatch
  <2> QED BY <1>2, <2>1, <2>2, <2>3, <2>4 DEF AcquireStep
<1>3. ASSUME NEW p \in Procs, ReleaseStep(p)
      PROVE  lease' = lease \/ \E t \in Targets : Touched(t)
  <2>1. CASE Settle(p)
    <3>1. Tgt(p) \in Targets
      BY <2>1, <1>a DEF Settle, Tgt, HandoffAssumption
    <3> QED BY <3>1, <2>1, <1>c, <1>d, <1>e DEF Settle
  <2>2. ASSUME NEW x \in Autos, RestoreOne(p, x) \/ RestoreRaises(p, x)
        PROVE  lease' = lease
    BY <2>2 DEF RestoreOne, RestoreRaises
  <2>3. CASE Release(p) \/ RemoveFromIndex(p)
    BY <2>3 DEF Release, RemoveFromIndex
  <2> QED BY <1>3, <2>1, <2>2, <2>3 DEF ReleaseStep
<1>4. CASE LifeStep \/ StartShutdown \/ Exit \/ Crash
  BY <1>4 DEF LifeStep, StartReconcile, FinishReconcile, SweepNext, StartShutdown,
              Exit, Crash, NewProcess
<1>5. ASSUME \/ \E x \in Autos : Observe(x)
             \/ \E a \in Agents : GatesChange(a) \/ Erase(a)
             \/ \E r \in Requests, a \in Agents : Resume(r, a)
      PROVE  lease' = lease
  BY <1>5 DEF Observe, GatesChange, Erase, Resume
<1> QED
  BY <1>1, <1>2, <1>3, <1>4, <1>5 DEF Next

\* The steps that change who is in Control: a is the agent concerned.
ModeMoves(a) ==
    \/ RivalFree(a) /\ Engaged' = Engaged \cup {a} /\ Parked' = Parked \ {a}
    \/ Engaged' = Engaged \ {a} /\ Parked' = Parked \ {a}
    \/ a \in Engaged /\ Engaged' = Engaged \ {a} /\ Parked' = Parked \cup {a}
    \/ a \in Parked /\ Engaged' = Engaged \cup {a} /\ Parked' = Parked \ {a}

LEMMA ModeStep ==
    ASSUME HandoffAssumption, TypeOK, Shape, Sole, Next
    PROVE  \/ mode' = mode
           \/ lease' = lease /\ \E a \in Agents : ModeMoves(a)
<1> USE DEF journal, config
<1> DEFINE Moved ==
      \/ mode' = mode
      \/ lease' = lease /\ \E a \in Agents : ModeMoves(a)
<1>a. mode \in [Agents -> {"shadow", "control", "parked", "gone"}]
  BY DEF TypeOK
<1>b. ASSUME NEW a \in Agents, NEW m, mode' = [mode EXCEPT ![a] = m], lease' = lease,
             \/ m \in {"shadow", "gone"}
             \/ m = "control" /\ (RivalFree(a) \/ mode[a] = "parked")
             \/ m = "parked" /\ mode[a] = "control"
      PROVE  Moved
  <2>1. CASE m \in {"shadow", "gone"}
    <3>1. Engaged' = Engaged \ {a} /\ Parked' = Parked \ {a}
      BY <1>a, <1>b, <2>1 DEF Engaged, Parked
    <3> QED BY <1>b, <3>1 DEF ModeMoves
  <2>2. CASE m = "control" /\ (RivalFree(a) \/ mode[a] = "parked")
    <3>1. Engaged' = Engaged \cup {a} /\ Parked' = Parked \ {a}
      BY <1>a, <1>b, <2>2 DEF Engaged, Parked
    <3>2. mode[a] = "parked" => a \in Parked
      BY DEF Parked
    <3> QED BY <1>b, <2>2, <3>1, <3>2 DEF ModeMoves
  <2>3. CASE m = "parked" /\ mode[a] = "control"
    <3>1. Engaged' = Engaged \ {a} /\ Parked' = Parked \cup {a}
      BY <1>a, <1>b, <2>3 DEF Engaged, Parked
    <3>2. a \in Engaged
      BY <2>3 DEF Engaged
    <3> QED BY <1>b, <3>1, <3>2 DEF ModeMoves
  <2> QED BY <1>b, <2>1, <2>2, <2>3
<1>1. ASSUME NEW a \in Agents, Call(a) PROVE Moved
  <2>1. CASE Demote(a)
    BY <2>1, <1>b DEF Demote
  <2>2. CASE Enable(a)
    BY <2>2, <1>b DEF Enable
  <2>3. CASE ~ Demote(a) /\ ~ Enable(a)
    BY <1>1, <2>3 DEF Call, Enter, Submit, Leave, Disable, Suspend, Delete
  <2> QED BY <2>1, <2>2, <2>3
<1>2. ASSUME NEW a \in Agents, Erase(a) PROVE Moved
  BY <1>2, <1>b DEF Erase
<1>3. ASSUME NEW t \in Targets, AcquireStep(t) PROVE Moved
  <2>1. CASE CommitMode(t)
    <3>0. op[t].step = "mode" /\ lease' = lease
      BY <2>1 DEF CommitMode
    <3>1. t \in Procs /\ op[t].agent \in Agents
      BY <3>0, ProcFacts
    <3> DEFINE a == op[t].agent
               m == Committed(mode[a], op[t].goal)
    <3>2. mode' = mode \/ mode' = [mode EXCEPT ![a] = m]
      BY <2>1 DEF CommitMode
    <3>3. op[t].goal = "enter" => RivalFree(a)
      BY <3>0 DEF Sole, Bidding, Owning
    <3>4. \/ m = mode[a]
          \/ m \in {"shadow", "gone"}
          \/ m = "control" /\ RivalFree(a)
          \/ m = "parked" /\ mode[a] = "control"
      BY <3>1, <3>3, <1>a DEF Committed
    <3>5. CASE m = mode[a]
      BY <3>1, <3>2, <3>5, <1>a
    <3>6. CASE m # mode[a]
      <4> HIDE DEF m, a
      <4> QED BY <3>0, <3>1, <3>2, <3>4, <3>6, <1>b DEF a
    <3> QED BY <3>5, <3>6
  <2>2. ASSUME NEW x \in Autos, DisableOne(t, x) \/ DisableRaises(t, x) PROVE Moved
    BY <2>2 DEF DisableOne, DisableRaises
  <2>3. CASE \/ ReadLease(t) \/ Scan(t) \/ AllDisabled(t) \/ AddToIndex(t)
             \/ Checkpoint(t) \/ RollbackDone(t) \/ Confirm(t) \/ Dispatch(t)
    BY <2>3 DEF ReadLease, Scan, AllDisabled, AddToIndex, Checkpoint, RollbackDone,
                Confirm, Dispatch
  <2> QED BY <1>3, <2>1, <2>2, <2>3 DEF AcquireStep
<1>4. ASSUME NEW p \in Procs, ReleaseStep(p) PROVE Moved
  BY <1>4 DEF ReleaseStep, RestoreOne, RestoreRaises, Release, Settle, RemoveFromIndex
<1>5. CASE LifeStep \/ StartShutdown \/ Exit \/ Crash
  BY <1>5 DEF LifeStep, StartReconcile, FinishReconcile, SweepNext, StartShutdown,
              Exit, Crash, NewProcess
<1>6. ASSUME \/ \E x \in Autos : Observe(x)
             \/ \E a \in Agents : GatesChange(a)
             \/ \E r \in Requests, a \in Agents : Resume(r, a)
      PROVE  Moved
  BY <1>6 DEF Observe, GatesChange, Resume
<1> QED
  BY <1>1, <1>2, <1>3, <1>4, <1>5, <1>6 DEF Next

LEMMA RivalFreeMeans ==
    ASSUME NEW a \in Agents, RivalFree(a)
    PROVE  Custody!Rivals(a) \cap Engaged = {}
BY DEF RivalFree, Custody!Rivals, Engaged

LEMMA CustodyStep ==
    ASSUME HandoffAssumption, TypeOK, Shape, Sole, Next, TypeOK'
    PROVE  Custody!Next \/ UNCHANGED <<Custodians, Engaged, Parked>>
<1>1. CASE lease' = lease /\ mode' = mode
  BY <1>1 DEF Custodians, Engaged, Parked
<1>2. ASSUME NEW a \in Agents, lease' = lease, ModeMoves(a)
      PROVE  Custody!Next
  <2>1. Custodians' = Custodians
    BY <1>2 DEF Custodians
  <2>2. \/ Custody!Engage(a) \/ Custody!Disengage(a)
        \/ Custody!Park(a) \/ Custody!Return(a)
    BY <1>2, <2>1, RivalFreeMeans DEF ModeMoves, Custody!Engage, Custody!Disengage,
                                      Custody!Park, Custody!Return
  <2> QED BY <2>2 DEF Custody!Next
<1>3. ASSUME NEW t \in Targets, mode' = mode,
             \A u \in Targets \ {t} : lease'[u] = lease[u],
             \/ lease'[t] = None
             \/ /\ lease[t] # None /\ lease'[t] # None
                /\ lease'[t].owner = lease[t].owner
             \/ /\ lease[t] = None /\ lease'[t] # None
                /\ lease'[t].owner \in Agents /\ TargetOf[lease'[t].owner] = t
                /\ RivalFree(lease'[t].owner)
      PROVE  Custody!Next \/ UNCHANGED <<Custodians, Engaged, Parked>>
  <2>0. \A u \in Targets : lease[u] # None => lease[u].owner \in Agents
    BY DEF TypeOK, Leases
  <2>e. Engaged' = Engaged /\ Parked' = Parked
    BY <1>3 DEF Engaged, Parked
  <2>1. CASE lease[t] = None /\ lease'[t] = None
    BY <1>3, <2>1, <2>e DEF Custodians
  <2>2. CASE lease[t] # None /\ lease'[t] = None
    <3>1. Custodians[t] # None
      BY <2>0, <2>2 DEF Custodians, HandoffAssumption
    <3>2. Custodians' = [Custodians EXCEPT ![t] = None]
      <4>1. \A u \in Targets :
              (IF lease'[u] = None THEN None ELSE lease'[u].owner)
              = IF u = t THEN None
                ELSE IF lease[u] = None THEN None ELSE lease[u].owner
        BY <1>3, <2>2
      <4> QED BY <4>1 DEF Custodians
    <3>3. Custody!Drop(t)
      BY <3>1, <3>2, <2>e DEF Custody!Drop
    <3> QED BY <3>3 DEF Custody!Next
  <2>3. CASE lease[t] # None /\ lease'[t] # None
    BY <1>3, <2>3, <2>e DEF Custodians
  <2>4. CASE lease[t] = None /\ lease'[t] # None
    <3>0. /\ lease'[t].owner \in Agents /\ TargetOf[lease'[t].owner] = t
          /\ RivalFree(lease'[t].owner)
      BY <1>3, <2>4
    <3>1. Custodians[t] = None
      BY <2>4 DEF Custodians
    <3>2. Custodians' = [Custodians EXCEPT ![t] = lease'[t].owner]
      <4>1. \A u \in Targets :
              (IF lease'[u] = None THEN None ELSE lease'[u].owner)
              = IF u = t THEN lease'[t].owner
                ELSE IF lease[u] = None THEN None ELSE lease[u].owner
        BY <1>3, <2>4
      <4> QED BY <4>1 DEF Custodians
    <3>3. Custody!Take(lease'[t].owner)
      BY <3>0, <3>1, <3>2, <2>e, RivalFreeMeans DEF Custody!Take
    <3> QED BY <3>0, <3>3 DEF Custody!Next
  <2> QED BY <2>1, <2>2, <2>3, <2>4
<1>4. CASE mode' = mode
  BY <1>1, <1>3, <1>4, JournalStep
<1>5. CASE mode' # mode
  BY <1>2, <1>5, ModeStep
<1> QED
  BY <1>4, <1>5

\* While an operation bids for a target, no rival is in Control.
THEOREM NoRivalWhileBidding == Spec => [](TypeOK /\ Shape /\ Sole)
<1>1. Init => TypeOK /\ Shape /\ Sole
  <2>1. Init => Sole
    BY IdleFields DEF Init, Sole, Bidding, Owning, Acquiring, Procs, Idle
  <2> QED BY <2>1, TypeInit, HandoffAssumption
<1>2. (TypeOK /\ Shape /\ Sole) /\ [Next]_vars => (TypeOK /\ Shape /\ Sole)'
  <2>1. Sole /\ UNCHANGED vars => Sole'
    BY DEF Sole, RivalFree, vars
  <2> QED BY <2>1, TypeStep, ShapeStep, SoleStep, TypeStutter, HandoffAssumption
<1> QED
  BY <1>1, <1>2, PTL DEF Spec

\* Exclusive custody: a target is taken only while nobody has it, by an agent
\* bound to it, never passes straight to another agent, and no agent takes a
\* target or goes into Control, save one enabled again, while a rival is in
\* Control.
THEOREM ImplementsTargetCustody == Spec => ImplementsCustody
<1>1. Init => Custody!Init
  BY DEF Init, Custody!Init, Custodians, Engaged, Parked
<1>2. (TypeOK /\ Shape /\ Sole) /\ (TypeOK /\ Shape /\ Sole)' /\ [Next]_vars
        => [Custody!Next]_<<Custodians, Engaged, Parked>>
  <2>1. UNCHANGED vars => UNCHANGED <<Custodians, Engaged, Parked>>
    BY DEF vars, Custodians, Engaged, Parked
  <2> QED BY <2>1, CustodyStep, HandoffAssumption
<1> QED
  BY <1>1, <1>2, NoRivalWhileBidding, PTL DEF Spec, ImplementsCustody, Custody!Spec

=============================================================================
