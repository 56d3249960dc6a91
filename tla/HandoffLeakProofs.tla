------------------------- MODULE HandoffLeakProofs -------------------------
(***************************************************************************)
(* Proof that no automation is switched off and forgotten, except through  *)
(* the windows ControlHandoff names.  IInv is inductive: the locals of an  *)
(* operation are consistent, the journal keeps up with the calls, and      *)
(* every automation the add-on owes is held by somebody (Answered).        *)
(* Then what else that invariant gives: nothing the household had off is   *)
(* switched on (Foreign), entering Control means off (OffInv), and a       *)
(* journalled lease has somebody behind it (BackInv).                      *)
(***************************************************************************)
EXTENDS ControlHandoffProofs

-----------------------------------------------------------------------------
(* Locals *)

LEMMA LocalsFrame ==
    ASSUME Locals, NEW p \in Procs, \A q \in Procs \ {p} : op'[q] = op[q],
           LocalsOf(op'[p])
    PROVE  Locals'
BY DEF Locals

LEMMA FreshLocals ==
    /\ LocalsOf(Idle)
    /\ \A a, g, s : LocalsOf(Start(a, g, s))
BY IdleFields, StartFields DEF LocalsOf

LEMMA LocalsStep ==
    ASSUME HandoffAssumption, TypeOK, Shape, Locals, Next
    PROVE  Locals'
<1>a. op \in [Procs -> Ops] /\ Targets \subseteq Procs /\ Life \in Procs
  BY ProcFacts
<1>b. \A a \in Agents : TargetOf[a] \in Procs
  BY DEF HandoffAssumption, Procs
<1>c. ASSUME NEW p \in Procs, NEW r, LocalsOf(r), Put(p, r) PROVE Locals'
  BY <1>a, <1>c, PutControl, LocalsFrame
<1>d. ASSUME NEW p \in Procs, Stop(p) PROVE Locals'
  BY <1>c, <1>d, FreshLocals DEF Stop
<1>e. ASSUME NEW a \in Agents, NEW g, NEW s, Begin(a, g, s) PROVE Locals'
  BY <1>b, <1>c, <1>e, FreshLocals DEF Begin
<1>s. ASSUME UNCHANGED op PROVE Locals'
  BY <1>s DEF Locals
<1>1. ASSUME NEW a \in Agents, Call(a) PROVE Locals'
  BY <1>1, <1>e, <1>s DEF Call, Enter, Submit, Leave, Disable, Enable, Suspend, Demote, Delete
<1>2. ASSUME NEW r \in Requests, NEW a \in Agents, Resume(r, a) PROVE Locals'
  BY <1>2, <1>e DEF Resume
<1>3. ASSUME NEW t \in Targets, AcquireStep(t) PROVE Locals'
  <2>0. t \in Procs /\ LocalsOf(op[t])
    BY <1>a DEF Locals
  <2>r. ASSUME StartRollback(t) PROVE Locals'
    <3>1. LocalsOf(op'[t])
      BY <2>r, <2>0, <1>a, RollbackControl DEF LocalsOf
    <3> QED BY <3>1, <2>r, <2>0, <1>a, RollbackControl, LocalsFrame
  <2>g. ASSUME NEW s, Goto(t, s), op[t].failed = {},
               op[t].held = {} \/ s \notin {"read", "scan", "release", "restore", "idle"},
               s # "rollback"
        PROVE  Locals'
    <3>1. LocalsOf(op'[t])
      BY <2>g, <2>0, <1>a, GotoControl DEF LocalsOf
    <3> QED BY <3>1, <2>g, <2>0, <1>a, GotoControl, LocalsFrame
  <2>1. ASSUME NEW x \in Autos, DisableOne(t, x) PROVE Locals'
    <3>1. Move(t, "journal", op[t].todo \ {x}, op[t].held \cup {x}, {})
      BY <2>1 DEF DisableOne
    <3>2. LocalsOf(op'[t])
      BY <3>1, <2>0, <1>a, MoveControl DEF LocalsOf
    <3> QED BY <3>1, <3>2, <2>0, <1>a, MoveControl, LocalsFrame
  <2>2. ASSUME NEW x \in Autos, DisableRaises(t, x) PROVE Locals'
    BY <2>2, <2>r DEF DisableRaises
  <2>3. CASE ReadLease(t)
    BY <2>3, <2>0, <2>g, <1>d DEF ReadLease, LocalsOf
  <2>4. CASE Scan(t)
    <3>1. ASSUME NEW todo, Move(t, "disable", todo, {}, {}) PROVE Locals'
      <4>1. LocalsOf(op'[t])
        BY <3>1, <2>0, <1>a, MoveControl DEF LocalsOf
      <4> QED BY <3>1, <4>1, <2>0, <1>a, MoveControl, LocalsFrame
    <3> QED BY <3>1, <2>4, <2>0, <1>d DEF Scan
  <2>5. CASE AllDisabled(t)
    BY <2>5, <2>0, <2>g DEF AllDisabled, LocalsOf
  <2>6. CASE Checkpoint(t)
    BY <2>6, <2>0, <2>g, <2>r DEF Checkpoint, LocalsOf
  <2>7. CASE AddToIndex(t)
    BY <2>7, <2>0, <2>g, <1>d DEF AddToIndex, LocalsOf
  <2>8. CASE Confirm(t)
    BY <2>8, <2>0, <2>g, <2>r DEF Confirm, LocalsOf
  <2>9. CASE RollbackDone(t)
    BY <2>9, <2>0, <2>g, <1>d DEF RollbackDone, LocalsOf
  <2>10. CASE CommitMode(t)
    BY <2>10, <2>0, <1>c, <1>d, FreshLocals DEF CommitMode
  <2>11. CASE Dispatch(t)
    BY <2>11, <2>0, <1>d DEF Dispatch
  <2> QED BY <1>3, <2>1, <2>2, <2>3, <2>4, <2>5, <2>6, <2>7, <2>8, <2>9, <2>10, <2>11 DEF AcquireStep
<1>4. ASSUME NEW p \in Procs, ReleaseStep(p) PROVE Locals'
  <2>0. LocalsOf(op[p])
    BY DEF Locals
  <2>a. ASSUME AfterRelease(p) PROVE Locals'
    BY <2>a, <1>a, AfterReleaseControl, FreshLocals, LocalsFrame
  <2>1. ASSUME NEW x \in Autos, RestoreOne(p, x) PROVE Locals'
    <3>1. Move(p, op[p].step, op[p].todo \ {x}, op[p].held, op[p].failed)
      BY <2>1 DEF RestoreOne
    <3>2. LocalsOf(op'[p])
      BY <3>1, <2>0, <1>a, MoveControl DEF LocalsOf
    <3> QED BY <3>1, <3>2, <1>a, MoveControl, LocalsFrame
  <2>2. ASSUME NEW x \in Autos, RestoreRaises(p, x) PROVE Locals'
    <3>1. /\ Move(p, op[p].step, op[p].todo \ {x}, op[p].held, op[p].failed \cup {x})
          /\ op[p].step \in {"rollback", "restore"} /\ x \in op[p].todo
      BY <2>2 DEF RestoreRaises
    <3>2. LocalsOf(op'[p])
      BY <3>1, <2>0, <1>a, MoveControl DEF LocalsOf
    <3> QED BY <3>1, <3>2, <1>a, MoveControl, LocalsFrame
  <2>3. CASE Release(p)
    <3>1. ASSUME NEW todo, Move(p, "restore", todo, {}, {}) PROVE Locals'
      <4>1. LocalsOf(op'[p])
        BY <3>1, <1>a, MoveControl DEF LocalsOf
      <4> QED BY <3>1, <4>1, <1>a, MoveControl, LocalsFrame
    <3> QED BY <3>1, <2>3, <2>a, <1>d DEF Release
  <2>4. CASE Settle(p)
    <3>1. CASE Goto(p, "unindex") /\ op[p].failed = {}
      <4>1. LocalsOf(op'[p])
        BY <3>1, <1>a, GotoControl DEF LocalsOf
      <4> QED BY <3>1, <4>1, <1>a, GotoControl, LocalsFrame
    <3> QED BY <3>1, <2>4, <1>d DEF Settle
  <2>5. CASE RemoveFromIndex(p)
    BY <2>5, <2>a, <1>d DEF RemoveFromIndex
  <2> QED BY <1>4, <2>1, <2>2, <2>3, <2>4, <2>5 DEF ReleaseStep
<1>5. ASSUME NewProcess PROVE Locals'
  BY <1>5, FreshLocals DEF NewProcess, Locals
<1>6. CASE LifeStep
  BY <1>6, <1>a, <1>c, <1>s, FreshLocals
     DEF LifeStep, StartReconcile, FinishReconcile, SweepNext
<1>7. CASE StartShutdown \/ Exit \/ Crash
  BY <1>7, <1>5, <1>s DEF StartShutdown, Exit, Crash
<1>8. ASSUME \/ \E x \in Autos : Observe(x)
             \/ \E a \in Agents : GatesChange(a) \/ Erase(a)
      PROVE  Locals'
  BY <1>8, <1>s DEF Observe, GatesChange, Erase
<1> QED
  BY <1>1, <1>2, <1>3, <1>4, <1>6, <1>7, <1>8 DEF Next

-----------------------------------------------------------------------------
(* JournalKeepsUp *)

\* One operation at a time per target, outside the shutdown sweep.
LEMMA Exclusive ==
    ASSUME HandoffAssumption, TypeOK, Shape, phase # "stopping",
           NEW p \in Procs, NEW q \in Procs, op[p] # Idle, op[q] # Idle,
           Tgt(p) = Tgt(q)
    PROVE  p = q
<1>1. CASE p \in Targets /\ q \in Targets
  BY <1>1 DEF Shape, Tgt
<1>2. CASE p = Life /\ q = Life
  BY <1>2
<1>3. CASE Life \in {p, q} /\ (p \in Targets \/ q \in Targets)
  <2>1. phase \notin {"boot", "ready"}
    BY <1>3 DEF Shape
  <2>2. phase = "reconcile"
    BY <2>1 DEF TypeOK
  <2> QED BY <1>3, <2>2 DEF Shape
<1> QED
  BY <1>1, <1>2, <1>3 DEF Procs

\* A step of p that changes at most the record of its own target.
LEMMA RelyFrame ==
    ASSUME HandoffAssumption, TypeOK, Shape, JournalKeepsUp,
           NEW p \in Procs, op[p] # Idle,
           \A q \in Procs \ {p} : op'[q] = op[q],
           \A u \in Targets \ {Tgt(p)} : lease'[u] = lease[u],
           phase' = phase,
           phase # "stopping" /\ op'[p] # Idle =>
                 /\ op'[p].agent = op[p].agent
                 /\ RelyOf(op'[p], lease'[Tgt(p)])
    PROVE  JournalKeepsUp'
<1> SUFFICES ASSUME phase # "stopping", NEW q \in Procs, op'[q] # Idle
             PROVE  RelyOf(op'[q], lease'[TargetOf[op'[q].agent]])
  BY DEF JournalKeepsUp, Tgt
<1>1. CASE q = p
  BY <1>1 DEF Tgt
<1>2. CASE q # p
  <2>1. op'[q] = op[q]
    BY <1>2
  <2>2. Tgt(q) # Tgt(p)
    BY <1>2, <2>1, Exclusive
  <2>3. Tgt(q) \in Targets
    BY <2>1 DEF Shape, Tgt, HandoffAssumption
  <2>4. RelyOf(op[q], lease[Tgt(q)])
    BY <2>1 DEF JournalKeepsUp
  <2> QED BY <2>1, <2>2, <2>3, <2>4 DEF Tgt
<1> QED
  BY <1>1, <1>2

LEMMA RelyStep ==
    ASSUME HandoffAssumption, TypeOK, Shape, Locals, JournalKeepsUp, Next
    PROVE  JournalKeepsUp'
<1> USE DEF world, journal, config, lifecycle
<1>a. op \in [Procs -> Ops] /\ Targets \subseteq Procs /\ Life \in Procs
  BY ProcFacts
<1>b. \A a \in Agents : TargetOf[a] \in Procs
  BY DEF HandoffAssumption, Procs
<1>i. lease \in [Targets -> Leases \cup {None}] /\ None \notin Leases
  BY DEF TypeOK, HandoffAssumption
\* A worker or Life starts an operation that relies on nothing yet.
<1>e. ASSUME NEW p \in Procs, NEW a, NEW g, NEW s,
             s \in {"read", "release"} \/ (s = "mode" /\ g # "enter"),
             Put(p, Start(a, g, s)), lease' = lease, phase' = phase
      PROVE  JournalKeepsUp'
  <2>1. /\ op'[p] = Start(a, g, s) /\ op'[p].step = s
        /\ \A q \in Procs \ {p} : op'[q] = op[q]
    BY <1>a, <1>e, PutControl, StartFields
  <2>2. \A record : RelyOf(op'[p], record)
    BY <1>e, <2>1, StartFields DEF RelyOf, Owning, Acquiring
  <2> QED BY <1>e, <2>1, <2>2 DEF JournalKeepsUp, Tgt
<1>s. ASSUME op' = op, lease' = lease, phase' = phase PROVE JournalKeepsUp'
  BY <1>s DEF JournalKeepsUp, Tgt
<1>1. ASSUME NEW a \in Agents, Call(a) PROVE JournalKeepsUp'
  <2>1. ASSUME NEW g, NEW s \in {"read", "release"}, Begin(a, g, s),
               lease' = lease, phase' = phase
        PROVE  JournalKeepsUp'
    BY <2>1, <1>b, <1>e DEF Begin, Acquiring
  <2> QED
    BY <1>1, <2>1, <1>s DEF Call, Enter, Submit, Leave, Disable, Enable, Suspend, Demote, Delete
<1>2. ASSUME NEW r \in Requests, NEW a \in Agents, Resume(r, a) PROVE JournalKeepsUp'
  BY <1>2, <1>b, <1>e DEF Resume, Begin, Acquiring
<1>3. ASSUME NEW t \in Targets, AcquireStep(t) PROVE JournalKeepsUp'
  <2>0. t \in Procs /\ LocalsOf(op[t])
    BY <1>a DEF Locals
  <2>z. op[t].step # "idle" => op[t] # Idle /\ Tgt(t) = t
    BY <1>a, ProcFacts
  <2>y. phase # "stopping" /\ op[t].step # "idle" => RelyOf(op[t], lease[t])
    BY <2>0, <2>z DEF JournalKeepsUp
  <2>f. ASSUME op[t].step # "idle", phase' = phase,
               \A q \in Procs \ {t} : op'[q] = op[q],
               \A u \in Targets \ {t} : lease'[u] = lease[u],
               phase # "stopping" /\ op'[t] # Idle =>
                 /\ op'[t].agent = op[t].agent
                 /\ RelyOf(op'[t], lease'[t])
        PROVE  JournalKeepsUp'
    BY <2>0, <2>f, <2>z, RelyFrame
  <2>d. ASSUME Stop(t), op[t].step # "idle", phase' = phase,
               \A u \in Targets \ {t} : lease'[u] = lease[u]
        PROVE  JournalKeepsUp'
    BY <2>0, <2>d, <2>f, <1>a, PutControl DEF Stop
  <2>r. ASSUME StartRollback(t), op[t].step \in {"disable", "journal", "commit", "confirm"},
               phase' = phase, lease' = lease,
               op[t].step = "journal" =>
                  \/ phase = "stopping"
                   \/ (lease[t] # None /\ lease[t].owner # op[t].agent)
        PROVE  JournalKeepsUp'
    <3>1. ASSUME phase # "stopping" PROVE RelyOf(op'[t], lease'[t])
      BY <3>1, <2>r, <2>0, <2>y, <1>a, RollbackControl DEF RelyOf, Owning, Acquiring
    <3> QED BY <3>1, <2>r, <2>0, <2>f, <1>a, RollbackControl
  <2>1. ASSUME NEW x \in Autos, DisableOne(t, x) PROVE JournalKeepsUp'
    <3>1. Move(t, "journal", op[t].todo \ {x}, op[t].held \cup {x}, {})
      BY <2>1 DEF DisableOne
    <3>2. op[t].step = "disable" /\ lease' = lease /\ phase' = phase
      BY <2>1 DEF DisableOne
    <3>3. ASSUME phase # "stopping" PROVE RelyOf(op'[t], lease'[t])
      BY <3>1, <3>2, <3>3, <2>0, <2>y, <1>a, MoveControl DEF RelyOf, Owning, Acquiring
    <3> QED BY <3>1, <3>2, <3>3, <2>0, <2>f, <1>a, MoveControl
  <2>2. ASSUME NEW x \in Autos, DisableRaises(t, x) PROVE JournalKeepsUp'
    BY <2>2, <2>r DEF DisableRaises
  <2>g. ASSUME NEW s, Goto(t, s), op[t].step # "idle", lease' = lease, phase' = phase,
               phase # "stopping" =>
                  \/ /\ s \in {"granted", "mode", "release"}
                     /\ lease[t] # None /\ lease[t].owner = op[t].agent
                  \/ op[t].step \in Acquiring \ {"journal"} /\ s \in Acquiring
                  \/ s = "scan" /\ op[t].held = {} /\ lease[t] = None
                  \/ s = "disable" /\ op[t].step = "index"
        PROVE  JournalKeepsUp'
    <3>1. ASSUME phase # "stopping" PROVE RelyOf(op'[t], lease'[t])
      BY <3>1, <2>g, <2>0, <2>y, <1>a, GotoControl DEF RelyOf, Owning, Acquiring
    <3> QED BY <3>1, <2>g, <2>0, <2>f, <1>a, GotoControl
  <2>3. CASE ReadLease(t)
    BY <2>3, <2>0, <2>g, <2>d DEF ReadLease, LocalsOf, Acquiring
  <2>4. CASE Scan(t)
    <3>1. ASSUME NEW todo, Move(t, "disable", todo, {}, {}) PROVE JournalKeepsUp'
      <4>1. op[t].step = "scan" /\ lease' = lease /\ phase' = phase
        BY <2>4 DEF Scan
      <4>2. ASSUME phase # "stopping" PROVE RelyOf(op'[t], lease'[t])
        BY <3>1, <4>1, <4>2, <2>0, <2>y, <1>a, MoveControl DEF RelyOf, Owning, Acquiring, LocalsOf
      <4> QED BY <3>1, <4>1, <4>2, <2>0, <2>f, <1>a, MoveControl
    <3> QED BY <3>1, <2>4, <2>0, <2>d DEF Scan
  <2>5. CASE AllDisabled(t)
    BY <2>5, <2>0, <2>g DEF AllDisabled, Acquiring
  <2>6. CASE Checkpoint(t)
    <3>1. CASE lease[t] # None /\ lease[t].owner # op[t].agent
      BY <3>1, <2>6, <2>r DEF Checkpoint
    <3>2. CASE lease[t] = None \/ lease[t].owner = op[t].agent
      <4>1. /\ op[t].step \in {"journal", "commit"} /\ phase' = phase
            /\ lease' = [lease EXCEPT ![t] =
                           [owner |-> op[t].agent, disabled |-> op[t].held]]
            /\ Goto(t, IF op[t].step = "journal" THEN "index" ELSE "publish")
        BY <3>2, <2>6 DEF Checkpoint
      <4>2. /\ lease'[t] = [owner |-> op[t].agent, disabled |-> op[t].held]
            /\ \A u \in Targets \ {t} : lease'[u] = lease[u]
        BY <4>1, <1>i
      <4>3. [owner |-> op[t].agent, disabled |-> op[t].held] # None
        <5>1. op[t].agent \in Agents /\ op[t].held \in SUBSET Autos
          BY <4>1, <2>0, <1>a, ProcFacts, OpsFields
        <5> QED BY <5>1, <1>i DEF Leases
      <4>4. RelyOf(op'[t], lease'[t])
        BY <4>1, <4>2, <4>3, <2>0, <1>a, GotoControl DEF RelyOf, Owning, Acquiring
      <4> QED BY <4>1, <4>2, <4>4, <2>0, <2>f, <1>a, GotoControl
    <3> QED BY <3>1, <3>2
  <2>7. CASE AddToIndex(t)
    <3>1. op[t].step \in {"index", "publish"} /\ lease' = lease /\ phase' = phase
      BY <2>7 DEF AddToIndex
    <3>2. op[t].step = "publish" /\ phase # "stopping" =>
            lease[t] # None /\ lease[t].owner = op[t].agent
      BY <2>y DEF RelyOf, Owning
    <3>3. CASE Stop(t)
      BY <3>1, <3>3, <2>d
    <3>4. CASE ~ Stop(t)
      <4>1. \/ op[t].step = "index" /\ Goto(t, "disable")
            \/ op[t].step = "publish" /\ (Goto(t, "mode") \/ Goto(t, "granted"))
        BY <2>7, <3>4 DEF AddToIndex
      <4> QED BY <3>1, <3>2, <4>1, <2>g
    <3> QED BY <3>3, <3>4
  <2>8. CASE Confirm(t)
    BY <2>8, <2>0, <2>g, <2>r DEF Confirm, Acquiring
  <2>9. CASE RollbackDone(t)
    <3>1. CASE op[t].failed = {}
      <4>1. /\ op[t].step = "rollback" /\ phase' = phase /\ Goto(t, "unwind")
            /\ lease' = [lease EXCEPT ![t] = None]
        BY <3>1, <2>9 DEF RollbackDone, ClearRecord
      <4>2. lease'[t] = None /\ \A u \in Targets \ {t} : lease'[u] = lease[u]
        BY <4>1, <1>i
      <4>3. RelyOf(op'[t], lease'[t])
        BY <4>1, <4>2, <2>0, <1>a, GotoControl DEF RelyOf, Owning, Acquiring
      <4> QED BY <4>1, <4>2, <4>3, <2>0, <2>f, <1>a, GotoControl
    <3>2. CASE op[t].failed # {}
      <4>1. /\ op[t].step = "rollback" /\ phase' = phase /\ Stop(t)
            /\ \A u \in Targets \ {t} : lease'[u] = lease[u]
        BY <3>2, <2>9, <1>i DEF RollbackDone, KeepRemaining
      <4> QED BY <4>1, <2>d
    <3> QED BY <3>1, <3>2
  <2>10. CASE CommitMode(t)
    <3>1. op[t].step = "mode" /\ phase' = phase /\ lease' = lease
      BY <2>10 DEF CommitMode
    <3>2. CASE Stop(t) \/ Put(t, Idle)
      BY <3>1, <3>2, <2>d DEF Stop
    <3>3. CASE Put(t, Start(op[t].agent, "suspend", "release"))
      BY <3>1, <3>3, <2>0, <1>e DEF Acquiring
    <3> QED BY <3>2, <3>3, <2>10 DEF CommitMode
  <2>11. CASE Dispatch(t)
    BY <2>11, <2>0, <2>d DEF Dispatch
  <2> QED BY <1>3, <2>1, <2>2, <2>3, <2>4, <2>5, <2>6, <2>7, <2>8, <2>9, <2>10, <2>11 DEF AcquireStep
<1>4. ASSUME NEW p \in Procs, ReleaseStep(p) PROVE JournalKeepsUp'
  <2>z. op[p].step # "idle" => op[p] # Idle /\ Tgt(p) \in Targets
    BY ProcFacts
  <2>y. phase # "stopping" /\ op[p].step # "idle" => RelyOf(op[p], lease[Tgt(p)])
    BY <2>z DEF JournalKeepsUp
  <2>f. ASSUME op[p].step # "idle", phase' = phase,
               \A q \in Procs \ {p} : op'[q] = op[q],
               \A u \in Targets \ {Tgt(p)} : lease'[u] = lease[u],
               phase # "stopping" /\ op'[p] # Idle =>
                 /\ op'[p].agent = op[p].agent
                 /\ RelyOf(op'[p], lease'[Tgt(p)])
        PROVE  JournalKeepsUp'
    BY <2>f, <2>z, RelyFrame
  <2>d. ASSUME Stop(p), op[p].step # "idle", phase' = phase,
               \A u \in Targets \ {Tgt(p)} : lease'[u] = lease[u]
        PROVE  JournalKeepsUp'
    BY <2>d, <2>f, <1>a, PutControl DEF Stop
  <2>a. ASSUME AfterRelease(p), op[p].step # "idle", phase' = phase, lease' = lease,
               phase # "stopping" => lease[Tgt(p)] = None
        PROVE  JournalKeepsUp'
    <3>1. CASE Put(p, Idle)
      BY <3>1, <2>a, <2>d DEF Stop
    <3>2. CASE Put(p, Start(op[p].agent, op[p].goal, "scan"))
      <4>1. /\ op'[p] = Start(op[p].agent, op[p].goal, "scan")
            /\ \A q \in Procs \ {p} : op'[q] = op[q]
        BY <3>2, <1>a, PutControl
      <4>2. ASSUME phase # "stopping" PROVE RelyOf(op'[p], lease'[Tgt(p)])
        BY <4>1, <4>2, <2>a, StartFields DEF RelyOf, Owning, Acquiring
      <4> QED BY <4>1, <4>2, <2>a, <2>f, StartFields
    <3>3. CASE op[p].goal # "enter" /\ Put(p, Start(op[p].agent, op[p].goal, "mode"))
      BY <3>3, <2>a, <1>e
    <3> QED BY <3>1, <3>2, <3>3, <2>a DEF AfterRelease
  <2>m. ASSUME NEW x, NEW failed, failed \subseteq op[p].failed \cup {x},
               op[p].step \in {"rollback", "restore"}, x \in op[p].todo,
               Move(p, op[p].step, op[p].todo \ {x}, op[p].held, failed),
               phase' = phase, lease' = lease
        PROVE  JournalKeepsUp'
    <3>1. ASSUME phase # "stopping" PROVE RelyOf(op'[p], lease'[Tgt(p)])
      BY <3>1, <2>m, <2>y, <1>a, MoveControl DEF RelyOf, Owning, Acquiring
    <3> QED BY <3>1, <2>m, <2>f, <1>a, MoveControl
  <2>1. ASSUME NEW x \in Autos, RestoreOne(p, x) PROVE JournalKeepsUp'
    BY <2>1, <2>m DEF RestoreOne
  <2>2. ASSUME NEW x \in Autos, RestoreRaises(p, x) PROVE JournalKeepsUp'
    BY <2>2, <2>m DEF RestoreRaises
  <2>3. CASE Release(p)
    <3>0. op[p].step = "release" /\ phase' = phase /\ lease' = lease
      BY <2>3 DEF Release
    <3>1. CASE lease[Tgt(p)] = None
      BY <3>0, <3>1, <2>3, <2>a DEF Release
    <3>2. CASE lease[Tgt(p)] # None /\ lease[Tgt(p)].owner # op[p].agent
      BY <3>0, <3>2, <2>3, <2>d DEF Release
    <3>3. CASE lease[Tgt(p)] # None /\ lease[Tgt(p)].owner = op[p].agent
      <4>1. Move(p, "restore", {x \in lease[Tgt(p)].disabled : seen[x] # "on"}, {}, {})
        BY <3>3, <2>3 DEF Release
      <4>2. RelyOf(op'[p], lease'[Tgt(p)])
        BY <4>1, <3>0, <3>3, <1>a, MoveControl DEF RelyOf, Owning, Acquiring
      <4> QED BY <4>1, <4>2, <3>0, <2>f, <1>a, MoveControl
    <3> QED BY <3>1, <3>2, <3>3
  <2>4. CASE Settle(p)
    <3>0. op[p].step = "restore" /\ phase' = phase
      BY <2>4 DEF Settle
    <3>1. CASE op[p].failed = {}
      <4>1. Goto(p, "unindex") /\ lease' = [lease EXCEPT ![Tgt(p)] = None]
        BY <3>1, <2>4 DEF Settle, ClearRecord
      <4>2. /\ lease'[Tgt(p)] = None
            /\ \A u \in Targets \ {Tgt(p)} : lease'[u] = lease[u]
        BY <4>1, <3>0, <2>z, <1>i
      <4>3. RelyOf(op'[p], lease'[Tgt(p)])
        BY <4>1, <4>2, <1>a, GotoControl DEF RelyOf, Owning, Acquiring
      <4> QED BY <3>0, <4>1, <4>2, <4>3, <2>f, <1>a, GotoControl
    <3>2. CASE op[p].failed # {}
      <4>1. Stop(p) /\ \A u \in Targets \ {Tgt(p)} : lease'[u] = lease[u]
        BY <3>2, <2>4, <1>i DEF Settle, KeepRemaining
      <4> QED BY <3>0, <4>1, <2>d
    <3> QED BY <3>1, <3>2
  <2>5. CASE RemoveFromIndex(p)
    <3>0. op[p].step \in {"unindex", "unwind"} /\ phase' = phase /\ lease' = lease
      BY <2>5 DEF RemoveFromIndex
    <3>1. phase # "stopping" => lease[Tgt(p)] = None
      BY <3>0, <2>y DEF RelyOf
    <3> QED BY <3>0, <3>1, <2>5, <2>a, <2>d DEF RemoveFromIndex
  <2> QED BY <1>4, <2>1, <2>2, <2>3, <2>4, <2>5 DEF ReleaseStep
<1>5. ASSUME NewProcess PROVE JournalKeepsUp'
  BY <1>5 DEF NewProcess, JournalKeepsUp
<1>6. CASE LifeStep
  <2>1. CASE StartReconcile \/ FinishReconcile
    <3>1. op' = op /\ lease' = lease /\ phase # "stopping"
      BY <2>1 DEF StartReconcile, FinishReconcile
    <3> QED BY <3>1 DEF JournalKeepsUp, Tgt
  <2>2. ASSUME NEW t \in Targets, NEW a \in Agents, SweepNext(t, a)
        PROVE  JournalKeepsUp'
    BY <2>2, <1>a, <1>e, <1>s DEF SweepNext, Acquiring
  <2> QED BY <1>6, <2>1, <2>2 DEF LifeStep
<1>7. CASE StartShutdown \/ Exit \/ Crash
  BY <1>7, <1>5 DEF StartShutdown, Exit, Crash, JournalKeepsUp
<1>8. ASSUME \/ \E x \in Autos : Observe(x)
             \/ \E a \in Agents : GatesChange(a) \/ Erase(a)
      PROVE  JournalKeepsUp'
  BY <1>8, <1>s DEF Observe, GatesChange, Erase
<1> QED
  BY <1>1, <1>2, <1>3, <1>4, <1>6, <1>7, <1>8 DEF Next

-----------------------------------------------------------------------------
(* Answered *)

Alone(p, t) == \A q \in Procs \ {p} : op[q] # Idle => Tgt(q) # t

\* p is the one process that may be busy on t: what is held on behalf of t.
Kept(p, t) ==
    IF phase # "stopping" /\ op[p].step \in {"rollback", "restore"}
    THEN op[p].todo \cup op[p].failed
    ELSE InFlight(t) \cup Disabled(t)

Busy(p, t) ==
    /\ p = t \/ p = Life
    /\ op[p] # Idle => Tgt(p) = t
    /\ phase # "stopping" => Alone(p, t)

LEMMA HoldForm ==
    HandoffAssumption /\ TypeOK /\ Shape
    => \A p \in Procs, t \in Targets : Busy(p, t) => Hold(t) = Kept(p, t)
<1> SUFFICES ASSUME HandoffAssumption, TypeOK, Shape,
                    NEW p \in Procs, NEW t \in Targets, Busy(p, t)
             PROVE  Hold(t) = Kept(p, t)
  OBVIOUS
<1>a. /\ op \in [Procs -> Ops] /\ t \in Procs
      /\ \A q \in Procs : op[q].step # "idle" => op[q] # Idle
      /\ op[t].step # "idle" => Tgt(t) = t
  BY ProcFacts
<1>n. ASSUME \A q \in Procs : ~ (Restoring(q) /\ Tgt(q) = t)
      PROVE  BeingRestored(t) = {}
  BY <1>n DEF BeingRestored
<1>1. CASE phase = "stopping"
  <2>1. BeingRestored(t) = {} /\ ~ Settling(t)
    BY <1>1, <1>n DEF Restoring, Settling
  <2> QED BY <1>1, <2>1 DEF Hold, Kept
<1>2. CASE phase # "stopping" /\ op[p].step = "rollback"
  <2>1. p = t
    BY <1>2, <1>a DEF Busy, Shape
  <2>2. BeingRestored(t) = {} /\ Settling(t)
    BY <1>2, <1>a, <1>n, <2>1 DEF Restoring, Busy, Alone, Settling
  <2>3. InFlight(t) = op[t].todo \cup op[t].failed
    BY <1>2, <2>1 DEF InFlight
  <2> QED BY <1>2, <2>1, <2>2, <2>3 DEF Hold, Kept
<1>3. CASE phase # "stopping" /\ op[p].step = "restore"
  <2>1. Restoring(p) /\ Tgt(p) = t
    BY <1>3, <1>a DEF Restoring, Busy
  <2>2. {q \in Procs : Restoring(q) /\ Tgt(q) = t} = {p}
    BY <1>3, <1>a, <2>1 DEF Restoring, Busy, Alone
  <2>3. InFlight(t) = {}
    <3>1. op[t].step \in {"restore", "idle"}
      BY <1>3, <1>a DEF Busy, Alone
    <3> QED BY <3>1 DEF InFlight
  <2>4. BeingRestored(t) = op[p].todo \cup op[p].failed /\ Settling(t)
    BY <1>3, <2>1, <2>2 DEF BeingRestored, Settling
  <2> QED BY <1>3, <2>3, <2>4 DEF Hold, Kept
<1>4. CASE phase # "stopping" /\ op[p].step \notin {"rollback", "restore"}
  <2>1. \A q \in Procs : ~ (Restoring(q) /\ Tgt(q) = t)
    BY <1>4, <1>a DEF Restoring, Busy, Alone
  <2>2. op[t].step # "rollback"
    BY <1>4, <1>a DEF Busy, Alone
  <2>3. BeingRestored(t) = {} /\ ~ Settling(t)
    BY <1>n, <2>1, <2>2 DEF Settling
  <2> QED BY <1>4, <2>3 DEF Hold, Kept
<1> QED
  BY <1>1, <1>2, <1>3, <1>4

LEMMA HoldFormNext ==
    HandoffAssumption /\ TypeOK' /\ Shape'
    => \A p \in Procs, t \in Targets : Busy(p, t)' => Hold(t)' = Kept(p, t)'
<1>1. (HandoffAssumption /\ TypeOK /\ Shape
       => \A p \in Procs, t \in Targets : Busy(p, t) => Hold(t) = Kept(p, t))'
  BY HoldForm, PTL
<1> QED
  BY <1>1 DEF HandoffAssumption

LEMMA BusyStep ==
    ASSUME HandoffAssumption, TypeOK, Shape, NEW p \in Procs, NEW t \in Targets,
           op[p] # Idle, Tgt(p) = t,
           \A q \in Procs \ {p} : op'[q] = op[q], phase' = phase,
           op'[p] # Idle => op'[p].agent = op[p].agent
    PROVE  Busy(p, t) /\ Busy(p, t)'
<1>1. p = t \/ p = Life
  BY DEF Procs, Shape, Tgt
<1>2. phase # "stopping" => Alone(p, t)
  BY Exclusive DEF Alone
<1>3. (phase # "stopping" => Alone(p, t))'
  BY <1>2 DEF Alone, Tgt
<1> QED
  BY <1>1, <1>2, <1>3 DEF Busy, Tgt

LEMMA HoldOther ==
    ASSUME HandoffAssumption, TypeOK, Shape, NEW p \in Procs, NEW t \in Targets,
           op[p] # Idle, Tgt(p) = t,
           \A q \in Procs \ {p} : op'[q] = op[q], phase' = phase,
           op'[p] # Idle => op'[p].agent = op[p].agent,
           NEW u \in Targets \ {t}, lease'[u] = lease[u]
    PROVE  Hold(u)' = Hold(u)
<1>1. u # p /\ u \in Procs
  BY DEF Procs, Shape, Tgt, HandoffAssumption
<1>2. InFlight(u)' = InFlight(u) /\ Disabled(u)' = Disabled(u)
  BY <1>1 DEF InFlight, Disabled
<1>3. ASSUME NEW q \in Procs
      PROVE  Restoring(q)' /\ Tgt(q)' = u <=> Restoring(q) /\ Tgt(q) = u
  BY IdleFields DEF Restoring, Tgt
<1>4. \A q \in Procs : Restoring(q) /\ Tgt(q) = u => op'[q] = op[q]
  OBVIOUS
<1>5. BeingRestored(u)' = BeingRestored(u)
  BY <1>3, <1>4 DEF BeingRestored
<1>6. Settling(u)' <=> Settling(u)
  BY <1>1, <1>3 DEF Settling
<1> QED
  BY <1>2, <1>5, <1>6 DEF Hold

\* What a step of p on t has to show: what t no longer holds is not owed, or lost.
LEMMA AnsweredFrame ==
    ASSUME HandoffAssumption, TypeOK, Shape, TypeOK', Shape', Answered,
           NEW p \in Procs, NEW t \in Targets, op[p] # Idle, Tgt(p) = t,
           \A q \in Procs \ {p} : op'[q] = op[q], phase' = phase,
           op'[p] # Idle => op'[p].agent = op[p].agent,
           \A u \in Targets \ {t} : lease'[u] = lease[u],
           leaked \subseteq leaked',
           \A x \in owed' : ha'[x] = "off",
           owed' \subseteq leaked' \cup Kept(p, t)' \cup (owed \ Kept(p, t))
    PROVE  Answered'
<1>1. Hold(t) = Kept(p, t)
  BY BusyStep, HoldForm
<1>2. Hold(t)' = Kept(p, t)'
  BY BusyStep, HoldFormNext
<1>3. \A u \in Targets \ {t} : Hold(u)' = Hold(u)
  BY HoldOther
<1>4. ASSUME NEW x \in owed'
      PROVE  x \in leaked' \/ \E u \in Targets : x \in Hold(u)'
  <2>1. CASE x \in owed /\ x \notin Kept(p, t)
    <3>1. x \in leaked \/ \E u \in Targets \ {t} : x \in Hold(u)
      BY <2>1, <1>1 DEF Answered
    <3> QED BY <3>1, <1>3
  <2>2. CASE x \in leaked' \cup Kept(p, t)'
    BY <2>2, <1>2
  <2> QED BY <2>1, <2>2
<1> QED
  BY <1>4 DEF Answered

LEMMA OffStep ==
    ASSUME TypeOK, Answered, NEW x \in Autos, SwitchOff(x)
    PROVE  owed' \subseteq owed \cup {x} /\ \A y \in owed' : ha'[y] = "off"
BY DEF TypeOK, Answered, SwitchOff

LEMMA OnStep ==
    ASSUME TypeOK, Answered, NEW x \in Autos, SwitchOn(x)
    PROVE  owed' = owed \ {x} /\ \A y \in owed' : ha'[y] = "off"
BY DEF TypeOK, Answered, SwitchOn

\* What a step changes of the journal record of t.
LEMMA RecordStep ==
    ASSUME HandoffAssumption, TypeOK, NEW t \in Targets, NEW items \in SUBSET Autos
    PROVE  /\ ClearRecord(t) =>
                /\ Disabled(t)' = {}
                /\ \A u \in Targets \ {t} : lease'[u] = lease[u]
           /\ KeepRemaining(t, items) =>
                /\ Disabled(t)' = IF lease[t] = None THEN {} ELSE items
                /\ \A u \in Targets \ {t} : lease'[u] = lease[u]
<1>1. lease \in [Targets -> Leases \cup {None}] /\ None \notin Leases
  BY DEF TypeOK, HandoffAssumption
<1>2. lease[t] # None => [owner |-> lease[t].owner, disabled |-> items] # None
  <2>1. lease[t] # None => [owner |-> lease[t].owner, disabled |-> items] \in Leases
    BY <1>1 DEF Leases
  <2> QED BY <1>1, <2>1
<1>3. ASSUME ClearRecord(t)
      PROVE  /\ Disabled(t)' = {}
             /\ \A u \in Targets \ {t} : lease'[u] = lease[u]
  BY <1>1, <1>3 DEF ClearRecord, Disabled
<1>4. ASSUME KeepRemaining(t, items)
      PROVE  /\ Disabled(t)' = IF lease[t] = None THEN {} ELSE items
             /\ \A u \in Targets \ {t} : lease'[u] = lease[u]
  <2>1. CASE lease[t] = None
    BY <1>1, <1>4, <2>1 DEF KeepRemaining, Disabled
  <2>2. CASE lease[t] # None
    BY <1>1, <1>2, <1>4, <2>2 DEF KeepRemaining, Disabled
  <2> QED BY <2>1, <2>2
<1> QED
  BY <1>3, <1>4

LEMMA AcquireAnswered ==
    ASSUME HandoffAssumption, IInv, TypeOK', Shape',
           NEW t \in Targets, AcquireStep(t)
    PROVE  Answered'
<1> USE DEF world, journal, config, lifecycle, IInv
<1>a. op \in [Procs -> Ops] /\ t \in Procs
  BY ProcFacts
<1>z. op[t].step # "idle" => op[t] # Idle /\ Tgt(t) = t
  BY <1>a, ProcFacts
<1>l. LocalsOf(op[t])
  BY <1>a DEF Locals
<1>y. phase # "stopping" /\ op[t].step # "idle" => RelyOf(op[t], lease[t])
  BY <1>a, <1>z DEF JournalKeepsUp
<1>h. ASSUME ha' = ha, owed' = owed PROVE \A x \in owed' : ha'[x] = "off"
  BY <1>h DEF Answered
<1>f. ASSUME op[t].step # "idle", phase' = phase,
             \A q \in Procs \ {t} : op'[q] = op[q],
             op'[t] # Idle => op'[t].agent = op[t].agent,
             \A u \in Targets \ {t} : lease'[u] = lease[u],
             leaked \subseteq leaked', \A x \in owed' : ha'[x] = "off",
             owed' \subseteq leaked' \cup Kept(t, t)' \cup (owed \ Kept(t, t))
      PROVE  Answered'
  BY <1>f, <1>a, <1>z, AnsweredFrame
\* The steps that leave the house, the records and what t has in hand alone.
<1>g. ASSUME op[t].step \notin {"idle", "rollback", "restore"}, phase' = phase,
             \A q \in Procs \ {t} : op'[q] = op[q],
             op'[t] # Idle => op'[t].agent = op[t].agent,
             op'[t].step \notin {"rollback", "restore"},
             InFlight(t) \subseteq InFlight(t)', lease' = lease,
             leaked' = leaked, ha' = ha, owed' = owed
      PROVE  Answered'
  <2>1. Kept(t, t) \subseteq Kept(t, t)'
    BY <1>g DEF Kept, Disabled
  <2>2. \A x \in owed' : ha'[x] = "off"
    BY <1>g, <1>h
  <2>3. owed' \subseteq leaked' \cup Kept(t, t)' \cup (owed \ Kept(t, t))
    BY <1>g, <2>1
  <2> QED BY <1>g, <1>f, <2>2, <2>3
<1>d. ASSUME Stop(t), op[t].step \in {"read", "scan", "publish", "mode", "granted"},
             phase' = phase, lease' = lease, leaked' = leaked, ha' = ha, owed' = owed
      PROVE  Answered'
  <2>1. InFlight(t) = {}
    BY <1>d DEF InFlight
  <2>2. op'[t] = Idle /\ \A q \in Procs \ {t} : op'[q] = op[q]
    BY <1>d, <1>a, PutControl DEF Stop
  <2> QED BY <1>d, <1>g, <2>1, <2>2, IdleFields
<1>r. ASSUME StartRollback(t), op[t].step \in {"disable", "journal", "commit", "confirm"},
             phase' = phase, lease' = lease, leaked \subseteq leaked',
             \A x \in owed' : ha'[x] = "off", owed' \subseteq owed \cup leaked',
             op[t].step = "journal" =>
                \/ phase = "stopping"
                   \/ (lease[t] # None /\ lease[t].owner # op[t].agent)
      PROVE  Answered'
  <2>1. op'[t].step = "rollback" /\ op'[t].todo = op[t].held /\ op'[t].failed = {}
    BY <1>r, <1>a, RollbackControl
  <2>2. InFlight(t) = op[t].held /\ InFlight(t)' = op[t].held \cup {}
    BY <1>r, <2>1 DEF InFlight
  <2>3. Disabled(t)' = Disabled(t)
    BY <1>r DEF Disabled
  <2>4. phase # "stopping" => Disabled(t) \subseteq op[t].held
    BY <1>r, <1>y DEF RelyOf, Disabled, Acquiring
  <2>5. Kept(t, t) \subseteq Kept(t, t)'
    <3>1. CASE phase = "stopping"
      BY <1>r, <2>2, <2>3, <3>1 DEF Kept
    <3>2. CASE phase # "stopping"
      <4>1. Kept(t, t) = op[t].held \cup Disabled(t)
        BY <1>r, <2>2 DEF Kept
      <4>2. Kept(t, t)' = op[t].held \cup {}
        BY <1>r, <2>1, <3>2 DEF Kept
      <4> QED BY <2>4, <3>2, <4>1, <4>2
    <3> QED BY <3>1, <3>2
  <2>6. owed' \subseteq leaked' \cup Kept(t, t)' \cup (owed \ Kept(t, t))
    BY <1>r, <2>5
  <2>7. /\ \A q \in Procs \ {t} : op'[q] = op[q]
        /\ op'[t].agent = op[t].agent
    BY <1>r, <1>a, RollbackControl
  <2> QED BY <1>r, <1>f, <2>6, <2>7
<1>o. ASSUME NEW s, Goto(t, s), phase' = phase, lease' = lease,
             leaked' = leaked, ha' = ha, owed' = owed,
             \/ /\ op[t].step \in {"disable", "index", "confirm"}
                /\ s \in {"disable", "confirm", "commit"}
             \/ /\ op[t].step \in {"read", "publish"}
                /\ s \in {"scan", "granted", "release", "mode"}
      PROVE  Answered'
  <2>1. op'[t].step = s /\ op'[t].held = op[t].held /\ op'[t].agent = op[t].agent
    BY <1>o, <1>a, GotoControl
  <2>2. InFlight(t) \subseteq InFlight(t)'
    <3>1. CASE op[t].step \in {"disable", "index", "confirm"}
      BY <1>o, <2>1, <3>1 DEF InFlight
    <3>2. CASE op[t].step \in {"read", "publish"}
      BY <3>2 DEF InFlight
    <3> QED BY <1>o, <3>1, <3>2
  <2> QED BY <1>o, <1>g, <1>a, <2>1, <2>2, GotoControl
<1>1. ASSUME NEW x \in Autos, DisableOne(t, x) PROVE Answered'
  <2>0. /\ Move(t, "journal", op[t].todo \ {x}, op[t].held \cup {x}, {})
        /\ op[t].step = "disable" /\ phase' = phase /\ lease' = lease
        /\ leaked' = leaked
    BY <1>1 DEF DisableOne
  <2>1. op'[t].step = "journal" /\ op'[t].held = op[t].held \cup {x}
    BY <2>0, <1>a, MoveControl
  <2>2. owed' \subseteq owed \cup {x} /\ \A y \in owed' : ha'[y] = "off"
    BY <1>1, <1>h, OffStep DEF DisableOne
  <2>3. Kept(t, t) = op[t].held \cup Disabled(t)
    BY <2>0 DEF Kept, InFlight
  <2>4. Kept(t, t)' = op[t].held \cup {x} \cup Disabled(t)
    BY <2>0, <2>1 DEF Kept, InFlight, Disabled
  <2>5. owed' \subseteq leaked' \cup Kept(t, t)' \cup (owed \ Kept(t, t))
    BY <2>2, <2>3, <2>4
  <2>6. /\ \A q \in Procs \ {t} : op'[q] = op[q]
        /\ op'[t].agent = op[t].agent
    BY <2>0, <1>a, MoveControl
  <2> QED BY <2>0, <2>2, <2>5, <2>6, <1>f
<1>2. ASSUME NEW x \in Autos, DisableRaises(t, x) PROVE Answered'
  <2>1. \/ leaked' = leaked /\ ha' = ha /\ owed' = owed
        \/ SwitchOff(x) /\ leaked' = leaked \cup {x}
    BY <1>2 DEF DisableRaises
  <2>2. /\ leaked \subseteq leaked' /\ owed' \subseteq owed \cup leaked'
        /\ \A y \in owed' : ha'[y] = "off"
    BY <2>1, <1>h, OffStep
  <2> QED BY <1>2, <2>2, <1>r DEF DisableRaises
<1>3. CASE ReadLease(t)
  BY <1>3, <1>o, <1>d DEF ReadLease
<1>4. CASE Scan(t)
  <2>0. /\ op[t].step = "scan" /\ phase' = phase /\ lease' = lease
        /\ leaked' = leaked /\ ha' = ha /\ owed' = owed
    BY <1>4 DEF Scan
  <2>1. ASSUME NEW todo, Move(t, "disable", todo, {}, {}) PROVE Answered'
    <3>1. InFlight(t) = {}
      BY <2>0 DEF InFlight
    <3>2. op'[t].step = "disable" /\ op'[t].agent = op[t].agent
      BY <2>1, <1>a, MoveControl
    <3> QED BY <2>0, <2>1, <3>1, <3>2, <1>a, <1>g, MoveControl
  <2> QED BY <1>4, <2>0, <2>1, <1>d DEF Scan
<1>5. CASE AllDisabled(t)
  BY <1>5, <1>o DEF AllDisabled
<1>6. CASE Checkpoint(t)
  <2>1. CASE lease[t] # None /\ lease[t].owner # op[t].agent
    <3>1. \A x \in owed : ha[x] = "off"
      BY DEF Answered
    <3> QED BY <2>1, <1>6, <3>1, <1>r DEF Checkpoint
  <2>2. CASE lease[t] = None \/ lease[t].owner = op[t].agent
    <3>0. /\ op[t].step \in {"journal", "commit"} /\ phase' = phase
          /\ lease' = [lease EXCEPT ![t] =
                         [owner |-> op[t].agent, disabled |-> op[t].held]]
          /\ leaked' = leaked \cup Raced(t, op[t].held)
          /\ ha' = ha /\ owed' = owed
          /\ Goto(t, IF op[t].step = "journal" THEN "index" ELSE "publish")
      BY <2>2, <1>6 DEF Checkpoint
    <3>1. /\ lease'[t] = [owner |-> op[t].agent, disabled |-> op[t].held]
          /\ \A u \in Targets \ {t} : lease'[u] = lease[u]
      BY <3>0 DEF TypeOK
    <3>2. /\ op'[t].step \in {"index", "publish"} /\ op'[t].held = op[t].held
          /\ op'[t].agent = op[t].agent
          /\ \A q \in Procs \ {t} : op'[q] = op[q]
      BY <3>0, <1>a, GotoControl
    <3>3. Disabled(t)' = op[t].held
      <4>1. op[t].agent \in Agents /\ op[t].held \in SUBSET Autos
        BY <3>0, <1>a, ProcFacts, OpsFields
      <4>2. [owner |-> op[t].agent, disabled |-> op[t].held] # None
        BY <4>1 DEF Leases, HandoffAssumption
      <4> QED BY <3>1, <4>2 DEF Disabled
    <3>4. op[t].held \subseteq Kept(t, t)'
      BY <3>2, <3>3 DEF Kept
    <3>5. Kept(t, t) = op[t].held \cup Disabled(t)
      BY <3>0 DEF Kept, InFlight
    <3>6. phase # "stopping" => Disabled(t) \subseteq op[t].held
      BY <3>0, <1>y DEF RelyOf, Disabled, Acquiring
    <3>7. phase = "stopping" => (Disabled(t) \ op[t].held) \cap owed \subseteq leaked'
      BY <3>0 DEF Raced
    <3>8. owed' \subseteq leaked' \cup Kept(t, t)' \cup (owed \ Kept(t, t))
      <4>1. CASE phase = "stopping"
        BY <3>0, <3>4, <3>5, <3>7, <4>1
      <4>2. CASE phase # "stopping"
        BY <3>0, <3>4, <3>5, <3>6, <4>2
      <4> QED BY <4>1, <4>2
    <3>9. \A x \in owed' : ha'[x] = "off"
      BY <3>0, <1>h
    <3>10. leaked \subseteq leaked' /\ op[t].step # "idle"
      BY <3>0
    <3> QED BY <3>0, <3>1, <3>2, <3>8, <3>9, <3>10, <1>f
  <2> QED BY <2>1, <2>2
<1>7. CASE AddToIndex(t)
  BY <1>7, <1>o, <1>d DEF AddToIndex
<1>8. CASE Confirm(t)
  <2>1. \A x \in owed : ha[x] = "off"
    BY DEF Answered
  <2> QED BY <1>8, <2>1, <1>o, <1>r DEF Confirm
<1>9. CASE RollbackDone(t)
  <2>0. /\ op[t].step = "rollback" /\ op[t].todo = {} /\ phase' = phase
        /\ ha' = ha /\ owed' = owed
    BY <1>9 DEF RollbackDone
  <2>1. op[t].failed \in SUBSET Autos
    BY <1>a, OpsFields
  <2>2. CASE op[t].failed = {}
    <3>1. ClearRecord(t) /\ Goto(t, "unwind")
      BY <2>2, <1>9 DEF RollbackDone
    <3>2. leaked' = leaked \cup Raced(t, {})
      BY <3>1 DEF ClearRecord
    <3>3. \A u \in Targets \ {t} : lease'[u] = lease[u]
      BY <2>1, <3>1, RecordStep
    <3>4. Kept(t, t) = IF phase = "stopping" THEN Disabled(t) ELSE {}
      BY <2>0, <2>2 DEF Kept, InFlight
    <3>5. owed' \subseteq leaked' \cup Kept(t, t)' \cup (owed \ Kept(t, t))
      BY <2>0, <3>2, <3>4 DEF Raced
    <3>6. /\ \A q \in Procs \ {t} : op'[q] = op[q]
          /\ op'[t].agent = op[t].agent
      BY <3>1, <1>a, GotoControl
    <3>7. \A x \in owed' : ha'[x] = "off"
      BY <2>0, <1>h
    <3> QED BY <2>0, <3>2, <3>3, <3>5, <3>6, <3>7, <1>f
  <2>3. CASE op[t].failed # {}
    <3>1. KeepRemaining(t, op[t].failed) /\ Stop(t)
      BY <2>3, <1>9 DEF RollbackDone
    <3>2. /\ leaked' = leaked \cup Raced(t, op[t].failed)
                        \cup IF lease[t] = None /\ phase = "stopping"
                             THEN op[t].failed \cap owed ELSE {}
      BY <3>1 DEF KeepRemaining
    <3>3. /\ Disabled(t)' = IF lease[t] = None THEN {} ELSE op[t].failed
          /\ \A u \in Targets \ {t} : lease'[u] = lease[u]
      BY <2>1, <3>1, RecordStep
    <3>4. Kept(t, t) = IF phase = "stopping" THEN op[t].failed \cup Disabled(t)
                       ELSE op[t].failed
      BY <2>0 DEF Kept, InFlight
    <3>5. op'[t] = Idle /\ \A q \in Procs \ {t} : op'[q] = op[q]
      BY <3>1, <1>a, PutControl DEF Stop
    <3>6. Disabled(t)' \subseteq Kept(t, t)'
      BY <3>5, IdleFields DEF Kept
    <3>7. phase # "stopping" => lease[t] # None
      BY <2>0, <2>3, <1>l, <1>y DEF LocalsOf, RelyOf, Owning, Acquiring
    <3>8. owed' \subseteq leaked' \cup Kept(t, t)' \cup (owed \ Kept(t, t))
      <4>1. CASE phase = "stopping"
        <5>1. (Disabled(t) \ op[t].failed) \cap owed \subseteq leaked'
          BY <3>2, <4>1 DEF Raced
        <5>2. CASE lease[t] = None
          <6>1. op[t].failed \cap owed \subseteq leaked'
            BY <3>2, <4>1, <5>2
          <6> QED BY <2>0, <3>4, <4>1, <5>1, <6>1
        <5>3. CASE lease[t] # None
          <6>1. op[t].failed \subseteq Kept(t, t)'
            BY <3>3, <3>6, <5>3
          <6> QED BY <2>0, <3>4, <4>1, <5>1, <6>1
        <5> QED BY <5>2, <5>3
      <4>2. CASE phase # "stopping"
        <5>1. op[t].failed \subseteq Kept(t, t)'
          BY <3>3, <3>6, <3>7, <4>2
        <5> QED BY <2>0, <3>4, <4>2, <5>1
      <4> QED BY <4>1, <4>2
    <3>9. leaked \subseteq leaked'
      BY <3>2
    <3>10. \A x \in owed' : ha'[x] = "off"
      BY <2>0, <1>h
    <3> QED BY <2>0, <3>3, <3>5, <3>8, <3>9, <3>10, <1>f
  <2> QED BY <2>2, <2>3
<1>10. CASE CommitMode(t)
  <2>0. /\ op[t].step = "mode" /\ phase' = phase /\ lease' = lease
        /\ leaked' = leaked /\ ha' = ha /\ owed' = owed
    BY <1>10 DEF CommitMode
  <2>1. CASE Stop(t) \/ Put(t, Idle)
    BY <2>0, <2>1, <1>d DEF Stop
  <2>2. CASE Put(t, Start(op[t].agent, "suspend", "release"))
    <3>1. InFlight(t) = {}
      BY <2>0 DEF InFlight
    <3>2. /\ op'[t] = Start(op[t].agent, "suspend", "release")
          /\ \A q \in Procs \ {t} : op'[q] = op[q]
      BY <2>2, <1>a, PutControl
    <3>3. op'[t].step = "release" /\ op'[t].agent = op[t].agent
      BY <3>2, StartFields
    <3> QED BY <2>0, <3>1, <3>2, <3>3, <1>g
  <2> QED BY <2>1, <2>2, <1>10 DEF CommitMode
<1>11. CASE Dispatch(t)
  BY <1>11, <1>d DEF Dispatch
<1>12. ASSUME NEW x \in Autos, DisableOne(t, x) \/ DisableRaises(t, x) PROVE Answered'
  BY <1>1, <1>2, <1>12
<1> QED
  BY <1>3, <1>4, <1>5, <1>6, <1>7, <1>8, <1>9, <1>10, <1>11, <1>12 DEF AcquireStep

LEMMA ReleaseAnswered ==
    ASSUME HandoffAssumption, IInv, TypeOK', Shape',
           NEW p \in Procs, NEW t \in Targets, Tgt(p) = t, ReleaseStep(p)
    PROVE  Answered'
<1> USE DEF world, journal, config, lifecycle, IInv
<1>s. op[p].step # "idle" /\ op[p].step \in {"rollback", "restore", "release", "unindex", "unwind"}
  BY DEF ReleaseStep, RestoreOne, RestoreRaises, Release, Settle, RemoveFromIndex
<1>a. /\ op \in [Procs -> Ops] /\ op[p] # Idle /\ t \in Targets /\ t \in Procs
      /\ (p = t \/ p = Life) /\ Life \notin Targets
  BY <1>s, ProcFacts DEF Procs, Shape, Tgt
<1>l. LocalsOf(op[p])
  BY DEF Locals
<1>y. phase # "stopping" => RelyOf(op[p], lease[t])
  BY <1>a DEF JournalKeepsUp
<1>w. op[p].step \in {"rollback", "unwind"} => p = t
  BY <1>a, <1>s DEF Shape
<1>h. ASSUME ha' = ha, owed' = owed PROVE \A x \in owed' : ha'[x] = "off"
  BY <1>h DEF Answered
<1>f. ASSUME phase' = phase, \A q \in Procs \ {p} : op'[q] = op[q],
             op'[p] # Idle => op'[p].agent = op[p].agent,
             \A u \in Targets \ {t} : lease'[u] = lease[u],
             leaked \subseteq leaked', \A x \in owed' : ha'[x] = "off",
             owed' \subseteq leaked' \cup Kept(p, t)' \cup (owed \ Kept(p, t))
      PROVE  Answered'
  BY <1>f, <1>a, AnsweredFrame
\* What the acquisition of t has in hand, when p does not restore for a rollback.
<1>i. ASSUME \A q \in Procs \ {p} : op'[q] = op[q],
             op[p].step # "rollback",
             op'[p].step \in {"idle", "restore", "unindex", "release", "scan", "mode"},
             op'[p].step = "scan" => op'[p].held = {}
      PROVE  InFlight(t)' = InFlight(t)
  <2>1. CASE p = t
    <3>1. InFlight(t) = {}
      BY <1>i, <1>s, <2>1 DEF InFlight
    <3>2. InFlight(t)' = {}
      BY <1>i, <2>1 DEF InFlight
    <3> QED BY <3>1, <3>2
  <2>2. CASE p = Life
    <3>1. op'[t] = op[t]
      BY <1>i, <1>a, <2>2
    <3> QED BY <3>1 DEF InFlight
  <2> QED BY <2>1, <2>2, <1>a
\* One call of restore_items: x leaves todo; it is on, lost, or counted as failed.
<1>m. ASSUME NEW x \in Autos, NEW failed,
             op[p].step \in {"rollback", "restore"}, x \in op[p].todo,
             Move(p, op[p].step, op[p].todo \ {x}, op[p].held, failed),
             op[p].failed \subseteq failed,
             phase' = phase, lease' = lease, leaked \subseteq leaked',
             \A y \in owed' : ha'[y] = "off", owed' \subseteq owed,
             x \in owed' => x \in leaked' \cup failed
      PROVE  Answered'
  <2>1. /\ op'[p].step = op[p].step /\ op'[p].todo = op[p].todo \ {x}
        /\ op'[p].failed = failed /\ op'[p].held = op[p].held
        /\ op'[p].agent = op[p].agent
        /\ \A q \in Procs \ {p} : op'[q] = op[q]
    BY <1>m, <1>a, MoveControl
  <2>2. owed' \subseteq leaked' \cup Kept(p, t)' \cup (owed \ Kept(p, t))
    <3>1. CASE phase # "stopping"
      <4>1. Kept(p, t) = op[p].todo \cup op[p].failed
        BY <1>m, <3>1 DEF Kept
      <4>2. Kept(p, t)' = (op[p].todo \ {x}) \cup failed
        BY <1>m, <2>1, <3>1 DEF Kept
      <4> QED BY <1>m, <4>1, <4>2
    <3>2. CASE phase = "stopping"
      <4>1. Kept(p, t) = InFlight(t) \cup Disabled(t)
        BY <3>2 DEF Kept
      <4>2. Kept(p, t)' = InFlight(t)' \cup Disabled(t)
        BY <1>m, <3>2 DEF Kept, Disabled
      <4>3. CASE op[p].step = "restore"
        <5>1. InFlight(t)' = InFlight(t)
          BY <1>i, <2>1, <4>3
        <5> QED BY <1>m, <4>1, <4>2, <5>1
      <4>4. CASE op[p].step = "rollback"
        <5>1. p = t
          BY <1>w, <4>4
        <5>2. InFlight(t) = op[p].todo \cup op[p].failed
          BY <4>4, <5>1 DEF InFlight
        <5>3. InFlight(t)' = (op[p].todo \ {x}) \cup failed
          BY <2>1, <4>4, <5>1 DEF InFlight
        <5> QED BY <1>m, <4>1, <4>2, <5>2, <5>3
      <4> QED BY <1>m, <4>3, <4>4
    <3> QED BY <3>1, <3>2
  <2> QED BY <1>m, <1>f, <2>1, <2>2
<1>1. ASSUME NEW x \in Autos, RestoreOne(p, x) PROVE Answered'
  <2>0. /\ Move(p, op[p].step, op[p].todo \ {x}, op[p].held, op[p].failed)
        /\ op[p].step \in {"rollback", "restore"} /\ x \in op[p].todo
        /\ phase' = phase /\ lease' = lease
    BY <1>1 DEF RestoreOne
  <2>1. \/ SwitchOn(x) /\ leaked' = leaked
        \/ leaked' = leaked \cup {x} /\ ha' = ha /\ owed' = owed
    BY <1>1 DEF RestoreOne
  <2>2. /\ leaked \subseteq leaked' /\ owed' \subseteq owed
        /\ x \in owed' => x \in leaked' \cup op[p].failed
        /\ \A y \in owed' : ha'[y] = "off"
    <3>1. CASE SwitchOn(x) /\ leaked' = leaked
      BY <3>1, OnStep
    <3>2. CASE leaked' = leaked \cup {x} /\ ha' = ha /\ owed' = owed
      BY <3>2, <1>h
    <3> QED BY <2>1, <3>1, <3>2
  <2> QED BY <2>0, <2>2, <1>m
<1>2. ASSUME NEW x \in Autos, RestoreRaises(p, x) PROVE Answered'
  <2>0. /\ Move(p, op[p].step, op[p].todo \ {x}, op[p].held, op[p].failed \cup {x})
        /\ op[p].step \in {"rollback", "restore"} /\ x \in op[p].todo
        /\ phase' = phase /\ lease' = lease /\ leaked' = leaked
    BY <1>2 DEF RestoreRaises
  <2>1. SwitchOn(x) \/ (ha' = ha /\ owed' = owed)
    BY <1>2 DEF RestoreRaises
  <2>2. owed' \subseteq owed /\ \A y \in owed' : ha'[y] = "off"
    BY <2>1, <1>h, OnStep
  <2> QED BY <2>0, <2>2, <1>m
\* The step leaves the house and the records alone and holds on to them.
<1>k. ASSUME phase' = phase, lease' = lease, leaked' = leaked, ha' = ha, owed' = owed,
             op[p].step \notin {"rollback", "restore"},
             \A q \in Procs \ {p} : op'[q] = op[q],
             op'[p].step \in {"idle", "unindex", "release", "scan", "mode"},
             op'[p].step = "scan" => op'[p].held = {},
             op'[p] # Idle => op'[p].agent = op[p].agent
      PROVE  Answered'
  <2>1. InFlight(t)' = InFlight(t)
    BY <1>k, <1>i
  <2>2. Kept(p, t)' = Kept(p, t)
    BY <1>k, <2>1 DEF Kept, Disabled
  <2>3. \A x \in owed' : ha'[x] = "off"
    BY <1>k, <1>h
  <2>4. owed' \subseteq leaked' \cup Kept(p, t)' \cup (owed \ Kept(p, t))
    BY <1>k, <2>2
  <2> QED BY <1>k, <1>f, <2>3, <2>4
<1>d. ASSUME Stop(p) PROVE op'[p] = Idle /\ \A q \in Procs \ {p} : op'[q] = op[q]
  BY <1>d, <1>a, PutControl DEF Stop
<1>n. ASSUME AfterRelease(p) \/ Stop(p), op[p].step \notin {"rollback", "restore"},
             phase' = phase, lease' = lease, leaked' = leaked, ha' = ha, owed' = owed
      PROVE  Answered'
  <2>1. /\ \/ op'[p] = Idle
           \/ op'[p] = Start(op[p].agent, op[p].goal, "scan")
           \/ op'[p] = Start(op[p].agent, op[p].goal, "mode")
        /\ \A q \in Procs \ {p} : op'[q] = op[q]
    BY <1>n, <1>a, <1>d, AfterReleaseControl
  <2> QED BY <1>n, <1>k, <2>1, IdleFields, StartFields
<1>3. CASE Release(p)
  <2>0. /\ op[p].step = "release" /\ phase' = phase /\ lease' = lease
        /\ ha' = ha /\ owed' = owed
    BY <1>3 DEF Release
  <2>1. CASE lease[t] = None
    BY <1>3, <1>n, <2>0, <2>1 DEF Release
  <2>2. CASE lease[t] # None /\ lease[t].owner # op[p].agent
    BY <1>3, <1>n, <2>0, <2>2 DEF Release
  <2>3. CASE lease[t] # None /\ lease[t].owner = op[p].agent
    <3>1. /\ Move(p, "restore", {x \in lease[t].disabled : seen[x] # "on"}, {}, {})
          /\ leaked' = leaked \cup {x \in lease[t].disabled :
                                      seen[x] = "on" /\ ha[x] = "off"}
      BY <1>3, <2>3 DEF Release
    <3>2. /\ op'[p].step = "restore" /\ op'[p].agent = op[p].agent
          /\ op'[p].todo = {x \in lease[t].disabled : seen[x] # "on"}
          /\ op'[p].failed = {} /\ \A q \in Procs \ {p} : op'[q] = op[q]
      BY <3>1, <1>a, MoveControl
    <3>3. InFlight(t)' = InFlight(t)
      BY <1>i, <2>0, <3>2
    <3>4. Disabled(t) = lease[t].disabled /\ Disabled(t)' = Disabled(t)
      BY <2>0, <2>3 DEF Disabled
    <3>5. owed' \subseteq leaked' \cup Kept(p, t)' \cup (owed \ Kept(p, t))
      <4>1. CASE phase = "stopping"
        BY <2>0, <3>3, <3>4, <4>1 DEF Kept
      <4>2. CASE phase # "stopping"
        <5>1. Kept(p, t)' = {x \in lease[t].disabled : seen[x] # "on"} \cup {}
          BY <2>0, <3>2, <4>2 DEF Kept
        <5>2. InFlight(t) = {}
          <6>1. op[t].step \in {"idle", "release"}
            BY <1>a, <2>0, <4>2, Exclusive, IdleFields DEF Shape, Tgt
          <6> QED BY <6>1 DEF InFlight
        <5>3. Kept(p, t) = lease[t].disabled
          BY <2>0, <3>4, <5>2 DEF Kept
        <5>4. \A x \in owed : ha[x] = "off"
          BY DEF Answered
        <5> QED BY <2>0, <3>1, <5>1, <5>3, <5>4
      <4> QED BY <4>1, <4>2
    <3>6. leaked \subseteq leaked' /\ \A x \in owed' : ha'[x] = "off"
      BY <2>0, <3>1, <1>h
    <3> QED BY <2>0, <3>2, <3>5, <3>6, <1>f
  <2> QED BY <2>1, <2>2, <2>3
<1>4. CASE Settle(p)
  <2>0. /\ op[p].step = "restore" /\ op[p].todo = {} /\ phase' = phase
        /\ ha' = ha /\ owed' = owed
    BY <1>4 DEF Settle
  <2>1. op[p].failed \in SUBSET Autos
    BY <1>a, OpsFields
  <2>h. \A x \in owed' : ha'[x] = "off"
    BY <2>0, <1>h
  <2>2. CASE op[p].failed = {}
    <3>1. ClearRecord(t) /\ Goto(p, "unindex")
      BY <2>2, <1>4 DEF Settle
    <3>2. leaked' = leaked \cup Raced(t, {})
      BY <3>1 DEF ClearRecord
    <3>3. \A u \in Targets \ {t} : lease'[u] = lease[u]
      BY <1>a, <2>1, <3>1, RecordStep
    <3>4. /\ op'[p].step = "unindex" /\ op'[p].agent = op[p].agent
          /\ \A q \in Procs \ {p} : op'[q] = op[q]
      BY <3>1, <1>a, GotoControl
    <3>5. InFlight(t)' = InFlight(t)
      BY <1>i, <2>0, <3>4
    <3>6. owed' \subseteq leaked' \cup Kept(p, t)' \cup (owed \ Kept(p, t))
      <4>1. CASE phase = "stopping"
        <5>1. Disabled(t) \cap owed \subseteq leaked'
          BY <3>2, <4>1 DEF Raced
        <5>2. InFlight(t) \subseteq Kept(p, t)'
          BY <3>4, <3>5 DEF Kept
        <5> QED BY <2>0, <4>1, <5>1, <5>2 DEF Kept
      <4>2. CASE phase # "stopping"
        BY <2>0, <2>2, <4>2 DEF Kept
      <4> QED BY <4>1, <4>2
    <3> QED BY <2>0, <2>h, <3>2, <3>3, <3>4, <3>6, <1>f
  <2>3. CASE op[p].failed # {}
    <3>1. KeepRemaining(t, op[p].failed) /\ Stop(p)
      BY <2>3, <1>4 DEF Settle
    <3>2. leaked' = leaked \cup Raced(t, op[p].failed)
                      \cup IF lease[t] = None /\ phase = "stopping"
                           THEN op[p].failed \cap owed ELSE {}
      BY <3>1 DEF KeepRemaining
    <3>3. /\ Disabled(t)' = IF lease[t] = None THEN {} ELSE op[p].failed
          /\ \A u \in Targets \ {t} : lease'[u] = lease[u]
      BY <1>a, <2>1, <3>1, RecordStep
    <3>4. op'[p] = Idle /\ \A q \in Procs \ {p} : op'[q] = op[q]
      BY <3>1, <1>d
    <3>5. op'[p].step = "idle"
      BY <3>4, IdleFields
    <3>6. InFlight(t)' = InFlight(t)
      BY <1>i, <2>0, <3>4, <3>5
    <3>7. Disabled(t)' \subseteq Kept(p, t)' /\ InFlight(t) \subseteq Kept(p, t)'
      BY <3>5, <3>6 DEF Kept
    <3>8. owed' \subseteq leaked' \cup Kept(p, t)' \cup (owed \ Kept(p, t))
      <4>1. CASE phase = "stopping"
        <5>1. (Disabled(t) \ op[p].failed) \cap owed \subseteq leaked'
          BY <3>2, <4>1 DEF Raced
        <5>2. op[p].failed \cap owed \subseteq leaked' \cup Kept(p, t)'
          BY <3>2, <3>3, <3>7, <4>1
        <5>3. Kept(p, t) = InFlight(t) \cup Disabled(t)
          BY <4>1 DEF Kept
        <5> QED BY <2>0, <3>7, <5>1, <5>2, <5>3
      <4>2. CASE phase # "stopping"
        <5>1. lease[t] # None
          BY <1>y, <2>0, <2>3, <4>2 DEF RelyOf
        <5>2. op[p].failed \subseteq Kept(p, t)'
          BY <3>3, <3>7, <5>1
        <5>3. Kept(p, t) = {} \cup op[p].failed
          BY <2>0, <4>2 DEF Kept
        <5> QED BY <2>0, <5>2, <5>3
      <4> QED BY <4>1, <4>2
    <3>9. leaked \subseteq leaked'
      BY <3>2
    <3> QED BY <2>0, <2>h, <3>3, <3>4, <3>8, <3>9, <1>f
  <2> QED BY <2>2, <2>3
<1>5. CASE RemoveFromIndex(p)
  BY <1>5, <1>n DEF RemoveFromIndex
<1> QED
  BY <1>1, <1>2, <1>3, <1>4, <1>5 DEF ReleaseStep

-----------------------------------------------------------------------------
(* The steps that start operations and those of the lifecycle *)

\* Outside the shutdown sweep a hold never exceeds the journal by more than what
\* a running acquisition has in hand.
LEMMA HoldBound ==
    ASSUME HandoffAssumption, TypeOK, Shape, JournalKeepsUp, NEW t \in Targets
    PROVE  Hold(t) \subseteq InFlight(t) \cup Disabled(t)
<1>1. ASSUME NEW p \in Procs, Restoring(p), Tgt(p) = t
      PROVE  op[p].todo \cup op[p].failed \subseteq Disabled(t)
  <2>1. op[p] # Idle
    BY <1>1, IdleFields DEF Restoring
  <2> QED BY <1>1, <2>1 DEF JournalKeepsUp, RelyOf, Restoring, Disabled
<1>2. BeingRestored(t) \subseteq Disabled(t)
  BY <1>1 DEF BeingRestored
<1> QED
  BY <1>2 DEF Hold

LEMMA HoldStart ==
    ASSUME HandoffAssumption, TypeOK, NEW p \in Procs, NEW a, NEW g,
           NEW s \in {"read", "release"}, op[p] = Idle, Put(p, Start(a, g, s)),
           lease' = lease, phase' = phase, NEW u \in Targets
    PROVE  Hold(u)' = Hold(u)
<1>1. /\ op'[p].step = s /\ op[p].step = "idle"
      /\ \A q \in Procs \ {p} : op'[q] = op[q]
  BY PutControl, StartFields, IdleFields DEF TypeOK
<1>2. u \in Procs
  BY DEF Procs
<1>3. InFlight(u)' = InFlight(u)
  <2>1. CASE u = p
    BY <1>1, <2>1 DEF InFlight
  <2>2. CASE u # p
    BY <1>1, <1>2, <2>2 DEF InFlight
  <2> QED BY <2>1, <2>2
<1>4. ASSUME NEW q \in Procs
      PROVE  /\ Restoring(q)' /\ Tgt(q)' = u <=> Restoring(q) /\ Tgt(q) = u
             /\ Restoring(q) => op'[q] = op[q]
  BY <1>1 DEF Restoring, Tgt
<1>5. BeingRestored(u)' = BeingRestored(u)
  BY <1>4 DEF BeingRestored
<1>6. Settling(u)' <=> Settling(u)
  <2>1. op'[u].step = "rollback" <=> op[u].step = "rollback"
    BY <1>1, <1>2
  <2> QED BY <1>4, <2>1 DEF Settling
<1> QED
  BY <1>3, <1>5, <1>6 DEF Hold, Disabled

LEMMA HoldSame ==
    ASSUME op' = op, lease' = lease, phase' = "stopping" <=> phase = "stopping",
           NEW u \in Targets
    PROVE  Hold(u)' = Hold(u)
<1>1. \A q \in Procs : Restoring(q)' <=> Restoring(q)
  BY DEF Restoring
<1>2. BeingRestored(u)' = BeingRestored(u)
  BY <1>1 DEF BeingRestored, Tgt
<1>3. Settling(u)' <=> Settling(u)
  BY <1>1 DEF Settling, Tgt
<1> QED
  BY <1>2, <1>3 DEF Hold, InFlight, Disabled

LEMMA AnsweredStep ==
    ASSUME HandoffAssumption, IInv, TypeOK', Shape', Next
    PROVE  Answered'
<1> USE DEF world, journal, config, lifecycle, IInv
<1>a. Targets \subseteq Procs /\ Life \in Procs /\ \A a \in Agents : TargetOf[a] \in Procs
  BY DEF Procs, HandoffAssumption
<1>h. ASSUME \A u \in Targets : Hold(u)' = Hold(u),
             ha' = ha, owed' = owed, leaked' = leaked
      PROVE  Answered'
  BY <1>h DEF Answered
<1>b. ASSUME NEW a \in Agents, NEW g, NEW s \in {"read", "release"}, Begin(a, g, s),
             ha' = ha, owed' = owed, leaked' = leaked, lease' = lease, phase' = phase
      PROVE  Answered'
  <2>1. \A u \in Targets : Hold(u)' = Hold(u)
    BY <1>a, <1>b, HoldStart DEF Begin
  <2> QED BY <1>b, <1>h, <2>1
<1>s. ASSUME op' = op, ha' = ha, owed' = owed, leaked' = leaked, lease' = lease,
             phase' = "stopping" <=> phase = "stopping"
      PROVE  Answered'
  BY <1>s, <1>h, HoldSame
<1>1. ASSUME NEW a \in Agents, Call(a) PROVE Answered'
  BY <1>1, <1>b, <1>s DEF Call, Enter, Submit, Leave, Disable, Enable, Suspend, Demote, Delete
<1>2. ASSUME NEW r \in Requests, NEW a \in Agents, Resume(r, a) PROVE Answered'
  BY <1>2, <1>b DEF Resume
<1>3. ASSUME \/ \E x \in Autos : Observe(x)
             \/ \E a \in Agents : GatesChange(a) \/ Erase(a)
      PROVE  Answered'
  BY <1>3, <1>s DEF Observe, GatesChange, Erase
<1>4. CASE LifeStep
  <2>1. CASE StartReconcile \/ FinishReconcile
    BY <2>1, <1>s DEF StartReconcile, FinishReconcile
  <2>2. ASSUME NEW t \in Targets, NEW a \in Agents, SweepNext(t, a) PROVE Answered'
    <3>1. CASE UNCHANGED op
      BY <2>2, <3>1, <1>s DEF SweepNext
    <3>2. CASE Put(Life, Start(a, "sweep", "release"))
      <4>1. \A u \in Targets : Hold(u)' = Hold(u)
        BY <2>2, <3>2, <1>a, HoldStart DEF SweepNext
      <4> QED BY <2>2, <4>1, <1>h DEF SweepNext
    <3> QED BY <2>2, <3>1, <3>2 DEF SweepNext
  <2> QED BY <1>4, <2>1, <2>2 DEF LifeStep
<1>5. CASE StartShutdown
  <2>0. /\ op' = op /\ lease' = lease /\ phase' = "stopping"
        /\ ha' = ha /\ owed' = owed /\ leaked' = leaked
    BY <1>5 DEF StartShutdown
  <2>1. \A u \in Targets : InFlight(u)' = InFlight(u) /\ Disabled(u)' = Disabled(u)
    BY <2>0 DEF InFlight, Disabled
  <2>2. \A u \in Targets : InFlight(u)' \cup Disabled(u)' \subseteq Hold(u)'
    BY <2>0 DEF Hold, Settling
  <2>3. \A u \in Targets : Hold(u) \subseteq Hold(u)'
    BY <2>1, <2>2, HoldBound
  <2> QED BY <2>0, <2>3 DEF Answered
<1>6. ASSUME NewProcess PROVE Answered'
  <2>0. /\ ha' = ha /\ owed' = owed /\ lease' = lease /\ leaked \subseteq leaked'
        /\ phase' = "boot" /\ \A p \in Procs : op'[p] = Idle
    BY <1>6 DEF NewProcess
  <2>1. \A u \in Targets : Disabled(u)' = Disabled(u)
    BY <2>0 DEF Disabled
  <2>2. \A u \in Targets : Disabled(u)' \subseteq Hold(u)'
    BY <2>0, <1>a, IdleFields DEF Hold, Settling, Restoring
  <2>3. ASSUME NEW t \in Targets PROVE InFlight(t) \subseteq leaked' \cup Disabled(t)
    <3>1. CASE op[t].step = "journal" \/ phase = "stopping"
      BY <1>6, <3>1 DEF NewProcess
    <3>2. CASE op[t].step # "journal" /\ phase # "stopping"
      <4>1. op[t].step \in Acquiring \ {"journal"} => op[t].held \subseteq Disabled(t)
        <5>1. op[t].step \in Acquiring => op[t] # Idle /\ Tgt(t) = t
          BY <1>a, ProcFacts DEF Acquiring
        <5> QED BY <3>2, <5>1, <1>a DEF JournalKeepsUp, RelyOf, Disabled
      <4>2. InFlight(t) \subseteq op[t].held
        BY <1>a DEF InFlight, Locals, LocalsOf
      <4>3. CASE op[t].step \in Acquiring
        BY <3>2, <4>1, <4>2, <4>3
      <4>4. CASE op[t].step \notin Acquiring
        BY <4>4 DEF InFlight, Acquiring
      <4> QED BY <4>3, <4>4
    <3> QED BY <3>1, <3>2
  <2>4. \A u \in Targets : Hold(u) \subseteq leaked' \cup Hold(u)'
    <3>1. CASE phase = "stopping"
      <4>1. \A u \in Targets : Hold(u) \subseteq InFlight(u) \cup Disabled(u)
        BY HoldBound
      <4> QED BY <4>1, <2>1, <2>2, <2>3
    <3>2. CASE phase # "stopping"
      BY <3>2, <2>1, <2>2, <2>3, HoldBound
    <3> QED BY <3>1, <3>2
  <2> QED BY <2>0, <2>4 DEF Answered
<1>7. CASE Exit \/ Crash
  BY <1>6, <1>7 DEF Exit, Crash
<1>8. ASSUME NEW t \in Targets, AcquireStep(t) PROVE Answered'
  BY <1>8, AcquireAnswered
<1>9. ASSUME NEW p \in Procs, ReleaseStep(p) PROVE Answered'
  <2>1. op[p].step # "idle"
    BY <1>9 DEF ReleaseStep, RestoreOne, RestoreRaises, Release, Settle, RemoveFromIndex
  <2>2. Tgt(p) \in Targets
    BY <2>1, ProcFacts
  <2> QED BY <1>9, <2>2, ReleaseAnswered
<1> QED
  BY <1>1, <1>2, <1>3, <1>4, <1>5, <1>7, <1>8, <1>9 DEF Next

-----------------------------------------------------------------------------

LEMMA IInvInit ==
    ASSUME HandoffAssumption, Init
    PROVE  IInv
<1>1. TypeOK /\ Shape
  BY TypeInit
<1>2. Locals
  BY FreshLocals DEF Init, Locals
<1>3. JournalKeepsUp /\ Answered
  BY DEF Init, JournalKeepsUp, Answered
<1> QED
  BY <1>1, <1>2, <1>3 DEF IInv

LEMMA IInvStep ==
    ASSUME HandoffAssumption, IInv, [Next]_vars
    PROVE  IInv'
<1>1. CASE Next
  <2>1. TypeOK' /\ Shape'
    BY <1>1, TypeStep, ShapeStep DEF IInv
  <2>2. Locals'
    BY <1>1, LocalsStep DEF IInv
  <2>3. JournalKeepsUp'
    BY <1>1, RelyStep DEF IInv
  <2>4. Answered'
    BY <1>1, <2>1, AnsweredStep
  <2> QED BY <2>1, <2>2, <2>3, <2>4 DEF IInv
<1>2. CASE UNCHANGED vars
  <2>1. TypeOK' /\ Shape'
    BY <1>2, TypeStutter DEF IInv
  <2>2. op' = op /\ lease' = lease /\ phase' = phase /\ ha' = ha
        /\ owed' = owed /\ leaked' = leaked
    BY <1>2 DEF vars
  <2>3. Locals' /\ JournalKeepsUp'
    BY <2>2 DEF IInv, Locals, JournalKeepsUp, Tgt
  <2>4. Answered'
    BY <2>2, HoldSame DEF IInv, Answered
  <2> QED BY <2>1, <2>3, <2>4 DEF IInv
<1> QED
  BY <1>1, <1>2

\* The inductive invariant: an operation's locals are consistent, the journal
\* keeps up with the calls, and everything owed is held by somebody.
THEOREM HandoffInvariant == Spec => []IInv
<1>1. Init => IInv
  BY IInvInit, HandoffAssumption
<1>2. IInv /\ [Next]_vars => IInv'
  BY IInvStep, HandoffAssumption
<1> QED
  BY <1>1, <1>2, PTL DEF Spec

\* No acquisition, rollback, release, reconcile, crash or restart forgets an
\* automation the add-on switched off, outside the windows the actions name.
THEOREM NoUnknownLeak == Spec => []OnlyKnownLeaks
<1>1. ASSUME IInv PROVE OnlyKnownLeaks
  <2>1. ASSUME NEW x \in owed, x \notin leaked
        PROVE  \E t \in Targets : x \in InFlight(t) \cup Disabled(t)
    <3>1. PICK t \in Targets : x \in Hold(t)
      BY <1>1, <2>1 DEF IInv, Answered
    <3> QED BY <1>1, <3>1, HoldBound, HandoffAssumption DEF IInv
  <2> QED BY <2>1 DEF OnlyKnownLeaks
<1> QED
  BY <1>1, HandoffInvariant, PTL

\* Commands leave only the custodian of a target, with no rival in Control.
THEOREM DispatchIsAlone == Spec => []DispatchAlone
<1>1. ASSUME IInv, Sole PROVE DispatchAlone
  <2>1. ASSUME NEW t \in Targets, phase # "stopping", op[t].step = "granted"
        PROVE  /\ lease[t] # None /\ lease[t].owner = op[t].agent
               /\ RivalFree(op[t].agent)
    <3>1. t \in Procs /\ op[t] # Idle /\ Tgt(t) = t
      BY <1>1, <2>1, ProcFacts, HandoffAssumption DEF IInv
    <3>2. Owning(op[t])
      BY <2>1 DEF Owning
    <3>3. RelyOf(op[t], lease[t])
      BY <1>1, <2>1, <3>1 DEF IInv, JournalKeepsUp
    <3>4. lease[t] # None /\ lease[t].owner = op[t].agent
      BY <3>2, <3>3 DEF RelyOf
    <3> QED BY <1>1, <3>2, <3>4 DEF Sole, Bidding
  <2> QED BY <2>1 DEF DispatchAlone
<1> QED
  BY <1>1, HandoffInvariant, NoRivalWhileBidding, PTL

-----------------------------------------------------------------------------
(* Where the automations that a step touches come from.                      *)

\* The automations an operation names, and those of t that somebody sees on.
Named(r) == r.todo \cup r.held \cup r.failed
OnFor(t) == {x \in Known[t] : ha[x] = "on" \/ seen[x] = "on"}

\* An operation names what it named, what the record names, or what was seen on.
TraceOp(q) ==
    Named(op'[q]) # {} =>
        /\ op[q] # Idle /\ op'[q].agent = op[q].agent
        /\ Named(op'[q]) \subseteq Named(op[q]) \cup Disabled(Tgt(q)) \cup OnFor(Tgt(q))

\* What a record comes to name, an operation on its target named.
TraceRecord(t) ==
    \A x \in Disabled(t)' :
        x \in Disabled(t) \/ \E p \in Procs : op[p] # Idle /\ Tgt(p) = t /\ x \in Named(op[p])

\* Only a rollback or a restore switches on, and who switches off owes.
TraceWorld ==
    /\ \A x \in Autos : ha'[x] # ha[x] =>
           \/ ha'[x] = "off" /\ x \in owed'
           \/ /\ ha'[x] = "on"
              /\ \E p \in Procs : op[p].step \in {"rollback", "restore"} /\ x \in op[p].todo
    /\ \A x \in owed : x \in owed' \/ ha'[x] = "on"
    /\ \A x \in Autos : seen'[x] \in {seen[x], ha[x], "missing"}

LEMMA TraceOps ==
    ASSUME HandoffAssumption, TypeOK, Shape, Next, NEW z \in Procs
    PROVE  TraceOp(z)
<1>a. op \in [Procs -> Ops] /\ Targets \subseteq Procs /\ Life \in Procs
  BY ProcFacts
<1>b. \A a \in Agents : TargetOf[a] \in Procs
  BY DEF HandoffAssumption, Procs
<1>n. Named(Idle) = {} /\ \A a, g, s : Named(Start(a, g, s)) = {}
  BY IdleFields, StartFields DEF Named
<1>s. ASSUME op'[z] = op[z] PROVE TraceOp(z)
  BY <1>n, <1>s DEF TraceOp
<1>c. ASSUME NEW p \in Procs, NEW r, Named(r) = {}, Put(p, r) PROVE TraceOp(z)
  <2>1. op'[p] = r /\ \A q \in Procs \ {p} : op'[q] = op[q]
    BY <1>a, <1>c, PutControl
  <2> QED BY <2>1, <1>c, <1>s DEF TraceOp
<1>d. ASSUME NEW p \in Procs, Stop(p) PROVE TraceOp(z)
  BY <1>c, <1>d, <1>n DEF Stop
<1>e. ASSUME NEW a \in Agents, NEW g, NEW s, Begin(a, g, s) PROVE TraceOp(z)
  BY <1>b, <1>c, <1>e, <1>n DEF Begin
<1>m. ASSUME NEW p \in Procs, op[p] # Idle, NEW s, NEW todo, NEW held, NEW failed,
             todo \cup held \cup failed \subseteq Named(op[p]) \cup Disabled(Tgt(p)) \cup OnFor(Tgt(p)),
             Move(p, s, todo, held, failed)
      PROVE  TraceOp(z)
  <2>1. /\ op'[p].agent = op[p].agent /\ Named(op'[p]) = todo \cup held \cup failed
        /\ \A q \in Procs \ {p} : op'[q] = op[q]
    BY <1>a, <1>m, MoveControl DEF Named
  <2>2. CASE z = p
    BY <1>m, <2>1, <2>2 DEF TraceOp
  <2> QED BY <2>1, <2>2, <1>s
<1>g. ASSUME NEW p \in Procs, op[p] # Idle, NEW s, Goto(p, s) PROVE TraceOp(z)
  BY <1>g, <1>m DEF Goto, Named
<1>r. ASSUME NEW p \in Procs, op[p] # Idle, StartRollback(p) PROVE TraceOp(z)
  BY <1>r, <1>m DEF StartRollback, Named
<1>1. ASSUME NEW a \in Agents, Call(a) PROVE TraceOp(z)
  BY <1>1, <1>e, <1>s DEF Call, Enter, Submit, Leave, Disable, Enable, Suspend, Demote, Delete, config
<1>2. ASSUME NEW r \in Requests, NEW a \in Agents, Resume(r, a) PROVE TraceOp(z)
  BY <1>2, <1>e DEF Resume
<1>3. ASSUME NEW t \in Targets, AcquireStep(t) PROVE TraceOp(z)
  <2>0. t \in Procs /\ (op[t].step # "idle" => op[t] # Idle /\ Tgt(t) = t)
    BY <1>a, ProcFacts
  <2>1. ASSUME NEW x \in Autos, DisableOne(t, x) PROVE TraceOp(z)
    <3>1. /\ op[t].step = "disable" /\ x \in op[t].todo
          /\ Move(t, "journal", op[t].todo \ {x}, op[t].held \cup {x}, {})
      BY <2>1 DEF DisableOne
    <3>2. (op[t].todo \ {x}) \cup (op[t].held \cup {x}) \cup {} \subseteq Named(op[t])
      BY <3>1 DEF Named
    <3> QED BY <2>0, <3>1, <3>2, <1>m
  <2>2. ASSUME NEW x \in Autos, DisableRaises(t, x) PROVE TraceOp(z)
    BY <2>2, <2>0, <1>r DEF DisableRaises
  <2>3. CASE ReadLease(t)
    BY <2>3, <2>0, <1>g, <1>d DEF ReadLease
  <2>4. CASE Scan(t)
    <3>0. op[t] # Idle /\ Tgt(t) = t
      BY <2>4, <2>0 DEF Scan
    <3>1. CASE op[t].goal = "enter" /\ Move(t, "disable", Candidates(t, ha), {}, {})
      <4>1. Candidates(t, ha) \subseteq OnFor(t)
        BY DEF Candidates, OnFor, TypeOK, HandoffAssumption
      <4> QED BY <3>0, <3>1, <4>1, <2>0, <1>m
    <3>2. CASE /\ op[t].goal = "submit" /\ \A x \in Known[t] : seen[x] # "missing"
               /\ Move(t, "disable", Candidates(t, seen), {}, {})
      <4>1. Candidates(t, seen) \subseteq OnFor(t)
        BY <3>2 DEF Candidates, OnFor, TypeOK, HandoffAssumption
      <4> QED BY <3>0, <3>2, <4>1, <2>0, <1>m
    <3>3. CASE Stop(t)
      BY <3>3, <2>0, <1>d
    <3> QED BY <3>1, <3>2, <3>3, <2>4 DEF Scan
  <2>5. CASE AllDisabled(t)
    BY <2>5, <2>0, <1>g DEF AllDisabled
  <2>6. CASE Checkpoint(t)
    BY <2>6, <2>0, <1>g, <1>r DEF Checkpoint
  <2>7. CASE AddToIndex(t)
    BY <2>7, <2>0, <1>g, <1>d DEF AddToIndex
  <2>8. CASE Confirm(t)
    BY <2>8, <2>0, <1>g, <1>r DEF Confirm
  <2>9. CASE RollbackDone(t)
    BY <2>9, <2>0, <1>g, <1>d DEF RollbackDone
  <2>10. CASE CommitMode(t)
    BY <2>10, <2>0, <1>c, <1>d, <1>n DEF CommitMode
  <2>11. CASE Dispatch(t)
    BY <2>11, <2>0, <1>d DEF Dispatch
  <2> QED BY <1>3, <2>1, <2>2, <2>3, <2>4, <2>5, <2>6, <2>7, <2>8, <2>9, <2>10, <2>11 DEF AcquireStep
<1>4. ASSUME NEW p \in Procs, ReleaseStep(p) PROVE TraceOp(z)
  <2>0. op[p].step # "idle" => op[p] # Idle
    BY ProcFacts
  <2>a. ASSUME AfterRelease(p) PROVE TraceOp(z)
    BY <2>a, <1>a, <1>n, <1>s, AfterReleaseControl DEF TraceOp
  <2>1. ASSUME NEW x \in Autos, RestoreOne(p, x) \/ RestoreRaises(p, x) PROVE TraceOp(z)
    <3>1. /\ op[p].step \in {"rollback", "restore"} /\ x \in op[p].todo
          /\ \/ Move(p, op[p].step, op[p].todo \ {x}, op[p].held, op[p].failed)
             \/ Move(p, op[p].step, op[p].todo \ {x}, op[p].held, op[p].failed \cup {x})
      BY <2>1 DEF RestoreOne, RestoreRaises
    <3>2. /\ (op[p].todo \ {x}) \cup op[p].held \cup op[p].failed \subseteq Named(op[p])
          /\ (op[p].todo \ {x}) \cup op[p].held \cup (op[p].failed \cup {x}) \subseteq Named(op[p])
      BY <3>1 DEF Named
    <3> QED BY <2>0, <3>1, <3>2, <1>m
  <2>2. CASE Release(p)
    <3>1. CASE Move(p, "restore", {x \in lease[Tgt(p)].disabled : seen[x] # "on"}, {}, {})
               /\ lease[Tgt(p)] # None
      <4>1. {x \in lease[Tgt(p)].disabled : seen[x] # "on"} \subseteq Disabled(Tgt(p))
        BY <3>1 DEF Disabled
      <4>2. op[p] # Idle
        BY <2>0, <2>2 DEF Release
      <4> QED BY <3>1, <4>1, <4>2, <1>m
    <3> QED BY <3>1, <2>2, <2>a, <1>d DEF Release
  <2>3. CASE Settle(p)
    BY <2>3, <2>0, <1>g, <1>d DEF Settle
  <2>4. CASE RemoveFromIndex(p)
    BY <2>4, <2>a, <1>d DEF RemoveFromIndex
  <2> QED BY <1>4, <2>1, <2>2, <2>3, <2>4 DEF ReleaseStep
<1>5. ASSUME NewProcess PROVE TraceOp(z)
  BY <1>5, <1>n DEF NewProcess, TraceOp
<1>6. CASE LifeStep
  BY <1>6, <1>a, <1>c, <1>n, <1>s DEF LifeStep, StartReconcile, FinishReconcile, SweepNext, config
<1>7. CASE StartShutdown \/ Exit \/ Crash
  BY <1>7, <1>5, <1>s DEF StartShutdown, Exit, Crash
<1>8. ASSUME \/ \E x \in Autos : Observe(x)
             \/ \E a \in Agents : GatesChange(a) \/ Erase(a)
      PROVE  TraceOp(z)
  BY <1>8, <1>s DEF Observe, GatesChange, Erase
<1> QED
  BY <1>1, <1>2, <1>3, <1>4, <1>6, <1>7, <1>8 DEF Next

LEMMA TraceRecords ==
    ASSUME HandoffAssumption, TypeOK, Shape, Next, NEW u \in Targets
    PROVE  TraceRecord(u)
<1> USE DEF journal
<1>a. op \in [Procs -> Ops] /\ Targets \subseteq Procs /\ Life \in Procs
  BY ProcFacts
<1>i. lease \in [Targets -> Leases \cup {None}] /\ None \notin Leases
  BY DEF TypeOK, HandoffAssumption
<1>s. ASSUME lease'[u] = lease[u] PROVE TraceRecord(u)
  BY <1>s DEF TraceRecord, Disabled
<1>k. ASSUME NEW p \in Procs, op[p].step # "idle",
             ClearRecord(Tgt(p)) \/ KeepRemaining(Tgt(p), op[p].failed)
      PROVE  TraceRecord(u)
  <2>1. op[p] # Idle /\ Tgt(p) \in Targets /\ op[p].failed \in SUBSET Autos
    BY <1>k, <1>a, ProcFacts, OpsFields
  <2>2. PICK t \in Targets : t = Tgt(p)
    BY <2>1
  <2>3. PICK items \in SUBSET Autos : items = op[p].failed
    BY <2>1
  <2>4. ClearRecord(t) \/ KeepRemaining(t, items)
    BY <1>k, <2>2, <2>3
  <2>5. (\A v \in Targets \ {t} : lease'[v] = lease[v]) /\ Disabled(t)' \subseteq items
    BY <2>4, RecordStep
  <2>6. CASE u = t
    BY <2>1, <2>2, <2>3, <2>5, <2>6 DEF TraceRecord, Named
  <2> QED BY <2>5, <2>6, <1>s
<1>1. ASSUME NEW a \in Agents, Call(a) PROVE TraceRecord(u)
  BY <1>1, <1>s DEF Call, Enter, Submit, Leave, Disable, Enable, Suspend, Demote, Delete
<1>2. ASSUME NEW r \in Requests, NEW a \in Agents, Resume(r, a) PROVE TraceRecord(u)
  BY <1>2, <1>s DEF Resume
<1>3. ASSUME NEW t \in Targets, AcquireStep(t) PROVE TraceRecord(u)
  <2>0. t \in Procs /\ (op[t].step # "idle" => op[t] # Idle /\ Tgt(t) = t)
    BY <1>a, ProcFacts
  <2>1. CASE Checkpoint(t)
    <3>1. CASE lease' = lease
      BY <3>1, <1>s
    <3>2. CASE lease' = [lease EXCEPT ![t] = [owner |-> op[t].agent, disabled |-> op[t].held]]
      <4>1. op[t] # Idle /\ Tgt(t) = t
        BY <2>0, <2>1 DEF Checkpoint
      <4>2. CASE u = t
        <5>1. Disabled(t)' \subseteq op[t].held
          BY <1>i, <3>2 DEF Disabled
        <5> QED BY <2>0, <4>1, <4>2, <5>1 DEF TraceRecord, Named
      <4>3. CASE u # t
        BY <1>i, <3>2, <4>3, <1>s
      <4> QED BY <4>2, <4>3
    <3> QED BY <2>1, <3>1, <3>2 DEF Checkpoint
  <2>2. CASE RollbackDone(t)
    BY <2>2, <2>0, <1>k DEF RollbackDone
  <2>3. CASE \/ \E x \in Autos : DisableOne(t, x) \/ DisableRaises(t, x)
             \/ ReadLease(t) \/ Scan(t) \/ AllDisabled(t) \/ AddToIndex(t) \/ Confirm(t)
             \/ CommitMode(t) \/ Dispatch(t)
    BY <2>3, <1>s DEF DisableOne, DisableRaises, ReadLease, Scan, AllDisabled, AddToIndex, Confirm,
                      CommitMode, Dispatch
  <2> QED BY <1>3, <2>1, <2>2, <2>3 DEF AcquireStep
<1>4. ASSUME NEW p \in Procs, ReleaseStep(p) PROVE TraceRecord(u)
  <2>1. CASE Settle(p)
    BY <2>1, <1>k DEF Settle
  <2>2. CASE \/ \E x \in Autos : RestoreOne(p, x) \/ RestoreRaises(p, x)
             \/ Release(p) \/ RemoveFromIndex(p)
    BY <2>2, <1>s DEF RestoreOne, RestoreRaises, Release, RemoveFromIndex
  <2> QED BY <1>4, <2>1, <2>2 DEF ReleaseStep
<1>5. CASE LifeStep \/ StartShutdown \/ Exit \/ Crash
  BY <1>5, <1>s DEF LifeStep, StartReconcile, FinishReconcile, SweepNext, StartShutdown, Exit, Crash, NewProcess
<1>6. ASSUME \/ \E x \in Autos : Observe(x)
             \/ \E a \in Agents : GatesChange(a) \/ Erase(a)
      PROVE  TraceRecord(u)
  BY <1>6, <1>s DEF Observe, GatesChange, Erase
<1> QED
  BY <1>1, <1>2, <1>3, <1>4, <1>5, <1>6 DEF Next

LEMMA TraceHouse ==
    ASSUME HandoffAssumption, TypeOK, Shape, Next
    PROVE  TraceWorld
<1> USE DEF world
<1>a. Targets \subseteq Procs
  BY ProcFacts
<1>s. ASSUME ha' = ha, owed' = owed,
             \A x \in Autos : seen'[x] \in {seen[x], ha[x], "missing"}
      PROVE  TraceWorld
  BY <1>s DEF TraceWorld
<1>t. ASSUME ha' = ha, owed' = owed, seen' = seen \/ seen' = ha PROVE TraceWorld
  BY <1>s, <1>t
<1>o. ASSUME NEW x \in Autos, SwitchOff(x), seen' = seen PROVE TraceWorld
  BY <1>o DEF TraceWorld, SwitchOff, TypeOK
<1>1. ASSUME NEW a \in Agents, Call(a) PROVE TraceWorld
  BY <1>1, <1>t DEF Call, Enter, Submit, Leave, Disable, Enable, Suspend, Demote, Delete
<1>2. ASSUME NEW r \in Requests, NEW a \in Agents, Resume(r, a) PROVE TraceWorld
  BY <1>2, <1>t DEF Resume
<1>3. ASSUME NEW t \in Targets, AcquireStep(t) PROVE TraceWorld
  <2>1. ASSUME NEW x \in Autos, DisableOne(t, x) \/ DisableRaises(t, x) PROVE TraceWorld
    BY <2>1, <1>t, <1>o DEF DisableOne, DisableRaises
  <2>2. CASE \/ ReadLease(t) \/ Scan(t) \/ AllDisabled(t) \/ Checkpoint(t) \/ AddToIndex(t)
             \/ Confirm(t) \/ RollbackDone(t) \/ CommitMode(t) \/ Dispatch(t)
    BY <2>2, <1>t DEF ReadLease, Scan, AllDisabled, Checkpoint, AddToIndex, Confirm, RollbackDone,
                      CommitMode, Dispatch
  <2> QED BY <1>3, <2>1, <2>2 DEF AcquireStep
<1>4. ASSUME NEW p \in Procs, ReleaseStep(p) PROVE TraceWorld
  <2>1. ASSUME NEW x \in Autos, RestoreOne(p, x) \/ RestoreRaises(p, x) PROVE TraceWorld
    <3>1. CASE SwitchOn(x)
      <4>1. op[p].step \in {"rollback", "restore"} /\ x \in op[p].todo /\ seen' = seen
        BY <2>1 DEF RestoreOne, RestoreRaises
      <4> QED BY <3>1, <4>1 DEF TraceWorld, SwitchOn, TypeOK
    <3>2. CASE UNCHANGED <<ha, owed>>
      BY <2>1, <3>2, <1>t DEF RestoreOne, RestoreRaises
    <3> QED BY <2>1, <3>1, <3>2 DEF RestoreOne, RestoreRaises
  <2>2. CASE Release(p) \/ Settle(p) \/ RemoveFromIndex(p)
    BY <2>2, <1>t DEF Release, Settle, RemoveFromIndex
  <2> QED BY <1>4, <2>1, <2>2 DEF ReleaseStep
<1>5. CASE LifeStep \/ StartShutdown
  BY <1>5, <1>t DEF LifeStep, StartReconcile, FinishReconcile, SweepNext, StartShutdown
<1>6. CASE Exit \/ Crash
  BY <1>6, <1>s DEF Exit, Crash, NewProcess
<1>7. ASSUME NEW x \in Autos, Observe(x) PROVE TraceWorld
  BY <1>7, <1>s DEF Observe, TypeOK
<1>8. ASSUME \E a \in Agents : GatesChange(a) \/ Erase(a) PROVE TraceWorld
  BY <1>8, <1>t DEF GatesChange, Erase
<1> QED
  BY <1>1, <1>2, <1>3, <1>4, <1>5, <1>6, <1>7, <1>8 DEF Next

-----------------------------------------------------------------------------
(* What the household had switched off.                                      *)

Foreign == {x \in Autos : ha[x] = "off" /\ x \notin owed}

\* Nothing the add-on works from, not even a stale view, offers a foreign automation.
ForeignInv ==
    \A x \in Foreign :
        /\ seen[x] # "on"
        /\ \A p \in Procs : x \notin Named(op[p])
        /\ \A t \in Targets : x \notin Disabled(t)

\* An operation and a record name automations of their own target only.
OwnAutos ==
    /\ \A p \in Procs : op[p] # Idle => Named(op[p]) \subseteq Known[Tgt(p)]
    /\ \A t \in Targets : Disabled(t) \subseteq Known[t]

LEMMA OwnStep ==
    ASSUME HandoffAssumption, TypeOK, Shape, OwnAutos, Next
    PROVE  OwnAutos'
<1>1. ASSUME NEW p \in Procs, op'[p] # Idle PROVE Named(op'[p]) \subseteq Known[TargetOf[op'[p].agent]]
  <2>1. CASE Named(op'[p]) = {}
    BY <2>1
  <2>2. CASE Named(op'[p]) # {}
    <3>1. /\ op[p] # Idle /\ op'[p].agent = op[p].agent
          /\ Named(op'[p]) \subseteq Named(op[p]) \cup Disabled(Tgt(p)) \cup OnFor(Tgt(p))
      BY <2>2, TraceOps DEF TraceOp
    <3>2. Tgt(p) \in Targets
      BY <3>1 DEF Shape, Tgt, HandoffAssumption
    <3> QED BY <3>1, <3>2 DEF OwnAutos, OnFor, Tgt
  <2> QED BY <2>1, <2>2
<1>2. ASSUME NEW t \in Targets PROVE Disabled(t)' \subseteq Known[t]
  BY TraceRecords DEF TraceRecord, OwnAutos
<1> QED BY <1>1, <1>2 DEF OwnAutos, Tgt

LEMMA ForeignStep ==
    ASSUME HandoffAssumption, TypeOK, Shape, ForeignInv, Next
    PROVE  /\ ForeignInv'
           /\ \A x \in Autos : ha[x] = "off" /\ ha'[x] = "on" => x \in owed
<1>1. \A p \in Procs : op[p].todo \subseteq Named(op[p])
  BY DEF Named
<1>2. \A x \in Autos : ha[x] = "off" /\ ha'[x] = "on" => x \in owed
  BY <1>1, TraceHouse DEF TraceWorld, ForeignInv, Foreign
<1>3. Foreign' \subseteq Foreign
  BY TraceHouse DEF TraceWorld, Foreign, TypeOK
<1>4. ASSUME NEW x \in Foreign PROVE seen'[x] # "on"
  BY TraceHouse DEF TraceWorld, ForeignInv, Foreign
<1>5. ASSUME NEW x \in Foreign, NEW p \in Procs PROVE x \notin Named(op'[p])
  <2>1. ASSUME x \in Named(op'[p]) PROVE FALSE
    <3>1. /\ op[p] # Idle
          /\ Named(op'[p]) \subseteq Named(op[p]) \cup Disabled(Tgt(p)) \cup OnFor(Tgt(p))
      BY <2>1, TraceOps DEF TraceOp
    <3>2. Tgt(p) \in Targets
      BY <3>1 DEF Shape, Tgt, HandoffAssumption
    <3>3. x \notin OnFor(Tgt(p))
      BY DEF OnFor, ForeignInv, Foreign
    <3> QED BY <2>1, <3>1, <3>2, <3>3 DEF ForeignInv
  <2> QED BY <2>1
<1>6. ASSUME NEW x \in Foreign, NEW t \in Targets PROVE x \notin Disabled(t)'
  BY TraceRecords DEF TraceRecord, ForeignInv
<1> QED BY <1>2, <1>3, <1>4, <1>5, <1>6 DEF ForeignInv

LEMMA ForeignInvariant == Spec => [](ForeignInv /\ OwnAutos)
<1> DEFINE I == TypeOK /\ Shape /\ ForeignInv /\ OwnAutos
<1>1. Init => I
  <2> SUFFICES ASSUME Init PROVE I
    OBVIOUS
  <2>1. TypeOK /\ Shape
    BY TypeInit, HandoffAssumption
  <2>2. ForeignInv /\ OwnAutos
    BY IdleFields DEF Init, ForeignInv, OwnAutos, Foreign, Named, Disabled
  <2> QED BY <2>1, <2>2
<1>2. I /\ [Next]_vars => I'
  <2>1. ASSUME I, Next PROVE I'
    BY <2>1, HandoffAssumption, TypeStep, ShapeStep, OwnStep, ForeignStep
  <2>2. ASSUME I, UNCHANGED vars PROVE I'
    <3>1. TypeOK' /\ Shape'
      BY <2>2, TypeStutter
    <3>2. UNCHANGED <<ha, seen, op, lease, owed>>
      BY <2>2 DEF vars
    <3>3. ForeignInv' /\ OwnAutos'
      BY <2>2, <3>2 DEF ForeignInv, OwnAutos, Foreign, Named, Disabled, Tgt
    <3> QED BY <3>1, <3>3
  <2> QED BY <2>1, <2>2
<1>3. I => ForeignInv /\ OwnAutos
  OBVIOUS
<1> HIDE DEF I
<1> QED BY <1>1, <1>2, <1>3, PTL DEF Spec

\* handoff.py and control_handoff.py never switch on an automation that the add-on
\* did not find on and switch off itself.
THEOREM HouseholdStaysOff == Spec => ForeignStaysOff
<1>1. ASSUME TypeOK, Shape, ForeignInv, [Next]_vars
      PROVE  [\A x \in Autos : ha[x] = "off" /\ ha'[x] = "on" => x \in owed]_vars
  BY <1>1, HandoffAssumption, ForeignStep
<1> QED
  BY <1>1, TypeCorrect, ForeignInvariant, PTL DEF Spec, ForeignStaysOff

-----------------------------------------------------------------------------
(* What a transition into Control has still to switch off.                   *)

\* The automations of t alone that are on in Home Assistant.
Left(t) == {x \in Known[t] : Private(t, x) /\ ha[x] = "on"}

OffOf(r, left) ==
    r.goal = "enter" =>
        /\ r.step \in {"disable", "journal", "index"} => left \subseteq r.todo \cup r.held
        /\ r.step = "confirm" => left \subseteq r.held
        /\ r.step \in {"commit", "publish", "mode"} => left = {}

\* On the way into Control every automation still on is listed, then confirmed off.
OffInv == phase = "ready" => \A t \in Targets : OffOf(op[t], Left(t))

\* While the add-on serves, only t's own worker can switch on what t alone has.
LEMMA LeftShrinks ==
    ASSUME HandoffAssumption, TypeOK, Shape, OwnAutos, Next, phase = "ready",
           NEW t \in Targets, op[t].step \notin {"rollback", "restore"}
    PROVE  Left(t)' \subseteq Left(t)
<1> SUFFICES ASSUME NEW x \in Left(t)', x \notin Left(t) PROVE FALSE
  OBVIOUS
<1>1. x \in Known[t] /\ Private(t, x) /\ ha'[x] = "on" /\ ha[x] # "on" /\ x \in Autos
  BY DEF Left, HandoffAssumption
<1>2. PICK p \in Procs : op[p].step \in {"rollback", "restore"} /\ x \in op[p].todo
  BY <1>1, TraceHouse DEF TraceWorld
<1>3. op[p] # Idle
  BY <1>2, ProcFacts
<1>4. p \in Targets /\ p # t
  BY <1>2, <1>3 DEF Shape, Procs
<1>5. Tgt(p) = p /\ x \in Named(op[p])
  BY <1>2, <1>3, <1>4 DEF Shape, Tgt, Named
<1>6. x \in Known[p]
  BY <1>3, <1>5 DEF OwnAutos
<1> QED BY <1>1, <1>4, <1>6 DEF Private

LEMMA EnterStep ==
    ASSUME HandoffAssumption, TypeOK, Shape, OwnAutos, OffInv, Next, phase = "ready",
           NEW t \in Targets
    PROVE  OffOf(op'[t], Left(t)')
<1> USE DEF world, journal, config
<1>a. op \in [Procs -> Ops] /\ Targets \subseteq Procs /\ Life \in Procs
  BY ProcFacts
<1>l. op[t].step \notin {"rollback", "restore"} => Left(t)' \subseteq Left(t)
  BY LeftShrinks
<1>o. OffOf(op[t], Left(t))
  BY DEF OffInv
<1>s. ASSUME op'[t] = op[t] PROVE OffOf(op'[t], Left(t)')
  <2>1. CASE op[t].step \in {"rollback", "restore"}
    BY <1>s, <2>1 DEF OffOf
  <2>2. CASE op[t].step \notin {"rollback", "restore"}
    BY <1>s, <1>l, <1>o, <2>2 DEF OffOf
  <2> QED BY <2>1, <2>2
<1>f. ASSUME \/ op'[t].goal # "enter"
             \/ op'[t].step \in {"idle", "read", "scan", "granted", "rollback", "unwind",
                                 "release", "restore", "unindex"}
      PROVE  OffOf(op'[t], Left(t)')
  BY <1>f DEF OffOf
<1>c. ASSUME NEW p \in Procs, NEW r, Put(p, r),
             r.goal # "enter" \/ r.step \in {"idle", "read", "scan", "release"}
      PROVE  OffOf(op'[t], Left(t)')
  BY <1>a, <1>c, <1>f, <1>s, PutControl
<1>d. ASSUME NEW p \in Procs, Stop(p) PROVE OffOf(op'[t], Left(t)')
  BY <1>c, <1>d, IdleFields DEF Stop
<1>e. ASSUME NEW a \in Agents, NEW g, NEW s \in {"read", "release"}, Begin(a, g, s)
      PROVE  OffOf(op'[t], Left(t)')
  BY <1>a, <1>c, <1>e, StartFields DEF Begin, HandoffAssumption, Procs
<1>m. ASSUME NEW p \in Procs, NEW s, NEW todo, NEW held, NEW failed,
             Move(p, s, todo, held, failed),
             s \in {"scan", "granted", "rollback", "unwind", "release", "restore", "unindex"}
      PROVE  OffOf(op'[t], Left(t)')
  BY <1>a, <1>m, <1>f, <1>s, MoveControl
<1>g. ASSUME NEW p \in Procs, NEW s, Goto(p, s),
             s \in {"scan", "granted", "rollback", "unwind", "release", "restore", "unindex"}
      PROVE  OffOf(op'[t], Left(t)')
  BY <1>a, <1>g, <1>m DEF Goto
<1>1. ASSUME NEW a \in Agents, Call(a) PROVE OffOf(op'[t], Left(t)')
  BY <1>1, <1>e, <1>s DEF Call, Enter, Submit, Leave, Disable, Enable, Suspend, Demote, Delete
<1>2. ASSUME NEW r \in Requests, NEW a \in Agents, Resume(r, a) PROVE OffOf(op'[t], Left(t)')
  BY <1>2, <1>e DEF Resume
<1>3. ASSUME NEW u \in Targets, AcquireStep(u) PROVE OffOf(op'[t], Left(t)')
  <2>0. u \in Procs
    BY <1>a
  <2>r. ASSUME StartRollback(u) PROVE OffOf(op'[t], Left(t)')
    BY <2>0, <2>r, <1>m DEF StartRollback
  <2>o. ASSUME u # t, NEW s, NEW todo, NEW held, NEW failed, Move(u, s, todo, held, failed)
        PROVE  OffOf(op'[t], Left(t)')
    BY <2>o, <2>0, <1>a, <1>s, MoveControl
  <2>1. ASSUME NEW x \in Autos, DisableOne(u, x) PROVE OffOf(op'[t], Left(t)')
    <3>1. /\ op[u].step = "disable" /\ x \in op[u].todo
          /\ Move(u, "journal", op[u].todo \ {x}, op[u].held \cup {x}, {})
      BY <2>1 DEF DisableOne
    <3>2. CASE u = t
      <4>1. /\ op'[t].step = "journal" /\ op'[t].goal = op[t].goal
            /\ op'[t].todo = op[t].todo \ {x} /\ op'[t].held = op[t].held \cup {x}
        BY <3>1, <3>2, <2>0, <1>a, MoveControl
      <4> QED BY <4>1, <3>1, <3>2, <1>l, <1>o DEF OffOf
    <3> QED BY <3>1, <3>2, <2>o
  <2>2. ASSUME NEW x \in Autos, DisableRaises(u, x) PROVE OffOf(op'[t], Left(t)')
    BY <2>2, <2>r DEF DisableRaises
  <2>3. CASE ReadLease(u)
    BY <2>3, <2>0, <1>d, <1>g DEF ReadLease
  <2>4. CASE Scan(u)
    <3>1. CASE op[u].goal = "enter" /\ Move(u, "disable", Candidates(u, ha), {}, {})
      <4>1. CASE u = t
        <5>1. op'[t].step = "disable" /\ op'[t].todo = Candidates(t, ha)
          BY <3>1, <4>1, <2>0, <1>a, MoveControl
        <5>2. Left(t)' \subseteq Candidates(t, ha)
          BY <2>4, <4>1, <1>l DEF Scan, Left, Candidates
        <5> QED BY <5>1, <5>2 DEF OffOf
      <4> QED BY <3>1, <4>1, <2>o
    <3>2. ASSUME op[u].goal # "enter", NEW todo, Move(u, "disable", todo, {}, {})
          PROVE  OffOf(op'[t], Left(t)')
      <4>1. CASE u = t
        BY <3>2, <4>1, <2>0, <1>a, <1>f, MoveControl
      <4> QED BY <3>2, <4>1, <2>o
    <3> QED BY <2>4, <3>1, <3>2, <2>0, <1>d DEF Scan
  <2>5. CASE AllDisabled(u)
    <3>1. /\ op[u].step = "disable" /\ op[u].todo = {}
          /\ Goto(u, IF op[u].held = {} THEN "commit" ELSE "confirm")
      BY <2>5 DEF AllDisabled
    <3>2. CASE u = t
      <4>1. /\ op'[t].step = IF op[t].held = {} THEN "commit" ELSE "confirm"
            /\ op'[t].goal = op[t].goal /\ op'[t].held = op[t].held
        BY <3>1, <3>2, <2>0, <1>a, GotoControl
      <4> QED BY <4>1, <3>1, <3>2, <1>l, <1>o DEF OffOf
    <3> QED BY <3>1, <3>2, <2>o DEF Goto
  <2>6. CASE Checkpoint(u)
    <3>1. CASE /\ op[u].step \in {"journal", "commit"}
               /\ Goto(u, IF op[u].step = "journal" THEN "index" ELSE "publish")
      <4>1. CASE u = t
        <5>1. /\ op'[t].step = IF op[t].step = "journal" THEN "index" ELSE "publish"
              /\ op'[t].goal = op[t].goal /\ op'[t].held = op[t].held
              /\ op'[t].todo = op[t].todo
          BY <3>1, <4>1, <2>0, <1>a, GotoControl
        <5> QED BY <5>1, <3>1, <4>1, <1>l, <1>o DEF OffOf
      <4> QED BY <3>1, <4>1, <2>o DEF Goto
    <3> QED BY <2>6, <3>1, <2>r DEF Checkpoint
  <2>7. CASE AddToIndex(u)
    <3>1. CASE \/ op[u].step = "index" /\ Goto(u, "disable")
               \/ op[u].step = "publish" /\ Goto(u, "mode")
      <4>1. CASE u = t
        <5>1. /\ \/ op[t].step = "index" /\ op'[t].step = "disable"
                 \/ op[t].step = "publish" /\ op'[t].step = "mode"
              /\ op'[t].goal = op[t].goal /\ op'[t].held = op[t].held
              /\ op'[t].todo = op[t].todo
          BY <3>1, <4>1, <2>0, <1>a, GotoControl
        <5> QED BY <5>1, <1>l, <1>o DEF OffOf
      <4> QED BY <3>1, <4>1, <2>o DEF Goto
    <3> QED BY <2>7, <3>1, <2>0, <1>d, <1>g DEF AddToIndex
  <2>8. CASE Confirm(u)
    <3>1. CASE /\ op[u].step = "confirm" /\ Goto(u, "commit")
               /\ \A x \in op[u].held : ha[x] = "off"
      <4>1. CASE u = t
        <5>1. op'[t].step = "commit" /\ op'[t].goal = op[t].goal
          BY <3>1, <4>1, <2>0, <1>a, GotoControl
        <5>2. op[t].goal = "enter" => Left(t) = {}
          BY <3>1, <4>1, <1>o DEF OffOf, Left
        <5> QED BY <5>1, <5>2, <3>1, <4>1, <1>l DEF OffOf
      <4> QED BY <3>1, <4>1, <2>o DEF Goto
    <3> QED BY <2>8, <3>1, <2>r DEF Confirm
  <2>9. CASE RollbackDone(u)
    BY <2>9, <2>0, <1>d, <1>g DEF RollbackDone
  <2>10. CASE CommitMode(u)
    <3>1. \A a : Start(a, "suspend", "release").step = "release"
      BY StartFields
    <3> QED BY <2>10, <3>1, <2>0, <1>c, <1>d, IdleFields DEF CommitMode
  <2>11. CASE Dispatch(u)
    BY <2>11, <2>0, <1>d DEF Dispatch
  <2> QED BY <1>3, <2>1, <2>2, <2>3, <2>4, <2>5, <2>6, <2>7, <2>8, <2>9, <2>10, <2>11 DEF AcquireStep
<1>4. ASSUME NEW p \in Procs, ReleaseStep(p) PROVE OffOf(op'[t], Left(t)')
  <2>a. ASSUME AfterRelease(p) PROVE OffOf(op'[t], Left(t)')
    <3>1. CASE p = t
      BY <2>a, <3>1, <1>a, <1>f, AfterReleaseControl, IdleFields, StartFields
    <3> QED BY <2>a, <3>1, <1>a, <1>s, AfterReleaseControl
  <2>1. ASSUME NEW x \in Autos, RestoreOne(p, x) \/ RestoreRaises(p, x)
        PROVE  OffOf(op'[t], Left(t)')
    BY <2>1, <1>m DEF RestoreOne, RestoreRaises
  <2>2. CASE Release(p)
    BY <2>2, <2>a, <1>d, <1>m DEF Release
  <2>3. CASE Settle(p)
    BY <2>3, <1>d, <1>g DEF Settle
  <2>4. CASE RemoveFromIndex(p)
    BY <2>4, <2>a, <1>d DEF RemoveFromIndex
  <2> QED BY <1>4, <2>1, <2>2, <2>3, <2>4 DEF ReleaseStep
<1>5. CASE Exit \/ Crash
  BY <1>5, <1>a, <1>f, IdleFields DEF Exit, Crash, NewProcess
<1>6. CASE LifeStep
  <2>1. ASSUME NEW u \in Targets, NEW a \in Agents, SweepNext(u, a) PROVE OffOf(op'[t], Left(t)')
    BY <2>1, <1>a, <1>c, <1>s, StartFields DEF SweepNext
  <2> QED BY <1>6, <2>1, <1>s DEF LifeStep, StartReconcile, FinishReconcile
<1>7. CASE StartShutdown
  BY <1>7, <1>s DEF StartShutdown
<1>8. ASSUME \/ \E x \in Autos : Observe(x)
             \/ \E a \in Agents : GatesChange(a) \/ Erase(a)
      PROVE  OffOf(op'[t], Left(t)')
  BY <1>8, <1>s DEF Observe, GatesChange, Erase
<1> QED
  BY <1>1, <1>2, <1>3, <1>4, <1>5, <1>6, <1>7, <1>8 DEF Next

\* The add-on comes to serve only from a reconcile that left no worker busy.
LEMMA BecomesReady ==
    ASSUME HandoffAssumption, TypeOK, Shape, Next, phase' = "ready", phase # "ready"
    PROVE  /\ FinishReconcile
           /\ \A t \in Targets : op[t] = Idle
<1> USE DEF lifecycle
<1>1. ASSUME NEW a \in Agents, Call(a) PROVE FALSE
  BY <1>1 DEF Call, Enter, Submit, Leave, Disable, Enable, Suspend, Demote, Delete
<1>2. ASSUME NEW r \in Requests, NEW a \in Agents, Resume(r, a) PROVE FALSE
  BY <1>2 DEF Resume
<1>3. ASSUME NEW t \in Targets, AcquireStep(t) PROVE FALSE
  BY <1>3 DEF AcquireStep, DisableOne, DisableRaises, ReadLease, Scan, AllDisabled, Checkpoint,
              AddToIndex, Confirm, RollbackDone, CommitMode, Dispatch
<1>4. ASSUME NEW p \in Procs, ReleaseStep(p) PROVE FALSE
  BY <1>4 DEF ReleaseStep, RestoreOne, RestoreRaises, Release, Settle, RemoveFromIndex
<1>5. CASE LifeStep
  BY <1>5 DEF LifeStep, StartReconcile, FinishReconcile, SweepNext, Shape
<1>6. CASE StartShutdown \/ Exit \/ Crash
  BY <1>6 DEF StartShutdown, Exit, Crash, NewProcess
<1>7. ASSUME \/ \E x \in Autos : Observe(x)
             \/ \E a \in Agents : GatesChange(a) \/ Erase(a)
      PROVE  FALSE
  BY <1>7 DEF Observe, GatesChange, Erase
<1> QED
  BY <1>1, <1>2, <1>3, <1>4, <1>5, <1>6, <1>7 DEF Next

LEMMA OffInvariant == Spec => []OffInv
<1>1. Init => OffInv
  BY ProcFacts, TypeInit, HandoffAssumption, IdleFields DEF Init, OffInv, OffOf
<1>2. ASSUME TypeOK, Shape, OwnAutos, OffInv, [Next]_vars PROVE OffInv'
  <2>1. CASE Next /\ phase = "ready"
    BY <1>2, <2>1, EnterStep, HandoffAssumption DEF OffInv
  <2>2. CASE Next /\ phase # "ready"
    <3>1. ASSUME phase' = "ready" PROVE OffInv'
      <4>1. op' = op /\ \A t \in Targets : op[t] = Idle
        BY <1>2, <2>2, <3>1, BecomesReady, HandoffAssumption DEF FinishReconcile
      <4> QED BY <4>1, IdleFields DEF OffInv, OffOf
    <3> QED BY <3>1 DEF OffInv
  <2>3. CASE UNCHANGED vars
    BY <1>2, <2>3 DEF OffInv, Left, vars
  <2> QED BY <1>2, <2>1, <2>2, <2>3
<1> QED
  BY <1>1, <1>2, TypeCorrect, ForeignInvariant, PTL DEF Spec

\* PATCH commits mode=control only when every automation known for this target
\* alone is off, however Home Assistant answered the calls and whatever the
\* workers of the other targets restored meanwhile.
THEOREM EnterIsOff == Spec => []EnterMeansOff
<1>1. ASSUME TypeOK, OffInv PROVE EnterMeansOff
  BY <1>1, HandoffAssumption DEF OffInv, OffOf, Left, EnterMeansOff, TypeOK
<1> QED
  BY <1>1, TypeCorrect, OffInvariant, PTL

-----------------------------------------------------------------------------
(* Whose lease it is, and what for.                                          *)

NoneFailed == \A p \in Procs : op[p].failed = {}

\* Agents a lease may stay with: in Control, deleted, or about to be released.
Behind ==
    {a \in Agents : mode[a] \in {"control", "gone"} \/ \E r \in Requests : <<r, a>> \in waiting}

\* The steps at which an operation answers for the lease of its agent.
Handling == {"disable", "journal", "index", "confirm", "commit", "publish", "mode", "rollback",
             "release", "restore"}
Handled(p, a) == op[p].agent = a /\ op[p].step \in Handling

\* A lease that names what a call failed to restore.
Partial(t) == Failures /\ lease[t] # None /\ lease[t].disabled # {}

\* While the add-on serves: a journalled lease is backed, in the worker's hands, or partial.
Backing(t) ==
    /\ t \in index /\ lease[t] # None =>
          lease[t].owner \in Behind \/ Handled(t, lease[t].owner) \/ Partial(t)
    /\ op[t].goal = "submit" \/ op[t].step = "granted" => op[t].agent \in Behind
    /\ op[t].step = "scan" \/ (op[t].step = "mode" /\ op[t].goal # "enter") => lease[t] = None
    /\ op[t].step \in {"read", "scan", "disable", "journal", "index", "confirm", "commit", "publish"}
          => op[t].goal \in {"enter", "submit"}

\* While it starts up: backed, to be visited, in Life's hands, or partial.
Sweeping(t) ==
    t \in index /\ lease[t] # None =>
        \/ mode[lease[t].owner] \in {"control", "gone"}
        \/ <<t, lease[t].owner>> \in sweep
        \/ Handled(Life, lease[t].owner) \/ Partial(t)

BackInv ==
    /\ ~Failures => NoneFailed
    /\ phase = "ready" => \A t \in Targets : Backing(t)
    /\ phase = "reconcile" => \A t \in Targets : Sweeping(t)

LEMMA NoneFailedStep ==
    ASSUME HandoffAssumption, ~Failures, TypeOK, Shape, NoneFailed, Next
    PROVE  NoneFailed'
<1>a. op \in [Procs -> Ops] /\ Targets \subseteq Procs /\ \A a \in Agents : TargetOf[a] \in Procs
  BY ProcFacts
<1>s. ASSUME op' = op PROVE NoneFailed'
  BY <1>s DEF NoneFailed
<1>c. ASSUME NEW p \in Procs, NEW r, Put(p, r), r.failed = {} PROVE NoneFailed'
  BY <1>a, <1>c, PutControl DEF NoneFailed
<1>d. ASSUME NEW p \in Procs, Stop(p) PROVE NoneFailed'
  BY <1>c, <1>d, IdleFields DEF Stop
<1>e. ASSUME NEW a \in Agents, NEW g, NEW s, Begin(a, g, s) PROVE NoneFailed'
  BY <1>a, <1>c, <1>e, StartFields DEF Begin
<1>m. ASSUME NEW p \in Procs, NEW s, NEW todo, NEW held, NEW failed,
             failed = {} \/ failed = op[p].failed, Move(p, s, todo, held, failed)
      PROVE  NoneFailed'
  BY <1>a, <1>m, MoveControl DEF NoneFailed
<1>g. ASSUME NEW p \in Procs, NEW s, Goto(p, s) PROVE NoneFailed'
  BY <1>g, <1>m DEF Goto
<1>1. ASSUME NEW a \in Agents, Call(a) PROVE NoneFailed'
  BY <1>1, <1>e, <1>s DEF Call, Enter, Submit, Leave, Disable, Enable, Suspend, Demote, Delete
<1>2. ASSUME NEW r \in Requests, NEW a \in Agents, Resume(r, a) PROVE NoneFailed'
  BY <1>2, <1>e DEF Resume
<1>3. ASSUME NEW t \in Targets, AcquireStep(t) PROVE NoneFailed'
  <2>0. t \in Procs
    BY <1>a
  <2>r. ASSUME StartRollback(t) PROVE NoneFailed'
    BY <2>0, <2>r, <1>m DEF StartRollback
  <2>1. ASSUME NEW x \in Autos, DisableOne(t, x) \/ DisableRaises(t, x) PROVE NoneFailed'
    BY <2>1, <2>0, <2>r, <1>m DEF DisableOne, DisableRaises
  <2>2. CASE ReadLease(t) \/ RollbackDone(t) \/ Dispatch(t)
    BY <2>2, <2>0, <1>d, <1>g DEF ReadLease, RollbackDone, Dispatch
  <2>3. CASE Scan(t)
    BY <2>3, <2>0, <1>d, <1>m DEF Scan
  <2>4. CASE AllDisabled(t) \/ Checkpoint(t) \/ Confirm(t)
    BY <2>4, <2>0, <2>r, <1>g DEF AllDisabled, Checkpoint, Confirm
  <2>5. CASE AddToIndex(t)
    BY <2>5, <2>0, <1>d, <1>g DEF AddToIndex
  <2>6. CASE CommitMode(t)
    BY <2>6, <2>0, <1>d DEF CommitMode
  <2> QED BY <1>3, <2>1, <2>2, <2>3, <2>4, <2>5, <2>6 DEF AcquireStep
<1>4. ASSUME NEW p \in Procs, ReleaseStep(p) PROVE NoneFailed'
  <2>a. ASSUME AfterRelease(p) PROVE NoneFailed'
    BY <2>a, <1>a, AfterReleaseControl, IdleFields, StartFields DEF NoneFailed
  <2>1. ASSUME NEW x \in Autos, RestoreOne(p, x) \/ RestoreRaises(p, x) PROVE NoneFailed'
    BY <2>1, <1>m DEF RestoreOne, RestoreRaises
  <2>2. CASE Release(p)
    BY <2>2, <2>a, <1>d, <1>m DEF Release
  <2>3. CASE Settle(p)
    BY <2>3, <1>d, <1>g DEF Settle
  <2>4. CASE RemoveFromIndex(p)
    BY <2>4, <2>a, <1>d DEF RemoveFromIndex
  <2> QED BY <1>4, <2>1, <2>2, <2>3, <2>4 DEF ReleaseStep
<1>5. CASE Exit \/ Crash
  BY <1>5, IdleFields DEF Exit, Crash, NewProcess, NoneFailed
<1>6. CASE LifeStep
  <2>1. ASSUME NEW t \in Targets, NEW a \in Agents, SweepNext(t, a) PROVE NoneFailed'
    BY <2>1, <1>c, <1>s, StartFields DEF SweepNext, Procs
  <2> QED BY <1>6, <2>1, <1>s DEF LifeStep, StartReconcile, FinishReconcile
<1>7. CASE StartShutdown
  BY <1>7, <1>s DEF StartShutdown
<1>8. ASSUME \/ \E x \in Autos : Observe(x)
             \/ \E a \in Agents : GatesChange(a) \/ Erase(a)
      PROVE  NoneFailed'
  BY <1>8, <1>s DEF Observe, GatesChange, Erase
<1> QED
  BY <1>1, <1>2, <1>3, <1>4, <1>5, <1>6, <1>7, <1>8 DEF Next

\* A step of the worker of u leaves the operation, record and agents of t alone.
Apart(t) ==
    /\ op'[t] = op[t] /\ lease'[t] = lease[t]
    /\ t \in index' => t \in index
    /\ \A a \in Behind : TargetOf[a] = t => a \in Behind'

LEMMA ApartAcquire ==
    ASSUME HandoffAssumption, TypeOK, Shape, NEW t \in Targets, NEW u \in Targets \ {t},
           AcquireStep(u)
    PROVE  Apart(t)
<1> USE DEF journal, config
<1>a. op \in [Procs -> Ops] /\ t \in Procs /\ u \in Procs
  BY ProcFacts
<1>z. op[u].step # "idle" => Tgt(u) = u /\ op[u].agent \in Agents
  BY <1>a, ProcFacts
<1>i. lease \in [Targets -> Leases \cup {None}] /\ mode \in [Agents -> {"shadow", "control", "parked", "gone"}]
  BY DEF TypeOK
<1>s. ASSUME op'[t] = op[t], lease'[t] = lease[t], t \in index' => t \in index,
             mode' = mode, waiting' = waiting
      PROVE  Apart(t)
  BY <1>s DEF Apart, Behind
<1>c. ASSUME NEW r, Put(u, r) PROVE op'[t] = op[t]
  BY <1>a, <1>c, PutControl
<1>m. ASSUME NEW s, NEW todo, NEW held, NEW failed, Move(u, s, todo, held, failed) PROVE op'[t] = op[t]
  BY <1>a, <1>m, MoveControl
<1>d. ASSUME Stop(u) PROVE op'[t] = op[t]
  BY <1>c, <1>d DEF Stop
<1>g. ASSUME NEW s, Goto(u, s) PROVE op'[t] = op[t]
  BY <1>g, <1>m DEF Goto
<1>r. ASSUME StartRollback(u) PROVE op'[t] = op[t]
  BY <1>m, <1>r DEF StartRollback
<1>1. ASSUME NEW x \in Autos, DisableOne(u, x) \/ DisableRaises(u, x) PROVE Apart(t)
  BY <1>1, <1>m, <1>r, <1>s DEF DisableOne, DisableRaises
<1>2. CASE ReadLease(u) \/ Dispatch(u) \/ AllDisabled(u)
  BY <1>2, <1>d, <1>g, <1>s DEF ReadLease, Dispatch, AllDisabled
<1>3. CASE Scan(u)
  BY <1>3, <1>d, <1>m, <1>s DEF Scan
<1>4. CASE Checkpoint(u)
  <2>1. lease'[t] = lease[t]
    BY <1>4, <1>i DEF Checkpoint
  <2> QED BY <1>4, <2>1, <1>g, <1>r, <1>s DEF Checkpoint
<1>5. CASE AddToIndex(u)
  <2>1. op'[t] = op[t]
    BY <1>5, <1>d, <1>g DEF AddToIndex
  <2> QED BY <1>5, <2>1, <1>s DEF AddToIndex
<1>6. CASE Confirm(u)
  BY <1>6, <1>g, <1>r, <1>s DEF Confirm
<1>7. CASE RollbackDone(u)
  <2>1. lease'[t] = lease[t]
    BY <1>7, <1>i DEF RollbackDone, ClearRecord, KeepRemaining
  <2> QED BY <1>7, <2>1, <1>d, <1>g, <1>s DEF RollbackDone
<1>8. CASE CommitMode(u)
  <2>1. op'[t] = op[t] /\ lease' = lease /\ index' = index /\ waiting' = waiting
    BY <1>8, <1>c, <1>d DEF CommitMode
  <2>2. \A a \in Agents : TargetOf[a] = t => mode'[a] = mode[a]
    BY <1>8, <1>i, <1>z DEF CommitMode, Tgt
  <2> QED BY <2>1, <2>2 DEF Apart, Behind
<1> QED
  BY <1>1, <1>2, <1>3, <1>4, <1>5, <1>6, <1>7, <1>8 DEF AcquireStep

LEMMA ApartRelease ==
    ASSUME HandoffAssumption, TypeOK, Shape, NEW t \in Targets, NEW p \in Procs \ {t},
           Tgt(p) # t, ReleaseStep(p)
    PROVE  Apart(t)
<1> USE DEF journal, config
<1>a. op \in [Procs -> Ops] /\ t \in Procs
  BY ProcFacts
<1>i. lease \in [Targets -> Leases \cup {None}]
  BY DEF TypeOK
<1>s. ASSUME op'[t] = op[t], lease'[t] = lease[t], t \in index' => t \in index,
             mode' = mode, waiting \subseteq waiting'
      PROVE  Apart(t)
  BY <1>s DEF Apart, Behind
<1>m. ASSUME NEW s, NEW todo, NEW held, NEW failed, Move(p, s, todo, held, failed) PROVE op'[t] = op[t]
  BY <1>a, <1>m, MoveControl
<1>d. ASSUME Stop(p) PROVE op'[t] = op[t]
  BY <1>a, <1>d, PutControl DEF Stop
<1>f. ASSUME AfterRelease(p) PROVE op'[t] = op[t] /\ waiting \subseteq waiting'
  BY <1>a, <1>f, AfterReleaseControl DEF AfterRelease
<1>1. ASSUME NEW x \in Autos, RestoreOne(p, x) \/ RestoreRaises(p, x) PROVE Apart(t)
  BY <1>1, <1>m, <1>s DEF RestoreOne, RestoreRaises
<1>2. CASE Release(p)
  BY <1>2, <1>d, <1>f, <1>m, <1>s DEF Release
<1>3. CASE Settle(p)
  <2>1. lease'[t] = lease[t]
    BY <1>3, <1>i DEF Settle, ClearRecord, KeepRemaining
  <2> QED BY <1>3, <2>1, <1>d, <1>m, <1>s DEF Settle, Goto
<1>4. CASE RemoveFromIndex(p)
  BY <1>4, <1>d, <1>f, <1>s DEF RemoveFromIndex
<1> QED
  BY <1>1, <1>2, <1>3, <1>4 DEF ReleaseStep

LEMMA BackingStep ==
    ASSUME HandoffAssumption, TypeOK, Shape, JournalKeepsUp, ~Failures => NoneFailed, Next,
           phase = "ready", phase' = "ready", NEW t \in Targets, Backing(t)
    PROVE  Backing(t)'
<1> USE DEF world, journal, config, lifecycle, Partial
<1>a. /\ op \in [Procs -> Ops] /\ t \in Procs /\ Targets \subseteq Procs
      /\ \A a \in Agents : TargetOf[a] \in Targets
      /\ Idle.goal = "none" /\ Idle.step = "idle"
  BY ProcFacts, IdleFields DEF Idle
<1>i. lease \in [Targets -> Leases \cup {None}] /\ None \notin Leases
  BY DEF TypeOK, HandoffAssumption
<1>n. lease[t] # None => lease[t].owner \in Agents /\ TargetOf[lease[t].owner] = t
  BY <1>i DEF Shape, Leases
<1>p. op[t] # Idle => op[t].agent \in Agents /\ TargetOf[op[t].agent] = t
  BY <1>a DEF Shape
<1>z. op[t].step # "idle" => op[t] # Idle
  BY <1>a
<1>y. op[t].step # "idle" => RelyOf(op[t], lease[t])
  BY <1>a, <1>z, <1>p DEF JournalKeepsUp, Tgt
<1>l. ASSUME Apart(t) PROVE Backing(t)'
  BY <1>l, <1>a, <1>n, <1>p DEF Apart, Backing, Handled
<1>h. mode' = mode /\ waiting \subseteq waiting' => Behind \subseteq Behind'
  BY DEF Behind
<1>u. ASSUME op' = op, lease' = lease, index' = index, Behind \subseteq Behind' PROVE Backing(t)'
  BY <1>l, <1>u DEF Apart
\* t's worker starts an operation, or a caller one on another target.
<1>e. ASSUME NEW a \in Agents, NEW g, NEW s, Begin(a, g, s), lease' = lease, index' = index,
             \/ s = "release" /\ g # "submit"
             \/ s = "read" /\ g \in {"enter", "submit"} /\ (g = "submit" => a \in Behind'),
             \A b \in Behind : b \in Behind' \/ (b = a /\ s = "release")
      PROVE  Backing(t)'
  <2>1. TargetOf[a] \in Procs /\ op[TargetOf[a]] = Idle
    BY <1>a, <1>e DEF Begin
  <2>2. /\ op'[TargetOf[a]] = Start(a, g, s)
        /\ \A q \in Procs \ {TargetOf[a]} : op'[q] = op[q]
    BY <1>a, <1>e, <2>1, PutControl DEF Begin
  <2>3. CASE TargetOf[a] # t
    BY <1>a, <1>e, <1>l, <2>2, <2>3 DEF Apart
  <2>4. CASE TargetOf[a] = t
    <3>1. op'[t].step = s /\ op'[t].goal = g /\ op'[t].agent = a
      BY <2>2, <2>4, StartFields
    <3>2. t \in index /\ lease[t] # None => lease[t].owner \in Behind \/ Partial(t)
      BY <1>a, <2>1, <2>4 DEF Backing, Handled, Handling
    <3>3. t \in index /\ lease[t] # None =>
            lease[t].owner \in Behind' \/ Handled(t, lease[t].owner)' \/ Partial(t)
      BY <1>e, <3>1, <3>2 DEF Handled, Handling
    <3> QED BY <1>e, <3>1, <3>3 DEF Backing, Handled
  <2> QED BY <2>3, <2>4
\* A rollback or a restore ends with automations that could not be restored.
<1>k. ASSUME KeepRemaining(t, op[t].failed), Stop(t), op[t].failed # {} PROVE Backing(t)'
  <2>1. Failures
    BY <1>k, <1>a DEF NoneFailed
  <2>2. lease'[t] # None => lease'[t].disabled = op[t].failed
    BY <1>k, <1>i DEF KeepRemaining
  <2>3. op'[t] = Idle
    BY <1>k, <1>a, PutControl DEF Stop
  <2> QED BY <1>k, <2>1, <2>2, <2>3, <1>a DEF Backing
<1>1. ASSUME NEW a \in Agents, Call(a) PROVE Backing(t)'
  <2>1. CASE Submit(a)
    BY <2>1, <1>e, <1>h DEF Submit, Behind
  <2>2. CASE Enter(a) \/ Leave(a) \/ Disable(a) \/ Suspend(a)
    BY <2>2, <1>e, <1>h DEF Enter, Leave, Disable, Suspend
  <2>3. CASE Enable(a) \/ Demote(a) \/ Delete(a)
    <3>1. Behind \subseteq Behind'
      BY <2>3 DEF Enable, Demote, Delete, Behind, TypeOK, Requests
    <3> QED BY <2>3, <3>1, <1>u DEF Enable, Demote, Delete
  <2> QED BY <1>1, <2>1, <2>2, <2>3 DEF Call
<1>2. ASSUME NEW r \in Requests, NEW a \in Agents, Resume(r, a) PROVE Backing(t)'
  <2>1. \A b \in Behind : b \in Behind' \/ b = a
    BY <1>2 DEF Resume, Behind
  <2>2. r # "submit"
    BY DEF Requests
  <2> QED BY <1>2, <2>1, <2>2, <1>e DEF Resume
<1>3. ASSUME AcquireStep(t) PROVE Backing(t)'
  <2>h. ~ CommitMode(t) => Behind \subseteq Behind'
    BY <1>3, <1>h DEF AcquireStep, DisableOne, DisableRaises, ReadLease, Scan, AllDisabled,
                      Checkpoint, AddToIndex, Confirm, RollbackDone, Dispatch
  <2>d. ASSUME Stop(t), lease' = lease, index' = index, Behind \subseteq Behind',
               op[t].step \notin Handling \/ lease[t] = None
        PROVE  Backing(t)'
    <3>1. op'[t] = Idle
      BY <2>d, <1>a, PutControl DEF Stop
    <3> QED BY <2>d, <3>1, <1>a DEF Backing, Handled
  \* The operation goes on and still answers for the lease it answered for.
  <2>k. ASSUME op'[t].agent = op[t].agent, op'[t].goal = op[t].goal, op'[t].step \in Handling,
               op'[t].step # "mode" \/ op[t].goal = "enter",
               op[t].goal \in {"enter", "submit"} \/ op'[t].step = "rollback",
               lease' = lease, Behind \subseteq Behind', op[t].step # "idle",
               t \notin index' \/ lease[t] = None \/ lease[t].owner = op[t].agent
        PROVE  Backing(t)'
    BY <2>k DEF Backing, Handled, Handling
  <2>r. ASSUME StartRollback(t), lease' = lease, index' = index, Behind \subseteq Behind',
               op[t].step \in Acquiring
        PROVE  Backing(t)'
    BY <2>r, <2>k, <1>a, <1>y, RollbackControl DEF RelyOf, Handling, Acquiring
  <2>1. ASSUME NEW x \in Autos, DisableOne(t, x) PROVE Backing(t)'
    <3>1. /\ op[t].step = "disable" /\ lease' = lease /\ index' = index
          /\ op'[t].step = "journal" /\ op'[t].goal = op[t].goal /\ op'[t].agent = op[t].agent
      BY <2>1, <1>a, MoveControl DEF DisableOne
    <3> QED BY <3>1, <2>1, <2>h, <2>k, <1>y, <1>h DEF RelyOf, Handling, Acquiring, Backing, DisableOne
  <2>2. ASSUME NEW x \in Autos, DisableRaises(t, x) PROVE Backing(t)'
    BY <2>2, <2>r, <1>h DEF DisableRaises, Acquiring
  <2>3. CASE ReadLease(t)
    <3>0. op[t].step = "read" /\ lease' = lease /\ index' = index /\ Behind \subseteq Behind'
      BY <2>3, <1>h DEF ReadLease
    <3>1. CASE Stop(t)
      BY <3>0, <3>1, <2>d DEF Handling
    <3>2. CASE Goto(t, "scan") /\ lease[t] = None
      <4>1. op'[t].step = "scan" /\ op'[t].goal = op[t].goal /\ op'[t].agent = op[t].agent
        BY <3>2, <1>a, GotoControl
      <4> QED BY <3>0, <3>2, <4>1 DEF Backing
    <3>3. CASE /\ Goto(t, IF mode[op[t].agent] = "control" THEN "granted" ELSE "release")
               /\ lease[t] # None /\ lease[t].owner = op[t].agent
      <4>1. /\ op'[t].step = IF mode[op[t].agent] = "control" THEN "granted" ELSE "release"
            /\ op'[t].goal = op[t].goal /\ op'[t].agent = op[t].agent
        BY <3>3, <1>a, GotoControl
      <4>2. mode[op[t].agent] = "control" => op[t].agent \in Behind
        BY <3>0, <1>z, <1>p DEF Behind
      <4> QED BY <3>0, <3>3, <4>1, <4>2 DEF Backing, Handled, Handling
    <3> QED BY <2>3, <3>1, <3>2, <3>3 DEF ReadLease
  <2>4. CASE Scan(t)
    <3>0. /\ op[t].step = "scan" /\ lease' = lease /\ index' = index /\ Behind \subseteq Behind'
          /\ lease[t] = None
      BY <2>4, <1>h DEF Scan, Backing
    <3>1. ASSUME NEW todo, Move(t, "disable", todo, {}, {}) PROVE Backing(t)'
      <4>1. op'[t].step = "disable" /\ op'[t].goal = op[t].goal /\ op'[t].agent = op[t].agent
        BY <3>1, <1>a, MoveControl
      <4> QED BY <3>0, <4>1 DEF Backing
    <3> QED BY <2>4, <3>0, <3>1, <2>d DEF Scan
  <2>5. CASE AllDisabled(t)
    <3>1. /\ op[t].step = "disable" /\ lease' = lease /\ index' = index /\ Behind \subseteq Behind'
          /\ op'[t].step \in {"commit", "confirm"} /\ op'[t].goal = op[t].goal
          /\ op'[t].agent = op[t].agent
      BY <2>5, <1>a, <1>h, GotoControl DEF AllDisabled
    <3> QED BY <3>1, <2>k, <1>y DEF RelyOf, Handling, Acquiring, Backing
  <2>6. CASE Checkpoint(t)
    <3>0. op[t].step \in {"journal", "commit"} /\ index' = index /\ Behind \subseteq Behind'
      BY <2>6, <1>h DEF Checkpoint
    <3>1. CASE lease[t] # None /\ lease[t].owner # op[t].agent
      BY <2>6, <3>0, <3>1, <1>y DEF RelyOf, Acquiring
    <3>2. CASE ~ (lease[t] # None /\ lease[t].owner # op[t].agent)
      <4>1. /\ lease' = [lease EXCEPT ![t] = [owner |-> op[t].agent, disabled |-> op[t].held]]
            /\ Goto(t, IF op[t].step = "journal" THEN "index" ELSE "publish")
        BY <2>6, <3>2 DEF Checkpoint
      <4>2. lease'[t].owner = op[t].agent
        BY <4>1, <1>i
      <4>3. /\ op'[t].step \in {"index", "publish"} /\ op'[t].goal = op[t].goal
            /\ op'[t].agent = op[t].agent
        BY <4>1, <1>a, GotoControl
      <4> QED BY <3>0, <4>2, <4>3 DEF Backing, Handled, Handling
    <3> QED BY <3>1, <3>2
  <2>7. CASE AddToIndex(t)
    <3>0. /\ op[t].step \in {"index", "publish"} /\ lease' = lease /\ Behind \subseteq Behind'
          /\ op[t].goal \in {"enter", "submit"}
          /\ lease[t] # None => lease[t].owner = op[t].agent
      BY <2>7, <1>h, <1>y DEF AddToIndex, Backing, RelyOf, Acquiring, Owning
    <3>1. CASE \/ op[t].step = "index" /\ Goto(t, "disable")
               \/ op[t].step = "publish" /\ op[t].goal = "enter" /\ Goto(t, "mode")
      <4>1. /\ op'[t].step \in {"disable", "mode"} /\ op'[t].goal = op[t].goal
            /\ op'[t].agent = op[t].agent /\ (op'[t].step = "mode" => op[t].goal = "enter")
        BY <3>1, <1>a, GotoControl
      <4> QED BY <3>0, <4>1, <2>k DEF Handling
    <3>2. CASE op[t].goal = "submit" /\ (Goto(t, "granted") \/ Stop(t))
      <4>1. op[t].agent \in Behind
        BY <3>2 DEF Backing
      <4>2. CASE Goto(t, "granted")
        <5>1. op'[t].step = "granted" /\ op'[t].goal = op[t].goal /\ op'[t].agent = op[t].agent
          BY <4>2, <1>a, GotoControl
        <5> QED BY <3>0, <4>1, <5>1 DEF Backing
      <4>3. CASE Stop(t)
        <5>1. op'[t] = Idle
          BY <4>3, <1>a, PutControl DEF Stop
        <5> QED BY <3>0, <4>1, <5>1, <1>a DEF Backing
      <4> QED BY <3>2, <4>2, <4>3
    <3>3. CASE op[t].step = "index"
      BY <2>7, <3>1, <3>3 DEF AddToIndex
    <3>4. CASE op[t].step = "publish" /\ op[t].goal = "enter"
      BY <2>7, <3>1, <3>4 DEF AddToIndex
    <3>5. CASE op[t].step = "publish" /\ op[t].goal = "submit"
      BY <2>7, <3>2, <3>5 DEF AddToIndex
    <3> QED BY <3>0, <3>3, <3>4, <3>5
  <2>8. CASE Confirm(t)
    <3>0. /\ op[t].step = "confirm" /\ lease' = lease /\ index' = index /\ Behind \subseteq Behind'
          /\ op[t].goal \in {"enter", "submit"}
      BY <2>8, <1>h DEF Confirm, Backing
    <3>1. CASE Goto(t, "commit")
      <4>1. op'[t].step = "commit" /\ op'[t].goal = op[t].goal /\ op'[t].agent = op[t].agent
        BY <3>1, <1>a, GotoControl
      <4> QED BY <3>0, <4>1, <2>k, <1>y DEF RelyOf, Handling, Acquiring
    <3> QED BY <2>8, <3>0, <3>1, <2>r DEF Confirm, Acquiring
  <2>9. CASE RollbackDone(t)
    <3>1. CASE op[t].failed = {}
      <4>1. lease'[t] = None /\ Goto(t, "unwind") /\ Behind \subseteq Behind'
        BY <2>9, <3>1, <1>i, <1>h DEF RollbackDone, ClearRecord
      <4>2. op'[t].step = "unwind" /\ op'[t].goal = op[t].goal /\ op'[t].agent = op[t].agent
        BY <4>1, <1>a, GotoControl
      <4> QED BY <4>1, <4>2 DEF Backing
    <3>2. CASE op[t].failed # {}
      BY <2>9, <3>2, <1>k DEF RollbackDone
    <3> QED BY <3>1, <3>2
  <2>10. CASE CommitMode(t)
    <3>0. op[t].step = "mode" /\ lease' = lease /\ index' = index /\ waiting' = waiting
      BY <2>10 DEF CommitMode
    <3>1. CASE mode' = [mode EXCEPT ![op[t].agent] = Committed(@, op[t].goal)] /\ Stop(t)
      <4>1. op'[t] = Idle
        BY <3>1, <1>a, PutControl DEF Stop
      <4>2. CASE op[t].goal = "enter"
        <5>1. op[t].agent \in Agents /\ lease[t].owner = op[t].agent
          BY <3>0, <4>2, <1>y, <1>z, <1>p DEF RelyOf, Owning
        <5>2. mode'[op[t].agent] \in {"control", "gone"}
          BY <3>1, <4>2, <5>1 DEF Committed, TypeOK
        <5>3. op[t].agent \in Behind'
          BY <5>1, <5>2 DEF Behind
        <5> QED BY <3>0, <4>1, <5>1, <5>3, <1>a DEF Backing
      <4>3. CASE op[t].goal # "enter"
        BY <3>0, <4>1, <4>3, <1>a DEF Backing
      <4> QED BY <4>2, <4>3
    <3>2. CASE mode' = mode /\ Put(t, IF op[t].goal = "enter"
                                      THEN Start(op[t].agent, "suspend", "release") ELSE Idle)
      <4>0. Behind \subseteq Behind'
        BY <3>0, <3>2, <1>h
      <4>1. CASE op[t].goal = "enter"
        <5>1. /\ op'[t].step = "release" /\ op'[t].goal = "suspend"
              /\ op'[t].agent = op[t].agent
          BY <3>2, <4>1, <1>a, PutControl, StartFields
        <5>2. lease[t].owner = op[t].agent
          BY <3>0, <4>1, <1>y DEF RelyOf, Owning
        <5> QED BY <3>0, <5>1, <5>2 DEF Backing, Handled, Handling
      <4>2. CASE op[t].goal # "enter"
        <5>1. op'[t] = Idle
          BY <3>2, <4>2, <1>a, PutControl
        <5> QED BY <3>0, <4>2, <5>1, <1>a DEF Backing
      <4> QED BY <4>1, <4>2
    <3> QED BY <2>10, <3>1, <3>2 DEF CommitMode
  <2>11. CASE Dispatch(t)
    BY <2>11, <2>d, <1>h DEF Dispatch, Handling
  <2> QED BY <1>3, <2>1, <2>2, <2>3, <2>4, <2>5, <2>6, <2>7, <2>8, <2>9, <2>10, <2>11 DEF AcquireStep
<1>4. ASSUME ReleaseStep(t) PROVE Backing(t)'
  <2>t. op[t].step # "idle" => Tgt(t) = t
    BY <1>z, <1>p DEF Tgt
  <2>h. Behind \subseteq Behind'
    BY <1>4, <1>h DEF ReleaseStep, RestoreOne, RestoreRaises, Release, Settle, RemoveFromIndex,
                      AfterRelease
  <2>a. ASSUME AfterRelease(t), op[t].step # "idle", lease' = lease, lease[t] = None PROVE Backing(t)'
    <3>1. CASE op'[t] = Start(op[t].agent, op[t].goal, "scan") /\ op[t].goal \in {"enter", "submit"}
      BY <3>1, <2>a, <2>h, StartFields DEF Backing
    <3>2. CASE op'[t] = Start(op[t].agent, op[t].goal, "mode") /\ op[t].goal \in {"leave", "disable"}
      BY <3>2, <2>a, <2>h, StartFields DEF Backing
    <3>3. CASE op'[t] = Idle
      BY <3>3, <2>a, <1>a DEF Backing
    <3> QED BY <3>1, <3>2, <3>3, <2>a, <1>a, PutControl DEF AfterRelease
  <2>1. ASSUME NEW x \in Autos, RestoreOne(t, x) \/ RestoreRaises(t, x) PROVE Backing(t)'
    <3>1. /\ op[t].step \in {"rollback", "restore"} /\ lease' = lease /\ index' = index
          /\ op'[t].step = op[t].step /\ op'[t].goal = op[t].goal /\ op'[t].agent = op[t].agent
      BY <2>1, <1>a, MoveControl DEF RestoreOne, RestoreRaises
    <3> QED BY <3>1, <2>h DEF Backing, Handled
  <2>3. CASE Release(t)
    <3>0. op[t].step = "release" /\ Tgt(t) = t /\ lease' = lease /\ index' = index
      BY <2>3, <2>t DEF Release
    <3>1. CASE lease[t] = None
      BY <2>3, <3>0, <3>1, <2>a DEF Release
    <3>2. CASE lease[t] # None /\ lease[t].owner # op[t].agent
      <4>1. op'[t] = Idle
        BY <2>3, <3>0, <3>2, <1>a, PutControl DEF Release, Stop
      <4> QED BY <3>0, <3>2, <4>1, <2>h, <1>a DEF Backing, Handled
    <3>3. CASE lease[t] # None /\ lease[t].owner = op[t].agent
      <4>1. Move(t, "restore", {x \in lease[t].disabled : seen[x] # "on"}, {}, {})
        BY <2>3, <3>0, <3>3 DEF Release
      <4>2. op'[t].step = "restore" /\ op'[t].goal = op[t].goal /\ op'[t].agent = op[t].agent
        BY <4>1, <1>a, MoveControl
      <4> QED BY <3>0, <3>3, <4>2, <2>h DEF Backing, Handled, Handling
    <3> QED BY <3>1, <3>2, <3>3
  <2>4. CASE Settle(t)
    <3>0. Tgt(t) = t
      BY <2>4, <2>t DEF Settle
    <3>1. CASE op[t].failed = {}
      <4>1. lease'[t] = None /\ Goto(t, "unindex")
        BY <2>4, <3>0, <3>1, <1>i DEF Settle, ClearRecord
      <4>2. op'[t].step = "unindex" /\ op'[t].goal = op[t].goal /\ op'[t].agent = op[t].agent
        BY <4>1, <1>a, GotoControl
      <4> QED BY <4>1, <4>2, <2>h DEF Backing
    <3>2. CASE op[t].failed # {}
      BY <2>4, <3>0, <3>2, <1>k DEF Settle
    <3> QED BY <3>1, <3>2
  <2>5. CASE RemoveFromIndex(t)
    <3>1. lease[t] = None /\ lease' = lease /\ op[t].step # "idle"
      BY <2>5, <1>y DEF RemoveFromIndex, RelyOf
    <3>2. CASE Stop(t)
      BY <3>1, <3>2, <1>a, PutControl DEF Stop, Backing
    <3> QED BY <2>5, <3>1, <3>2, <2>a DEF RemoveFromIndex
  <2> QED BY <1>4, <2>1, <2>3, <2>4, <2>5 DEF ReleaseStep
<1>5. ASSUME NEW u \in Targets \ {t}, AcquireStep(u) PROVE Backing(t)'
  BY <1>5, <1>l, ApartAcquire
<1>6. ASSUME NEW p \in Procs \ {t}, ReleaseStep(p) PROVE Backing(t)'
  <2>1. op[p].step # "idle"
    BY <1>6 DEF ReleaseStep, RestoreOne, RestoreRaises, Release, Settle, RemoveFromIndex
  <2>2. p \in Targets /\ Tgt(p) = p
    BY <2>1, <1>a, ProcFacts DEF Shape, Procs
  <2> QED BY <1>6, <2>2, <1>l, ApartRelease
<1>7. CASE LifeStep \/ StartShutdown \/ Exit \/ Crash
  BY <1>7 DEF LifeStep, StartReconcile, FinishReconcile, SweepNext, StartShutdown, Exit, Crash,
              NewProcess, Shape
<1>8. ASSUME \/ \E x \in Autos : Observe(x)
             \/ \E a \in Agents : GatesChange(a)
      PROVE  Backing(t)'
  BY <1>8, <1>h, <1>u DEF Observe, GatesChange
<1>9. ASSUME NEW a \in Agents, Erase(a) PROVE Backing(t)'
  <2>1. Behind \subseteq Behind'
    BY <1>9 DEF Erase, Behind, TypeOK
  <2> QED BY <1>9, <2>1, <1>u DEF Erase
<1> QED
  BY <1>1, <1>2, <1>3, <1>4, <1>5, <1>6, <1>7, <1>8, <1>9 DEF Next

\* While the add-on starts up only the lifecycle thread is at work.
LEMMA SweepingStep ==
    ASSUME HandoffAssumption, TypeOK, Shape, JournalKeepsUp, ~Failures => NoneFailed, Next,
           phase = "reconcile" => \A u \in Targets : Sweeping(u),
           phase' = "reconcile", NEW t \in Targets
    PROVE  Sweeping(t)'
<1> USE DEF world, journal, config, lifecycle, Partial
<1>a. /\ op \in [Procs -> Ops] /\ Life \in Procs /\ Targets \subseteq Procs
      /\ Idle.goal = "none" /\ Idle.step = "idle"
  BY ProcFacts, IdleFields DEF Idle
<1>i. lease \in [Targets -> Leases \cup {None}] /\ None \notin Leases
  BY DEF TypeOK, HandoffAssumption
<1>n. lease[t] # None => lease[t].owner \in Agents /\ TargetOf[lease[t].owner] = t
  BY <1>i DEF Shape, Leases
\* A step of Life on the record of its agent.
<1>l. ASSUME phase = "reconcile", mode' = mode, sweep' = sweep,
             t \in index' => t \in index, lease'[t] = lease[t] \/ lease'[t] = None,
             \/ /\ op'[Life].agent = op[Life].agent
                /\ op[Life].step \in Handling => op'[Life].step \in Handling
             \/ lease'[t] = None
             \/ ~ Handled(Life, lease[t].owner)
      PROVE  Sweeping(t)'
  BY <1>l DEF Sweeping, Handled
<1>1. ASSUME NEW a \in Agents, Call(a) PROVE FALSE
  BY <1>1 DEF Call, Enter, Submit, Leave, Disable, Enable, Suspend, Demote, Delete, Serving
<1>2. ASSUME phase = "reconcile" PROVE waiting = {} /\ \A u \in Targets : op[u].step = "idle"
  BY <1>2, <1>a DEF Shape
<1>3. ASSUME NEW a \in Agents, Erase(a) \/ \E r \in Requests : Resume(r, a) PROVE FALSE
  BY <1>2, <1>3 DEF Resume, Erase
<1>4. ASSUME NEW u \in Targets, AcquireStep(u) PROVE FALSE
  <2>1. phase = "reconcile"
    BY <1>4 DEF AcquireStep, DisableOne, DisableRaises, ReadLease, Scan, AllDisabled, Checkpoint,
                AddToIndex, Confirm, RollbackDone, CommitMode, Dispatch
  <2> QED
    BY <1>2, <1>4, <2>1 DEF AcquireStep, DisableOne, DisableRaises, ReadLease, Scan, AllDisabled,
                Checkpoint, AddToIndex, Confirm, RollbackDone, CommitMode, Dispatch
<1>5. ASSUME NEW p \in Procs, ReleaseStep(p) PROVE Sweeping(t)'
  <2>1. phase = "reconcile" /\ op[p].step # "idle"
    BY <1>5 DEF ReleaseStep, RestoreOne, RestoreRaises, Release, Settle, RemoveFromIndex
  <2>2. p = Life
    BY <1>2, <2>1 DEF Procs
  <2>3. /\ op[Life] # Idle /\ op[Life].goal = "sweep" /\ op[Life].step # "unwind"
        /\ Tgt(Life) \in Targets /\ op[Life].step # "rollback"
    BY <1>a, <2>1, <2>2, ProcFacts DEF Shape
  <2>4. op[Life].step # "idle" => RelyOf(op[Life], lease[Tgt(Life)])
    BY <1>a, <2>1, <2>3 DEF JournalKeepsUp
  <2>5. Handled(Life, lease[t].owner) /\ lease[t] # None => Tgt(Life) = t
    BY <1>n DEF Handled, Tgt
  <2>6. ASSUME NEW x \in Autos, RestoreOne(Life, x) PROVE Sweeping(t)'
    BY <2>1, <2>6, <1>a, <1>l, MoveControl DEF RestoreOne
  <2>7. ASSUME NEW x \in Autos, RestoreRaises(Life, x) PROVE Sweeping(t)'
    BY <2>1, <2>7, <1>a, <1>l, MoveControl DEF RestoreRaises
  <2>8. CASE Release(Life)
    <3>1. CASE Move(Life, "restore", {x \in lease[Tgt(Life)].disabled : seen[x] # "on"}, {}, {})
      BY <2>1, <2>8, <3>1, <1>a, <1>l, MoveControl DEF Release, Handling
    <3>2. CASE ~ Move(Life, "restore", {x \in lease[Tgt(Life)].disabled : seen[x] # "on"}, {}, {})
      <4>1. lease[Tgt(Life)] = None \/ lease[Tgt(Life)].owner # op[Life].agent
        BY <2>8, <3>2 DEF Release
      <4>2. lease[t] = None \/ ~ Handled(Life, lease[t].owner)
        BY <2>5, <4>1 DEF Handled
      <4> QED BY <2>1, <2>8, <4>2, <1>l DEF Release
    <3> QED BY <3>1, <3>2
  <2>9. CASE Settle(Life)
    <3>1. CASE op[Life].failed = {}
      <4>1. lease' = [lease EXCEPT ![Tgt(Life)] = None]
        BY <2>9, <3>1 DEF Settle, ClearRecord
      <4>2. lease'[Tgt(Life)] = None /\ \A u \in Targets \ {Tgt(Life)} : lease'[u] = lease[u]
        BY <4>1, <2>3, <1>i
      <4> QED BY <2>1, <2>5, <2>9, <4>2, <1>l DEF Settle
    <3>2. CASE op[Life].failed # {}
      <4>1. Failures
        BY <3>2, <1>a DEF NoneFailed
      <4>2. KeepRemaining(Tgt(Life), op[Life].failed) /\ index' = index /\ mode' = mode /\ sweep' = sweep
        BY <2>9, <3>2 DEF Settle
      <4>3. CASE t = Tgt(Life)
        <5>1. lease'[t] # None => lease'[t].disabled = op[Life].failed
          BY <4>2, <4>3, <1>i DEF KeepRemaining
        <5> QED BY <3>2, <4>1, <5>1 DEF Sweeping
      <4>4. CASE t # Tgt(Life)
        <5>1. lease'[t] = lease[t]
          BY <4>2, <4>4, <1>i DEF KeepRemaining
        <5> QED BY <2>1, <2>5, <2>9, <4>2, <4>4, <5>1, <1>l
      <4> QED BY <4>3, <4>4
    <3> QED BY <3>1, <3>2
  <2>10. CASE RemoveFromIndex(Life)
    <3>1. lease[Tgt(Life)] = None
      BY <2>1, <2>2, <2>4, <2>10 DEF RemoveFromIndex, RelyOf
    <3> QED BY <2>1, <2>5, <2>10, <3>1, <1>l DEF RemoveFromIndex
  <2> QED BY <1>5, <2>2, <2>6, <2>7, <2>8, <2>9, <2>10 DEF ReleaseStep
<1>6. CASE StartReconcile
  BY <1>6, <1>n DEF StartReconcile, Sweeping, Journalled
<1>7. CASE FinishReconcile \/ StartShutdown \/ Exit \/ Crash
  BY <1>7 DEF FinishReconcile, StartShutdown, Exit, Crash, NewProcess
<1>8. ASSUME NEW u \in Targets, NEW a \in Agents, SweepNext(u, a) PROVE Sweeping(t)'
  <2>1. /\ phase = "reconcile" /\ op[Life] = Idle /\ sweep' = sweep \ {<<u, a>>}
        /\ mode' = mode /\ lease' = lease /\ index' = index
    BY <1>8 DEF SweepNext
  <2>2. ~ Handled(Life, lease[t].owner)
    BY <2>1, <1>a DEF Handled, Handling
  <2>3. CASE <<t, lease[t].owner>> # <<u, a>>
    BY <2>1, <2>2, <2>3 DEF Sweeping
  <2>4. CASE <<t, lease[t].owner>> = <<u, a>>
    <3>1. CASE Active(a)
      BY <2>1, <2>4, <3>1 DEF Sweeping, Active
    <3>2. CASE ~ Active(a)
      <4>1. op'[Life].agent = a /\ op'[Life].step = "release"
        BY <1>8, <2>1, <3>2, <1>a, PutControl, StartFields DEF SweepNext
      <4> QED BY <2>1, <2>4, <4>1 DEF Sweeping, Handled, Handling
    <3> QED BY <3>1, <3>2
  <2> QED BY <2>3, <2>4
<1>9. ASSUME \/ \E x \in Autos : Observe(x)
             \/ \E a \in Agents : GatesChange(a)
      PROVE  Sweeping(t)'
  BY <1>9 DEF Observe, GatesChange, Sweeping, Handled
<1> QED
  BY <1>1, <1>3, <1>4, <1>5, <1>6, <1>7, <1>8, <1>9 DEF Next, LifeStep

LEMMA BackStep ==
    ASSUME HandoffAssumption, TypeOK, Shape, JournalKeepsUp, BackInv, Next
    PROVE  BackInv'
<1>1. ~Failures => NoneFailed'
  BY NoneFailedStep DEF BackInv
<1>2. ASSUME phase' = "ready", NEW t \in Targets PROVE Backing(t)'
  <2>1. CASE phase = "ready"
    BY <1>2, <2>1, BackingStep DEF BackInv
  <2>2. CASE phase # "ready"
    <3>1. FinishReconcile /\ op[t] = Idle
      BY <1>2, <2>2, BecomesReady
    <3>2. /\ phase = "reconcile" /\ sweep = {} /\ op[Life] = Idle
          /\ op' = op /\ lease' = lease /\ index' = index /\ mode' = mode
      BY <3>1 DEF FinishReconcile, SweepDone, journal, config
    <3>3. Idle.goal = "none" /\ Idle.step = "idle"
      BY DEF Idle
    <3>4. Sweeping(t)
      BY <3>2 DEF BackInv
    <3>5. ASSUME t \in index, lease[t] # None, ~ Partial(t) PROVE lease[t].owner \in Behind'
      <4>1. mode[lease[t].owner] \in {"control", "gone"}
        BY <3>2, <3>3, <3>4, <3>5 DEF Sweeping, Handled, Handling
      <4>2. lease[t].owner \in Agents
        BY <3>5 DEF TypeOK, Leases
      <4> QED BY <3>2, <4>1, <4>2 DEF Behind
    <3> QED BY <3>1, <3>2, <3>3, <3>5 DEF Backing, Partial
  <2> QED BY <2>1, <2>2
<1>3. ASSUME phase' = "reconcile", NEW t \in Targets PROVE Sweeping(t)'
  BY <1>3, SweepingStep DEF BackInv
<1> QED BY <1>1, <1>2, <1>3 DEF BackInv

LEMMA BackStutter ==
    ASSUME BackInv, UNCHANGED vars
    PROVE  BackInv'
<1>1. /\ op' = op /\ lease' = lease /\ index' = index /\ mode' = mode /\ waiting' = waiting
      /\ phase' = phase /\ sweep' = sweep
  BY DEF vars
<1>2. Behind' = Behind
  BY <1>1 DEF Behind
<1>3. \A t \in Targets : (Backing(t) => Backing(t)') /\ (Sweeping(t) => Sweeping(t)')
  BY <1>1, <1>2 DEF Backing, Sweeping, Handled, Partial
<1> QED BY <1>1, <1>3 DEF BackInv, NoneFailed

LEMMA BackInit ==
    ASSUME HandoffAssumption, Init
    PROVE  BackInv
<1>1. /\ \A p \in Procs : op[p] = Idle
      /\ Targets \subseteq Procs /\ index = {} /\ phase = "ready"
  BY DEF Init, Procs
<1>2. Idle.goal = "none" /\ Idle.step = "idle" /\ Idle.failed = {}
  BY DEF Idle
<1>3. \A t \in Targets : Backing(t)
  BY <1>1, <1>2 DEF Backing
<1> QED BY <1>1, <1>2, <1>3 DEF BackInv, NoneFailed

\* No crash, restart, PATCH or DELETE leaves a target with a lease that nobody needs:
\* what reconcile keeps and what a finished operation leaves belongs to an agent in
\* Control or, where calls fail, names the automations that could not be restored.
THEOREM LeasesBackControl == Spec => []LeaseBacksControl
<1>1. Init => BackInv
  BY BackInit, HandoffAssumption
<1>2. ASSUME IInv, BackInv, [Next]_vars PROVE BackInv'
  <2>1. CASE Next
    BY <1>2, <2>1, BackStep, HandoffAssumption DEF IInv
  <2>2. CASE UNCHANGED vars
    BY <1>2, <2>2, BackStutter
  <2> QED BY <1>2, <2>1, <2>2
<1>3. ASSUME IInv, BackInv PROVE LeaseBacksControl
  <2>1. SUFFICES ASSUME NEW t \in index, phase = "ready", op[t] = Idle, lease[t] # None,
                        mode[lease[t].owner] # "gone",
                        \A r \in Requests : <<r, lease[t].owner>> \notin waiting
                 PROVE  \/ mode[lease[t].owner] = "control"
                        \/ Failures /\ lease[t].disabled # {}
    BY DEF LeaseBacksControl
  <2>2. t \in Targets /\ op[t].step = "idle"
    BY <1>3, <2>1, IdleFields DEF IInv, TypeOK
  <2>3. lease[t].owner \in Behind \/ Partial(t)
    BY <1>3, <2>1, <2>2 DEF BackInv, Backing, Handled, Handling
  <2> QED BY <2>1, <2>3 DEF Behind, Partial
<1> QED
  BY <1>1, <1>2, <1>3, HandoffInvariant, PTL DEF Spec
=============================================================================
