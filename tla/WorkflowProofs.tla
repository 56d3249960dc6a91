---------------------------- MODULE WorkflowProofs ----------------------------
(***************************************************************************)
(* Proofs about WorkflowRequests, for every set of requests, generations,  *)
(* labels and clients and every number of restarts.  IInv is inductive;    *)
(* the invariants of the runs and the finality of outcomes follow.   *)
(***************************************************************************)
EXTENDS WorkflowRequests, TLAPS

LEMMA WorkflowInit == Init => IInv
<1> SUFFICES ASSUME Init PROVE IInv
  OBVIOUS
<1>1. AtTop \in Locals /\ AtTop.step = "top"
  BY DEF AtTop, Locals, Steps
<1>2. <<>> \in Seq(Ids) /\ 0 \in 0 .. MaxDeaths
  BY WorkflowAssumption DEF WorkflowAssumption
<1>3. TypeOK
  BY <1>1, <1>2 DEF Init, TypeOK
<1>4. Hand /\ OneInHand /\ Progress /\ Committed /\ Counted
  BY <1>1 DEF Init, Hand, OneInHand, Progress, Committed, Counted, Working
<1> QED BY <1>3, <1>4 DEF IInv

\* Steps of clients and users do not touch what the worker relies on.
LEMMA OutsidersKeep ==
    ASSUME IInv,
           \/ \E c \in Clients : SetWake(c)
           \/ \E c \in Clients, i \in Ids, g \in Generations : Enqueue(c, i, g)
           \/ User
    PROVE  IInv'
<1>1. CASE \E c \in Clients : SetWake(c)
  BY <1>1 DEF SetWake, requests, operations, evidence, children, process, IInv,
     TypeOK, Hand, OneInHand, Progress, Committed, Counted
<1>2. ASSUME NEW c \in Clients, NEW i \in Ids, NEW g \in Generations,
             Enqueue(c, i, g)
      PROVE  IInv'
  <2>1. CASE state[i] # "none"
    BY <1>2, <2>1 DEF Enqueue, Admit, requests, operations, evidence, children,
       process, IInv, TypeOK, Hand, OneInHand, Progress, Committed, Counted
  <2>2. CASE state[i] = "none"
    <3>1. /\ state' = [state EXCEPT ![i] = "accepted"]
          /\ ref' = [ref EXCEPT ![i] = g]
          /\ order' = Append(order, i)
          /\ waking' = waking \cup {c}
          /\ UNCHANGED <<operations, evidence, children, wake, worker, process>>
      BY <1>2, <2>2 DEF Enqueue, Admit
    <3>2. TypeOK'
      BY <3>1 DEF IInv, TypeOK, operations, evidence, children, process
    <3>3. Hand'
      BY <2>2, <3>1 DEF IInv, TypeOK, Hand
    <3>4. OneInHand'
      BY <2>2, <3>1 DEF IInv, TypeOK, OneInHand
    <3>5. Progress' /\ Counted'
      BY <3>1 DEF IInv, Progress, Counted, operations, process
    <3>6. Committed'
      BY <3>1 DEF IInv, TypeOK, Committed, operations
    <3> QED BY <3>2, <3>3, <3>4, <3>5, <3>6 DEF IInv
  <2> QED BY <2>1, <2>2
<1>3. CASE User
  <2>2. UNCHANGED <<requests, operations, wake, waking, worker, process>>
    BY <1>3 DEF User, AddLabel, UndoLabel, OtherChild, ChildLeaves
  <2>3. /\ labels' \in [Generations -> SUBSET Labels]
        /\ fresh' \in [Generations -> SUBSET Labels]
        /\ child' \in [Generations -> Nat] /\ born' \in Nat
    <3>1. ASSUME NEW g \in Generations, NEW l \in Labels, AddLabel(g, l) PROVE <2>3
      BY <3>1 DEF AddLabel, children, IInv, TypeOK
    <3>2. ASSUME NEW g \in Generations, NEW l \in Labels, UndoLabel(g, l) PROVE <2>3
      BY <3>2 DEF UndoLabel, children, IInv, TypeOK
    <3>3. ASSUME NEW g \in Generations, OtherChild(g) PROVE <2>3
      BY <3>3 DEF OtherChild, evidence, IInv, TypeOK
    <3>4. ASSUME NEW g \in Generations, ChildLeaves(g) PROVE <2>3
      BY <3>4 DEF ChildLeaves, evidence, IInv, TypeOK
    <3> QED BY <1>3, <3>1, <3>2, <3>3, <3>4 DEF User
  <2>1. TypeOK'
    BY <2>2, <2>3 DEF requests, operations, process, IInv, TypeOK
  <2> QED BY <2>1, <2>2 DEF requests, operations, process, IInv, Hand, OneInHand,
          Progress, Committed, Counted
<1> QED BY <1>1, <1>2, <1>3

\* Steps that only move the worker from step to step of its loop.
LEMMA LoopKeeps ==
    ASSUME IInv, Clear \/ BeginWait \/ Awake \/ PollTimeout
    PROVE  IInv'
<1>1. /\ UNCHANGED <<requests, operations, evidence, children, waking, process>>
      /\ wake' \in BOOLEAN
      /\ worker.step \in {"top", "empty", "wait"}
  BY DEF Clear, BeginWait, Awake, PollTimeout, IInv, TypeOK
<1>2. \E s \in {"top", "claim", "wait"} : worker' = [worker EXCEPT !.step = s]
  BY DEF Clear, BeginWait, Awake, PollTimeout, Goto
<1>3. worker' \in Locals /\ worker'.step \in {"top", "claim", "wait"}
  BY <1>2 DEF IInv, TypeOK, Locals, Steps
<1>4. TypeOK'
  BY <1>1, <1>3 DEF IInv, TypeOK, requests, operations, evidence, children, process
<1>5. \A i \in Ids : state[i] # "processing"
  BY <1>1 DEF IInv, OneInHand, Working, TypeOK
<1>6. Hand' /\ OneInHand' /\ Progress' /\ Committed'
  BY <1>1, <1>3, <1>5 DEF IInv, requests, operations, Hand, OneInHand, Progress,
     Committed, Working
<1>7. Counted'
  BY <1>1, <1>3 DEF IInv, operations, process, Counted
<1> QED BY <1>4, <1>6, <1>7 DEF IInv

LEMMA ClaimKeeps == ASSUME IInv, Claim PROVE IInv'
<1>0. /\ worker.step = "claim"
      /\ UNCHANGED <<ref, order, operations, evidence, children, wake, waking,
                     process>>
  BY DEF Claim
<1>1. \A i \in Ids : state[i] # "processing"
  BY <1>0 DEF IInv, OneInHand, Working
<1>2. CASE Goto("empty") /\ UNCHANGED state
  <2>1. worker' \in Locals /\ worker'.step = "empty"
    BY <1>2 DEF IInv, TypeOK, Locals, Steps, Goto
  <2> QED BY <1>0, <1>1, <1>2, <2>1 DEF IInv, TypeOK, operations, evidence,
          children, process, Hand, OneInHand, Progress, Committed, Counted, Working
<1>3. ASSUME NEW n \in DOMAIN order, ClaimOldest(n) PROVE IInv'
  <2> DEFINE i == order[n]
  <2>1. i \in Ids
    BY <1>3 DEF IInv, TypeOK
  <2>2. /\ state[i] = "accepted"
        /\ state' = [state EXCEPT ![i] = "processing"]
        /\ worker' = [AtTop EXCEPT !.step = "look", !.id = i]
    BY <1>3 DEF ClaimOldest, Accepted
  <2>3. worker' \in Locals /\ worker'.step = "look" /\ worker'.id = i
    BY <2>1, <2>2 DEF AtTop, Locals, Steps
  <2> HIDE DEF i
  <2>4. TypeOK'
    BY <1>0, <2>1, <2>2, <2>3 DEF IInv, TypeOK, operations, evidence, children,
       process
  <2>5. Hand' /\ OneInHand'
    BY <1>0, <1>1, <2>1, <2>2, <2>3 DEF IInv, TypeOK, Hand, OneInHand, Working, Steps
  <2>6. Progress' /\ Committed'
    BY <1>0, <2>1, <2>2, <2>3 DEF IInv, TypeOK, operations, Progress, Committed
  <2>7. Counted'
    BY <1>0, <2>3 DEF IInv, operations, process, Counted
  <2> QED BY <2>4, <2>5, <2>6, <2>7 DEF IInv
<1> QED BY <1>2, <1>3 DEF Claim

\* Steps that change neither the request nor its operation.
LEMMA ReadingKeeps ==
    ASSUME IInv, Look \/ Select \/ Preflight \/ MakeChild \/ Mark
    PROVE  IInv'
<1> DEFINE i == worker.id
<1>0. /\ i \in Ids /\ state[i] = "processing" /\ ref[i] \in Generations
      /\ worker.step \in {"look", "select", "preflight", "child", "mark"}
  BY DEF Look, Select, Preflight, MakeChild, Mark, IInv, Hand, Working, Steps
<1>1. UNCHANGED <<requests, operations, evidence, wake, waking, process>>
  BY DEF Look, Select, Preflight, MakeChild, Mark
<1>2. UNCHANGED children \/ (born' = born + 1 /\ child' = [child EXCEPT ![ref[i]] = born + 1])
  BY DEF Look, Select, Preflight, MakeChild, Mark
<1>3. child' \in [Generations -> Nat] /\ born' \in Nat
  <2>1. child \in [Generations -> Nat] /\ born \in Nat
    BY DEF IInv, TypeOK
  <2>2. CASE UNCHANGED children
    BY <2>1, <2>2 DEF children
  <2>3. CASE born' = born + 1 /\ child' = [child EXCEPT ![ref[i]] = born + 1]
    BY <2>1, <2>3, <1>0
  <2> QED BY <1>2, <2>2, <2>3
<1>a. worker \in Locals /\ child[ref[i]] \in Nat /\ born + 1 \in Nat
  BY <1>0 DEF IInv, TypeOK
<1>4. /\ worker' \in Locals /\ worker'.id = i
      /\ worker'.step \in Working \ {"commit", "look"}
  <2>5. CASE Look \/ Mark
    BY <1>a, <2>5 DEF Look, Mark, Goto, Locals, Working, Steps
  <2>6. CASE Select
    <3>1. labels[ref[i]] \cap fresh[ref[i]] \in SUBSET Labels
      BY <1>0 DEF IInv, TypeOK
    <3> DEFINE c == labels[ref[i]] \cap fresh[ref[i]]
    <3>2. Goto("failed") \/ worker' = [worker EXCEPT !.step = "prepare", !.labels = c]
      BY <2>6 DEF Select
    <3> HIDE DEF c
    <3>3. c \in SUBSET Labels
      BY <3>1 DEF c
    <3>4. CASE Goto("failed")
      BY <1>a, <3>4 DEF Goto, Locals, Working, Steps
    <3>5. CASE worker' = [worker EXCEPT !.step = "prepare", !.labels = c]
      BY <1>a, <3>3, <3>5 DEF Locals, Working, Steps
    <3> QED BY <3>2, <3>4, <3>5
  <2>7. CASE Preflight
    <3>1. CASE Goto("abort")
      BY <1>a, <3>1 DEF Goto, Locals, Working, Steps
    <3>2. CASE worker' = [worker EXCEPT !.step = "child", !.child = child[ref[i]]]
      BY <1>a, <3>2 DEF Locals, Working, Steps
    <3> QED BY <2>7, <3>1, <3>2 DEF Preflight
  <2>8. CASE MakeChild
    <3>1. CASE Goto("abort")
      BY <1>a, <3>1 DEF Goto, Locals, Working, Steps
    <3>2. CASE worker' = [worker EXCEPT !.step = "record", !.child = child[ref[i]]]
      BY <1>a, <3>2 DEF Locals, Working, Steps
    <3>3. CASE worker' = [worker EXCEPT !.step = "record", !.child = born + 1]
      BY <1>a, <3>3 DEF Locals, Working, Steps
    <3> QED BY <2>8, <3>1, <3>2, <3>3 DEF MakeChild
  <2> QED BY <2>5, <2>6, <2>7, <2>8
<1>5. TypeOK'
  BY <1>1, <1>3, <1>4 DEF IInv, TypeOK, requests, operations, evidence, process
<1>6. Hand' /\ OneInHand' /\ Committed'
  BY <1>0, <1>1, <1>4 DEF IInv, requests, operations, Hand, OneInHand, Committed,
     Working
<1>7. Progress'
  <2>1. CASE Look
    <3>1. \/ worker'.step = "mark" /\ operation[i] = "committed"
          \/ worker'.step = "select" /\ operation[i] # "committed"
          \/ worker'.step = "failed"
      BY <1>0, <1>a, <2>1 DEF Look, Replayed, Goto, IInv, Committed, Locals
    <3> QED BY <1>1, <1>4, <3>1 DEF Progress, operations
  <2>2. CASE Select
    <3>1. /\ operation[i] # "committed"
          /\ \/ worker'.step = "failed"
             \/ worker'.step = "prepare" /\ worker'.labels # {}
      BY <1>a, <2>2 DEF Select, Goto, IInv, Progress, Locals
    <3> QED BY <1>1, <1>4, <3>1 DEF Progress, operations
  <2>3. CASE Preflight
    <3>1. /\ operation[i] = "prepared" /\ labelsOf[i] # {}
          /\ worker'.step \in {"child", "abort"}
      BY <1>a, <2>3 DEF Preflight, Goto, IInv, Progress, Locals
    <3> QED BY <1>1, <1>4, <3>1 DEF Progress, operations
  <2>4. CASE MakeChild
    <3>1. operation[i] = "prepared" /\ labelsOf[i] # {}
      BY <2>4 DEF MakeChild, IInv, Progress
    <3>2. \/ worker'.step = "record" /\ worker'.child # 0
          \/ worker'.step = "abort"
      <4>1. \/ Goto("abort")
            \/ /\ child[ref[i]] # 0
               /\ worker' = [worker EXCEPT !.step = "record", !.child = child[ref[i]]]
            \/ worker' = [worker EXCEPT !.step = "record", !.child = born + 1]
        BY <2>4 DEF MakeChild
      <4>2. born + 1 # 0
        BY DEF IInv, TypeOK
      <4> QED BY <1>a, <4>1, <4>2 DEF Goto, Locals
    <3> QED BY <1>1, <1>4, <3>1, <3>2 DEF Progress, operations
  <2>5. CASE Mark
    <3>1. operation[i] = "committed" /\ worker'.step \in {"done", "failed"}
      BY <1>a, <2>5 DEF Mark, Goto, IInv, Progress, Locals
    <3> QED BY <1>1, <1>4, <3>1 DEF Progress, operations
  <2> QED BY <2>1, <2>2, <2>3, <2>4, <2>5
<1>8. Counted'
  BY <1>0, <1>1, <1>4 DEF IInv, operations, process, Counted
<1> QED BY <1>5, <1>6, <1>7, <1>8 DEF IInv

\* Steps that write the operation of the request in hand.
LEMMA WritingKeeps ==
    ASSUME IInv, Prepare \/ Record \/ Commit \/ Abort
    PROVE  IInv'
<1> DEFINE i == worker.id
<1>0. /\ i \in Ids /\ state[i] = "processing" /\ ref[i] \in Generations
      /\ worker \in Locals
  BY DEF Prepare, Record, Commit, Abort, IInv, TypeOK, Hand, Working, Steps
<1>1. UNCHANGED <<requests, labels, children, wake, waking, process>>
  BY DEF Prepare, Record, Commit, Abort, evidence
<1>2. /\ worker' \in Locals /\ worker'.id = i /\ worker'.step \in Working
      /\ worker'.labels = worker.labels /\ worker'.child = worker.child
  BY <1>0 DEF Prepare, Record, Commit, Abort, Goto, Locals, Steps, Working
<1>3. TypeOK'
  <2>1. CASE Prepare
    BY <2>1, <1>0, <1>1, <1>2 DEF Prepare, IInv, TypeOK, Locals, requests, evidence,
       children, process
  <2>2. CASE Record
    BY <2>2, <1>0, <1>1, <1>2 DEF Record, IInv, TypeOK, requests, operations,
       evidence, children, process
  <2>3. CASE Commit
    BY <2>3, <1>0, <1>1, <1>2 DEF Commit, IInv, TypeOK, Locals, requests, children,
       process
  <2>4. CASE Abort
    BY <2>4, <1>0, <1>1, <1>2 DEF Abort, IInv, TypeOK, requests, evidence, children,
       process
  <2> QED BY <2>1, <2>2, <2>3, <2>4
<1>4. Hand' /\ OneInHand'
  BY <1>0, <1>1, <1>2 DEF IInv, requests, Hand, OneInHand
<1>5. Progress' /\ Committed' /\ Counted'
  <2>1. CASE Prepare
    <3>1. /\ operation' = [operation EXCEPT ![i] = "prepared"]
          /\ labelsOf' = [labelsOf EXCEPT ![i] = worker.labels]
          /\ childOf' = [childOf EXCEPT ![i] = 0]
          /\ acted' = acted /\ worker'.step = "preflight"
          /\ operation[i] # "committed" /\ worker.labels # {}
          /\ worker.step = "prepare"
      BY <2>1, <1>0 DEF Prepare, Goto, IInv, Progress, Locals
    <3>2. Progress' /\ Committed'
      BY <3>1, <1>0, <1>1, <1>2 DEF IInv, TypeOK, Progress, Committed, requests
    <3>3. Counted'
      BY <3>1, <1>0, <1>1, <1>2 DEF IInv, TypeOK, Counted, process
    <3> QED BY <3>2, <3>3
  <2>2. CASE Record
    <3>1. /\ UNCHANGED <<operation, labelsOf, childOf>>
          /\ operation[i] = "prepared" /\ labelsOf[i] # {} /\ worker.child # 0
          /\ worker.step = "record"
      BY <2>2 DEF Record, IInv, Progress
    <3>2. \/ worker'.step = "commit" /\ acted' = [acted EXCEPT ![i] = @ + 1]
          \/ worker'.step = "abort" /\ acted' = acted
      BY <2>2, <1>0 DEF Record, Goto, Locals
    <3>3. Progress'
      BY <3>1, <3>2, <1>0, <1>1, <1>2 DEF Progress
    <3>5. Committed'
      BY <3>1, <1>1 DEF IInv, Committed, requests
    <3>4. Counted'
      <4>1. cut' = cut /\ acted[i] <= cut[i] /\ acted[i] \in Nat /\ cut[i] \in Nat
        BY <3>1, <1>0, <1>1 DEF IInv, TypeOK, Counted, process
      <4>2. CASE worker'.step = "abort" /\ acted' = acted
        BY <4>1, <4>2, <3>1, <1>2 DEF IInv, Counted
      <4>3. CASE worker'.step = "commit" /\ acted' = [acted EXCEPT ![i] = @ + 1]
        <5>1. acted'[i] <= cut[i] + 1
          BY <4>1, <4>3, <1>0 DEF IInv, TypeOK
        <5>2. \A k \in Ids \ {i} : acted'[k] = acted[k]
          BY <4>3, <1>0 DEF IInv, TypeOK
        <5> QED BY <4>1, <4>3, <5>1, <5>2, <3>1, <1>2 DEF IInv, Counted
      <4> QED BY <3>2, <4>2, <4>3
    <3> QED BY <3>3, <3>4, <3>5
  <2>3. CASE Commit
    <3>1. /\ operation' = [operation EXCEPT ![i] = "committed"]
          /\ childOf' = [childOf EXCEPT ![i] = worker.child]
          /\ UNCHANGED <<labelsOf, acted>> /\ worker'.step = "mark"
          /\ labelsOf[i] # {} /\ worker.child # 0
          /\ worker.step = "commit"
      BY <2>3, <1>0 DEF Commit, Goto, IInv, Progress, Locals
    <3>2. Progress' /\ Committed'
      BY <3>1, <1>0, <1>1, <1>2 DEF IInv, TypeOK, Progress, Committed, requests
    <3>3. Counted'
      BY <3>1, <1>0, <1>1, <1>2 DEF IInv, TypeOK, Counted, process
    <3> QED BY <3>2, <3>3
  <2>4. CASE Abort
    <3>1. /\ operation' = [operation EXCEPT ![i] = "failed"]
          /\ UNCHANGED <<labelsOf, childOf, acted>> /\ worker'.step = "failed"
          /\ operation[i] # "committed" /\ worker.step = "abort"
      BY <2>4, <1>0 DEF Abort, Goto, IInv, Progress, Locals
    <3>2. Progress' /\ Committed'
      BY <3>1, <1>0, <1>1, <1>2 DEF IInv, TypeOK, Progress, Committed, requests
    <3>3. Counted'
      BY <3>1, <1>0, <1>1, <1>2 DEF IInv, TypeOK, Counted, process
    <3> QED BY <3>2, <3>3
  <2> QED BY <2>1, <2>2, <2>3, <2>4
<1> QED BY <1>3, <1>4, <1>5 DEF IInv

LEMMA FinishKeeps == ASSUME IInv, Finish PROVE IInv'
<1> DEFINE i == worker.id
<1>0. /\ i \in Ids /\ state[i] = "processing"
      /\ worker.step \in {"done", "failed"}
      /\ state' = [state EXCEPT ![i] = worker.step]
      /\ worker' = AtTop
      /\ UNCHANGED <<ref, order, operations, evidence, children, wake, waking,
                     process>>
  BY DEF Finish, IInv, Hand, Working, Steps
<1>1. AtTop \in Locals /\ AtTop.step = "top"
  BY DEF AtTop, Locals, Steps
<1>2. TypeOK'
  BY <1>0, <1>1 DEF IInv, TypeOK, operations, evidence, children, process
<1>3. Hand' /\ OneInHand'
  BY <1>0, <1>1 DEF IInv, TypeOK, Hand, OneInHand, Working
<1>4. Progress' /\ Committed'
  BY <1>0, <1>1 DEF IInv, TypeOK, Progress, Committed, operations
<1>5. Counted'
  BY <1>0, <1>1 DEF IInv, Counted, operations, process
<1> QED BY <1>2, <1>3, <1>4, <1>5 DEF IInv

LEMMA RestartKeeps == ASSUME IInv, Restart PROVE IInv'
<1>1. AtTop \in Locals /\ AtTop.step = "top"
  BY DEF AtTop, Locals, Steps
<1>2. /\ state' = Recovered /\ worker' = AtTop
      /\ UNCHANGED <<ref, order, operations, evidence, children>>
      /\ deaths < MaxDeaths /\ deaths' = deaths + 1
      /\ wake' = FALSE /\ waking' = {}
  BY DEF Restart
<1>3. worker.step = "commit" => worker.id \in Ids
  BY DEF IInv, Hand, Working, Steps
<1>4. cut' \in [Ids -> Nat]
  BY <1>3 DEF Restart, IInv, TypeOK
<1>5. TypeOK'
  <2>1. state' \in [Ids -> {"none", "accepted", "processing", "done", "failed"}]
    BY <1>2 DEF Recovered, IInv, TypeOK
  <2>2. deaths' \in 0 .. MaxDeaths
    BY <1>2, WorkflowAssumption DEF WorkflowAssumption, IInv, TypeOK
  <2> QED BY <1>1, <1>2, <1>4, <2>1, <2>2 DEF IInv, TypeOK, operations, evidence,
          children
<1>6. Hand' /\ OneInHand' /\ Committed' /\ Progress'
  BY <1>1, <1>2 DEF Recovered, IInv, TypeOK, Hand, OneInHand, Committed, Progress,
     operations, Working
<1>7. Counted'
  <2>1. CASE worker.step = "commit"
    BY <1>1, <1>2, <1>3, <2>1 DEF Restart, IInv, TypeOK, Counted, Progress, operations
  <2>2. CASE worker.step # "commit"
    BY <1>1, <1>2, <2>2 DEF Restart, IInv, TypeOK, Counted, operations
  <2> QED BY <2>1, <2>2
<1> QED BY <1>5, <1>6, <1>7 DEF IInv

LEMMA WorkflowStep == IInv /\ [Next]_vars => IInv'
<1> SUFFICES ASSUME IInv, [Next]_vars PROVE IInv'
  OBVIOUS
<1>1. CASE UNCHANGED vars
  BY <1>1 DEF vars, requests, operations, evidence, children, process, IInv, TypeOK,
     Hand, OneInHand, Progress, Committed, Counted
<1>2. CASE Next
  BY <1>2, OutsidersKeep, LoopKeeps, ClaimKeeps, ReadingKeeps, WritingKeeps,
     FinishKeeps, RestartKeeps DEF Next, WorkerStep
<1> QED BY <1>1, <1>2

\* IInv is an invariant.
THEOREM WorkflowInvariant == Spec => []IInv
BY WorkflowInit, WorkflowStep, PTL DEF Spec

\* Type correctness, and at most one row in the hands of the worker, which a
\* restart gives back (workflow_request_queue.py:84-95, 165-198).
THEOREM WorkflowTyped == Spec => [](TypeOK /\ OneInHand)
BY WorkflowInvariant, PTL DEF IInv

\* A request that is reported as done has a committed operation with labels and a
\* child, however often the process was restarted and the client repeated itself.
THEOREM DoneIsCommitted == Spec => []DoneMeansCommitted
<1>1. IInv => DoneMeansCommitted
  BY DEF IInv, Committed, DoneMeansCommitted
<1> QED BY <1>1, WorkflowInvariant, PTL

\* Only a restart between the record of an action and the commit of its operation
\* lets a request cause one action more.
THEOREM OneActionPerWindow == Spec => []RepeatsNeedTheWindow
<1>1. IInv => RepeatsNeedTheWindow
  BY DEF IInv, TypeOK, Counted, RepeatsNeedTheWindow
<1> QED BY <1>1, WorkflowInvariant, PTL

\* A request that ended keeps its outcome, and a committed operation its labels and
\* its child: replays and retries write only operations that are not committed.
THEOREM OutcomesStay == Spec => OutcomesAreFinal
<1> DEFINE Kept == \A i \in Ids :
        /\ state[i] \in {"done", "failed"} => state'[i] = state[i]
        /\ operation[i] = "committed" =>
              /\ operation'[i] = "committed"
              /\ labelsOf'[i] = labelsOf[i] /\ childOf'[i] = childOf[i]
<1>1. IInv /\ [Next]_vars => [Kept]_vars
  <2> SUFFICES ASSUME IInv, Next PROVE Kept
    OBVIOUS
  <2>1. CASE UNCHANGED <<requests, operations>>
    BY <2>1 DEF requests, operations
  <2>2. ASSUME NEW c \in Clients, NEW i \in Ids, NEW g \in Generations,
               Enqueue(c, i, g)
        PROVE  Kept
    BY <2>2 DEF Enqueue, Admit, requests, operations, IInv, TypeOK
  <2>3. CASE Claim
    <3>1. UNCHANGED operations
      BY <2>3 DEF Claim
    <3>2. CASE UNCHANGED state
      BY <3>1, <3>2 DEF operations
    <3>3. ASSUME NEW n \in DOMAIN order, ClaimOldest(n) PROVE Kept
      <4>1. order[n] \in Ids /\ state[order[n]] = "accepted"
        BY <3>3 DEF ClaimOldest, Accepted, IInv, TypeOK
      <4>2. state' = [state EXCEPT ![order[n]] = "processing"]
        BY <3>3 DEF ClaimOldest
      <4> QED BY <3>1, <4>1, <4>2 DEF operations, IInv, TypeOK
    <3> QED BY <2>3, <3>2, <3>3 DEF Claim
  <2>4. CASE Prepare \/ Record \/ Commit \/ Abort
    <3>1. worker.id \in Ids
      BY <2>4 DEF Prepare, Record, Commit, Abort, IInv, Hand, Working, Steps
    <3>2. CASE Record
      BY <3>2 DEF Record, requests
    <3>3. CASE Prepare \/ Commit \/ Abort
      <4>1. operation[worker.id] # "committed" /\ state' = state
        BY <3>3 DEF Prepare, Commit, Abort, IInv, Progress, requests
      <4>2. \A i \in Ids \ {worker.id} : /\ operation'[i] = operation[i]
                                       /\ labelsOf'[i] = labelsOf[i]
                                       /\ childOf'[i] = childOf[i]
        BY <3>3 DEF Prepare, Commit, Abort, IInv, TypeOK
      <4> QED BY <4>1, <4>2
    <3> QED BY <2>4, <3>2, <3>3
  <2>5. CASE Finish
    <3>1. worker.id \in Ids /\ state[worker.id] = "processing"
      BY <2>5 DEF Finish, IInv, Hand, Working, Steps
    <3> QED BY <2>5, <3>1 DEF Finish, operations, IInv, TypeOK
  <2>6. CASE Restart
    BY <2>6 DEF Restart, Recovered, operations
  <2>7. CASE Clear \/ BeginWait \/ Awake \/ PollTimeout
    BY <2>1, <2>7 DEF Clear, BeginWait, Awake, PollTimeout
  <2>8. CASE Look \/ Select \/ Preflight \/ MakeChild \/ Mark
    BY <2>1, <2>8 DEF Look, Select, Preflight, MakeChild, Mark
  <2>9. CASE User
    BY <2>1, <2>9 DEF User, AddLabel, UndoLabel, OtherChild, ChildLeaves
  <2>10. CASE \E c \in Clients : SetWake(c)
    BY <2>1, <2>10 DEF SetWake
  <2> QED BY <2>2, <2>3, <2>4, <2>5, <2>6, <2>7, <2>8, <2>9, <2>10
          DEF Next, WorkerStep
<1> QED BY <1>1, WorkflowInvariant, PTL DEF Spec, OutcomesAreFinal
=============================================================================
