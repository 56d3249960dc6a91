--------------------------- MODULE WorkflowRequests ---------------------------
(***************************************************************************)
(* Durable admission of "Apply Correct": workflow_request_queue.py, and    *)
(* the orchestration its worker calls, workflow_correct_commit of          *)
(* agent_workflow_actions.py with the wrapper of                           *)
(* manual_feedback_workflow.py.                                            *)
(*                                                                         *)
(* Every step of the worker between two SQLite transactions is an action,  *)
(* so the process may die, a client may retry and the user may add or undo *)
(* a label between any two of them.  Time stamps are abstracted: a label   *)
(* is fresh when it is younger than the last committed operation of its    *)
(* generation.                                                             *)
(***************************************************************************)
EXTENDS Naturals, Sequences, FiniteSets

CONSTANTS
    Ids,          \* request ids chosen by the clients
    Generations,  \* parent generations
    Labels,       \* points of a chart that can be corrected
    Clients,      \* HTTP threads
    None,
    Failures,     \* may the orchestration raise?
    MaxDeaths,    \* bound on restarts of the process
    MaxBorn       \* bound: others create children only while fewer were born

ASSUME WorkflowAssumption ==
    /\ None \notin Ids /\ None \notin Generations
    /\ Failures \in BOOLEAN
    /\ MaxDeaths \in Nat /\ MaxBorn \in Nat

VARIABLES
    \* in SQLite
    state,      \* agent_workflow_requests: id -> state, "none" without a row
    ref,        \* id -> its generation, or None
    order,      \* the ids with a row, by created_ts
    operation,  \* agent_correct_operations: id -> status, "none" without a row
    labelsOf,   \* id -> its label_ids_json
    childOf,    \* id -> its child_generation_id, 0 while there is none
    labels,     \* generation -> its active labels
    fresh,      \* generation -> the labels younger than its last commit
    child,      \* generation -> its active child, 0 without
    born,       \* children so far
    \* in memory
    wake,       \* wake_event
    waking,     \* clients that admitted a request and have still to set wake
    worker,     \* where the worker is, and what it knows
    deaths,
    acted,      \* history: id -> rows it caused in agent_generation_actions
    cut         \* history: id -> restarts between such a row and the commit

requests == <<state, ref, order>>
operations == <<operation, labelsOf, childOf, acted>>
evidence == <<labels, fresh>>
children == <<child, born>>
process == <<deaths, cut>>
vars == <<requests, operations, evidence, children, wake, waking, worker, process>>

Steps == {"top", "claim", "empty", "wait", "look", "select", "prepare", "preflight",
          "child", "record", "commit", "mark", "abort", "done", "failed"}

Working == Steps \ {"top", "claim", "empty", "wait"}

Locals == [step : Steps, id : Ids \cup {None}, labels : SUBSET Labels, child : Nat]

AtTop == [step |-> "top", id |-> None, labels |-> {}, child |-> 0]

TypeOK ==
    /\ state \in [Ids -> {"none", "accepted", "processing", "done", "failed"}]
    /\ ref \in [Ids -> Generations \cup {None}]
    /\ order \in Seq(Ids)
    /\ operation \in [Ids -> {"none", "prepared", "committed", "failed"}]
    /\ labelsOf \in [Ids -> SUBSET Labels]
    /\ childOf \in [Ids -> Nat]
    /\ labels \in [Generations -> SUBSET Labels]
    /\ fresh \in [Generations -> SUBSET Labels]
    /\ child \in [Generations -> Nat]
    /\ born \in Nat
    /\ wake \in BOOLEAN
    /\ waking \in SUBSET Clients
    /\ worker \in Locals
    /\ deaths \in 0 .. MaxDeaths
    /\ acted \in [Ids -> Nat]
    /\ cut \in [Ids -> Nat]

Init ==
    /\ state = [i \in Ids |-> "none"] /\ ref = [i \in Ids |-> None] /\ order = <<>>
    /\ operation = [i \in Ids |-> "none"]
    /\ labelsOf = [i \in Ids |-> {}] /\ childOf = [i \in Ids |-> 0]
    /\ acted = [i \in Ids |-> 0] /\ cut = [i \in Ids |-> 0]
    /\ labels = [g \in Generations |-> {}] /\ fresh = [g \in Generations |-> {}]
    /\ child = [g \in Generations |-> 0] /\ born = 0
    /\ wake = FALSE /\ waking = {} /\ worker = AtTop /\ deaths = 0

Goto(step) == worker' = [worker EXCEPT !.step = step]

-----------------------------------------------------------------------------
(* The HTTP threads *)

\* A known id is answered with its row; a new one gets a row.
Admit(i, g) ==
    IF state[i] # "none" THEN UNCHANGED requests
    ELSE /\ state' = [state EXCEPT ![i] = "accepted"]
         /\ ref' = [ref EXCEPT ![i] = g]
         /\ order' = Append(order, i)

\* enqueue_correct, up to its commit; the id of another generation is refused.
Enqueue(c, i, g) ==
    /\ c \notin waking
    /\ ref[i] \in {None, g}
    /\ Admit(i, g)
    /\ waking' = waking \cup {c}
    /\ UNCHANGED <<operations, evidence, children, wake, worker, process>>

SetWake(c) ==
    /\ c \in waking
    /\ waking' = waking \ {c}
    /\ wake' = TRUE
    /\ UNCHANGED <<requests, operations, evidence, children, worker, process>>

\* A correction of a point is stored, or edited in place with a new created_ts.
AddLabel(g, l) ==
    /\ labels' = [labels EXCEPT ![g] = @ \cup {l}]
    /\ fresh' = [fresh EXCEPT ![g] = @ \cup {l}]
    /\ UNCHANGED <<requests, operations, children, wake, waking, worker, process>>

UndoLabel(g, l) ==
    /\ l \in labels[g]
    /\ labels' = [labels EXCEPT ![g] = @ \ {l}]
    /\ fresh' = [fresh EXCEPT ![g] = @ \ {l}]
    /\ UNCHANGED <<requests, operations, children, wake, waking, worker, process>>

\* Change decision, Autonomous and feedback also give the generation a child.
OtherChild(g) ==
    /\ child[g] = 0 /\ born < MaxBorn
    /\ child' = [child EXCEPT ![g] = born + 1]
    /\ born' = born + 1
    /\ UNCHANGED <<requests, operations, evidence, wake, waking, worker, process>>

\* The child is discarded, pruned or promoted.
ChildLeaves(g) ==
    /\ child[g] # 0
    /\ child' = [child EXCEPT ![g] = 0]
    /\ UNCHANGED <<requests, operations, evidence, born, wake, waking, worker,
                   process>>

-----------------------------------------------------------------------------
(* The loop of the worker *)

Clear ==
    /\ worker.step = "top"
    /\ wake' = FALSE
    /\ Goto("claim")
    /\ UNCHANGED <<requests, operations, evidence, children, waking, process>>

Accepted(i) == state[i] = "accepted"

\* Claim the oldest accepted request.
ClaimOldest(n) ==
    LET i == order[n] IN
    /\ n \in 1 .. Len(order)
    /\ Accepted(i)
    /\ \A m \in 1 .. n - 1 : ~Accepted(order[m])
    /\ state' = [state EXCEPT ![i] = "processing"]
    /\ worker' = [AtTop EXCEPT !.step = "look", !.id = i]

\* _claim_next: the oldest accepted request, else wait.
Claim ==
    /\ worker.step = "claim"
    /\ \/ \E n \in DOMAIN order : ClaimOldest(n)
       \/ /\ \A i \in Ids : ~Accepted(i)
          /\ Goto("empty") /\ UNCHANGED state
    /\ UNCHANGED <<ref, order, operations, evidence, children, wake, waking,
                   process>>

\* Mutant of BeginWait: the event is cleared between the empty SELECT and the wait.
ClearAndWait ==
    /\ worker.step = "empty"
    /\ wake' = FALSE
    /\ Goto("wait")
    /\ UNCHANGED <<requests, operations, evidence, children, waking, process>>

\* Between the empty SELECT and the wait stop_event is looked at.
BeginWait ==
    /\ worker.step = "empty"
    /\ Goto("wait")
    /\ UNCHANGED <<requests, operations, evidence, children, wake, waking, process>>

\* The wait ends: the event is set, or poll_seconds have passed.
Awake ==
    /\ worker.step = "wait" /\ wake
    /\ Goto("top")
    /\ UNCHANGED <<requests, operations, evidence, children, wake, waking, process>>

PollTimeout ==
    /\ worker.step = "wait" /\ ~wake
    /\ Goto("top")
    /\ UNCHANGED <<requests, operations, evidence, children, wake, waking, process>>

-----------------------------------------------------------------------------
(* workflow_correct_commit *)

\* Mutant of Replayed: an operation that was only prepared counts.
ReplayedEarly(i) == operation[i] \in {"prepared", "committed"}

\* Mutant of Replayed: the row of the request is asked, not the operation.
ReplayedByRequest(i) == state[i] = "done"

\* The operation was committed before: answer with it.
Replayed(i) == operation[i] = "committed" /\ childOf[i] # 0

\* Resolving the generation, or the first preflight, may raise.
Look ==
    /\ worker.step = "look"
    /\ \/ Replayed(worker.id) /\ Goto("mark")
       \/ ~Replayed(worker.id) /\ Goto("select")
       \/ Failures /\ Goto("failed")
    /\ UNCHANGED <<requests, operations, evidence, children, wake, waking, process>>

\* The labels younger than the last committed operation of the generation.
Select ==
    LET chosen == labels[ref[worker.id]] \cap fresh[ref[worker.id]] IN
    /\ worker.step = "select"
    /\ IF chosen = {} THEN Goto("failed")
       ELSE worker' = [worker EXCEPT !.step = "prepare", !.labels = chosen]
    /\ UNCHANGED <<requests, operations, evidence, children, wake, waking, process>>

Prepare ==
    LET i == worker.id IN
    /\ worker.step = "prepare"
    /\ operation' = [operation EXCEPT ![i] = "prepared"]
    /\ labelsOf' = [labelsOf EXCEPT ![i] = worker.labels]
    /\ childOf' = [childOf EXCEPT ![i] = 0]
    /\ Goto("preflight")
    /\ UNCHANGED <<requests, acted, evidence, children, wake, waking, process>>

\* _create_or_coalesce_child: the second preflight finds the child, or none.
Preflight ==
    /\ worker.step = "preflight"
    /\ \/ worker' = [worker EXCEPT !.step = "child", !.child = child[ref[worker.id]]]
       \/ Failures /\ Goto("abort")
    /\ UNCHANGED <<requests, operations, evidence, children, wake, waking, process>>

\* The child that was found is joined, if it is still there; without one a child
\* is created, unless somebody else did so meanwhile.
MakeChild ==
    LET g == ref[worker.id] IN
    /\ worker.step = "child"
    /\ \/ /\ worker.child \in {0, child[g]} /\ child[g] # 0
          /\ worker' = [worker EXCEPT !.step = "record", !.child = child[g]]
          /\ UNCHANGED children
       \/ /\ worker.child = 0 /\ child[g] = 0
          /\ born' = born + 1
          /\ child' = [child EXCEPT ![g] = born + 1]
          /\ worker' = [worker EXCEPT !.step = "record", !.child = born + 1]
       \/ /\ worker.child \notin {0, child[g]} \/ Failures
          /\ Goto("abort")
          /\ UNCHANGED children
    /\ UNCHANGED <<requests, operations, evidence, wake, waking, process>>

\* _record_action, unless the model of the parent changed.
Record ==
    /\ worker.step = "record"
    /\ \/ /\ acted' = [acted EXCEPT ![worker.id] = @ + 1]
          /\ Goto("commit")
       \/ Failures /\ Goto("abort") /\ UNCHANGED acted
    /\ UNCHANGED <<requests, operation, labelsOf, childOf, evidence, children,
                   wake, waking, process>>

\* The commit's time stamp ages every label of the generation.
Commit ==
    LET i == worker.id IN
    /\ worker.step = "commit"
    /\ operation' = [operation EXCEPT ![i] = "committed"]
    /\ childOf' = [childOf EXCEPT ![i] = worker.child]
    /\ fresh' = [fresh EXCEPT ![ref[i]] = {}]
    /\ Goto("mark")
    /\ UNCHANGED <<requests, labelsOf, acted, labels, children, wake, waking, process>>

Abort ==
    /\ worker.step = "abort"
    /\ operation' = [operation EXCEPT ![worker.id] = "failed"]
    /\ Goto("failed")
    /\ UNCHANGED <<requests, labelsOf, childOf, acted, evidence, children, wake,
                   waking, process>>

\* _mark_correct_candidate links the feedback journal, and may raise.
Mark ==
    /\ worker.step = "mark"
    /\ Goto("done") \/ (Failures /\ Goto("failed"))
    /\ UNCHANGED <<requests, operations, evidence, children, wake, waking, process>>

\* _finish
Finish ==
    /\ worker.step \in {"done", "failed"}
    /\ state' = [state EXCEPT ![worker.id] = worker.step]
    /\ worker' = AtTop
    /\ UNCHANGED <<ref, order, operations, evidence, children, wake, waking, process>>

-----------------------------------------------------------------------------
\* Mutant of Recovered: the word of another queue.
RecoveredToQueued ==
    [i \in Ids |-> IF state[i] = "processing" THEN "queued" ELSE state[i]]

\* _recover
Recovered ==
    [i \in Ids |-> IF state[i] = "processing" THEN "accepted" ELSE state[i]]

\* The process dies at any point and the next one starts.
Restart ==
    /\ deaths < MaxDeaths
    /\ deaths' = deaths + 1
    /\ state' = Recovered
    /\ cut' = IF worker.step = "commit" THEN [cut EXCEPT ![worker.id] = @ + 1] ELSE cut
    /\ wake' = FALSE /\ waking' = {} /\ worker' = AtTop
    /\ UNCHANGED <<ref, order, operations, evidence, children>>

WorkerStep ==
    \/ Clear \/ Claim \/ BeginWait \/ Awake
    \/ Look \/ Select \/ Prepare \/ Preflight \/ MakeChild \/ Record \/ Commit
    \/ Abort \/ Mark \/ Finish

User ==
    \/ \E g \in Generations, l \in Labels : AddLabel(g, l) \/ UndoLabel(g, l)
    \/ \E g \in Generations : OtherChild(g) \/ ChildLeaves(g)

Next ==
    \/ \E c \in Clients : SetWake(c)
    \/ \E c \in Clients, i \in Ids, g \in Generations : Enqueue(c, i, g)
    \/ User
    \/ WorkerStep \/ PollTimeout
    \/ Restart

Spec == Init /\ [][Next]_vars

\* The worker and the clients run.  Nothing is assumed of poll_seconds.
Fairness ==
    /\ WF_vars(WorkerStep)
    /\ \A c \in Clients : WF_vars(SetWake(c))

FairSpec == Spec /\ Fairness

-----------------------------------------------------------------------------
(* The inductive strengthening of the invariants below *)

\* Somebody works on a request only while it is in processing, and knows where
\* its generation is.
Hand ==
    /\ worker.step \in Working =>
          worker.id \in Ids /\ state[worker.id] = "processing"
    /\ \A i \in Ids : state[i] # "none" => ref[i] \in Generations

\* What the worker has established at each step.
Progress ==
    LET i == worker.id IN
    /\ worker.step \in {"select", "prepare", "abort"} => operation[i] # "committed"
    /\ worker.step = "prepare" => worker.labels # {}
    /\ worker.step \in {"preflight", "child", "record", "commit"} =>
          operation[i] = "prepared" /\ labelsOf[i] # {}
    /\ worker.step \in {"record", "commit"} => worker.child # 0
    /\ worker.step \in {"mark", "done"} => operation[i] = "committed"

\* What a commit leaves.
Committed ==
    \A i \in Ids :
        /\ operation[i] = "committed" => labelsOf[i] # {} /\ childOf[i] # 0
        /\ state[i] = "done" => operation[i] = "committed"

\* The action that is not accounted for by a cut belongs to a commit.
Counted ==
    \A i \in Ids :
        /\ acted[i] <= cut[i] + 1
        /\ ~(operation[i] = "committed" \/ (worker.step = "commit" /\ worker.id = i))
              => acted[i] <= cut[i]

-----------------------------------------------------------------------------
(* Properties *)

\* A request reported as done has a committed operation with at least one label
\* and a child, wherever the process died before (workflow_request_queue.py:209).
DoneMeansCommitted ==
    \A i \in Ids : state[i] = "done" =>
        operation[i] = "committed" /\ labelsOf[i] # {} /\ childOf[i] # 0

\* Replaying is safe: a request that ended keeps its outcome, and a committed
\* operation keeps its labels and its child, whatever clients retry and however
\* often the process restarts.
OutcomesAreFinal ==
    [][\A i \in Ids :
        /\ state[i] \in {"done", "failed"} => state'[i] = state[i]
        /\ operation[i] = "committed" =>
              /\ operation'[i] = "committed"
              /\ labelsOf'[i] = labelsOf[i] /\ childOf'[i] = childOf[i]]_vars

\* A request causes one generation action, and one more for each time the process
\* died between _record_action and the commit of the operation: that window is
\* the only one that repeats work.
RepeatsNeedTheWindow == \A i \in Ids : acted[i] <= 1 + cut[i]

\* A request in processing is in the hands of the worker.
OneInHand ==
    \A i \in Ids : state[i] = "processing" => worker.id = i /\ worker.step \in Working

\* Every accepted request is answered, without the help of the poll timeout.
AcceptedIsAnswered ==
    \A i \in Ids : Accepted(i) ~> state[i] \in {"done", "failed"}

IInv == TypeOK /\ Hand /\ OneInHand /\ Progress /\ Committed /\ Counted
=============================================================================
