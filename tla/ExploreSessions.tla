--------------------------- MODULE ExploreSessions ---------------------------
(* Context experiments and Free Explore (experiments.py, agent_explore.py,   *)
(* trial_knowledge.py).  An agent under Control tries a small change (a      *)
(* trial) while its experiments are enabled.  A Free session enables them    *)
(* with settings of its own, counts the outcomes until its budget is spent,  *)
(* puts the old settings back and hands the journalled outcomes to a child   *)
(* candidate that the candidate worker trains.  experiments.lock is held     *)
(* over the end of a trial (`closing`), not over the start of a session, the *)
(* worker, a discard, or the service call of a probe.                        *)
EXTENDS Naturals

CONSTANTS Probers, Host,   \* agents with experiments; the one that has sessions
          MaxSessions,
          Budgets,         \* outcomes that each session collects
          Bounds           \* how much of each bounded event there may be

ASSUME ExploreAssumption ==
    /\ Host \in Probers /\ MaxSessions \in Nat
    /\ Budgets \in [1 .. MaxSessions -> Nat \ {0}]
    /\ Bounds \subseteq [trials : [Probers -> Nat], sessions : Nat, wishes : Nat, deaths : Nat]

VARIABLES
    config,     \* the Host's experiment settings: Off, the user's On, a session's
    wish,       \* history: what the user set last
    trial,      \* data['active'] of each agent, with the session it started under
    prepared,   \* agents with a probe proposed and not yet sent
    calling,    \* agents whose probe is in its service call
    sessions,   \* agent_explore_sessions, numbered in the order of created_ts
    previous,   \* previous_config_json of each session
    starter,    \* the request that starts each session
    child,      \* the candidate of each session: row of agent_candidates
    facts,      \* experiment_trial_records of each session: labelled, and fit to learn
    closing,    \* _finish and what its caller does next
    trainer,    \* the candidate worker
    taught,     \* the live learner holds an outcome of a Free session
    told,       \* history: what has happened that the properties excuse
    left        \* how much of each bounded event is left

exploreVars == <<config, wish, trial, prepared, calling, sessions, previous, starter,
                 child, facts, closing, trainer, taught, told, left>>
workVars == <<trainer, child, facts>>

Sessions == 1 .. MaxSessions
Off == 0
On  == 1
Configs == 0 .. (MaxSessions + 1)
Of(k) == k + 1        \* the settings of session k; they are always enabled

NoTrial == [kind |-> "none", session |-> 0]
NotClosing == [step |-> "none", keep |-> 0, row |-> 0, measured |-> FALSE, clean |-> FALSE,
               caller |-> "none", cfg |-> Off, k |-> 0]
TrainerRests == [step |-> "none", k |-> 0]

Statuses == {"none", "collecting", "training", "no_evidence", "complete", "blocked", "failed"}
ChildStates == {"none", "exploring", "queued", "comparing", "blocked", "insufficient", "failed"}
Reports == {"cut", "overlap", "refused", "died", "late", "again",
            "unfit", "empty", "diedTraining"}

Trials == [kind : {"none", "reference", "probe"}, session : 0 .. MaxSessions]
SessionRows == [status : Statuses, count : Nat, measured : BOOLEAN]
Starters == {"idle", "configure", "insert", "undo", "over"}
ChildRows == [state : ChildStates, fresh : BOOLEAN]
FactRows == [labelled : {"none", "unfit", "fit"}, applied : BOOLEAN]
Enders == {"none", "user", "start", "undo"}
Endings == [step : {"none", "teach", "count", "restore", "edge", "status", "restart", "apply"},
            keep : 0 .. MaxSessions, row : 0 .. MaxSessions, measured : BOOLEAN,
            clean : BOOLEAN, caller : Enders, cfg : Configs, k : 0 .. MaxSessions]
Trainings == [step : {"none", "commit", "gate", "complete", "blocked"}, k : 0 .. MaxSessions]
Rooms == [trials : [Probers -> Nat], sessions : Nat, wishes : Nat, deaths : Nat]

ExploreTypeOK ==
    /\ config \in Configs /\ wish \in {Off, On}
    /\ trial \in [Probers -> Trials] /\ prepared \subseteq Probers /\ calling \subseteq Probers
    /\ sessions \in [Sessions -> SessionRows] /\ previous \in [Sessions -> Configs]
    /\ starter \in [Sessions -> Starters] /\ child \in [Sessions -> ChildRows]
    /\ facts \in [Sessions -> FactRows] /\ closing \in Endings /\ trainer \in Trainings
    /\ taught \in BOOLEAN /\ told \subseteq Reports /\ left \in Rooms

ExploreInit ==
    /\ config \in {Off, On} /\ wish = config
    /\ trial = [p \in Probers |-> NoTrial] /\ prepared = {} /\ calling = {}
    /\ sessions = [k \in Sessions |-> [status |-> "none", count |-> 0, measured |-> FALSE]]
    /\ previous = [k \in Sessions |-> Off] /\ starter = [k \in Sessions |-> "idle"]
    /\ child = [k \in Sessions |-> [state |-> "none", fresh |-> FALSE]]
    /\ facts = [k \in Sessions |-> [labelled |-> "none", applied |-> FALSE]]
    /\ closing = NotClosing /\ trainer = TrainerRests /\ taught = FALSE /\ told = {}
    /\ left \in Bounds

-----------------------------------------------------------------------------
Collecting == {k \in Sessions : sessions[k].status = "collecting"}

\* _active_free_for_live: the newest session that still collects, 0 if none.
Latest == IF Collecting = {} THEN 0
          ELSE CHOOSE k \in Collecting : \A j \in Collecting : j <= k

Unlocked == closing.step = "none"
Enabled(p) == p = Host => config # Off
OthersProbe(p) == \E q \in Probers \ {p} : trial[q].kind = "probe"
If(condition, report) == IF condition THEN {report} ELSE {}

\* _start: the trial is entered under the session that collects now.
EnterTrial(p, kind) ==
    /\ left.trials[p] > 0 /\ left' = [left EXCEPT !.trials[p] = @ - 1]
    /\ trial' = [trial EXCEPT ![p] = [kind |-> kind, session |-> IF p = Host THEN Latest ELSE 0]]

TrialFrame == UNCHANGED <<config, wish, sessions, previous, starter, closing, taught, workVars>>

\* propose: a reference starts at once, a probe is prepared for the executor; the
\* probe that is being observed may be prepared again.
Propose(p, kind) ==
    /\ Unlocked /\ p \notin calling /\ Enabled(p)
    /\ \/ trial[p].kind = "none" /\ ~OthersProbe(p) /\ left.trials[p] > 0
       \/ trial[p].kind = "probe" /\ kind = "probe"
    /\ IF kind = "reference" THEN EnterTrial(p, kind) /\ prepared' = prepared \ {p}
       ELSE prepared' = prepared \cup {p} /\ UNCHANGED <<trial, left>>
    /\ TrialFrame /\ UNCHANGED <<calling, told>>

\* Mutant: only the proposal looked at the other agents.
BeginUnchecked(p) ==
    /\ Unlocked /\ p \in prepared \ calling /\ Enabled(p)
    /\ IF trial[p].kind = "none" THEN EnterTrial(p, "probe") ELSE UNCHANGED <<trial, left>>
    /\ calling' = calling \cup {p}
    /\ TrialFrame /\ UNCHANGED <<prepared, told>>

\* begin: the executor reserves the trial and calls the service without the lock.
BeginProbe(p) ==
    /\ Unlocked /\ p \in prepared \ calling /\ Enabled(p) /\ ~OthersProbe(p)
    /\ IF trial[p].kind = "none" THEN EnterTrial(p, "probe") ELSE UNCHANGED <<trial, left>>
    /\ calling' = calling \cup {p}
    /\ TrialFrame /\ UNCHANGED <<prepared, told>>

\* dispatched.
CallEnds(p) ==
    /\ Unlocked /\ p \in calling
    /\ calling' = calling \ {p} /\ prepared' = prepared \ {p}
    /\ TrialFrame /\ UNCHANGED <<trial, told, left>>

-----------------------------------------------------------------------------
(* The end of a trial.  trial_knowledge's finish commits the outcome to the  *)
(* journal, calls the session's wrapper, which calls _finish, and puts the   *)
(* learner back as it was before.                                            *)

\* The outcome in the journal; facts that fit stay fit.
Labelled(k, fit) == [facts EXCEPT ![k].labelled = IF @ = "fit" THEN @ ELSE fit]

\* The caller holds the lock: cancel, observe and configure.  Only the Host has
\* sessions, so another agent's trial ends in one step.
Close(p, measured, caller, cfg, k) ==
    IF p # Host
    THEN /\ trial' = [trial EXCEPT ![p] = NoTrial] /\ prepared' = prepared \ {p}
         /\ UNCHANGED <<closing, facts>>
    ELSE /\ closing' = [step |-> "teach", keep |-> Latest, row |-> 0, measured |-> measured,
                        clean |-> taught, caller |-> caller, cfg |-> cfg, k |-> k]
         /\ IF measured /\ trial[p].session # 0
            THEN \E fit \in {"fit", "unfit"} : facts' = Labelled(trial[p].session, fit)
            ELSE UNCHANGED facts
         /\ UNCHANGED <<trial, prepared>>

\* observe: an outcome or an interruption; cancel between two evaluations.
ObserveTrial(p) ==
    /\ Unlocked /\ p \notin calling /\ trial[p].kind # "none"
    /\ \E measured \in BOOLEAN : Close(p, measured, "none", Off, 0)
    /\ UNCHANGED <<config, wish, calling, sessions, previous, starter, child, trainer, taught, told, left>>

\* The index refresh or an explicit correction cancels a trial whose call is on its way.
CutShort(p) ==
    /\ Unlocked /\ p \in calling /\ trial[p].kind # "none"
    /\ Close(p, FALSE, "none", Off, 0)
    /\ told' = told \cup {"cut"}
    /\ UNCHANGED <<config, wish, calling, sessions, previous, starter, child, trainer, taught, left>>

\* The service call raised: cancel.
CallFails(p) ==
    /\ Unlocked /\ p \in calling
    /\ calling' = calling \ {p}
    /\ IF trial[p].kind # "none" THEN Close(p, FALSE, "none", Off, 0)
       ELSE prepared' = prepared \ {p} /\ UNCHANGED <<trial, closing, facts>>
    /\ UNCHANGED <<config, wish, sessions, previous, starter, child, trainer, taught, told, left>>

ClosingTo(step) == closing' = [closing EXCEPT !.step = step]
EndFrame == UNCHANGED <<wish, calling, previous, trainer, left>>

\* The wrapper reads the session once more; _finish teaches the learner and saves it.
TeachAndClear ==
    /\ closing.step = "teach"
    /\ closing' = [closing EXCEPT !.step = IF Latest = 0 THEN "restart" ELSE "count", !.row = Latest]
    /\ taught' = (taught \/ (closing.measured
                             /\ {closing.keep, Latest, trial[Host].session} # {0}))
    /\ trial' = [trial EXCEPT ![Host] = NoTrial] /\ prepared' = prepared \ {Host}
    /\ told' = told \cup If(closing.keep = 0 /\ Latest # 0, "late")
    /\ EndFrame /\ UNCHANGED <<config, sessions, starter, child, facts>>

\* _merge_result, _finish_free_outcome: the counters, and the budget.
CountOutcome ==
    /\ closing.step = "count"
    /\ sessions' = [sessions EXCEPT ![closing.row].count = @ + 1,
                            ![closing.row].measured = @ \/ closing.measured]
    /\ ClosingTo(IF sessions[closing.row].count + 1 < Budgets[closing.row] THEN "restart" ELSE "restore")
    /\ EndFrame /\ UNCHANGED <<config, trial, prepared, starter, child, facts, taught, told>>

\* Mutant: a session that measured nothing leaves the settings alone.
RestoreIfMeasured ==
    /\ closing.step = "restore"
    /\ ClosingTo("edge")
    /\ config' = IF sessions[closing.row].measured THEN previous[closing.row] ELSE config
    /\ EndFrame /\ UNCHANGED <<trial, prepared, sessions, starter, child, facts, taught, told>>

\* _restore_previous_experiment_config; enabled settings of an agent that is no
\* longer qualified are refused, and the refusal is only logged.
RestoreSettings ==
    /\ closing.step = "restore"
    /\ ClosingTo("edge")
    /\ \/ /\ config' = previous[closing.row]
          /\ told' = told \cup If(config # Of(closing.row), "overlap")
       \/ /\ previous[closing.row] # Off /\ told' = told \cup {"refused"}
          /\ UNCHANGED config
    /\ EndFrame /\ UNCHANGED <<trial, prepared, sessions, starter, child, facts, taught>>

\* What an exception in _finish means to the caller: the user's settings and the
\* session's are not applied; settings that should have been put back stay.
Raised ==
    /\ closing' = NotClosing
    /\ starter' = IF closing.caller \in {"start", "undo"}
                  THEN [starter EXCEPT ![closing.k] = "over"] ELSE starter
    /\ told' = told \cup If(closing.caller = "undo", "refused")

HandedOver(k) == [child EXCEPT ![k] = [state |-> "queued", fresh |-> FALSE]]
Insufficient(k) == [child EXCEPT ![k].state = "insufficient"]
ChildGone(k) == [sessions EXCEPT ![k].status = "failed"]

\* _mark_edge or _queue_free_training.  A discarded child makes the first raise.
HandToChild ==
    /\ closing.step = "edge"
    /\ LET k == closing.row IN
       \/ /\ child[k].state = "none" /\ ~sessions[k].measured
          /\ Raised /\ UNCHANGED <<child, sessions>>
       \/ /\ child[k].state = "none" /\ sessions[k].measured
          /\ sessions' = ChildGone(k)
          /\ ClosingTo("restart") /\ UNCHANGED <<child, starter, told>>
       \/ /\ child[k].state # "none"
          /\ child' = IF sessions[k].measured THEN HandedOver(k) ELSE Insufficient(k)
          /\ told' = told \cup If(child[k].state # "exploring", "again")
          /\ ClosingTo("status") /\ UNCHANGED <<sessions, starter>>
    /\ EndFrame /\ UNCHANGED <<config, trial, prepared, facts, taught>>

WriteStatus ==
    /\ closing.step = "status"
    /\ sessions' = [sessions EXCEPT ![closing.row].status =
                    IF sessions[closing.row].measured THEN "training" ELSE "no_evidence"]
    /\ ClosingTo("restart")
    /\ EndFrame /\ UNCHANGED <<config, trial, prepared, starter, child, facts, taught, told>>

\* What configure does once no trial is active; the history notes who is overtaken.
SetConfig(cfg, caller, k) ==
    /\ config' = cfg /\ prepared' = prepared \ {Host}
    /\ wish' = IF caller = "user" THEN cfg ELSE wish
    /\ starter' = IF caller = "user" THEN starter
                  ELSE [starter EXCEPT ![k] = IF caller = "start" THEN "insert" ELSE "over"]
    /\ told' = told \cup If(\/ caller = "start" /\ config # previous[k]
                            \/ caller = "undo" /\ config # Of(k), "overlap")

\* Mutant: the session is read again, and it may have just ended.
ForgetIfCollecting ==
    /\ closing.step = "restart"
    /\ taught' = IF Latest # 0 THEN closing.clean ELSE taught
    /\ IF closing.caller = "none" THEN closing' = NotClosing ELSE ClosingTo("apply")
    /\ EndFrame /\ UNCHANGED <<config, trial, prepared, sessions, starter, child, facts, told>>

\* The learner is put back if a session was collecting at the beginning.
Forget ==
    /\ closing.step = "restart"
    /\ taught' = IF closing.keep # 0 THEN closing.clean ELSE taught
    /\ IF closing.caller = "none" THEN closing' = NotClosing ELSE ClosingTo("apply")
    /\ EndFrame /\ UNCHANGED <<config, trial, prepared, sessions, starter, child, facts, told>>

\* configure, back from _finish: it computed the settings before.
ApplySettings ==
    /\ closing.step = "apply"
    /\ SetConfig(closing.cfg, closing.caller, closing.k)
    /\ closing' = NotClosing
    /\ UNCHANGED <<trial, calling, sessions, previous, child, facts, trainer, taught, left>>

-----------------------------------------------------------------------------
(* Settings and the start of a session.                                       *)

Configure(cfg, caller, k) ==
    /\ Unlocked
    /\ IF trial[Host].kind = "none"
       THEN SetConfig(cfg, caller, k) /\ UNCHANGED <<trial, closing, facts>>
       ELSE /\ Close(Host, FALSE, caller, cfg, k)
            /\ told' = told \cup If(Host \in calling, "cut")
            /\ UNCHANGED <<config, wish, starter>>
    /\ UNCHANGED <<calling, sessions, previous, child, trainer, taught>>

\* POST /experiments, under the target lock.
UserConfigures ==
    /\ Host \notin calling /\ left.wishes > 0
    /\ \E cfg \in {Off, On} : Configure(cfg, "user", 0)
    /\ left' = [left EXCEPT !.wishes = @ - 1]

\* workflow_explore: the settings there are now will be put back.  Requests are
\* handled one at a time.
AskFree(k) ==
    /\ Unlocked /\ starter[k] = "idle" /\ \A j \in 1 .. (k - 1) : starter[j] = "over"
    /\ left.sessions > 0 /\ left' = [left EXCEPT !.sessions = @ - 1]
    /\ previous' = [previous EXCEPT ![k] = config]
    /\ starter' = [starter EXCEPT ![k] = "configure"]
    /\ UNCHANGED <<config, wish, trial, prepared, calling, sessions, closing, workVars, taught, told>>

EnableFree(k) ==
    /\ starter[k] = "configure"
    /\ Configure(Of(k), "start", k)
    /\ UNCHANGED left

\* The agent is not qualified.
EnableRefused(k) ==
    /\ Unlocked /\ starter[k] = "configure"
    /\ starter' = [starter EXCEPT ![k] = "over"]
    /\ UNCHANGED <<config, wish, trial, prepared, calling, sessions, previous, closing,
                   workVars, taught, told, left>>

\* create_explore_child: the child, the session and the mark "exploring".
OpenSession(k) ==
    /\ starter[k] = "insert"
    /\ \/ /\ sessions' = [sessions EXCEPT ![k].status = "collecting"]
          /\ child' = [child EXCEPT ![k] = [state |-> "exploring", fresh |-> TRUE]]
          /\ starter' = [starter EXCEPT ![k] = "over"]
          /\ told' = told \cup If(config # Of(k), "overlap")
       \/ starter' = [starter EXCEPT ![k] = "undo"] /\ UNCHANGED <<sessions, child, told>>
    /\ UNCHANGED <<config, wish, trial, prepared, calling, previous, closing, trainer, facts, taught, left>>

UndoFree(k) ==
    /\ starter[k] = "undo"
    /\ \/ Configure(previous[k], "undo", k)
       \/ /\ Unlocked /\ previous[k] # Off
          /\ starter' = [starter EXCEPT ![k] = "over"] /\ told' = told \cup {"refused"}
          /\ UNCHANGED <<config, wish, trial, prepared, calling, sessions, previous, closing,
                         workVars, taught>>
    /\ UNCHANGED left

-----------------------------------------------------------------------------
(* The candidate worker and the discard of a child.                          *)

TrainFrame == UNCHANGED <<config, wish, trial, prepared, calling, previous, starter, closing,
                          taught, left>>

\* _train_child_from_trials up to the commit.  Facts that are all applied leave the
\* row as it is, and so do none and unfit ones.
TrainChild(k) ==
    /\ trainer.step = "none" /\ child[k].state = "queued"
    /\ \/ /\ facts[k].labelled = "none" /\ sessions' = [sessions EXCEPT ![k].status = "no_evidence"]
          /\ told' = told \cup {"empty"} /\ UNCHANGED <<child, trainer>>
       \/ /\ facts[k].labelled = "unfit" /\ sessions' = [sessions EXCEPT ![k].status = "blocked"]
          /\ told' = told \cup {"unfit"} /\ UNCHANGED <<child, trainer>>
       \/ /\ facts[k].labelled = "fit" /\ ~facts[k].applied
          /\ trainer' = [step |-> "commit", k |-> k] /\ UNCHANGED <<sessions, child, told>>
    /\ TrainFrame /\ UNCHANGED facts

\* An exception on the way there: _fail.
TrainFails(k) ==
    /\ trainer.step = "none" /\ child[k].state = "queued"
    /\ facts[k].labelled # "none" /\ ~facts[k].applied
    /\ child' = [child EXCEPT ![k].state = "failed"]
    /\ TrainFrame /\ UNCHANGED <<sessions, facts, trainer, told>>

\* Model and markers in one transaction.
CommitModel ==
    /\ trainer.step = "commit"
    /\ facts' = [facts EXCEPT ![trainer.k].applied = TRUE]
    /\ trainer' = [trainer EXCEPT !.step = "gate"]
    /\ TrainFrame /\ UNCHANGED <<sessions, child, told>>

\* Mutant: only a gate that passed is written.
PersistPassed(passed) ==
    /\ trainer.step = "gate"
    /\ child' = IF passed /\ child[trainer.k].state # "none"
                THEN [child EXCEPT ![trainer.k].state = "comparing"] ELSE child
    /\ trainer' = [trainer EXCEPT !.step = IF passed THEN "complete" ELSE "blocked"]
    /\ TrainFrame /\ UNCHANGED <<sessions, facts, told>>

\* _persist_gate.
PersistGate(passed) ==
    /\ trainer.step = "gate"
    /\ child' = IF child[trainer.k].state = "none" THEN child
                ELSE [child EXCEPT ![trainer.k].state = IF passed THEN "comparing" ELSE "blocked"]
    /\ trainer' = [trainer EXCEPT !.step = IF passed THEN "complete" ELSE "blocked"]
    /\ TrainFrame /\ UNCHANGED <<sessions, facts, told>>

ReportTraining ==
    /\ trainer.step \in {"complete", "blocked"}
    /\ sessions' = [sessions EXCEPT ![trainer.k].status = trainer.step]
    /\ trainer' = TrainerRests
    /\ TrainFrame /\ UNCHANGED <<child, facts, told>>

DiscardChild(k) ==
    /\ child[k].state # "none"
    /\ child' = [child EXCEPT ![k].state = "none"]
    /\ UNCHANGED <<sessions, trainer, facts, told>> /\ TrainFrame

\* The process dies.  The first look at an agent after the restart drops its trial.
ProcessDies ==
    /\ left.deaths > 0 /\ left' = [left EXCEPT !.deaths = @ - 1]
    /\ trial' = [p \in Probers |-> NoTrial] /\ prepared' = {} /\ calling' = {}
    /\ closing' = NotClosing /\ trainer' = TrainerRests
    /\ starter' = [k \in Sessions |-> IF starter[k] = "idle" THEN "idle" ELSE "over"]
    /\ told' = told \cup If(~Unlocked \/ \E k \in Sessions : starter[k] \in {"insert", "undo"}, "died")
                    \cup If(trainer.step = "gate", "diedTraining")
    /\ UNCHANGED <<config, wish, sessions, previous, child, facts, taught>>

CloseStep == TeachAndClear \/ CountOutcome \/ RestoreSettings \/ HandToChild \/ WriteStatus
             \/ Forget \/ ApplySettings

ExploreNext ==
    \/ \E p \in Probers : \/ \E kind \in {"reference", "probe"} : Propose(p, kind)
                          \/ BeginProbe(p) \/ CallEnds(p) \/ CallFails(p)
                          \/ ObserveTrial(p) \/ CutShort(p)
    \/ CloseStep
    \/ UserConfigures
    \/ \E k \in Sessions : \/ AskFree(k) \/ EnableFree(k) \/ EnableRefused(k)
                           \/ OpenSession(k) \/ UndoFree(k)
                           \/ TrainChild(k) \/ TrainFails(k) \/ DiscardChild(k)
    \/ CommitModel \/ ReportTraining
    \/ \E passed \in BOOLEAN : PersistGate(passed)
    \/ ProcessDies

ExploreSpec == ExploreInit /\ [][ExploreNext]_exploreVars

-----------------------------------------------------------------------------
\* No two agents observe a probe at once, and two probe calls overlap only when a
\* trial was cut short while its own call was on its way.
ProbesAlone ==
    \A p, q \in Probers : p # q =>
        /\ ~(trial[p].kind = "probe" /\ trial[q].kind = "probe")
        /\ {p, q} \subseteq calling => "cut" \in told

\* When every session has spent its budget and no request is under way, the experiments are set as
\* the user set them last -- unless a session began or ended over settings that were
\* not its own, the old settings were refused, or the process died midway.
SettingsAreTheUsers ==
    Unlocked /\ (\A k \in Collecting : sessions[k].count >= Budgets[k])
    /\ (\A k \in Sessions : starter[k] \in {"idle", "configure", "over"})
        => config = wish \/ told \cap {"overlap", "refused", "died"} # {}

\* Between two outcomes the live learner holds none of a Free session: of one that it
\* counted or that its journal owns.  The exceptions are a death before the learner
\* was put back, and a session that was opened after finish had looked for one.
LiveIsNotTaught ==
    taught /\ Unlocked => told \cap {"died", "late"} # {}

\* A child that waits for its training leaves the queue, unless its facts do not fit
\* or are another session's, the process died between the commit and the gate, or it
\* died before the session's status was written and the session closed once more.
QueuedChildrenConclude ==
    \A k \in Sessions : child[k].state = "queued" ~>
        child[k].state # "queued" \/ told \cap {"unfit", "empty", "diedTraining", "again"} # {}

\* docs/AUDIT_F07_F19: after the training the child goes on through the comparison and
\* promotion of any candidate, for which its row has to be fresh.
TrainedChildIsFresh ==
    \A k \in Sessions : child[k].state = "comparing" => child[k].fresh
=============================================================================
