---------------------------- MODULE ExploreProofs ----------------------------
(* Proofs about ExploreSessions, for every set of agents, number of sessions *)
(* and budget.  ExploreInv is inductive: besides the types it says           *)
(*   - that a probe whose call is on its way is the one that is observed;    *)
(*   - that a session nobody has opened has no child, so that nothing but    *)
(*     its own start gives it a status;                                      *)
(*   - that a session collects for as long as a trial of it is on its way,   *)
(*     so that finish, which looks for one before the outcome is taught,     *)
(*     finds it;                                                             *)
(*   - that the copy of the learner that finish keeps is clean, and is there *)
(*     whenever the learner has been taught.                                 *)
(* WishInv adds that pending sessions lie over one another's settings, and   *)
(* the first of them over the user's.  The last theorem is about MCRuntime,  *)
(* the five parts beside each other.                                         *)
EXTENDS MCRuntime, ArbiterProofs, StreamProofs

-----------------------------------------------------------------------------
(* The inductive invariant.                                                  *)

\* A probe whose call is on its way is observed, or was cut short; one observes.
ProbeInv ==
    /\ \A p \in prepared : trial[p].kind # "reference"
    /\ \A p \in calling : trial[p].kind = "probe" \/ "cut" \in told
    /\ closing.step = "teach" /\ Host \in calling => "cut" \in told
    /\ \A p, q \in Probers : trial[p].kind = "probe" /\ trial[q].kind = "probe" => p = q

\* A session that is not open yet has no child, and the worker has nothing of it.
Untouched(k) == child[k].state = "none" /\ (trainer.step # "none" => trainer.k # k)

StartInv ==
    /\ \A k \in Sessions : sessions[k].status = "none" => Untouched(k)
    /\ \A k \in Sessions : starter[k] # "over" => sessions[k].status = "none"
    /\ closing.step # "none" /\ closing.caller = "start" =>
           closing.k \in Sessions /\ starter[closing.k] = "configure"

\* A session that collects is not in training, but for the step that says so.
Marking(k) == closing.step = "status" /\ closing.row = k
Collects(k) ==
    /\ child[k].state \in {"none", "exploring"}
    /\ trainer.step # "none" => trainer.k # k

\* Unless the process died midway, a trial's session collects until the trial ends.
SessionInv ==
    "died" \notin told =>
        /\ \A k \in Sessions : sessions[k].status = "collecting" => Marking(k) \/ Collects(k)
        /\ trial[Host].session # 0 => sessions[trial[Host].session].status = "collecting"
        /\ closing.step \notin {"none", "teach"} => trial[Host].session = 0
        /\ closing.step = "teach" /\ trial[Host].session # 0 => closing.keep # 0

\* Only the end of a trial can find a lesson in the live learner, and it has a clean
\* copy to put back whenever there is one.
LessonInv ==
    told \cap {"died", "late"} = {} =>
        /\ closing.step \in {"none", "teach", "apply"} => ~ taught
        /\ ~ closing.clean
        /\ closing.keep = 0 => ~ taught
        /\ closing.step = "count" /\ ~ closing.measured => ~ taught
        /\ closing.step \in {"restore", "edge"} /\ ~ sessions[closing.row].measured => ~ taught

\* What the frame of the end of a trial holds.
FrameInv ==
    /\ closing.step \in {"count", "restore", "edge", "status"} =>
           closing.row \in Sessions /\ sessions[closing.row].status # "none"
    /\ closing.caller = "user" => closing.cfg \in {Off, On}

ExploreInv == ExploreTypeOK /\ ProbeInv /\ StartInv /\ SessionInv /\ LessonInv /\ FrameInv

-----------------------------------------------------------------------------
\* There is a newest one among the sessions that collect.
LEMMA NewestExists ==
    ASSUME Collecting # {}
    PROVE  \E k \in Collecting : \A j \in Collecting : j <= k
<1> DEFINE After(k) == {j \in Collecting : j > k}
           Afters == {After(k) : k \in Collecting}
<1>1. IsFiniteSet(Collecting)
  <2>1. IsFiniteSet(1 .. MaxSessions)
    BY ExploreAssumption, FS_Interval DEF ExploreAssumption
  <2> QED BY <2>1, FS_Subset DEF Collecting, Sessions
<1>2. /\ Afters \subseteq FiniteSubsetsOf(Collecting)
      /\ \E A \in Afters : TRUE
  <2>1. FiniteSubsetsOf(Collecting) = SUBSET Collecting
    BY <1>1, FS_FiniteSubsetsOfFinite
  <2>2. \A k \in Collecting : After(k) \in SUBSET Collecting
    OBVIOUS
  <2>3. PICK k \in Collecting : TRUE
    OBVIOUS
  <2> HIDE DEF After
  <2> QED BY <2>1, <2>2, <2>3
<1>3. PICK A \in Afters : \A B \in Afters : <<B, A>> \notin StrictSubsetOrdering(Collecting)
  <2> HIDE DEF Afters
  <2>1. Afters # {}
    BY <1>2
  <2> QED BY <1>2, <2>1, FS_StrictSubsetOrderingWellFounded, WFMin
<1>4. PICK k \in Collecting : A = After(k)
  OBVIOUS
<1>5. \A j \in Collecting : j \notin After(k)
  <2> SUFFICES ASSUME NEW j \in After(k) PROVE FALSE
    OBVIOUS
  <2>1. Collecting \subseteq Int
    BY ExploreAssumption DEF ExploreAssumption, Collecting, Sessions
  <2>2. After(j) \subseteq After(k) /\ j \notin After(j)
    <3>1. j \in Int /\ k \in Int /\ j > k
      BY <2>1
    <3>2. \A i \in Int : i > j => i > k
      BY <3>1
    <3>3. j \notin After(j)
      <4>1. ~ (j > j)
        BY <3>1
      <4> QED BY <4>1
    <3>4. ASSUME NEW i \in After(j) PROVE i \in After(k)
      <4>1. i \in Collecting /\ i > j
        OBVIOUS
      <4>2. i > k
        BY <2>1, <3>2, <4>1
      <4> QED BY <4>1, <4>2
    <3> HIDE DEF After
    <3> QED BY <3>3, <3>4
  <2>3. <<After(j), After(k)>> \in StrictSubsetOrdering(Collecting)
    BY <2>2 DEF StrictSubsetOrdering
  <2> QED BY <1>3, <1>4, <2>3
<1> QED BY <1>5, ExploreAssumption DEF ExploreAssumption, Collecting, Sessions

LEMMA LatestCollects ==
    /\ Latest \in 0 .. MaxSessions
    /\ Collecting = {} => Latest = 0
    /\ Collecting # {} => Latest \in Collecting /\ Latest # 0
<1>1. CASE Collecting = {}
  BY <1>1, ExploreAssumption DEF ExploreAssumption, Latest
<1>2. CASE Collecting # {}
  <2>1. Latest \in Collecting
    BY <1>2, NewestExists DEF Latest
  <2> QED BY <1>2, <2>1, ExploreAssumption DEF ExploreAssumption, Collecting, Sessions
<1> QED BY <1>1, <1>2

-----------------------------------------------------------------------------
(* Types.                                                                    *)

LEMMA Numbers ==
    /\ 0 \in 0 .. MaxSessions /\ Sessions \subseteq 0 .. MaxSessions
    /\ Off \in Configs /\ On \in Configs
    /\ \A k \in Sessions : Of(k) \in Configs
  BY ExploreAssumption DEF ExploreAssumption, Sessions, Configs, Off, On, Of

LEMMA Idles == NoTrial \in Trials /\ NotClosing \in Endings
  BY Numbers DEF NoTrial, Trials, NotClosing, Endings, Enders

LEMMA ExploreStarts == ExploreInit => ExploreInv
<1> SUFFICES ASSUME ExploreInit PROVE ExploreInv
  OBVIOUS
<1>1. ExploreTypeOK
  <2>1. trial \in [Probers -> Trials] /\ closing \in Endings
    BY Idles DEF ExploreInit
  <2>2. /\ sessions \in [Sessions -> SessionRows] /\ previous \in [Sessions -> Configs]
        /\ child \in [Sessions -> ChildRows] /\ facts \in [Sessions -> FactRows]
    BY Numbers DEF ExploreInit, SessionRows, ChildRows, FactRows, Statuses, ChildStates
  <2>3. left \in Rooms
    BY ExploreAssumption DEF ExploreInit, ExploreAssumption, Rooms
  <2>4. /\ trainer \in Trainings
        /\ starter \in [Sessions -> Starters]
        /\ config \in Configs /\ wish \in {Off, On}
    BY Numbers DEF ExploreInit, TrainerRests, Trainings, Starters
  <2> QED BY <2>1, <2>2, <2>3, <2>4 DEF ExploreTypeOK, ExploreInit
<1>2. ProbeInv /\ FrameInv /\ LessonInv
  BY ExploreAssumption DEF ExploreAssumption, ExploreInit, ProbeInv, FrameInv, LessonInv, NoTrial, NotClosing
<1>3. StartInv /\ SessionInv
  BY ExploreAssumption DEF ExploreAssumption, ExploreInit, StartInv, SessionInv, Untouched, NoTrial, NotClosing, TrainerRests
<1> QED BY <1>1, <1>2, <1>3 DEF ExploreInv

\* What Close leaves behind, as far as types go.
LEMMA CloseTypes ==
    ASSUME ExploreTypeOK, NEW p \in Probers, NEW measured \in BOOLEAN,
           NEW caller \in Enders, NEW cfg \in Configs,
           NEW k \in 0 .. MaxSessions, Close(p, measured, caller, cfg, k)
    PROVE  /\ trial' \in [Probers -> Trials] /\ prepared' \subseteq Probers
           /\ closing' \in Endings /\ facts' \in [Sessions -> FactRows]
<1>1. CASE p # Host
  BY <1>1, Idles DEF ExploreTypeOK, Close
<1>2. CASE p = Host
  <2>1. closing' \in Endings
    BY <1>2, LatestCollects, Numbers DEF ExploreTypeOK, Close, Endings
  <2>2. facts' \in [Sessions -> FactRows]
    <3>1. CASE measured /\ trial[p].session # 0
      <4>1. PICK fit \in {"fit", "unfit"} : facts' = Labelled(trial[p].session, fit)
        BY <1>2, <3>1 DEF Close
      <4>2. trial[p] \in Trials /\ facts \in [Sessions -> FactRows]
        BY DEF ExploreTypeOK
      <4>3. trial[p].session \in Sessions
        BY <3>1, <4>2, ExploreAssumption DEF ExploreAssumption, Trials, Sessions
      <4>4. [facts[trial[p].session] EXCEPT !.labelled = IF @ = "fit" THEN @ ELSE fit] \in FactRows
        BY <4>2, <4>3 DEF FactRows
      <4> QED BY <4>1, <4>2, <4>3, <4>4 DEF Labelled
    <3>2. CASE ~ (measured /\ trial[p].session # 0)
      BY <1>2, <3>2 DEF ExploreTypeOK, Close
    <3> QED BY <3>1, <3>2
  <2> QED BY <1>2, <2>1, <2>2 DEF ExploreTypeOK, Close
<1> QED BY <1>1, <1>2

LEMMA ConfigTypes ==
    ASSUME ExploreTypeOK, NEW cfg \in Configs, NEW caller \in Enders,
           NEW k \in 0 .. MaxSessions, SetConfig(cfg, caller, k), caller = "user" => cfg \in {Off, On}
    PROVE  /\ config' \in Configs /\ wish' \in {Off, On} /\ prepared' \subseteq Probers
           /\ starter' \in [Sessions -> Starters]
           /\ told' \subseteq Reports
  BY DEF ExploreTypeOK, SetConfig, If, Reports, Starters

LEMMA ConfigureTypes ==
    ASSUME ExploreTypeOK, NEW cfg \in Configs, NEW caller \in Enders,
           NEW k \in 0 .. MaxSessions, Configure(cfg, caller, k), caller = "user" => cfg \in {Off, On},
           left' \in Rooms
    PROVE  ExploreTypeOK'
<1>0. Host \in Probers
  BY ExploreAssumption DEF ExploreAssumption
<1>1. CASE trial[Host].kind = "none"
  <2>1. SetConfig(cfg, caller, k) /\ UNCHANGED <<trial, closing, facts, calling, sessions, previous, child, trainer, taught>>
    BY <1>1 DEF Configure
  <2> QED BY <2>1, ConfigTypes DEF ExploreTypeOK
<1>2. CASE trial[Host].kind # "none"
  <2>1. /\ Close(Host, FALSE, caller, cfg, k) /\ told' = told \cup If(Host \in calling, "cut")
        /\ UNCHANGED <<config, wish, starter, calling, sessions, previous, child, trainer, taught>>
    BY <1>2 DEF Configure
  <2>2. told' \subseteq Reports
    BY <2>1 DEF ExploreTypeOK, If, Reports
  <2> QED BY <1>0, <2>1, <2>2, CloseTypes DEF ExploreTypeOK
<1> QED BY <1>1, <1>2

LEMMA ProbeStepTypes ==
    ASSUME ExploreTypeOK, NEW p \in Probers,
           \/ \E kind \in {"reference", "probe"} : Propose(p, kind)
           \/ BeginProbe(p) \/ CallEnds(p) \/ CallFails(p) \/ ObserveTrial(p) \/ CutShort(p)
    PROVE  ExploreTypeOK'
<1>1. ASSUME NEW kind \in {"reference", "probe"}, EnterTrial(p, kind)
      PROVE  trial' \in [Probers -> Trials] /\ left' \in Rooms
  <2>1. [kind |-> kind, session |-> IF p = Host THEN Latest ELSE 0] \in Trials
    BY LatestCollects, Numbers DEF Trials
  <2>2. left.trials \in [Probers -> Nat] /\ left.trials[p] - 1 \in Nat
    BY <1>1 DEF ExploreTypeOK, EnterTrial, Rooms
  <2> QED BY <1>1, <2>1, <2>2 DEF ExploreTypeOK, EnterTrial, Rooms
<1>2. ASSUME NEW kind \in {"reference", "probe"}, Propose(p, kind) PROVE ExploreTypeOK'
  BY <1>1, <1>2 DEF ExploreTypeOK, Propose, TrialFrame, workVars
<1>3. CASE BeginProbe(p)
  BY <1>1, <1>3 DEF ExploreTypeOK, BeginProbe, TrialFrame, workVars
<1>4. CASE CallEnds(p)
  BY <1>4 DEF ExploreTypeOK, CallEnds, TrialFrame, workVars
<1>5. CASE CallFails(p)
  <2>1. CASE trial[p].kind # "none"
    BY <1>5, <2>1, CloseTypes, Numbers DEF ExploreTypeOK, CallFails, Enders
  <2>2. CASE trial[p].kind = "none"
    BY <1>5, <2>2 DEF ExploreTypeOK, CallFails
  <2> QED BY <2>1, <2>2
<1>6. CASE ObserveTrial(p)
  <2>1. PICK measured \in BOOLEAN : Close(p, measured, "none", Off, 0)
    BY <1>6 DEF ObserveTrial
  <2> QED BY <1>6, <2>1, CloseTypes, Numbers DEF ExploreTypeOK, ObserveTrial, Enders
<1>7. CASE CutShort(p)
  <2>1. Close(p, FALSE, "none", Off, 0) /\ told' = told \cup {"cut"}
    BY <1>7 DEF CutShort
  <2> QED BY <1>7, <2>1, CloseTypes, Numbers DEF ExploreTypeOK, CutShort, Enders, Reports
<1> QED BY <1>2, <1>3, <1>4, <1>5, <1>6, <1>7

LEMMA CloseStepTypes == ASSUME ExploreTypeOK, FrameInv, CloseStep PROVE ExploreTypeOK'
<1>1. CASE TeachAndClear
  <2>1. closing' \in Endings
    BY <1>1, LatestCollects DEF ExploreTypeOK, TeachAndClear, Endings
  <2>2. trial' \in [Probers -> Trials] /\ told' \subseteq Reports /\ taught' \in BOOLEAN
    BY <1>1, Idles DEF ExploreTypeOK, TeachAndClear, If, Reports
  <2> QED BY <1>1, <2>1, <2>2 DEF ExploreTypeOK, TeachAndClear, EndFrame
<1>2. CASE CountOutcome
  <2>1. closing.row \in Sessions
    BY <1>2 DEF FrameInv, CountOutcome
  <2>2. closing.measured \in BOOLEAN
    BY DEF ExploreTypeOK, Endings
  <2>3. sessions' \in [Sessions -> SessionRows]
    BY <1>2, <2>1, <2>2 DEF ExploreTypeOK, CountOutcome, SessionRows
  <2>4. closing' \in Endings
    BY <1>2 DEF ExploreTypeOK, CountOutcome, ClosingTo, Endings
  <2> QED BY <1>2, <2>3, <2>4 DEF ExploreTypeOK, CountOutcome, EndFrame
<1>3. CASE RestoreSettings
  <2>1. closing' \in Endings
    BY <1>3 DEF ExploreTypeOK, RestoreSettings, ClosingTo, Endings
  <2>2. config' \in Configs /\ told' \subseteq Reports
    BY <1>3 DEF ExploreTypeOK, RestoreSettings, If, Reports, FrameInv
  <2> QED BY <1>3, <2>1, <2>2 DEF ExploreTypeOK, RestoreSettings, EndFrame
<1>4. CASE HandToChild
  <2>0. closing.row \in Sessions
    BY <1>4 DEF FrameInv, HandToChild
  <2>1. CASE Raised /\ UNCHANGED <<child, sessions>>
    BY <1>4, <2>1, Idles DEF ExploreTypeOK, HandToChild, Raised, EndFrame, If, Reports, Starters
  <2>2. CASE /\ sessions' = ChildGone(closing.row)
             /\ ClosingTo("restart") /\ UNCHANGED <<child, starter, told>>
    <3>1. sessions' \in [Sessions -> SessionRows] /\ closing' \in Endings
      BY <2>0, <2>2 DEF ExploreTypeOK, ChildGone, SessionRows, Statuses, ClosingTo, Endings
    <3> QED BY <1>4, <2>2, <3>1 DEF ExploreTypeOK, HandToChild, EndFrame
  <2>3. CASE /\ child' = IF sessions[closing.row].measured THEN HandedOver(closing.row) ELSE Insufficient(closing.row)
             /\ told' = told \cup If(child[closing.row].state # "exploring", "again")
             /\ ClosingTo("status") /\ UNCHANGED <<sessions, starter>>
    <3>1. child' \in [Sessions -> ChildRows] /\ closing' \in Endings
      BY <2>0, <2>3 DEF ExploreTypeOK, HandedOver, Insufficient, ChildRows, ChildStates, ClosingTo, Endings
    <3>2. told' \subseteq Reports
      BY <2>3 DEF ExploreTypeOK, If, Reports
    <3> QED BY <1>4, <2>3, <3>1, <3>2 DEF ExploreTypeOK, HandToChild, EndFrame
  <2>4. \/ Raised /\ UNCHANGED <<child, sessions>>
        \/ /\ sessions' = ChildGone(closing.row)
           /\ ClosingTo("restart") /\ UNCHANGED <<child, starter, told>>
        \/ /\ child' = IF sessions[closing.row].measured THEN HandedOver(closing.row) ELSE Insufficient(closing.row)
           /\ told' = told \cup If(child[closing.row].state # "exploring", "again")
           /\ ClosingTo("status") /\ UNCHANGED <<sessions, starter>>
    <3> HIDE DEF Raised, ChildGone, HandedOver, Insufficient, ClosingTo, If
    <3> QED BY <1>4 DEF HandToChild
  <2> QED BY <2>1, <2>2, <2>3, <2>4
<1>5. CASE WriteStatus
  <2>0. closing.row \in Sessions
    BY <1>5 DEF FrameInv, WriteStatus
  <2>1. sessions' \in [Sessions -> SessionRows]
    BY <1>5, <2>0 DEF ExploreTypeOK, WriteStatus, SessionRows, Statuses
  <2>2. closing' \in Endings
    BY <1>5 DEF ExploreTypeOK, WriteStatus, ClosingTo, Endings
  <2> QED BY <1>5, <2>1, <2>2 DEF ExploreTypeOK, WriteStatus, EndFrame
<1>6. CASE Forget
  <2>1. closing' \in Endings /\ taught' \in BOOLEAN
    BY <1>6, Idles DEF ExploreTypeOK, Forget, ClosingTo, Endings
  <2> QED BY <1>6, <2>1 DEF ExploreTypeOK, Forget, EndFrame
<1>7. CASE ApplySettings
  <2>1. SetConfig(closing.cfg, closing.caller, closing.k) /\ closing' = NotClosing
        /\ UNCHANGED <<trial, calling, sessions, previous, child, facts, trainer, taught, left>>
    BY <1>7 DEF ApplySettings
  <2>2. closing.cfg \in Configs /\ closing.caller \in Enders /\ closing.k \in 0 .. MaxSessions
    BY DEF ExploreTypeOK, Endings
  <2>3. closing.caller = "user" => closing.cfg \in {Off, On}
    BY DEF FrameInv
  <2>4. /\ config' \in Configs /\ wish' \in {Off, On} /\ prepared' \subseteq Probers
        /\ starter' \in [Sessions -> Starters] /\ told' \subseteq Reports
    BY <2>1, <2>2, <2>3, ConfigTypes
  <2> QED BY <2>1, <2>4, Idles DEF ExploreTypeOK
<1> QED BY <1>1, <1>2, <1>3, <1>4, <1>5, <1>6, <1>7 DEF CloseStep

LEMMA UserTypes == ASSUME ExploreTypeOK, UserConfigures PROVE ExploreTypeOK'
<1>1. PICK cfg \in {Off, On} : Configure(cfg, "user", 0)
  BY DEF UserConfigures
<1>2. left' \in Rooms
  BY DEF ExploreTypeOK, UserConfigures, Rooms
<1>3. cfg \in Configs /\ "user" \in Enders
  BY Numbers DEF Enders
<1> QED BY <1>1, <1>2, <1>3, ConfigureTypes, Numbers

LEMMA StartStepTypes ==
    ASSUME ExploreTypeOK, NEW k \in Sessions,
           \/ AskFree(k) \/ EnableFree(k) \/ EnableRefused(k)
           \/ OpenSession(k) \/ UndoFree(k)
    PROVE  ExploreTypeOK'
<1>0. /\ k \in 0 .. MaxSessions /\ Of(k) \in Configs
      /\ {Off, On} \subseteq Configs /\ {"user", "start", "undo"} \subseteq Enders
  BY Numbers DEF Enders
<1>2. CASE AskFree(k)
  <2>1. left' \in Rooms
    BY <1>2 DEF ExploreTypeOK, AskFree, Rooms
  <2>2. previous' \in [Sessions -> Configs] /\ starter' \in [Sessions -> Starters]
    BY <1>2 DEF ExploreTypeOK, AskFree, Starters
  <2> QED BY <1>2, <2>1, <2>2 DEF ExploreTypeOK, AskFree, workVars
<1>3. CASE EnableFree(k)
  <2>1. left' \in Rooms /\ Configure(Of(k), "start", k)
    BY <1>3 DEF ExploreTypeOK, EnableFree
  <2> QED BY <1>0, <2>1, ConfigureTypes
<1>4. CASE EnableRefused(k)
  BY <1>4 DEF ExploreTypeOK, EnableRefused, workVars, Starters
<1>5. CASE OpenSession(k)
  <2>1. sessions' \in [Sessions -> SessionRows]
    BY <1>5 DEF ExploreTypeOK, OpenSession, SessionRows, Statuses
  <2>3. child' \in [Sessions -> ChildRows]
    <3>1. [state |-> "exploring", fresh |-> TRUE] \in ChildRows
      BY DEF ChildRows, ChildStates
    <3> QED BY <1>5, <3>1 DEF ExploreTypeOK, OpenSession
  <2>2. starter' \in [Sessions -> Starters] /\ told' \subseteq Reports
    BY <1>5 DEF ExploreTypeOK, OpenSession, Starters, If, Reports
  <2> QED BY <1>5, <2>1, <2>2, <2>3 DEF ExploreTypeOK, OpenSession
<1>6. CASE UndoFree(k)
  <2>1. CASE Configure(previous[k], "undo", k)
    <3>1. left' \in Rooms /\ previous[k] \in Configs
      BY <1>6 DEF ExploreTypeOK, UndoFree
    <3> QED BY <1>0, <2>1, <3>1, ConfigureTypes
  <2>2. CASE ~ Configure(previous[k], "undo", k)
    BY <1>6, <2>2 DEF ExploreTypeOK, UndoFree, workVars, Starters, Reports
  <2> QED BY <2>1, <2>2
<1> QED BY <1>2, <1>3, <1>4, <1>5, <1>6

LEMMA WorkStepTypes ==
    ASSUME ExploreTypeOK, NEW k \in Sessions, TrainChild(k) \/ TrainFails(k) \/ DiscardChild(k)
    PROVE  ExploreTypeOK'
<1>1. CASE TrainChild(k)
  <2>1. sessions' \in [Sessions -> SessionRows]
    BY <1>1 DEF ExploreTypeOK, TrainChild, SessionRows, Statuses
  <2>2. trainer' \in Trainings /\ told' \subseteq Reports
    BY <1>1, Numbers DEF ExploreTypeOK, TrainChild, Trainings, Reports
  <2> QED BY <1>1, <2>1, <2>2 DEF ExploreTypeOK, TrainChild, TrainFrame
<1>2. CASE TrainFails(k)
  BY <1>2 DEF ExploreTypeOK, TrainFails, TrainFrame, ChildRows, ChildStates
<1>3. CASE DiscardChild(k)
  BY <1>3 DEF ExploreTypeOK, DiscardChild, TrainFrame, ChildRows, ChildStates
<1> QED BY <1>1, <1>2, <1>3

LEMMA CommitTypes ==
    ASSUME ExploreTypeOK, CommitModel \/ ReportTraining \/ \E passed \in BOOLEAN : PersistGate(passed)
    PROVE  ExploreTypeOK'
<1>4. CASE CommitModel
  <2>1. facts' \in [Sessions -> FactRows] /\ trainer' \in Trainings
    BY <1>4 DEF ExploreTypeOK, CommitModel, FactRows, Trainings
  <2> QED BY <1>4, <2>1 DEF ExploreTypeOK, CommitModel, TrainFrame
<1>5. CASE ReportTraining
  <2>1. sessions' \in [Sessions -> SessionRows]
    BY <1>5 DEF ExploreTypeOK, ReportTraining, SessionRows, Statuses
  <2>2. trainer' \in Trainings
    BY <1>5, Numbers DEF ReportTraining, TrainerRests, Trainings
  <2> QED BY <1>5, <2>1, <2>2 DEF ExploreTypeOK, ReportTraining, TrainFrame
<1>6. ASSUME NEW passed \in BOOLEAN, PersistGate(passed) PROVE ExploreTypeOK'
  <2>1. child' \in [Sessions -> ChildRows]
    <3>1. \A s \in ChildStates : [child EXCEPT ![trainer.k].state = s] \in [Sessions -> ChildRows]
      BY DEF ExploreTypeOK, ChildRows
    <3>2. {"comparing", "blocked"} \subseteq ChildStates
      BY DEF ChildStates
    <3>3. \/ child' = child
          \/ child' = [child EXCEPT ![trainer.k].state = "comparing"]
          \/ child' = [child EXCEPT ![trainer.k].state = "blocked"]
      BY <1>6 DEF PersistGate
    <3> QED BY <3>1, <3>2, <3>3 DEF ExploreTypeOK
  <2>2. trainer' \in Trainings
    BY <1>6 DEF ExploreTypeOK, PersistGate, Trainings
  <2> QED BY <1>6, <2>1, <2>2 DEF ExploreTypeOK, PersistGate, TrainFrame
<1> QED BY <1>4, <1>5, <1>6

LEMMA DeathTypes == ASSUME ExploreTypeOK, ProcessDies PROVE ExploreTypeOK'
<1>1. trial' \in [Probers -> Trials] /\ closing' \in Endings
  BY Idles DEF ProcessDies
<1>2. trainer' \in Trainings /\ starter' \in [Sessions -> Starters]
  BY Numbers DEF ExploreTypeOK, ProcessDies, TrainerRests, Trainings, Starters
<1>3. left' \in Rooms /\ told' \subseteq Reports
  BY DEF ExploreTypeOK, ProcessDies, Rooms, If, Reports
<1> QED BY <1>1, <1>2, <1>3 DEF ExploreTypeOK, ProcessDies

LEMMA TypesStay == ASSUME ExploreTypeOK, FrameInv, [ExploreNext]_exploreVars PROVE ExploreTypeOK'
<1>1. CASE UNCHANGED exploreVars
  BY <1>1 DEF ExploreTypeOK, exploreVars, workVars
<1>2. ASSUME NEW p \in Probers,
             \/ \E kind \in {"reference", "probe"} : Propose(p, kind)
             \/ BeginProbe(p) \/ CallEnds(p) \/ CallFails(p) \/ ObserveTrial(p) \/ CutShort(p)
      PROVE  ExploreTypeOK'
  BY <1>2, ProbeStepTypes
<1>3. ASSUME NEW k \in Sessions, AskFree(k) \/ EnableFree(k) \/ EnableRefused(k) \/ OpenSession(k) \/ UndoFree(k)
      PROVE  ExploreTypeOK'
  BY <1>3, StartStepTypes
<1>4. ASSUME NEW k \in Sessions, TrainChild(k) \/ TrainFails(k) \/ DiscardChild(k)
      PROVE  ExploreTypeOK'
  BY <1>4, WorkStepTypes
<1>5. CASE CommitModel \/ ReportTraining \/ \E passed \in BOOLEAN : PersistGate(passed)
  BY <1>5, CommitTypes
<1> QED BY <1>1, <1>2, <1>3, <1>4, <1>5, UserTypes, CloseStepTypes, DeathTypes DEF ExploreNext

-----------------------------------------------------------------------------
(* Probes.                                                                   *)

\* Close at another agent ends its trial; at the Host it opens the end of one.
LEMMA CloseKeepsProbes ==
    ASSUME ExploreTypeOK, ProbeInv, NEW p \in Probers, NEW measured, NEW caller, NEW cfg, NEW k,
           Close(p, measured, caller, cfg, k), calling' \subseteq calling, told \subseteq told',
           p \in calling' => "cut" \in told'
    PROVE  ProbeInv'
<1>1. CASE p # Host
  <2>1. /\ trial' = [trial EXCEPT ![p] = NoTrial] /\ prepared' = prepared \ {p}
        /\ UNCHANGED closing
    BY <1>1 DEF Close
  <2> QED BY <1>1, <2>1 DEF ExploreTypeOK, ProbeInv, NoTrial
<1>2. CASE p = Host
  <2>1. UNCHANGED <<trial, prepared>>
    BY <1>2 DEF Close
  <2> QED BY <1>2, <2>1 DEF ProbeInv
<1> QED BY <1>1, <1>2

LEMMA ConfigureKeepsProbes ==
    ASSUME ExploreTypeOK, ProbeInv, NEW cfg, NEW caller, NEW k, Configure(cfg, caller, k)
    PROVE  ProbeInv'
<1>0. Host \in Probers
  BY ExploreAssumption DEF ExploreAssumption
<1>1. CASE trial[Host].kind = "none"
  <2>1. /\ UNCHANGED <<trial, closing, calling>> /\ prepared' \subseteq prepared /\ told \subseteq told'
    BY <1>1 DEF Configure, SetConfig
  <2> QED BY <2>1 DEF ProbeInv
<1>2. CASE trial[Host].kind # "none"
  <2>1. /\ Close(Host, FALSE, caller, cfg, k) /\ told' = told \cup If(Host \in calling, "cut")
        /\ UNCHANGED calling
    BY <1>2 DEF Configure
  <2>2. Host \in calling => "cut" \in told'
    BY <2>1 DEF If
  <2> QED BY <1>0, <2>1, <2>2, CloseKeepsProbes
<1> QED BY <1>1, <1>2

LEMMA ProbeStepKeepsProbes ==
    ASSUME ExploreTypeOK, ProbeInv, NEW p \in Probers,
           \/ \E kind \in {"reference", "probe"} : Propose(p, kind)
           \/ BeginProbe(p) \/ CallEnds(p) \/ CallFails(p) \/ ObserveTrial(p) \/ CutShort(p)
    PROVE  ProbeInv'
<1>1. ASSUME NEW kind \in {"reference", "probe"}, Propose(p, kind) PROVE ProbeInv'
  <2>1. CASE kind = "reference"
    <3>1. /\ trial[p].kind = "none" /\ p \notin calling
          /\ prepared' = prepared \ {p} /\ UNCHANGED <<calling, told, closing>>
      BY <1>1, <2>1 DEF Propose, TrialFrame
    <3>2. /\ \A q \in Probers \ {p} : trial'[q] = trial[q]
          /\ trial'[p].kind = "reference"
      BY <1>1, <2>1 DEF Propose, EnterTrial, ExploreTypeOK
    <3> QED BY <3>1, <3>2 DEF ProbeInv, ExploreTypeOK
  <2>2. CASE kind = "probe"
    BY <1>1, <2>2 DEF Propose, TrialFrame, ProbeInv
  <2> QED BY <2>1, <2>2
<1>2. CASE BeginProbe(p)
  <2>1. /\ p \in prepared /\ closing.step = "none" /\ UNCHANGED <<prepared, told, closing>>
        /\ calling' = calling \cup {p} /\ \A q \in Probers \ {p} : trial[q].kind # "probe"
    BY <1>2 DEF BeginProbe, Unlocked, OthersProbe, TrialFrame
  <2>2. /\ \A q \in Probers \ {p} : trial'[q] = trial[q]
        /\ trial'[p].kind = "probe"
    <3>1. CASE trial[p].kind = "none"
      BY <1>2, <3>1 DEF BeginProbe, EnterTrial, ExploreTypeOK
    <3>2. CASE trial[p].kind = "probe"
      BY <1>2, <3>2 DEF BeginProbe
    <3>3. trial[p].kind \in {"none", "reference", "probe"}
      BY DEF ExploreTypeOK, Trials
    <3> QED BY <2>1, <3>1, <3>2, <3>3 DEF ProbeInv
  <2> QED BY <2>1, <2>2 DEF ProbeInv, ExploreTypeOK
<1>3. CASE CallEnds(p)
  BY <1>3 DEF CallEnds, TrialFrame, ProbeInv
<1>4. CASE CallFails(p)
  <2>1. CASE trial[p].kind # "none"
    <3>1. Close(p, FALSE, "none", Off, 0) /\ calling' = calling \ {p} /\ UNCHANGED told
      BY <1>4, <2>1 DEF CallFails
    <3> QED BY <3>1, CloseKeepsProbes
  <2>2. CASE trial[p].kind = "none"
    BY <1>4, <2>2 DEF CallFails, ProbeInv
  <2> QED BY <2>1, <2>2
<1>5. CASE ObserveTrial(p)
  <2>1. PICK measured \in BOOLEAN : Close(p, measured, "none", Off, 0)
    BY <1>5 DEF ObserveTrial
  <2>2. p \notin calling /\ UNCHANGED <<calling, told>>
    BY <1>5 DEF ObserveTrial
  <2> QED BY <2>1, <2>2, CloseKeepsProbes
<1>6. CASE CutShort(p)
  <2>1. Close(p, FALSE, "none", Off, 0) /\ told' = told \cup {"cut"} /\ UNCHANGED calling
    BY <1>6 DEF CutShort
  <2> QED BY <2>1, CloseKeepsProbes
<1> QED BY <1>1, <1>2, <1>3, <1>4, <1>5, <1>6

\* What the other steps do to the variables of ProbeInv.
LEMMA OthersKeepProbes ==
    ASSUME ProbeInv, told \subseteq told', UNCHANGED <<trial, prepared, calling>>,
           closing'.step = "teach" => closing.step = "teach"
    PROVE  ProbeInv'
  BY DEF ProbeInv

LEMMA ProbesStay == ASSUME ExploreTypeOK, ProbeInv, [ExploreNext]_exploreVars PROVE ProbeInv'
<1>1. CASE UNCHANGED exploreVars
  BY <1>1 DEF exploreVars, workVars, ProbeInv
<1>2. ASSUME NEW p \in Probers,
             \/ \E kind \in {"reference", "probe"} : Propose(p, kind)
             \/ BeginProbe(p) \/ CallEnds(p) \/ CallFails(p) \/ ObserveTrial(p) \/ CutShort(p)
      PROVE  ProbeInv'
  BY <1>2, ProbeStepKeepsProbes
<1>3. CASE CloseStep
  <2>1. CASE TeachAndClear
    BY <2>1 DEF TeachAndClear, EndFrame, ProbeInv, ExploreTypeOK, NoTrial
  <2>2. CASE ApplySettings
    BY <2>2 DEF ApplySettings, SetConfig, NotClosing, ProbeInv
  <2>3. CASE CountOutcome \/ RestoreSettings \/ WriteStatus \/ Forget
    BY <2>3, OthersKeepProbes
       DEF CountOutcome, RestoreSettings, WriteStatus, Forget, EndFrame, ClosingTo, NotClosing, ExploreTypeOK, Endings
  <2>4. CASE HandToChild
    <3>1. /\ told \subseteq told' /\ UNCHANGED <<trial, prepared, calling>>
          /\ Raised \/ ClosingTo("restart") \/ ClosingTo("status")
      BY <2>4 DEF HandToChild, EndFrame, Raised
    <3>2. closing'.step # "teach"
      BY <3>1 DEF Raised, ClosingTo, NotClosing, ExploreTypeOK, Endings
    <3> QED BY <3>1, <3>2, OthersKeepProbes
  <2> QED BY <1>3, <2>1, <2>2, <2>3, <2>4 DEF CloseStep
<1>4. CASE UserConfigures
  BY <1>4, ConfigureKeepsProbes DEF UserConfigures
<1>5. ASSUME NEW k \in Sessions, AskFree(k) \/ EnableFree(k) \/ EnableRefused(k) \/ OpenSession(k) \/ UndoFree(k)
      PROVE  ProbeInv'
  <2>1. CASE AskFree(k) \/ EnableRefused(k)
    BY <2>1 DEF AskFree, EnableRefused, ProbeInv
  <2>2. CASE EnableFree(k)
    BY <2>2, ConfigureKeepsProbes DEF EnableFree
  <2>3. CASE OpenSession(k)
    <3>1. told \subseteq told' /\ UNCHANGED <<trial, prepared, calling, closing>>
      BY <2>3 DEF OpenSession
    <3> QED BY <3>1, OthersKeepProbes
  <2>4. CASE UndoFree(k)
    <3>1. CASE Configure(previous[k], "undo", k)
      BY <3>1, ConfigureKeepsProbes
    <3>2. CASE ~ Configure(previous[k], "undo", k)
      BY <2>4, <3>2 DEF UndoFree, ProbeInv
    <3> QED BY <3>1, <3>2
  <2> QED BY <1>5, <2>1, <2>2, <2>3, <2>4
<1>6. ASSUME NEW k \in Sessions, TrainChild(k) \/ TrainFails(k) \/ DiscardChild(k) PROVE ProbeInv'
  <2>1. told \subseteq told' /\ UNCHANGED <<trial, prepared, calling, closing>>
    BY <1>6 DEF TrainChild, TrainFails, DiscardChild, TrainFrame
  <2> QED BY <2>1, OthersKeepProbes
<1>7. CASE CommitModel \/ ReportTraining \/ \E passed \in BOOLEAN : PersistGate(passed)
  <2>1. told \subseteq told' /\ UNCHANGED <<trial, prepared, calling, closing>>
    BY <1>7 DEF CommitModel, ReportTraining, PersistGate, TrainFrame
  <2> QED BY <2>1, OthersKeepProbes
<1>8. CASE ProcessDies
  BY <1>8 DEF ProcessDies, ProbeInv, NotClosing, NoTrial
<1> QED BY <1>1, <1>2, <1>3, <1>4, <1>5, <1>6, <1>7, <1>8 DEF ExploreNext

-----------------------------------------------------------------------------
(* The start of a session.                                                   *)

LEMMA CloseKeepsStart ==
    ASSUME ExploreTypeOK, StartInv, closing.step = "none", NEW p \in Probers, NEW measured, NEW caller, NEW cfg, NEW k,
           Close(p, measured, caller, cfg, k), caller = "start" => k \in Sessions /\ starter[k] = "configure",
           UNCHANGED <<starter, sessions, child, trainer>>
    PROVE  StartInv'
<1>1. CASE p # Host
  BY <1>1 DEF Close, StartInv, Untouched
<1>2. CASE p = Host
  <2>1. closing'.caller = caller /\ closing'.k = k
    BY <1>2 DEF Close
  <2> QED BY <2>1 DEF StartInv, Untouched
<1> QED BY <1>1, <1>2

LEMMA SettingsKeepStart ==
    ASSUME ExploreTypeOK, StartInv, NEW cfg, NEW caller, NEW k, SetConfig(cfg, caller, k),
           caller = "start" => k \in Sessions /\ starter[k] = "configure",
           closing'.step = "none", UNCHANGED <<sessions, child, trainer>>
    PROVE  StartInv'
<1>1. starter' = IF caller = "user" THEN starter
                 ELSE [starter EXCEPT ![k] = IF caller = "start" THEN "insert" ELSE "over"]
  BY DEF SetConfig
<1>2. \A j \in Sessions : starter'[j] # "over" => sessions[j].status = "none"
  BY <1>1 DEF ExploreTypeOK, StartInv
<1> QED BY <1>2 DEF StartInv, Untouched

LEMMA ConfigureKeepsStart ==
    ASSUME ExploreTypeOK, StartInv, NEW cfg, NEW caller, NEW k, Configure(cfg, caller, k),
           caller = "start" => k \in Sessions /\ starter[k] = "configure"
    PROVE  StartInv'
<1>0. Host \in Probers
  BY ExploreAssumption DEF ExploreAssumption
<1>1. CASE trial[Host].kind = "none"
  <2>1. SetConfig(cfg, caller, k) /\ closing' = closing /\ closing.step = "none"
        /\ UNCHANGED <<sessions, child, trainer>>
    BY <1>1 DEF Configure, Unlocked
  <2> QED BY <2>1, SettingsKeepStart
<1>2. CASE trial[Host].kind # "none"
  <2>1. Close(Host, FALSE, caller, cfg, k) /\ closing.step = "none"
        /\ UNCHANGED <<starter, sessions, child, trainer>>
    BY <1>2 DEF Configure, Unlocked
  <2> QED BY <1>0, <2>1, CloseKeepsStart
<1> QED BY <1>1, <1>2

LEMMA ProbeStepKeepsStart ==
    ASSUME ExploreTypeOK, StartInv, NEW p \in Probers,
           \/ \E kind \in {"reference", "probe"} : Propose(p, kind)
           \/ BeginProbe(p) \/ CallEnds(p) \/ CallFails(p) \/ ObserveTrial(p) \/ CutShort(p)
    PROVE  StartInv'
<1>1. CASE UNCHANGED <<starter, sessions, child, trainer, closing>>
  BY <1>1 DEF StartInv, Untouched
<1>2. CASE \/ \E kind \in {"reference", "probe"} : Propose(p, kind)
           \/ BeginProbe(p) \/ CallEnds(p)
  BY <1>1, <1>2 DEF Propose, BeginProbe, CallEnds, TrialFrame, workVars
<1>3. CASE CallFails(p)
  <2>1. CASE trial[p].kind # "none"
    <3>1. Close(p, FALSE, "none", Off, 0) /\ closing.step = "none" /\ UNCHANGED <<starter, sessions, child, trainer>>
      BY <1>3, <2>1 DEF CallFails, Unlocked
    <3> QED BY <3>1, CloseKeepsStart
  <2>2. CASE trial[p].kind = "none"
    BY <1>1, <1>3, <2>2 DEF CallFails
  <2> QED BY <2>1, <2>2
<1>4. CASE ObserveTrial(p)
  <2>1. PICK measured \in BOOLEAN : Close(p, measured, "none", Off, 0)
    BY <1>4 DEF ObserveTrial
  <2>2. closing.step = "none" /\ UNCHANGED <<starter, sessions, child, trainer>>
    BY <1>4 DEF ObserveTrial, Unlocked
  <2> QED BY <2>1, <2>2, CloseKeepsStart
<1>5. CASE CutShort(p)
  <2>1. Close(p, FALSE, "none", Off, 0) /\ closing.step = "none" /\ UNCHANGED <<starter, sessions, child, trainer>>
    BY <1>5 DEF CutShort, Unlocked
  <2> QED BY <2>1, CloseKeepsStart
<1> QED BY <1>2, <1>3, <1>4, <1>5

LEMMA CountKeepsStatus ==
    ASSUME ExploreTypeOK, CountOutcome
    PROVE  \A k \in Sessions : sessions'[k].status = sessions[k].status
<1>1. sessions \in [Sessions -> SessionRows]
  BY DEF ExploreTypeOK
<1>2. CASE closing.row \in Sessions
  BY <1>1, <1>2 DEF CountOutcome, SessionRows
<1>3. CASE closing.row \notin Sessions
  BY <1>1, <1>3 DEF CountOutcome
<1> QED BY <1>2, <1>3

LEMMA CloseStepKeepsStart == ASSUME ExploreTypeOK, StartInv, FrameInv, CloseStep PROVE StartInv'
<1>0. closing \in Endings
  BY DEF ExploreTypeOK
<1>1. CASE TeachAndClear \/ CountOutcome \/ RestoreSettings \/ Forget
  <2>1. /\ UNCHANGED <<starter, child, trainer>>
        /\ \A k \in Sessions : sessions'[k].status = sessions[k].status
    <3>1. CASE CountOutcome
      BY <3>1, CountKeepsStatus DEF CountOutcome, EndFrame
    <3>2. CASE TeachAndClear \/ RestoreSettings \/ Forget
      BY <3>2 DEF TeachAndClear, RestoreSettings, Forget, EndFrame
    <3> QED BY <1>1, <3>1, <3>2
  <2>2. /\ closing'.step = "none" \/ (closing.step # "none" /\ closing'.caller = closing.caller)
        /\ closing'.step = "none" \/ closing'.k = closing.k
    <3>1. CASE TeachAndClear
      BY <1>0, <3>1 DEF TeachAndClear, Endings
    <3>2. CASE CountOutcome
      BY <1>0, <3>2 DEF CountOutcome, ClosingTo, Endings
    <3>3. CASE RestoreSettings
      BY <1>0, <3>3 DEF RestoreSettings, ClosingTo, Endings
    <3>4. CASE Forget
      BY <1>0, <3>4 DEF Forget, ClosingTo, NotClosing, Endings
    <3> QED BY <1>1, <3>1, <3>2, <3>3, <3>4
  <2> QED BY <2>1, <2>2 DEF StartInv, Untouched
<1>2. CASE HandToChild
  <2>0. closing.row \in Sessions /\ sessions[closing.row].status # "none" /\ UNCHANGED trainer
    BY <1>2 DEF FrameInv, HandToChild, EndFrame
  <2>1. CASE Raised /\ UNCHANGED <<child, sessions>>
    <3>1. closing'.step = "none" /\ \A k \in Sessions : starter'[k] # "over" => starter[k] # "over"
      BY <2>1 DEF Raised, NotClosing, ExploreTypeOK
    <3> QED BY <2>0, <2>1, <3>1 DEF StartInv, Untouched
  <2>2. CASE sessions' = ChildGone(closing.row) /\ ClosingTo("restart") /\ UNCHANGED <<child, starter, told>>
    <3>1. closing'.caller = closing.caller /\ closing'.k = closing.k /\ closing.step # "none"
      BY <1>0, <1>2, <2>2 DEF ClosingTo, Endings, HandToChild
    <3>2. \A k \in Sessions : sessions'[k].status = IF k = closing.row THEN "failed" ELSE sessions[k].status
      BY <2>2 DEF ChildGone, ExploreTypeOK, SessionRows
    <3> QED BY <2>0, <2>2, <3>1, <3>2 DEF StartInv, Untouched
  <2>3. CASE /\ child' = HandedOver(closing.row) \/ child' = Insufficient(closing.row)
             /\ ClosingTo("status") /\ UNCHANGED <<sessions, starter>>
    <3>1. closing'.caller = closing.caller /\ closing'.k = closing.k /\ closing.step # "none"
      BY <1>0, <1>2, <2>3 DEF ClosingTo, Endings, HandToChild
    <3>2. \A k \in Sessions \ {closing.row} : child'[k] = child[k]
      BY <2>3 DEF HandedOver, Insufficient, ExploreTypeOK
    <3> QED BY <2>0, <2>3, <3>1, <3>2 DEF StartInv, Untouched
  <2>4. \/ Raised /\ UNCHANGED <<child, sessions>>
        \/ sessions' = ChildGone(closing.row) /\ ClosingTo("restart") /\ UNCHANGED <<child, starter, told>>
        \/ /\ child' = HandedOver(closing.row) \/ child' = Insufficient(closing.row)
           /\ ClosingTo("status") /\ UNCHANGED <<sessions, starter>>
    BY <1>2 DEF HandToChild
  <2> QED BY <2>1, <2>2, <2>3, <2>4
<1>3. CASE WriteStatus
  <2>1. closing'.caller = closing.caller /\ closing'.k = closing.k /\ closing.step # "none"
    BY <1>0, <1>3 DEF ClosingTo, Endings, WriteStatus
  <2>2. /\ closing.row \in Sessions /\ sessions[closing.row].status # "none"
        /\ UNCHANGED <<starter, child, trainer>>
    BY <1>3 DEF FrameInv, WriteStatus, EndFrame
  <2>3. \A k \in Sessions \ {closing.row} : sessions'[k].status = sessions[k].status
    BY <1>3, <2>2 DEF WriteStatus, ExploreTypeOK, SessionRows
  <2>4. sessions'[closing.row].status \in {"training", "no_evidence"}
    BY <1>3, <2>2 DEF WriteStatus, ExploreTypeOK, SessionRows
  <2> QED BY <2>1, <2>2, <2>3, <2>4 DEF StartInv, Untouched
<1>4. CASE ApplySettings
  <2>1. SetConfig(closing.cfg, closing.caller, closing.k) /\ closing.step = "apply" /\ closing' = NotClosing
        /\ UNCHANGED <<sessions, child, trainer>>
    BY <1>4 DEF ApplySettings
  <2>2. closing.caller = "start" => closing.k \in Sessions /\ starter[closing.k] = "configure"
    BY <2>1 DEF StartInv
  <2>3. closing'.step = "none"
    BY <2>1 DEF NotClosing
  <2> QED BY <2>1, <2>2, <2>3, SettingsKeepStart
<1> QED BY <1>1, <1>2, <1>3, <1>4 DEF CloseStep

\* Opening a session changes its own row and child only.
LEMMA OpenChanges ==
    ASSUME ExploreTypeOK, NEW k \in Sessions, OpenSession(k)
    PROVE  /\ starter[k] = "insert" /\ starter'[k] \in {"over", "undo"}
           /\ \A j \in Sessions \ {k} : sessions'[j] = sessions[j] /\ child'[j] = child[j] /\ starter'[j] = starter[j]
           /\ \/ UNCHANGED <<sessions, child>>
              \/ /\ sessions'[k].status = "collecting" /\ child'[k].state = "exploring"
                 /\ starter'[k] = "over"
           /\ UNCHANGED <<trial, closing, trainer, taught>> /\ told \subseteq told'
<1>1. starter[k] = "insert" /\ UNCHANGED <<trial, closing, trainer, taught>> /\ told \subseteq told'
  BY DEF OpenSession
<1>2. CASE starter' = [starter EXCEPT ![k] = "undo"] /\ UNCHANGED <<sessions, child, told>>
  BY <1>1, <1>2 DEF ExploreTypeOK
<1>3. CASE /\ sessions' = [sessions EXCEPT ![k].status = "collecting"]
           /\ child' = [child EXCEPT ![k] = [state |-> "exploring", fresh |-> TRUE]]
           /\ starter' = [starter EXCEPT ![k] = "over"]
  <2>1. sessions'[k].status = "collecting" /\ \A j \in Sessions \ {k} : sessions'[j] = sessions[j]
    BY <1>3 DEF ExploreTypeOK, SessionRows
  <2>2. child'[k].state = "exploring" /\ \A j \in Sessions \ {k} : child'[j] = child[j]
    BY <1>3 DEF ExploreTypeOK, ChildRows
  <2>3. starter'[k] = "over" /\ \A j \in Sessions \ {k} : starter'[j] = starter[j]
    BY <1>3 DEF ExploreTypeOK
  <2> QED BY <1>1, <2>1, <2>2, <2>3
<1> QED BY <1>2, <1>3 DEF OpenSession

LEMMA StartStepKeepsStart ==
    ASSUME ExploreTypeOK, StartInv, NEW k \in Sessions,
           AskFree(k) \/ EnableFree(k) \/ EnableRefused(k) \/ OpenSession(k) \/ UndoFree(k)
    PROVE  StartInv'
<1>1. ASSUME closing.step = "none", UNCHANGED <<closing, sessions, child, trainer>>,
             NEW s \in Starters, starter[k] # "over", starter' = [starter EXCEPT ![k] = s]
      PROVE  StartInv'
  BY <1>1 DEF ExploreTypeOK, StartInv, Untouched
<1>2. CASE AskFree(k)
  BY <1>1, <1>2 DEF AskFree, Unlocked, workVars, Starters
<1>3. CASE EnableFree(k)
  BY <1>3, ConfigureKeepsStart DEF EnableFree
<1>4. CASE EnableRefused(k)
  BY <1>1, <1>4 DEF EnableRefused, Unlocked, workVars, Starters
<1>5. CASE OpenSession(k)
  BY <1>5, OpenChanges DEF StartInv, Untouched
<1>6. CASE UndoFree(k)
  <2>1. CASE Configure(previous[k], "undo", k)
    BY <2>1, ConfigureKeepsStart
  <2>2. CASE ~ Configure(previous[k], "undo", k)
    BY <1>1, <1>6, <2>2 DEF UndoFree, Unlocked, workVars, Starters
  <2> QED BY <2>1, <2>2
<1> QED BY <1>2, <1>3, <1>4, <1>5, <1>6

\* What the worker and a discard do: only a child with a row is trained, its
\* session is not one that has yet to open, and no row goes back to that.
LEMMA WorkChanges ==
    ASSUME ExploreTypeOK, StartInv,
           \/ \E k \in Sessions : TrainChild(k) \/ TrainFails(k) \/ DiscardChild(k)
           \/ CommitModel \/ ReportTraining \/ \E passed \in BOOLEAN : PersistGate(passed)
    PROVE  /\ UNCHANGED <<starter, trial, closing, taught>> /\ told \subseteq told'
           /\ \A j \in Sessions : sessions'[j].measured = sessions[j].measured
           /\ \A j \in Sessions : sessions'[j].status # sessions[j].status =>
                  /\ ~ Collects(j) /\ ~ Untouched(j)
                  /\ sessions'[j].status \notin {"none", "collecting"}
           /\ \A j \in Sessions : Collects(j) => Collects(j)'
           /\ \A j \in Sessions : Untouched(j) => Untouched(j)'
<1>0. /\ sessions \in [Sessions -> SessionRows] /\ child \in [Sessions -> ChildRows]
      /\ trainer \in Trainings
  BY DEF ExploreTypeOK
<1>1. ASSUME NEW k \in Sessions, TrainChild(k)
      PROVE  /\ UNCHANGED <<starter, trial, closing, taught, child>> /\ told \subseteq told'
             /\ child[k].state = "queued"
             /\ trainer' = trainer \/ trainer'.k = k
             /\ \A j \in Sessions : sessions'[j].measured = sessions[j].measured
             /\ \A j \in Sessions \ {k} : sessions'[j].status = sessions[j].status
             /\ sessions'[k].status \in {sessions[k].status, "no_evidence", "blocked"}
  <2>1. /\ UNCHANGED <<starter, trial, closing, taught, child>> /\ told \subseteq told' /\ child[k].state = "queued"
        /\ UNCHANGED trainer \/ trainer' = [step |-> "commit", k |-> k]
        /\ \/ UNCHANGED sessions
           \/ sessions' = [sessions EXCEPT ![k].status = "no_evidence"]
           \/ sessions' = [sessions EXCEPT ![k].status = "blocked"]
    BY <1>1 DEF TrainChild, TrainFrame
  <2>2. /\ \A j \in Sessions : sessions'[j].measured = sessions[j].measured
        /\ \A j \in Sessions \ {k} : sessions'[j].status = sessions[j].status
        /\ sessions'[k].status \in {sessions[k].status, "no_evidence", "blocked"}
    BY <1>0, <2>1 DEF SessionRows
  <2> QED BY <2>1, <2>2
<1>2. ASSUME NEW k \in Sessions, TrainFails(k) \/ DiscardChild(k)
      PROVE  /\ UNCHANGED <<starter, trial, closing, taught, sessions, trainer>> /\ told \subseteq told'
             /\ \A j \in Sessions \ {k} : child'[j] = child[j]
             /\ child[k].state # "none"
             /\ child'[k].state = "none" \/ child[k].state = "queued"
  BY <1>0, <1>2 DEF TrainFails, DiscardChild, TrainFrame, ChildRows
<1>3. CASE \E k \in Sessions : TrainChild(k) \/ TrainFails(k) \/ DiscardChild(k)
  BY <1>1, <1>2, <1>3 DEF Collects, Untouched
<1>4. CASE CommitModel
  BY <1>0, <1>4 DEF CommitModel, TrainFrame, Collects, Untouched, Trainings
<1>5. CASE ReportTraining
  <2>1. /\ UNCHANGED <<starter, trial, closing, taught, told, child>>
        /\ trainer.step # "none" /\ trainer'.step = "none" /\ trainer.step \in {"complete", "blocked"}
        /\ sessions' = [sessions EXCEPT ![trainer.k].status = trainer.step]
    BY <1>5 DEF ReportTraining, TrainFrame, TrainerRests
  <2>2. /\ \A j \in Sessions : sessions'[j].measured = sessions[j].measured
        /\ \A j \in Sessions \ {trainer.k} : sessions'[j].status = sessions[j].status
        /\ trainer.k \in Sessions => sessions'[trainer.k].status = trainer.step
    BY <1>0, <2>1 DEF SessionRows
  <2> QED BY <2>1, <2>2 DEF Collects, Untouched
<1>6. ASSUME NEW passed \in BOOLEAN, PersistGate(passed)
      PROVE  /\ UNCHANGED <<starter, trial, closing, taught, told, sessions>>
             /\ trainer.step # "none" /\ trainer'.k = trainer.k
             /\ \A j \in Sessions \ {trainer.k} : child'[j] = child[j]
  <2>1. trainer'.k = trainer.k
    BY <1>0, <1>6 DEF PersistGate, Trainings
  <2>2. \A j \in Sessions \ {trainer.k} : child'[j] = child[j]
    BY <1>0, <1>6 DEF PersistGate
  <2> QED BY <1>6, <2>1, <2>2 DEF PersistGate, TrainFrame
<1>7. CASE \E passed \in BOOLEAN : PersistGate(passed)
  BY <1>6, <1>7 DEF Collects, Untouched
<1> QED BY <1>3, <1>4, <1>5, <1>7

LEMMA StartStays == ASSUME ExploreTypeOK, StartInv, FrameInv, [ExploreNext]_exploreVars PROVE StartInv'
<1>1. CASE UNCHANGED exploreVars
  BY <1>1 DEF exploreVars, workVars, StartInv, Untouched
<1>2. ASSUME NEW p \in Probers,
             \/ \E kind \in {"reference", "probe"} : Propose(p, kind)
             \/ BeginProbe(p) \/ CallEnds(p) \/ CallFails(p) \/ ObserveTrial(p) \/ CutShort(p)
      PROVE  StartInv'
  BY <1>2, ProbeStepKeepsStart
<1>3. CASE UserConfigures
  BY <1>3, ConfigureKeepsStart DEF UserConfigures
<1>4. ASSUME NEW k \in Sessions, AskFree(k) \/ EnableFree(k) \/ EnableRefused(k) \/ OpenSession(k) \/ UndoFree(k)
      PROVE  StartInv'
  BY <1>4, StartStepKeepsStart
<1>5. CASE \/ \E k \in Sessions : TrainChild(k) \/ TrainFails(k) \/ DiscardChild(k)
           \/ CommitModel \/ ReportTraining \/ \E passed \in BOOLEAN : PersistGate(passed)
  BY <1>5, WorkChanges DEF StartInv
<1>6. CASE ProcessDies
  <2>1. /\ \A k \in Sessions : starter'[k] # "over" => starter[k] # "over"
        /\ closing'.step = "none" /\ trainer'.step = "none" /\ UNCHANGED <<sessions, child>>
    BY <1>6 DEF ProcessDies, NotClosing, TrainerRests
  <2> QED BY <2>1 DEF StartInv, Untouched
<1> QED BY <1>1, <1>2, <1>3, <1>4, <1>5, <1>6, CloseStepKeepsStart DEF ExploreNext

-----------------------------------------------------------------------------
(* What is taught.                                                           *)

\* A step that enters a trial, opens its end, or drops it, and touches no session.
TrialStep ==
    /\ closing.step = "none" /\ UNCHANGED <<sessions, child, trainer, taught>> /\ told \subseteq told'
    /\ \/ UNCHANGED closing /\ trial'[Host].session \in {trial[Host].session, Latest, 0}
       \/ /\ closing'.step = "teach" /\ closing'.keep = Latest /\ closing'.clean = taught
          /\ closing'.caller = "user" => closing'.cfg \in {Off, On}
          /\ UNCHANGED trial

LEMMA CloseIsTrialStep ==
    ASSUME ExploreTypeOK, NEW p \in Probers, NEW measured, NEW caller, NEW cfg, NEW k,
           Close(p, measured, caller, cfg, k), caller = "user" => cfg \in {Off, On},
           closing.step = "none", UNCHANGED <<sessions, child, trainer, taught>>, told \subseteq told'
    PROVE  TrialStep
<1>1. CASE p # Host
  <2>1. UNCHANGED closing /\ trial' = [trial EXCEPT ![p] = NoTrial]
    BY <1>1 DEF Close
  <2>2. trial'[Host] = trial[Host]
    BY <1>1, <2>1, ExploreAssumption DEF ExploreTypeOK, ExploreAssumption
  <2> QED BY <2>1, <2>2 DEF TrialStep
<1>2. CASE p = Host
  <2>1. UNCHANGED trial
    BY <1>2 DEF Close
  <2>2. /\ closing'.step = "teach" /\ closing'.keep = Latest /\ closing'.clean = taught
        /\ closing'.caller = caller /\ closing'.cfg = cfg
    BY <1>2 DEF Close
  <2> QED BY <2>1, <2>2 DEF TrialStep
<1> QED BY <1>1, <1>2

LEMMA ConfigureIsTrialStep ==
    ASSUME ExploreTypeOK, NEW cfg, NEW caller, NEW k, Configure(cfg, caller, k),
           caller = "user" => cfg \in {Off, On}
    PROVE  TrialStep
<1>0. Host \in Probers
  BY ExploreAssumption DEF ExploreAssumption
<1>1. closing.step = "none" /\ UNCHANGED <<sessions, child, trainer, taught>>
  BY DEF Configure, Unlocked
<1>2. CASE trial[Host].kind = "none"
  <2>1. UNCHANGED <<trial, closing>> /\ told \subseteq told'
    BY <1>2 DEF Configure, SetConfig
  <2> QED BY <1>1, <2>1 DEF TrialStep
<1>3. CASE trial[Host].kind # "none"
  <2>1. Close(Host, FALSE, caller, cfg, k) /\ told \subseteq told'
    BY <1>3 DEF Configure
  <2> QED BY <1>0, <1>1, <2>1, CloseIsTrialStep
<1> QED BY <1>2, <1>3

LEMMA ProbeStepIsTrialStep ==
    ASSUME ExploreTypeOK, NEW p \in Probers,
           \/ \E kind \in {"reference", "probe"} : Propose(p, kind)
           \/ BeginProbe(p) \/ CallEnds(p) \/ CallFails(p) \/ ObserveTrial(p) \/ CutShort(p)
    PROVE  TrialStep
<1>0. Host \in Probers
  BY ExploreAssumption DEF ExploreAssumption
<1>1. ASSUME NEW kind, EnterTrial(p, kind) PROVE trial'[Host].session \in {trial[Host].session, Latest}
  BY <1>0, <1>1 DEF EnterTrial, ExploreTypeOK
<1>2. ASSUME NEW kind \in {"reference", "probe"}, Propose(p, kind) PROVE TrialStep
  BY <1>1, <1>2 DEF Propose, TrialFrame, workVars, Unlocked, TrialStep
<1>3. CASE BeginProbe(p)
  BY <1>1, <1>3 DEF BeginProbe, TrialFrame, workVars, Unlocked, TrialStep
<1>4. CASE CallEnds(p)
  BY <1>4 DEF CallEnds, TrialFrame, workVars, Unlocked, TrialStep
<1>5. CASE CallFails(p)
  <2>1. closing.step = "none" /\ UNCHANGED <<sessions, child, trainer, taught, told>>
    BY <1>5 DEF CallFails, Unlocked
  <2>2. CASE trial[p].kind # "none"
    <3>1. Close(p, FALSE, "none", Off, 0)
      BY <1>5, <2>2 DEF CallFails
    <3> QED BY <2>1, <3>1, CloseIsTrialStep
  <2>3. CASE trial[p].kind = "none"
    BY <1>5, <2>1, <2>3 DEF CallFails, TrialStep
  <2> QED BY <2>2, <2>3
<1>6. CASE ObserveTrial(p)
  <2>1. PICK measured \in BOOLEAN : Close(p, measured, "none", Off, 0)
    BY <1>6 DEF ObserveTrial
  <2>2. closing.step = "none" /\ UNCHANGED <<sessions, child, trainer, taught, told>>
    BY <1>6 DEF ObserveTrial, Unlocked
  <2> QED BY <2>1, <2>2, CloseIsTrialStep
<1>7. CASE CutShort(p)
  <2>1. Close(p, FALSE, "none", Off, 0) /\ closing.step = "none"
        /\ UNCHANGED <<sessions, child, trainer, taught>> /\ told \subseteq told'
    BY <1>7 DEF CutShort, Unlocked
  <2> QED BY <2>1, CloseIsTrialStep
<1> QED BY <1>2, <1>3, <1>4, <1>5, <1>6, <1>7

LEMMA TrialStepKeeps ==
    ASSUME ExploreTypeOK, SessionInv, LessonInv, FrameInv, TrialStep
    PROVE  SessionInv' /\ LessonInv' /\ FrameInv'
<1>0. /\ closing.step = "none" /\ UNCHANGED <<sessions, child, trainer, taught>> /\ told \subseteq told'
      /\ Host \in Probers
  BY ExploreAssumption DEF TrialStep, ExploreAssumption
<1>1. LessonInv' /\ FrameInv'
  BY <1>0 DEF TrialStep, LessonInv, FrameInv
<1>2. ASSUME "died" \notin told' PROVE SessionInv'
  <2>0. /\ \A k \in Sessions : sessions[k].status = "collecting" => Collects(k)
        /\ trial[Host].session # 0 => sessions[trial[Host].session].status = "collecting"
    BY <1>0, <1>2 DEF SessionInv, Marking
  <2>1. \A k \in Sessions : sessions'[k].status = "collecting" => Collects(k)'
    BY <1>0, <2>0 DEF Collects
  <2>2. Latest # 0 => sessions[Latest].status = "collecting"
    BY LatestCollects DEF Collecting
  <2>3. trial'[Host].session # 0 => sessions[trial'[Host].session].status = "collecting"
    BY <2>0, <2>2 DEF TrialStep
  <2>4. CASE UNCHANGED closing
    BY <1>0, <2>1, <2>3, <2>4 DEF SessionInv
  <2>5. CASE /\ closing'.step = "teach" /\ closing'.keep = Latest /\ UNCHANGED trial
    <3>1. trial[Host].session \in 0 .. MaxSessions
      BY <1>0 DEF ExploreTypeOK, Trials
    <3>2. trial[Host].session # 0 => trial[Host].session \in Collecting
      BY <2>0, <3>1, ExploreAssumption DEF ExploreAssumption, Collecting, Sessions
    <3>3. trial'[Host].session # 0 => closing'.keep # 0
      BY <2>5, <3>2, LatestCollects
    <3> QED BY <1>0, <2>1, <2>3, <2>5, <3>3 DEF SessionInv
  <2> QED BY <2>4, <2>5 DEF TrialStep
<1> QED BY <1>1, <1>2 DEF SessionInv

LEMMA OpenKeeps ==
    ASSUME ExploreTypeOK, StartInv, SessionInv, LessonInv, FrameInv, NEW k \in Sessions, OpenSession(k)
    PROVE  SessionInv' /\ LessonInv' /\ FrameInv'
<1>1. /\ sessions[k].status = "none" /\ Untouched(k)
      /\ \A j \in Sessions \ {k} : sessions'[j] = sessions[j] /\ child'[j] = child[j]
      /\ \/ UNCHANGED <<sessions, child>>
         \/ sessions'[k].status = "collecting" /\ child'[k].state = "exploring"
      /\ UNCHANGED <<trial, closing, trainer, taught>> /\ told \subseteq told'
  BY OpenChanges DEF StartInv
<1>2. \A j \in Sessions : sessions'[j].measured = sessions[j].measured
  BY DEF ExploreTypeOK, OpenSession, SessionRows
<1>3. LessonInv' /\ FrameInv'
  BY <1>1, <1>2 DEF LessonInv, FrameInv
<1>4. ASSUME "died" \notin told' PROVE SessionInv'
  <2>1. \A j \in Sessions : sessions'[j].status = "collecting" => Marking(j)' \/ Collects(j)'
    <3>1. CASE UNCHANGED <<sessions, child>>
      BY <1>1, <1>4, <3>1 DEF SessionInv, Marking, Collects
    <3>2. CASE sessions'[k].status = "collecting" /\ child'[k].state = "exploring"
      BY <1>1, <1>4, <3>2 DEF SessionInv, Marking, Collects, Untouched
    <3> QED BY <1>1, <3>1, <3>2
  <2>2. trial[Host].session # 0 => trial[Host].session \in Sessions
    BY ExploreAssumption DEF ExploreTypeOK, ExploreAssumption, Trials, Sessions
  <2>3. trial'[Host].session # 0 => sessions'[trial'[Host].session].status = "collecting"
    BY <1>1, <1>4, <2>2 DEF SessionInv
  <2> QED BY <1>1, <1>4, <2>1, <2>3 DEF SessionInv
<1> QED BY <1>3, <1>4 DEF SessionInv

LEMMA WorkKeeps ==
    ASSUME ExploreTypeOK, StartInv, SessionInv, LessonInv, FrameInv,
           \/ \E k \in Sessions : TrainChild(k) \/ TrainFails(k) \/ DiscardChild(k)
           \/ CommitModel \/ ReportTraining \/ \E passed \in BOOLEAN : PersistGate(passed)
    PROVE  SessionInv' /\ LessonInv' /\ FrameInv'
<1>1. /\ UNCHANGED <<starter, trial, closing, taught>> /\ told \subseteq told'
      /\ \A j \in Sessions : sessions'[j].measured = sessions[j].measured
      /\ \A j \in Sessions : sessions'[j].status # sessions[j].status =>
             ~ Collects(j) /\ sessions'[j].status \notin {"none", "collecting"}
      /\ \A j \in Sessions : Collects(j) => Collects(j)'
  BY WorkChanges
<1>2. LessonInv' /\ FrameInv'
  BY <1>1 DEF LessonInv, FrameInv
<1>3. ASSUME "died" \notin told' PROVE SessionInv'
  <2>1. \A j \in Sessions : sessions'[j].status = "collecting" => Marking(j)' \/ Collects(j)'
    BY <1>1, <1>3 DEF SessionInv, Marking
  <2>2. trial[Host].session # 0 => trial[Host].session \in Sessions
    BY ExploreAssumption DEF ExploreTypeOK, ExploreAssumption, Trials, Sessions
  <2>3. trial'[Host].session # 0 => sessions'[trial'[Host].session].status = "collecting"
    BY <1>1, <1>3, <2>2 DEF SessionInv, Marking
  <2> QED BY <1>1, <1>3, <2>1, <2>3 DEF SessionInv
<1> QED BY <1>2, <1>3 DEF SessionInv

\* A step of the end of a trial that writes no status and leaves the children alone.
LEMMA QuietEndKeepsSessions ==
    ASSUME ExploreTypeOK, SessionInv, closing.step \notin {"none", "status"}, closing'.step # "teach",
           UNCHANGED <<child, trainer>>, told \subseteq told',
           \A j \in Sessions : sessions'[j].status = sessions[j].status,
           trial'[Host] = NoTrial \/ (UNCHANGED trial /\ closing.step # "teach")
    PROVE  SessionInv'
<1> SUFFICES ASSUME "died" \notin told' PROVE SessionInv'
  BY DEF SessionInv
<1>1. "died" \notin told
  OBVIOUS
<1>2. trial'[Host].session = 0
  BY <1>1 DEF SessionInv, NoTrial
<1>3. \A j \in Sessions : sessions'[j].status = "collecting" => Collects(j)'
  BY <1>1 DEF SessionInv, Marking, Collects
<1> QED BY <1>2, <1>3 DEF SessionInv

LEMMA TeachKeeps ==
    ASSUME ExploreTypeOK, SessionInv, LessonInv, FrameInv, TeachAndClear
    PROVE  SessionInv' /\ LessonInv' /\ FrameInv'
<1>0. Host \in Probers /\ closing \in Endings /\ trial \in [Probers -> Trials]
  BY ExploreAssumption DEF ExploreAssumption, ExploreTypeOK
<1>1. /\ closing.step = "teach" /\ trial'[Host] = NoTrial /\ told \subseteq told'
      /\ UNCHANGED <<sessions, child, trainer>>
  BY <1>0 DEF TeachAndClear, EndFrame
<1>2. /\ closing'.step = IF Latest = 0 THEN "restart" ELSE "count"
      /\ closing'.row = Latest /\ closing'.keep = closing.keep /\ closing'.clean = closing.clean
      /\ closing'.measured = closing.measured /\ closing'.caller = closing.caller /\ closing'.cfg = closing.cfg
  BY <1>0 DEF TeachAndClear, Endings
<1>3. SessionInv'
  BY <1>1, <1>2, QuietEndKeepsSessions
<1>4. FrameInv'
  BY <1>1, <1>2, LatestCollects DEF FrameInv, Collecting
<1>5. ASSUME told' \cap {"died", "late"} = {} PROVE LessonInv'
  <2>1. /\ told \cap {"died", "late"} = {} /\ ~ taught
        /\ closing.keep = 0 => Latest = 0
    BY <1>1, <1>5 DEF LessonInv, TeachAndClear, If
  <2>2. closing.keep = 0 => trial[Host].session = 0
    BY <1>1, <2>1 DEF SessionInv
  <2>3. taught' => closing.measured /\ closing.keep # 0
    BY <2>1, <2>2 DEF TeachAndClear
  <2> QED BY <1>2, <2>1, <2>3 DEF LessonInv
<1> QED BY <1>3, <1>4, <1>5 DEF LessonInv

LEMMA CountKeeps ==
    ASSUME ExploreTypeOK, SessionInv, LessonInv, FrameInv, CountOutcome
    PROVE  SessionInv' /\ LessonInv' /\ FrameInv'
<1>0. closing \in Endings /\ closing.row \in Sessions /\ sessions[closing.row].status # "none"
  BY DEF ExploreTypeOK, FrameInv, CountOutcome
<1>1. /\ closing.step = "count" /\ UNCHANGED <<child, trainer, trial, told, taught>>
      /\ \A j \in Sessions : sessions'[j].status = sessions[j].status
  BY CountKeepsStatus DEF CountOutcome, EndFrame
<1>2. /\ closing'.step \in {"restart", "restore"} /\ closing'.row = closing.row
      /\ closing'.keep = closing.keep /\ closing'.clean = closing.clean
      /\ closing'.caller = closing.caller /\ closing'.cfg = closing.cfg
  BY <1>0 DEF CountOutcome, ClosingTo, Endings
<1>3. closing.measured => sessions'[closing.row].measured
  BY <1>0 DEF CountOutcome, ExploreTypeOK, SessionRows
<1>4. SessionInv'
  BY <1>1, <1>2, QuietEndKeepsSessions
<1>5. FrameInv'
  BY <1>0, <1>1, <1>2 DEF FrameInv
<1>6. LessonInv'
  BY <1>1, <1>2, <1>3 DEF LessonInv
<1> QED BY <1>4, <1>5, <1>6

LEMMA RestoreKeeps ==
    ASSUME ExploreTypeOK, SessionInv, LessonInv, FrameInv, RestoreSettings
    PROVE  SessionInv' /\ LessonInv' /\ FrameInv'
<1>0. closing \in Endings
  BY DEF ExploreTypeOK
<1>1. /\ closing.step = "restore" /\ UNCHANGED <<sessions, child, trainer, trial, taught>>
      /\ told \subseteq told'
  BY DEF RestoreSettings, EndFrame
<1>2. /\ closing'.step = "edge" /\ closing'.row = closing.row
      /\ closing'.keep = closing.keep /\ closing'.clean = closing.clean
      /\ closing'.caller = closing.caller /\ closing'.cfg = closing.cfg
  BY <1>0 DEF RestoreSettings, ClosingTo, Endings
<1>3. SessionInv'
  BY <1>1, <1>2, QuietEndKeepsSessions
<1>4. FrameInv' /\ LessonInv'
  BY <1>1, <1>2 DEF FrameInv, LessonInv
<1> QED BY <1>3, <1>4

LEMMA HandKeeps ==
    ASSUME ExploreTypeOK, SessionInv, LessonInv, FrameInv, HandToChild
    PROVE  SessionInv' /\ LessonInv' /\ FrameInv'
<1>0. /\ closing \in Endings /\ closing.row \in Sessions /\ sessions[closing.row].status # "none"
      /\ closing.step = "edge" /\ UNCHANGED <<trial, trainer, taught>> /\ told \subseteq told'
  BY DEF ExploreTypeOK, FrameInv, HandToChild, EndFrame, Raised
<1>1. CASE /\ ~ sessions[closing.row].measured /\ closing' = NotClosing
           /\ UNCHANGED <<child, sessions>>
  <2>1. closing'.step = "none" /\ closing'.caller = "none" /\ closing'.clean = FALSE
    BY <1>1 DEF NotClosing
  <2>2. SessionInv'
    BY <1>0, <1>1, <2>1, QuietEndKeepsSessions
  <2>3. LessonInv' /\ FrameInv'
    BY <1>0, <1>1, <2>1 DEF LessonInv, FrameInv
  <2> QED BY <2>2, <2>3
<1>2. CASE sessions' = ChildGone(closing.row) /\ ClosingTo("restart") /\ UNCHANGED child
  <2>1. /\ closing'.step = "restart" /\ closing'.keep = closing.keep /\ closing'.clean = closing.clean
        /\ closing'.caller = closing.caller /\ closing'.cfg = closing.cfg
    BY <1>0, <1>2 DEF ClosingTo, Endings
  <2>2. \A j \in Sessions : sessions'[j].status = IF j = closing.row THEN "failed" ELSE sessions[j].status
    BY <1>2 DEF ChildGone, ExploreTypeOK, SessionRows
  <2>3. LessonInv' /\ FrameInv'
    BY <1>0, <2>1 DEF LessonInv, FrameInv
  <2>4. SessionInv'
    BY <1>0, <1>2, <2>1, <2>2 DEF SessionInv, Marking, Collects
  <2> QED BY <2>3, <2>4
<1>3. CASE /\ child' = HandedOver(closing.row) \/ child' = Insufficient(closing.row)
           /\ ClosingTo("status") /\ UNCHANGED sessions
  <2>1. /\ closing'.step = "status" /\ closing'.row = closing.row
        /\ closing'.keep = closing.keep /\ closing'.clean = closing.clean
        /\ closing'.caller = closing.caller /\ closing'.cfg = closing.cfg
    BY <1>0, <1>3 DEF ClosingTo, Endings
  <2>2. \A j \in Sessions \ {closing.row} : child'[j] = child[j]
    BY <1>3 DEF HandedOver, Insufficient, ExploreTypeOK
  <2>3. LessonInv' /\ FrameInv'
    BY <1>0, <1>3, <2>1 DEF LessonInv, FrameInv
  <2>4. SessionInv'
    BY <1>0, <1>3, <2>1, <2>2 DEF SessionInv, Marking, Collects
  <2> QED BY <2>3, <2>4
<1>4. \/ /\ ~ sessions[closing.row].measured /\ closing' = NotClosing
         /\ UNCHANGED <<child, sessions>>
      \/ sessions' = ChildGone(closing.row) /\ ClosingTo("restart") /\ UNCHANGED child
      \/ /\ child' = HandedOver(closing.row) \/ child' = Insufficient(closing.row)
         /\ ClosingTo("status") /\ UNCHANGED sessions
  BY DEF HandToChild, Raised
<1> QED BY <1>1, <1>2, <1>3, <1>4

LEMMA StatusKeeps ==
    ASSUME ExploreTypeOK, SessionInv, LessonInv, FrameInv, WriteStatus
    PROVE  SessionInv' /\ LessonInv' /\ FrameInv'
<1>0. /\ closing \in Endings /\ closing.row \in Sessions
      /\ closing.step = "status" /\ UNCHANGED <<child, trial, trainer, taught, told>>
  BY DEF ExploreTypeOK, FrameInv, WriteStatus, EndFrame
<1>1. /\ closing'.step = "restart" /\ closing'.keep = closing.keep /\ closing'.clean = closing.clean
      /\ closing'.caller = closing.caller /\ closing'.cfg = closing.cfg
  BY <1>0 DEF WriteStatus, ClosingTo, Endings
<1>2. /\ \A j \in Sessions \ {closing.row} : sessions'[j] = sessions[j]
      /\ sessions'[closing.row].status # "collecting"
  BY <1>0 DEF WriteStatus, ExploreTypeOK, SessionRows
<1>3. LessonInv' /\ FrameInv'
  BY <1>0, <1>1 DEF LessonInv, FrameInv
<1>4. SessionInv'
  BY <1>0, <1>1, <1>2 DEF SessionInv, Marking, Collects
<1> QED BY <1>3, <1>4

LEMMA LastStepsKeep ==
    ASSUME ExploreTypeOK, SessionInv, LessonInv, FrameInv, Forget \/ ApplySettings
    PROVE  SessionInv' /\ LessonInv' /\ FrameInv'
<1>0. /\ closing \in Endings
      /\ closing.step \in {"restart", "apply"} /\ UNCHANGED <<sessions, child, trial, trainer>> /\ told \subseteq told'
  BY DEF ExploreTypeOK, Forget, ApplySettings, SetConfig, EndFrame
<1>1. \/ /\ closing'.step = "none" /\ closing'.caller = "none" /\ ~ closing'.clean
      \/ /\ closing'.step = "apply" /\ closing'.caller = closing.caller /\ closing'.cfg = closing.cfg
         /\ closing'.clean = closing.clean
  BY <1>0 DEF Forget, ApplySettings, ClosingTo, NotClosing, Endings
<1>2. told \cap {"died", "late"} = {} => ~ taught'
  BY DEF Forget, ApplySettings, LessonInv
<1>3. LessonInv' /\ FrameInv'
  BY <1>0, <1>1, <1>2 DEF LessonInv, FrameInv
<1>4. SessionInv'
  BY <1>0, <1>1, QuietEndKeepsSessions
<1> QED BY <1>3, <1>4

LEMMA DeathKeeps ==
    ASSUME ExploreTypeOK, SessionInv, LessonInv, FrameInv, ProcessDies
    PROVE  SessionInv' /\ LessonInv' /\ FrameInv'
<1>0. Host \in Probers
  BY ExploreAssumption DEF ExploreAssumption
<1>1. /\ UNCHANGED <<sessions, child, taught>> /\ told \subseteq told'
      /\ closing.step # "none" => "died" \in told'
      /\ closing'.step = "none" /\ closing'.caller = "none" /\ ~ closing'.clean
      /\ trainer'.step = "none" /\ trial'[Host].session = 0
  BY <1>0 DEF ProcessDies, NotClosing, TrainerRests, NoTrial, Unlocked, If
<1>2. LessonInv' /\ FrameInv'
  BY <1>1 DEF LessonInv, FrameInv
<1>3. SessionInv'
  BY <1>1 DEF SessionInv, Marking, Collects
<1> QED BY <1>2, <1>3

LEMMA LessonsStay ==
    ASSUME ExploreTypeOK, StartInv, SessionInv, LessonInv, FrameInv, [ExploreNext]_exploreVars
    PROVE  SessionInv' /\ LessonInv' /\ FrameInv'
<1>1. CASE UNCHANGED exploreVars
  BY <1>1 DEF exploreVars, workVars, SessionInv, LessonInv, FrameInv, Marking, Collects
<1>2. ASSUME NEW p \in Probers,
             \/ \E kind \in {"reference", "probe"} : Propose(p, kind)
             \/ BeginProbe(p) \/ CallEnds(p) \/ CallFails(p) \/ ObserveTrial(p) \/ CutShort(p)
      PROVE  SessionInv' /\ LessonInv' /\ FrameInv'
  BY <1>2, ProbeStepIsTrialStep, TrialStepKeeps
<1>3. CASE CloseStep
  BY <1>3, TeachKeeps, CountKeeps, RestoreKeeps, HandKeeps, StatusKeeps, LastStepsKeep DEF CloseStep
<1>4. CASE UserConfigures
  BY <1>4, ConfigureIsTrialStep, TrialStepKeeps DEF UserConfigures
<1>5. ASSUME NEW k \in Sessions, AskFree(k) \/ EnableFree(k) \/ EnableRefused(k) \/ OpenSession(k) \/ UndoFree(k)
      PROVE  SessionInv' /\ LessonInv' /\ FrameInv'
  <2>1. CASE AskFree(k) \/ EnableRefused(k)
    BY <2>1, TrialStepKeeps DEF AskFree, EnableRefused, Unlocked, workVars, TrialStep
  <2>2. CASE EnableFree(k)
    <3>1. Configure(Of(k), "start", k)
      BY <2>2 DEF EnableFree
    <3> QED BY <3>1, ConfigureIsTrialStep, TrialStepKeeps
  <2>3. CASE OpenSession(k)
    BY <2>3, OpenKeeps
  <2>4. CASE UndoFree(k)
    <3>1. CASE Configure(previous[k], "undo", k)
      BY <3>1, ConfigureIsTrialStep, TrialStepKeeps
    <3>2. CASE ~ Configure(previous[k], "undo", k)
      BY <2>4, <3>2, TrialStepKeeps DEF UndoFree, Unlocked, workVars, TrialStep
    <3> QED BY <3>1, <3>2
  <2> QED BY <1>5, <2>1, <2>2, <2>3, <2>4
<1>6. CASE \/ \E k \in Sessions : TrainChild(k) \/ TrainFails(k) \/ DiscardChild(k)
           \/ CommitModel \/ ReportTraining \/ \E passed \in BOOLEAN : PersistGate(passed)
  BY <1>6, WorkKeeps
<1>7. CASE ProcessDies
  BY <1>7, DeathKeeps
<1> QED BY <1>1, <1>2, <1>3, <1>4, <1>5, <1>6, <1>7 DEF ExploreNext

-----------------------------------------------------------------------------
(* The settings.  A session that has begun and not yet put the old settings  *)
(* back is pending.  Unless something is excused, there is a set of pending  *)
(* sessions, each begun over the settings of an earlier one or over the      *)
(* user's, whose last one has its settings in force; when none is pending,   *)
(* the user's are.                                                           *)

Excused == told \cap {"overlap", "refused", "died"} # {}

Pending(k) ==
    \/ starter[k] \in {"insert", "undo"}
    \/ /\ starter[k] = "over" /\ sessions[k].status = "collecting"
       /\ \/ sessions[k].count < Budgets[k]
          \/ closing.step = "restore" /\ closing.row = k

\* The settings of before session k are back, its status is still to be written.
PutBack(k) == closing.step \in {"edge", "status"} /\ closing.row = k

Nested(A) ==
    /\ config = wish \/ \E k \in A : config = Of(k)
    /\ \A k \in A : Pending(k) /\ ~ PutBack(k)
    /\ \A k \in A : previous[k] = wish \/ \E j \in A : j < k /\ previous[k] = Of(j)

\* What the caller of _finish asked for is still what it will apply.
CallerInv ==
    closing.step # "none" =>
        /\ closing.caller = "start" =>
               closing.k \in Sessions /\ starter[closing.k] = "configure" /\ closing.cfg = Of(closing.k)
        /\ closing.caller = "undo" =>
               closing.k \in Sessions /\ starter[closing.k] = "undo" /\ closing.cfg = previous[closing.k]
        /\ closing.step = "apply" => closing.caller # "none"

OrderInv ==
    /\ \A j, k \in Sessions : j < k /\ starter[k] # "idle" => starter[j] = "over"
    /\ \A k \in Sessions : sessions[k].status = "none" => sessions[k].count = 0

NestInv == ~ Excused => \E A \in SUBSET Sessions : Nested(A)

WishInv == CallerInv /\ OrderInv /\ NestInv

LEMMA OwnSettings ==
    /\ \A k \in Sessions : k \in Nat \ {0} /\ Of(k) \notin {Off, On}
    /\ \A j, k \in Sessions : Of(j) = Of(k) => j = k
  BY ExploreAssumption DEF ExploreAssumption, Sessions, Of, Off, On

\* Nothing that Nested speaks of changes, but for the sessions pending outside A.
LEMMA NestedStays ==
    ASSUME NEW A \in SUBSET Sessions, Nested(A), UNCHANGED <<config, wish>>,
           \A k \in A : previous'[k] = previous[k] /\ Pending(k)' /\ ~ PutBack(k)'
    PROVE  Nested(A)'
  BY DEF Nested

\* Only what starter, sessions and closing say can change who is pending.
LEMMA NestStays ==
    ASSUME NestInv, told \subseteq told', UNCHANGED <<config, wish>>,
           \A k \in Sessions : ~ Excused /\ ~ Excused' /\ Pending(k) /\ ~ PutBack(k) =>
               previous'[k] = previous[k] /\ Pending(k)' /\ ~ PutBack(k)'
    PROVE  NestInv'
<1> SUFFICES ASSUME ~ Excused' PROVE \E A \in SUBSET Sessions : Nested(A)'
  BY DEF NestInv
<1>1. ~ Excused
  BY DEF Excused
<1>2. PICK A \in SUBSET Sessions : Nested(A)
  BY <1>1 DEF NestInv
<1>3. \A k \in A : k \in Sessions /\ Pending(k) /\ ~ PutBack(k)
  BY <1>2 DEF Nested
<1>4. Nested(A)'
  BY <1>1, <1>2, <1>3, NestedStays
<1> QED BY <1>4

\* The session whose settings are in force puts back the ones of before.
LEMMA NestedPops ==
    ASSUME ExploreTypeOK, NEW A \in SUBSET Sessions, Nested(A), NEW k \in Sessions,
           config = Of(k), config' = previous[k], UNCHANGED <<wish, previous>>,
           \A j \in A : j # k => Pending(j)',
           \A j \in A : j # k => ~ PutBack(j)'
    PROVE  \E B \in SUBSET Sessions : Nested(B)'
<1> DEFINE B == {j \in A : j < k}
<1>1. k \in A
  <2>1. config # wish
    BY OwnSettings DEF ExploreTypeOK
  <2> QED BY <2>1, OwnSettings DEF Nested
<1>2. previous[k] = wish \/ \E j \in B : previous[k] = Of(j)
  BY <1>1 DEF Nested
<1>3. \A j \in B : j \in A /\ j # k /\ j \in Nat
  BY OwnSettings
<1>4. \A j \in B : previous[j] = wish \/ \E i \in B : i < j /\ previous[j] = Of(i)
  <2> SUFFICES ASSUME NEW j \in B, previous[j] # wish PROVE \E i \in B : i < j /\ previous[j] = Of(i)
    OBVIOUS
  <2>1. PICK i \in A : i < j /\ previous[j] = Of(i)
    BY <1>3 DEF Nested
  <2>2. i < k
    BY <2>1, OwnSettings
  <2> QED BY <2>1, <2>2
<1>5. B \in SUBSET Sessions
  OBVIOUS
<1> HIDE DEF B
<1>6. Nested(B)'
  BY <1>2, <1>3, <1>4 DEF Nested
<1> QED BY <1>5, <1>6

\* A session puts its settings in force over the ones there are.
LEMMA NestedPushes ==
    ASSUME ExploreTypeOK, OrderInv, NEW A \in SUBSET Sessions, Nested(A), NEW k \in Sessions,
           starter[k] = "configure", config = previous[k], config' = Of(k), UNCHANGED <<wish, previous>>,
           Pending(k)', ~ PutBack(k)', \A j \in A : Pending(j)' /\ ~ PutBack(j)'
    PROVE  \E B \in SUBSET Sessions : Nested(B)'
<1>1. \A j \in A : j < k
  <2> SUFFICES ASSUME NEW j \in A PROVE j < k
    OBVIOUS
  <2>1. starter[j] \in {"insert", "undo", "over"}
    BY DEF Nested, Pending
  <2>2. j # k /\ ~ (k < j)
    BY <2>1 DEF OrderInv
  <2> QED BY <2>2, OwnSettings
<1>2. previous[k] = wish \/ \E j \in A : j < k /\ previous[k] = Of(j)
  BY <1>1 DEF Nested
<1>3. (A \cup {k}) \in SUBSET Sessions
  OBVIOUS
<1>4. Nested(A \cup {k})'
  <2>1. \A j \in A \cup {k} : previous[j] = wish \/ \E i \in A \cup {k} : i < j /\ previous[j] = Of(i)
    BY <1>2 DEF Nested
  <2> QED BY <2>1 DEF Nested
<1> QED BY <1>3, <1>4

\* Settings are applied.
LEMMA SettingsKeepWish ==
    ASSUME ExploreTypeOK, OrderInv, NestInv, NEW cfg, NEW caller \in {"user", "start", "undo"}, NEW k,
           SetConfig(cfg, caller, k), caller = "user" => cfg \in {Off, On},
           caller = "start" => k \in Sessions /\ starter[k] = "configure" /\ cfg = Of(k),
           caller = "undo" => k \in Sessions /\ starter[k] = "undo" /\ cfg = previous[k],
           closing.step \in {"none", "apply"}, closing'.step = "none", UNCHANGED <<sessions, previous>>
    PROVE  WishInv'
<1>0. /\ config' = cfg /\ wish' = IF caller = "user" THEN cfg ELSE wish
      /\ starter' = IF caller = "user" THEN starter
                    ELSE [starter EXCEPT ![k] = IF caller = "start" THEN "insert" ELSE "over"]
      /\ told' = told \cup If(\/ caller = "start" /\ config # previous[k]
                              \/ caller = "undo" /\ config # Of(k), "overlap")
  BY DEF SetConfig
<1>1. starter \in [Sessions -> Starters]
  BY DEF ExploreTypeOK
<1>2. CallerInv'
  BY DEF CallerInv
<1>3. OrderInv'
  <2>1. \A j, i \in Sessions : j < i /\ starter'[i] # "idle" => starter'[j] = "over"
    <3> SUFFICES ASSUME NEW j \in Sessions, NEW i \in Sessions, j < i, starter'[i] # "idle"
                 PROVE  starter'[j] = "over"
      OBVIOUS
    <3>1. starter[i] # "idle"
      BY <1>0, <1>1
    <3>2. starter[j] = "over"
      BY <3>1 DEF OrderInv
    <3> QED BY <1>0, <1>1, <3>2
  <2> QED BY <2>1 DEF OrderInv
<1>4. ASSUME ~ Excused' PROVE \E B \in SUBSET Sessions : Nested(B)'
  <2>0. PICK A \in SUBSET Sessions : Nested(A)
    BY <1>0, <1>4 DEF Excused, NestInv
  <2>1. ~ (caller = "start" /\ config # previous[k]) /\ ~ (caller = "undo" /\ config # Of(k))
    BY <1>0, <1>4 DEF Excused, If
  <2>2. \A j \in A : j # k => Pending(j)' /\ ~ PutBack(j)'
    BY <1>0, <1>1, <2>0 DEF Nested, Pending, PutBack
  <2>3. CASE caller = "user"
    <3>1. Nested({})'
      BY <1>0, <2>3 DEF Nested
    <3> QED BY <3>1
  <2>4. CASE caller = "start"
    <3>1. starter'[k] = "insert" /\ k \notin A
      BY <1>0, <1>1, <2>0, <2>4 DEF Nested, Pending
    <3>2. Pending(k)' /\ ~ PutBack(k)'
      BY <3>1 DEF Pending, PutBack
    <3>3. config = previous[k] /\ config' = Of(k) /\ wish' = wish
      BY <1>0, <2>1, <2>4
    <3> QED BY <2>0, <2>2, <2>4, <3>1, <3>2, <3>3, NestedPushes
  <2>5. CASE caller = "undo"
    <3>1. config = Of(k) /\ config' = previous[k] /\ wish' = wish
      BY <1>0, <2>1, <2>5
    <3> QED BY <2>0, <2>2, <2>5, <3>1, NestedPops
  <2> QED BY <2>3, <2>4, <2>5
<1> QED BY <1>2, <1>3, <1>4 DEF WishInv, NestInv

\* A step that changes neither settings nor sessions, and at most opens the end of a trial.
LEMMA QuietKeepsWish ==
    ASSUME WishInv, closing.step = "none", closing'.step \in {"none", "teach"}, CallerInv', told \subseteq told',
           UNCHANGED <<config, wish, starter, sessions, previous>>
    PROVE  WishInv'
<1>1. OrderInv'
  BY DEF WishInv, OrderInv
<1>2. NestInv'
  <2>1. \A k \in Sessions : Pending(k) => Pending(k)' /\ ~ PutBack(k)'
    BY DEF Pending, PutBack
  <2> QED BY <2>1, NestStays DEF WishInv
<1> QED BY <1>1, <1>2 DEF WishInv

LEMMA CloseKeepsWish ==
    ASSUME WishInv, NEW p, NEW measured, NEW caller, NEW cfg, NEW k, Close(p, measured, caller, cfg, k),
           caller = "start" => k \in Sessions /\ starter[k] = "configure" /\ cfg = Of(k),
           caller = "undo" => k \in Sessions /\ starter[k] = "undo" /\ cfg = previous[k],
           closing.step = "none", told \subseteq told',
           UNCHANGED <<config, wish, starter, sessions, previous>>
    PROVE  WishInv'
<1>1. \/ UNCHANGED closing
      \/ closing'.step = "teach" /\ closing'.caller = caller /\ closing'.cfg = cfg /\ closing'.k = k
  BY DEF Close
<1>2. CallerInv'
  BY <1>1 DEF CallerInv
<1> QED BY <1>1, <1>2, QuietKeepsWish

LEMMA ConfigureKeepsWish ==
    ASSUME ExploreTypeOK, WishInv, NEW cfg, NEW caller \in {"user", "start", "undo"}, NEW k,
           Configure(cfg, caller, k), caller = "user" => cfg \in {Off, On},
           caller = "start" => k \in Sessions /\ starter[k] = "configure" /\ cfg = Of(k),
           caller = "undo" => k \in Sessions /\ starter[k] = "undo" /\ cfg = previous[k]
    PROVE  WishInv'
<1>0. closing.step = "none" /\ UNCHANGED <<sessions, previous>>
  BY DEF Configure, Unlocked
<1>1. CASE trial[Host].kind = "none"
  <2>1. SetConfig(cfg, caller, k) /\ closing' = closing
    BY <1>1 DEF Configure
  <2> QED BY <1>0, <2>1, SettingsKeepWish DEF WishInv
<1>2. CASE trial[Host].kind # "none"
  <2>1. Close(Host, FALSE, caller, cfg, k) /\ told \subseteq told' /\ UNCHANGED <<config, wish, starter>>
    BY <1>2 DEF Configure
  <2> QED BY <1>0, <2>1, CloseKeepsWish
<1> QED BY <1>1, <1>2

LEMMA ProbeStepKeepsWish ==
    ASSUME WishInv, NEW p \in Probers,
           \/ \E kind \in {"reference", "probe"} : Propose(p, kind)
           \/ BeginProbe(p) \/ CallEnds(p) \/ CallFails(p) \/ ObserveTrial(p) \/ CutShort(p)
    PROVE  WishInv'
<1>0. closing.step = "none" /\ told \subseteq told' /\ UNCHANGED <<config, wish, starter, sessions, previous>>
  BY DEF Propose, BeginProbe, CallEnds, CallFails, ObserveTrial, CutShort, TrialFrame, Unlocked
<1>1. CASE UNCHANGED closing
  BY <1>0, <1>1, QuietKeepsWish DEF WishInv, CallerInv
<1>2. CASE \E measured \in BOOLEAN : Close(p, measured, "none", Off, 0)
  BY <1>0, <1>2, CloseKeepsWish
<1> QED
  BY <1>1, <1>2 DEF Propose, BeginProbe, CallEnds, CallFails, ObserveTrial, CutShort, TrialFrame

\* The steps of the end of a trial go on with the caller they began with.
LEMMA EndKeepsCaller ==
    ASSUME ExploreTypeOK, CallerInv, closing.step # "none", UNCHANGED <<starter, previous>>,
           closing'.caller = closing.caller, closing'.cfg = closing.cfg, closing'.k = closing.k,
           closing'.step = "apply" => closing.caller # "none"
    PROVE  CallerInv'
  BY DEF CallerInv

LEMMA ClosingFields ==
    ASSUME ExploreTypeOK, NEW s, ClosingTo(s)
    PROVE  /\ closing'.step = s /\ closing'.row = closing.row
           /\ closing'.caller = closing.caller /\ closing'.cfg = closing.cfg /\ closing'.k = closing.k
  BY DEF ExploreTypeOK, ClosingTo, Endings

LEMMA CountKeepsWish ==
    ASSUME ExploreTypeOK, FrameInv, WishInv, CountOutcome
    PROVE  WishInv'
<1>0. /\ closing.step = "count" /\ closing.row \in Sessions /\ sessions[closing.row].status # "none"
      /\ UNCHANGED <<config, wish, starter, previous, told>>
  BY DEF CountOutcome, FrameInv, EndFrame
<1>1. /\ closing'.row = closing.row
      /\ closing'.caller = closing.caller /\ closing'.cfg = closing.cfg /\ closing'.k = closing.k
      /\ closing'.step = IF sessions[closing.row].count + 1 < Budgets[closing.row]
                         THEN "restart" ELSE "restore"
  BY ClosingFields DEF CountOutcome
<1>2. /\ \A j \in Sessions \ {closing.row} : sessions'[j] = sessions[j]
      /\ sessions'[closing.row].count = sessions[closing.row].count + 1
      /\ sessions'[closing.row].status = sessions[closing.row].status
  BY <1>0 DEF CountOutcome, ExploreTypeOK, SessionRows
<1>3. CallerInv'
  BY <1>0, <1>1, EndKeepsCaller DEF WishInv
<1>4. OrderInv'
  BY <1>0, <1>2 DEF WishInv, OrderInv
<1>5. \A k \in Sessions : Pending(k) => Pending(k)' /\ ~ PutBack(k)'
  BY <1>0, <1>1, <1>2 DEF Pending, PutBack
<1>6. NestInv'
  BY <1>0, <1>5, NestStays DEF WishInv
<1> QED BY <1>3, <1>4, <1>6 DEF WishInv

LEMMA RestoreKeepsWish ==
    ASSUME ExploreTypeOK, FrameInv, WishInv, RestoreSettings
    PROVE  WishInv'
<1>0. /\ closing.step = "restore" /\ closing.row \in Sessions
      /\ UNCHANGED <<wish, starter, previous, sessions>>
      /\ \/ /\ config' = previous[closing.row]
            /\ told' = told \cup If(config # Of(closing.row), "overlap")
         \/ told' = told \cup {"refused"}
  BY DEF RestoreSettings, FrameInv, EndFrame
<1>1. /\ closing'.step = "edge" /\ closing'.row = closing.row
      /\ closing'.caller = closing.caller /\ closing'.cfg = closing.cfg /\ closing'.k = closing.k
  BY ClosingFields DEF RestoreSettings
<1>2. CallerInv'
  BY <1>0, <1>1, EndKeepsCaller DEF WishInv
<1>3. OrderInv'
  BY <1>0 DEF WishInv, OrderInv
<1>4. ASSUME ~ Excused' PROVE \E B \in SUBSET Sessions : Nested(B)'
  <2>1. config' = previous[closing.row] /\ config = Of(closing.row) /\ ~ Excused
    BY <1>0, <1>4 DEF Excused, If
  <2>2. PICK A \in SUBSET Sessions : Nested(A)
    BY <2>1 DEF WishInv, NestInv
  <2>3. \A j \in A : j # closing.row => Pending(j)' /\ ~ PutBack(j)'
    BY <1>0, <1>1, <2>2 DEF Nested, Pending, PutBack
  <2> QED BY <1>0, <2>1, <2>2, <2>3, NestedPops
<1> QED BY <1>2, <1>3, <1>4 DEF WishInv, NestInv

LEMMA HandKeepsWish ==
    ASSUME ExploreTypeOK, FrameInv, StartInv, WishInv, HandToChild
    PROVE  WishInv'
<1>0. /\ closing.step = "edge" /\ closing.row \in Sessions /\ sessions[closing.row].status # "none"
      /\ UNCHANGED <<config, wish, previous>>
  BY DEF HandToChild, FrameInv, EndFrame
<1>1. \/ Raised /\ UNCHANGED sessions
      \/ /\ sessions' = ChildGone(closing.row) /\ ClosingTo("restart") /\ UNCHANGED <<starter, told>>
      \/ /\ ClosingTo("status") /\ told \subseteq told' /\ UNCHANGED <<sessions, starter>>
  BY DEF HandToChild
<1>2. CASE Raised /\ UNCHANGED sessions
  <2>1. /\ closing'.step = "none" /\ told \subseteq told'
        /\ closing.caller = "undo" => Excused'
        /\ starter' = IF closing.caller \in {"start", "undo"}
                      THEN [starter EXCEPT ![closing.k] = "over"] ELSE starter
    BY <1>2 DEF Raised, NotClosing, If, Excused
  <2>2. CallerInv'
    BY <2>1 DEF CallerInv
  <2>3. OrderInv'
    <3>1. \A k \in Sessions : /\ starter[k] = "over" => starter'[k] = "over"
                              /\ starter'[k] # starter[k] => starter[k] # "idle"
      BY <1>0, <2>1 DEF WishInv, CallerInv, ExploreTypeOK
    <3> QED BY <1>2, <3>1 DEF WishInv, OrderInv
  <2>4. \A k \in Sessions : ~ Excused' /\ Pending(k) => Pending(k)' /\ ~ PutBack(k)'
    <3> SUFFICES ASSUME NEW k \in Sessions, ~ Excused', Pending(k) PROVE Pending(k)' /\ ~ PutBack(k)'
      OBVIOUS
    <3>1. starter'[k] = starter[k]
      BY <1>0, <2>1 DEF WishInv, CallerInv, Pending, ExploreTypeOK
    <3> QED BY <1>0, <1>2, <2>1, <3>1 DEF Pending, PutBack
  <2>5. NestInv'
    BY <1>0, <2>1, <2>4, NestStays DEF WishInv
  <2> QED BY <2>2, <2>3, <2>5 DEF WishInv
<1>3. CASE /\ sessions' = ChildGone(closing.row) /\ ClosingTo("restart") /\ UNCHANGED <<starter, told>>
  <2>1. /\ closing'.step = "restart" /\ closing'.caller = closing.caller
        /\ closing'.cfg = closing.cfg /\ closing'.k = closing.k
    BY <1>3, ClosingFields
  <2>2. /\ \A j \in Sessions \ {closing.row} : sessions'[j] = sessions[j]
        /\ sessions'[closing.row].status = "failed"
    BY <1>0, <1>3 DEF ChildGone, ExploreTypeOK, SessionRows
  <2>3. CallerInv'
    BY <1>0, <1>3, <2>1, EndKeepsCaller DEF WishInv
  <2>4. OrderInv'
    BY <1>3, <2>2 DEF WishInv, OrderInv
  <2>5. \A k \in Sessions : Pending(k) /\ ~ PutBack(k) => Pending(k)' /\ ~ PutBack(k)'
    BY <1>0, <1>3, <2>1, <2>2 DEF Pending, PutBack
  <2>6. NestInv'
    BY <1>0, <1>3, <2>5, NestStays DEF WishInv
  <2> QED BY <2>3, <2>4, <2>6 DEF WishInv
<1>4. CASE ClosingTo("status") /\ told \subseteq told' /\ UNCHANGED <<sessions, starter>>
  <2>1. /\ closing'.step = "status" /\ closing'.caller = closing.caller /\ closing'.row = closing.row
        /\ closing'.cfg = closing.cfg /\ closing'.k = closing.k
    BY <1>4, ClosingFields
  <2>2. CallerInv'
    BY <1>0, <1>4, <2>1, EndKeepsCaller DEF WishInv
  <2>3. OrderInv'
    BY <1>4 DEF WishInv, OrderInv
  <2>4. \A k \in Sessions : Pending(k) /\ ~ PutBack(k) => Pending(k)' /\ ~ PutBack(k)'
    BY <1>0, <1>4, <2>1 DEF Pending, PutBack
  <2>5. NestInv'
    BY <1>0, <1>4, <2>4, NestStays DEF WishInv
  <2> QED BY <2>2, <2>3, <2>5 DEF WishInv
<1> QED BY <1>1, <1>2, <1>3, <1>4

LEMMA CloseStepKeepsWish ==
    ASSUME ExploreTypeOK, FrameInv, StartInv, WishInv, CloseStep
    PROVE  WishInv'
<1>1. CASE TeachAndClear \/ Forget
  <2>1. /\ closing.step \in {"teach", "restart"} /\ told \subseteq told'
        /\ UNCHANGED <<config, wish, starter, sessions, previous>>
    BY <1>1 DEF TeachAndClear, Forget, EndFrame
  <2>2. /\ closing'.step \in {"none", "count", "restart", "apply"}
        /\ closing'.step = "none" \/ ( /\ closing'.caller = closing.caller
                                       /\ closing'.cfg = closing.cfg /\ closing'.k = closing.k)
        /\ closing'.step = "apply" => closing.caller # "none"
    <3>1. CASE TeachAndClear
      BY <3>1 DEF TeachAndClear, ExploreTypeOK, Endings
    <3>2. CASE Forget /\ closing.caller = "none"
      BY <3>2 DEF Forget, NotClosing
    <3>3. CASE Forget /\ closing.caller # "none"
      BY <3>3, ClosingFields DEF Forget
    <3> QED BY <1>1, <3>1, <3>2, <3>3
  <2>3. CallerInv'
    BY <2>1, <2>2, EndKeepsCaller DEF WishInv, CallerInv
  <2>4. OrderInv'
    BY <2>1 DEF WishInv, OrderInv
  <2>5. \A k \in Sessions : Pending(k) => Pending(k)' /\ ~ PutBack(k)'
    BY <2>1, <2>2 DEF Pending, PutBack
  <2>6. NestInv'
    BY <2>1, <2>5, NestStays DEF WishInv
  <2> QED BY <2>3, <2>4, <2>6 DEF WishInv
<1>2. CASE WriteStatus
  <2>1. /\ closing.step = "status" /\ closing.row \in Sessions
        /\ UNCHANGED <<config, wish, starter, previous, told>>
    BY <1>2 DEF WriteStatus, FrameInv, EndFrame
  <2>2. /\ closing'.step = "restart" /\ closing'.caller = closing.caller
        /\ closing'.cfg = closing.cfg /\ closing'.k = closing.k
    BY <1>2, ClosingFields DEF WriteStatus
  <2>3. /\ \A j \in Sessions \ {closing.row} : sessions'[j] = sessions[j]
        /\ sessions'[closing.row].status # "none"
    BY <1>2, <2>1 DEF WriteStatus, ExploreTypeOK, SessionRows
  <2>4. CallerInv'
    BY <2>1, <2>2, EndKeepsCaller DEF WishInv
  <2>5. OrderInv'
    BY <2>1, <2>3 DEF WishInv, OrderInv
  <2>6. \A k \in Sessions : Pending(k) /\ ~ PutBack(k) => Pending(k)' /\ ~ PutBack(k)'
    BY <2>1, <2>2, <2>3 DEF Pending, PutBack
  <2>7. NestInv'
    BY <2>1, <2>6, NestStays DEF WishInv
  <2> QED BY <2>4, <2>5, <2>7 DEF WishInv
<1>3. CASE ApplySettings
  <2>1. /\ closing.step = "apply" /\ closing'.step = "none" /\ UNCHANGED <<sessions, previous>>
        /\ SetConfig(closing.cfg, closing.caller, closing.k)
    BY <1>3 DEF ApplySettings, NotClosing
  <2>2. closing.caller \in {"user", "start", "undo"}
    BY <2>1 DEF WishInv, CallerInv, ExploreTypeOK, Endings, Enders
  <2> QED BY <2>1, <2>2, SettingsKeepWish DEF WishInv, CallerInv, FrameInv
<1> QED BY <1>1, <1>2, <1>3, CountKeepsWish, RestoreKeepsWish, HandKeepsWish DEF CloseStep

LEMMA StartStepKeepsWish ==
    ASSUME ExploreTypeOK, FrameInv, StartInv, WishInv, NEW k \in Sessions,
           AskFree(k) \/ EnableFree(k) \/ EnableRefused(k) \/ OpenSession(k) \/ UndoFree(k)
    PROVE  WishInv'
<1>0. starter \in [Sessions -> Starters] /\ previous \in [Sessions -> Configs]
  BY DEF ExploreTypeOK
<1>1. CASE AskFree(k)
  <2>1. /\ closing.step = "none" /\ starter[k] = "idle" /\ \A j \in Sessions : j < k => starter[j] = "over"
        /\ UNCHANGED <<config, wish, closing, sessions, told>>
    BY <1>1, OwnSettings, ExploreAssumption DEF ExploreAssumption, AskFree, Unlocked, workVars, Sessions
  <2>2. /\ starter'[k] = "configure"
        /\ \A j \in Sessions \ {k} : starter'[j] = starter[j] /\ previous'[j] = previous[j]
    BY <1>0, <1>1 DEF AskFree
  <2>3. CallerInv'
    BY <2>1 DEF CallerInv
  <2>4. OrderInv'
    BY <2>1, <2>2, OwnSettings DEF WishInv, OrderInv
  <2>5. \A j \in Sessions : Pending(j) /\ ~ PutBack(j) => previous'[j] = previous[j] /\ Pending(j)' /\ ~ PutBack(j)'
    BY <2>1, <2>2 DEF Pending, PutBack
  <2>6. NestInv'
    BY <2>1, <2>5, NestStays DEF WishInv
  <2> QED BY <2>3, <2>4, <2>6 DEF WishInv
<1>2. CASE EnableFree(k)
  <2>1. Configure(Of(k), "start", k) /\ starter[k] = "configure"
    BY <1>2 DEF EnableFree
  <2> QED BY <2>1, ConfigureKeepsWish
<1>3. ASSUME closing.step = "none", starter[k] \in {"configure", "undo"}, starter[k] = "undo" => Excused',
             starter' = [starter EXCEPT ![k] = "over"], told \subseteq told',
             UNCHANGED <<config, wish, previous, closing, sessions>>
      PROVE  WishInv'
  <2>1. starter'[k] = "over" /\ \A j \in Sessions \ {k} : starter'[j] = starter[j]
    BY <1>0, <1>3
  <2>2. CallerInv'
    BY <1>3 DEF CallerInv
  <2>3. OrderInv'
    BY <1>3, <2>1 DEF WishInv, OrderInv
  <2>4. \A j \in Sessions : ~ Excused' /\ Pending(j) /\ ~ PutBack(j) => Pending(j)' /\ ~ PutBack(j)'
    BY <1>3, <2>1 DEF Pending, PutBack
  <2>5. NestInv'
    BY <1>3, <2>4, NestStays DEF WishInv
  <2> QED BY <2>2, <2>3, <2>5 DEF WishInv
<1>4. CASE EnableRefused(k)
  BY <1>3, <1>4 DEF EnableRefused, Unlocked
<1>5. CASE OpenSession(k)
  <2>1. /\ starter[k] = "insert" /\ starter'[k] \in {"over", "undo"}
        /\ \A j \in Sessions \ {k} : sessions'[j] = sessions[j] /\ starter'[j] = starter[j]
        /\ \/ UNCHANGED sessions
           \/ sessions'[k].status = "collecting" /\ starter'[k] = "over"
        /\ UNCHANGED closing /\ told \subseteq told'
    BY <1>5, OpenChanges
  <2>2. /\ UNCHANGED <<config, wish, previous>>
        /\ sessions'[k].count = sessions[k].count
        /\ starter'[k] = "over" => sessions'[k].status = "collecting"
    BY <1>5, <1>0 DEF OpenSession, ExploreTypeOK, SessionRows
  <2>3. sessions[k].count = 0 /\ sessions[k].status = "none" /\ Budgets[k] > 0
    BY <2>1, ExploreAssumption DEF StartInv, WishInv, OrderInv, ExploreAssumption, Sessions
  <2>4. CallerInv'
    <3>1. closing.step # "none" /\ closing.caller \in {"start", "undo"} => closing.k # k
      BY <2>1 DEF WishInv, CallerInv
    <3> QED BY <2>1, <2>2, <3>1 DEF WishInv, CallerInv
  <2>5. OrderInv'
    <3>1. \A j \in Sessions : k < j => starter[j] = "idle"
      BY <2>1 DEF WishInv, OrderInv
    <3>2. \A j \in Sessions : j < k => starter[j] = "over"
      BY <2>1 DEF WishInv, OrderInv
    <3>3. \A i, j \in Sessions : i < j /\ starter'[j] # "idle" => starter'[i] = "over"
      BY <2>1, <3>1, <3>2, OwnSettings DEF WishInv, OrderInv
    <3>4. \A j \in Sessions : sessions'[j].status = "none" => sessions'[j].count = 0
      BY <2>1, <2>2, <2>3 DEF WishInv, OrderInv
    <3> QED BY <3>3, <3>4 DEF OrderInv
  <2>6. Pending(k)'
    BY <2>1, <2>2, <2>3 DEF Pending
  <2>7. \A j \in Sessions : Pending(j) /\ ~ PutBack(j) => Pending(j)' /\ ~ PutBack(j)'
    BY <2>1, <2>6 DEF Pending, PutBack
  <2>8. NestInv'
    BY <2>1, <2>2, <2>7, NestStays DEF WishInv
  <2> QED BY <2>4, <2>5, <2>8 DEF WishInv
<1>6. CASE UndoFree(k)
  <2>1. CASE Configure(previous[k], "undo", k)
    BY <1>6, <2>1, ConfigureKeepsWish DEF UndoFree
  <2>2. CASE ~ Configure(previous[k], "undo", k)
    BY <1>3, <1>6, <2>2 DEF UndoFree, Unlocked, Excused
  <2> QED BY <2>1, <2>2
<1> QED BY <1>1, <1>2, <1>4, <1>5, <1>6

\* The worker and a discard leave the sessions that collect alone.
LEMMA WorkKeepsWish ==
    ASSUME ExploreTypeOK, StartInv, SessionInv, WishInv,
           \/ \E k \in Sessions : TrainChild(k) \/ TrainFails(k) \/ DiscardChild(k)
           \/ CommitModel \/ ReportTraining \/ \E passed \in BOOLEAN : PersistGate(passed)
    PROVE  WishInv'
<1>1. /\ UNCHANGED <<starter, closing>> /\ told \subseteq told'
      /\ \A j \in Sessions : sessions'[j].status # sessions[j].status =>
             ~ Collects(j) /\ sessions'[j].status \notin {"none", "collecting"}
  BY WorkChanges
<1>2. UNCHANGED <<config, wish, previous>>
  BY DEF TrainChild, TrainFails, DiscardChild, CommitModel, ReportTraining, PersistGate, TrainFrame
<1>3. \A j \in Sessions : sessions'[j].count = sessions[j].count
  <2>0. sessions \in [Sessions -> SessionRows]
    BY DEF ExploreTypeOK
  <2>1. ASSUME NEW k, NEW s, sessions' = [sessions EXCEPT ![k].status = s]
        PROVE  \A j \in Sessions : sessions'[j].count = sessions[j].count
    BY <2>0, <2>1 DEF SessionRows
  <2>2. UNCHANGED sessions \/ \E k, s : sessions' = [sessions EXCEPT ![k].status = s]
    BY DEF TrainChild, TrainFails, DiscardChild, CommitModel, ReportTraining, PersistGate, TrainFrame
  <2> QED BY <2>1, <2>2
<1>4. CallerInv'
  BY <1>1, <1>2 DEF WishInv, CallerInv
<1>5. OrderInv'
  BY <1>1, <1>3 DEF WishInv, OrderInv
<1>6. ASSUME NEW j \in Sessions, ~ Excused, Pending(j), ~ PutBack(j)
      PROVE  Pending(j)' /\ ~ PutBack(j)'
  <2>1. sessions[j].status = "collecting" => Collects(j)
    BY <1>6 DEF SessionInv, Marking, PutBack, Excused
  <2> QED BY <1>1, <1>3, <1>6, <2>1 DEF Pending, PutBack
<1>7. NestInv'
  BY <1>1, <1>2, <1>6, NestStays DEF WishInv
<1> QED BY <1>4, <1>5, <1>7 DEF WishInv

LEMMA DeathKeepsWish ==
    ASSUME ExploreTypeOK, WishInv, ProcessDies
    PROVE  WishInv'
<1>1. /\ starter' = [k \in Sessions |-> IF starter[k] = "idle" THEN "idle" ELSE "over"]
      /\ closing'.step = "none" /\ told \subseteq told' /\ UNCHANGED <<config, wish, sessions, previous>>
      /\ ~ Excused' => closing.step = "none" /\ \A k \in Sessions : starter[k] \notin {"insert", "undo"}
  BY DEF ProcessDies, NotClosing, If, Excused, Unlocked
<1>2. CallerInv' /\ OrderInv'
  BY <1>1 DEF WishInv, CallerInv, OrderInv
<1>3. \A k \in Sessions : ~ Excused' /\ Pending(k) => Pending(k)' /\ ~ PutBack(k)'
  BY <1>1 DEF Pending, PutBack
<1>4. NestInv'
  BY <1>1, <1>3, NestStays DEF WishInv
<1> QED BY <1>2, <1>4 DEF WishInv

LEMMA WishStays ==
    ASSUME ExploreInv, WishInv, [ExploreNext]_exploreVars
    PROVE  WishInv'
<1> USE DEF ExploreInv
<1>1. CASE UNCHANGED exploreVars
  BY <1>1 DEF exploreVars, workVars, WishInv, CallerInv, OrderInv, NestInv, Nested, Pending, PutBack, Excused
<1>2. ASSUME NEW p \in Probers,
             \/ \E kind \in {"reference", "probe"} : Propose(p, kind)
             \/ BeginProbe(p) \/ CallEnds(p) \/ CallFails(p) \/ ObserveTrial(p) \/ CutShort(p)
      PROVE  WishInv'
  BY <1>2, ProbeStepKeepsWish
<1>3. CASE UserConfigures
  BY <1>3, ConfigureKeepsWish DEF UserConfigures
<1>4. ASSUME NEW k \in Sessions,
             AskFree(k) \/ EnableFree(k) \/ EnableRefused(k) \/ OpenSession(k) \/ UndoFree(k)
      PROVE  WishInv'
  BY <1>4, StartStepKeepsWish
<1>5. CASE \/ \E k \in Sessions : TrainChild(k) \/ TrainFails(k) \/ DiscardChild(k)
           \/ CommitModel \/ ReportTraining \/ \E passed \in BOOLEAN : PersistGate(passed)
  BY <1>5, WorkKeepsWish
<1> QED BY <1>1, <1>2, <1>3, <1>4, <1>5, CloseStepKeepsWish, DeathKeepsWish DEF ExploreNext

-----------------------------------------------------------------------------
\* The inductive invariant holds for every number of agents, sessions and outcomes.
LEMMA ExploreInvariant == ExploreSpec => []ExploreInv
<1>1. ExploreInv /\ [ExploreNext]_exploreVars => ExploreInv'
  BY TypesStay, ProbesStay, StartStays, LessonsStay DEF ExploreInv
<1> QED BY <1>1, ExploreStarts, PTL DEF ExploreSpec

\* Experiments, sessions, children and the worker keep their types through
\* agent_explore.py, experiments.py and trial_knowledge.py.
THEOREM ExploreTyped == ExploreSpec => []ExploreTypeOK
<1>1. ExploreInv => ExploreTypeOK
  BY DEF ExploreInv
<1> QED BY <1>1, ExploreInvariant, PTL

\* No two agents observe a probe at once (experiments.py: begin asks again what
\* propose asked), and only a trial that was cut short lets two calls overlap.
THEOREM ProbesStayAlone == ExploreSpec => []ProbesAlone
<1>1. ExploreInv => ProbesAlone
  BY DEF ExploreInv, ProbeInv, ProbesAlone
<1> QED BY <1>1, ExploreInvariant, PTL

\* trial_knowledge.finish leaves no outcome of a Free session in the live learner,
\* but for a death midway and a session opened after finish had looked for one.
THEOREM LessonsAreForgotten == ExploreSpec => []LiveIsNotTaught
<1>1. ExploreInv => LiveIsNotTaught
  BY DEF ExploreInv, LessonInv, LiveIsNotTaught, Unlocked
<1> QED BY <1>1, ExploreInvariant, PTL


LEMMA WishInvariant == ExploreSpec => []WishInv
<1>1. ExploreInit => WishInv
  <2> SUFFICES ASSUME ExploreInit PROVE WishInv
    OBVIOUS
  <2>1. CallerInv /\ OrderInv
    BY DEF ExploreInit, CallerInv, OrderInv, NotClosing
  <2>2. Nested({})
    BY DEF ExploreInit, Nested
  <2> QED BY <2>1, <2>2 DEF WishInv, NestInv
<1>2. ExploreInv /\ WishInv /\ [ExploreNext]_exploreVars => WishInv'
  BY WishStays
<1> QED BY <1>1, <1>2, ExploreInvariant, PTL DEF ExploreSpec

\* agent_explore.py puts the user's experiment settings back: once no session is to be
\* closed they are as the user set them last, however sessions were nested in one another,
\* unless a session began or ended over settings that were not its own, the old ones
\* were refused, or the process died midway.
THEOREM SettingsComeBack == ExploreSpec => []SettingsAreTheUsers
<1>1. ExploreInv /\ WishInv => SettingsAreTheUsers
  <2> SUFFICES ASSUME ExploreTypeOK, WishInv, ~ Excused, closing.step = "none",
                      \A k \in Collecting : sessions[k].count >= Budgets[k],
                      \A k \in Sessions : starter[k] \in {"idle", "configure", "over"}
               PROVE  config = wish
    BY DEF ExploreInv, SettingsAreTheUsers, Unlocked, Excused
  <2>1. PICK A \in SUBSET Sessions : Nested(A)
    BY DEF WishInv, NestInv
  <2>2. \A k \in Sessions : sessions[k].count \in Nat /\ Budgets[k] \in Nat
    BY ExploreAssumption DEF ExploreAssumption, ExploreTypeOK, SessionRows, Sessions
  <2>3. \A k \in Sessions : ~ Pending(k)
    BY <2>2 DEF Pending, Collecting
  <2> QED BY <2>1, <2>3 DEF Nested
<1> QED BY <1>1, ExploreInvariant, WishInvariant, PTL

-----------------------------------------------------------------------------
(* The five parts of the running add-on together, as MCRuntime checks them   *)

\* Beside each other the arbiter, the state stream, the engine loop, the registry
\* feed and the experiments keep their types: what one does leaves the others alone.
THEOREM RuntimeTyped == SafetySpec => []RuntimeTypeOK
<1>1. RuntimeInit(Parts) => ArbiterInit /\ SyncInit /\ LoopInit /\ FeedInit /\ ExploreInit
  BY DEF RuntimeInit
<1>2. [RuntimeNext]_runtimeVars => /\ [ArbiterNext]_arbiterVars /\ [SyncNext]_syncVars
                                   /\ [LoopNext]_loopVars /\ [FeedNext]_feedVars
                                   /\ [ExploreNext]_exploreVars
  BY DEF RuntimeNext, runtimeVars
<1>3. SafetySpec => /\ ArbiterSpec /\ SyncSpec /\ LoopSpec /\ FeedSpec /\ ExploreSpec
  BY <1>1, <1>2, PTL DEF SafetySpec, ArbiterSpec, SyncSpec, LoopSpec, FeedSpec, ExploreSpec
<1>4. ArbiterTypeOK /\ SyncTypeOK /\ LoopTypeOK /\ FeedTypeOK /\ ExploreTypeOK => RuntimeTypeOK
  BY DEF RuntimeTypeOK
<1> QED BY <1>3, <1>4, ArbiterTyped, SyncTyped, LoopTyped, FeedTyped, ExploreTyped, PTL
=============================================================================
