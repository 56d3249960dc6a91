---------------------------- MODULE ArbiterProofs ----------------------------
(* Proofs about DeviceArbiter: types, dispatches that share no resource,     *)
(* Control that is shared only when something explains it, and holds that    *)
(* bind the agents of the same resource.                                     *)
EXTENDS DeviceArbiter, FiniteSetTheorems, WellFoundedInduction, TLAPS

\* What the steps of a thread say of the kind of request it carries out.
HandOK(h) ==
    /\ h.pc = "idle" <=> h.agent = Nobody
    /\ h.pc = "idle" => h.kind = "none"
    /\ h.pc \in {"recheck", "reserve", "service"} => h.kind = "submit"
    /\ h.pc = "commit" => h.kind = "enter"
    /\ h.pc = "handoff" => h.kind \in {"enter", "submit"}
    /\ h.t0 <= now

\* Intents are numbered: two submits under way carry different ones.
IntentsDiffer ==
    \A v, w \in Hands : /\ hand[v].kind = "submit" /\ hand[w].kind = "submit"
                        /\ v # w
                        => hand[v].intent # hand[w].intent
IntentsCounted ==
    /\ intents <= events
    /\ \A w \in Hands : hand[w].kind = "submit" => hand[w].intent <= intents

\* A service call under way still has its reservation, or has outlived it.
Reserved ==
    \A w \in Hands : hand[w].pc = "service" =>
        \A k \in hand[w].keys :
            \/ lease[k].intent = hand[w].intent /\ lease[k].until = hand[w].until
            \/ hand[w].until <= now

\* The thread of an agent that was not remapped holds the lock of its device.
EntryHeld ==
    \A w \in Hands : hand[w].agent # Nobody /\ hand[w].agent \notin moved
                     => entry[Device(hand[w].agent)] = w

Explained(a)  == a \in wiped \cup moved
Entering(w)   == hand[w].kind = "enter" /\ hand[w].pc \in {"handoff", "commit"}

\* An agent that has claimed and not yet entered owns all its resources, and
\* none of its rivals is in Control, or there is an explanation.
ClaimStands ==
    \A w \in Hands : Entering(w) /\ ~ Explained(hand[w].agent) =>
        /\ \A k \in keys[hand[w].agent] : owner[k] = hand[w].agent
        /\ \A b \in control : Conflicts(hand[w].agent, b) => Explained(b)

\* Between the last look at the holds and the reservation no sibling is held.
LookHolds ==
    \A w \in Hands, b \in Pilots :
        /\ hand[w].pc = "reserve" /\ Conflicts(hand[w].agent, b)
        /\ b \notin hand[w].deaf
        => manual[b] <= now

ArbiterInv ==
    /\ ArbiterTypeOK
    /\ \A w \in Hands : HandOK(hand[w])
    /\ IntentsDiffer /\ IntentsCounted /\ Reserved
    /\ EntryHeld /\ ClaimStands /\ LookHolds
    /\ SharedControlIsExplained /\ HoldsBindSiblings

-----------------------------------------------------------------------------
(* Least and greatest elements.                                              *)

\* A nonempty finite set of integers has a greatest element.
LEMMA GreatestExists ==
    ASSUME NEW S, S \subseteq Int, S # {}, IsFiniteSet(S)
    PROVE  \E m \in S : \A j \in S : j <= m
<1> DEFINE After(k) == {j \in S : j > k}
           Afters == {After(k) : k \in S}
<1>1. /\ Afters \subseteq FiniteSubsetsOf(S)
      /\ Afters # {}
  <2>1. FiniteSubsetsOf(S) = SUBSET S
    BY FS_FiniteSubsetsOfFinite
  <2>2. \A k \in S : After(k) \in SUBSET S
    OBVIOUS
  <2>3. PICK k \in S : TRUE
    OBVIOUS
  <2> HIDE DEF After
  <2> QED BY <2>1, <2>2, <2>3
<1>2. PICK A \in Afters : \A B \in Afters : <<B, A>> \notin StrictSubsetOrdering(S)
  <2> HIDE DEF Afters
  <2> QED BY <1>1, FS_StrictSubsetOrderingWellFounded, WFMin
<1>3. PICK k \in S : A = After(k)
  OBVIOUS
<1>4. \A j \in S : j \notin After(k)
  <2> SUFFICES ASSUME NEW j \in After(k) PROVE FALSE
    OBVIOUS
  <2>1. j \in Int /\ k \in Int /\ j > k
    OBVIOUS
  <2>2. After(j) \subseteq After(k) /\ j \notin After(j)
    <3>1. \A i \in Int : i > j => i > k
      BY <2>1
    <3>2. ~ (j > j)
      BY <2>1
    <3> QED BY <3>1, <3>2
  <2>3. After(j) \in Afters /\ j \in After(k) /\ After(k) \subseteq S
    OBVIOUS
  <2> HIDE DEF After, Afters
  <2>4. <<After(j), After(k)>> \in StrictSubsetOrdering(S)
    BY <2>2, <2>3 DEF StrictSubsetOrdering
  <2> QED BY <1>2, <1>3, <2>3, <2>4
<1>5. \A j \in S : j <= k
  BY <1>4
<1> QED BY <1>5

\* A nonempty set of naturals has a least element.
LEMMA LowestIsLeast ==
    ASSUME NEW S, S \subseteq Nat, S # {}
    PROVE  Lowest(S) \in S /\ \A j \in S : Lowest(S) <= j
<1>1. PICK n \in S : TRUE
  OBVIOUS
<1> DEFINE Below == {l \in 0 .. n : \A j \in S : l <= j}
<1>2. /\ Below \subseteq Int /\ 0 \in Below
      /\ IsFiniteSet(Below)
  <2>1. IsFiniteSet(0 .. n)
    BY FS_Interval
  <2> QED BY <2>1, FS_Subset
<1>3. PICK m \in Below : \A j \in Below : j <= m
  <2> HIDE DEF Below
  <2> QED BY <1>2, GreatestExists
<1>4. m \in S
  <2> SUFFICES ASSUME m \notin S PROVE FALSE
    OBVIOUS
  <2>1. \A j \in S : m + 1 <= j
    OBVIOUS
  <2>2. m + 1 \in Below
    BY <2>1
  <2> QED BY <1>3, <2>2
<1>5. \A j \in S : m <= j
  OBVIOUS
<1> QED BY <1>4, <1>5 DEF Lowest

\* Every agent has a device: the first of its resources.
LEMMA DeviceIsNeeded ==
    ASSUME ArbiterTypeOK, NEW a \in Pilots
    PROVE  /\ keys[a] \subseteq Resources /\ keys[a] # {}
           /\ Device(a) \in keys[a]
<1>1. keys[a] \subseteq Resources /\ keys[a] # {}
  BY ArbiterAssumption DEF ArbiterAssumption, ArbiterTypeOK
<1>2. keys[a] \subseteq Nat
  BY <1>1, ArbiterAssumption DEF ArbiterAssumption
<1> QED BY <1>1, <1>2, LowestIsLeast DEF Device

\* What the look at the siblings' holds writes covers each of them.
LEMMA OverheardCovers ==
    ASSUME ArbiterTypeOK, NEW a \in Pilots
    PROVE  /\ Overheard(a) \in [Resources -> Nat]
           /\ \A b \in Pilots, k \in keys[a] :
                Conflicts(b, a) /\ manual[b] > now => Overheard(a)[k] >= manual[b]
<1> DEFINE until == {manual[b] : b \in {x \in Pilots : Conflicts(x, a)}} \cup {0}
           high  == CHOOSE t \in until : \A u \in until : u <= t
<1>1. IsFiniteSet(until)
  <2> DEFINE sibs == {x \in Pilots : Conflicts(x, a)}
             held == {manual[b] : b \in sibs}
  <2>1. IsFiniteSet(sibs)
    BY ArbiterAssumption, FS_Subset DEF ArbiterAssumption
  <2>2. IsFiniteSet(held)
    <3>1. [x \in sibs |-> manual[x]] \in Surjection(sibs, held)
      <4> HIDE DEF sibs
      <4> QED BY DEF Surjection
    <3> HIDE DEF sibs, held
    <3> QED BY <2>1, <3>1, FS_Surjection
  <2> HIDE DEF held
  <2>3. IsFiniteSet(held \cup {0})
    BY <2>2, FS_AddElement
  <2> QED BY <2>3 DEF held
<1>2. until \subseteq Nat
  BY DEF ArbiterTypeOK
<1>3. high \in until /\ \A u \in until : u <= high
  <2>1. \E t \in until : \A u \in until : u <= t
    <3> HIDE DEF until
    <3>1. 0 \in until
      BY DEF until
    <3>2. until # {} /\ until \subseteq Int
      BY <1>2, <3>1
    <3> QED BY <1>1, <3>2, GreatestExists
  <2> HIDE DEF until
  <2> QED BY <2>1
<1>4. Overheard(a) = [k \in Resources |->
           IF k \in keys[a] /\ high > now /\ high > hold[k] THEN high ELSE hold[k]]
  BY DEF Overheard
<1>5. high \in Nat /\ now \in Nat
  <2> HIDE DEF until, high
  <2> QED BY <1>2, <1>3 DEF ArbiterTypeOK
<1>6. \A b \in Pilots : Conflicts(b, a) => manual[b] <= high
  <2> SUFFICES ASSUME NEW b \in Pilots, Conflicts(b, a) PROVE manual[b] \in until
    BY <1>3
  <2> QED OBVIOUS
<1> HIDE DEF high
<1>7. keys[a] \subseteq Resources
  BY DeviceIsNeeded
<1>8. \A k \in Resources : hold[k] \in Nat
  BY DEF ArbiterTypeOK
<1>9. \A b \in Pilots : manual[b] \in Nat
  BY DEF ArbiterTypeOK
<1> QED BY <1>4, <1>5, <1>6, <1>7, <1>8, <1>9

-----------------------------------------------------------------------------
(* Types                                                                     *)

LEMMA Blanks ==
    /\ Resting \in Errands /\ NoLease \in Leases /\ NoLast \in Dispatches
    /\ NoSweep \in Sweeps
  BY ArbiterAssumption
  DEF ArbiterAssumption, Resting, NoLease, NoLast, NoSweep, Errands, ErrandKinds,
      Leases, Dispatches, Sweeps

\* A thread that does nothing can be given any new errand.
LEMMA UnwindKeepsTypes ==
    ASSUME ArbiterTypeOK, NEW w \in Hands, Unwind(w)
    PROVE  /\ lock' \in [Resources -> Hands \cup {Nobody}]
           /\ entry' \in [Resources -> Hands \cup {Nobody}]
           /\ hand' \in [Hands -> Errands]
           /\ hand'[w] = Resting /\ \A v \in Hands \ {w} : hand'[v] = hand[v]
           /\ \A k \in Resources : entry[k] # w => entry'[k] = entry[k]
  BY Blanks DEF ArbiterTypeOK, Unwind, Move

LEMMA MoveKeepsTypes ==
    ASSUME ArbiterTypeOK, NEW w \in Hands, NEW h \in Errands, Move(w, h)
    PROVE  /\ hand' \in [Hands -> Errands]
           /\ hand'[w] = h /\ \A v \in Hands \ {w} : hand'[v] = hand[v]
  BY DEF ArbiterTypeOK, Move

LEMMA UnlockKeepsTypes ==
    ASSUME ArbiterTypeOK, NEW w \in Hands, UnlockRows(w)
    PROVE  lock' \in [Resources -> Hands \cup {Nobody}]
  BY DEF ArbiterTypeOK, UnlockRows

LEMMA OwnersKeepTypes ==
    ASSUME ArbiterTypeOK, NEW a \in Pilots, NEW ks
    PROVE  /\ Claimed(a) \in [Resources -> Pilots \cup {Nobody}]
           /\ Disowned(a, ks) \in [Resources -> Pilots \cup {Nobody}]
  BY DEF ArbiterTypeOK, Claimed, Disowned

LEMMA DeafenedKeepsTypes ==
    ASSUME ArbiterTypeOK, NEW bs \in SUBSET Pilots, Unheard(bs)
    PROVE  /\ hand' \in [Hands -> Errands]
           /\ \A w \in Hands :
                /\ hand'[w].kind = hand[w].kind /\ hand'[w].agent = hand[w].agent
                /\ hand'[w].pc = hand[w].pc /\ hand'[w].keys = hand[w].keys
                /\ hand'[w].fresh = hand[w].fresh /\ hand'[w].t0 = hand[w].t0
                /\ hand'[w].sent = hand[w].sent /\ hand'[w].until = hand[w].until
                /\ hand'[w].intent = hand[w].intent
                /\ hand[w].deaf \subseteq hand'[w].deaf
                /\ hand[w].pc \in {"reserve", "service"} => bs \subseteq hand'[w].deaf
<1>1. ASSUME NEW h \in Errands
      PROVE  /\ Deafened(h, bs) \in Errands
             /\ Deafened(h, bs).kind = h.kind /\ Deafened(h, bs).agent = h.agent
             /\ Deafened(h, bs).pc = h.pc /\ Deafened(h, bs).keys = h.keys
             /\ Deafened(h, bs).fresh = h.fresh /\ Deafened(h, bs).t0 = h.t0
             /\ Deafened(h, bs).sent = h.sent /\ Deafened(h, bs).until = h.until
             /\ Deafened(h, bs).intent = h.intent
             /\ Deafened(h, bs).deaf = h.deaf \cup bs
  BY DEF Deafened, Errands
<1>2. \A w \in Hands : hand[w] \in Errands
  BY DEF ArbiterTypeOK
<1>3. hand' = [w \in Hands |-> IF hand[w].pc \in {"reserve", "service"}
                              THEN Deafened(hand[w], bs) ELSE hand[w]]
  BY DEF Unheard
<1>4. hand' \in [Hands -> Errands]
  BY <1>1, <1>2, <1>3
<1>5. ASSUME NEW w \in Hands
      PROVE  hand'[w] = IF hand[w].pc \in {"reserve", "service"}
                        THEN Deafened(hand[w], bs) ELSE hand[w]
  BY <1>3
<1> QED BY <1>1, <1>2, <1>4, <1>5

\* What each step of a thread makes of its errand.
ToEnter(a, kind) == [Resting EXCEPT !.kind = kind, !.agent = a, !.pc = "enter", !.t0 = now,
                                    !.intent = intents']
ToLock(w)    == [hand[w] EXCEPT !.pc = "lock", !.keys = keys[hand[w].agent]]
ToHandoff(w) == [hand[w] EXCEPT !.pc = "handoff",
                   !.fresh = {k \in keys[hand[w].agent] : owner[k] # hand[w].agent}]
ToCommit(w)  == [hand[w] EXCEPT !.fresh = {}, !.pc =
                   IF hand[w].kind = "enter" THEN "commit" ELSE "recheck"]
ToUndo(w)    == [hand[w] EXCEPT !.kind = "undo", !.pc = "enter"]
ToOwned(w)   == [hand[w] EXCEPT !.pc = "owned",
                   !.fresh = {k \in Resources : owner[k] = hand[w].agent}]
ToDrop(w)    == [hand[w] EXCEPT !.pc = "drop", !.fresh = {}]
ToReserve(w) == [hand[w] EXCEPT !.pc = "reserve"]
ToService(w) == [hand[w] EXCEPT !.pc = "service", !.keys = keys[hand[w].agent],
                   !.sent = now, !.until = hand[w].t0 + Dwell]

\* The new errand is one, and differs from the old one in the step it is at.
SameRequest(h, g) ==
    /\ h.kind = g.kind /\ h.agent = g.agent /\ h.t0 = g.t0 /\ h.intent = g.intent
    /\ h.deaf = g.deaf

LEMMA BeginKeepsTypes ==
    ASSUME ArbiterTypeOK, NEW w \in Hands, NEW a \in Pilots, NEW kind \in ErrandKinds,
           intents' \in 0 .. MaxEvents, Begin(w, a, kind)
    PROVE  /\ entry' \in [Resources -> Hands \cup {Nobody}]
           /\ hand' \in [Hands -> Errands]
           /\ hand'[w].kind = kind /\ hand'[w].agent = a /\ hand'[w].pc = "enter"
           /\ hand'[w].t0 = now /\ hand'[w].intent = intents'
           /\ hand[w].pc = "idle"
           /\ \A v \in Hands \ {w} : hand'[v] = hand[v]
           /\ entry'[Device(a)] = w /\ entry[Device(a)] = Nobody
           /\ \A k \in Resources : entry[k] # Nobody => entry'[k] = entry[k]
<1>1. /\ ToEnter(a, kind) \in Errands /\ ToEnter(a, kind).kind = kind
      /\ ToEnter(a, kind).agent = a /\ ToEnter(a, kind).pc = "enter"
      /\ ToEnter(a, kind).t0 = now /\ ToEnter(a, kind).intent = intents'
  <2>1. Resting \in Errands /\ now \in Nat
    BY Blanks DEF ArbiterTypeOK
  <2> QED BY <2>1 DEF Errands, ToEnter
<1>2. Move(w, ToEnter(a, kind))
  BY DEF Begin, ToEnter
<1>3. Device(a) \in Resources
  BY DeviceIsNeeded
<1>4. entry[Device(a)] = Nobody /\ entry' = [entry EXCEPT ![Device(a)] = w] /\ hand[w].pc = "idle"
  BY DEF Begin
<1>5. /\ hand' \in [Hands -> Errands] /\ hand'[w] = ToEnter(a, kind)
      /\ \A v \in Hands \ {w} : hand'[v] = hand[v]
  BY <1>1, <1>2, MoveKeepsTypes
<1>6. /\ entry' \in [Resources -> Hands \cup {Nobody}]
      /\ entry'[Device(a)] = w
      /\ \A k \in Resources : entry[k] # Nobody => entry'[k] = entry[k]
  BY <1>3, <1>4 DEF ArbiterTypeOK
<1> QED BY <1>1, <1>4, <1>5, <1>6

LEMMA ErrandsGoOn ==
    ASSUME ArbiterTypeOK, NEW w \in Hands, hand[w].agent \in Pilots
    PROVE  /\ ToLock(w) \in Errands /\ ToLock(w).pc = "lock"
           /\ ToHandoff(w) \in Errands /\ ToHandoff(w).pc = "handoff"
           /\ ToCommit(w) \in Errands
           /\ ToCommit(w).pc = IF hand[w].kind = "enter" THEN "commit" ELSE "recheck"
           /\ ToOwned(w) \in Errands /\ ToOwned(w).pc = "owned"
           /\ ToDrop(w) \in Errands /\ ToDrop(w).pc = "drop"
           /\ ToReserve(w) \in Errands /\ ToReserve(w).pc = "reserve"
           /\ ToService(w) \in Errands /\ ToService(w).pc = "service"
           /\ ToService(w).keys = keys[hand[w].agent] /\ ToService(w).sent = now
           /\ ToService(w).until = hand[w].t0 + Dwell
           /\ \A h \in {ToLock(w), ToHandoff(w), ToCommit(w), ToOwned(w), ToDrop(w),
                        ToReserve(w), ToService(w)} : SameRequest(h, hand[w])
           /\ ToUndo(w) \in Errands /\ ToUndo(w).kind = "undo" /\ ToUndo(w).pc = "enter"
           /\ ToUndo(w).agent = hand[w].agent /\ ToUndo(w).t0 = hand[w].t0
<1> DEFINE h == hand[w]
<1>1. h \in Errands /\ now \in Nat /\ Dwell \in Nat
  BY ArbiterAssumption DEF ArbiterTypeOK, ArbiterAssumption
<1>2. keys[h.agent] \subseteq Resources
  BY DeviceIsNeeded
<1> HIDE DEF h
<1>3. /\ ToLock(w) \in Errands /\ ToLock(w).pc = "lock" /\ SameRequest(ToLock(w), h)
  <2>1. ToLock(w) = [h EXCEPT !.pc = "lock", !.keys = keys[h.agent]]
    BY DEF ToLock, h
  <2> QED BY <1>1, <1>2, <2>1 DEF Errands, SameRequest
<1>4. ToHandoff(w) \in Errands /\ ToHandoff(w).pc = "handoff" /\ SameRequest(ToHandoff(w), h)
  <2> DEFINE F == {k \in keys[h.agent] : owner[k] # h.agent}
  <2>1. F \in SUBSET Resources
    BY <1>2
  <2>2. ToHandoff(w) = [h EXCEPT !.pc = "handoff", !.fresh = F]
    BY DEF ToHandoff, h
  <2> HIDE DEF F
  <2> QED BY <1>1, <2>1, <2>2 DEF Errands, SameRequest
<1>5. /\ ToCommit(w) \in Errands /\ SameRequest(ToCommit(w), h)
      /\ ToCommit(w).pc = IF h.kind = "enter" THEN "commit" ELSE "recheck"
  <2>1. ToCommit(w) = [h EXCEPT !.fresh = {}, !.pc =
                         IF h.kind = "enter" THEN "commit" ELSE "recheck"]
    BY DEF ToCommit, h
  <2> QED BY <1>1, <2>1 DEF Errands, SameRequest
<1>6. ToOwned(w) \in Errands /\ ToOwned(w).pc = "owned" /\ SameRequest(ToOwned(w), h)
  <2> DEFINE F == {k \in Resources : owner[k] = h.agent}
  <2>1. F \in SUBSET Resources
    OBVIOUS
  <2>2. ToOwned(w) = [h EXCEPT !.pc = "owned", !.fresh = F]
    BY DEF ToOwned, h
  <2> HIDE DEF F
  <2> QED BY <1>1, <2>1, <2>2 DEF Errands, SameRequest
<1>7. ToDrop(w) \in Errands /\ ToDrop(w).pc = "drop" /\ SameRequest(ToDrop(w), h)
  <2>1. ToDrop(w) = [h EXCEPT !.pc = "drop", !.fresh = {}]
    BY DEF ToDrop, h
  <2> QED BY <1>1, <2>1 DEF Errands, SameRequest
<1>8. ToReserve(w) \in Errands /\ ToReserve(w).pc = "reserve" /\ SameRequest(ToReserve(w), h)
  <2>1. ToReserve(w) = [h EXCEPT !.pc = "reserve"]
    BY DEF ToReserve, h
  <2> QED BY <1>1, <2>1 DEF Errands, SameRequest
<1>9. /\ ToService(w) \in Errands /\ ToService(w).pc = "service"
      /\ ToService(w).keys = keys[h.agent] /\ ToService(w).sent = now
      /\ ToService(w).until = h.t0 + Dwell /\ SameRequest(ToService(w), h)
  <2>1. ToService(w) = [h EXCEPT !.pc = "service", !.keys = keys[h.agent], !.sent = now,
                                 !.until = h.t0 + Dwell]
    BY DEF ToService, h
  <2>2. h.t0 + Dwell \in Nat
    BY <1>1 DEF Errands
  <2> QED BY <1>1, <1>2, <2>1, <2>2 DEF Errands, SameRequest
<1>10. /\ ToUndo(w) \in Errands /\ ToUndo(w).kind = "undo" /\ ToUndo(w).pc = "enter"
       /\ ToUndo(w).agent = h.agent /\ ToUndo(w).t0 = h.t0
  <2>1. ToUndo(w) = [h EXCEPT !.kind = "undo", !.pc = "enter"]
    BY DEF ToUndo, h
  <2> QED BY <1>1, <2>1 DEF Errands, ErrandKinds
<1> QED BY <1>3, <1>4, <1>5, <1>6, <1>7, <1>8, <1>9, <1>10 DEF h

LEMMA AgentsAct ==
    ASSUME ArbiterInv, NEW w \in Hands, hand[w].pc # "idle"
    PROVE  hand[w].agent \in Pilots
  BY DEF ArbiterInv, ArbiterTypeOK, HandOK, Errands

\* The lock a thread waits for is that of a resource.
LEMMA LocksAreOfResources ==
    ASSUME ArbiterTypeOK, NEW w \in Hands, Wanted(w) # {}
    PROVE  NextLock(Wanted(w)) \in Resources
<1>1. Wanted(w) \subseteq Resources
  BY DEF Wanted, ArbiterTypeOK, Errands
<1>2. Wanted(w) \subseteq Nat
  BY <1>1, ArbiterAssumption DEF ArbiterAssumption
<1>3. Lowest(Wanted(w)) \in Wanted(w)
  BY <1>2, LowestIsLeast
<1> QED BY <1>1, <1>3 DEF NextLock

LEMMA HandStepKeepsTypes ==
    ASSUME ArbiterInv, NEW w \in Hands, HandStep(w)
    PROVE  ArbiterTypeOK'
<1> USE DEF rows, times
<1>0. ArbiterTypeOK
  BY DEF ArbiterInv
<1> DEFINE h == hand[w]
           a == hand[w].agent
<1>1. CASE Resolve(w)
  <2>1. a \in Pilots
    BY <1>1, AgentsAct DEF Resolve
  <2>2. Device(a) \in Resources
    BY <1>0, <2>1, DeviceIsNeeded
  <2>3. Move(w, ToLock(w))
    BY <1>1 DEF Resolve, ToLock
  <2>4. hand' \in [Hands -> Errands]
    BY <1>0, <2>1, <2>3, ErrandsGoOn, MoveKeepsTypes
  <2>5. entry' \in [Resources -> Hands \cup {Nobody}]
    BY <1>0, <1>1, <2>2 DEF Resolve, ArbiterTypeOK
  <2> QED BY <1>0, <1>1, <2>4, <2>5 DEF Resolve, ArbiterTypeOK
<1>2. CASE LockRow(w)
  <2>1. NextLock(Wanted(w)) \in Resources
    BY <1>0, <1>2, LocksAreOfResources DEF LockRow
  <2> QED BY <1>0, <1>2, <2>1 DEF LockRow, ArbiterTypeOK
<1>3. CASE Claim(w)
  <2>1. a \in Pilots
    BY <1>3, AgentsAct DEF Claim, Holding
  <2>2. Move(w, ToHandoff(w))
    BY <1>3 DEF Claim, ToHandoff
  <2>3. hand' \in [Hands -> Errands]
    BY <1>0, <2>1, <2>2, ErrandsGoOn, MoveKeepsTypes
  <2>4. owner' \in [Resources -> Pilots \cup {Nobody}]
    BY <1>0, <1>3, <2>1, OwnersKeepTypes DEF Claim
  <2> QED BY <1>0, <1>3, <2>3, <2>4 DEF Claim, ArbiterTypeOK
<1>4. CASE Refuse(w)
  BY <1>0, <1>4, UnwindKeepsTypes DEF Refuse, ArbiterTypeOK
<1>5. CASE TookControl(w)
  <2>1. CASE Unwind(w)
    BY <1>0, <1>5, <2>1, UnwindKeepsTypes DEF TookControl, ArbiterTypeOK
  <2>2. CASE Move(w, ToCommit(w)) /\ UnlockRows(w) /\ UNCHANGED entry
    <3>1. hand' \in [Hands -> Errands]
      <4>1. a \in Pilots
        BY <1>5, AgentsAct DEF TookControl
      <4> QED BY <1>0, <2>2, <4>1, ErrandsGoOn, MoveKeepsTypes
    <3> QED BY <1>0, <1>5, <2>2, <3>1, UnlockKeepsTypes DEF TookControl, ArbiterTypeOK
  <2> QED BY <1>5, <2>1, <2>2 DEF TookControl, ToCommit
<1>6. CASE HandoffRaises(w)
  <2>1. a \in Pilots
    BY <1>6, AgentsAct DEF HandoffRaises
  <2> QED BY <1>0, <1>6, <2>1, UnwindKeepsTypes, OwnersKeepTypes DEF HandoffRaises, ArbiterTypeOK
<1>7. CASE CommitControl(w)
  <2>1. a \in Pilots
    BY <1>7, AgentsAct DEF CommitControl
  <2>2. control' \subseteq Pilots /\ manual' \in [Pilots -> Nat]
    BY <1>0, <1>7, <2>1 DEF CommitControl, ArbiterTypeOK
  <2> QED BY <1>0, <1>7, <2>2, UnwindKeepsTypes DEF CommitControl, ArbiterTypeOK
<1>8. CASE CommitRaises(w)
  <2>1. hand' \in [Hands -> Errands]
    <3>1. a \in Pilots /\ Move(w, ToUndo(w))
      BY <1>8, AgentsAct DEF CommitRaises, ToUndo
    <3> QED BY <1>0, <3>1, ErrandsGoOn, MoveKeepsTypes
  <2> QED BY <1>0, <1>8, <2>1 DEF CommitRaises, ArbiterTypeOK
<1>9. CASE Restored(w)
  <2>1. CASE Unwind(w)
    BY <1>0, <1>9, <2>1, UnwindKeepsTypes DEF Restored, ArbiterTypeOK
  <2>2. CASE Move(w, ToOwned(w)) /\ UNCHANGED <<lock, entry>>
    <3>1. hand' \in [Hands -> Errands]
      <4>1. a \in Pilots
        BY <1>9, AgentsAct DEF Restored, Holding
      <4> QED BY <1>0, <2>2, <4>1, ErrandsGoOn, MoveKeepsTypes
    <3> QED BY <1>0, <1>9, <2>2, <3>1 DEF Restored, ArbiterTypeOK
  <2> QED BY <1>9, <2>1, <2>2 DEF Restored, ToOwned
<1>10. CASE Disown(w)
  <2>1. a \in Pilots
    BY <1>10, AgentsAct DEF Disown, Holding
  <2>2. owner' \in [Resources -> Pilots \cup {Nobody}]
    BY <1>0, <1>10, <2>1, OwnersKeepTypes DEF Disown
  <2>3. CASE Unwind(w)
    BY <1>0, <1>10, <2>2, <2>3, UnwindKeepsTypes DEF Disown, ArbiterTypeOK
  <2>4. CASE UnlockRows(w) /\ UNCHANGED entry /\ Move(w, ToDrop(w))
    <3>1. hand' \in [Hands -> Errands]
      BY <1>0, <2>1, <2>4, ErrandsGoOn, MoveKeepsTypes
    <3> QED BY <1>0, <1>10, <2>2, <2>4, <3>1, UnlockKeepsTypes DEF Disown, ArbiterTypeOK
  <2> QED BY <1>10, <2>3, <2>4 DEF Disown, ToDrop
<1>11. CASE DropControl(w)
  <2>1. control' \subseteq Pilots /\ wiped' \subseteq Pilots /\ moved' \subseteq Pilots
    BY <1>0, <1>11 DEF DropControl, ArbiterTypeOK
  <2> QED BY <1>0, <1>11, <2>1, UnwindKeepsTypes DEF DropControl, ArbiterTypeOK
<1>12. CASE Recheck(w)
  <2>1. a \in Pilots
    BY <1>12, AgentsAct DEF Recheck
  <2>2. hold' \in [Resources -> Nat]
    BY <1>0, <1>12, <2>1, OverheardCovers DEF Recheck, Heard
  <2>3. CASE Unwind(w)
    BY <1>0, <1>12, <2>2, <2>3, UnwindKeepsTypes DEF Recheck, ArbiterTypeOK
  <2>4. CASE Move(w, ToReserve(w)) /\ UNCHANGED <<lock, entry>>
    <3>1. hand' \in [Hands -> Errands]
      BY <1>0, <2>1, <2>4, ErrandsGoOn, MoveKeepsTypes
    <3> QED BY <1>0, <1>12, <2>2, <2>4, <3>1 DEF Recheck, ArbiterTypeOK
  <2> QED BY <1>12, <2>3, <2>4 DEF Recheck, ToReserve
<1>13. CASE Reserve(w)
  <2>1. a \in Pilots
    BY <1>13, AgentsAct DEF Reserve
  <2>2. CASE Unwind(w) /\ UNCHANGED lease
    BY <1>0, <1>13, <2>2, UnwindKeepsTypes DEF Reserve, ArbiterTypeOK
  <2>3. CASE /\ lease' = [k \in Resources |-> IF k \in keys[a]
                           THEN [intent |-> h.intent, until |-> h.t0 + Dwell]
                           ELSE lease[k]]
             /\ Move(w, ToService(w))
             /\ UNCHANGED <<lock, entry>>
    <3>1. hand' \in [Hands -> Errands]
      BY <1>0, <2>1, <2>3, ErrandsGoOn, MoveKeepsTypes
    <3>2. h.t0 \in Nat /\ h.intent \in 0 .. MaxEvents /\ Dwell \in Nat
      BY <1>0, ArbiterAssumption DEF ArbiterTypeOK, Errands, ArbiterAssumption
    <3>3. [intent |-> h.intent, until |-> h.t0 + Dwell] \in Leases
      BY <3>2 DEF Leases
    <3>4. lease' \in [Resources -> Leases]
      BY <1>0, <2>3, <3>3 DEF ArbiterTypeOK
    <3> QED BY <1>0, <1>13, <2>3, <3>1, <3>4 DEF Reserve, ArbiterTypeOK
  <2> QED BY <1>13, <2>2, <2>3 DEF Reserve, ToService
<1>14. CASE FinishDispatch(w)
  <2>1. a \in Pilots
    BY <1>14, AgentsAct DEF FinishDispatch
  <2>2. NoLease \in Leases /\ [by |-> a, at |-> h.sent] \in Dispatches
    <3>1. h.sent \in Nat
      BY <1>0 DEF ArbiterTypeOK, Errands
    <3> QED BY <2>1, <3>1, Blanks DEF Dispatches
  <2>3. lease' \in [Resources -> Leases]
    BY <1>0, <1>14, <2>2 DEF FinishDispatch, ArbiterTypeOK
  <2>4. last' \in [Resources -> Dispatches]
    BY <1>0, <1>14, <2>2 DEF FinishDispatch, ArbiterTypeOK
  <2> QED BY <1>0, <1>14, <2>3, <2>4, UnwindKeepsTypes DEF FinishDispatch, ArbiterTypeOK
<1> QED BY <1>1, <1>2, <1>3, <1>4, <1>5, <1>6, <1>7, <1>8, <1>9, <1>10, <1>11,
           <1>12, <1>13, <1>14 DEF HandStep

LEMMA TypesKept ==
    ASSUME ArbiterInv, [ArbiterNext]_arbiterVars
    PROVE  ArbiterTypeOK'
<1> USE DEF rows, times
<1>0. ArbiterTypeOK /\ IntentsCounted
  BY DEF ArbiterInv
<1>1. \A w \in Hands : HandStep(w) => ArbiterTypeOK'
  BY HandStepKeepsTypes
<1>2. ASSUME Happens
      PROVE  events' \in 0 .. MaxEvents /\ intents + 1 \in 0 .. MaxEvents
  BY <1>0, <1>2, ArbiterAssumption DEF ArbiterAssumption, Happens, ArbiterTypeOK, IntentsCounted
<1>3. ASSUME NEW w \in Hands, NEW a \in Pilots,
             Enter(w, a) \/ Leave(w, a) \/ Heavy(w, a)
      PROVE  ArbiterTypeOK'
  <2>1. PICK kind \in ErrandKinds : Begin(w, a, kind)
    BY <1>3 DEF Enter, Leave, Heavy, ErrandKinds
  <2>2. /\ intents' \in 0 .. MaxEvents /\ events' \in 0 .. MaxEvents
        /\ UNCHANGED <<hold, intents>>
    BY <1>0, <1>2, <1>3 DEF Enter, Leave, Heavy, ArbiterTypeOK
  <2>3. /\ entry' \in [Resources -> Hands \cup {Nobody}]
        /\ hand' \in [Hands -> Errands]
    BY <1>0, <2>1, <2>2, BeginKeepsTypes
  <2> QED BY <1>0, <2>1, <2>2, <2>3 DEF Begin, ArbiterTypeOK
<1>4. ASSUME NEW w \in Hands, NEW a \in Pilots, Submit(w, a)
      PROVE  ArbiterTypeOK'
  <2>1. Begin(w, a, "submit") /\ "submit" \in ErrandKinds
    BY <1>4 DEF Submit, ErrandKinds
  <2>2. intents' \in 0 .. MaxEvents /\ events' \in 0 .. MaxEvents
    BY <1>2, <1>4 DEF Submit
  <2>3. hold' \in [Resources -> Nat]
    BY <1>0, <1>4, OverheardCovers DEF Submit
  <2>4. /\ entry' \in [Resources -> Hands \cup {Nobody}]
        /\ hand' \in [Hands -> Errands]
    BY <1>0, <2>1, <2>2, BeginKeepsTypes
  <2> QED BY <1>0, <2>1, <2>2, <2>3, <2>4 DEF Begin, ArbiterTypeOK
<1>5. ASSUME NEW w \in Hands, NEW a \in Pilots, SubmitHeld(w, a)
      PROVE  ArbiterTypeOK'
  <2>1. hold' \in [Resources -> Nat]
    BY <1>0, <1>5, OverheardCovers DEF SubmitHeld
  <2> QED BY <1>0, <1>5, <2>1 DEF SubmitHeld, ArbiterTypeOK
<1>6. ASSUME NEW a \in Pilots, UserHold(a)
      PROVE  ArbiterTypeOK'
  <2>1. hand' \in [Hands -> Errands]
    BY <1>0, <1>6, DeafenedKeepsTypes DEF UserHold
  <2>2. manual' \in [Pilots -> Nat]
    BY <1>0, <1>6, ArbiterAssumption DEF UserHold, ArbiterTypeOK, ArbiterAssumption
  <2> QED BY <1>0, <1>2, <1>6, <2>1, <2>2 DEF UserHold, ArbiterTypeOK
<1>7. ASSUME NEW l \in Layouts, RegistryUpdate(l)
      PROVE  ArbiterTypeOK'
  <2>1. hand' \in [Hands -> Errands]
    BY <1>0, <1>7, DeafenedKeepsTypes DEF RegistryUpdate
  <2>2. sweep' \in Sweeps /\ moved' \subseteq Pilots
    BY <1>0, <1>7 DEF RegistryUpdate, ArbiterTypeOK, Sweeps
  <2> QED BY <1>0, <1>2, <1>7, <2>1, <2>2 DEF RegistryUpdate, ArbiterTypeOK
<1>8. CASE Sweep
  <2>1. CASE SweepRead
    BY <1>0, <2>1 DEF SweepRead, ArbiterTypeOK, Sweeps
  <2>2. CASE SweepClear
    <3>1. owner' \in [Resources -> Pilots \cup {Nobody}] /\ wiped' \subseteq Pilots
      BY <1>0, <2>2 DEF SweepClear, ArbiterTypeOK
    <3>2. sweep' \in Sweeps
      BY <1>0, <2>2 DEF SweepClear, ArbiterTypeOK, Sweeps
    <3> QED BY <1>0, <2>2, <3>1, <3>2 DEF SweepClear, ArbiterTypeOK
  <2>3. ASSUME NEW a \in Pilots, SweepClaim(a)
        PROVE  ArbiterTypeOK'
    <3>1. owner' \in [Resources -> Pilots \cup {Nobody}]
      BY <1>0, <2>3, OwnersKeepTypes DEF SweepClaim, ArbiterTypeOK
    <3>2. sweep' \in Sweeps
      BY <1>0, <2>3 DEF SweepClaim, ArbiterTypeOK, Sweeps
    <3> QED BY <1>0, <2>3, <3>1, <3>2 DEF SweepClaim, ArbiterTypeOK
  <2>4. CASE SweepDone
    BY <1>0, <2>4, Blanks DEF SweepDone, ArbiterTypeOK
  <2> QED BY <1>8, <2>1, <2>2, <2>3, <2>4 DEF Sweep
<1>9. CASE Restart
  <2>1. sweep' \in Sweeps /\ hand' \in [Hands -> Errands]
    BY <1>9, Blanks DEF Restart, Sweeps
  <2>2. /\ lock' \in [Resources -> Hands \cup {Nobody}]
        /\ entry' \in [Resources -> Hands \cup {Nobody}]
    BY <1>9 DEF Restart
  <2> QED BY <1>0, <1>2, <1>9, <2>1, <2>2 DEF Restart, ArbiterTypeOK
<1>10. CASE Tick
  BY <1>0, <1>2, <1>10, ArbiterAssumption DEF Tick, ArbiterTypeOK, ArbiterAssumption
<1>11. CASE UNCHANGED arbiterVars
  BY <1>0, <1>11 DEF arbiterVars, ArbiterTypeOK
<1> QED BY <1>1, <1>3, <1>4, <1>5, <1>6, <1>7, <1>8, <1>9, <1>10, <1>11
        DEF ArbiterNext, ControlRequests

-----------------------------------------------------------------------------
(* What a step of a thread does to the errands, the target locks and the     *)
(* history.                                                                  *)

\* The thread comes to rest, goes on with its request, or undoes it.
Proceeds(w) ==
    \/ hand'[w] = Resting
    \/ SameRequest(hand'[w], hand[w]) /\ hand'[w].pc # "idle"
    \/ /\ hand'[w].kind = "undo" /\ hand'[w].pc = "enter"
       /\ hand'[w].agent = hand[w].agent /\ hand'[w].t0 = hand[w].t0

KeepsEntries(w) ==
    /\ \A k \in Resources : entry[k] \notin {w, Nobody} => entry'[k] = entry[k]
    /\ hand'[w] # Resting => \A k \in Resources : entry[k] = w => entry'[k] = w

\* Only what is said of the agent of the thread is forgotten, and not while
\* another thread carries out a request for it.
KeepsHistory(w) ==
    /\ wiped' \subseteq wiped /\ moved' \subseteq moved
    /\ \A a \in Pilots : a # hand[w].agent => (a \in wiped => a \in wiped')
    /\ \A a \in Pilots : a # hand[w].agent => (a \in moved => a \in moved')
    /\ \A v \in Hands \ {w} : hand[v].agent \in moved => hand[v].agent \in moved'

HandStepEffect(w) ==
    /\ hand[w].agent \in Pilots /\ hand[w].pc # "idle"
    /\ UNCHANGED <<now, intents, events, keys>>
    /\ \A v \in Hands \ {w} : hand'[v] = hand[v]
    /\ Proceeds(w) /\ KeepsEntries(w) /\ KeepsHistory(w)
    /\ HandOK(hand[w])'
    /\ hand'[w].pc = "service" => Reserve(w)
    /\ hand'[w].pc = "reserve" => Recheck(w)
    /\ hand'[w].pc = "handoff" => Claim(w)
    /\ hand'[w].pc = "commit" => hand[w].pc = "handoff"

LEMMA UnwindEffect ==
    ASSUME ArbiterInv, NEW w \in Hands, Unwind(w), hand[w].pc # "idle",
           UNCHANGED <<now, intents, events, keys>>, KeepsHistory(w)
    PROVE  HandStepEffect(w)
<1>0. ArbiterTypeOK
  BY DEF ArbiterInv
<1>1. /\ hand'[w] = Resting /\ \A v \in Hands \ {w} : hand'[v] = hand[v]
      /\ \A k \in Resources : entry[k] # w => entry'[k] = entry[k]
  BY <1>0, UnwindKeepsTypes
<1>2. Proceeds(w) /\ KeepsEntries(w)
  BY <1>1 DEF Proceeds, KeepsEntries
<1>3. HandOK(hand[w])'
  <2>1. /\ Resting.pc = "idle" /\ Resting.agent = Nobody /\ Resting.kind = "none"
        /\ Resting.t0 = 0
    BY DEF Resting
  <2>2. now' \in Nat
    BY <1>0 DEF ArbiterTypeOK
  <2> QED BY <1>1, <2>1, <2>2 DEF HandOK
<1>4. hand'[w].pc = "idle"
  BY <1>1 DEF Resting
<1>5. hand[w].agent \in Pilots
  BY AgentsAct
<1> QED BY <1>1, <1>2, <1>3, <1>4, <1>5 DEF HandStepEffect

LEMMA MoveEffect ==
    ASSUME ArbiterInv, NEW w \in Hands, NEW h \in Errands, Move(w, h), hand[w].pc # "idle",
           h.pc # "idle",
           \/ SameRequest(h, hand[w])
           \/ h.kind = "undo" /\ h.pc = "enter" /\ h.agent = hand[w].agent /\ h.t0 = hand[w].t0,
           h.pc = "service" => Reserve(w) /\ hand[w].pc = "reserve",
           h.pc = "reserve" => Recheck(w) /\ hand[w].pc = "recheck",
           h.pc = "handoff" => Claim(w) /\ Taking(w),
           h.pc = "commit" => hand[w].pc = "handoff" /\ h.kind = "enter",
           h.pc = "recheck" => h.kind = "submit",
           \A k \in Resources : entry[k] # Nobody => entry'[k] = entry[k],
           UNCHANGED <<now, intents, events, keys, wiped, moved>>
    PROVE  HandStepEffect(w)
<1>0. ArbiterTypeOK /\ HandOK(hand[w])
  BY DEF ArbiterInv
<1>1. hand'[w] = h /\ \A v \in Hands \ {w} : hand'[v] = hand[v]
  BY <1>0, MoveKeepsTypes
<1>2. hand[w].agent \in Pilots
  BY AgentsAct
<1>3. HandOK(hand[w])'
  <2>1. h.agent = hand[w].agent /\ h.t0 = hand[w].t0
    BY DEF SameRequest
  <2>2. h.agent # Nobody
    BY <1>2, <2>1, ArbiterAssumption DEF ArbiterAssumption
  <2>3. h.pc \in {"recheck", "reserve", "service"} => h.kind = "submit"
    BY <1>0 DEF HandOK, SameRequest
  <2>4. h.pc = "handoff" => h.kind \in {"enter", "submit"}
    BY DEF Taking, SameRequest
  <2>5. HandOK(h)'
    BY <1>0, <2>1, <2>2, <2>3, <2>4 DEF HandOK
  <2> QED BY <1>1, <2>5 DEF HandOK
<1>4. h # Resting /\ Proceeds(w) /\ KeepsEntries(w)
  BY <1>1, ArbiterAssumption DEF Proceeds, KeepsEntries, Resting, ArbiterAssumption
<1>5. KeepsHistory(w)
  BY DEF KeepsHistory
<1> QED BY <1>1, <1>2, <1>3, <1>4, <1>5 DEF HandStepEffect

LEMMA HandStepsWork ==
    ASSUME ArbiterInv, NEW w \in Hands, HandStep(w)
    PROVE  HandStepEffect(w)
<1> USE DEF rows, times
<1> DEFINE h == hand[w]
           a == hand[w].agent
<1>0. ArbiterTypeOK /\ HandOK(h) /\ h \in Errands
  BY DEF ArbiterInv, ArbiterTypeOK
<1>k. UNCHANGED <<wiped, moved>> => KeepsHistory(w)
  BY DEF KeepsHistory
<1>1. CASE Resolve(w)
  <2>1. a \in Pilots /\ h.pc # "idle"
    BY <1>1, AgentsAct DEF Resolve
  <2>2. Device(a) \in Resources /\ entry[Device(a)] \in {w, Nobody}
    BY <1>0, <1>1, <2>1, DeviceIsNeeded DEF Resolve
  <2>3. Move(w, ToLock(w)) /\ UNCHANGED <<now, intents, events, keys, wiped, moved>>
    BY <1>1 DEF Resolve, ToLock
  <2>4. entry' = [entry EXCEPT ![Device(a)] = w]
    BY <1>1 DEF Resolve
  <2>5. /\ \A v \in Hands \ {w} : hand'[v] = hand[v]
        /\ hand'[w] = ToLock(w)
    BY <1>0, <2>1, <2>3, ErrandsGoOn, MoveKeepsTypes
  <2>6. SameRequest(ToLock(w), h) /\ ToLock(w).pc = "lock"
    BY <1>0, <2>1, ErrandsGoOn
  <2>7. \A k \in Resources : /\ entry[k] \notin {w, Nobody} => entry'[k] = entry[k]
                             /\ entry[k] = w => entry'[k] = w
    BY <1>0, <2>2, <2>4 DEF ArbiterTypeOK
  <2>8. HandOK(hand[w])'
    BY <1>0, <2>1, <2>3, <2>5, <2>6, ArbiterAssumption
    DEF HandOK, SameRequest, ArbiterAssumption
  <2> QED BY <1>k, <2>1, <2>3, <2>5, <2>6, <2>7, <2>8
          DEF HandStepEffect, Proceeds, KeepsEntries
<1>2. CASE LockRow(w)
  <2>1. h.pc \in {"lock", "owned"}
    BY <1>2 DEF LockRow, Wanted
  <2>2. UNCHANGED <<now, intents, events, keys, wiped, moved, hand, entry>>
    BY <1>2 DEF LockRow
  <2>3. a \in Pilots
    BY <2>1, AgentsAct
  <2>4. HandOK(hand[w])'
    BY <1>0, <2>2 DEF HandOK
  <2>5. Proceeds(w)
    BY <2>1, <2>2 DEF Proceeds, SameRequest
  <2> QED BY <1>k, <2>1, <2>2, <2>3, <2>4, <2>5 DEF HandStepEffect, KeepsEntries
<1>3. CASE Claim(w)
  <2>1. h.pc = "lock" /\ Taking(w)
    BY <1>3 DEF Claim, Holding
  <2>2. a \in Pilots
    BY <2>1, AgentsAct
  <2>3. Move(w, ToHandoff(w)) /\ UNCHANGED <<now, intents, events, keys, wiped, moved, entry>>
    BY <1>3 DEF Claim, ToHandoff
  <2>4. /\ ToHandoff(w) \in Errands /\ ToHandoff(w).pc = "handoff"
        /\ SameRequest(ToHandoff(w), h)
    BY <1>0, <2>2, ErrandsGoOn
  <2> QED BY <1>3, <2>1, <2>3, <2>4, MoveEffect
<1>4. CASE Refuse(w)
  BY <1>k, <1>4, UnwindEffect DEF Refuse, Holding
<1>5. CASE TookControl(w)
  <2>1. h.pc = "handoff" /\ UNCHANGED <<now, intents, events, keys, wiped, moved>>
    BY <1>5 DEF TookControl
  <2>2. a \in Pilots
    BY <2>1, AgentsAct
  <2>3. CASE Unwind(w)
    BY <1>k, <2>1, <2>3, UnwindEffect
  <2>4. CASE Move(w, ToCommit(w)) /\ UNCHANGED entry
    <3>1. /\ ToCommit(w) \in Errands /\ SameRequest(ToCommit(w), h)
          /\ ToCommit(w).pc = IF h.kind = "enter" THEN "commit" ELSE "recheck"
      BY <1>0, <2>2, ErrandsGoOn
    <3>2. h.kind \in {"enter", "submit"} /\ ToCommit(w).kind = h.kind
      BY <1>0, <2>1, <3>1 DEF HandOK, SameRequest
    <3> QED BY <2>1, <2>4, <3>1, <3>2, MoveEffect
  <2> QED BY <1>5, <2>3, <2>4 DEF TookControl, ToCommit
<1>6. CASE HandoffRaises(w)
  BY <1>k, <1>6, UnwindEffect DEF HandoffRaises
<1>7. CASE CommitControl(w)
  BY <1>k, <1>7, UnwindEffect DEF CommitControl
<1>8. CASE CommitRaises(w)
  <2>1. h.pc = "commit"
    BY <1>8 DEF CommitRaises
  <2>2. a \in Pilots
    BY <2>1, AgentsAct
  <2>3. Move(w, ToUndo(w)) /\ UNCHANGED <<now, intents, events, keys, wiped, moved, entry>>
    BY <1>8 DEF CommitRaises, ToUndo
  <2>4. /\ ToUndo(w) \in Errands /\ ToUndo(w).kind = "undo" /\ ToUndo(w).pc = "enter"
        /\ ToUndo(w).agent = a /\ ToUndo(w).t0 = h.t0
    BY <1>0, <2>2, ErrandsGoOn
  <2> QED BY <2>1, <2>3, <2>4, MoveEffect
<1>9. CASE Restored(w)
  <2>1. h.pc = "lock" /\ UNCHANGED <<now, intents, events, keys, wiped, moved>>
    BY <1>9 DEF Restored, Holding
  <2>2. a \in Pilots
    BY <2>1, AgentsAct
  <2>3. CASE Unwind(w)
    BY <1>k, <2>1, <2>3, UnwindEffect
  <2>4. CASE Move(w, ToOwned(w)) /\ UNCHANGED entry
    <3>1. /\ ToOwned(w) \in Errands /\ SameRequest(ToOwned(w), h) /\ ToOwned(w).pc = "owned"
      BY <1>0, <2>2, ErrandsGoOn
    <3> QED BY <2>1, <2>4, <3>1, MoveEffect
  <2> QED BY <1>9, <2>3, <2>4 DEF Restored, ToOwned
<1>10. CASE Disown(w)
  <2>1. h.pc = "owned" /\ UNCHANGED <<now, intents, events, keys, wiped, moved>>
    BY <1>10 DEF Disown, Holding
  <2>2. a \in Pilots
    BY <2>1, AgentsAct
  <2>3. CASE Unwind(w)
    BY <1>k, <2>1, <2>3, UnwindEffect
  <2>4. CASE Move(w, ToDrop(w)) /\ UNCHANGED entry
    <3>1. /\ ToDrop(w) \in Errands /\ SameRequest(ToDrop(w), h) /\ ToDrop(w).pc = "drop"
      BY <1>0, <2>2, ErrandsGoOn
    <3> QED BY <2>1, <2>4, <3>1, MoveEffect
  <2> QED BY <1>10, <2>3, <2>4 DEF Disown, ToDrop
<1>11. CASE DropControl(w)
  <2>1. h.pc = "drop" /\ Unwind(w) /\ UNCHANGED <<now, intents, events, keys>>
    BY <1>11 DEF DropControl
  <2>2. KeepsHistory(w)
    <3>1. wiped' = wiped \ {a}
      BY <1>11 DEF DropControl
    <3>2. moved' = IF \E v \in Hands \ {w} : hand[v].agent = a THEN moved ELSE moved \ {a}
      BY <1>11 DEF DropControl
    <3> QED BY <3>1, <3>2 DEF KeepsHistory
  <2> QED BY <2>1, <2>2, UnwindEffect
<1>12. CASE Recheck(w)
  <2>1. h.pc = "recheck" /\ UNCHANGED <<now, intents, events, keys, wiped, moved>>
    BY <1>12 DEF Recheck
  <2>2. a \in Pilots
    BY <2>1, AgentsAct
  <2>3. CASE Unwind(w)
    BY <1>k, <2>1, <2>3, UnwindEffect
  <2>4. CASE Move(w, ToReserve(w)) /\ UNCHANGED entry
    <3>1. /\ ToReserve(w) \in Errands /\ SameRequest(ToReserve(w), h)
          /\ ToReserve(w).pc = "reserve"
      BY <1>0, <2>2, ErrandsGoOn
    <3> QED BY <1>12, <2>1, <2>4, <3>1, MoveEffect
  <2> QED BY <1>12, <2>3, <2>4 DEF Recheck, ToReserve
<1>13. CASE Reserve(w)
  <2>1. h.pc = "reserve" /\ UNCHANGED <<now, intents, events, keys, wiped, moved>>
    BY <1>13 DEF Reserve
  <2>2. a \in Pilots
    BY <2>1, AgentsAct
  <2>3. CASE Unwind(w)
    BY <1>k, <2>1, <2>3, UnwindEffect
  <2>4. CASE Move(w, ToService(w)) /\ UNCHANGED entry
    <3>1. /\ ToService(w) \in Errands /\ SameRequest(ToService(w), h)
          /\ ToService(w).pc = "service"
      BY <1>0, <2>2, ErrandsGoOn
    <3> QED BY <1>13, <2>1, <2>4, <3>1, MoveEffect
  <2> QED BY <1>13, <2>3, <2>4 DEF Reserve, ToService
<1>14. CASE FinishDispatch(w)
  <2>1. h.pc = "service" /\ Unwind(w) /\ UNCHANGED <<now, intents, events, keys, wiped, moved>>
    BY <1>14 DEF FinishDispatch
  <2> QED BY <1>k, <2>1, UnwindEffect
<1> QED BY <1>1, <1>2, <1>3, <1>4, <1>5, <1>6, <1>7, <1>8, <1>9, <1>10, <1>11,
           <1>12, <1>13, <1>14 DEF HandStep

-----------------------------------------------------------------------------
(* The steps, by what they do to the threads.                                *)

\* A request begins.
Begins(w, a, kind) ==
    /\ Begin(w, a, kind) /\ kind \in {"enter", "leave", "heavy", "submit"}
    /\ intents' = IF kind = "submit" THEN intents + 1 ELSE intents
    /\ events' = events + 1 /\ intents' \in 0 .. MaxEvents

\* No thread of a request moves: a refused submit, the registry worker, time.
ThreadsRest ==
    /\ UNCHANGED <<hand, keys, entry, control, moved, manual, lease, intents>>
    /\ now' \in Nat /\ now <= now' /\ events' \in {events, events + 1}
    /\ \/ UNCHANGED <<owner, wiped>>
       \/ SweepClear
       \/ \E a \in Pilots : SweepClaim(a)

LEMMA ArbiterSteps ==
    ASSUME ArbiterInv, [ArbiterNext]_arbiterVars
    PROVE  \/ \E w \in Hands : HandStep(w)
           \/ \E w \in Hands, a \in Pilots, kind \in ErrandKinds : Begins(w, a, kind)
           \/ ThreadsRest
           \/ \E a \in Pilots : UserHold(a)
           \/ \E l \in Layouts : RegistryUpdate(l)
           \/ Restart
<1> USE DEF rows, times
<1>0. ArbiterTypeOK /\ IntentsCounted
  BY DEF ArbiterInv
<1>1. ASSUME Happens
      PROVE  events' = events + 1 /\ intents + 1 \in 0 .. MaxEvents
  BY <1>0, <1>1, ArbiterAssumption DEF ArbiterAssumption, Happens, ArbiterTypeOK, IntentsCounted
<1>2. ASSUME NEW w \in Hands, NEW a \in Pilots, Enter(w, a) \/ Leave(w, a) \/ Heavy(w, a)
      PROVE  \E kind \in ErrandKinds : Begins(w, a, kind)
  <2>1. PICK kind \in {"enter", "leave", "heavy"} : Begin(w, a, kind)
    BY <1>2 DEF Enter, Leave, Heavy
  <2>2. events' = events + 1 /\ intents' = intents /\ intents \in 0 .. MaxEvents
    BY <1>0, <1>1, <1>2 DEF Enter, Leave, Heavy, ArbiterTypeOK
  <2>3. kind \in ErrandKinds
    BY DEF ErrandKinds
  <2> QED BY <2>1, <2>2, <2>3 DEF Begins
<1>3. ASSUME NEW w \in Hands, NEW a \in Pilots, Submit(w, a)
      PROVE  \E kind \in ErrandKinds : Begins(w, a, kind)
  <2>1. Begins(w, a, "submit")
    BY <1>1, <1>3 DEF Submit, Begins
  <2>2. "submit" \in ErrandKinds
    BY DEF ErrandKinds
  <2> QED BY <2>1, <2>2
<1>4. ASSUME NEW w \in Hands, NEW a \in Pilots, SubmitHeld(w, a)
      PROVE  ThreadsRest
  BY <1>0, <1>4 DEF SubmitHeld, ThreadsRest, ArbiterTypeOK
<1>5. CASE Sweep
  <2>1. UNCHANGED <<hand, keys, entry, control, moved, manual, lease, intents, now, events>>
    BY <1>5 DEF Sweep, SweepRead, SweepClear, SweepClaim, SweepDone
  <2>2. UNCHANGED <<owner, wiped>> \/ SweepClear \/ \E a \in Pilots : SweepClaim(a)
    BY <1>5 DEF Sweep, SweepRead, SweepDone
  <2> QED BY <1>0, <2>1, <2>2 DEF ThreadsRest, ArbiterTypeOK
<1>6. CASE Tick
  BY <1>0, <1>1, <1>6 DEF Tick, ThreadsRest, ArbiterTypeOK
<1>7. CASE UNCHANGED arbiterVars
  BY <1>0, <1>7 DEF arbiterVars, ThreadsRest, ArbiterTypeOK
<1> QED BY <1>2, <1>3, <1>4, <1>5, <1>6, <1>7 DEF ArbiterNext, ControlRequests

\* A request that begins changes only the thread and the lock of its device.
LEMMA BeginEffect ==
    ASSUME ArbiterInv, NEW w \in Hands, NEW a \in Pilots, NEW kind \in ErrandKinds,
           Begins(w, a, kind)
    PROVE  /\ hand'[w].kind = kind /\ hand'[w].agent = a /\ hand'[w].pc = "enter"
           /\ hand'[w].t0 = now /\ hand'[w].intent = intents'
           /\ \A v \in Hands \ {w} : hand'[v] = hand[v]
           /\ hand[w].pc = "idle" /\ hand[w].agent = Nobody
           /\ entry'[Device(a)] = w /\ entry[Device(a)] = Nobody
           /\ \A k \in Resources : entry[k] # Nobody => entry'[k] = entry[k]
           /\ UNCHANGED <<now, keys, control, owner, lease, manual, wiped, moved>>
<1>1. ArbiterTypeOK /\ HandOK(hand[w]) /\ Begin(w, a, kind) /\ intents' \in 0 .. MaxEvents
  BY DEF ArbiterInv, Begins
<1>2. /\ hand'[w].kind = kind /\ hand'[w].agent = a /\ hand'[w].pc = "enter"
      /\ hand'[w].t0 = now /\ hand'[w].intent = intents'
      /\ \A v \in Hands \ {w} : hand'[v] = hand[v]
      /\ hand[w].pc = "idle" /\ entry'[Device(a)] = w /\ entry[Device(a)] = Nobody
      /\ \A k \in Resources : entry[k] # Nobody => entry'[k] = entry[k]
  BY <1>1, BeginKeepsTypes
<1>3. hand[w].agent = Nobody
  BY <1>1, <1>2 DEF HandOK
<1> QED BY <1>1, <1>2, <1>3 DEF Begin

\* The threads after a hold or an update of the registry.
LEMMA UnheardEffect ==
    ASSUME ArbiterInv, NEW bs \in SUBSET Pilots, Unheard(bs)
    PROVE  \A w \in Hands :
             /\ hand'[w].kind = hand[w].kind /\ hand'[w].agent = hand[w].agent
             /\ hand'[w].pc = hand[w].pc /\ hand'[w].keys = hand[w].keys
             /\ hand'[w].t0 = hand[w].t0 /\ hand'[w].sent = hand[w].sent
             /\ hand'[w].until = hand[w].until /\ hand'[w].intent = hand[w].intent
             /\ hand[w].deaf \subseteq hand'[w].deaf
             /\ hand[w].pc \in {"reserve", "service"} => bs \subseteq hand'[w].deaf
  BY DeafenedKeepsTypes DEF ArbiterInv

LEMMA RestartEffect ==
    ASSUME ArbiterInv, Restart
    PROVE  /\ \A w \in Hands : hand'[w] = Resting
           /\ UNCHANGED <<now, intents, keys, control, owner, lease, manual, wiped, moved>>
           /\ events' = events + 1
  BY DEF Restart, Happens, rows

LEMMA HoldsAndUpdates ==
    ASSUME ArbiterInv
    PROVE  /\ \A a \in Pilots : UserHold(a) =>
                /\ Unheard({a}) /\ events' = events + 1
                /\ UNCHANGED <<now, intents, keys, control, owner, lease, entry, wiped, moved>>
                /\ manual' = [manual EXCEPT ![a] = now + HoldFor]
           /\ \A l \in Layouts : RegistryUpdate(l) =>
                /\ Unheard(Pilots) /\ events' = events + 1 /\ keys' = l
                /\ UNCHANGED <<now, intents, control, owner, lease, entry, manual, wiped>>
                /\ moved' = moved \cup {a \in Pilots : keys[a] # l[a] /\ Engaged(a)}
  BY DEF UserHold, RegistryUpdate, Happens, rows

-----------------------------------------------------------------------------
(* The threads and their intents                                             *)

LEMMA IdleHands ==
    ArbiterTypeOK => /\ Resting.pc = "idle" /\ Resting.agent = Nobody
                     /\ Resting.kind = "none" /\ Resting.t0 = 0
  BY DEF Resting

LEMMA HandsKept ==
    ASSUME ArbiterInv, [ArbiterNext]_arbiterVars
    PROVE  \A w \in Hands : HandOK(hand[w])'
<1>0. /\ ArbiterTypeOK /\ \A w \in Hands : HandOK(hand[w])
      /\ now \in Nat /\ \A w \in Hands : hand[w].t0 \in Nat
  BY DEF ArbiterInv, ArbiterTypeOK, Errands
<1>1. ASSUME NEW w \in Hands, HandStep(w)
      PROVE  \A v \in Hands : HandOK(hand[v])'
  <2>1. HandStepEffect(w)
    BY <1>1, HandStepsWork
  <2>2. HandOK(hand[w])' /\ now' = now /\ \A v \in Hands \ {w} : hand'[v] = hand[v]
    BY <2>1 DEF HandStepEffect
  <2>3. \A v \in Hands \ {w} : HandOK(hand[v])'
    BY <1>0, <2>2 DEF HandOK
  <2> QED BY <2>2, <2>3
<1>2. ASSUME NEW w \in Hands, NEW a \in Pilots, NEW kind \in ErrandKinds, Begins(w, a, kind)
      PROVE  \A v \in Hands : HandOK(hand[v])'
  <2>1. /\ hand'[w].kind = kind /\ hand'[w].agent = a /\ hand'[w].pc = "enter"
        /\ hand'[w].t0 = now /\ now' = now
        /\ \A v \in Hands \ {w} : hand'[v] = hand[v]
    BY <1>2, BeginEffect
  <2>2. HandOK(hand[w])'
    BY <1>0, <2>1, ArbiterAssumption DEF HandOK, ArbiterAssumption
  <2>3. \A v \in Hands \ {w} : HandOK(hand[v])'
    BY <1>0, <2>1 DEF HandOK
  <2> QED BY <2>2, <2>3
<1>3. CASE ThreadsRest
  <2>1. hand' = hand /\ now' \in Nat /\ now <= now'
    BY <1>3 DEF ThreadsRest
  <2> QED BY <1>0, <2>1 DEF HandOK
<1>4. ASSUME NEW bs \in SUBSET Pilots, Unheard(bs), now' = now
      PROVE  \A v \in Hands : HandOK(hand[v])'
  BY <1>0, <1>4, UnheardEffect DEF HandOK
<1>5. CASE Restart
  <2>1. \A v \in Hands : hand'[v] = Resting
    BY <1>5, RestartEffect
  <2>2. now' \in Nat
    BY <1>0, <1>5, RestartEffect
  <2> QED BY <1>0, <2>1, <2>2, IdleHands DEF HandOK
<1>6. \A a \in Pilots : {a} \in SUBSET Pilots
  OBVIOUS
<1> QED BY <1>1, <1>2, <1>3, <1>4, <1>5, <1>6, ArbiterSteps, HoldsAndUpdates

LEMMA IntentsKept ==
    ASSUME ArbiterInv, [ArbiterNext]_arbiterVars
    PROVE  IntentsDiffer' /\ IntentsCounted'
<1>0. /\ ArbiterTypeOK /\ IntentsDiffer /\ IntentsCounted
      /\ intents \in Nat /\ events \in Nat /\ \A w \in Hands : hand[w].intent \in Nat
  BY DEF ArbiterInv, ArbiterTypeOK, Errands
<1>1. ASSUME NEW w \in Hands, HandStep(w)
      PROVE  IntentsDiffer' /\ IntentsCounted'
  <2>1. HandStepEffect(w)
    BY <1>1, HandStepsWork
  <2>2. /\ intents' = intents /\ events' = events
        /\ \A v \in Hands \ {w} : hand'[v] = hand[v]
    BY <2>1 DEF HandStepEffect
  <2>3. hand'[w].kind = "submit" => hand[w].kind = "submit" /\ hand'[w].intent = hand[w].intent
    BY <1>0, <2>1, IdleHands DEF HandStepEffect, Proceeds, SameRequest
  <2> QED BY <1>0, <2>2, <2>3 DEF IntentsDiffer, IntentsCounted
<1>2. ASSUME NEW w \in Hands, NEW a \in Pilots, NEW kind \in ErrandKinds, Begins(w, a, kind)
      PROVE  IntentsDiffer' /\ IntentsCounted'
  <2>1. /\ hand'[w].kind = kind /\ hand'[w].intent = intents'
        /\ \A v \in Hands \ {w} : hand'[v] = hand[v]
    BY <1>2, BeginEffect
  <2>2. /\ intents' = IF kind = "submit" THEN intents + 1 ELSE intents
        /\ events' = events + 1
    BY <1>2 DEF Begins
  <2>3. CASE kind = "submit"
    <3>1. \A v \in Hands \ {w} : hand'[v].kind = "submit" => hand'[v].intent <= intents
      BY <1>0, <2>1 DEF IntentsCounted
    <3> QED BY <1>0, <2>1, <2>2, <2>3, <3>1 DEF IntentsDiffer, IntentsCounted
  <2>4. CASE kind # "submit"
    BY <1>0, <2>1, <2>2, <2>4 DEF IntentsDiffer, IntentsCounted
  <2> QED BY <2>3, <2>4
<1>3. CASE ThreadsRest
  <2>1. hand' = hand /\ intents' = intents /\ events' \in {events, events + 1}
    BY <1>3 DEF ThreadsRest
  <2> QED BY <1>0, <2>1 DEF IntentsDiffer, IntentsCounted
<1>4. ASSUME NEW bs \in SUBSET Pilots, Unheard(bs), intents' = intents, events' = events + 1
      PROVE  IntentsDiffer' /\ IntentsCounted'
  BY <1>0, <1>4, UnheardEffect DEF IntentsDiffer, IntentsCounted
<1>5. CASE Restart
  BY <1>0, <1>5, RestartEffect, IdleHands DEF IntentsDiffer, IntentsCounted
<1>6. \A a \in Pilots : {a} \in SUBSET Pilots
  OBVIOUS
<1> QED BY <1>1, <1>2, <1>3, <1>4, <1>5, <1>6, ArbiterSteps, HoldsAndUpdates

-----------------------------------------------------------------------------
(* Reservations                                                              *)

LEMMA LeaseChanges ==
    ASSUME ArbiterInv, NEW w \in Hands, HandStep(w)
    PROVE  \/ lease' = lease /\ hand'[w].pc # "service"
           \/ lease' = lease /\ hand'[w] = hand[w]
           \/ FinishDispatch(w)
           \/ /\ Reserve(w) /\ ~ Blocked(hand[w].agent, hand[w].t0)
              /\ hand'[w] = ToService(w)
<1>0. ArbiterTypeOK /\ HandStepEffect(w)
  BY HandStepsWork DEF ArbiterInv
<1>1. CASE Reserve(w) /\ Blocked(hand[w].agent, hand[w].t0)
  <2>1. Unwind(w) /\ lease' = lease
    BY <1>1 DEF Reserve
  <2>2. hand'[w].pc = "idle"
    BY <1>0, <2>1, UnwindKeepsTypes, IdleHands
  <2> QED BY <2>1, <2>2
<1>2. CASE Reserve(w) /\ ~ Blocked(hand[w].agent, hand[w].t0)
  <2>1. Move(w, ToService(w))
    BY <1>2 DEF Reserve, ToService
  <2>2. ToService(w) \in Errands
    BY <1>0, ErrandsGoOn DEF HandStepEffect
  <2> QED BY <1>0, <1>2, <2>1, <2>2, MoveKeepsTypes
<1>3. CASE ~ Reserve(w) /\ ~ FinishDispatch(w)
  <2>1. lease' = lease
    BY <1>3 DEF HandStep, Resolve, LockRow, Claim, Refuse, TookControl, HandoffRaises,
                CommitControl, CommitRaises, Restored, Disown, DropControl, Recheck, rows
  <2>2. hand'[w].pc # "service"
    BY <1>0, <1>3 DEF HandStepEffect
  <2> QED BY <2>1, <2>2
<1> QED BY <1>1, <1>2, <1>3

LEMMA ReservedKept ==
    ASSUME ArbiterInv, [ArbiterNext]_arbiterVars
    PROVE  Reserved'
<1>0. /\ ArbiterTypeOK /\ Reserved /\ IntentsDiffer
      /\ now \in Nat /\ \A w \in Hands : HandOK(hand[w]) /\ hand[w] \in Errands
      /\ \A w \in Hands : hand[w].until \in Nat /\ hand[w].t0 \in Nat
      /\ \A k \in Resources : lease[k].until \in Nat
      /\ \A w \in Hands : hand[w].keys \subseteq Resources
  BY DEF ArbiterInv, ArbiterTypeOK, Errands, Leases
<1>1. ASSUME NEW w \in Hands, HandStep(w)
      PROVE  Reserved'
  <2>1. HandStepEffect(w)
    BY <1>1, HandStepsWork
  <2>2. now' = now /\ hand[w].agent \in Pilots /\ \A v \in Hands \ {w} : hand'[v] = hand[v]
    BY <2>1 DEF HandStepEffect
  <2>3. CASE lease' = lease /\ (hand'[w].pc # "service" \/ hand'[w] = hand[w])
    BY <1>0, <2>2, <2>3 DEF Reserved
  <2>4. CASE FinishDispatch(w)
    <3>1. /\ lease' = [k \in Resources |-> IF Mine(w, k) THEN NoLease ELSE lease[k]]
          /\ Unwind(w) /\ hand[w].pc = "service"
      BY <2>4 DEF FinishDispatch
    <3>2. hand'[w].pc # "service"
      BY <1>0, <3>1, UnwindKeepsTypes, IdleHands
    <3>3. ASSUME NEW v \in Hands \ {w}, hand[v].pc = "service", NEW k \in hand[v].keys,
                 Mine(w, k)
          PROVE  hand[v].until <= now
      <4>1. hand[v].kind = "submit" /\ hand[w].kind = "submit"
        BY <1>0, <3>1, <3>3 DEF HandOK
      <4>2. hand[v].intent # hand[w].intent
        BY <1>0, <4>1 DEF IntentsDiffer
      <4>3. lease[k].intent = hand[w].intent
        BY <3>3 DEF Mine
      <4> QED BY <1>0, <3>3, <4>2, <4>3 DEF Reserved
    <3>4. ASSUME NEW v \in Hands \ {w}, hand[v].pc = "service", NEW k \in hand[v].keys,
                 ~ Mine(w, k)
          PROVE  lease'[k] = lease[k]
      BY <1>0, <3>1, <3>4
    <3> QED BY <1>0, <2>2, <3>2, <3>3, <3>4 DEF Reserved
  <2>5. CASE /\ Reserve(w) /\ ~ Blocked(hand[w].agent, hand[w].t0)
             /\ hand'[w] = ToService(w)
    <3> DEFINE a == hand[w].agent
    <3>1. lease' = [k \in Resources |-> IF k \in keys[a]
                      THEN [intent |-> hand[w].intent, until |-> hand[w].t0 + Dwell]
                      ELSE lease[k]]
      BY <2>5 DEF Reserve
    <3>2. /\ ToService(w).keys = keys[a] /\ ToService(w).until = hand[w].t0 + Dwell
          /\ ToService(w).intent = hand[w].intent
      BY <1>0, <2>2, ErrandsGoOn DEF SameRequest
    <3>3. keys[a] \subseteq Resources
      BY <1>0, <2>2, DeviceIsNeeded
    <3>4. \A k \in keys[a] : lease[k].until <= now
      <4>1. \A k \in keys[a] : ~ (lease[k].until > hand[w].t0)
        BY <2>5 DEF Blocked, Masked, InForce
      <4>2. hand[w].t0 <= now
        BY <1>0 DEF HandOK
      <4> QED BY <1>0, <3>3, <4>1, <4>2
    <3>5. ASSUME NEW v \in Hands \ {w}, hand[v].pc = "service", NEW k \in hand[v].keys
          PROVE  \/ lease'[k].intent = hand[v].intent /\ lease'[k].until = hand[v].until
                 \/ hand[v].until <= now
      <4>1. CASE k \in keys[a]
        BY <1>0, <3>4, <3>5, <4>1 DEF Reserved
      <4>2. CASE k \notin keys[a]
        <5>1. lease'[k] = lease[k]
          BY <1>0, <3>1, <4>2
        <5> QED BY <1>0, <3>5, <5>1 DEF Reserved
      <4> QED BY <4>1, <4>2
    <3>6. \A k \in hand'[w].keys :
             lease'[k].intent = hand'[w].intent /\ lease'[k].until = hand'[w].until
      BY <2>5, <3>1, <3>2, <3>3
    <3> QED BY <2>2, <3>5, <3>6 DEF Reserved
  <2> QED BY <1>1, <2>3, <2>4, <2>5, LeaseChanges
<1>2. ASSUME NEW w \in Hands, NEW a \in Pilots, NEW kind \in ErrandKinds, Begins(w, a, kind)
      PROVE  Reserved'
  <2>1. /\ hand'[w].pc = "enter" /\ now' = now /\ lease' = lease
        /\ \A v \in Hands \ {w} : hand'[v] = hand[v]
    BY <1>2, BeginEffect
  <2> QED BY <1>0, <2>1 DEF Reserved
<1>3. CASE ThreadsRest
  <2>1. hand' = hand /\ lease' = lease /\ now' \in Nat /\ now <= now'
    BY <1>3 DEF ThreadsRest
  <2> QED BY <1>0, <2>1 DEF Reserved
<1>4. ASSUME NEW bs \in SUBSET Pilots, Unheard(bs), now' = now, lease' = lease
      PROVE  Reserved'
  BY <1>0, <1>4, UnheardEffect DEF Reserved
<1>5. CASE Restart
  BY <1>0, <1>5, RestartEffect, IdleHands DEF Reserved
<1>6. \A a \in Pilots : {a} \in SUBSET Pilots
  OBVIOUS
<1> QED BY <1>1, <1>2, <1>3, <1>4, <1>5, <1>6, ArbiterSteps, HoldsAndUpdates

-----------------------------------------------------------------------------
(* The locks of the devices                                                  *)

\* An agent that was not remapped has one thread at most.
LEMMA OneThread ==
    ASSUME EntryHeld, NEW v \in Hands, NEW w \in Hands, v # w,
           hand[v].agent = hand[w].agent, hand[v].agent # Nobody
    PROVE  hand[v].agent \in moved
  BY DEF EntryHeld

LEMMA EntryKept ==
    ASSUME ArbiterInv, [ArbiterNext]_arbiterVars
    PROVE  EntryHeld'
<1>0. /\ ArbiterTypeOK /\ EntryHeld
      /\ Nobody \notin Hands /\ Nobody \notin Pilots
      /\ \A v \in Hands : hand[v].agent \in Pilots \cup {Nobody}
  BY ArbiterAssumption DEF ArbiterInv, ArbiterTypeOK, Errands, ArbiterAssumption
<1>d. \A a \in Pilots : Device(a) \in Resources
  BY <1>0, DeviceIsNeeded
<1>1. ASSUME NEW w \in Hands, HandStep(w)
      PROVE  EntryHeld'
  <2>1. HandStepEffect(w)
    BY <1>1, HandStepsWork
  <2>2. /\ hand[w].agent \in Pilots /\ keys' = keys
        /\ \A v \in Hands \ {w} : hand'[v] = hand[v]
        /\ Proceeds(w) /\ KeepsEntries(w) /\ KeepsHistory(w)
    BY <2>1 DEF HandStepEffect
  <2>3. ASSUME NEW v \in Hands \ {w}, hand[v].agent # Nobody, hand[v].agent \notin moved'
        PROVE  entry'[Lowest(keys'[hand[v].agent])] = v
    <3>1. hand[v].agent \notin moved
      BY <2>2, <2>3 DEF KeepsHistory
    <3>2. entry[Device(hand[v].agent)] = v
      BY <1>0, <2>3, <3>1 DEF EntryHeld, Device
    <3>3. hand[v].agent \in Pilots
      BY <1>0, <2>3
    <3> QED BY <1>0, <1>d, <2>2, <3>2, <3>3 DEF KeepsEntries, Device
  <2>4. CASE hand'[w] = Resting
    BY <1>0, <2>2, <2>3, <2>4, IdleHands DEF EntryHeld, Device
  <2>5. CASE hand'[w] # Resting
    <3>1. hand'[w].agent = hand[w].agent
      BY <2>2, <2>5 DEF Proceeds, SameRequest
    <3>2. CASE hand[w].agent \in moved'
      BY <2>2, <2>3, <3>1, <3>2 DEF EntryHeld, Device
    <3>3. CASE hand[w].agent \notin moved'
      <4>1. CASE DropControl(w)
        <5>1. hand'[w] = Resting
          BY <1>0, <4>1, UnwindKeepsTypes DEF DropControl
        <5> QED BY <2>5, <5>1
      <4>2. CASE ~ DropControl(w)
        <5>1. moved' = moved
          BY <1>1, <4>2
          DEF HandStep, Resolve, LockRow, Claim, Refuse, TookControl, HandoffRaises,
              CommitControl, CommitRaises, Restored, Disown, Recheck, Reserve,
              FinishDispatch
        <5>2. entry[Device(hand[w].agent)] = w
          BY <1>0, <2>2, <3>3, <5>1 DEF EntryHeld, Device
        <5>3. entry'[Lowest(keys'[hand[w].agent])] = w
          <6> QED BY <1>d, <2>2, <2>5, <5>2 DEF KeepsEntries, Device
        <5> QED BY <2>2, <2>3, <3>1, <5>3 DEF EntryHeld, Device
      <4> QED BY <4>1, <4>2
    <3> QED BY <3>2, <3>3
  <2> QED BY <2>4, <2>5
<1>2. ASSUME NEW w \in Hands, NEW a \in Pilots, NEW kind \in ErrandKinds, Begins(w, a, kind)
      PROVE  EntryHeld'
  <2>1. /\ hand'[w].agent = a /\ entry'[Device(a)] = w /\ keys' = keys /\ moved' = moved
        /\ \A v \in Hands \ {w} : hand'[v] = hand[v]
        /\ \A k \in Resources : entry[k] # Nobody => entry'[k] = entry[k]
    BY <1>2, BeginEffect
  <2>2. \A v \in Hands \ {w} : hand[v].agent # Nobody /\ hand[v].agent \notin moved
           => entry'[Lowest(keys'[hand[v].agent])] = v
    BY <1>0, <1>d, <2>1 DEF EntryHeld, Device
  <2>3. entry'[Lowest(keys'[hand'[w].agent])] = w
    BY <2>1 DEF Device
  <2> QED BY <2>1, <2>2, <2>3 DEF EntryHeld, Device
<1>3. CASE ThreadsRest
  <2>1. hand' = hand /\ entry' = entry /\ moved' = moved /\ keys' = keys
    BY <1>3 DEF ThreadsRest
  <2> QED BY <1>0, <2>1 DEF EntryHeld, Device
<1>4. ASSUME NEW a \in Pilots, UserHold(a)
      PROVE  EntryHeld'
  <2>1. Unheard({a}) /\ {a} \in SUBSET Pilots /\ UNCHANGED <<keys, entry, moved>>
    BY <1>4, HoldsAndUpdates
  <2>2. \A v \in Hands : hand'[v].agent = hand[v].agent
    BY <2>1, UnheardEffect
  <2> QED BY <1>0, <2>1, <2>2 DEF EntryHeld, Device
<1>5. ASSUME NEW l \in Layouts, RegistryUpdate(l)
      PROVE  EntryHeld'
  <2>1. /\ Unheard(Pilots) /\ keys' = l /\ entry' = entry
        /\ moved' = moved \cup {a \in Pilots : keys[a] # l[a] /\ Engaged(a)}
    BY <1>5, HoldsAndUpdates
  <2>2. \A v \in Hands : hand'[v].agent = hand[v].agent
    BY <2>1, UnheardEffect
  <2>3. \A v \in Hands : hand[v].agent # Nobody /\ hand[v].agent \notin moved'
           => /\ hand[v].agent \notin moved
              /\ keys'[hand[v].agent] = keys[hand[v].agent]
    BY <1>0, <2>1 DEF Engaged
  <2>4. ASSUME NEW v \in Hands, hand[v].agent # Nobody, hand[v].agent \notin moved'
        PROVE  entry'[Lowest(keys'[hand[v].agent])] = v
    <3>1. entry[Lowest(keys[hand[v].agent])] = v
      BY <1>0, <2>3, <2>4 DEF EntryHeld, Device
    <3> QED BY <2>1, <2>3, <2>4, <3>1
  <2> QED BY <2>2, <2>4 DEF EntryHeld, Device
<1>6. CASE Restart
  BY <1>0, <1>6, RestartEffect, IdleHands DEF EntryHeld, Device
<1> QED BY <1>1, <1>2, <1>3, <1>4, <1>5, <1>6, ArbiterSteps

-----------------------------------------------------------------------------
(* Shared Control                                                            *)

LEMMA ControlChanges ==
    ASSUME ArbiterInv, NEW w \in Hands, HandStep(w)
    PROVE  /\ UNCHANGED <<wiped, moved>> \/ DropControl(w)
           /\ control' = control \/ CommitControl(w) \/ DropControl(w)
           /\ \/ UNCHANGED owner
              \/ Claim(w)
              \/ owner' = Disowned(hand[w].agent, hand[w].fresh)
           /\ UNCHANGED manual \/ CommitControl(w)
<1> USE DEF HandStep, Resolve, LockRow, Claim, Refuse, TookControl, HandoffRaises,
            CommitControl, CommitRaises, Restored, Disown, DropControl, Recheck, Reserve,
            FinishDispatch, rows
<1>1. UNCHANGED <<wiped, moved>> \/ DropControl(w)
  OBVIOUS
<1>2. control' = control \/ CommitControl(w) \/ DropControl(w)
  OBVIOUS
<1>3. \/ UNCHANGED owner
      \/ Claim(w)
      \/ owner' = Disowned(hand[w].agent, hand[w].fresh)
  OBVIOUS
<1>4. UNCHANGED manual \/ CommitControl(w)
  OBVIOUS
<1> QED BY <1>1, <1>2, <1>3, <1>4

\* A thread takes no resource from another agent.
LEMMA OwnersRespected ==
    ASSUME ArbiterInv, NEW w \in Hands, HandStep(w), NEW k \in Resources,
           owner[k] \in Pilots, owner[k] # hand[w].agent
    PROVE  owner'[k] = owner[k]
<1>0. ArbiterTypeOK /\ hand[w].agent \in Pilots /\ Nobody \notin Pilots
  BY HandStepsWork, ArbiterAssumption DEF ArbiterInv, HandStepEffect, ArbiterAssumption
<1>1. CASE Claim(w)
  <2>1. owner' = Claimed(hand[w].agent) /\ Claimable(hand[w].agent)
    BY <1>1 DEF Claim
  <2> QED BY <1>0, <2>1 DEF Claimed, Claimable
<1>2. CASE owner' = Disowned(hand[w].agent, hand[w].fresh)
  BY <1>0, <1>2 DEF Disowned
<1> QED BY <1>1, <1>2, ControlChanges

LEMMA RestingEnters ==
    ASSUME ArbiterInv, NEW w \in Hands, HandStep(w), Entering(w)'
    PROVE  \/ Claim(w)
           \/ Entering(w) /\ UNCHANGED <<owner, control, wiped, moved>>
<1>0. ArbiterTypeOK /\ HandStepEffect(w)
  BY HandStepsWork DEF ArbiterInv
<1>1. hand'[w].kind = "enter" /\ hand'[w].pc \in {"handoff", "commit"}
  BY DEF Entering
<1>2. CASE hand'[w].pc = "handoff"
  BY <1>0, <1>2 DEF HandStepEffect
<1>3. CASE hand'[w].pc = "commit"
  <2>1. hand[w].pc = "handoff"
    BY <1>0, <1>3 DEF HandStepEffect
  <2>2. hand'[w] # Resting
    BY <1>0, <1>3, IdleHands
  <2>3. hand[w].kind = "enter"
    BY <1>0, <1>1, <2>2 DEF HandStepEffect, Proceeds, SameRequest
  <2>4. ~ Unwind(w)
    BY <1>0, <2>2, UnwindKeepsTypes
  <2>5. TookControl(w)
    BY <2>1, <2>4
    DEF HandStep, Resolve, LockRow, Wanted, Claim, Refuse, HandoffRaises, CommitControl,
        CommitRaises, Restored, Holding, Disown, DropControl, Recheck, Reserve,
        FinishDispatch
  <2> QED BY <2>1, <2>3, <2>5 DEF Entering, TookControl, rows
<1> QED BY <1>1, <1>2, <1>3

LEMMA ClaimsKept ==
    ASSUME ArbiterInv, [ArbiterNext]_arbiterVars
    PROVE  ClaimStands'
<1>0. /\ ArbiterTypeOK /\ EntryHeld /\ ClaimStands
      /\ Nobody \notin Pilots /\ control \subseteq Pilots
      /\ \A v \in Hands : hand[v].agent \in Pilots \cup {Nobody} /\ HandOK(hand[v])
  BY ArbiterAssumption DEF ArbiterInv, ArbiterTypeOK, Errands, ArbiterAssumption
<1>a. \A v \in Hands : Entering(v) => hand[v].agent \in Pilots
  BY <1>0 DEF Entering, HandOK
<1>b. \A a \in Pilots : keys[a] \subseteq Resources
  BY <1>0, DeviceIsNeeded
<1>1. ASSUME NEW w \in Hands, HandStep(w)
      PROVE  ClaimStands'
  <2> DEFINE a == hand[w].agent
  <2>1. HandStepEffect(w)
    BY <1>1, HandStepsWork
  <2>2. /\ a \in Pilots /\ keys' = keys /\ KeepsHistory(w)
        /\ \A v \in Hands \ {w} : hand'[v] = hand[v]
    BY <2>1 DEF HandStepEffect
  <2>3. ASSUME NEW v \in Hands \ {w}, Entering(v), hand[v].agent \notin wiped' \cup moved'
        PROVE  /\ \A k \in keys[hand[v].agent] : owner'[k] = hand[v].agent
               /\ \A b \in control' : Conflicts(hand[v].agent, b) => b \in wiped' \cup moved'
    <3> DEFINE x == hand[v].agent
    <3>1. x \in Pilots
      BY <1>a, <2>3
    <3>2. x # a
      <4> SUFFICES ASSUME x = a PROVE FALSE
        OBVIOUS
      <4>1. x \in moved
        BY <1>0, <3>1, OneThread
      <4> QED BY <2>2, <2>3, <4>1 DEF KeepsHistory
    <3>3. ~ Explained(x)
      BY <2>2, <2>3, <3>1, <3>2 DEF Explained, KeepsHistory
    <3>4. /\ \A k \in keys[x] : owner[k] = x
          /\ \A b \in control : Conflicts(x, b) => Explained(b)
      BY <1>0, <2>3, <3>3 DEF ClaimStands
    <3>5. \A k \in keys[x] : owner'[k] = x
      BY <1>1, <1>b, <3>1, <3>2, <3>4, OwnersRespected
    <3>6. ASSUME NEW b \in control', Conflicts(x, b)
          PROVE  b \in wiped' \cup moved'
      <4>1. CASE b \in control /\ ~ DropControl(w)
        <5>1. Explained(b) /\ wiped' = wiped /\ moved' = moved
          BY <1>1, <3>4, <3>6, <4>1, ControlChanges
        <5> QED BY <5>1 DEF Explained
      <4>2. CASE DropControl(w)
        <5>1. b # a /\ b \in control
          BY <3>6, <4>2 DEF DropControl
        <5>2. Explained(b) /\ b \in Pilots
          BY <1>0, <3>4, <3>6, <5>1
        <5> QED BY <2>2, <5>1, <5>2 DEF Explained, KeepsHistory
      <4>3. CASE b \notin control /\ ~ DropControl(w)
        <5>1. CommitControl(w) /\ b = a /\ wiped' = wiped /\ moved' = moved
          BY <1>1, <3>6, <4>3, ControlChanges DEF CommitControl
        <5>2. Entering(w)
          BY <1>0, <5>1 DEF CommitControl, HandOK, Entering
        <5>3. PICK k \in Resources : k \in keys[x] /\ k \in keys[a]
          BY <1>b, <3>1, <3>6, <5>1 DEF Conflicts
        <5>4. ~ Explained(a) => owner[k] = a
          BY <1>0, <5>2, <5>3 DEF ClaimStands
        <5> QED BY <3>2, <3>4, <5>1, <5>3, <5>4 DEF Explained
      <4> QED BY <4>1, <4>2, <4>3
    <3> QED BY <3>5, <3>6
  <2>4. ASSUME Entering(w)', hand'[w].agent \notin wiped' \cup moved'
        PROVE  /\ \A k \in keys[hand'[w].agent] : owner'[k] = hand'[w].agent
               /\ \A b \in control' : Conflicts(hand'[w].agent, b) => b \in wiped' \cup moved'
    <3>1. hand'[w] # Resting
      BY <1>0, <2>4, IdleHands DEF Entering
    <3>2. hand'[w].agent = a
      BY <2>1, <3>1 DEF HandStepEffect, Proceeds, SameRequest
    <3>3. CASE Claim(w)
      <4>1. owner' = Claimed(a) /\ Rivals(a) = {} /\ control' = control
        BY <3>3 DEF Claim
      <4>2. \A k \in keys[a] : owner'[k] = a
        BY <1>b, <2>2, <4>1 DEF Claimed
      <4>3. \A b \in control : ~ Conflicts(a, b)
        BY <4>1 DEF Rivals
      <4> QED BY <3>2, <4>1, <4>2, <4>3
    <3>4. CASE Entering(w) /\ UNCHANGED <<owner, control, wiped, moved>>
      BY <1>0, <2>4, <3>2, <3>4 DEF ClaimStands, Explained
    <3> QED BY <1>1, <2>4, <3>3, <3>4, RestingEnters
  <2>5. \A x, b : Conflicts(x, b)' <=> Conflicts(x, b)
    BY <2>2 DEF Conflicts
  <2>6. ASSUME NEW v \in Hands, Entering(v)', hand'[v].agent \notin wiped' \cup moved'
        PROVE  /\ \A k \in keys'[hand'[v].agent] : owner'[k] = hand'[v].agent
               /\ \A b \in control' : (hand'[v].agent # b /\ keys'[hand'[v].agent] \cap keys'[b] # {})
                                      => b \in wiped' \cup moved'
    <3>1. CASE v = w
      BY <2>2, <2>4, <2>6, <3>1 DEF Conflicts
    <3>2. CASE v # w
      <4>1. hand'[v] = hand[v] /\ Entering(v)
        BY <2>2, <2>6, <3>2 DEF Entering
      <4> QED BY <2>2, <2>3, <2>6, <3>2, <4>1 DEF Conflicts
    <3> QED BY <3>1, <3>2
  <2> QED BY <2>6 DEF ClaimStands, Explained, Conflicts
<1>2. ASSUME NEW w \in Hands, NEW a \in Pilots, NEW kind \in ErrandKinds, Begins(w, a, kind)
      PROVE  ClaimStands'
  <2>1. /\ hand'[w].pc = "enter" /\ UNCHANGED <<keys, control, owner, wiped, moved>>
        /\ \A v \in Hands \ {w} : hand'[v] = hand[v]
    BY <1>2, BeginEffect
  <2> QED BY <1>0, <2>1 DEF ClaimStands, Entering, Explained, Conflicts
<1>3. CASE ThreadsRest
  <2>1. UNCHANGED <<hand, keys, control, moved>>
    BY <1>3 DEF ThreadsRest
  <2>2. ASSUME NEW v \in Hands, Entering(v), hand[v].agent \notin wiped' \cup moved
        PROVE  /\ \A k \in keys[hand[v].agent] : owner'[k] = hand[v].agent
               /\ \A b \in control : Conflicts(hand[v].agent, b) => b \in wiped' \cup moved
    <3> DEFINE x == hand[v].agent
    <3>1. wiped \subseteq wiped'
      BY <1>3 DEF ThreadsRest, SweepClear, SweepClaim
    <3>2. /\ \A k \in keys[x] : owner[k] = x
          /\ \A b \in control : Conflicts(x, b) => Explained(b)
      BY <1>0, <2>2, <3>1 DEF ClaimStands, Explained
    <3>3. x \in Pilots /\ keys[x] \subseteq Resources
      BY <1>a, <1>b, <2>2
    <3>4. ASSUME NEW k \in keys[x]
          PROVE  owner'[k] = x
      <4>1. CASE SweepClear
        <5>1. Engaged(x)
          BY DEF Engaged
        <5>2. ~ Stale(k)
          BY <2>2, <3>2, <3>3, <4>1, <5>1 DEF SweepClear
        <5> QED BY <3>2, <3>3, <4>1, <5>2 DEF SweepClear
      <4>2. ASSUME NEW b \in Pilots, SweepClaim(b)
            PROVE  owner'[k] = x
        <5>1. owner' = owner \/ (Claimable(b) /\ owner' = Claimed(b))
          BY <4>2 DEF SweepClaim
        <5> QED BY <1>0, <3>2, <3>3, <5>1 DEF Claimable, Claimed
      <4> QED BY <1>3, <3>2, <4>1, <4>2 DEF ThreadsRest
    <3> QED BY <3>1, <3>2, <3>4 DEF Explained
  <2> QED BY <2>1, <2>2 DEF ClaimStands, Entering, Explained, Conflicts
<1>4. ASSUME NEW a \in Pilots, UserHold(a)
      PROVE  ClaimStands'
  <2>1. Unheard({a}) /\ {a} \in SUBSET Pilots /\ UNCHANGED <<keys, control, owner, wiped, moved>>
    BY <1>4, HoldsAndUpdates
  <2>2. \A v \in Hands : /\ hand'[v].agent = hand[v].agent /\ hand'[v].pc = hand[v].pc
                         /\ hand'[v].kind = hand[v].kind
    BY <2>1, UnheardEffect
  <2> QED BY <1>0, <2>1, <2>2 DEF ClaimStands, Entering, Explained, Conflicts
<1>5. ASSUME NEW l \in Layouts, RegistryUpdate(l)
      PROVE  ClaimStands'
  <2>1. /\ Unheard(Pilots) /\ keys' = l /\ UNCHANGED <<control, owner, wiped>>
        /\ moved' = moved \cup {a \in Pilots : keys[a] # l[a] /\ Engaged(a)}
    BY <1>5, HoldsAndUpdates
  <2>2. \A v \in Hands : /\ hand'[v].agent = hand[v].agent /\ hand'[v].pc = hand[v].pc
                         /\ hand'[v].kind = hand[v].kind
    BY <2>1, UnheardEffect
  <2>3. ASSUME NEW v \in Hands, Entering(v), hand[v].agent \notin wiped \cup moved'
        PROVE  /\ \A k \in l[hand[v].agent] : owner[k] = hand[v].agent
               /\ \A b \in control : /\ hand[v].agent # b
                                     /\ l[hand[v].agent] \cap l[b] # {}
                                     => b \in wiped \cup moved'
    <3>1. hand[v].agent \in Pilots
      BY <1>a, <2>3
    <3>2. l[hand[v].agent] = keys[hand[v].agent] /\ ~ Explained(hand[v].agent)
      BY <2>1, <2>3, <3>1 DEF Engaged, Explained
    <3>3. \A b \in control : b \notin moved' => l[b] = keys[b]
      BY <1>0, <2>1 DEF Engaged
    <3> QED BY <1>0, <2>1, <2>3, <3>2, <3>3 DEF ClaimStands, Explained, Conflicts
  <2> QED BY <2>1, <2>2, <2>3 DEF ClaimStands, Entering, Explained, Conflicts
<1>6. CASE Restart
  BY <1>0, <1>6, RestartEffect, IdleHands DEF ClaimStands, Entering
<1> QED BY <1>1, <1>2, <1>3, <1>4, <1>5, <1>6, ArbiterSteps

LEMMA SharingKept ==
    ASSUME ArbiterInv, [ArbiterNext]_arbiterVars
    PROVE  SharedControlIsExplained'
<1>0. /\ ArbiterTypeOK /\ ClaimStands /\ SharedControlIsExplained /\ control \subseteq Pilots
      /\ \A v \in Hands : HandOK(hand[v])
  BY DEF ArbiterInv, ArbiterTypeOK
<1>1. ASSUME NEW w \in Hands, HandStep(w)
      PROVE  SharedControlIsExplained'
  <2>1. HandStepEffect(w)
    BY <1>1, HandStepsWork
  <2>2. keys' = keys /\ KeepsHistory(w)
    BY <2>1 DEF HandStepEffect
  <2>3. CASE DropControl(w)
    <3>1. control' = control \ {hand[w].agent}
      BY <2>3 DEF DropControl
    <3>2. \A b \in control' : b \in wiped \cup moved => b \in wiped' \cup moved'
      BY <1>0, <2>2, <3>1 DEF KeepsHistory
    <3> QED BY <1>0, <2>2, <3>1, <3>2 DEF SharedControlIsExplained, Conflicts
  <2>4. CASE CommitControl(w)
    <3>1. Entering(w) /\ control' = control \cup {hand[w].agent} /\ UNCHANGED <<wiped, moved>>
      BY <1>0, <2>4 DEF CommitControl, HandOK, Entering
    <3>2. \A b \in control : Conflicts(hand[w].agent, b)
              => Explained(hand[w].agent) \/ Explained(b)
      BY <1>0, <3>1 DEF ClaimStands
    <3> QED BY <1>0, <2>2, <3>1, <3>2 DEF SharedControlIsExplained, Conflicts, Explained
  <2>5. CASE control' = control /\ UNCHANGED <<wiped, moved>>
    BY <1>0, <2>2, <2>5 DEF SharedControlIsExplained, Conflicts
  <2> QED BY <1>1, <2>3, <2>4, <2>5, ControlChanges
<1>2. ASSUME NEW w \in Hands, NEW a \in Pilots, NEW kind \in ErrandKinds, Begins(w, a, kind)
      PROVE  SharedControlIsExplained'
  BY <1>0, <1>2, BeginEffect DEF SharedControlIsExplained, Conflicts
<1>3. CASE ThreadsRest
  <2>1. UNCHANGED <<keys, control, moved>> /\ wiped \subseteq wiped'
    BY <1>3 DEF ThreadsRest, SweepClear, SweepClaim
  <2> QED BY <1>0, <2>1 DEF SharedControlIsExplained, Conflicts
<1>4. ASSUME NEW a \in Pilots, UserHold(a)
      PROVE  SharedControlIsExplained'
  BY <1>0, <1>4, HoldsAndUpdates DEF SharedControlIsExplained, Conflicts
<1>5. ASSUME NEW l \in Layouts, RegistryUpdate(l)
      PROVE  SharedControlIsExplained'
  <2>1. /\ keys' = l /\ UNCHANGED <<control, wiped>>
        /\ moved' = moved \cup {a \in Pilots : keys[a] # l[a] /\ Engaged(a)}
    BY <1>5, HoldsAndUpdates
  <2>2. \A b \in control : b \notin moved' => l[b] = keys[b]
    BY <1>0, <2>1 DEF Engaged
  <2> QED BY <1>0, <2>1, <2>2 DEF SharedControlIsExplained, Conflicts
<1>6. CASE Restart
  BY <1>0, <1>6, RestartEffect DEF SharedControlIsExplained, Conflicts
<1> QED BY <1>1, <1>2, <1>3, <1>4, <1>5, <1>6, ArbiterSteps

-----------------------------------------------------------------------------
(* Holds                                                                     *)

\* The last look finds every hold of an agent of the same resources.
LEMMA RecheckLooks ==
    ASSUME ArbiterInv, NEW w \in Hands, Recheck(w), hand'[w].pc = "reserve",
           NEW b \in Pilots, Conflicts(hand[w].agent, b)
    PROVE  manual[b] <= now
<1> DEFINE a == hand[w].agent
<1>0. ArbiterTypeOK /\ HandOK(hand[w]) /\ hand[w].pc = "recheck"
  BY DEF ArbiterInv, Recheck
<1>1. a \in Pilots
  BY <1>0, AgentsAct
<1>2. ~ Unwind(w)
  BY <1>0, UnwindKeepsTypes, IdleHands
<1>3. hold' = Overheard(a) /\ ~ Masked(a, hand[w].t0, hold')
  BY <1>2 DEF Recheck, Heard
<1>4. PICK k \in keys[a] : k \in Resources
  BY <1>0, <1>1, DeviceIsNeeded
<1>5. /\ hand[w].t0 <= now /\ hand[w].t0 \in Nat /\ now \in Nat /\ manual[b] \in Nat
      /\ Overheard(a)[k] \in Nat
  BY <1>0, <1>1, <1>4, OverheardCovers DEF HandOK, ArbiterTypeOK, Errands
<1>6. ~ (Overheard(a)[k] > hand[w].t0)
  BY <1>3 DEF Masked
<1>7. Conflicts(b, a)
  BY DEF Conflicts
<1>8. manual[b] > now => Overheard(a)[k] >= manual[b]
  BY <1>0, <1>1, <1>4, <1>7, OverheardCovers
<1> QED BY <1>5, <1>6, <1>8

LEMMA HoldsKept ==
    ASSUME ArbiterInv, [ArbiterNext]_arbiterVars
    PROVE  LookHolds' /\ HoldsBindSiblings'
<1>0. /\ ArbiterTypeOK /\ LookHolds /\ HoldsBindSiblings
      /\ now \in Nat /\ \A b \in Pilots : manual[b] \in Nat
      /\ \A v \in Hands : hand[v].sent \in Nat /\ HandOK(hand[v])
  BY DEF ArbiterInv, ArbiterTypeOK, Errands
<1>1. ASSUME NEW w \in Hands, HandStep(w)
      PROVE  LookHolds' /\ HoldsBindSiblings'
  <2> DEFINE a == hand[w].agent
  <2>1. HandStepEffect(w)
    BY <1>1, HandStepsWork
  <2>2. /\ a \in Pilots /\ keys' = keys /\ now' = now
        /\ \A v \in Hands \ {w} : hand'[v] = hand[v]
    BY <2>1 DEF HandStepEffect
  <2>3. \A b \in Pilots : manual'[b] \in {manual[b], 0}
    <3>1. CASE manual' = manual
      BY <3>1
    <3>2. CASE CommitControl(w)
      BY <1>0, <3>2 DEF CommitControl, ArbiterTypeOK
    <3> QED BY <1>1, <3>1, <3>2, ControlChanges
  <2>4. \A b \in Pilots : manual'[b] <= manual[b] /\ manual'[b] \in Nat
    BY <1>0, <2>3
  <2>5. ASSUME NEW v \in Hands \ {w}, NEW b \in Pilots
        PROVE  /\ /\ hand'[v].pc = "reserve" /\ Conflicts(hand'[v].agent, b)
                  /\ b \notin hand'[v].deaf
                  => manual'[b] <= now
               /\ /\ hand'[v].pc = "service" /\ b # hand'[v].agent
                  /\ b \notin hand'[v].deaf /\ hand'[v].keys \cap keys[b] # {}
                  => manual'[b] <= hand'[v].sent
    BY <1>0, <2>2, <2>4 DEF LookHolds, HoldsBindSiblings
  <2>6. ASSUME NEW b \in Pilots, hand'[w].pc = "reserve", Conflicts(hand'[w].agent, b),
               b \notin hand'[w].deaf
        PROVE  manual'[b] <= now
    <3>1. Recheck(w) /\ hand'[w].agent = a
      BY <1>0, <2>1, <2>6, IdleHands DEF HandStepEffect, Proceeds, SameRequest
    <3>2. manual[b] <= now
      BY <2>6, <3>1, RecheckLooks
    <3> QED BY <1>0, <2>4, <3>2
  <2>7. ASSUME NEW b \in Pilots, hand'[w].pc = "service", b # hand'[w].agent,
               b \notin hand'[w].deaf, hand'[w].keys \cap keys[b] # {}
        PROVE  manual'[b] <= hand'[w].sent
    <3>1. Reserve(w)
      BY <2>1, <2>7 DEF HandStepEffect
    <3>2. Move(w, ToService(w)) /\ hand[w].pc = "reserve"
      <4>1. ~ Unwind(w)
        BY <1>0, <2>7, UnwindKeepsTypes, IdleHands
      <4> QED BY <3>1, <4>1 DEF Reserve, ToService
    <3>3. /\ ToService(w).agent = a /\ ToService(w).deaf = hand[w].deaf
          /\ ToService(w).keys = keys[a] /\ ToService(w).sent = now
          /\ ToService(w) \in Errands
      BY <1>0, <2>2, ErrandsGoOn DEF SameRequest
    <3>4. hand'[w] = ToService(w)
      BY <1>0, <3>2, <3>3, MoveKeepsTypes
    <3>5. Conflicts(a, b)
      BY <2>7, <3>3, <3>4 DEF Conflicts
    <3>6. manual[b] <= now
      BY <1>0, <2>7, <3>2, <3>3, <3>4, <3>5 DEF LookHolds
    <3> QED BY <1>0, <2>4, <3>3, <3>4, <3>6
  <2>8. LookHolds'
    BY <2>2, <2>5, <2>6 DEF LookHolds, Conflicts
  <2>9. HoldsBindSiblings'
    BY <2>2, <2>5, <2>7 DEF HoldsBindSiblings
  <2> QED BY <2>8, <2>9
<1>2. ASSUME NEW w \in Hands, NEW a \in Pilots, NEW kind \in ErrandKinds, Begins(w, a, kind)
      PROVE  LookHolds' /\ HoldsBindSiblings'
  <2>1. /\ hand'[w].pc = "enter" /\ UNCHANGED <<now, keys, manual>>
        /\ \A v \in Hands \ {w} : hand'[v] = hand[v]
    BY <1>2, BeginEffect
  <2> QED BY <1>0, <2>1 DEF LookHolds, HoldsBindSiblings, Conflicts
<1>3. CASE ThreadsRest
  <2>1. UNCHANGED <<hand, keys, manual>> /\ now' \in Nat /\ now <= now'
    BY <1>3 DEF ThreadsRest
  <2> QED BY <1>0, <2>1 DEF LookHolds, HoldsBindSiblings, Conflicts
<1>4. ASSUME NEW a \in Pilots, UserHold(a)
      PROVE  LookHolds' /\ HoldsBindSiblings'
  <2>1. /\ Unheard({a}) /\ {a} \in SUBSET Pilots /\ UNCHANGED <<now, keys>>
        /\ manual' = [manual EXCEPT ![a] = now + HoldFor]
    BY <1>4, HoldsAndUpdates
  <2>2. \A b \in Pilots \ {a} : manual'[b] = manual[b]
    BY <1>0, <2>1 DEF ArbiterTypeOK
  <2>3. \A v \in Hands :
          /\ hand'[v].agent = hand[v].agent /\ hand'[v].pc = hand[v].pc
          /\ hand'[v].keys = hand[v].keys /\ hand'[v].sent = hand[v].sent
          /\ hand[v].deaf \subseteq hand'[v].deaf
          /\ hand[v].pc \in {"reserve", "service"} => a \in hand'[v].deaf
    BY <2>1, UnheardEffect
  <2>4. LookHolds'
    BY <1>0, <2>1, <2>2, <2>3 DEF LookHolds, Conflicts
  <2>5. HoldsBindSiblings'
    BY <1>0, <2>1, <2>2, <2>3 DEF HoldsBindSiblings
  <2> QED BY <2>4, <2>5
<1>5. ASSUME NEW l \in Layouts, RegistryUpdate(l)
      PROVE  LookHolds' /\ HoldsBindSiblings'
  <2>1. Unheard(Pilots) /\ Pilots \in SUBSET Pilots
    BY <1>5, HoldsAndUpdates
  <2>2. \A v \in Hands :
          /\ hand'[v].pc = hand[v].pc
          /\ hand[v].pc \in {"reserve", "service"} => Pilots \subseteq hand'[v].deaf
    BY <2>1, UnheardEffect
  <2> QED BY <2>2 DEF LookHolds, HoldsBindSiblings
<1>6. CASE Restart
  BY <1>0, <1>6, RestartEffect, IdleHands DEF LookHolds, HoldsBindSiblings
<1> QED BY <1>1, <1>2, <1>3, <1>4, <1>5, <1>6, ArbiterSteps

-----------------------------------------------------------------------------
(* The invariant and what follows from it                                    *)

LEMMA ArbiterStarts == ArbiterInit => ArbiterInv
<1> SUFFICES ASSUME ArbiterInit PROVE ArbiterInv
  OBVIOUS
<1>1. ArbiterTypeOK
  <2>1. now \in 0 .. MaxNow /\ keys \in Layouts /\ intents \in 0 .. MaxEvents
        /\ events \in 0 .. MaxEvents
    BY ArbiterAssumption DEF ArbiterInit, ArbiterAssumption
  <2>2. /\ lease \in [Resources -> Leases] /\ last \in [Resources -> Dispatches]
        /\ hand \in [Hands -> Errands] /\ sweep \in Sweeps
    BY Blanks DEF ArbiterInit
  <2> QED BY <2>1, <2>2 DEF ArbiterInit, ArbiterTypeOK
<1>2. \A w \in Hands : hand[w] = Resting
  BY DEF ArbiterInit
<1>3. \A w \in Hands : HandOK(hand[w])
  BY <1>1, <1>2, IdleHands DEF HandOK, ArbiterInit
<1>4. IntentsDiffer /\ IntentsCounted /\ Reserved /\ EntryHeld /\ ClaimStands /\ LookHolds
  BY <1>1, <1>2, IdleHands
  DEF ArbiterInit, IntentsDiffer, IntentsCounted, Reserved, EntryHeld, ClaimStands,
      LookHolds, Entering
<1>5. SharedControlIsExplained /\ HoldsBindSiblings
  BY <1>1, <1>2, IdleHands DEF ArbiterInit, SharedControlIsExplained, HoldsBindSiblings
<1> QED BY <1>1, <1>3, <1>4, <1>5 DEF ArbiterInv

\* The invariant holds in every state, for any agents, resources and threads.
THEOREM ArbiterInvariant == ArbiterSpec => []ArbiterInv
<1>1. ArbiterInv /\ [ArbiterNext]_arbiterVars => ArbiterInv'
  <2> SUFFICES ASSUME ArbiterInv, [ArbiterNext]_arbiterVars PROVE ArbiterInv'
    OBVIOUS
  <2>1. ArbiterTypeOK' /\ \A w \in Hands : HandOK(hand[w])'
    BY TypesKept, HandsKept
  <2>2. IntentsDiffer' /\ IntentsCounted' /\ Reserved' /\ EntryHeld' /\ ClaimStands'
    BY IntentsKept, ReservedKept, EntryKept, ClaimsKept
  <2>3. LookHolds' /\ HoldsBindSiblings' /\ SharedControlIsExplained'
    BY HoldsKept, SharingKept
  <2> QED BY <2>1, <2>2, <2>3 DEF ArbiterInv
<1> QED BY <1>1, ArbiterStarts, PTL DEF ArbiterSpec

\* The variables keep their types.
THEOREM ArbiterTyped == ArbiterSpec => []ArbiterTypeOK
<1>1. ArbiterInv => ArbiterTypeOK
  BY DEF ArbiterInv
<1> QED BY <1>1, ArbiterInvariant, PTL

\* Service calls under way at once share no resource unless one has outlived its
\* reservation: two reservations of one resource carry different intents, and
\* the row of the resource has room for one.
THEOREM DispatchesNeverMeet == ArbiterSpec => []DispatchesAreDisjoint
<1>1. ArbiterInv => DispatchesAreDisjoint
  <2> SUFFICES ASSUME ArbiterInv, NEW v \in Hands, NEW w \in Hands, v # w,
                      hand[v].pc = "service", hand[w].pc = "service",
                      hand[v].keys \cap hand[w].keys # {}
               PROVE  hand[v].until <= now \/ hand[w].until <= now
    BY DEF DispatchesAreDisjoint
  <2>1. hand[v].kind = "submit" /\ hand[w].kind = "submit"
    BY DEF ArbiterInv, HandOK
  <2>2. hand[v].intent # hand[w].intent
    BY <2>1 DEF ArbiterInv, IntentsDiffer
  <2>3. PICK k \in hand[v].keys : k \in hand[w].keys
    OBVIOUS
  <2> QED BY <2>2, <2>3 DEF ArbiterInv, Reserved
<1> QED BY <1>1, ArbiterInvariant, PTL

\* Two agents of one resource are in Control together only with an explanation.
THEOREM ControlIsExclusive == ArbiterSpec => []SharedControlIsExplained
<1>1. ArbiterInv => SharedControlIsExplained
  BY DEF ArbiterInv
<1> QED BY <1>1, ArbiterInvariant, PTL

\* No command goes out under a hold of a sibling that the last look could see.
THEOREM SiblingsAreHeard == ArbiterSpec => []HoldsBindSiblings
<1>1. ArbiterInv => HoldsBindSiblings
  BY DEF ArbiterInv
<1> QED BY <1>1, ArbiterInvariant, PTL
=============================================================================
