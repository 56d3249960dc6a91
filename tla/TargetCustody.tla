--------------------------- MODULE TargetCustody ---------------------------
(***************************************************************************)
(* What the hand-over promises its users.  A target has at most one        *)
(* custodian, an agent bound to it; custody never passes from one agent to *)
(* another without the target being free in between; and nobody takes      *)
(* custody or goes into Control while another agent of the target is in    *)
(* Control.  One door is open: an agent disabled while in Control is       *)
(* parked, and comes back into Control unasked when it is enabled again.   *)
(***************************************************************************)
CONSTANTS Agents, Targets, TargetOf, None

VARIABLES
    owner,    \* target -> its custodian, or None
    engaged,  \* the agents in Control
    parked    \* the agents disabled while in Control

Rivals(a) == {b \in Agents \ {a} : TargetOf[b] = TargetOf[a]}

Init ==
    /\ owner = [t \in Targets |-> None]
    /\ engaged = {}
    /\ parked = {}

Take(a) ==
    /\ owner[TargetOf[a]] = None
    /\ Rivals(a) \cap engaged = {}
    /\ owner' = [owner EXCEPT ![TargetOf[a]] = a]
    /\ UNCHANGED <<engaged, parked>>

Drop(t) ==
    /\ owner[t] # None
    /\ owner' = [owner EXCEPT ![t] = None]
    /\ UNCHANGED <<engaged, parked>>

Engage(a) ==
    /\ Rivals(a) \cap engaged = {}
    /\ engaged' = engaged \cup {a}
    /\ parked' = parked \ {a}
    /\ UNCHANGED owner

Disengage(a) ==
    /\ engaged' = engaged \ {a}
    /\ parked' = parked \ {a}
    /\ UNCHANGED owner

Park(a) ==
    /\ a \in engaged
    /\ engaged' = engaged \ {a}
    /\ parked' = parked \cup {a}
    /\ UNCHANGED owner

Return(a) ==
    /\ a \in parked
    /\ engaged' = engaged \cup {a}
    /\ parked' = parked \ {a}
    /\ UNCHANGED owner

Next ==
    \/ \E a \in Agents :
          Take(a) \/ Engage(a) \/ Disengage(a) \/ Park(a) \/ Return(a)
    \/ \E t \in Targets : Drop(t)

Spec == Init /\ [][Next]_<<owner, engaged, parked>>
=============================================================================
