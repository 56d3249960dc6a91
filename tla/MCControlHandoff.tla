-------------------------- MODULE MCControlHandoff --------------------------
(* Small instances of ControlHandoff: one target with two agents and two     *)
(* automations.                                                              *)
EXTENDS ControlHandoff

CONSTANTS a1, a2, t1, t2, x1, x2

OneTarget == [a \in Agents |-> t1]
OneKnown  == [t \in Targets |-> Autos]
=============================================================================
