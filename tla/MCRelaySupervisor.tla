-------------------------- MODULE MCRelaySupervisor --------------------------
(* Instances of RelaySupervisor for TLC: all targets have the same name. *)
EXTENDS RelaySupervisor

CONSTANTS t1, t2, n1

MCTarget == {t1, t2}
MCNameOf == [t \in Target |-> n1]
=============================================================================
