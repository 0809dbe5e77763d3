---------------------------- MODULE MCSupervisor ----------------------------
(* Two services of the catalog, the second one depending on the first.      *)
EXTENDS Supervisor

MCServices == {1, 2}
MCDeps == [s \in MCServices |-> IF s = 2 THEN {1} ELSE {}]
=============================================================================
