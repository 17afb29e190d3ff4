---------------------------- MODULE MCSimulators ----------------------------
(* An instance of the simulators for TLC. *)
EXTENDS Simulators

Quanta == <<1, 1, 1>>
=============================================================================
