-------------------------- MODULE MCSensorControl --------------------------
(***************************************************************************)
(* SensorControl for TLC.  Its state is finite without bounds.             *)
(***************************************************************************)
EXTENDS SensorControl
=============================================================================
