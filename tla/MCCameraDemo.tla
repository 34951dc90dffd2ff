---------------------------- MODULE MCCameraDemo ----------------------------
(***************************************************************************)
(* Small instances of CameraDemo: enough cameras for two resumes and two   *)
(* switches, the first recorder and two recordings, two faults, and three  *)
(* waiting messages; for CameraPause.cfg, the least that a click on Switch *)
(* behind a pause needs.                                                   *)
(***************************************************************************)
EXTENDS CameraDemo

=============================================================================
