---------------------------- MODULE MCSettingsFile ----------------------------
(***************************************************************************)
(* SettingsFile with the defaults and two other settings, and at most      *)
(* three faults of two kinds in the life of the disk.                      *)
(***************************************************************************)
EXTENDS SettingsFile
=============================================================================
