---------------------------- MODULE MCSettingsSync ----------------------------
(* Small instances of SettingsSync for TLC. *)
EXTENDS SettingsSync
=============================================================================
