---------------------------- MODULE MCSettingsSfcb --------------------------
(* Small instances of the settings backend for TLC.                        *)
EXTENDS SettingsSfcb, TLC

CONSTANTS nameA, nameB, v1, v2

Symmetry == Permutations(Names) \cup Permutations(Values)
=============================================================================
