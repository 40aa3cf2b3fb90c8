-------------------------- MODULE MCBleDialogflow --------------------------
(* What atoi makes of an announcement for TLC: a negative number, nothing, *)
(* and more than is sent.                                                  *)
EXTENDS BleDialogflow

MCGarbled == {-5, 0, 20}
=============================================================================
