---- MODULE MCRecovery ----
(* A small instance of Recovery for TLC. *)
EXTENDS Recovery, TLC

CONSTANTS imgA, imgB

MCPages == {0, 1}
MCImages == {imgA, imgB}
MCLoggedWrites == {<<1, 1, imgA>>, <<2, 1, imgB>>}
====
