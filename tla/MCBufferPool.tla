---- MODULE MCBufferPool ----
(* A small instance of BufferPool for TLC. *)
EXTENDS BufferPool

CONSTANTS imgA, imgB

MCImages == {imgA, imgB}
====
