---- MODULE MCIndexedBackend ----
(* Small instances of IndexedBackend for TLC: two ordinary keys, and the two     *)
(* floating-point zeros, of which a query writes the positive one as a literal.  *)
EXTENDS IndexedBackend

CONSTANTS c1, ka, kb, posZero, negZero

OneCollection == {c1}
TwoKeys == {ka, kb}
TwoIds == {1, 2}
Zeros == {posZero, negZero}
PositiveZero == {posZero}
EqualZeros == {<<posZero, negZero>>, <<negZero, posZero>>}
====
