---- MODULE MCBPlusTree ----
(* A small instance of BPlusTree for TLC: one id per key and a second one under  *)
(* key 4, where 3 and 4 may be removed, which empties a leaf when they share it. *)
EXTENDS BPlusTree

OneIdPerKey == {<<key, 1>> : key \in Keys} \cup {<<4, 2>>}
ThreeAndFour == {<<3, 1>>, <<4, 1>>, <<4, 2>>}
====
