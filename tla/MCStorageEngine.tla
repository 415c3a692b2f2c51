---- MODULE MCStorageEngine ----
(* A small instance of StorageEngine for TLC: pages of twelve bytes for two small *)
(* documents or one large one, two documents with one id, and the empty record.   *)
EXTENDS StorageEngine, TLC

CONSTANTS small, other, large, twin, empty

FourDocuments == {small, other, large, twin}
AllRecords == FourDocuments \cup {empty}
TheirLengths == small :> 3 @@ other :> 2 @@ large :> 8 @@ twin :> 4 @@ empty :> 0
TheirIds == small :> 1 @@ other :> 2 @@ large :> 3 @@ twin :> 1
====
