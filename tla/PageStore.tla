---- MODULE PageStore ----
(***************************************************************************)
(* What a write-back page cache promises in front of a page file: `content`*)
(* is the image callers see of each page and changes only when they change *)
(* it; `stored` is the image in the file and only ever takes the content.  *)
(* Closing in order stores everything.  One page can be harmed, and writes *)
(* can be lost on closing, only by an operation that reports a fault.      *)
(***************************************************************************)
EXTENDS Naturals, FiniteSets

CONSTANTS
    MaxPages,      \* bound: pages in the file
    Images,        \* page images
    Blank,         \* the image of a page just allocated
    Garbled        \* bytes that do not decode

VARIABLES
    size,          \* pages allocated
    content,       \* the image callers see of each page
    stored,        \* the image of each page in the file
    faults         \* errors reported so far

storeVars == <<size, content, stored, faults>>

PageIds == 0 .. MaxPages - 1

PageImages == Images \cup {Blank, Garbled}

Init ==
    /\ size = 0
    /\ content = [p \in PageIds |-> Blank]
    /\ stored = content
    /\ faults = 0

\* A new page is blank, in the file as well.
Grow ==
    /\ size \in PageIds
    /\ size' = size + 1
    /\ content' = [content EXCEPT ![size] = Blank]
    /\ stored' \in [PageIds -> PageImages]
    /\ stored'[size] = Blank
    /\ \A p \in PageIds \ {size} : stored'[p] \in {stored[p], content[p]}
    /\ UNCHANGED faults

\* A caller changes one page; pages may be stored on the way.
Change(p, image) ==
    /\ p < size
    /\ content' = [content EXCEPT ![p] = image]
    /\ stored' \in [PageIds -> PageImages]
    /\ \A q \in PageIds : stored'[q] \in {stored[q], content[q]}
    /\ UNCHANGED <<size, faults>>

\* Any operation may store pages, as they are.
Store ==
    /\ stored' \in [PageIds -> PageImages]
    /\ \A q \in PageIds : stored'[q] \in {stored[q], content[q]}
    /\ UNCHANGED <<size, content, faults>>

Close == stored' = content /\ UNCHANGED <<size, content, faults>>

\* The process ends without closing: what was not stored is gone.
Abandon == content' = stored /\ UNCHANGED <<size, stored, faults>>

\* An operation reports an error: at most one page is harmed (a new one counts),
\* and its content may fall back on what is stored.  Everything not stored is
\* lost if the failing operation was the closing one.
Fault ==
    /\ faults' = faults + 1
    /\ size' \in {size, size + 1}
    /\ \E harmed \in {{}} \cup {{p} : p \in PageIds} :
          /\ size' # size => harmed = {size}
          /\ stored' \in [PageIds -> PageImages]
          /\ \A q \in PageIds \ harmed : stored'[q] \in {stored[q], content[q]}
          /\ content' \in {content, stored',
                           [p \in PageIds |-> IF p \in harmed THEN stored'[p] ELSE content[p]]}

Next ==
    \/ Grow
    \/ \E p \in PageIds, image \in Images \cup {Blank} : Change(p, image)
    \/ Store
    \/ Close
    \/ Abandon
    \/ Fault

Spec == Init /\ [][Next]_storeVars
====
