------------------------------- MODULE Corpus -------------------------------
(***************************************************************************)
(* What the two readers of published content are promised: the page a      *)
(* visitor opens (get_published_by_slug) and the index chat answers from   *)
(* (retrieve) always tell the same story, and what was deleted never comes *)
(* back.  ContentLifecycle implements it when no two requests on an item   *)
(* overlap.                                                                *)
(***************************************************************************)
CONSTANTS Items, Bodies, EmptyBodies, Hidden

VARIABLES
    page,       \* the body the public page shows, or Hidden
    index,      \* the bodies whose chunks are stored for retrieval
    gone        \* the items deleted for good

vars == <<page, index, gone>>

Init == /\ page  = [i \in Items |-> Hidden]
        /\ index = [i \in Items |-> {}]
        /\ gone  = {}

\* Publishing an item, or editing a published one, changes both at once.
Show(i, b) ==
    /\ i \notin gone
    /\ page'  = [page EXCEPT ![i] = b]
    /\ index' = [index EXCEPT ![i] = {b} \ EmptyBodies]
    /\ UNCHANGED gone

Hide(i) ==
    /\ page'  = [page EXCEPT ![i] = Hidden]
    /\ index' = [index EXCEPT ![i] = {}]
    /\ UNCHANGED gone

Remove(i) ==
    /\ page'  = [page EXCEPT ![i] = Hidden]
    /\ index' = [index EXCEPT ![i] = {}]
    /\ gone'  = gone \cup {i}

Next == \E i \in Items : Hide(i) \/ Remove(i) \/ \E b \in Bodies : Show(i, b)

Spec == Init /\ [][Next]_vars
=============================================================================
