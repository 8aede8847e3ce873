------------------------------ MODULE Mailbox -------------------------------
(***************************************************************************)
(* What the chat owes the person who writes to it.  A question is put in a *)
(* box and at most one reply is put with it; what is in a box stays.  A    *)
(* box is opened by a question of someone who was granted one, and others  *)
(* may write to it once its owner was told of the reply.  PublicChat       *)
(* implements it, whatever fails between its commits.                      *)
(***************************************************************************)
EXTENDS Naturals

CONSTANT People     \* each asks once

VARIABLES
    granted,    \* those who may open a box, which has their name
    boxes,      \* the boxes opened
    letters,    \* the questions and replies in them
    told        \* what each person heard last: "nothing", "done" or "error"

vars == <<granted, boxes, letters, told>>

Init == /\ granted = {} /\ boxes = {} /\ letters = {}
        /\ told = [p \in People |-> "nothing"]

Of(p) == {m \in letters : m.by = p}

Grant(p) ==
    /\ told[p] = "nothing" /\ Of(p) = {}
    /\ granted' = granted \cup {p}
    /\ UNCHANGED <<boxes, letters, told>>

\* A letter may be kept although its writer hears of an error.
Put(p, m) ==
    /\ told[p] = "nothing"
    /\ m.by = p
    /\ letters' = letters \cup {m}
    /\ told' \in {told, [told EXCEPT ![p] = "error"]}

Ask(p) == \E m \in letters' \ letters :
    /\ Of(p) = {} /\ m.role = "user"
    /\ \/ m.session = p /\ p \in granted
       \/ m.session \in boxes /\ told[m.session] = "done"
    /\ boxes' = boxes \cup {m.session}
    /\ Put(p, m)
    /\ UNCHANGED granted

Reply(p) == \E q \in letters, m \in letters' \ letters :
    /\ Of(p) = {q} /\ q.role = "user"
    /\ m.role = "assistant" /\ m.session = q.session /\ q.at < m.at
    /\ Put(p, m)
    /\ UNCHANGED <<granted, boxes>>

Tell(p) ==
    /\ told[p] = "nothing"
    /\ \/ told' = [told EXCEPT ![p] = "error"]
       \/ /\ \E r \in Of(p) : r.role = "assistant"
          /\ told' = [told EXCEPT ![p] = "done"]
    /\ UNCHANGED <<granted, boxes, letters>>

Next == \E p \in People : Grant(p) \/ Ask(p) \/ Reply(p) \/ Tell(p)

Spec == Init /\ [][Next]_vars
=============================================================================
