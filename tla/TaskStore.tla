----------------------------- MODULE TaskStore -----------------------------
(***************************************************************************)
(* What every task server promises, whatever its style: a task gets the    *)
(* next number, which no other task ever had or will have; only tasks that *)
(* are there are changed or removed, one at a time; and a change is a task *)
(* again, with a title that is not blank.                                  *)
(***************************************************************************)
EXTENDS Naturals

CONSTANT Content  \* what a task may hold beside its id

VARIABLES
    held,    \* the tasks, by id
    created  \* how many tasks there ever were

vars == <<held, created>>

Init == held = <<>> /\ created = 0

Create(content) ==
    /\ created' = created + 1
    /\ held' = [i \in DOMAIN held \cup {created'} |->
                  IF i = created' THEN content ELSE held[i]]

Change(id, content) ==
    /\ held' = [held EXCEPT ![id] = content]
    /\ UNCHANGED created

Remove(id) ==
    /\ held' = [i \in DOMAIN held \ {id} |-> held[i]]
    /\ UNCHANGED created

Next ==
    \/ \E content \in Content : Create(content)
    \/ \E id \in DOMAIN held :
         Remove(id) \/ \E content \in Content : Change(id, content)

Spec == Init /\ [][Next]_vars

=============================================================================
