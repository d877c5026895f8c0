-------------------------- MODULE EnrolledFingers ---------------------------
(***************************************************************************)
(* What the finger database promises the framework, whatever threads and   *)
(* crashes are behind it: for each group, which template is enrolled under *)
(* which finger id.  A template is added under a free id, and once it has  *)
(* been removed it is retired for good; nothing else ever changes it.      *)
(***************************************************************************)
EXTENDS Integers

CONSTANTS Groups, Ids, Templates, None

VARIABLES enrolled,   \* enrolled[g][id]: a template, or None
          retired     \* templates reported as removed

Init == /\ enrolled = [g \in Groups |-> [id \in Ids |-> None]]
        /\ retired = {}

Add(g, id, t) ==
    /\ enrolled[g][id] = None
    /\ t \notin retired
    /\ enrolled' = [enrolled EXCEPT ![g][id] = t]
    /\ UNCHANGED retired

Remove(g, id) ==
    /\ enrolled[g][id] # None
    /\ retired' = retired \cup {enrolled[g][id]}
    /\ enrolled' = [enrolled EXCEPT ![g][id] = None]

Next == \E g \in Groups, id \in Ids :
            Remove(g, id) \/ \E t \in Templates : Add(g, id, t)

Spec == Init /\ [][Next]_<<enrolled, retired>>

=============================================================================
