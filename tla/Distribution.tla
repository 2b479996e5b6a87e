---------------------------- MODULE Distribution ----------------------------
(***************************************************************************)
(* What the coordinator promises its workers, whatever the hooks and       *)
(* databags it takes: one source, which is replaced as a whole; members    *)
(* that come and go; and copies, each of which is empty or replaced by the *)
(* whole of what the source has at that moment.  No member makes up a      *)
(* configuration of its own, mixes two, copies that of another member, or  *)
(* takes one that has been replaced.                                       *)
(***************************************************************************)
CONSTANTS
    Readers,   \* who may be a member
    Values,    \* what may be distributed
    Nothing    \* no value yet; not one of Values

VARIABLES
    source,    \* the value to distribute
    members,   \* the readers there are
    copies     \* copies[r]: what r has

vars == <<source, members, copies>>

Init ==
    /\ source = Nothing
    /\ members \in SUBSET Readers
    /\ copies = [r \in Readers |-> Nothing]

Publish ==
    /\ source' \in Values
    /\ UNCHANGED <<members, copies>>

Fetch(r) ==
    /\ r \in members
    /\ source # Nothing
    /\ copies' = [copies EXCEPT ![r] = source]
    /\ UNCHANGED <<source, members>>

Join(r) ==
    /\ members' = members \cup {r}
    /\ UNCHANGED <<source, copies>>

Leave(r) ==
    /\ r \in members
    /\ members' = members \ {r}
    /\ copies' = [copies EXCEPT ![r] = Nothing]
    /\ UNCHANGED source

Next == Publish \/ \E r \in Readers : Fetch(r) \/ Join(r) \/ Leave(r)

Spec == Init /\ [][Next]_vars

=============================================================================
