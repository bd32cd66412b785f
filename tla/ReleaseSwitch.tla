--------------------------- MODULE ReleaseSwitch ---------------------------
(***************************************************************************)
(* What a release command promises: it switches to another release in one  *)
(* step, or changes nothing.                                               *)
(***************************************************************************)
EXTENDS Naturals

CONSTANTS
    Releases,   \* release directories
    Legacy,     \* the one that was deployed before there were manifests
    MaxStamp    \* bound: state files written

VARIABLES
    current,    \* the release in service
    previous,   \* the one a rollback goes to, or "none"
    record      \* deployment-state.json of every release, or NoRecord

NoRecord == [previous |-> "none", stamp |-> 0]

Init ==
    /\ current = Legacy
    /\ previous = "none"
    /\ record = [r \in Releases |-> NoRecord]

(* The release gets a state file that names the one it replaces.           *)
Switch(target) ==
    /\ target \notin {current, Legacy}
    /\ current' = target
    /\ previous' = current
    /\ \E stamp \in 1 .. MaxStamp :
          record' = [record EXCEPT ![target] = [previous |-> current, stamp |-> stamp]]

Next == \E target \in Releases : Switch(target)

vars == <<current, previous, record>>
Spec == Init /\ [][Next]_vars

=============================================================================
