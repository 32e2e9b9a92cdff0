--------------------------- MODULE SharedOwnership ---------------------------
(***************************************************************************)
(* What intrusive reference counting promises: an object lives while it    *)
(* has an owner, new owners only arise while there is one, and once the    *)
(* last owner is gone the object is destroyed, once.                       *)
(***************************************************************************)
CONSTANT Owner

VARIABLES owners, alive

Init == alive = TRUE /\ \E x \in Owner : owners = {x}

\* An existing owner creates another one, possibly ceding its own claim.
Share(x, y) ==
  /\ x \in owners /\ y \notin owners
  /\ \/ owners' = owners \cup {y}
     \/ owners' = (owners \ {x}) \cup {y}
  /\ UNCHANGED alive

Release(x) ==
  /\ x \in owners
  /\ owners' = owners \ {x}
  /\ UNCHANGED alive

Destroy ==
  /\ alive /\ owners = {}
  /\ alive' = FALSE
  /\ UNCHANGED owners

Next ==
  \/ \E x, y \in Owner : Share(x, y)
  \/ \E x \in Owner : Release(x)
  \/ Destroy

Spec == Init /\ [][Next]_<<owners, alive>> /\ WF_<<owners, alive>>(Destroy)
=============================================================================
