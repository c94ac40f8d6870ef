---------------------------- MODULE InstancePool ----------------------------
(***************************************************************************)
(* What the instance registry promises its callers, without its mutex, its *)
(* counter or its worker processes: a pool of at most Capacity slots.  A   *)
(* slot is reserved before the worker is started, becomes live when the    *)
(* instance is listed, and is given back when the start fails or when the  *)
(* instance is destroyed.  InstanceManager implements this specification.  *)
(***************************************************************************)
EXTENDS Naturals, FiniteSets

CONSTANTS Ids,       \* the instance ids that may ever be created
          Capacity   \* max_instances

VARIABLES reserved,  \* ids that own a slot and are not listed yet
          live       \* ids that are listed

poolVars == <<reserved, live>>

Init == reserved = {} /\ live = {}

Reserve(i) ==
  /\ i \notin reserved \cup live
  /\ Cardinality(reserved \cup live) < Capacity
  /\ reserved' = reserved \cup {i}
  /\ UNCHANGED live

Commit(i) ==
  /\ i \in reserved
  /\ reserved' = reserved \ {i}
  /\ live' = live \cup {i}

Cancel(i) ==
  /\ i \in reserved
  /\ reserved' = reserved \ {i}
  /\ UNCHANGED live

\* One destroyed instance, or all of them at once (reconstruct).
Free(S) ==
  /\ live' = live \ S
  /\ UNCHANGED reserved

Next ==
  \/ \E i \in Ids : Reserve(i) \/ Commit(i) \/ Cancel(i)
  \/ \E S \in SUBSET Ids : Free(S)

Spec == Init /\ [][Next]_poolVars
=============================================================================
