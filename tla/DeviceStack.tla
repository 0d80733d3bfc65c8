---------------------------- MODULE DeviceStack ----------------------------
(***************************************************************************)
(* What provisioning promises, without commands, nodes' options or the     *)
(* order of a plan: live resources are brought up one at a time, each on   *)
(* resources that are up; the work ends with everything that was asked for *)
(* up, or is undone from the top down until nothing is left; after that it *)
(* may be tried again.                                                     *)
(***************************************************************************)
VARIABLES
  needs,     \* needs[r]: the resources r is built from
  inside,    \* inside[r]: what r keeps in use while it is up
  required,  \* the resources a complete stack must have
  held,      \* the resources that are up
  mode

stackVars == <<needs, inside, required, held, mode>>

StackInit ==
  /\ inside \in [DOMAIN needs -> SUBSET DOMAIN needs]
  /\ required \subseteq DOMAIN needs
  /\ held = {}
  /\ mode = "building"

Acquire(r) ==
  /\ mode = "building" /\ r \notin held
  /\ needs[r] \subseteq held
  /\ held' = held \cup {r}
  /\ UNCHANGED <<needs, inside, required, mode>>

Complete ==
  /\ mode = "building" /\ required \subseteq held
  /\ mode' = "complete"
  /\ UNCHANGED <<needs, inside, required, held>>

GiveUp ==
  /\ mode = "building"
  /\ mode' = "undoing"
  /\ UNCHANGED <<needs, inside, required, held>>

(* Nothing is taken from under a resource that stays. *)
Release(S) ==
  /\ mode = "undoing" /\ S # {}
  /\ \A r \in held \ S : inside[r] \cap S = {}
  /\ held' = held \ S
  /\ UNCHANGED <<needs, inside, required, mode>>

RolledBack ==
  /\ mode \in {"building", "undoing"} /\ held = {}
  /\ mode' = "rolledback"
  /\ UNCHANGED <<needs, inside, required, held>>

TryAgain ==
  /\ mode = "rolledback"
  /\ mode' = "building"
  /\ UNCHANGED <<needs, inside, required, held>>

StackNext ==
  \/ \E r \in DOMAIN needs : Acquire(r)
  \/ Complete \/ GiveUp
  \/ \E S \in SUBSET held : Release(S)
  \/ RolledBack \/ TryAgain

StackSafety == StackInit /\ [][StackNext]_stackVars

(* Provisioning does not stop half way. *)
StackSettles == []<>(mode \in {"complete", "rolledback"})
=============================================================================
