-------------------------- MODULE ReleaseOwnership --------------------------
(* What a HelmRelease promises about Helm releases, whatever its target is   *)
(* changed to and whenever it is deleted: it has at most one release at a    *)
(* time, makes none when it is gone, and takes its release with it.          *)
(* Releases the object cannot know of, or gave up, are excused.              *)
CONSTANT Targets
VARIABLES phase, installed, excused

vars == <<phase, installed, excused>>

Owned == installed \ excused

Init == phase = "live" /\ installed = {} /\ excused = {}

\* The only owned release is the one that is installed or upgraded.
Install(t) ==
  /\ phase # "gone"
  /\ Owned \subseteq {t}
  /\ installed' = installed \cup {t}
  /\ UNCHANGED <<phase, excused>>

Remove(t) ==
  /\ installed' = installed \ {t}
  /\ UNCHANGED <<phase, excused>>

Delete ==
  /\ phase = "live" /\ phase' = "deleting"
  /\ UNCHANGED <<installed, excused>>

\* The object goes when it owns no release.
Go ==
  /\ phase # "gone" /\ phase' = "gone"
  /\ excused \subseteq excused' /\ excused' \subseteq Targets
  /\ installed \subseteq excused'
  /\ UNCHANGED installed

\* A fault excuses releases; one that is recorded again is owned again, but
\* never a second one, and none once the object is gone.
Excuse ==
  /\ excused' \in SUBSET Targets
  /\ \A t, u \in installed \ excused' : t = u /\ phase # "gone"
  /\ UNCHANGED <<phase, installed>>

Next == \/ \E t \in Targets : Install(t) \/ Remove(t)
        \/ Delete \/ Go \/ Excuse

Spec == Init /\ [][Next]_vars
=============================================================================
