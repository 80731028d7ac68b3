----------------------------- MODULE VCSAbstract -----------------------------
(***************************************************************************)
(* What the semantic VCS (spec section 4.C) promises for one entity key,   *)
(* here the workspace key that commit_workspace writes.  Every branch has  *)
(* a lineage: the payloads committed on it, oldest first, whose last       *)
(* element is the branch head.  The version mapping sends a semantic       *)
(* version on a branch to one payload of that branch's lineage.            *)
(*                                                                         *)
(* A commit appends some payload to one branch; a version is mapped to     *)
(* the payload at the head of its branch, committed at that version.       *)
(* Nothing is ever removed or rewritten: a lineage only grows at its end.  *)
(***************************************************************************)
EXTENDS Naturals, Sequences

CONSTANTS
  Branches,   \* branch names
  SemVers,    \* semantic versions <<api, inc>> the mapping may hold
  Absent,     \* model value: no version mapping entry
  VerOf(_)    \* the semantic version a payload was committed at

VARIABLES
  lineage,    \* [Branches -> Seq(payload)]
  vmap        \* [SemVers \X Branches -> payload or Absent]

avars == <<lineage, vmap>>

Init ==
  /\ lineage = [b \in Branches |-> <<>>]
  /\ vmap = [vb \in SemVers \X Branches |-> Absent]

(* A commit on branch b: the new lineage of b is the old one followed by  *)
(* one more payload; every other branch and the mapping stay as they are. *)
Commit(b) ==
  /\ Len(lineage'[b]) = Len(lineage[b]) + 1
  /\ SubSeq(lineage'[b], 1, Len(lineage[b])) = lineage[b]
  /\ \A c \in Branches \ {b} : lineage'[c] = lineage[c]
  /\ UNCHANGED vmap

(* Recording version v on branch b: it now names the head of b, which   *)
(* was committed at version v.                                            *)
MapVersion(v, b) ==
  /\ lineage[b] # <<>>
  /\ VerOf(lineage[b][Len(lineage[b])]) = v
  /\ vmap' = [vmap EXCEPT ![<<v, b>>] = lineage[b][Len(lineage[b])]]
  /\ UNCHANGED lineage

Next ==
  \/ \E b \in Branches : Commit(b)
  \/ \E v \in SemVers, b \in Branches : MapVersion(v, b)

Spec == Init /\ [][Next]_avars

=============================================================================
