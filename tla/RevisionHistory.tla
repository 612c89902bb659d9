--------------------------- MODULE RevisionHistory ---------------------------
(***************************************************************************)
(* What the revisions of the store promise, without keys, counters or a     *)
(* layout: a content per revision and a listing, most recently recorded     *)
(* first. A crash may leave any prefix of the steps below done, and no      *)
(* other effect: recording never reorders the revisions it does not name,   *)
(* and a revision leaves the listing only after its content is gone.        *)
(***************************************************************************)
CONSTANTS Revisions, Graphs, NONE

VARIABLES
  content,   \* what load_revision returns for each revision, or NONE
  listed,    \* the revisions that list_revisions returns ...
  before     \* ... and their order: <<q, r>> if q comes before r

vars == <<content, listed, before>>

Among(S) == {p \in before : p[1] \in S /\ p[2] \in S}

Init ==
  /\ content = [r \in Revisions |-> NONE]
  /\ listed = {}
  /\ before = {}

(* A snapshot is replaced; the listing does not know yet.                   *)
Record(r, g) ==
  /\ content' = [content EXCEPT ![r] = g]
  /\ UNCHANGED <<listed, before>>

(* A revision with content becomes the most recent one.                     *)
Promote(r) ==
  /\ content[r] # NONE
  /\ listed' = listed \union {r}
  /\ before' = Among(listed \ {r}) \union ({r} \X (listed \ {r}))
  /\ UNCHANGED content

(* Retention or a layout change takes the content of a listed revision ...  *)
Erase(r) ==
  /\ r \in listed
  /\ content' = [content EXCEPT ![r] = NONE]
  /\ UNCHANGED <<listed, before>>

(* ... and then its place in the listing.                                   *)
Drop(r) ==
  /\ r \in listed
  /\ content[r] = NONE
  /\ listed' = listed \ {r}
  /\ before' = Among(listed \ {r})
  /\ UNCHANGED content

Next == \E r \in Revisions :
  \/ \E g \in Graphs : Record(r, g)
  \/ Promote(r)
  \/ Erase(r)
  \/ Drop(r)

Spec == Init /\ [][Next]_vars
=============================================================================
