----------------------- MODULE RevisionStoreRefinement -----------------------
(***************************************************************************)
(* RevisionStore implements RevisionHistory: the index entries, in order of *)
(* their sequences, are the listing, and the counter keeps a saved revision *)
(* ahead of the others - until it saturates and names decide.               *)
(***************************************************************************)
EXTENDS RevisionStore

(* What list_revisions returns is Listed, in this order.                    *)
Listing == {p \in Listed \X Listed : Newer(p[1], p[2])}

(* What load_revision returns.                                              *)
Content == [r \in Revisions |->
              IF snapshots[r] = NONE THEN NONE ELSE snapshots[r].graph]

History == INSTANCE RevisionHistory
             WITH content <- Content, listed <- Listed, before <- Listing

(* Every write of save_revision, prune_revisions and of a layout change is  *)
(* a step of the abstract history or leaves it as it was, wherever the      *)
(* process is interrupted, as long as the counter has not saturated.        *)
ImplementsHistory ==
  History!Init /\ [][History!Next \/ sequence' = MaxSequence]_(History!vars)
=============================================================================
