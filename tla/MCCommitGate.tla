---------------------------- MODULE MCCommitGate ----------------------------
(***************************************************************************)
(* CommitGate over four trees: one that keeps every rule, one that breaks a *)
(* rule by itself, one that lacks a field the others have and the first of  *)
(* which is audited as a tampered version, and the empty one.               *)
(***************************************************************************)
EXTENDS CommitGate

CONSTANTS clean, forbidden, lean, empty

MCTrees == {clean, forbidden, lean, empty}
MCBreaking == {forbidden}
MCFieldLoss == {clean, forbidden} \X {lean}
MCTampered == {<<lean, clean>>}
=============================================================================
