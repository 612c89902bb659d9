------------------------ MODULE MCIncrementalUpdate ------------------------
(***************************************************************************)
(* Two labels: the module symbol and a function.                            *)
(***************************************************************************)
EXTENDS IncrementalUpdate

LabelNames == (1 :> "module") @@ (2 :> "parse")
=============================================================================
