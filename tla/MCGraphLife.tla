---------------------------- MODULE MCGraphLife ----------------------------
(***************************************************************************)
(* Three labels: the module symbol, and a class and a function of one name; *)
(* the package bears that name, too.                                        *)
(***************************************************************************)
EXTENDS GraphLife

CONSTANT react

SymbolNames == (1 :> "module") @@ (2 :> "store") @@ (3 :> "store") @@ (react :> "store")
=============================================================================
