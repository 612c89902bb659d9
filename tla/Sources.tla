------------------------------ MODULE Sources ------------------------------
(***************************************************************************)
(* What the Python, Rust, Go and C adapters have in common: a file is the   *)
(* sequence of its statements in the order of the walk (core ast.rs), its   *)
(* IR has relationships that are resolved later, and attributes are said of *)
(* the type that a variable has in a function. A function is an owner, the  *)
(* class or type it is in, and the path of the functions around it.         *)
(***************************************************************************)
EXTENDS Naturals, FiniteSets, SequencesExt

CONSTANT NONE

(* What may be written in a file of each language, besides its own imports: *)
(* a symbol, with its owner; a call or a construction; a variable of a      *)
(* type, NONE if none can be named; an attribute of a variable.             *)
Def(name, owner, kind) == [is |-> "symbol", name |-> name, owner |-> owner, kind |-> kind]
Use(path, kind) == [is |-> "use", path |-> path, kind |-> kind]
Typed(owner, path, var, type, parameter) ==
  [is |-> "typed", owner |-> owner, path |-> path, var |-> var, type |-> type, parameter |-> parameter]
Member(owner, path, var) == [is |-> "member", owner |-> owner, path |-> path, var |-> var]
Self == 102
All == 101      \* IMPORT_ALL

Path == Seq(Nat) \ {<< >>}
Owner == Nat \union {NONE}
SharedStatements ==
  [is : {"symbol"}, name : Nat, owner : Owner,
   kind : {"class", "interface", "function", "method", "property", "variant"}]
    \union [is : {"use"}, path : Path, kind : {"Calls", "Instantiates"}]
    \union [is : {"typed"}, owner : Owner, path : Path, var : Nat, type : Path \union {NONE},
            parameter : BOOLEAN]
    \union [is : {"member"}, owner : Owner, path : Path, var : Nat]

Statements(source, is) == {i \in DOMAIN source : source[i].is = is}

-----------------------------------------------------------------------------
(* Symbols and relationships.                                               *)
ModuleSymbol(file) == [file |-> file, name |-> 0, owner |-> NONE, kind |-> "module"]
SymbolAt(file, s) == [file |-> file, name |-> s.name, owner |-> s.owner, kind |-> s.kind]
IsSymbol(to) == "file" \in DOMAIN to

Named(path) == [named |-> path]
IsNamed(to) == "named" \in DOMAIN to
PackageNode(name) == [package |-> name]
IsPackage(to) == "package" \in DOMAIN to

Rel(from, to, kind, alias, line) ==
  [from |-> from, to |-> to, kind |-> kind, alias |-> alias, line |-> line]
Latest(rels) == CHOOSE r \in rels : \A q \in rels : q.line <= r.line

(* The symbols in the order they are met, of which a map by name keeps the  *)
(* last of a name or the first.                                             *)
InOrder(file, source) ==
  [i \in DOMAIN source |-> IF source[i].is = "symbol" THEN SymbolAt(file, source[i]) ELSE NONE]
NamedAt(order, name) == {i \in DOMAIN order : order[i] # NONE /\ order[i].name = name}
MethodAt(order, owner, name) == {i \in NamedAt(order, name) : order[i].owner = owner}
LastSymbol(order, at) == IF at = {} THEN NONE ELSE order[CHOOSE i \in at : \A j \in at : j <= i]
FirstSymbol(order, at) == IF at = {} THEN NONE ELSE order[CHOOSE i \in at : \A j \in at : i <= j]
ByName(order, name) == LastSymbol(order, NamedAt(order, name))

(* What a name of a file is: its own symbol, or else what it imports by that *)
(* name is in the file it comes from, and so on for so many imports. An     *)
(* import leads to a file, if it is one of the repository, and a name of it.*)
Import(file, name) == [file |-> file, name |-> name]
Imported(irs, imports, limit) ==
  LET lookup[q \in (DOMAIN irs) \X Nat \X (0 .. limit)] ==
        LET import == imports[<<q[1], q[2]>>]
            own == ByName(irs[q[1]].order, q[2])
        IN  IF own # NONE THEN own
            ELSE IF q[3] = limit \/ import = NONE \/ import.file \in {NONE, q[1]} THEN NONE
            ELSE lookup[<<import.file, import.name, q[3] + 1>>]
  IN  lookup

-----------------------------------------------------------------------------
(* Bindings of a function: `self`, its parameters, and what is declared in  *)
(* its body, the bodies inside it included; of two of a name the later, and *)
(* one whose type cannot be named leaves what there was.                    *)
BoundType(source, owner, path, var) ==
  LET of(inside, parameter) ==
        {i \in Statements(source, "typed") :
           /\ source[i].var = var /\ source[i].owner = owner /\ source[i].type # NONE
           /\ source[i].parameter = parameter
           /\ IF inside THEN IsPrefix(path, source[i].path) ELSE source[i].path = path}
      last(S) == source[CHOOSE i \in S : \A j \in S : j <= i].type
  IN  IF of(TRUE, FALSE) # {} THEN last(of(TRUE, FALSE))
      ELSE IF of(FALSE, TRUE) # {} THEN last(of(FALSE, TRUE))
      ELSE IF var = Self /\ owner # NONE THEN <<owner>> ELSE NONE

(* A member is looked at once from each function around it; a type whose    *)
(* members are used is said once, at the first of them.                     *)
(* And, by a plausible slip, only from the outermost.                       *)
AroundOutermost(path) == {SubSeq(path, 1, 1)}
Around(path) == {SubSeq(path, 1, n) : n \in 1 .. Len(path)}
FirstOfEach(said) == {a \in said : \A b \in said : a[2] = b[2] => a[1] <= b[1]}
Members(source) == UNION {{i} \X Around(source[i].path) : i \in Statements(source, "member")}
MemberTypes(said, builtin) == FirstOfEach({a \in said : a[2] \notin builtin \union {NONE}})
=============================================================================
