-------------------------------- MODULE Delta --------------------------------
(***************************************************************************)
(* Two graphs compared: the delta of core delta.rs and the findings that    *)
(* findings.rs derives from it. A graph is here what a comparison sees of   *)
(* it, a set of symbols and a set of edges; a signature is a sequence of    *)
(* tokens in which a symbol's own name may occur, and an absent one is      *)
(* empty.                                                                   *)
(***************************************************************************)
EXTENDS Naturals, FiniteSets, SequencesExt

CONSTANTS
  Files,            \* source files, numbered in path order
  Names,            \* names, numbered in byte order
  TestFiles,        \* files their language's spec takes for tests
  LanguageOf,       \* the language of each file
  StructuralFiles,  \* files of languages without import resolution
  Occurs            \* pairs of a name and another word of which it is a part

(* The kinds in use, in the order of the suffixes ids end in.               *)
KindOrder == <<"class", "function", "module", "package", "property">>

IdOf(s) == <<s.file, s.name, s.kind>>
SymbolIds(g) == {IdOf(s) : s \in g.symbols}
SymbolAt(g, id) == CHOOSE s \in g.symbols : IdOf(s) = id

IndexOfKind(k) == CHOOSE i \in DOMAIN KindOrder : KindOrder[i] = k
IdPrecedes(a, b) ==
  \/ a[1] < b[1]
  \/ a[1] = b[1] /\ a[2] < b[2]
  \/ a[1] = b[1] /\ a[2] = b[2] /\ IndexOfKind(a[3]) < IndexOfKind(b[3])

Structural == 0
Resolved == 1
Inbound(g, id) == {e \in g.edges : e.to = id}

-----------------------------------------------------------------------------
(* delta.rs                                                                 *)

(* str::replace: the text of the name is replaced in other words, too, and  *)
(* where the name is another one leaves words that nobody wrote.            *)
Mangled == 0
Substitute(signature, old, new) ==
  [i \in DOMAIN signature |-> CASE signature[i] = old -> new
                               [] old # new /\ <<old, signature[i]>> \in Occurs -> Mangled
                               [] OTHER -> signature[i]]

(* A plausible slip: signatures are compared as they are.                   *)
SameSignature(s, t) == s.signature # <<>> /\ s.signature = t.signature

RenamesTo(s, t) ==
  /\ s.signature # <<>>
  /\ t.signature # <<>>
  /\ Substitute(s.signature, s.name, t.name) = t.signature

NoContinuation == "none"

ContinuationBetween(s, t) ==
  IF s.kind # t.kind \/ LanguageOf[s.file] # LanguageOf[t.file] THEN NoContinuation
  ELSE IF s.name = t.name THEN IF s.file = t.file THEN NoContinuation ELSE "moved"
  ELSE IF ~RenamesTo(s, t) THEN NoContinuation
  ELSE IF s.file = t.file THEN "renamed" ELSE "renamedAndMoved"

PairingRank(how, matches) ==
  (CASE how = "renamed" -> 0 [] how = "moved" -> 1 [] how = "renamedAndMoved" -> 2)
    + (IF matches THEN 0 ELSE 3)

Pair(s, t) ==
  [rank |-> PairingRank(ContinuationBetween(s, t), RenamesTo(s, t)), before |-> s, after |-> t,
   how |-> ContinuationBetween(s, t)]

PairPrecedes(p, q) ==
  \/ p.rank < q.rank
  \/ p.rank = q.rank /\ IdPrecedes(IdOf(p.before), IdOf(q.before))
  \/ /\ p.rank = q.rank
     /\ IdOf(p.before) = IdOf(q.before)
     /\ IdPrecedes(IdOf(p.after), IdOf(q.after))

Rivals(p, q) == p.before = q.before \/ p.after = q.after

(* A plausible slip: an added symbol may continue several.                  *)
PairUpOneSided(candidates) ==
  CHOOSE taken \in SUBSET candidates :
    \A p \in candidates :
      p \in taken <=> \A q \in taken : PairPrecedes(q, p) => q.before # p.before

(* Greedy over the sorted candidates: one is taken unless a rival of it was *)
(* taken before.                                                            *)
PairUp(candidates) ==
  CHOOSE taken \in SUBSET candidates :
    \A p \in candidates :
      p \in taken <=> \A q \in taken : PairPrecedes(q, p) => ~Rivals(p, q)

Gone(g, h) == {s \in g.symbols : IdOf(s) \notin SymbolIds(h)}

Compute(g, h) ==
  LET removed == Gone(g, h)
      added == Gone(h, g)
      continuities ==
        PairUp({Pair(p[1], p[2]) : p \in {p \in removed \X added :
                  ContinuationBetween(p[1], p[2]) # NoContinuation}})
  IN  [added |-> added \ {c.after : c \in continuities},
       removed |-> removed \ {c.before : c \in continuities},
       continuities |-> continuities,
       resigned |-> {c \in [before : g.symbols, after : h.symbols] :
                       /\ IdOf(c.before) = IdOf(c.after)
                       /\ c.before.signature # c.after.signature},
       addedEdges |-> h.edges \ g.edges,
       removedEdges |-> g.edges \ h.edges]

-----------------------------------------------------------------------------
(* findings.rs                                                              *)

ApiKinds == {"class", "function", "property"}

Weakest(edges) ==
  IF edges = {} \/ \E e \in edges : e.resolution = Structural THEN Structural ELSE Resolved

(* Every symbol the change renamed, moved, signed anew, added or removed.   *)
Edited(delta) ==
  delta.added \union delta.removed
    \union UNION {{c.before, c.after} : c \in delta.resigned \union delta.continuities}

EditedFiles(delta) == {s.file : s \in Edited(delta)}

ChangedFiles(delta) ==
  EditedFiles(delta) \union {e.file : e \in delta.addedEdges \union delta.removedEdges}

CoverageOver(g, files) ==
  LET over(r) == {e \in g.edges : e.file \in files /\ e.resolution = r}
  IN  [resolved |-> Cardinality(over(Resolved)), structural |-> Cardinality(over(Structural))]

Finding(kind, s, referrers) ==
  [kind |-> kind, symbol |-> s, referrers |-> referrers,
   resolution |-> IF kind \in {"signature changed", "api surface removed"}
                    THEN Resolved ELSE Weakest(referrers)]

(* A plausible slip: a file whose references changed counts as edited.      *)
LeftBehindUnchanged(g, h, delta, s) ==
  {e \in Inbound(g, IdOf(s)) :
     e.from \in SymbolIds(h) /\ e.file \notin ChangedFiles(delta)}

(* Who referred to a removed symbol, is still there and was not edited.     *)
LeftBehind(g, h, delta, s) ==
  {e \in Inbound(g, IdOf(s)) :
     e.from \in SymbolIds(h) /\ e.file \notin EditedFiles(delta)}

Orphans(g, h) ==
  {s \in h.symbols : /\ s.kind # "module"
                     /\ Inbound(g, IdOf(s)) # {}
                     /\ Inbound(h, IdOf(s)) = {}}

Derive(g, h, delta) ==
  LET left(s) == LeftBehind(g, h, delta, s)
      broken == {Finding("broken edge", s, left(s)) :
                   s \in {r \in delta.removed : left(r) # {}}}
      shrunk == {Finding("api surface removed", s, left(s)) :
                   s \in {r \in delta.removed : r.kind \in ApiKinds}}
      orphaned == {[kind |-> "orphaned", symbol |-> s, referrers |-> {},
                    resolution |-> Weakest(Inbound(g, IdOf(s)))] : s \in Orphans(g, h)}
      resigned == {Finding("signature changed", c.after, Inbound(h, IdOf(c.after))) :
                     c \in delta.resigned}
  IN  [findings |-> broken \union shrunk \union orphaned \union resigned,
       coverage |-> CoverageOver(h, ChangedFiles(delta)),
       blastRadius |-> {e.from : e \in {x \in UNION {f.referrers : f \in broken \union resigned} :
                                            x.resolution = Resolved}}]

GateSafe(findings) == {f \in findings : f.resolution = Resolved}
=============================================================================
