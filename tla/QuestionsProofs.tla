--------------------------- MODULE QuestionsProofs ---------------------------
(***************************************************************************)
(* Proofs about Questions: what a comparison says holds of every pair of    *)
(* sources that edits of any number lead to, and what a query, an impact or *)
(* a selection of tests answers holds of every graph.                       *)
(***************************************************************************)
EXTENDS Questions, FiniteOrders, SequenceTheorems, TLAPS

(* The source being edited is one that parsing can leave, and a comparison  *)
(* is of it with the one that was begun with.                               *)
Sources ==
  before # NONE => before \in Baselines /\ Change!IsSource(after)

Compared ==
  judged # NONE =>
    before # NONE /\ judged = Change!Judgement(Change!GraphOf(before), Change!GraphOf(after))

ComparisonInv == Sources /\ Compared

-----------------------------------------------------------------------------
(* The operators of the library are those of Change, too.                   *)
LEMMA SameLibrary ==
  /\ \A S : Change!IsFiniteSet(S) <=> IsFiniteSet(S)
  /\ \A S : Change!Cardinality(S) = Cardinality(S)
<1>1. ASSUME NEW S PROVE Change!IsFiniteSet(S) <=> IsFiniteSet(S)
  BY DEF IsFiniteSet, Change!IsFiniteSet
<1>2. ASSUME NEW S PROVE Change!Cardinality(S) = Cardinality(S)
  BY DEF Cardinality, Change!Cardinality
<1> QED
  BY <1>1, <1>2

(* What an edit leaves is a source: deletions take the references from what *)
(* is deleted with them.                                                    *)
LEMMA DeleteKeepsSource ==
  ASSUME Change!IsSource(after), NEW s \in after.symbols, NEW tidily \in BOOLEAN,
         Change!Delete(s, tidily)
  PROVE  Change!IsSource(after')
<1> DEFINE gone == {Change!IdOf(d) : d \in Change!With(s)}
           stays(r) == r.from \notin gone /\ (tidily => r.to \notin gone)
<1>1. after' = [symbols |-> after.symbols \ Change!With(s), refs |-> {r \in after.refs : stays(r)}]
  BY DEF Change!Delete, Change!Becomes
<1>2. after'.symbols \subseteq after.symbols /\ after'.refs \subseteq after.refs
  BY <1>1
<1>3. ASSUME NEW r \in after'.refs PROVE r.from \in Change!SymbolIds(after')
  <2>1. r \in after.refs /\ r.from \notin gone
    BY <1>1
  <2>2. PICK t \in after.symbols : r.from = Change!IdOf(t)
    BY <2>1 DEF Change!IsSource, Change!SymbolIds
  <2>3. t \notin Change!With(s)
    BY <2>1, <2>2
  <2> QED
    BY <1>1, <2>2, <2>3 DEF Change!SymbolIds
<1>4. IsFiniteSet(after'.symbols) /\ IsFiniteSet(after'.refs)
  BY <1>2, FS_Subset, SameLibrary DEF Change!IsSource
<1>5. after' = [symbols |-> after'.symbols, refs |-> after'.refs]
  BY <1>1
<1> HIDE DEF gone, stays
<1>6. after' \in [symbols : SUBSET Change!Declarations, refs : SUBSET Change!Reference]
  BY <1>2, <1>5 DEF Change!IsSource
<1> QED
  BY <1>2, <1>3, <1>4, <1>6, SameLibrary DEF Change!IsSource

(* Ids are of declarations.                                                 *)
LEMMA IdsAreDeclared ==
  ASSUME NEW s \in Change!Declarations
  PROVE  Change!IdOf(s) \in Change!DeclaredIds
BY DEF Change!Declarations, Change!DeclaredIds, Change!IdOf

(* A reference with other ends or on another line is one.                   *)
LEMMA ReferenceUpdate ==
  ASSUME NEW r \in Change!Reference, NEW f \in Change!DeclaredIds,
         NEW t \in Change!DeclaredIds \union Change!Packages, NEW line \in Nat
  PROVE  /\ [r EXCEPT !.from = f, !.to = t] \in Change!Reference
         /\ [r EXCEPT !.line = line] \in Change!Reference
         /\ [r EXCEPT !.line = line].from = r.from
BY DEF Change!Reference

(* A signature that is respelled is one.                                    *)
LEMMA RespellParts ==
  ASSUME NEW signature \in Seq(Nat), NEW old, NEW new \in Nat
  PROVE  Change!Respell(signature, old, new) \in Seq(Nat)
<1> DEFINE f == [i \in DOMAIN signature |-> IF signature[i] = old THEN new ELSE signature[i]]
<1>1. f \in [1 .. Len(signature) -> Nat] /\ Len(signature) \in Nat
  OBVIOUS
<1> HIDE DEF f
<1>2. f \in Seq(Nat)
  BY <1>1, SeqDef
<1> QED
  BY <1>2 DEF f, Change!Respell

(* Who mentions a symbol that is renamed, before and after.                 *)
Mentioned(u, mentions, old, new) ==
  IF u \in mentions THEN [u EXCEPT !.signature = Change!Respell(@, old, new)] ELSE u

(* It stays what it is but for its signature.                               *)
LEMMA MentionedParts ==
  ASSUME NEW u \in Change!Declarations, NEW mentions, NEW old, NEW new \in Nat
  PROVE  LET v == Mentioned(u, mentions, old, new)
         IN  /\ v \in Change!Declarations
             /\ v.file = u.file /\ v.name = u.name /\ v.kind = u.kind
             /\ Change!IdOf(v) = Change!IdOf(u)
<1> DEFINE signature == Change!Respell(u.signature, old, new)
<1>1. signature \in Seq(Nat)
  BY RespellParts DEF Change!Declarations
<1> HIDE DEF signature
<1>2. [u EXCEPT !.signature = signature] \in Change!Declarations
  BY <1>1 DEF Change!Declarations
<1>3. Mentioned(u, mentions, old, new) = IF u \in mentions THEN [u EXCEPT !.signature = signature] ELSE u
  BY DEF Mentioned, signature
<1> QED
  BY <1>2, <1>3 DEF Change!IdOf, Change!Declarations

(* A reference with other ends; what Replace makes of all symbols and refs. *)
Redirected(r, from, to) ==
  [r EXCEPT !.from = IF @ = from THEN to ELSE @, !.to = IF @ = from THEN to ELSE @]

SymbolsReplaced(s, t, mentions) ==
  {Mentioned(u, mentions, s.name, t.name) : u \in after.symbols \ {s}} \union {t}

RefsRedirected(s, t) == {Redirected(r, Change!IdOf(s), Change!IdOf(t)) : r \in after.refs}

(* That is what Replace leaves.                                             *)
LEMMA ReplaceParts ==
  ASSUME NEW s, NEW t, NEW mentions, NEW deed, Change!Replace(s, t, mentions, deed)
  PROVE  /\ after' = [symbols |-> after'.symbols, refs |-> after'.refs]
         /\ after'.symbols = SymbolsReplaced(s, t, mentions)
         /\ after'.refs = RefsRedirected(s, t)
<1>1. after' = [symbols |-> SymbolsReplaced(s, t, mentions), refs |-> RefsRedirected(s, t)]
  BY DEF Change!Replace, Change!Becomes, Mentioned, Redirected, SymbolsReplaced, RefsRedirected
<1> QED
  BY <1>1

(* A symbol that becomes another of an id that is free, or its own, leaves  *)
(* no reference without a declaration it is from.                           *)
LEMMA ReplaceKeepsSource ==
  ASSUME Change!IsSource(after), NEW s \in after.symbols, NEW t \in Change!Declarations,
         NEW mentions, NEW deed,
         Change!IdOf(t) \notin Change!SymbolIds(after) \/ Change!IdOf(t) = Change!IdOf(s),
         Change!Replace(s, t, mentions, deed)
  PROVE  Change!IsSource(after')
<1> DEFINE as(id) == IF id = Change!IdOf(s) THEN Change!IdOf(t) ELSE id
           moved(r) == Redirected(r, Change!IdOf(s), Change!IdOf(t))
           now(u) == Mentioned(u, mentions, s.name, t.name)
<1>1. /\ after'.symbols = {now(u) : u \in after.symbols \ {s}} \union {t}
      /\ after'.refs = {moved(r) : r \in after.refs}
      /\ after' = [symbols |-> after'.symbols, refs |-> after'.refs]
  BY ReplaceParts DEF SymbolsReplaced, RefsRedirected
<1>2. ASSUME NEW u \in after.symbols
      PROVE  now(u) \in Change!Declarations /\ Change!IdOf(now(u)) = Change!IdOf(u)
  <2>1. u \in Change!Declarations /\ t.name \in Nat
    BY NumbersAssumption DEF Change!IsSource, Change!Declarations
  <2> QED
    BY <2>1, MentionedParts
<1> HIDE DEF now
<1>3. ASSUME NEW r \in after.refs
      PROVE  /\ moved(r) \in Change!Reference
             /\ moved(r).from \in Change!SymbolIds(after')
  <2>1. r \in Change!Reference
    BY DEF Change!IsSource
  <2>2. /\ moved(r) = [r EXCEPT !.from = as(r.from), !.to = as(r.to)]
        /\ moved(r).from = as(r.from) /\ moved(r).to = as(r.to)
    BY <2>1 DEF Change!Reference, Redirected
  <2>3. as(r.from) \in Change!DeclaredIds /\ as(r.to) \in Change!DeclaredIds \union Change!Packages
    BY <2>1, IdsAreDeclared DEF Change!Reference
  <2>4. moved(r) \in Change!Reference
    BY <2>1, <2>2, <2>3, ReferenceUpdate DEF Change!Reference
  <2>5. as(r.from) \in Change!SymbolIds(after')
    <3>1. PICK u \in after.symbols : r.from = Change!IdOf(u)
      BY DEF Change!IsSource, Change!SymbolIds
    <3>2. CASE u = s
      BY <1>1, <3>1, <3>2 DEF Change!SymbolIds
    <3>3. CASE u # s
      <4>1. now(u) \in after'.symbols /\ Change!IdOf(now(u)) = r.from
        BY <1>1, <1>2, <3>1, <3>3
      <4>2. r.from # Change!IdOf(s)
        BY <3>1, <3>3 DEF Change!IsSource
      <4> QED
        BY <4>1, <4>2 DEF Change!SymbolIds
    <3> QED
      BY <3>2, <3>3
  <2> QED
    BY <2>2, <2>4, <2>5
<1>4. IsFiniteSet(after'.symbols)
  <2>1. IsFiniteSet(after.symbols \ {s})
    BY FS_Subset, SameLibrary DEF Change!IsSource
  <2> DEFINE m == [u \in after.symbols \ {s} |-> now(u)]
  <2>2. {now(u) : u \in after.symbols \ {s}} = {m[u] : u \in after.symbols \ {s}}
        /\ DOMAIN m = after.symbols \ {s}
    OBVIOUS
  <2> HIDE DEF m
  <2>3. IsFiniteSet({m[u] : u \in after.symbols \ {s}})
    BY <2>1, <2>2, ImageIsFinite
  <2>4. IsFiniteSet({m[u] : u \in after.symbols \ {s}} \union {t})
    BY <2>3, FS_AddElement
  <2> QED
    BY <1>1, <2>2, <2>4
<1>5. IsFiniteSet(after'.refs)
  <2>1. IsFiniteSet(after.refs)
    BY SameLibrary DEF Change!IsSource
  <2> DEFINE m == [r \in after.refs |-> moved(r)]
  <2>2. after'.refs = {m[r] : r \in after.refs} /\ DOMAIN m = after.refs
    BY <1>1
  <2> HIDE DEF m
  <2> QED
    BY <2>1, <2>2, ImageIsFinite
<1>6. ASSUME NEW u \in after'.symbols, NEW v \in after'.symbols, Change!IdOf(u) = Change!IdOf(v) PROVE u = v
  <2>1. \A x \in after.symbols \ {s} : Change!IdOf(x) # Change!IdOf(t)
    BY DEF Change!IsSource, Change!SymbolIds
  <2>2. \A x \in after'.symbols : x = t \/ \E y \in after.symbols \ {s} : x = now(y)
    BY <1>1
  <2>3. CASE u = t \/ v = t
    BY <1>2, <1>6, <2>1, <2>2, <2>3
  <2>4. CASE u # t /\ v # t
    <3>1. PICK x \in after.symbols \ {s} : u = now(x)
      BY <2>2, <2>4
    <3>2. PICK y \in after.symbols \ {s} : v = now(y)
      BY <2>2, <2>4
    <3>3. x = y
      BY <1>2, <1>6, <3>1, <3>2 DEF Change!IsSource
    <3> QED
      BY <3>1, <3>2, <3>3
  <2> QED
    BY <2>3, <2>4
<1>7. after'.symbols \subseteq Change!Declarations
  BY <1>1, <1>2
<1>8. after'.refs \subseteq Change!Reference /\ \A r \in after'.refs : r.from \in Change!SymbolIds(after')
  BY <1>1, <1>3
<1> HIDE DEF as, moved
<1>9. after' \in [symbols : SUBSET Change!Declarations, refs : SUBSET Change!Reference]
  BY <1>1, <1>7, <1>8
<1> QED
  BY <1>4, <1>5, <1>6, <1>8, <1>9, SameLibrary DEF Change!IsSource

(* A symbol that is renamed has its new name wherever it had the old one.   *)
LEMMA RenamedParts ==
  ASSUME NEW s \in Change!Declarations, NEW name \in Names
  PROVE  LET t == Change!Renamed(s, name)
         IN  /\ t \in Change!Declarations
             /\ t.file = s.file /\ t.name = name /\ t.kind = s.kind
             /\ t.signature = [i \in DOMAIN s.signature |->
                                 IF s.signature[i] = s.name THEN name ELSE s.signature[i]]
<1> DEFINE signature == [i \in DOMAIN s.signature |->
                           IF s.signature[i] = s.name THEN name ELSE s.signature[i]]
           t == [s EXCEPT !.name = name, !.signature = signature]
<1>1. Change!Renamed(s, name) = t
  BY DEF Change!Renamed, Change!Respell
<1>2. signature \in Seq(Nat)
  <2>1. s.signature \in Seq(Nat) /\ name \in Nat
    BY NumbersAssumption DEF Change!Declarations
  <2>2. signature \in [1 .. Len(s.signature) -> Nat] /\ Len(s.signature) \in Nat
    BY <2>1
  <2> HIDE DEF signature
  <2> QED
    BY <2>2, SeqDef
<1> HIDE DEF signature
<1>3. /\ t \in Change!Declarations
      /\ t.file = s.file /\ t.name = name /\ t.kind = s.kind /\ t.signature = signature
  BY <1>2 DEF Change!Declarations
<1> HIDE DEF t
<1> QED
  BY <1>1, <1>3 DEF signature

(* Every edit leaves a source.                                              *)
LEMMA EditKeepsSource ==
  ASSUME Change!IsSource(after), Change!Edit
  PROVE  Change!IsSource(after')
<1>1. /\ after.symbols \subseteq Change!Declarations
      /\ after.refs \subseteq Change!Reference
      /\ after = [symbols |-> after.symbols, refs |-> after.refs]
  BY DEF Change!IsSource
<1>2. ASSUME NEW s \in after.symbols, NEW tidily \in BOOLEAN, Change!Delete(s, tidily)
      PROVE  Change!IsSource(after')
  BY <1>2, DeleteKeepsSource
<1>3. ASSUME NEW s \in after.symbols, NEW name \in Names, NEW mentions, Change!Rename(s, name, mentions)
      PROVE  Change!IsSource(after')
  <2>1. Change!Renamed(s, name) \in Change!Declarations
    BY <1>1, RenamedParts
  <2>2. /\ Change!IdOf(Change!Renamed(s, name)) \notin Change!SymbolIds(after)
        /\ Change!Replace(s, Change!Renamed(s, name), mentions, "rename")
    BY <1>3 DEF Change!Rename
  <2> QED
    BY <2>1, <2>2, ReplaceKeepsSource
<1>4. ASSUME NEW s \in after.symbols, NEW file \in ComparedFiles, Change!Move(s, file)
      PROVE  Change!IsSource(after')
  <2> DEFINE t == [s EXCEPT !.file = file]
  <2>1. t \in Change!Declarations
    BY <1>1 DEF Change!Declarations
  <2>2. Change!IdOf(t) \notin Change!SymbolIds(after) /\ Change!Replace(s, t, {}, "move")
    BY <1>4 DEF Change!Move
  <2> HIDE DEF t
  <2> QED
    BY <2>1, <2>2, ReplaceKeepsSource
<1>5. ASSUME NEW s \in after.symbols, NEW word \in Words, Change!Reword(s, word)
      PROVE  Change!IsSource(after')
  <2> DEFINE signature == Append(Change!Front(s.signature), word)
             t == [s EXCEPT !.signature = signature]
  <2>1. s \in Change!Declarations
    BY <1>1
  <2>2. signature \in Seq(Nat)
    <3>1. s.signature \in Seq(Nat) /\ s.signature # << >> /\ word \in Nat
      BY <1>5, <2>1, NumbersAssumption DEF Change!Declarations, Change!Reword
    <3> QED
      BY <3>1 DEF Change!Front
  <2> HIDE DEF signature
  <2>3. t \in Change!Declarations /\ Change!IdOf(t) = Change!IdOf(s)
    BY <2>1, <2>2 DEF Change!Declarations, Change!IdOf
  <2>4. Change!Replace(s, t, {}, "reword")
    BY <1>5 DEF Change!Reword, signature
  <2> HIDE DEF t
  <2> QED
    BY <2>3, <2>4, ReplaceKeepsSource
<1>6. ASSUME NEW s \in Spare, Change!Add(s)
      PROVE  Change!IsSource(after')
  <2>1. s \in Change!Declarations
    BY SpareAssumption
  <2>2. after' = [symbols |-> after.symbols \union {s}, refs |-> after.refs]
    BY <1>1, <1>6 DEF Change!Add, Change!Becomes
  <2>3. Change!IdOf(s) \notin Change!SymbolIds(after)
    BY <1>6 DEF Change!Add
  <2>4. IsFiniteSet(after.symbols \union {s}) /\ IsFiniteSet(after.refs)
    BY FS_AddElement, SameLibrary DEF Change!IsSource
  <2> QED
    BY <2>1, <2>2, <2>3, <2>4, SameLibrary DEF Change!IsSource, Change!SymbolIds
<1>7. ASSUME NEW r \in after.refs, Change!Drop(r)
      PROVE  Change!IsSource(after')
  <2>1. after' = [symbols |-> after.symbols, refs |-> after.refs \ {r}]
    BY <1>1, <1>7 DEF Change!Drop, Change!Becomes
  <2>2. IsFiniteSet(after.refs \ {r})
    BY FS_Subset, SameLibrary DEF Change!IsSource
  <2> QED
    BY <2>1, <2>2, SameLibrary DEF Change!IsSource, Change!SymbolIds
<1>8. ASSUME NEW s \in after.symbols, NEW t \in after.symbols, NEW line \in ComparedLines,
             Change!Refer(Change!IdOf(s), Change!IdOf(t), line)
      PROVE  Change!IsSource(after')
  <2> DEFINE r == [from |-> Change!IdOf(s), to |-> Change!IdOf(t), kind |-> "Calls", line |-> line]
  <2>1. after' = [symbols |-> after.symbols, refs |-> after.refs \union {r}]
    BY <1>1, <1>8 DEF Change!Refer, Change!Becomes
  <2>2. r \in Change!Reference
    BY <1>1, IdsAreDeclared, NumbersAssumption DEF Change!Reference
  <2>3. IsFiniteSet(after.refs \union {r})
    BY FS_AddElement, SameLibrary DEF Change!IsSource
  <2>4. r.from \in Change!SymbolIds(after)
    BY DEF Change!SymbolIds
  <2> HIDE DEF r
  <2> QED
    BY <2>1, <2>2, <2>3, <2>4, SameLibrary DEF Change!IsSource, Change!SymbolIds
<1>9. ASSUME NEW r \in after.refs, NEW line \in ComparedLines, Change!Shift(r, line)
      PROVE  Change!IsSource(after')
  <2> DEFINE q == [r EXCEPT !.line = line]
  <2>1. after' = [symbols |-> after.symbols, refs |-> (after.refs \ {r}) \union {q}]
    BY <1>1, <1>9 DEF Change!Shift, Change!Becomes
  <2>2. q \in Change!Reference /\ q.from = r.from
    BY <1>1, NumbersAssumption DEF Change!Reference
  <2>3. IsFiniteSet((after.refs \ {r}) \union {q})
    <3>1. IsFiniteSet(after.refs \ {r})
      BY FS_Subset, SameLibrary DEF Change!IsSource
    <3> QED
      BY <3>1, FS_AddElement
  <2>4. q.from \in Change!SymbolIds(after)
    BY <2>2 DEF Change!IsSource
  <2> HIDE DEF q
  <2> QED
    BY <2>1, <2>2, <2>3, <2>4, SameLibrary DEF Change!IsSource, Change!SymbolIds
<1> QED
  BY <1>2, <1>3, <1>4, <1>5, <1>6, <1>7, <1>8, <1>9 DEF Change!Edit

(* However many edits there were, what they left is a source, and what was  *)
(* judged is what the two sources are.                                      *)
LEMMA ComparisonInvariant == QuestionsSpec => []ComparisonInv
<1>1. QuestionsInit => ComparisonInv
  <2> SUFFICES ASSUME QuestionsInit PROVE ComparisonInv
    OBVIOUS
  <2>1. CASE Change!Idle
    BY <2>1 DEF ComparisonInv, Sources, Compared, Change!Idle
  <2>2. CASE Change!Baseline
    BY <2>2, BaselinesAssumption DEF ComparisonInv, Sources, Compared, Change!Baseline
  <2> QED
    BY <2>1, <2>2 DEF QuestionsInit
<1>2. ComparisonInv /\ [AskOfGraph \/ AskOfChange]_questions => ComparisonInv'
  <2> SUFFICES ASSUME ComparisonInv, [AskOfGraph \/ AskOfChange]_questions PROVE ComparisonInv'
    OBVIOUS
  <2>1. CASE UNCHANGED comparison
    BY <2>1 DEF ComparisonInv, Sources, Compared, comparison, Change!IsSource, Change!Judgement, Change!GraphOf
  <2>2. ASSUME before # NONE, Change!Edit PROVE ComparisonInv'
    <3>1. Change!IsSource(after')
      BY <2>2, EditKeepsSource DEF ComparisonInv, Sources
    <3>2. judged = NONE /\ judged' = NONE /\ before' = before
      BY <2>2 DEF Change!Edit, Change!Delete, Change!Rename, Change!Move, Change!Reword, Change!Replace,
                  Change!Add, Change!Drop, Change!Refer, Change!Shift, Change!Becomes
    <3> QED
      BY <2>2, <3>1, <3>2 DEF ComparisonInv, Sources, Compared
  <2>3. ASSUME before # NONE, Change!Compare PROVE ComparisonInv'
    BY <2>3 DEF ComparisonInv, Sources, Compared, Change!Compare
  <2>4. ASSUME before # NONE, Change!Forget PROVE ComparisonInv'
    BY <2>4 DEF ComparisonInv, Sources, Compared, Change!Forget
  <2> QED
    BY <2>1, <2>2, <2>3, <2>4 DEF AskOfGraph, AskOfChange, questions, Change!CompareStep
<1> QED
  BY <1>1, <1>2, PTL DEF QuestionsSpec

-----------------------------------------------------------------------------
(* What the rest needs of a graph: its edges, finitely many, join symbols   *)
(* it has.                                                                  *)
IsGraph(g) ==
  /\ g = [symbols |-> g.symbols, edges |-> g.edges]
  /\ IsFiniteSet(g.edges)
  /\ \A e \in g.edges :
       /\ e = [from |-> e.from, to |-> e.to, kind |-> e.kind, file |-> e.file,
               line |-> e.line, resolution |-> e.resolution]
       /\ e.from \in Change!SymbolIds(g) /\ e.to \in Change!SymbolIds(g)
       /\ e.resolution \in {Change!Structural, Change!Resolved}

(* What an edge is made of.                                                 *)
LEMMA EdgeParts ==
  ASSUME NEW kind, NEW r
  PROVE  LET e == Change!Edge(kind, r)
         IN  /\ e = [from |-> e.from, to |-> e.to, kind |-> e.kind, file |-> e.file,
                     line |-> e.line, resolution |-> e.resolution]
             /\ e.from = r.from /\ e.to = r.to /\ e.kind = kind /\ e.file = r.from[1]
             /\ e.resolution = Change!Resolution(r)
BY DEF Change!Edge

(* A graph that is built has an edge for each reference that is bound, and  *)
(* for no other, and a symbol for each package.                             *)
LEMMA GraphParts ==
  ASSUME NEW source, Change!IsSource(source)
  PROVE  LET g == Change!GraphOf(source)
             bound == {r \in source.refs : Change!Binds(source, r)}
         IN  /\ g = [symbols |-> g.symbols, edges |-> g.edges]
             /\ source.symbols \subseteq g.symbols
             /\ \A s \in g.symbols : s \in source.symbols \/ Change!IdOf(s) \in Change!Packages
             /\ \A r \in bound : Change!Edge(r.kind, r) \in g.edges
             /\ \A e \in g.edges : \E r \in bound : e \in {Change!Edge(r.kind, r), Change!Edge("Tests", r)}
             /\ \A r \in bound : r.to \in Change!SymbolIds(g)
<1> DEFINE g == Change!GraphOf(source)
           bound == {r \in source.refs : Change!Binds(source, r)}
           external == {r \in bound : Change!IsExternalPackage(r.to)}
           exercises == {r \in bound : /\ r.from[1] \in ComparedTests
                                       /\ r.to[1] \notin ComparedTests \union {0}
                                       /\ \A q \in bound : q.from = r.from /\ q.to = r.to => r.line <= q.line}
<1>1. g = [symbols |-> source.symbols \union {Change!Package(r.to) : r \in external},
           edges |-> {Change!Edge(r.kind, r) : r \in bound} \union {Change!Edge("Tests", r) : r \in exercises}]
  BY DEF Change!GraphOf
<1>2. ASSUME NEW r \in external
      PROVE  r.to \in Change!Packages /\ Change!IdOf(Change!Package(r.to)) = r.to
  <2>1. r.to \in Change!DeclaredIds \union Change!Packages /\ r.to[3] = "package"
    BY DEF Change!IsSource, Change!Reference, Change!IsExternalPackage
  <2>2. r.to \in Change!Packages
    BY <2>1 DEF Change!DeclaredIds
  <2>3. r.to = <<0, r.to[2], "package">>
    BY <2>2 DEF Change!Packages
  <2>4. Change!IdOf(Change!Package(r.to)) = <<0, r.to[2], "package">>
    BY DEF Change!IdOf, Change!Package
  <2> QED
    BY <2>2, <2>3, <2>4
<1>3. /\ g.symbols = source.symbols \union {Change!Package(r.to) : r \in external}
      /\ g.edges = {Change!Edge(r.kind, r) : r \in bound} \union {Change!Edge("Tests", r) : r \in exercises}
  BY <1>1
<1>4. g = [symbols |-> g.symbols, edges |-> g.edges]
  BY <1>1
<1> HIDE DEF g
<1>5. \A s \in g.symbols : s \in source.symbols \/ Change!IdOf(s) \in Change!Packages
  BY <1>2, <1>3
<1>6. ASSUME NEW r \in bound PROVE r.to \in Change!SymbolIds(g)
  <2>1. CASE r.to \in Change!SymbolIds(source)
    BY <1>3, <2>1 DEF Change!SymbolIds
  <2>2. CASE Change!IsExternalPackage(r.to)
    <3>1. r \in external
      BY <2>2
    <3>2. Change!Package(r.to) \in g.symbols
      BY <1>3, <3>1
    <3> QED
      BY <1>2, <3>1, <3>2 DEF Change!SymbolIds
  <2> QED
    BY <2>1, <2>2 DEF Change!Binds
<1>7. \A e \in g.edges : \E r \in bound : e \in {Change!Edge(r.kind, r), Change!Edge("Tests", r)}
  BY <1>3
<1>8. \A r \in bound : Change!Edge(r.kind, r) \in g.edges
  BY <1>3
<1> HIDE DEF bound
<1>9. source.symbols \subseteq g.symbols
  BY <1>3
<1> QED
  BY <1>4, <1>5, <1>6, <1>7, <1>8, <1>9 DEF g, bound

(* The graph of a source is a graph.                                        *)
LEMMA BuiltGraph ==
  ASSUME NEW source, Change!IsSource(source)
  PROVE  IsGraph(Change!GraphOf(source))
<1> DEFINE g == Change!GraphOf(source)
           bound == {r \in source.refs : Change!Binds(source, r)}
           exercises == {r \in bound : /\ r.from[1] \in ComparedTests
                                       /\ r.to[1] \notin ComparedTests \union {0}
                                       /\ \A q \in bound : q.from = r.from /\ q.to = r.to => r.line <= q.line}
<1>1. IsFiniteSet(g.edges)
  <2> DEFINE called == [r \in bound |-> Change!Edge(r.kind, r)]
             tested == [r \in exercises |-> Change!Edge("Tests", r)]
  <2>1. IsFiniteSet(bound) /\ IsFiniteSet(exercises)
    BY FS_Subset, SameLibrary DEF Change!IsSource
  <2>2. g.edges = {called[r] : r \in bound} \union {tested[r] : r \in exercises}
    BY DEF Change!GraphOf
  <2>3. DOMAIN called = bound /\ DOMAIN tested = exercises
    OBVIOUS
  <2> HIDE DEF called, tested, bound, exercises, g
  <2>4. IsFiniteSet({called[r] : r \in bound}) /\ IsFiniteSet({tested[r] : r \in exercises})
    BY <2>1, <2>3, ImageIsFinite
  <2> QED
    BY <2>2, <2>4, FS_Union
<1>2. ASSUME NEW e \in g.edges
      PROVE  /\ e = [from |-> e.from, to |-> e.to, kind |-> e.kind, file |-> e.file,
                     line |-> e.line, resolution |-> e.resolution]
             /\ e.from \in Change!SymbolIds(g) /\ e.to \in Change!SymbolIds(g)
             /\ e.resolution \in {Change!Structural, Change!Resolved}
  <2>0. PICK r \in bound : \E kind : e = Change!Edge(kind, r)
    BY GraphParts
  <2>1. PICK kind : e = Change!Edge(kind, r)
    BY <2>0
  <2>2. r.from \in Change!SymbolIds(g)
    BY GraphParts DEF Change!IsSource, Change!SymbolIds
  <2>3. r.to \in Change!SymbolIds(g)
    BY GraphParts
  <2> HIDE DEF g
  <2> QED
    BY <2>1, <2>2, <2>3, EdgeParts DEF Change!Resolution
<1>3. g = [symbols |-> g.symbols, edges |-> g.edges]
  BY GraphParts
<1> HIDE DEF g
<1>4. IsGraph(g)
  BY <1>1, <1>2, <1>3 DEF IsGraph
<1> QED
  BY <1>4 DEF g

-----------------------------------------------------------------------------
(* Wherever the edges that are not resolved lead, the others stay, and they *)
(* leave from where they left.                                              *)
LEMMA ElsewhereParts ==
  ASSUME NEW g, IsGraph(g), NEW w \in Change!Elsewhere(g)
  PROVE  /\ \A e \in g.edges : e.resolution = Change!Resolved => e \in w.edges
         /\ \A e \in w.edges : \E d \in g.edges :
              /\ e.from = d.from /\ e.kind = d.kind /\ e.to \in Change!SymbolIds(g)
              /\ d.resolution = Change!Resolved => e = d
<1>1. PICK at \in [Change!Weak(g) -> Change!SymbolIds(g)] :
        w = [g EXCEPT !.edges = (@ \ Change!Weak(g)) \union
                {[e EXCEPT !.to = at[e], !.resolution = Change!Resolved] : e \in Change!Weak(g)}]
  BY DEF Change!Elsewhere
<1> DEFINE led(e) == [e EXCEPT !.to = at[e], !.resolution = Change!Resolved]
<1>2. w.edges = (g.edges \ Change!Weak(g)) \union {led(e) : e \in Change!Weak(g)}
  BY <1>1 DEF IsGraph
<1>3. ASSUME NEW e \in Change!Weak(g)
      PROVE  led(e).from = e.from /\ led(e).kind = e.kind /\ led(e).to \in Change!SymbolIds(g)
  <2>1. e = [from |-> e.from, to |-> e.to, kind |-> e.kind, file |-> e.file,
             line |-> e.line, resolution |-> e.resolution]
    BY DEF IsGraph, Change!Weak
  <2>2. at[e] \in Change!SymbolIds(g)
    OBVIOUS
  <2> QED
    BY <2>1, <2>2
<1> HIDE DEF led
<1>4. \A e \in Change!Weak(g) : e \in g.edges /\ e.resolution # Change!Resolved
  BY DEF Change!Weak
<1>5. \A e \in g.edges \ Change!Weak(g) : e.resolution = Change!Resolved /\ e.to \in Change!SymbolIds(g)
  BY DEF Change!Weak, IsGraph
<1> QED
  BY <1>2, <1>3, <1>4, <1>5

(* The line that closes a check of one rule says what its verdict is.       *)
LEMMA LineIsVerdict ==
  ASSUME NEW verdict, NEW severity
  PROVE  LET line == Change!ClosingLine({[verdict |-> verdict, severity |-> severity]})
         IN  /\ line = "all satisfied" => verdict = "satisfied"
             /\ line \in {"failed", "advisory"} => verdict = "violated"
BY DEF Change!ClosingLine, Change!ShouldFail

(* What a verdict is given on.                                              *)
LEMMA JudgedOnEvidence ==
  ASSUME NEW evidence
  PROVE  /\ Change!Judge(evidence) = "violated" => evidence.violations # {}
         /\ Change!Judge(evidence) = "satisfied" => evidence.violations = {} /\ evidence.uncertain = {}
BY DEF Change!Judge

(* A rule on who may refer to what: an edge in scope that is not resolved   *)
(* leaves it undecided, wherever that edge seems to lead.                   *)
LEMMA ForbidIsCertain ==
  ASSUME NEW g, IsGraph(g), NEW rule \in Change!ScopeRules, NEW w \in Change!Elsewhere(g)
  PROVE  /\ Change!Judge(Change!ForbidEdges(g, rule)) = "satisfied" => ~Change!Breaks(w, rule)
         /\ Change!Judge(Change!ForbidEdges(g, rule)) = "violated" => Change!Breaks(w, rule)
<1> DEFINE in == {e \in g.edges : /\ rule.kind = "forbid-dependency" => Change!IsDependency(e)
                                  /\ Change!ScopePath(g, e.from) \in rule.from}
           evidence == Change!ForbidEdges(g, rule)
<1>1. /\ evidence.violations = {e \in in : e.resolution = Change!Resolved /\ Change!ScopePath(g, e.to) \in rule.to}
      /\ evidence.uncertain = {e \in in : e.resolution # Change!Resolved}
  BY DEF Change!ForbidEdges, Change!Evidence
<1>2. \A id \in Change!SymbolIds(g) : Change!ScopePath(g, id) = id[1]
  BY DEF Change!ScopePath
<1>3. \A e \in g.edges : e.from \in Change!SymbolIds(g) /\ e.to \in Change!SymbolIds(g)
  BY DEF IsGraph
<1>4. in = {e \in g.edges : /\ rule.kind = "forbid-dependency" => e.kind \in {"Imports", "ReExports"}
                            /\ e.from[1] \in rule.from}
  BY <1>2, <1>3 DEF Change!IsDependency
<1>5. Change!Breaks(w, rule) <=>
        \E e \in w.edges : /\ rule.kind = "forbid-dependency" => e.kind \in {"Imports", "ReExports"}
                           /\ e.from[1] \in rule.from
                           /\ e.to[1] \in rule.to
  BY DEF Change!Breaks, Change!ScopeRules, Change!IsDependency
<1> HIDE DEF in, evidence
<1>6. ASSUME evidence.violations # {} PROVE Change!Breaks(w, rule)
  <2>1. PICK e \in g.edges : e \in in /\ e.resolution = Change!Resolved /\ e.to[1] \in rule.to
    BY <1>1, <1>2, <1>3, <1>6 DEF in
  <2>2. e \in w.edges
    BY <2>1, ElsewhereParts
  <2> QED
    BY <1>4, <1>5, <2>1, <2>2
<1>7. ASSUME evidence.violations = {}, evidence.uncertain = {}, Change!Breaks(w, rule) PROVE FALSE
  <2>1. PICK e \in w.edges : /\ rule.kind = "forbid-dependency" => e.kind \in {"Imports", "ReExports"}
                             /\ e.from[1] \in rule.from
                             /\ e.to[1] \in rule.to
    BY <1>5, <1>7
  <2>2. PICK d \in g.edges : /\ e.from = d.from /\ e.kind = d.kind
                             /\ d.resolution = Change!Resolved => e = d
    BY ElsewhereParts
  <2>3. d \in in
    BY <1>4, <2>1, <2>2
  <2>4. d.resolution = Change!Resolved
    BY <1>1, <1>7, <2>3
  <2>5. d \in evidence.violations
    BY <1>1, <1>2, <1>3, <2>1, <2>2, <2>3, <2>4
  <2> QED
    BY <1>7, <2>5
<1>8. /\ Change!Judge(evidence) = "violated" => evidence.violations # {}
      /\ Change!Judge(evidence) = "satisfied" => evidence.violations = {} /\ evidence.uncertain = {}
  BY JudgedOnEvidence
<1> QED
  BY <1>6, <1>7, <1>8 DEF evidence

(* A rule on how many refer to one symbol is broken by resolved edges, to   *)
(* which those that are not only add, wherever they lead.                   *)
LEMMA BreachIsCertain ==
  ASSUME NEW g, IsGraph(g), NEW rule \in Change!FanInRules, NEW w \in Change!Elsewhere(g),
         Change!Judge(Change!MaxFanIn(g, rule)) = "violated"
  PROVE  Change!Breaks(w, rule)
<1> DEFINE targets == {e.to : e \in {e \in g.edges : ~Change!IsExternalPackage(e.to)}}
           strong(id) == {e \in g.edges : e.to = id /\ e.resolution = Change!Resolved}
           there(id) == {e \in w.edges : e.to = id}
           evidence == Change!MaxFanIn(g, rule)
<1>1. evidence.violations = {id \in targets : Cardinality(strong(id)) > rule.threshold}
  <2>1. \A id : Change!FanIn(g, id, Change!Resolved) = strong(id)
    BY DEF Change!FanIn, Change!Inbound
  <2> HIDE DEF strong
  <2> QED
    BY <2>1, SameLibrary DEF Change!MaxFanIn, Change!Evidence
<1>2. Change!Breaks(w, rule) <=>
        \E id \in Change!SymbolIds(w) : /\ ~Change!IsExternalPackage(id)
                                        /\ Cardinality(there(id)) > rule.threshold
  <2>1. \A id : Change!Inbound(w, id) = there(id)
    BY DEF Change!Inbound
  <2> HIDE DEF there
  <2> QED
    BY <2>1, SameLibrary DEF Change!Breaks, Change!FanInRules
<1>3. evidence.violations # {}
  BY JudgedOnEvidence
<1>4. PICK id \in targets : Cardinality(strong(id)) > rule.threshold
  BY <1>1, <1>3
<1>5. IsFiniteSet(w.edges) /\ w.symbols = g.symbols
  <2>1. PICK at \in [Change!Weak(g) -> Change!SymbolIds(g)] :
          w = [g EXCEPT !.edges = (@ \ Change!Weak(g)) \union
                  {[e EXCEPT !.to = at[e], !.resolution = Change!Resolved] : e \in Change!Weak(g)}]
    BY DEF Change!Elsewhere
  <2> DEFINE raised(e) == [e EXCEPT !.to = at[e], !.resolution = Change!Resolved]
             led == [e \in Change!Weak(g) |-> raised(e)]
  <2>2. /\ w.edges = (g.edges \ Change!Weak(g)) \union {raised(e) : e \in Change!Weak(g)}
        /\ w.symbols = g.symbols
    BY <2>1 DEF IsGraph
  <2> HIDE DEF raised
  <2>3. /\ DOMAIN led = Change!Weak(g)
        /\ {raised(e) : e \in Change!Weak(g)} = {led[e] : e \in Change!Weak(g)}
    OBVIOUS
  <2> HIDE DEF led
  <2>4. IsFiniteSet(Change!Weak(g)) /\ IsFiniteSet(g.edges \ Change!Weak(g))
    BY FS_Subset DEF IsGraph, Change!Weak
  <2>5. IsFiniteSet({led[e] : e \in Change!Weak(g)})
    BY <2>3, <2>4, ImageIsFinite
  <2>6. IsFiniteSet((g.edges \ Change!Weak(g)) \union {led[e] : e \in Change!Weak(g)})
    BY <2>4, <2>5, FS_Union
  <2> QED
    BY <2>2, <2>3, <2>6
<1>6. strong(id) \subseteq there(id) /\ IsFiniteSet(there(id))
  BY <1>5, ElsewhereParts, FS_Subset
<1>7. Cardinality(there(id)) > rule.threshold
  <2> HIDE DEF strong, there
  <2>1. IsFiniteSet(strong(id)) /\ Cardinality(strong(id)) <= Cardinality(there(id))
    BY <1>6, FS_Subset
  <2>2. Cardinality(strong(id)) \in Nat /\ Cardinality(there(id)) \in Nat /\ rule.threshold \in Nat
    BY <1>6, <2>1, FS_CardinalityType, NumbersAssumption DEF Change!FanInRules
  <2> QED
    BY <1>4, <2>1, <2>2
<1>8. id \in Change!SymbolIds(w) /\ ~Change!IsExternalPackage(id)
  BY <1>4, <1>5 DEF IsGraph, Change!SymbolIds
<1> HIDE DEF there
<1> QED
  BY <1>2, <1>7, <1>8

(* Edges that are not resolved add no more to the count than there are.     *)
LEMMA FanInIsCertain ==
  ASSUME NEW g, IsGraph(g), NEW rule \in Change!FanInRules, NEW w \in Change!Doubted(g),
         Change!Judge(Change!MaxFanIn(g, rule)) = "satisfied"
  PROVE  ~Change!Breaks(w, rule)
<1> DEFINE targets == {e.to : e \in {e \in g.edges : ~Change!IsExternalPackage(e.to)}}
           all(id) == {e \in g.edges : e.to = id}
           strong(id) == {e \in g.edges : e.to = id /\ e.resolution = Change!Resolved}
           weak(id) == {e \in g.edges : e.to = id /\ e.resolution = Change!Structural}
           there(id) == {e \in w.edges : e.to = id}
           over == {id \in targets : Cardinality(strong(id)) > rule.threshold}
           evidence == Change!MaxFanIn(g, rule)
<1>1. /\ evidence.violations = over
      /\ evidence.uncertain = UNION {weak(id) : id \in {id \in targets \ over : Cardinality(all(id)) > rule.threshold}}
  <2>1. \A id : Change!FanIn(g, id, Change!Resolved) = strong(id)
    BY DEF Change!FanIn, Change!Inbound
  <2>2. \A id : Change!FanIn(g, id, Change!Structural) = weak(id)
    BY DEF Change!FanIn, Change!Inbound
  <2>3. \A id : Change!Inbound(g, id) = all(id)
    BY DEF Change!Inbound
  <2> HIDE DEF strong, weak, all
  <2> QED
    BY <2>1, <2>2, <2>3, SameLibrary DEF Change!MaxFanIn, Change!Evidence
<1>2. Change!Breaks(w, rule) <=>
        \E id \in Change!SymbolIds(w) : /\ ~Change!IsExternalPackage(id)
                                        /\ Cardinality(there(id)) > rule.threshold
  <2>1. \A id : Change!Inbound(w, id) = there(id)
    BY DEF Change!Inbound
  <2> HIDE DEF there
  <2> QED
    BY <2>1, SameLibrary DEF Change!Breaks, Change!FanInRules
<1>3. rule.threshold \in Nat
  BY NumbersAssumption DEF Change!FanInRules
<1>4. PICK real \in SUBSET Change!Weak(g) :
        w = [g EXCEPT !.edges = (@ \ Change!Weak(g)) \union
                {[e EXCEPT !.resolution = Change!Resolved] : e \in real}]
  BY DEF Change!Doubted
<1> DEFINE known == [e \in g.edges |-> IF e \in real THEN [e EXCEPT !.resolution = Change!Resolved] ELSE e]
<1>5. /\ w.edges = {known[e] : e \in (g.edges \ Change!Weak(g)) \union real}
      /\ w.symbols = g.symbols
  <2> DEFINE raised(e) == [e EXCEPT !.resolution = Change!Resolved]
  <2>1. /\ w.edges = (g.edges \ Change!Weak(g)) \union {raised(e) : e \in real}
        /\ w.symbols = g.symbols
    BY <1>4 DEF IsGraph
  <2>2. Change!Weak(g) \subseteq g.edges /\ real \subseteq Change!Weak(g)
    BY DEF Change!Weak
  <2>3. /\ \A e \in real : known[e] = raised(e)
        /\ \A e \in g.edges \ Change!Weak(g) : known[e] = e
    BY <2>2
  <2> HIDE DEF known, raised
  <2> QED
    BY <2>1, <2>2, <2>3
<1>6. \A e \in g.edges : known[e].to = e.to
  BY DEF IsGraph
<1>7. \A id : IsFiniteSet(all(id))
  BY FS_Subset DEF IsGraph
<1>8. ASSUME NEW id PROVE Cardinality(there(id)) <= Cardinality(all(id)) /\ IsFiniteSet(there(id))
  <2> DEFINE counted == {e \in (g.edges \ Change!Weak(g)) \union real : e.to = id}
             k == [e \in counted |-> known[e]]
  <2>1. counted \subseteq all(id)
    BY DEF Change!Weak
  <2>2. IsFiniteSet(counted) /\ Cardinality(counted) <= Cardinality(all(id))
    <3>1. IsFiniteSet(all(id))
      BY <1>7
    <3> HIDE DEF counted, all
    <3> QED
      BY <2>1, <3>1, FS_Subset
  <2>3. there(id) = {k[e] : e \in counted} /\ DOMAIN k = counted
    <3>1. \A e \in (g.edges \ Change!Weak(g)) \union real : known[e].to = e.to
      BY <1>6 DEF Change!Weak
    <3> HIDE DEF known
    <3>2. there(id) = {known[e] : e \in counted}
      <4>1. ASSUME NEW d \in there(id) PROVE d \in {known[e] : e \in counted}
        BY <1>5, <3>1, <4>1
      <4>2. ASSUME NEW e \in counted PROVE known[e] \in there(id)
        BY <1>5, <3>1, <4>2
      <4> QED
        BY <4>1, <4>2
    <3>3. \A e \in counted : k[e] = known[e]
      OBVIOUS
    <3> HIDE DEF there, counted
    <3> QED
      BY <3>2, <3>3
  <2> HIDE DEF counted, k, all, there
  <2>4. IsFiniteSet(there(id)) /\ Cardinality(there(id)) <= Cardinality(counted)
    BY <2>2, <2>3, ImageIsFinite
  <2>5. Cardinality(there(id)) \in Nat /\ Cardinality(counted) \in Nat /\ Cardinality(all(id)) \in Nat
    BY <1>7, <2>2, <2>4, FS_CardinalityType
  <2> QED
    BY <2>2, <2>4, <2>5
<1> HIDE DEF known
<1>9. \A id : Cardinality(there(id)) \in Nat /\ Cardinality(all(id)) \in Nat
  <2> HIDE DEF all, there
  <2> QED
    BY <1>7, <1>8, FS_CardinalityType
<1>10. evidence.violations = {} /\ evidence.uncertain = {}
  BY JudgedOnEvidence
<1>11. ASSUME Change!Breaks(w, rule) PROVE FALSE
  <2>1. PICK id : ~Change!IsExternalPackage(id) /\ Cardinality(there(id)) > rule.threshold
    BY <1>2, <1>11
  <2>2. Cardinality(all(id)) > rule.threshold
    <3> HIDE DEF there, all
    <3> QED
      <4>1. Cardinality(there(id)) <= Cardinality(all(id))
        BY <1>8
      <4>2. Cardinality(all(id)) \in Nat /\ Cardinality(there(id)) \in Nat
        BY <1>9
      <4> QED
        BY <1>3, <2>1, <4>1, <4>2
  <2>3. all(id) # {}
    <3> HIDE DEF all
    <3> QED
      BY <1>3, <2>2, FS_EmptySet
  <2>4. id \in targets
    BY <2>1, <2>3
  <2>5. id \notin over
    BY <1>1, <1>10
  <2>6. weak(id) = {}
    <3> HIDE DEF weak, all, targets, over
    <3> QED
      BY <1>1, <1>10, <2>2, <2>4, <2>5
  <2>7. all(id) = strong(id)
    BY <2>6 DEF IsGraph
  <2> HIDE DEF strong, all, targets
  <2> QED
    BY <2>2, <2>4, <2>5, <2>7
<1> QED
  BY <1>11

(* A check says that a rule is broken, or a scope rule satisfied, only if   *)
(* it is so wherever the edges lead that could not be resolved, and that    *)
(* max-fan-in is satisfied only if it is so whichever of them are real      *)
(* (rule_eval.rs; check.rs, report).                                        *)
THEOREM VerdictsAreCertain == QuestionsSpec => []VerdictIsCertain
<1>1. ComparisonInv => VerdictIsCertain
  <2> SUFFICES ASSUME ComparisonInv, judged # NONE,
                      NEW rule \in Change!ScopeRules \union Change!FanInRules,
                      NEW severity \in Change!Severities
               PROVE  LET g == judged.after
                          line == Change!ClosingLine({[verdict |-> Change!Verdict(rule, g, NONE),
                                                       severity |-> severity]})
                      IN  /\ line = "all satisfied" =>
                               \A w \in IF rule.kind = "max-fan-in" THEN Change!Doubted(g)
                                                                    ELSE Change!Elsewhere(g) :
                                 ~Change!Breaks(w, rule)
                          /\ line \in {"failed", "advisory"} =>
                               \A w \in Change!Elsewhere(g) : Change!Breaks(w, rule)
    BY DEF VerdictIsCertain, Change!VerdictIsCertain
  <2> DEFINE g == judged.after
             verdict == Change!Verdict(rule, g, NONE)
  <2>1. IsGraph(g)
    BY BuiltGraph DEF ComparisonInv, Sources, Compared, Change!Judgement
  <2> HIDE DEF g
  <2>2. LET line == Change!ClosingLine({[verdict |-> verdict, severity |-> severity]})
        IN  /\ line = "all satisfied" => verdict = "satisfied"
            /\ line \in {"failed", "advisory"} => verdict = "violated"
    BY LineIsVerdict
  <2>3. CASE rule \in Change!ScopeRules
    <3>1. rule.kind # "max-fan-in" /\ verdict = Change!Judge(Change!ForbidEdges(g, rule))
      BY <2>3 DEF Change!ScopeRules, Change!Verdict
    <3> HIDE DEF verdict
    <3> QED
      BY <2>1, <2>2, <2>3, <3>1, ForbidIsCertain DEF verdict, g
  <2>4. CASE rule \in Change!FanInRules
    <3>1. rule.kind = "max-fan-in" /\ verdict = Change!Judge(Change!MaxFanIn(g, rule))
      BY <2>4 DEF Change!FanInRules, Change!Verdict
    <3> QED
      BY <2>1, <2>2, <2>4, <3>1, FanInIsCertain, BreachIsCertain DEF verdict, g
  <2> QED
    BY <2>3, <2>4
<1> QED
  BY <1>1, ComparisonInvariant, PTL

-----------------------------------------------------------------------------
(* Edges of kind tests lead from test files to others.                      *)
LEMMA TestsLeadOut ==
  ASSUME NEW source, Change!IsSource(source), NEW p \in Change!TestEdges(Change!GraphOf(source))
  PROVE  p = <<p[1], p[2]>> /\ p[1][1] \in ComparedTests /\ p[2][1] \notin ComparedTests
<1> DEFINE bound == {r \in source.refs : Change!Binds(source, r)}
           exercises == {r \in bound : /\ r.from[1] \in ComparedTests
                                       /\ r.to[1] \notin ComparedTests \union {0}
                                       /\ \A q \in bound : q.from = r.from /\ q.to = r.to => r.line <= q.line}
           g == Change!GraphOf(source)
<1>1. g.edges = {Change!Edge(r.kind, r) : r \in bound} \union {Change!Edge("Tests", r) : r \in exercises}
  BY DEF Change!GraphOf
<1> HIDE DEF g
<1>2. PICK e \in g.edges : e.kind = "Tests" /\ p = <<e.from, e.to>>
  BY DEF Change!TestEdges, g
<1>3. ASSUME NEW r \in bound PROVE Change!Edge(r.kind, r).kind # "Tests"
  <2>1. r.kind \in {"Calls", "Imports"}
    BY DEF Change!IsSource, Change!Reference
  <2> QED
    BY <2>1, EdgeParts
<1>4. PICK r \in exercises : e = Change!Edge("Tests", r)
  BY <1>1, <1>2, <1>3
<1>5. e.from = r.from /\ e.to = r.to
  BY <1>4, EdgeParts
<1> QED
  BY <1>2, <1>4, <1>5

(* What a finding is made of.                                               *)
LEMMA AccusationParts ==
  ASSUME NEW detector, NEW of, NEW others
  PROVE  LET f == Change!Accusation(detector, of, others)
         IN  /\ f.id[1] = detector /\ f.id[2] = {of} \union others /\ f.of = of
             /\ f = [id |-> <<detector, f.id[2]>>, of |-> of, file |-> of[1]]
BY DEF Change!Accusation, Change!FindingId

(* Two findings of one detector that share their subjects are about the     *)
(* same one: no test is tested, nothing that is removed survives, and what  *)
(* is new and tested is no test.                                            *)
LEMMA SubjectsTell ==
  ASSUME NEW b, Change!IsSource(b), NEW a, Change!IsSource(a)
  PROVE  LET g == Change!GraphOf(b)
             h == Change!GraphOf(a)
             delta == Change!Compute(g, h)
         IN  \A e, f \in Change!Raw(g, h, delta) : e.id = f.id => e = f
<1> DEFINE g == Change!GraphOf(b)
           h == Change!GraphOf(a)
           delta == Change!Compute(g, h)
           tampering == Change!TestTampering(g, h, delta)
           erosion == Change!ContractErosion(g, h, delta)
           dead == Change!DeadOnArrival(g, h, delta)
<1>1. ASSUME NEW p \in Change!TestEdges(g)
      PROVE  p = <<p[1], p[2]>> /\ p[1][1] \in ComparedTests /\ p[2][1] \notin ComparedTests
  BY <1>1, TestsLeadOut
<1>2. ASSUME NEW p \in Change!TestEdges(h)
      PROVE  p = <<p[1], p[2]>> /\ p[1][1] \in ComparedTests /\ p[2][1] \notin ComparedTests
  BY <1>2, TestsLeadOut
<1>3. \A s \in delta.removed : Change!IdOf(s) \notin Change!SymbolIds(h)
  BY DEF Change!Compute, Change!Gone
<1> HIDE DEF g, h, delta
<1>4. ASSUME NEW f \in tampering
      PROVE  \E test, covered : /\ f = Change!Accusation("test-tampering", test, {covered})
                                /\ test[1] \in ComparedTests /\ covered[1] \notin ComparedTests
  BY <1>1 DEF Change!TestTampering
<1>5. ASSUME NEW f \in erosion
      PROVE  \E id, left : /\ f = Change!Accusation("contract-erosion", id, left)
                           /\ id \notin Change!SymbolIds(h) /\ left \subseteq Change!SymbolIds(h)
  <2>1. PICK s \in delta.removed :
          f = Change!Accusation("contract-erosion", Change!IdOf(s), Change!Survivors(g, h, Change!IdOf(s)))
    BY DEF Change!ContractErosion
  <2>2. Change!Survivors(g, h, Change!IdOf(s)) \subseteq Change!SymbolIds(h)
    BY DEF Change!Survivors
  <2> QED
    BY <1>3, <2>1, <2>2
<1>6. ASSUME NEW f \in dead
      PROVE  \E id, T : /\ f = Change!Accusation("dead-on-arrival", id, T)
                        /\ id[1] \notin ComparedTests /\ \A test \in T : test[1] \in ComparedTests
  <2>1. PICK s \in delta.added :
          /\ f = Change!Accusation("dead-on-arrival", Change!IdOf(s), Change!CoveringTests(h, Change!IdOf(s)))
          /\ Change!CoveringTests(h, Change!IdOf(s)) # {}
    BY DEF Change!DeadOnArrival
  <2>2. \A test \in Change!CoveringTests(h, Change!IdOf(s)) :
          test[1] \in ComparedTests /\ Change!IdOf(s)[1] \notin ComparedTests
    BY <1>2 DEF Change!CoveringTests
  <2> QED
    BY <2>1, <2>2
<1> HIDE DEF tampering, erosion, dead
<1>7. ASSUME NEW detector, NEW x, NEW y, NEW S, NEW T,
             Change!Accusation(detector, x, S).id = Change!Accusation(detector, y, T).id,
             x \in T => x = y
      PROVE  Change!Accusation(detector, x, S) = Change!Accusation(detector, y, T)
  <2>1. {x} \union S = {y} \union T
    BY <1>7, AccusationParts
  <2>2. x = y
    BY <1>7, <2>1
  <2> QED
    BY <2>1, <2>2 DEF Change!Accusation
<1>8. ASSUME NEW e \in tampering, NEW f \in tampering, e.id = f.id PROVE e = f
  <2>1. PICK t, c : e = Change!Accusation("test-tampering", t, {c}) /\ t[1] \in ComparedTests
    BY <1>4
  <2>2. PICK u, d : f = Change!Accusation("test-tampering", u, {d}) /\ d[1] \notin ComparedTests
    BY <1>4
  <2>3. t \in {d} => t = u
    BY <2>1, <2>2
  <2> QED
    BY <1>7, <1>8, <2>1, <2>2, <2>3
<1>9. ASSUME NEW e \in erosion, NEW f \in erosion, e.id = f.id PROVE e = f
  <2>1. PICK x, S : e = Change!Accusation("contract-erosion", x, S) /\ x \notin Change!SymbolIds(h)
    BY <1>5
  <2>2. PICK y, T : f = Change!Accusation("contract-erosion", y, T) /\ T \subseteq Change!SymbolIds(h)
    BY <1>5
  <2> QED
    BY <1>7, <1>9, <2>1, <2>2
<1>10. ASSUME NEW e \in dead, NEW f \in dead, e.id = f.id PROVE e = f
  <2>1. PICK x, S : e = Change!Accusation("dead-on-arrival", x, S) /\ x[1] \notin ComparedTests
    BY <1>6
  <2>2. PICK y, T : /\ f = Change!Accusation("dead-on-arrival", y, T)
                    /\ \A test \in T : test[1] \in ComparedTests
    BY <1>6
  <2> QED
    BY <1>7, <1>10, <2>1, <2>2
<1>11. /\ \A f \in tampering : f.id[1] = "test-tampering"
       /\ \A f \in erosion : f.id[1] = "contract-erosion"
       /\ \A f \in dead : f.id[1] = "dead-on-arrival"
  <2>1. \A detector, of, others : Change!Accusation(detector, of, others).id[1] = detector
    BY AccusationParts
  <2>2. ASSUME NEW f \in tampering PROVE f.id[1] = "test-tampering"
    <3>1. PICK t, c : f = Change!Accusation("test-tampering", t, {c})
      BY <1>4
    <3> QED
      BY <2>1, <3>1
  <2>3. ASSUME NEW f \in erosion PROVE f.id[1] = "contract-erosion"
    BY <1>5, <2>1
  <2>4. ASSUME NEW f \in dead PROVE f.id[1] = "dead-on-arrival"
    BY <1>6, <2>1
  <2> QED
    BY <2>2, <2>3, <2>4
<1>12. \A f \in Change!Raw(g, h, delta) : f \in tampering \union erosion \union dead
  BY DEF Change!Raw, tampering, erosion, dead
<1>13. \A e, f \in Change!Raw(g, h, delta) : e.id = f.id => e = f
  BY <1>8, <1>9, <1>10, <1>11, <1>12
<1> QED
  BY <1>13 DEF g, h, delta

(* An entry of the ignore file hides one finding, whatever the change: what *)
(* shares an id would be dropped without a word (audit/mod.rs, run and      *)
(* dedup_by; detectors.rs).                                                 *)
THEOREM EntriesHideOne == QuestionsSpec => []AnEntryHidesOneFinding
<1>1. ComparisonInv => AnEntryHidesOneFinding
  <2> SUFFICES ASSUME ComparisonInv, judged # NONE, NEW f \in judged.raw
               PROVE  LET report == Change!Report(judged.raw, {f.id})
                      IN  report.suppressed = {f} /\ report.findings = judged.raw \ {f}
    BY DEF AnEntryHidesOneFinding, Change!AnEntryHidesOneFinding
  <2> DEFINE raw == judged.raw
             kept == {CHOOSE x \in raw : x.id = id : id \in {x.id : x \in raw}}
             report == Change!Report(raw, {f.id})
  <2>1. \A x, y \in raw : x.id = y.id => x = y
    <3>1. /\ Change!IsSource(before) /\ Change!IsSource(after)
          /\ judged = Change!Judgement(Change!GraphOf(before), Change!GraphOf(after))
      BY BaselinesAssumption DEF ComparisonInv, Sources, Compared
    <3> QED
      BY <3>1, SubjectsTell DEF Change!Judgement
  <2> HIDE DEF raw
  <2>2. ASSUME NEW x \in raw PROVE (CHOOSE y \in raw : y.id = x.id) = x
    BY <2>1
  <2>3. kept = raw
    BY <2>2
  <2>4. report.suppressed = {x \in kept : x.id \in {f.id}} /\ report.findings = kept \ report.suppressed
    BY DEF Change!Report
  <2> HIDE DEF kept, report
  <2>5. f \in raw
    BY DEF raw
  <2> QED
    BY <2>1, <2>3, <2>4, <2>5 DEF report, raw
<1> QED
  BY <1>1, ComparisonInvariant, PTL

-----------------------------------------------------------------------------
(* What compute takes for removed is what is gone and does not live on      *)
(* under another id, and how the pairs were chosen does not matter.         *)
LEMMA RemovedParts ==
  ASSUME NEW g, NEW h, NEW s \in g.symbols, Change!IdOf(s) \notin Change!SymbolIds(h),
         LET delta == Change!Compute(g, h)
         IN  Change!IdOf(s) \notin {Change!IdOf(c.before) : c \in delta.continuities}
  PROVE  s \in Change!Compute(g, h).removed
<1> DEFINE delta == Change!Compute(g, h)
<1>1. delta.removed = Change!Gone(g, h) \ {c.before : c \in delta.continuities}
  BY DEF Change!Compute
<1>2. s \in Change!Gone(g, h)
  BY DEF Change!Gone
<1> HIDE DEF delta
<1>3. s \notin {c.before : c \in delta.continuities}
  BY DEF delta
<1> QED
  BY <1>1, <1>2, <1>3 DEF delta

(* What is left behind of a removed symbol is reported with it, as a        *)
(* finding as weak as its weakest edge.                                     *)
LEMMA BrokenParts ==
  ASSUME NEW g, NEW h, NEW delta, NEW s \in delta.removed, NEW e \in Change!LeftBehind(g, h, delta, s),
         \A d \in Change!LeftBehind(g, h, delta, s) : d.resolution = Change!Resolved
  PROVE  LET diff == Change!Derive(g, h, delta)
         IN  /\ \E f \in Change!GateSafe(diff.findings) :
                  f.kind = "broken edge" /\ f.symbol = s /\ e \in f.referrers
             /\ e.from \in diff.blastRadius
<1> DEFINE left(t) == Change!LeftBehind(g, h, delta, t)
           broken == {Change!Finding("broken edge", t, left(t)) : t \in {r \in delta.removed : left(r) # {}}}
           diff == Change!Derive(g, h, delta)
           f == Change!Finding("broken edge", s, left(s))
<1>1. f.kind = "broken edge" /\ f.symbol = s /\ f.referrers = left(s)
  BY DEF Change!Finding
<1>2. f.resolution = Change!Resolved
  <2>1. f.resolution = Change!Weakest(left(s))
    BY DEF Change!Finding
  <2>2. left(s) # {} /\ \A d \in left(s) : d.resolution # Change!Structural
    BY DEF Change!Structural, Change!Resolved
  <2> HIDE DEF f, left
  <2> QED
    BY <2>1, <2>2 DEF Change!Weakest
<1> HIDE DEF left
<1>3. f \in broken
  BY DEF left
<1>4. broken \subseteq diff.findings
  BY DEF Change!Derive, left
<1>5. ASSUME NEW x \in broken, NEW d \in x.referrers, d.resolution = Change!Resolved
      PROVE  d.from \in diff.blastRadius
  BY <1>5 DEF Change!Derive, left
<1> HIDE DEF f, broken, diff
<1>6. e \in f.referrers /\ e.resolution = Change!Resolved
  BY <1>1 DEF left
<1>7. f \in Change!GateSafe(diff.findings)
  BY <1>2, <1>3, <1>4 DEF Change!GateSafe
<1>8. e.from \in diff.blastRadius
  BY <1>3, <1>5, <1>6
<1> QED
  BY <1>1, <1>6, <1>7, <1>8 DEF diff

(* A reference that import resolution had bound, and that a change left     *)
(* without a target, is reported with its target and in the blast radius,   *)
(* however the symbols of the change were paired: no weaker reference can   *)
(* share its target, and who it is from is still there (delta.rs, compute;  *)
(* findings.rs, derive and gate_safe).                                      *)
THEOREM StaleReferencesAreReported == QuestionsSpec => []StaleReferenceIsReported
<1>1. ComparisonInv => StaleReferenceIsReported
  <2> DEFINE g == Change!GraphOf(before)
             h == Change!GraphOf(after)
             delta == Change!Compute(g, h)
             diff == Change!Derive(g, h, delta)
  <2> SUFFICES ASSUME ComparisonInv, judged # NONE,
                      NEW r \in before.refs, NEW q \in after.refs,
                      q.from = r.from, q.to = r.to,
                      Change!Binds(before, r), ~Change!Binds(after, q),
                      Change!Resolution(r) = Change!Resolved,
                      r.from[1] \notin Change!EditedFiles(delta),
                      r.to \notin {Change!IdOf(c.before) : c \in delta.continuities}
               PROVE  /\ \E f \in Change!GateSafe(diff.findings) :
                           /\ f.kind = "broken edge"
                           /\ Change!IdOf(f.symbol) = r.to
                           /\ Change!Edge(r.kind, r) \in f.referrers
                      /\ r.from \in diff.blastRadius
    <3>1. ASSUME ComparisonInv, judged # NONE
          PROVE  judged.delta = delta /\ judged.diff = diff
      <4>1. judged = Change!Judgement(g, h)
        BY <3>1 DEF ComparisonInv, Compared
      <4> HIDE DEF g, h
      <4> QED
        BY <4>1 DEF Change!Judgement
    <3> HIDE DEF delta, diff
    <3> QED
      BY <3>1 DEF StaleReferenceIsReported, Change!StaleReferenceIsReported
  <2>1. /\ Change!IsSource(before) /\ Change!FilesApart(before)
        /\ Change!IsSource(after)
    BY BaselinesAssumption DEF ComparisonInv, Sources, Compared
  <2>2. PICK s \in before.symbols : Change!IdOf(s) = r.to
    BY DEF Change!Binds, Change!SymbolIds
  <2>3. r.to \notin Change!SymbolIds(after) /\ r.to[3] # "package"
    BY DEF Change!Binds, Change!IsExternalPackage
  <2>4. s \in delta.removed
    <3>1. s \in g.symbols
      BY <2>1, GraphParts
    <3>2. \A t \in h.symbols : t \in after.symbols \/ Change!IdOf(t) \in Change!Packages
      BY <2>1, GraphParts
    <3>3. r.to \notin Change!SymbolIds(h)
      <4> HIDE DEF h
      <4> QED
        BY <2>3, <3>2 DEF Change!SymbolIds, Change!Packages
    <3> HIDE DEF g, h
    <3> QED
      BY <2>2, <3>1, <3>3, RemovedParts
  <2>5. Change!Edge(r.kind, r) \in Change!LeftBehind(g, h, delta, s)
    <3>1. Change!Edge(r.kind, r) \in g.edges
      BY <2>1, GraphParts
    <3>2. r.from \in Change!SymbolIds(h)
      <4>1. after.symbols \subseteq h.symbols /\ q.from \in Change!SymbolIds(after)
        BY <2>1, GraphParts DEF Change!IsSource
      <4> HIDE DEF h
      <4> QED
        BY <4>1 DEF Change!SymbolIds
    <3> HIDE DEF g, h, delta
    <3> QED
      BY <2>2, <3>1, <3>2, EdgeParts DEF Change!LeftBehind, Change!Inbound
  <2>6. \A d \in Change!LeftBehind(g, h, delta, s) : d.resolution = Change!Resolved
    <3> SUFFICES ASSUME NEW d \in Change!LeftBehind(g, h, delta, s)
                 PROVE  d.resolution = Change!Resolved
      OBVIOUS
    <3>1. d \in g.edges /\ d.to = r.to
      <4> HIDE DEF g, h, delta
      <4> QED
        BY <2>2 DEF Change!LeftBehind, Change!Inbound
    <3>2. PICK x \in before.refs : \E kind : d = Change!Edge(kind, x)
      BY <2>1, <3>1, GraphParts
    <3>3. x.to = r.to /\ d.resolution = Change!Resolution(x)
      <4>1. PICK kind : d = Change!Edge(kind, x)
        BY <3>2
      <4> QED
        BY <3>1, <4>1, EdgeParts
    <3>4. r.from[1] \notin ComparedStructural
      BY DEF Change!Resolution, Change!Structural, Change!Resolved
    <3>5. r.to[1] \notin ComparedStructural
      BY <2>1, <3>4 DEF Change!FilesApart
    <3>6. x.from[1] \notin ComparedStructural
      BY <2>1, <3>3, <3>5 DEF Change!FilesApart
    <3> QED
      BY <3>3, <3>6 DEF Change!Resolution
  <2> HIDE DEF g, h, delta
  <2>7. /\ \E f \in Change!GateSafe(diff.findings) :
             /\ f.kind = "broken edge" /\ f.symbol = s
             /\ Change!Edge(r.kind, r) \in f.referrers
        /\ Change!Edge(r.kind, r).from \in diff.blastRadius
    <3>1. PICK e : e = Change!Edge(r.kind, r)
      OBVIOUS
    <3>2. e \in Change!LeftBehind(g, h, delta, s)
      BY <2>5, <3>1
    <3>3. /\ \E f \in Change!GateSafe(Change!Derive(g, h, delta).findings) :
               f.kind = "broken edge" /\ f.symbol = s /\ e \in f.referrers
          /\ e.from \in Change!Derive(g, h, delta).blastRadius
      BY <2>4, <2>6, <3>2, BrokenParts
    <3> QED
      BY <3>1, <3>3 DEF diff
  <2>8. Change!Edge(r.kind, r).from = r.from
    BY EdgeParts
  <2> HIDE DEF diff
  <2> QED
    BY <2>2, <2>7, <2>8
<1> QED
  BY <1>1, ComparisonInvariant, PTL

-----------------------------------------------------------------------------
(* The ids a graph can have.                                                *)
AnyIds == Change!DeclaredIds \union Change!Packages

(* Kinds are told apart by their suffixes.                                  *)
LEMMA KindsAreOrdered ==
  /\ Change!IndexOfKind("class") = 1 /\ Change!IndexOfKind("function") = 2
  /\ Change!IndexOfKind("module") = 3 /\ Change!IndexOfKind("package") = 4
  /\ Change!IndexOfKind("property") = 5
BY DEF Change!IndexOfKind, Change!KindOrder

(* Ids are in a total order: by file, name and kind.                        *)
LEMMA IdsAreOrdered ==
  ASSUME NEW a \in AnyIds, NEW b \in AnyIds, NEW c \in AnyIds
  PROVE  /\ ~Change!IdPrecedes(a, a)
         /\ Change!IdPrecedes(a, b) /\ Change!IdPrecedes(b, c) => Change!IdPrecedes(a, c)
         /\ a = b \/ Change!IdPrecedes(a, b) \/ Change!IdPrecedes(b, a)
<1> DEFINE KindSuffixes == {"class", "function", "module", "package", "property"}
<1>1. \A id \in AnyIds : /\ id = <<id[1], id[2], id[3]>>
                         /\ id[1] \in Nat /\ id[2] \in Nat /\ id[3] \in KindSuffixes
  <2>1. ASSUME NEW id \in Change!DeclaredIds
        PROVE  /\ id = <<id[1], id[2], id[3]>>
               /\ id[1] \in Nat /\ id[2] \in Nat /\ id[3] \in KindSuffixes
    <3>1. PICK f \in ComparedFiles, n \in Names, k \in {"class", "function", "module", "property"} :
            id = <<f, n, k>>
      BY DEF Change!DeclaredIds
    <3>2. f \in Nat /\ n \in Nat
      BY NumbersAssumption
    <3> QED
      BY <3>1, <3>2
  <2>2. ASSUME NEW id \in Change!Packages
        PROVE  /\ id = <<id[1], id[2], id[3]>>
               /\ id[1] \in Nat /\ id[2] \in Nat /\ id[3] \in KindSuffixes
    BY DEF Change!Packages
  <2> HIDE DEF KindSuffixes
  <2> QED
    BY <2>1, <2>2 DEF AnyIds
<1>2. \A k \in KindSuffixes : Change!IndexOfKind(k) \in Nat
  BY KindsAreOrdered
<1>3. \A k, l \in KindSuffixes : Change!IndexOfKind(k) = Change!IndexOfKind(l) => k = l
  BY KindsAreOrdered
<1> HIDE DEF KindSuffixes
<1> DEFINE rank(id) == Change!IndexOfKind(id[3])
<1>4. ASSUME NEW i \in AnyIds, NEW j \in AnyIds
      PROVE  Change!IdPrecedes(i, j) <=> \/ i[1] < j[1]
                                         \/ i[1] = j[1] /\ i[2] < j[2]
                                         \/ i[1] = j[1] /\ i[2] = j[2] /\ rank(i) < rank(j)
  BY DEF Change!IdPrecedes
<1>5. \A id \in AnyIds : id[1] \in Nat /\ id[2] \in Nat /\ rank(id) \in Nat
  BY <1>1, <1>2
<1>6. ASSUME a[1] = b[1], a[2] = b[2], rank(a) = rank(b) PROVE a = b
  BY <1>1, <1>3, <1>6
<1> HIDE DEF rank
<1>7. /\ a[1] \in Nat /\ a[2] \in Nat /\ rank(a) \in Nat
      /\ b[1] \in Nat /\ b[2] \in Nat /\ rank(b) \in Nat
      /\ c[1] \in Nat /\ c[2] \in Nat /\ rank(c) \in Nat
  BY <1>5
<1>8. ~Change!IdPrecedes(a, a)
  BY <1>4, <1>7
<1>9. Change!IdPrecedes(a, b) /\ Change!IdPrecedes(b, c) => Change!IdPrecedes(a, c)
  BY <1>4, <1>7
<1>10. a = b \/ Change!IdPrecedes(a, b) \/ Change!IdPrecedes(b, a)
  BY <1>4, <1>6, <1>7
<1> QED
  BY <1>8, <1>9, <1>10

(* The candidates compute makes of what is removed and what is added.       *)
Candidates(removed, added) ==
  {Change!Pair(p[1], p[2]) : p \in {p \in removed \X added :
      Change!ContinuationBetween(p[1], p[2]) # Change!NoContinuation}}

(* Symbols of which no two have the same id.                                *)
Distinct(symbols) ==
  /\ \A s \in symbols : Change!IdOf(s) \in AnyIds
  /\ \A s, t \in symbols : Change!IdOf(s) = Change!IdOf(t) => s = t

(* Ranks are numbers.                                                       *)
LEMMA RankIsNumber ==
  ASSUME NEW how \in {"renamed", "moved", "renamedAndMoved"}, NEW matches
  PROVE  Change!PairingRank(how, matches) \in Nat
BY DEF Change!PairingRank

(* A candidate is what its two symbols make it.                             *)
LEMMA CandidateParts ==
  ASSUME NEW removed, NEW added, NEW c \in Candidates(removed, added)
  PROVE  /\ c.before \in removed /\ c.after \in added
         /\ c = Change!Pair(c.before, c.after)
         /\ c.rank \in Nat
<1>1. PICK p \in removed \X added : /\ Change!ContinuationBetween(p[1], p[2]) # Change!NoContinuation
                                    /\ c = Change!Pair(p[1], p[2])
  BY DEF Candidates
<1>2. c.before = p[1] /\ c.after = p[2]
      /\ c.rank = Change!PairingRank(Change!ContinuationBetween(p[1], p[2]), Change!RenamesTo(p[1], p[2]))
  BY <1>1 DEF Change!Pair
<1>3. Change!ContinuationBetween(p[1], p[2]) \in {"renamed", "moved", "renamedAndMoved"}
  BY <1>1 DEF Change!ContinuationBetween, Change!NoContinuation
<1>5. c.rank \in Nat
  BY <1>2, <1>3, RankIsNumber
<1> QED
  BY <1>1, <1>2, <1>5

(* Candidates are in a strict total order, so that nothing is left to how   *)
(* the sort happens to treat equals.                                        *)
LEMMA CandidatesAreOrdered ==
  ASSUME NEW removed, Distinct(removed), NEW added, Distinct(added),
         NEW x \in Candidates(removed, added), NEW y \in Candidates(removed, added),
         NEW z \in Candidates(removed, added)
  PROVE  /\ ~Change!PairPrecedes(x, x)
         /\ Change!PairPrecedes(x, y) /\ Change!PairPrecedes(y, z) => Change!PairPrecedes(x, z)
         /\ x = y \/ Change!PairPrecedes(x, y) \/ Change!PairPrecedes(y, x)
<1> DEFINE b(c) == Change!IdOf(c.before)
           a(c) == Change!IdOf(c.after)
<1>1. ASSUME NEW c \in {x, y, z} PROVE b(c) \in AnyIds /\ a(c) \in AnyIds /\ c.rank \in Nat
  BY CandidateParts DEF Distinct
<1>2. ASSUME b(x) = b(y), a(x) = a(y) PROVE x = y
  <2>1. x.before = y.before /\ x.after = y.after
    BY <1>2, CandidateParts DEF Distinct
  <2>2. x = Change!Pair(x.before, x.after) /\ y = Change!Pair(y.before, y.after)
    BY CandidateParts
  <2> QED
    BY <2>1, <2>2
<1>3. ASSUME NEW c \in {x, y, z}, NEW d \in {x, y, z}
      PROVE  Change!PairPrecedes(c, d) <=>
               \/ c.rank < d.rank
               \/ c.rank = d.rank /\ Change!IdPrecedes(b(c), b(d))
               \/ c.rank = d.rank /\ b(c) = b(d) /\ Change!IdPrecedes(a(c), a(d))
  BY DEF Change!PairPrecedes
<1> HIDE DEF a, b
<1>4. /\ b(x) \in AnyIds /\ a(x) \in AnyIds /\ x.rank \in Nat
      /\ b(y) \in AnyIds /\ a(y) \in AnyIds /\ y.rank \in Nat
      /\ b(z) \in AnyIds /\ a(z) \in AnyIds /\ z.rank \in Nat
  BY <1>1
<1>5. ~Change!PairPrecedes(x, x)
  BY <1>3, <1>4, IdsAreOrdered
<1>6. ASSUME Change!PairPrecedes(x, y), Change!PairPrecedes(y, z) PROVE Change!PairPrecedes(x, z)
  <2>1. Change!IdPrecedes(b(x), b(y)) /\ Change!IdPrecedes(b(y), b(z)) => Change!IdPrecedes(b(x), b(z))
    BY <1>4, IdsAreOrdered
  <2>2. Change!IdPrecedes(a(x), a(y)) /\ Change!IdPrecedes(a(y), a(z)) => Change!IdPrecedes(a(x), a(z))
    BY <1>4, IdsAreOrdered
  <2> QED
    BY <1>3, <1>4, <1>6, <2>1, <2>2
<1>7. x = y \/ Change!PairPrecedes(x, y) \/ Change!PairPrecedes(y, x)
  <2>1. b(x) = b(y) \/ Change!IdPrecedes(b(x), b(y)) \/ Change!IdPrecedes(b(y), b(x))
    BY <1>4, IdsAreOrdered
  <2>2. a(x) = a(y) \/ Change!IdPrecedes(a(x), a(y)) \/ Change!IdPrecedes(a(y), a(x))
    BY <1>4, IdsAreOrdered
  <2> QED
    BY <1>2, <1>3, <1>4, <2>1, <2>2
<1> QED
  BY <1>5, <1>6, <1>7

(* What the greedy pairing promises: no symbol is in two pairs, and a       *)
(* candidate that is not taken has a rival before it that is.               *)
LEMMA PairingParts ==
  ASSUME NEW removed, IsFiniteSet(removed), Distinct(removed),
         NEW added, IsFiniteSet(added), Distinct(added)
  PROVE  LET candidates == Candidates(removed, added)
             taken == Change!PairUp(candidates)
         IN  /\ taken \subseteq candidates
             /\ IsFiniteSet(taken)
             /\ \A p, q \in taken : p # q => p.before # q.before /\ p.after # q.after
             /\ \A p \in candidates \ taken :
                  \E q \in taken : /\ Change!PairPrecedes(q, p)
                                   /\ p.before = q.before \/ p.after = q.after
<1> DEFINE candidates == Candidates(removed, added)
           taken == Change!PairUp(candidates)
           R == {p \in candidates \X candidates : Change!PairPrecedes(p[1], p[2])}
           V == {p \in candidates \X candidates : Change!Rivals(p[1], p[2])}
           Chosen(K) == \A p \in candidates :
                          p \in K <=> \A q \in K : Change!PairPrecedes(q, p) => ~Change!Rivals(p, q)
<1>1. IsFiniteSet(candidates)
  <2> DEFINE both == {p \in removed \X added :
                        Change!ContinuationBetween(p[1], p[2]) # Change!NoContinuation}
             pair == [p \in both |-> Change!Pair(p[1], p[2])]
  <2>1. IsFiniteSet(removed \X added)
    BY FS_Product
  <2>2. IsFiniteSet(both)
    BY <2>1, FS_Subset
  <2>3. candidates = {pair[p] : p \in both} /\ DOMAIN pair = both
    BY DEF Candidates
  <2> HIDE DEF candidates, pair, both
  <2> QED
    BY <2>2, <2>3, ImageIsFinite
<1> HIDE DEF candidates
<1>2. \A x \in candidates : <<x, x>> \notin R
  BY CandidatesAreOrdered DEF candidates
<1>3. IsStrictOrder(candidates, R)
  <2>1. \A x, y, z \in candidates : <<x, y>> \in R /\ <<y, z>> \in R => <<x, z>> \in R
    BY CandidatesAreOrdered DEF candidates
  <2> QED
    BY <1>2, <2>1 DEF IsStrictOrder
<1>4. \E K \in SUBSET candidates : Chosen(K)
  <2>1. PICK K \in SUBSET candidates : IsSelection(K, candidates, R, V)
    <3> HIDE DEF R, V
    <3> QED
      BY <1>1, <1>3, SelectionExists
  <2>2. ASSUME NEW p \in candidates, NEW q \in candidates
        PROVE  /\ <<q, p>> \in R <=> Change!PairPrecedes(q, p)
               /\ <<p, q>> \in V <=> Change!Rivals(p, q)
    OBVIOUS
  <2> HIDE DEF R, V
  <2>3. Chosen(K)
    BY <2>1, <2>2 DEF IsSelection
  <2> HIDE DEF Chosen
  <2> QED
    BY <2>3
<1>5. taken \in SUBSET candidates /\ Chosen(taken)
  BY <1>4 DEF Change!PairUp
<1> HIDE DEF taken, R, V
<1>6. IsFiniteSet(taken)
  BY <1>1, <1>5, FS_Subset
<1>7. ASSUME NEW p \in taken, NEW q \in taken, p # q PROVE p.before # q.before /\ p.after # q.after
  <2>1. Change!PairPrecedes(p, q) \/ Change!PairPrecedes(q, p)
    BY <1>5, <1>7, CandidatesAreOrdered DEF candidates
  <2>2. p \in candidates /\ q \in candidates
    BY <1>5
  <2>3. ~Change!Rivals(p, q) \/ ~Change!Rivals(q, p)
    BY <1>5, <2>1, <2>2
  <2> QED
    BY <2>3 DEF Change!Rivals
<1>8. ASSUME NEW p \in candidates \ taken
      PROVE  \E q \in taken : /\ Change!PairPrecedes(q, p)
                              /\ p.before = q.before \/ p.after = q.after
  <2>1. PICK q \in taken : Change!PairPrecedes(q, p) /\ Change!Rivals(p, q)
    BY <1>5
  <2> QED
    BY <2>1 DEF Change!Rivals
<1> QED
  BY <1>5, <1>6, <1>7, <1>8 DEF candidates, taken

(* The symbols of a graph that is built have ids of their own.              *)
LEMMA BuiltSymbols ==
  ASSUME NEW source, Change!IsSource(source)
  PROVE  Distinct(Change!GraphOf(source).symbols) /\ IsFiniteSet(Change!GraphOf(source).symbols)
<1> DEFINE external == {r \in {r \in source.refs : Change!Binds(source, r)} : Change!IsExternalPackage(r.to)}
           symbols == Change!GraphOf(source).symbols
           packages == {Change!Package(r.to) : r \in external}
<1>1. symbols = source.symbols \union packages
  BY DEF Change!GraphOf
<1>2. \A s \in source.symbols : Change!IdOf(s) \in Change!DeclaredIds
  BY IdsAreDeclared DEF Change!IsSource
<1>3. ASSUME NEW s \in packages
      PROVE  Change!IdOf(s) \in Change!Packages /\ s = Change!Package(Change!IdOf(s))
  <2>1. PICK r \in external : s = Change!Package(r.to)
    OBVIOUS
  <2>2. r.to \in Change!DeclaredIds \union Change!Packages /\ r.to[3] = "package"
    BY DEF Change!IsSource, Change!Reference, Change!IsExternalPackage
  <2>3. r.to \in Change!Packages
    BY <2>2 DEF Change!DeclaredIds
  <2>4. r.to = <<0, r.to[2], "package">>
    BY <2>3 DEF Change!Packages
  <2>5. Change!IdOf(Change!Package(r.to)) = <<0, r.to[2], "package">>
    BY DEF Change!IdOf, Change!Package
  <2> QED
    BY <2>1, <2>3, <2>4, <2>5
<1>4. \A id \in Change!DeclaredIds : id \notin Change!Packages
  BY DEF Change!DeclaredIds, Change!Packages
<1>5. \A s, t \in source.symbols : Change!IdOf(s) = Change!IdOf(t) => s = t
  BY DEF Change!IsSource
<1>6. IsFiniteSet(packages)
  <2> DEFINE package == [r \in external |-> Change!Package(r.to)]
  <2>1. packages = {package[r] : r \in external} /\ DOMAIN package = external
    OBVIOUS
  <2>2. IsFiniteSet(external)
    BY FS_Subset, SameLibrary DEF Change!IsSource
  <2> HIDE DEF package, packages, external
  <2> QED
    BY <2>1, <2>2, ImageIsFinite
<1>7. IsFiniteSet(symbols)
  <2>1. IsFiniteSet(source.symbols)
    BY SameLibrary DEF Change!IsSource
  <2> HIDE DEF packages, symbols
  <2>2. IsFiniteSet(source.symbols \union packages)
    BY <1>6, <2>1, FS_Union
  <2> QED
    BY <1>1, <2>2
<1> HIDE DEF symbols, packages
<1>8. Distinct(symbols)
  <2>1. \A s \in symbols : Change!IdOf(s) \in AnyIds
    BY <1>1, <1>2, <1>3 DEF AnyIds
  <2>2. ASSUME NEW s \in symbols, NEW t \in symbols, Change!IdOf(s) = Change!IdOf(t) PROVE s = t
    <3>1. CASE s \in source.symbols /\ t \in source.symbols
      BY <1>5, <2>2, <3>1
    <3>2. CASE s \in packages /\ t \in packages
      BY <1>3, <2>2, <3>2
    <3> QED
      BY <1>1, <1>2, <1>3, <1>4, <2>2, <3>1, <3>2
  <2> QED
    BY <2>1, <2>2 DEF Distinct
<1> QED
  BY <1>7, <1>8 DEF symbols

(* Symbols of one graph are gone or kept, and as many as their ids.         *)
LEMMA GoneOrKept ==
  ASSUME NEW g, NEW h, Distinct(g.symbols), IsFiniteSet(g.symbols)
  PROVE  LET gone == Change!Gone(g, h)
             kept == Change!SymbolIds(g) \intersect Change!SymbolIds(h)
         IN  /\ IsFiniteSet(gone) /\ Distinct(gone)
             /\ {Change!IdOf(s) : s \in gone} \union kept = Change!SymbolIds(g)
             /\ Cardinality(gone) + Cardinality(kept) = Cardinality(Change!SymbolIds(g))
<1> DEFINE gone == Change!Gone(g, h)
           ids == {Change!IdOf(s) : s \in gone}
           kept == Change!SymbolIds(g) \intersect Change!SymbolIds(h)
<1>1. gone \subseteq g.symbols
  BY DEF Change!Gone
<1>2. IsFiniteSet(gone) /\ Distinct(gone)
  BY <1>1, FS_Subset DEF Distinct
<1>3. ids \union kept = Change!SymbolIds(g) /\ ids \intersect kept = {}
  BY DEF Change!Gone, Change!SymbolIds
<1>4. IsFiniteSet(ids) /\ Cardinality(ids) = Cardinality(gone)
  <2> DEFINE id == [s \in gone |-> Change!IdOf(s)]
  <2>1. ids = {id[s] : s \in gone} /\ DOMAIN id = gone
    OBVIOUS
  <2>2. \A s, t \in gone : id[s] = id[t] => s = t
    BY <1>2 DEF Distinct
  <2> HIDE DEF id, ids, gone
  <2> QED
    BY <1>2, <2>1, <2>2, ImageOfInjection
<1>5. IsFiniteSet(Change!SymbolIds(g))
  <2> DEFINE id == [s \in g.symbols |-> Change!IdOf(s)]
  <2>1. Change!SymbolIds(g) = {id[s] : s \in g.symbols} /\ DOMAIN id = g.symbols
    BY DEF Change!SymbolIds
  <2> HIDE DEF id
  <2> QED
    BY <2>1, ImageIsFinite
<1>6. IsFiniteSet(kept)
  BY <1>5, FS_Subset
<1> HIDE DEF ids, kept, gone
<1>7. Cardinality(ids \union kept) = Cardinality(ids) + Cardinality(kept) - Cardinality(ids \intersect kept)
  BY <1>4, <1>6, FS_Union
<1>8. Cardinality(gone) + Cardinality(kept) = Cardinality(Change!SymbolIds(g))
  <2>1. Cardinality(ids \intersect kept) = 0
    BY <1>3, FS_EmptySet
  <2>2. Cardinality(ids) \in Nat /\ Cardinality(kept) \in Nat
    BY <1>4, <1>6, FS_CardinalityType
  <2>3. Cardinality(Change!SymbolIds(g)) = Cardinality(ids) + Cardinality(kept) - 0
    BY <1>3, <1>7, <2>1
  <2> QED
    BY <1>4, <2>2, <2>3
<1> QED
  BY <1>2, <1>3, <1>8 DEF gone, kept, ids

(* Each symbol of either graph is accounted for once, whatever the graphs   *)
(* and however many pairs compete for it (delta.rs, compute).               *)
THEOREM SymbolsAreAccountedFor == QuestionsSpec => []EverySymbolIsAccountedFor
<1>1. ComparisonInv => EverySymbolIsAccountedFor
  <2> SUFFICES ASSUME ComparisonInv, judged # NONE PROVE Change!EverySymbolIsAccountedFor
    BY DEF EverySymbolIsAccountedFor, Change!EverySymbolIsAccountedFor
  <2> DEFINE g == Change!GraphOf(before)
             h == Change!GraphOf(after)
             removed == Change!Gone(g, h)
             added == Change!Gone(h, g)
             taken == Change!PairUp(Candidates(removed, added))
             befores == {c.before : c \in taken}
             afters == {c.after : c \in taken}
             d == judged.delta
             kept == Change!SymbolIds(g) \intersect Change!SymbolIds(h)
  <2>1. Change!IsSource(before) /\ Change!IsSource(after)
    BY BaselinesAssumption DEF ComparisonInv, Sources, Compared
  <2>2. /\ Distinct(g.symbols) /\ IsFiniteSet(g.symbols)
        /\ Distinct(h.symbols) /\ IsFiniteSet(h.symbols)
    BY <2>1, BuiltSymbols
  <2>3. judged.before = g /\ judged.after = h /\ d = Change!Compute(g, h)
    <3>1. judged = Change!Judgement(g, h)
      BY DEF ComparisonInv, Compared
    <3> HIDE DEF g, h
    <3> QED
      BY <3>1 DEF Change!Judgement
  <2> HIDE DEF g, h
  <2>4. /\ d.continuities = taken
        /\ d.added = added \ afters
        /\ d.removed = removed \ befores
    BY <2>3 DEF Change!Compute, Candidates
  <2>5. /\ IsFiniteSet(removed) /\ Distinct(removed)
        /\ {Change!IdOf(s) : s \in removed} \union kept = Change!SymbolIds(g)
        /\ Cardinality(removed) + Cardinality(kept) = Cardinality(Change!SymbolIds(g))
    BY <2>2, GoneOrKept
  <2>6. /\ IsFiniteSet(added) /\ Distinct(added)
        /\ {Change!IdOf(s) : s \in added} \union kept = Change!SymbolIds(h)
        /\ Cardinality(added) + Cardinality(kept) = Cardinality(Change!SymbolIds(h))
    BY <2>2, GoneOrKept
  <2> HIDE DEF removed, added, kept, d
  <2>7. /\ taken \subseteq Candidates(removed, added) /\ IsFiniteSet(taken)
        /\ \A p, q \in taken : p # q => p.before # q.before /\ p.after # q.after
        /\ \A p \in Candidates(removed, added) \ taken :
             \E q \in taken : p.before = q.before \/ p.after = q.after
    BY <2>5, <2>6, PairingParts
  <2> HIDE DEF taken
  <2>8. befores \subseteq removed /\ afters \subseteq added
    BY <2>7, CandidateParts
  <2>9. d.removed \union befores = removed /\ d.added \union afters = added
    BY <2>4, <2>8
  <2>10. Cardinality(befores) = Cardinality(taken) /\ Cardinality(afters) = Cardinality(taken)
    <3> DEFINE b == [c \in taken |-> c.before]
               a == [c \in taken |-> c.after]
    <3>1. befores = {b[c] : c \in taken} /\ DOMAIN b = taken /\ \A p, q \in taken : b[p] = b[q] => p = q
      BY <2>7
    <3>2. afters = {a[c] : c \in taken} /\ DOMAIN a = taken /\ \A p, q \in taken : a[p] = a[q] => p = q
      BY <2>7
    <3> HIDE DEF b, a, befores, afters
    <3>3. Cardinality(befores) = Cardinality(taken)
      BY <2>7, <3>1, ImageOfInjection
    <3>4. Cardinality(afters) = Cardinality(taken)
      BY <2>7, <3>2, ImageOfInjection
    <3> QED
      BY <3>3, <3>4
  <2>11. ASSUME NEW s \in d.removed, NEW t \in d.added
         PROVE  Change!ContinuationBetween(s, t) = Change!NoContinuation
    <3> SUFFICES ASSUME Change!ContinuationBetween(s, t) # Change!NoContinuation PROVE FALSE
      OBVIOUS
    <3>1. s \in removed /\ s \notin befores /\ t \in added /\ t \notin afters
      BY <2>4
    <3>2. Change!Pair(s, t) \in Candidates(removed, added)
      <4>1. <<s, t>> \in {p \in removed \X added :
                            Change!ContinuationBetween(p[1], p[2]) # Change!NoContinuation}
        BY <3>1
      <4>2. Change!Pair(s, t) = Change!Pair(<<s, t>>[1], <<s, t>>[2])
        OBVIOUS
      <4> QED
        BY <4>1, <4>2 DEF Candidates
    <3>3. Change!Pair(s, t).before = s /\ Change!Pair(s, t).after = t
      BY DEF Change!Pair
    <3>4. Change!Pair(s, t) \notin taken
      BY <3>1, <3>3
    <3> QED
      BY <2>7, <3>1, <3>2, <3>3, <3>4
  <2> HIDE DEF befores, afters
  <2>12. \A S : Change!Cardinality(S) = Cardinality(S)
    BY SameLibrary
  <2> QED
    BY <2>3, <2>4, <2>5, <2>6, <2>9, <2>10, <2>11, <2>12
    DEF Change!EverySymbolIsAccountedFor, kept, d, befores, afters
<1> QED
  BY <1>1, ComparisonInvariant, PTL

-----------------------------------------------------------------------------
(* Queries. The rest is about walks of a graph: first distances, then the   *)
(* queue of a walk, the rows it collects and what is made of them, and last *)
(* the questions of Traversal. What is at most one arc of A further away:   *)
Spread(S, A) == S \union {a[2] : a \in {a \in A : a[1] \in S}}

(* What is at most k arcs away from S, for every k, and for those up to n.  *)
IsLevels(f, S, A) ==
  f[0] = S /\ \A k \in Nat : f[k + 1] = Spread(f[k], A)

IsLevelsUpTo(f, n, S, A) ==
  f[0] = S /\ \A k \in 1 .. n : f[k] = Spread(f[k - 1], A)

(* The levels are determined by their equation.                             *)
LEMMA LevelsAgree ==
  ASSUME NEW S, NEW A, NEW n \in Nat, NEW f, NEW g,
         IsLevelsUpTo(f, n, S, A), IsLevelsUpTo(g, n, S, A)
  PROVE  \A k \in 0 .. n : f[k] = g[k]
<1> DEFINE P == {k \in 0 .. n : f[k] = g[k]}
<1>1. 0 \in P
  BY DEF IsLevelsUpTo
<1>2. ASSUME NEW k \in 1 .. n, k - 1 \in P PROVE k \in P
  BY <1>2 DEF IsLevelsUpTo
<1> HIDE DEF P
<1>3. \A k \in 0 .. n : k \in P
  BY <1>1, <1>2, UpTo
<1> QED
  BY <1>3 DEF P

(* And there are levels.                                                    *)
LEMMA LevelsExist ==
  ASSUME NEW S, NEW A
  PROVE  \E f : f = [k \in Nat |-> f[k]] /\ IsLevels(f, S, A)
<1> DEFINE P == {n \in Nat : \E f : IsLevelsUpTo(f, n, S, A)}
           sol == [n \in Nat |-> CHOOSE f : IsLevelsUpTo(f, n, S, A)]
           h == [n \in Nat |-> sol[n][n]]
<1>1. 0 \in P
  <2>1. IsLevelsUpTo([k \in {0} |-> S], 0, S, A)
    BY DEF IsLevelsUpTo
  <2> QED
    BY <2>1
<1>2. ASSUME NEW n \in Nat \ {0}, n - 1 \in P PROVE n \in P
  <2>1. PICK f : IsLevelsUpTo(f, n - 1, S, A)
    BY <1>2
  <2> DEFINE g == [k \in 0 .. n |-> IF k = n THEN Spread(f[n - 1], A) ELSE f[k]]
  <2>2. g[0] = S
    BY <2>1 DEF IsLevelsUpTo
  <2>3. ASSUME NEW k \in 1 .. n PROVE g[k] = Spread(g[k - 1], A)
    BY <2>1 DEF IsLevelsUpTo
  <2> HIDE DEF g
  <2>4. IsLevelsUpTo(g, n, S, A)
    BY <2>2, <2>3 DEF IsLevelsUpTo
  <2> QED
    BY <2>4
<1>3. ASSUME NEW n \in Nat PROVE n \in P
  <2>1. \A k \in 1 .. n : k - 1 \in P => k \in P
    <3> HIDE DEF P
    <3> QED
      BY <1>2
  <2> HIDE DEF P
  <2>2. \A k \in 0 .. n : k \in P
    BY <1>1, <2>1, UpTo
  <2> QED
    BY <2>2
<1>4. ASSUME NEW n \in Nat PROVE IsLevelsUpTo(sol[n], n, S, A)
  <2>1. \E f : IsLevelsUpTo(f, n, S, A)
    BY <1>3
  <2> QED
    BY <2>1
<1> HIDE DEF sol, P
<1>5. h[0] = S
  BY <1>4 DEF IsLevelsUpTo
<1>6. ASSUME NEW k \in Nat PROVE h[k + 1] = Spread(h[k], A)
  <2>1. IsLevelsUpTo(sol[k + 1], k, S, A) /\ IsLevelsUpTo(sol[k], k, S, A)
    BY <1>4 DEF IsLevelsUpTo
  <2>2. sol[k + 1][k] = sol[k][k]
    BY <2>1, LevelsAgree
  <2>3. sol[k + 1][k + 1] = Spread(sol[k + 1][k + 1 - 1], A)
    BY <1>4 DEF IsLevelsUpTo
  <2> QED
    BY <2>2, <2>3
<1>7. h = [k \in Nat |-> h[k]]
  OBVIOUS
<1> HIDE DEF h
<1> QED
  BY <1>5, <1>6, <1>7 DEF IsLevels

(* The arcs that a question goes along, and the edges they are of.          *)
Eligible == {e \in graph : Admits(e)}
Arcs == {<<Near(e), Far(e)>> : e \in Eligible}

(* The reference definition of the model is such levels.                    *)
LEMMA AwayIsLevels ==
  ASSUME NEW S
  PROVE  IsLevels(Away(S), S, Arcs)
<1> DEFINE next(T) == T \union {Far(e) : e \in {e \in graph : Admits(e) /\ Near(e) \in T}}
           Solves(f) == f = [k \in Nat |-> IF k = 0 THEN S ELSE next(f[k - 1])]
<1>1. Away(S) = CHOOSE f : Solves(f)
  BY DEF Away
<1>2. ASSUME NEW T PROVE Spread(T, Arcs) = next(T)
  <2>1. ASSUME NEW x \in Spread(T, Arcs), x \notin T PROVE x \in next(T)
    <3>1. PICK a \in Arcs : a[1] \in T /\ x = a[2]
      BY <2>1 DEF Spread
    <3>2. PICK e \in graph : Admits(e) /\ a = <<Near(e), Far(e)>>
      BY DEF Arcs, Eligible
    <3>3. Near(e) \in T /\ x = Far(e)
      BY <3>1, <3>2
    <3> QED
      BY <3>2, <3>3
  <2>2. ASSUME NEW e \in graph, Admits(e), Near(e) \in T PROVE Far(e) \in Spread(T, Arcs)
    <3> DEFINE a == <<Near(e), Far(e)>>
    <3>1. a \in Arcs /\ a[1] = Near(e) /\ a[2] = Far(e)
      BY <2>2 DEF Arcs, Eligible
    <3> HIDE DEF a
    <3> QED
      BY <2>2, <3>1 DEF Spread
  <2>3. T \subseteq Spread(T, Arcs)
    BY DEF Spread
  <2> QED
    BY <2>1, <2>2, <2>3
<1> HIDE DEF next
<1>3. PICK f : f = [k \in Nat |-> f[k]] /\ IsLevels(f, S, Arcs)
  BY LevelsExist
<1>4. Solves(f)
  <2> SUFFICES ASSUME NEW k \in Nat PROVE f[k] = IF k = 0 THEN S ELSE next(f[k - 1])
    BY <1>3
  <2>1. CASE k = 0
    BY <1>3, <2>1 DEF IsLevels
  <2>2. CASE k # 0
    <3>1. k - 1 \in Nat /\ k - 1 + 1 = k
      BY <2>2
    <3>2. f[k - 1 + 1] = Spread(f[k - 1], Arcs)
      BY <1>3, <3>1 DEF IsLevels
    <3> QED
      BY <1>2, <2>2, <3>1, <3>2
  <2> QED
    BY <2>1, <2>2
<1>5. ASSUME NEW g, Solves(g) PROVE IsLevels(g, S, Arcs)
  <2>1. g[0] = S
    BY <1>5
  <2>2. ASSUME NEW k \in Nat PROVE g[k + 1] = Spread(g[k], Arcs)
    <3>1. k + 1 \in Nat /\ k + 1 # 0 /\ k + 1 - 1 = k
      OBVIOUS
    <3>2. g[k + 1] = next(g[k + 1 - 1])
      BY <1>5, <3>1
    <3> QED
      BY <1>2, <3>1, <3>2
  <2> QED
    BY <2>1, <2>2 DEF IsLevels
<1> HIDE DEF Solves
<1> QED
  BY <1>1, <1>4, <1>5

(* Levels grow.                                                             *)
LEMMA LevelsGrow ==
  ASSUME NEW L, NEW S, NEW A, IsLevels(L, S, A), NEW j \in Nat, NEW k \in Nat, j <= k
  PROVE  L[j] \subseteq L[k]
<1> DEFINE n == k - j
           P == {i \in 0 .. n : L[j] \subseteq L[j + i]}
<1>1. n \in Nat /\ j + n = k /\ j + 0 = j
  OBVIOUS
<1>2. 0 \in P
  BY <1>1
<1>3. ASSUME NEW i \in 1 .. n, i - 1 \in P PROVE i \in P
  <2>1. j + (i - 1) \in Nat /\ j + (i - 1) + 1 = j + i
    OBVIOUS
  <2>2. L[j + i] = Spread(L[j + (i - 1)], A)
    BY <2>1 DEF IsLevels
  <2>3. L[j] \subseteq L[j + (i - 1)]
    BY <1>3
  <2> QED
    BY <2>2, <2>3 DEF Spread
<1> HIDE DEF P, n
<1>4. \A i \in 0 .. n : i \in P
  BY <1>1, <1>2, <1>3, UpTo
<1>5. n \in P
  BY <1>1, <1>4
<1> QED
  BY <1>1, <1>5 DEF P

(* s is k arcs away and not nearer.                                         *)
At(L, s, k) == s \in L[k] /\ (k > 0 => s \notin L[k - 1])

(* What is in reach has one distance.                                       *)
LEMMA AtOnce ==
  ASSUME NEW L, NEW S, NEW A, IsLevels(L, S, A), NEW s,
         NEW j \in Nat, NEW k \in Nat, At(L, s, j), At(L, s, k)
  PROVE  j = k
<1>1. ASSUME NEW a \in Nat, NEW b \in Nat, a < b, At(L, s, a), At(L, s, b) PROVE FALSE
  <2>1. b - 1 \in Nat /\ a <= b - 1 /\ b > 0
    BY <1>1
  <2>2. L[a] \subseteq L[b - 1]
    BY <2>1, LevelsGrow
  <2> QED
    BY <1>1, <2>1, <2>2 DEF At
<1>2. j < k \/ j = k \/ k < j
  OBVIOUS
<1> QED
  BY <1>1, <1>2

(* And it has one.                                                          *)
LEMMA AtExists ==
  ASSUME NEW L, NEW k \in Nat, NEW s \in L[k]
  PROVE  \E j \in 0 .. k : At(L, s, j)
<1> DEFINE P == {i \in 0 .. k : s \in L[i] => \E j \in 0 .. i : At(L, s, j)}
<1>1. 0 \in P
  BY DEF At
<1>2. ASSUME NEW i \in 1 .. k, i - 1 \in P PROVE i \in P
  <2>1. CASE s \in L[i - 1]
    <3>1. PICK j \in 0 .. (i - 1) : At(L, s, j)
      BY <1>2, <2>1
    <3>2. j \in 0 .. i
      OBVIOUS
    <3> QED
      BY <3>1, <3>2
  <2>2. CASE s \notin L[i - 1]
    <3>1. i \in 0 .. i /\ i \in 0 .. k
      OBVIOUS
    <3> QED
      BY <2>2, <3>1 DEF At
  <2> QED
    BY <2>1, <2>2
<1> HIDE DEF P
<1>3. \A i \in 0 .. k : i \in P
  BY <1>1, <1>2, UpTo
<1>4. k \in P
  BY <1>3
<1> QED
  BY <1>4 DEF P

-----------------------------------------------------------------------------
(* A walk, along the edges E, from the end of one that is searched to the   *)
(* other.                                                                   *)
NearBy(d, e) == IF d = "incoming" THEN e.to ELSE e.from
FarBy(d, e) == IF d = "incoming" THEN e.from ELSE e.to
ArcsOf(d, E) == {<<NearBy(d, e), FarBy(d, e)>> : e \in E}

Edges == [from : Symbols, to : Symbols, line : Lines, kind : Kinds]
Items == [node : Symbols, depth : Nat]

(* The far end of an edge is on the next level.                             *)
LEMMA NextLevel ==
  ASSUME NEW d, NEW E, NEW L, NEW S, IsLevels(L, S, ArcsOf(d, E)), NEW k \in Nat
  PROVE  /\ \A e \in E : NearBy(d, e) \in L[k] => FarBy(d, e) \in L[k + 1]
         /\ \A s \in L[k + 1] \ L[k] : \E e \in E : NearBy(d, e) \in L[k] /\ FarBy(d, e) = s
<1>1. L[k + 1] = Spread(L[k], ArcsOf(d, E))
  BY DEF IsLevels
<1>2. ASSUME NEW e \in E, NearBy(d, e) \in L[k] PROVE FarBy(d, e) \in L[k + 1]
  <2> DEFINE a == <<NearBy(d, e), FarBy(d, e)>>
  <2>1. a \in ArcsOf(d, E) /\ a[1] = NearBy(d, e) /\ a[2] = FarBy(d, e)
    BY DEF ArcsOf
  <2> HIDE DEF a
  <2> QED
    BY <1>1, <1>2, <2>1 DEF Spread
<1>3. ASSUME NEW s \in L[k + 1] \ L[k]
      PROVE  \E e \in E : NearBy(d, e) \in L[k] /\ FarBy(d, e) = s
  <2>1. PICK a \in ArcsOf(d, E) : a[1] \in L[k] /\ s = a[2]
    BY <1>1 DEF Spread
  <2>2. PICK e \in E : a = <<NearBy(d, e), FarBy(d, e)>>
    BY DEF ArcsOf
  <2> QED
    BY <2>1, <2>2
<1> QED
  BY <1>2, <1>3

(* What is queued is visited, at its own distance, and in the order of the  *)
(* distances, which are those of two adjacent levels; the nearer of the two *)
(* is visited as a whole.                                                   *)
QueueInv(L, D, q, V) ==
  /\ q \in Seq(Items)
  /\ \A i \in DOMAIN q : q[i].node \in V /\ q[i].depth <= D /\ At(L, q[i].node, q[i].depth)
  /\ \A i, j \in DOMAIN q :
       i <= j => q[i].depth <= q[j].depth /\ q[j].depth <= q[i].depth + 1
  /\ q # << >> => L[q[1].depth] \subseteq V

(* Rows are of edges at their distance.                                     *)
RowsInv(L, E, d, D, R) ==
  \A r \in R : /\ r \in Rows
               /\ r.edge \in E /\ r.hop \in 1 .. D
               /\ At(L, NearBy(d, r.edge), r.hop - 1)

(* Every edge at v is a row and was walked, if it is within the depth.      *)
Finished(L, E, d, D, V, R, v) ==
  \A e \in E, k \in Nat :
    NearBy(d, e) = v /\ At(L, v, k) /\ k < D =>
      [edge |-> e, hop |-> k + 1] \in R /\ FarBy(d, e) \in V

(* Every visited symbol is queued or done with.                             *)
WalkInv(L, E, d, D, q, V, R) ==
  /\ L[0] \subseteq V
  /\ QueueInv(L, D, q, V)
  /\ RowsInv(L, E, d, D, R)
  /\ \A v \in V : (\E i \in DOMAIN q : q[i].node = v) \/ Finished(L, E, d, D, V, R, v)

(* The walk begins.                                                         *)
LEMMA WalkStarts ==
  ASSUME NEW L, NEW E, NEW d, NEW D \in Nat, NEW root \in Symbols, L[0] = {root}
  PROVE  WalkInv(L, E, d, D, <<[node |-> root, depth |-> 0]>>, {root}, {})
<1> DEFINE q == <<[node |-> root, depth |-> 0]>>
<1>1. q \in Seq(Items) /\ DOMAIN q = {1} /\ q[1].node = root /\ q[1].depth = 0
  BY DEF Items
<1> HIDE DEF q
<1>2. QueueInv(L, D, q, {root})
  BY <1>1 DEF QueueInv, At
<1>3. RowsInv(L, E, d, D, {})
  BY DEF RowsInv
<1> QED
  BY <1>1, <1>2, <1>3 DEF WalkInv, q

(* p is the queue with its head off and some symbols behind it.             *)
IsMove(q, order, hop, n, m, rest, p) ==
  /\ q \in Seq(Items) /\ q # << >> /\ order \in Seq(Symbols) /\ hop \in Nat
  /\ n = Len(q) - 1 /\ m = Len(order)
  /\ rest = [i \in DOMAIN order |-> [node |-> order[i], depth |-> hop]]
  /\ p = Tail(q) \o rest

(* What is where in the queue then.                                         *)
LEMMA QueueMoves ==
  ASSUME NEW q, NEW order, NEW hop, NEW n, NEW m, NEW rest, NEW p,
         IsMove(q, order, hop, n, m, rest, p)
  PROVE  /\ n \in Nat /\ m \in Nat
         /\ DOMAIN q = 1 .. (n + 1)
         /\ p \in Seq(Items) /\ DOMAIN p = 1 .. (n + m)
         /\ \A i \in 1 .. n : p[i] = q[i + 1]
         /\ \A i \in (n + 1) .. (n + m) :
              p[i].node = order[i - n] /\ p[i].depth = hop
<1> USE DEF IsMove
<1>1. n \in Nat /\ m \in Nat /\ DOMAIN q = 1 .. (n + 1) /\ DOMAIN order = 1 .. m
  OBVIOUS
<1>2. Tail(q) \in Seq(Items) /\ Len(Tail(q)) = n /\ \A i \in 1 .. n : Tail(q)[i] = q[i + 1]
  OBVIOUS
<1>3. rest \in Seq(Items) /\ Len(rest) = m
      /\ \A i \in 1 .. m : rest[i].node = order[i] /\ rest[i].depth = hop
  <2>1. ASSUME NEW i \in 1 .. m
        PROVE  rest[i] \in Items /\ rest[i].node = order[i] /\ rest[i].depth = hop
    BY <1>1 DEF Items
  <2>2. rest \in [1 .. m -> Items]
    <3>1. rest = [i \in 1 .. m |-> [node |-> order[i], depth |-> hop]]
      BY <1>1
    <3> QED
      BY <2>1, <3>1
  <2>3. rest \in Seq(Items)
    BY <1>1, <2>2
  <2>4. Len(rest) = m
    BY <1>1, <2>2, <2>3
  <2> QED
    BY <2>1, <2>3, <2>4
<1>4. /\ p \in Seq(Items) /\ Len(p) = n + m
      /\ \A i \in 1 .. (n + m) : p[i] = IF i <= n THEN Tail(q)[i] ELSE rest[i - n]
  BY <1>1, <1>2, <1>3
<1>5. DOMAIN p = 1 .. (n + m)
  BY <1>4
<1>6. \A i \in 1 .. n : p[i] = q[i + 1]
  BY <1>1, <1>2, <1>4
<1>7. ASSUME NEW i \in (n + 1) .. (n + m) PROVE p[i].node = order[i - n] /\ p[i].depth = hop
  <2>1. i \in 1 .. (n + m) /\ ~(i <= n) /\ i - n \in 1 .. m
    BY <1>1
  <2> QED
    BY <1>3, <1>4, <2>1
<1> QED
  BY <1>1, <1>4, <1>5, <1>6, <1>7

(* A turn of the walk: the head leaves the queue, the edges at it that are  *)
(* within the depth are rows, and what is new there is queued.              *)
IsTurn(E, d, D, q, V, R, open, order, p, W, Q) ==
  /\ E \subseteq Edges /\ q # << >>
  /\ open = {e \in E : NearBy(d, e) = q[1].node /\ q[1].depth < D}
  /\ order \in Seq(Symbols) /\ Range(order) = {FarBy(d, e) : e \in open} \ V
  /\ LET hop == q[1].depth + 1
     IN  /\ p = Tail(q) \o [i \in DOMAIN order |-> [node |-> order[i], depth |-> hop]]
         /\ W = V \union ({FarBy(d, e) : e \in open} \ V)
         /\ Q = R \union {[edge |-> e, hop |-> hop] : e \in open}

(* After a turn, what is queued, visited and found is as before.            *)
LEMMA WalkGoesOn ==
  ASSUME NEW L, NEW E, NEW d, NEW D \in Nat, NEW S, IsLevels(L, S, ArcsOf(d, E)),
         NEW q, NEW V, NEW R, WalkInv(L, E, d, D, q, V, R),
         NEW open, NEW order, NEW left, NEW seen, NEW found,
         IsTurn(E, d, D, q, V, R, open, order, left, seen, found)
  PROVE  WalkInv(L, E, d, D, left, seen, found)
<1>0. /\ E \subseteq Edges /\ q # << >>
      /\ open = {e \in E : NearBy(d, e) = q[1].node /\ q[1].depth < D}
      /\ order \in Seq(Symbols) /\ Range(order) = {FarBy(d, e) : e \in open} \ V
  BY DEF IsTurn
<1> USE <1>0
<1> DEFINE hop == q[1].depth + 1
           n == Len(q) - 1
           m == Len(order)
           rest == [i \in DOMAIN order |-> [node |-> order[i], depth |-> hop]]
           p == Tail(q) \o rest
           W == V \union ({FarBy(d, e) : e \in open} \ V)
           Q == R \union {[edge |-> e, hop |-> hop] : e \in open}
           head == q[1].node
           at == q[1].depth
<1>1. /\ L[0] \subseteq V /\ QueueInv(L, D, q, V) /\ RowsInv(L, E, d, D, R)
      /\ \A v \in V : (\E i \in DOMAIN q : q[i].node = v) \/ Finished(L, E, d, D, V, R, v)
  BY DEF WalkInv
<1>2. q \in Seq(Items)
  BY <1>1 DEF QueueInv
<1>3. 1 \in DOMAIN q
  BY <1>2
<1>4. /\ head \in V /\ head \in Symbols /\ at \in Nat /\ at <= D
      /\ At(L, head, at) /\ L[at] \subseteq V
  <2>1. q[1] \in Items
    BY <1>2, <1>3
  <2>2. q[1].node \in V /\ q[1].depth <= D /\ At(L, q[1].node, q[1].depth)
        /\ L[q[1].depth] \subseteq V
    BY <1>1, <1>3 DEF QueueInv
  <2> QED
    BY <2>1, <2>2 DEF Items
<1>5. hop \in Nat /\ hop = at + 1
  BY <1>4
<1>6. /\ n \in Nat /\ m \in Nat /\ DOMAIN q = 1 .. (n + 1)
      /\ p \in Seq(Items) /\ DOMAIN p = 1 .. (n + m)
      /\ \A i \in 1 .. n : p[i] = q[i + 1]
      /\ \A i \in (n + 1) .. (n + m) : p[i].node = order[i - n] /\ p[i].depth = hop
  <2> HIDE DEF hop
  <2>1. IsMove(q, order, hop, n, m, rest, p)
    BY <1>2, <1>5 DEF IsMove
  <2> HIDE DEF p, n, m, rest
  <2> QED
    BY <2>1, QueueMoves
<1>7. V \subseteq W /\ R \subseteq Q
  OBVIOUS
<1>8. \A e \in open : e \in E /\ NearBy(d, e) = head /\ at < D
  OBVIOUS
<1>9. \A e \in open : [edge |-> e, hop |-> hop] \in Q /\ FarBy(d, e) \in W
  OBVIOUS
<1>10. \A r \in Q : r \in R \/ \E e \in open : r = [edge |-> e, hop |-> hop]
  OBVIOUS
<1>11. ASSUME NEW s \in W, s \notin V PROVE \E e \in open : s = FarBy(d, e)
  BY <1>11
<1>12. DOMAIN order = 1 .. m /\ \A i \in 1 .. m : order[i] \in W /\ order[i] \notin V
  BY DEF Range
<1>13. \A s \in W \ V : \E i \in 1 .. m : order[i] = s
  BY <1>12 DEF Range
<1> HIDE DEF p, rest, W, Q, n, m, hop, head, at
(* What is new is on the next level.                                        *)
<1>14. ASSUME NEW s \in W, s \notin V PROVE At(L, s, hop) /\ hop <= D
  <2>1. PICK e \in open : s = FarBy(d, e)
    BY <1>11, <1>14
  <2>2. NearBy(d, e) \in L[at] /\ at < D /\ e \in E
    BY <1>4, <1>8, <2>1 DEF At
  <2>3. FarBy(d, e) \in L[at + 1]
    BY <1>4, <2>2, NextLevel
  <2>4. s \notin L[at] /\ at = hop - 1
    BY <1>4, <1>5, <1>14
  <2> QED
    BY <1>4, <1>5, <2>1, <2>2, <2>3, <2>4 DEF At
<1>15. ASSUME NEW i \in DOMAIN p
       PROVE  /\ p[i].node \in W /\ p[i].depth <= D /\ At(L, p[i].node, p[i].depth)
              /\ p[i].depth \in Nat /\ p[i].depth \in {at, at + 1}
  <2>1. CASE i \in 1 .. n
    <3>1. i + 1 \in DOMAIN q /\ p[i] = q[i + 1]
      BY <1>6, <2>1
    <3>2. q[i + 1].depth \in Nat /\ q[1].depth <= q[i + 1].depth
          /\ q[i + 1].depth <= q[1].depth + 1
      <4>1. q[i + 1] \in Items /\ 1 <= i + 1
        BY <1>2, <2>1, <3>1
      <4>2. q[1].depth <= q[i + 1].depth /\ q[i + 1].depth <= q[1].depth + 1
        BY <1>1, <1>3, <3>1, <4>1 DEF QueueInv
      <4> QED
        BY <4>1, <4>2 DEF Items
    <3> QED
      <4>1. q[i + 1].node \in V /\ q[i + 1].depth <= D /\ At(L, q[i + 1].node, q[i + 1].depth)
        BY <1>1, <3>1 DEF QueueInv
      <4>2. q[1].depth = at
        BY DEF at
      <4> QED
        BY <1>4, <1>7, <3>1, <3>2, <4>1, <4>2
  <2>2. CASE i \in (n + 1) .. (n + m)
    <3>1. i - n \in 1 .. m /\ p[i].node = order[i - n] /\ p[i].depth = hop
      BY <1>6, <2>2
    <3> QED
      BY <1>5, <1>12, <1>14, <3>1
  <2> QED
    BY <1>6, <2>1, <2>2
<1>16. ASSUME NEW i \in DOMAIN p, NEW j \in DOMAIN p, i <= j
       PROVE  p[i].depth <= p[j].depth /\ p[j].depth <= p[i].depth + 1
  <2>1. p[i].depth \in {at, at + 1} /\ p[j].depth \in {at, at + 1}
    BY <1>15
  <2>2. CASE j \in 1 .. n
    <3>1. i \in 1 .. n /\ i + 1 \in DOMAIN q /\ j + 1 \in DOMAIN q /\ i + 1 <= j + 1
          /\ p[i] = q[i + 1] /\ p[j] = q[j + 1]
      BY <1>6, <1>16, <2>2
    <3> QED
      BY <1>1, <3>1 DEF QueueInv
  <2>3. CASE j \in (n + 1) .. (n + m)
    <3>1. p[j].depth = at + 1
      BY <1>5, <1>6, <2>3
    <3> QED
      BY <1>4, <2>1, <3>1
  <2> QED
    BY <1>6, <2>2, <2>3
(* Who left the queue is done with.                                         *)
<1>17. ASSUME NEW v \in W
       PROVE  (\E i \in DOMAIN p : p[i].node = v) \/ Finished(L, E, d, D, W, Q, v)
  <2>1. CASE v \notin V
    <3>1. PICK i \in 1 .. m : order[i] = v
      BY <1>13, <2>1
    <3>2. n + i \in (n + 1) .. (n + m) /\ n + i - n = i /\ n + i \in DOMAIN p
      BY <1>6
    <3> QED
      BY <1>6, <3>1, <3>2
  <2>2. CASE v = head
    <3> SUFFICES ASSUME NEW e \in E, NEW k \in Nat, NearBy(d, e) = v, At(L, v, k), k < D
                 PROVE  [edge |-> e, hop |-> k + 1] \in Q /\ FarBy(d, e) \in W
      BY DEF Finished
    <3>1. k = at
      BY <1>4, <2>2, AtOnce
    <3>2. e \in open
      BY <2>2, <3>1 DEF head, at
    <3> QED
      BY <1>5, <1>9, <3>1, <3>2
  <2>3. CASE v \in V /\ v # head /\ \E i \in DOMAIN q : q[i].node = v
    <3>1. PICK i \in DOMAIN q : q[i].node = v
      BY <2>3
    <3>2. i # 1
      BY <2>3, <3>1 DEF head
    <3>3. i - 1 \in 1 .. n /\ i - 1 + 1 = i
      BY <1>6, <3>2
    <3>4. i - 1 \in DOMAIN p /\ p[i - 1] = q[i]
      BY <1>6, <3>3
    <3> QED
      BY <3>1, <3>4
  <2>4. CASE v \in V /\ Finished(L, E, d, D, V, R, v)
    BY <1>7, <2>4 DEF Finished
  <2> QED
    BY <1>1, <2>1, <2>2, <2>3, <2>4
(* The nearest level in the queue is visited as a whole.                    *)
<1>18. ASSUME p # << >> PROVE L[p[1].depth] \subseteq W
  <2>1. 1 \in DOMAIN p
    BY <1>6, <1>18
  <2>2. p[1].depth \in {at, at + 1}
    BY <1>15, <2>1
  <2>3. CASE p[1].depth = at
    BY <1>4, <1>7, <2>3
  <2>4. CASE p[1].depth = at + 1
    <3> SUFFICES ASSUME NEW s \in L[at + 1], s \notin L[at] PROVE s \in W
      BY <1>4, <1>7, <2>4
    <3>1. PICK e \in E : NearBy(d, e) \in L[at] /\ FarBy(d, e) = s
      BY <1>4, NextLevel
    <3> DEFINE v == NearBy(d, e)
    <3>2. PICK j \in 0 .. at : At(L, v, j)
      BY <1>4, <3>1, AtExists
    <3>3. ASSUME NEW i \in DOMAIN p, p[i].node = v PROVE FALSE
      <4>1. At(L, v, p[i].depth) /\ p[i].depth \in Nat /\ p[1].depth <= p[i].depth
        <5>1. At(L, v, p[i].depth) /\ p[i].depth \in Nat
          BY <1>15, <3>3
        <5>2. 1 <= i
          BY <1>6, <3>3
        <5> QED
          BY <1>16, <2>1, <3>3, <5>1, <5>2
      <4>2. j \in Nat /\ j <= at
        BY <1>4, <3>2
      <4> HIDE DEF v
      <4>3. j = p[i].depth
        BY <3>2, <4>1, <4>2, AtOnce
      <4> QED
        BY <1>4, <2>4, <4>1, <4>2, <4>3
    <3>4. v \in W
      BY <1>4, <1>7, <3>1
    <3>5. Finished(L, E, d, D, W, Q, v)
      BY <1>17, <3>3, <3>4
    <3>6. j \in Nat /\ j < D
      BY <1>4, <1>15, <2>1, <2>4, <3>2
    <3> QED
      BY <3>1, <3>2, <3>5, <3>6 DEF Finished
  <2> QED
    BY <2>2, <2>3, <2>4
<1>19. RowsInv(L, E, d, D, Q)
  <2> SUFFICES ASSUME NEW r \in Q
               PROVE  /\ r \in Rows
                      /\ r.edge \in E /\ r.hop \in 1 .. D
                      /\ At(L, NearBy(d, r.edge), r.hop - 1)
    BY DEF RowsInv
  <2>1. CASE r \in R
    BY <1>1, <2>1 DEF RowsInv
  <2>2. CASE \E e \in open : r = [edge |-> e, hop |-> hop]
    <3>1. PICK e \in open : r = [edge |-> e, hop |-> hop]
      BY <2>2
    <3>2. e \in E /\ NearBy(d, e) = head /\ at < D /\ e \in Edges
      BY <1>8
    <3>3. r.edge = e /\ r.hop = hop /\ hop - 1 = at /\ hop \in 1 .. D
      BY <1>4, <1>5, <3>1, <3>2
    <3>4. r \in Rows
      BY <1>5, <3>1, <3>2 DEF Rows, Edges
    <3> QED
      BY <1>4, <3>2, <3>3, <3>4
  <2> QED
    BY <1>10, <2>1, <2>2
<1>20. QueueInv(L, D, p, W)
  BY <1>6, <1>15, <1>16, <1>18 DEF QueueInv
<1>21. L[0] \subseteq W
  BY <1>1, <1>7
<1>22. WalkInv(L, E, d, D, p, W, Q)
  BY <1>17, <1>19, <1>20, <1>21 DEF WalkInv
<1> QED
  BY <1>22 DEF IsTurn, p, rest, W, Q, hop

-----------------------------------------------------------------------------
(* When the queue is empty, whatever is within the depth was visited, and   *)
(* the rows are those of the edges there.                                   *)
LEMMA WalkEnds ==
  ASSUME NEW L, NEW E, NEW d, NEW D \in Nat, NEW S, IsLevels(L, S, ArcsOf(d, E)),
         NEW V, NEW R, WalkInv(L, E, d, D, << >>, V, R)
  PROVE  \A e \in E, h \in 1 .. D :
           At(L, NearBy(d, e), h - 1) => [edge |-> e, hop |-> h] \in R
<1>1. L[0] \subseteq V /\ \A v \in V : Finished(L, E, d, D, V, R, v)
  BY DEF WalkInv
<1> DEFINE P == {k \in 0 .. D : L[k] \subseteq V}
<1>2. 0 \in P
  BY <1>1
<1>3. ASSUME NEW k \in 1 .. D, k - 1 \in P PROVE k \in P
  <2> SUFFICES ASSUME NEW s \in L[k], s \notin L[k - 1] PROVE s \in V
    BY <1>3
  <2>1. k - 1 \in Nat /\ k - 1 + 1 = k
    OBVIOUS
  <2>2. PICK e \in E : NearBy(d, e) \in L[k - 1] /\ FarBy(d, e) = s
    <3> DEFINE j == k - 1
    <3>1. j \in Nat /\ s \in L[j + 1] \ L[j]
      BY <2>1
    <3> HIDE DEF j
    <3>2. \E e \in E : NearBy(d, e) \in L[j] /\ FarBy(d, e) = s
      BY <3>1, NextLevel
    <3> QED
      BY <3>2 DEF j
  <2> DEFINE v == NearBy(d, e)
  <2>3. PICK j \in 0 .. (k - 1) : At(L, v, j)
    BY <2>1, <2>2, AtExists
  <2>4. v \in V /\ j \in Nat /\ j < D
    BY <1>3, <2>2, <2>3
  <2> QED
    BY <1>1, <2>2, <2>3, <2>4 DEF Finished
<1> HIDE DEF P
<1>4. \A k \in 0 .. D : k \in P
  BY <1>2, <1>3, UpTo
<1>5. ASSUME NEW e \in E, NEW h \in 1 .. D, At(L, NearBy(d, e), h - 1)
      PROVE  [edge |-> e, hop |-> h] \in R
  <2>1. h - 1 \in 0 .. D /\ h - 1 \in Nat /\ h - 1 < D /\ h - 1 + 1 = h
    OBVIOUS
  <2>2. NearBy(d, e) \in V
    BY <1>4, <1>5, <2>1 DEF P, At
  <2>3. [edge |-> e, hop |-> h - 1 + 1] \in R
    BY <1>1, <1>5, <2>1, <2>2 DEF Finished
  <2> QED
    BY <2>1, <2>3
<1> QED
  BY <1>5

-----------------------------------------------------------------------------
(* What is in a row.                                                        *)
LEMMA RowParts ==
  ASSUME NEW r \in Rows
  PROVE  /\ r.hop \in Nat /\ r.edge \in Edges
         /\ r.edge.from \in Symbols /\ r.edge.to \in Symbols /\ r.edge.from \in Nat
         /\ r.edge.line \in Lines /\ r.edge.kind \in Kinds
<1>1. r.hop \in Nat /\ r.edge \in Edges
  BY DEF Rows, Edges
<1> QED
  BY <1>1, SymbolsAssumption DEF Edges

(* Before is a strict order on rows.                                        *)
LEMMA RowsAreOrdered ==
  ASSUME NEW rs, \A r \in rs : r \in Rows
  PROVE  IsStrictOrder(rs, {x \in rs \X rs : Before(x[2], x[1])})
<1> DEFINE R == {x \in rs \X rs : Before(x[2], x[1])}
<1>1. \A x, y \in rs : <<x, y>> \in R <=> Before(y, x)
  OBVIOUS
<1>2. ASSUME NEW x \in rs PROVE ~Before(x, x)
  BY RowParts DEF Before, KindPrecedes
<1>3. ASSUME NEW x \in rs, NEW y \in rs, NEW z \in rs, Before(y, x), Before(z, y)
      PROVE  Before(z, x)
  <2>1. /\ x.hop \in Nat /\ y.hop \in Nat /\ z.hop \in Nat
        /\ x.edge.from \in Nat /\ y.edge.from \in Nat /\ z.edge.from \in Nat
    BY RowParts
  <2> QED
    BY <1>3, <2>1 DEF Before, KindPrecedes
<1> HIDE DEF R
<1>4. IsStrictOrder(rs, R)
  BY <1>1, <1>2, <1>3 DEF IsStrictOrder
<1> QED
  BY <1>4 DEF R

(* Of the rows in a set, there is one that no other comes before.           *)
LEMMA FirstRow ==
  ASSUME NEW rs, IsFiniteSet(rs), rs # {}, \A r \in rs : r \in Rows
  PROVE  \E m \in rs : \A q \in rs : ~Before(q, m)
<1> DEFINE R == {x \in rs \X rs : Before(x[2], x[1])}
<1>1. IsStrictOrder(rs, R)
  BY RowsAreOrdered
<1>2. \A x, y \in rs : <<x, y>> \in R <=> Before(y, x)
  OBVIOUS
<1> HIDE DEF R
<1>3. PICK m \in rs : \A q \in rs : <<m, q>> \notin R
  BY <1>1, LastExists
<1> QED
  BY <1>2, <1>3

(* dedupe_edges keeps exactly one row of every fact, one at the shortest    *)
(* distance.                                                                *)
LEMMA DedupeParts ==
  ASSUME NEW rs, IsFiniteSet(rs), \A r \in rs : r \in Rows, NEW r \in rs
  PROVE  \E m \in Dedupe(rs) :
           /\ Fact(m) = Fact(r) /\ m.hop <= r.hop
           /\ \A q \in Dedupe(rs) : Fact(q) = Fact(r) => q = m
<1> DEFINE same == {q \in rs : Fact(q) = Fact(r)}
<1>1. IsFiniteSet(same) /\ same # {} /\ \A q \in same : q \in Rows
  BY FS_Subset
<1>2. PICK m \in same : \A q \in same : ~Before(q, m)
  <2> HIDE DEF same
  <2> QED
    BY <1>1, FirstRow
<1>3. m \in Dedupe(rs) /\ Fact(m) = Fact(r)
  BY <1>2 DEF Dedupe
<1>4. m.hop <= r.hop
  <2>1. m.hop \in Nat /\ r.hop \in Nat
    BY RowParts
  <2> QED
    BY <1>2, <2>1 DEF Before
<1>5. ASSUME NEW q \in Dedupe(rs), Fact(q) = Fact(r) PROVE q = m
  <2>1. q \in same /\ q \in rs /\ m \in rs /\ Fact(q) = Fact(m)
    BY <1>3, <1>5 DEF Dedupe
  <2>2. ~Before(q, m) /\ ~Before(m, q)
    BY <1>2, <1>5, <2>1 DEF Dedupe
  <2>3. q \in Rows /\ m \in Rows
    BY <2>1
  <2>4. q.edge.to = m.edge.to /\ q.edge.line = m.edge.line /\ q.edge.kind = m.edge.kind
    BY <2>1 DEF Fact
  <2>5. q.hop = m.hop /\ q.edge.from = m.edge.from
    <3>1. q.hop \in Nat /\ m.hop \in Nat /\ q.edge.from \in Nat /\ m.edge.from \in Nat
      BY <2>3, RowParts
    <3> QED
      BY <2>2, <2>4, <3>1 DEF Before
  <2>6. q.edge = m.edge
    <3>1. q.edge \in Edges /\ m.edge \in Edges
      BY <2>3, RowParts
    <3> QED
      BY <2>4, <2>5, <3>1 DEF Edges
  <2> QED
    BY <2>3, <2>5, <2>6 DEF Rows
<1> QED
  BY <1>3, <1>4, <1>5

-----------------------------------------------------------------------------
(* The levels around S.                                                     *)
LevelsFrom(S, d, E) == CHOOSE f : IsLevels(f, S, ArcsOf(d, E))

(* They are levels.                                                         *)
LEMMA LevelsFromAreLevels ==
  ASSUME NEW S, NEW d, NEW E
  PROVE  IsLevels(LevelsFrom(S, d, E), S, ArcsOf(d, E))
<1>1. \E f : IsLevels(f, S, ArcsOf(d, E))
  BY LevelsExist
<1> QED
  BY <1>1 DEF LevelsFrom

(* Levels of the same edges around the same symbols have the same symbols.  *)
LEMMA LevelsAreOne ==
  ASSUME NEW S, NEW A, NEW f, NEW g, IsLevels(f, S, A), IsLevels(g, S, A), NEW k \in Nat
  PROVE  f[k] = g[k]
<1>1. ASSUME NEW h, IsLevels(h, S, A) PROVE IsLevelsUpTo(h, k, S, A)
  <2>1. ASSUME NEW i \in 1 .. k PROVE h[i] = Spread(h[i - 1], A)
    <3>1. i - 1 \in Nat /\ i - 1 + 1 = i
      OBVIOUS
    <3>2. h[i - 1 + 1] = Spread(h[i - 1], A)
      BY <1>1, <3>1 DEF IsLevels
    <3> QED
      BY <3>1, <3>2
  <2> QED
    BY <1>1, <2>1 DEF IsLevels, IsLevelsUpTo
<1>2. \A i \in 0 .. k : f[i] = g[i]
  BY <1>1, LevelsAgree
<1> QED
  BY <1>2

(* A symbol is reached from a set when it is reached from one of the set.   *)
LEMMA LevelsOfUnion ==
  ASSUME NEW S, NEW d, NEW E, NEW k \in Nat, NEW s
  PROVE  s \in LevelsFrom(S, d, E)[k] <=> \E r \in S : s \in LevelsFrom({r}, d, E)[k]
<1> DEFINE A == ArcsOf(d, E)
           of(T) == LevelsFrom(T, d, E)
           joins(i) == \A t : t \in of(S)[i] <=> \E r \in S : t \in of({r})[i]
           P == {i \in 0 .. k : joins(i)}
<1>1. \A T : IsLevels(of(T), T, A)
  BY LevelsFromAreLevels
<1> HIDE DEF of, A
<1>2. 0 \in P
  <2>1. \A T : of(T)[0] = T
    BY <1>1 DEF IsLevels
  <2>2. ASSUME NEW t PROVE t \in of(S)[0] <=> \E r \in S : t \in of({r})[0]
    <3>1. \A r : t \in of({r})[0] <=> t = r
      BY <2>1
    <3>2. t \in of(S)[0] <=> t \in S
      BY <2>1
    <3>3. (\E r \in S : t \in of({r})[0]) <=> t \in S
      BY <3>1
    <3> QED
      BY <3>2, <3>3
  <2>3. joins(0)
    BY <2>2
  <2> HIDE DEF joins
  <2> QED
    BY <2>3
<1>3. ASSUME NEW i \in 1 .. k, i - 1 \in P PROVE i \in P
  <2>1. ASSUME NEW T, NEW t
        PROVE  t \in of(T)[i] <=> t \in of(T)[i - 1] \/ \E a \in A : a[1] \in of(T)[i - 1] /\ t = a[2]
    <3>1. i - 1 \in Nat /\ i - 1 + 1 = i
      OBVIOUS
    <3>2. of(T)[i - 1 + 1] = Spread(of(T)[i - 1], A)
      BY <1>1, <3>1 DEF IsLevels
    <3> QED
      BY <3>1, <3>2 DEF Spread
  <2>2. \A t : t \in of(S)[i - 1] <=> \E r \in S : t \in of({r})[i - 1]
    BY <1>3
  <2>3. ASSUME NEW t PROVE t \in of(S)[i] <=> \E r \in S : t \in of({r})[i]
    <3>1. ASSUME t \in of(S)[i] PROVE \E r \in S : t \in of({r})[i]
      <4>1. CASE t \in of(S)[i - 1]
        BY <2>1, <2>2, <4>1
      <4>2. CASE \E a \in A : a[1] \in of(S)[i - 1] /\ t = a[2]
        <5>1. PICK a \in A : a[1] \in of(S)[i - 1] /\ t = a[2]
          BY <4>2
        <5>2. PICK r \in S : a[1] \in of({r})[i - 1]
          BY <2>2, <5>1
        <5>3. t \in of({r})[i]
          BY <2>1, <5>1, <5>2
        <5> QED
          BY <5>3
      <4>3. t \in of(S)[i - 1] \/ \E a \in A : a[1] \in of(S)[i - 1] /\ t = a[2]
        BY <2>1, <3>1
      <4> QED
        BY <4>1, <4>2, <4>3
    <3>2. ASSUME NEW r \in S, t \in of({r})[i] PROVE t \in of(S)[i]
      <4>1. CASE t \in of({r})[i - 1]
        BY <2>1, <2>2, <4>1
      <4>2. CASE \E a \in A : a[1] \in of({r})[i - 1] /\ t = a[2]
        <5>1. PICK a \in A : a[1] \in of({r})[i - 1] /\ t = a[2]
          BY <4>2
        <5>2. a[1] \in of(S)[i - 1]
          BY <2>2, <5>1
        <5> QED
          BY <2>1, <5>1, <5>2
      <4> QED
        BY <2>1, <3>2, <4>1, <4>2
    <3> QED
      BY <3>1, <3>2
  <2>4. joins(i)
    BY <2>3
  <2> HIDE DEF joins
  <2> QED
    BY <2>4
<1> HIDE DEF P
<1>4. \A i \in 0 .. k : i \in P
  BY <1>2, <1>3, UpTo
<1>5. k \in P
  BY <1>4
<1> QED
  BY <1>5 DEF P, of

-----------------------------------------------------------------------------
(* The answer to a query: rows at their distance, and one of every fact     *)
(* within the depth.                                                        *)
IsNeighbourhood(L, E, d, D, ans) ==
  /\ \A r \in ans : /\ r.edge \in E /\ r.hop \in 1 .. D
                    /\ At(L, NearBy(d, r.edge), r.hop - 1)
  /\ \A e \in E, h \in 1 .. D :
       At(L, NearBy(d, e), h - 1) =>
         \E m : {r \in ans : r.hop <= h /\ Fact(r) = Fact([edge |-> e])} = {m}

(* dedupe_edges makes it of the rows of a walk.                             *)
LEMMA NeighbourhoodFound ==
  ASSUME NEW L, NEW E, NEW d, NEW D \in Nat, NEW S, IsLevels(L, S, ArcsOf(d, E)),
         NEW V, NEW R, IsFiniteSet(R), WalkInv(L, E, d, D, << >>, V, R)
  PROVE  IsNeighbourhood(L, E, d, D, Dedupe(R))
<1>1. RowsInv(L, E, d, D, R)
  BY DEF WalkInv
<1>2. \A r \in R : r \in Rows
  BY <1>1 DEF RowsInv
<1>3. Dedupe(R) \subseteq R
  BY DEF Dedupe
<1>4. \A r \in Dedupe(R) : r.edge \in E /\ r.hop \in 1 .. D
                           /\ At(L, NearBy(d, r.edge), r.hop - 1)
  BY <1>1, <1>3 DEF RowsInv
<1>5. ASSUME NEW e \in E, NEW h \in 1 .. D, At(L, NearBy(d, e), h - 1)
      PROVE  \E m : {r \in Dedupe(R) : r.hop <= h /\ Fact(r) = Fact([edge |-> e])} = {m}
  <2> DEFINE row == [edge |-> e, hop |-> h]
  <2>1. row \in R /\ row.hop = h
    BY <1>5, WalkEnds
  <2>2. Fact(row) = Fact([edge |-> e])
    BY DEF Fact
  <2> HIDE DEF row
  <2>3. PICK m \in Dedupe(R) :
          /\ Fact(m) = Fact(row) /\ m.hop <= row.hop
          /\ \A q \in Dedupe(R) : Fact(q) = Fact(row) => q = m
    BY <1>2, <2>1, DedupeParts
  <2>4. \A r \in Dedupe(R) : r.hop <= h /\ Fact(r) = Fact([edge |-> e]) <=> r = m
    BY <2>1, <2>2, <2>3
  <2>5. {r \in Dedupe(R) : r.hop <= h /\ Fact(r) = Fact([edge |-> e])} = {m}
    BY <2>4
  <2> QED
    BY <2>5
<1> QED
  BY <1>4, <1>5 DEF IsNeighbourhood

(* A row is from file f; an edge from f leads to what is at most k away.    *)
From(rs, f) == \E r \in rs : FileOf[r.edge.from] = f
Within(L, E, k, f) == \E e \in E : FileOf[e.from] = f /\ e.to \in L[k]

(* ans is from the files, except one, from which an edge leads to what is   *)
(* at most k away from a symbol of P.                                       *)
NamesFiles(E, k, P, file, ans) ==
  \A f : From(ans, f) <=>
           f # file /\ \E root \in P : Within(LevelsFrom({root}, "incoming", E), E, k, f)

(* The rows of a walk are from those files, for one symbol.                 *)
LEMMA RowsNameFiles ==
  ASSUME NEW L, NEW E, NEW D \in Nat, D > 0, NEW S, IsLevels(L, S, ArcsOf("incoming", E)),
         NEW V, NEW R, WalkInv(L, E, "incoming", D, << >>, V, R), NEW f
  PROVE  From(R, f) <=> Within(L, E, D - 1, f)
<1>0. D - 1 \in Nat /\ \A e : NearBy("incoming", e) = e.to
  BY DEF NearBy
<1>1. ASSUME NEW r \in R, FileOf[r.edge.from] = f
      PROVE  \E e \in E : FileOf[e.from] = f /\ e.to \in L[D - 1]
  <2>1. r.edge \in E /\ r.hop \in 1 .. D /\ At(L, r.edge.to, r.hop - 1)
    BY <1>0 DEF WalkInv, RowsInv
  <2>2. r.hop - 1 \in Nat /\ r.hop - 1 <= D - 1
    BY <2>1
  <2>3. L[r.hop - 1] \subseteq L[D - 1]
    BY <1>0, <2>2, LevelsGrow
  <2> QED
    BY <1>1, <2>1, <2>3 DEF At
<1>2. ASSUME NEW e \in E, FileOf[e.from] = f, e.to \in L[D - 1]
      PROVE  \E r \in R : FileOf[r.edge.from] = f
  <2>1. PICK j \in 0 .. (D - 1) : At(L, e.to, j)
    BY <1>0, <1>2, AtExists
  <2>2. j + 1 \in 1 .. D /\ j + 1 - 1 = j
    BY <1>0
  <2> DEFINE h == j + 1
  <2>3. h \in 1 .. D /\ At(L, NearBy("incoming", e), h - 1)
    BY <1>0, <2>1, <2>2
  <2> HIDE DEF h
  <2>4. [edge |-> e, hop |-> h] \in R
    BY <2>3, WalkEnds
  <2> QED
    BY <1>2, <2>4
<1> QED
  BY <1>1, <1>2 DEF From, Within

(* file_impact loses no file when it joins the rows of another walk to its  *)
(* answer.                                                                  *)
LEMMA OutsideKeepsFiles ==
  ASSUME NEW rs, IsFiniteSet(rs), \A r \in rs : r \in Rows, NEW f
  PROVE  From(answer \union Outside(rs), f) <=> From(answer, f) \/ (f # question.file /\ From(rs, f))
<1> DEFINE outside == {r \in rs : FileOf[r.edge.from] # question.file}
<1>1. \A r \in Outside(rs) : r \in outside
  BY DEF Outside
<1>2. ASSUME NEW r \in outside, FileOf[r.edge.from] = f
      PROVE  \E q \in answer \union Outside(rs) : FileOf[q.edge.from] = f
  <2>1. CASE \E q \in answer : Place(q) = Place(r)
    <3>1. PICK q \in answer : Place(q) = Place(r)
      BY <2>1
    <3>2. q.edge.from = r.edge.from
      BY <3>1 DEF Place
    <3> QED
      BY <1>2, <3>1, <3>2
  <2>2. CASE \A q \in answer : Place(q) # Place(r)
    <3> DEFINE same == {q \in outside : Place(q) = Place(r)}
    <3>1. IsFiniteSet(same) /\ same # {} /\ \A q \in same : q \in Rows
      BY FS_Subset
    <3>2. PICK m \in same : \A q \in same : ~Before(q, m)
      <4> HIDE DEF same
      <4> QED
        BY <3>1, FirstRow
    <3>3. m \in outside /\ Place(m) = Place(r)
      OBVIOUS
    <3>4. m \in Outside(rs)
      BY <2>2, <3>2, <3>3 DEF Outside
    <3>5. m.edge.from = r.edge.from
      BY <3>3 DEF Place
    <3> QED
      BY <1>2, <3>4, <3>5
  <2> QED
    BY <2>1, <2>2
<1>3. (\E r \in answer \union Outside(rs) : FileOf[r.edge.from] = f) <=>
        \/ \E r \in answer : FileOf[r.edge.from] = f
        \/ f # question.file /\ \E r \in rs : FileOf[r.edge.from] = f
  BY <1>1, <1>2
<1> QED
  BY <1>3 DEF From

(* dedupe_edges loses no file.                                              *)
LEMMA DedupeKeepsFiles ==
  ASSUME NEW rs, IsFiniteSet(rs), \A r \in rs : r \in Rows, NEW f
  PROVE  From(Dedupe(rs), f) <=> From(rs, f)
<1>1. ASSUME NEW r \in rs, FileOf[r.edge.from] = f
      PROVE  \E q \in Dedupe(rs) : FileOf[q.edge.from] = f
  <2>1. PICK m \in Dedupe(rs) : Fact(m) = Fact(r)
    BY DedupeParts
  <2>2. FileOf[m.edge.from] = FileOf[r.edge.from]
    BY <2>1 DEF Fact
  <2> QED
    BY <1>1, <2>1, <2>2
<1> QED
  BY <1>1 DEF Dedupe, From

(* After the walk from root, the answer names the files of that symbol's    *)
(* dependents too.                                                          *)
LEMMA ImpactGoesOn ==
  ASSUME NEW E, NEW D \in Nat, D > 0, NEW P, NEW root, NEW V, NEW R, IsFiniteSet(R),
         WalkInv(LevelsFrom({root}, "incoming", E), E, "incoming", D, << >>, V, R),
         NamesFiles(E, D - 1, P, question.file, answer)
  PROVE  NamesFiles(E, D - 1, P \union {root}, question.file,
                    answer \union Outside(Dedupe(R)))
<1>1. \A r \in R : r \in Rows
  BY DEF WalkInv, RowsInv
<1>2. IsFiniteSet(Dedupe(R)) /\ \A r \in Dedupe(R) : r \in Rows
  <2>1. Dedupe(R) \subseteq R
    BY DEF Dedupe
  <2> QED
    BY <1>1, <2>1, FS_Subset
<1> DEFINE L(r) == LevelsFrom({r}, "incoming", E)
<1> SUFFICES ASSUME NEW f
             PROVE  From(answer \union Outside(Dedupe(R)), f) <=>
                      f # question.file /\ \E s \in P \union {root} : Within(L(s), E, D - 1, f)
  BY DEF NamesFiles
<1>3. From(answer, f) <=> f # question.file /\ \E s \in P : Within(L(s), E, D - 1, f)
  BY DEF NamesFiles
<1>4. From(Dedupe(R), f) <=> From(R, f)
  BY <1>1, DedupeKeepsFiles
<1>5. From(R, f) <=> Within(L(root), E, D - 1, f)
  <2> DEFINE near == L(root)
  <2>1. IsLevels(near, {root}, ArcsOf("incoming", E))
        /\ WalkInv(near, E, "incoming", D, << >>, V, R)
    BY LevelsFromAreLevels
  <2> HIDE DEF near
  <2>2. From(R, f) <=> Within(near, E, D - 1, f)
    BY <2>1, RowsNameFiles
  <2> QED
    BY <2>2 DEF near
<1>6. From(answer \union Outside(Dedupe(R)), f) <=>
        From(answer, f) \/ (f # question.file /\ From(Dedupe(R), f))
  BY <1>2, OutsideKeepsFiles
<1> DEFINE of(s) == Within(L(s), E, D - 1, f)
<1>7. (\E s \in P \union {root} : of(s)) <=> (\E s \in P : of(s)) \/ of(root)
  <2> HIDE DEF of
  <2> QED
    OBVIOUS
<1> QED
  BY <1>3, <1>4, <1>5, <1>6, <1>7

-----------------------------------------------------------------------------
(* Every order of a finite set lists it.                                    *)
LEMMA OrdersListAll ==
  ASSUME NEW T, IsFiniteSet(T), NEW order \in SetToSeqs(T)
  PROVE  order \in Seq(T) /\ Range(order) = T
<1> DEFINE n == Cardinality(T)
<1>1. n \in Nat
  BY FS_CardinalityType
<1>2. order \in [1 .. n -> T] /\ \A i, j \in 1 .. n : i # j => order[i] # order[j]
  BY DEF SetToSeqs
<1>3. order \in Injection(1 .. n, T)
  BY <1>2 DEF Injection, IsInjective
<1> HIDE DEF n
<1>4. IsFiniteSet(1 .. n) /\ Cardinality(1 .. n) = n
  BY <1>1, FS_Interval
<1>5. order \in Surjection(1 .. n, T)
  BY <1>3, <1>4, FS_Injection DEF n
<1>6. order \in Seq(T)
  BY <1>1, <1>2
<1>7. Range(order) = T
  <2>1. ASSUME NEW t \in T PROVE \E i \in DOMAIN order : order[i] = t
    BY <1>2, <1>5 DEF Surjection
  <2>2. \A i \in DOMAIN order : order[i] \in T
    BY <1>2
  <2> QED
    BY <2>1, <2>2 DEF Range
<1> QED
  BY <1>6, <1>7

-----------------------------------------------------------------------------
(* A question is asked of references that do not change. While it is being  *)
(* answered, one walk is under way: of the symbol asked about, or of one of *)
(* the file's, with those before it accounted for.                          *)
Found == IsFiniteSet(references) /\ \A r \in references : r \in References

Searching(root) ==
  /\ WalkInv(LevelsFrom({root}, question.direction, Eligible), Eligible,
             question.direction, question.depth, queue, visited, rows)
  /\ IsFiniteSet(rows)
  /\ question.file = NONE => question.symbol = root /\ roots = {}
  /\ question.file # NONE =>
       /\ question.direction = "incoming"
       /\ root \in SymbolsOf(question.file) /\ roots \subseteq SymbolsOf(question.file) \ {root}
       /\ question.depth > 0 =>
            NamesFiles(Eligible, question.depth - 1,
                       SymbolsOf(question.file) \ (roots \union {root}), question.file, answer)

Answered ==
  /\ question.file = NONE =>
       IsNeighbourhood(LevelsFrom({question.symbol}, question.direction, Eligible), Eligible,
                       question.direction, question.depth, answer)
  /\ question.file # NONE =>
       /\ question.direction = "incoming"
       /\ question.depth > 0 =>
            NamesFiles(Eligible, question.depth - 1, SymbolsOf(question.file), question.file, answer)

TraversalInv ==
  /\ Found
  /\ pc = "ready" => roots = {} /\ answer = {}
  /\ pc \in {"traverse", "answered"} => question.depth \in Nat
  /\ pc = "traverse" => \E root \in Symbols : Searching(root)
  /\ pc = "answered" => Answered

(* The edges a question goes along are finitely many.                       *)
LEMMA EligibleParts ==
  ASSUME Found
  PROVE  Eligible \subseteq Edges /\ IsFiniteSet(Eligible)
<1> DEFINE edge(kind, r) == [from |-> r.from, to |-> r.to, line |-> r.line, kind |-> kind]
<1>1. ASSUME NEW kind \in Kinds, NEW rs, rs \subseteq references
      PROVE  IsFiniteSet(Of(kind, rs)) /\ \A e \in Of(kind, rs) : e \in Edges
  <2> DEFINE f == [r \in rs |-> edge(kind, r)]
  <2>1. Of(kind, rs) = {f[r] : r \in rs}
    BY DEF Of
  <2>2. \A r \in rs : f[r] \in Edges
    BY <1>1 DEF Found, References, Edges
  <2>3. DOMAIN f = rs /\ IsFiniteSet(rs)
    BY <1>1, FS_Subset DEF Found
  <2> HIDE DEF f
  <2>4. IsFiniteSet({f[r] : r \in rs})
    BY <2>3, ImageIsFinite
  <2> QED
    BY <2>1, <2>2, <2>4
<1>2. Exercises \subseteq references /\ references \subseteq references
  BY DEF Exercises
<1>3. "Calls" \in Kinds /\ "Tests" \in Kinds
  BY DEF Kinds
<1>4. IsFiniteSet(graph) /\ \A e \in graph : e \in Edges
  <2> DEFINE calls == Of("Calls", references)
             tested == Of("Tests", Exercises)
  <2>1. /\ IsFiniteSet(calls) /\ \A e \in calls : e \in Edges
        /\ IsFiniteSet(tested) /\ \A e \in tested : e \in Edges
    BY <1>1, <1>2, <1>3
  <2>2. graph = calls \union tested
    BY DEF graph
  <2> HIDE DEF calls, tested
  <2> QED
    BY <2>1, <2>2, FS_Union
<1>5. Eligible \subseteq graph
  BY DEF Eligible
<1> QED
  BY <1>4, <1>5, FS_Subset

(* The ends of an edge, as the model has them.                              *)
LEMMA EndsOfEdges ==
  /\ \A e : Near(e) = NearBy(question.direction, e) /\ Far(e) = FarBy(question.direction, e)
  /\ Arcs = ArcsOf(question.direction, Eligible)
BY DEF Near, Far, NearBy, FarBy, Arcs, ArcsOf

(* A walk begins.                                                           *)
LEMMA WalkFromBegins ==
  ASSUME NEW root \in Symbols, WalkFrom(root), question'.depth \in Nat
  PROVE  /\ WalkInv(LevelsFrom({root}, question'.direction, Eligible'), Eligible',
                    question'.direction, question'.depth, queue', visited', rows')
         /\ IsFiniteSet(rows')
<1> DEFINE L == LevelsFrom({root}, question'.direction, Eligible')
           d == question'.direction
           D == question'.depth
           E == Eligible'
<1>1. L[0] = {root}
  BY LevelsFromAreLevels DEF IsLevels
<1>2. queue' = <<[node |-> root, depth |-> 0]>> /\ visited' = {root} /\ rows' = {}
  BY DEF WalkFrom
<1>3. D \in Nat
  OBVIOUS
<1> HIDE DEF L, d, D, E
<1>4. WalkInv(L, E, d, D, <<[node |-> root, depth |-> 0]>>, {root}, {})
  BY <1>1, <1>3, WalkStarts
<1>5. WalkInv(L, E, d, D, queue', visited', rows')
  BY <1>2, <1>4
<1>6. IsFiniteSet(rows')
  BY <1>2, FS_EmptySet
<1> QED
  BY <1>5, <1>6 DEF L, d, D, E

(* A turn of the loop.                                                      *)
LEMMA VisitGoesOn ==
  ASSUME Found, question.depth \in Nat, NEW root \in Symbols, Searching(root), Visit
  PROVE  /\ WalkInv(LevelsFrom({root}, question.direction, Eligible), Eligible,
                    question.direction, question.depth, queue', visited', rows')
         /\ IsFiniteSet(rows')
<1> DEFINE L == LevelsFrom({root}, question.direction, Eligible)
           d == question.direction
           D == question.depth
           E == Eligible
           taken == {e \in Open : Admits(e)}
           hop == Head(queue).depth + 1
           new == {Far(e) : e \in taken} \ visited
           open == {e \in E : NearBy(d, e) = queue[1].node /\ queue[1].depth < D}
<1>1. /\ queue # <<>>
      /\ rows' = rows \union {[edge |-> e, hop |-> hop] : e \in taken}
      /\ visited' = visited \union new
      /\ \E order \in SetToSeqs(new) :
           queue' = Tail(queue) \o [i \in DOMAIN order |-> [node |-> order[i], depth |-> hop]]
  BY DEF Visit, VisitBy
<1>2. IsLevels(L, {root}, ArcsOf(d, E)) /\ WalkInv(L, E, d, D, queue, visited, rows)
  BY LevelsFromAreLevels DEF Searching
<1>3. Head(queue) = queue[1]
  BY <1>1, <1>2 DEF WalkInv, QueueInv
<1>4. taken = open
  BY <1>3, EndsOfEdges DEF Open, EdgesAt, WithinDepth, Eligible
<1>5. new = {FarBy(d, e) : e \in open} \ visited
  BY <1>4, EndsOfEdges
<1>6. E \subseteq Edges /\ IsFiniteSet(E)
  BY EligibleParts
<1>7. IsFiniteSet(open) /\ open \subseteq Edges
  BY <1>6, FS_Subset
<1>8. IsFiniteSet(new) /\ new \subseteq Symbols
  <2> DEFINE f == [e \in open |-> FarBy(d, e)]
  <2>1. new = {f[e] : e \in open} \ visited /\ DOMAIN f = open
    BY <1>5
  <2>2. \A e \in open : f[e] \in Symbols
    BY <1>7 DEF FarBy, Edges
  <2> HIDE DEF f, open, new
  <2>3. IsFiniteSet({f[e] : e \in open})
    BY <1>7, <2>1, ImageIsFinite
  <2> QED
    BY <2>1, <2>2, <2>3, FS_Subset
<1>9. PICK order \in SetToSeqs(new) :
        queue' = Tail(queue) \o [i \in DOMAIN order |-> [node |-> order[i], depth |-> hop]]
  BY <1>1
<1>10. order \in Seq(new) /\ Range(order) = new
  <2> HIDE DEF new
  <2> QED
    BY <1>8, OrdersListAll
<1>11. order \in Seq(Symbols) /\ Range(order) = {FarBy(d, e) : e \in open} \ visited
  BY <1>5, <1>8, <1>10
<1>12. D \in Nat /\ hop = queue[1].depth + 1
  BY <1>3
<1>13. IsFiniteSet(rows')
  <2> DEFINE f == [e \in open |-> [edge |-> e, hop |-> hop]]
  <2>1. rows' = rows \union {f[e] : e \in open} /\ DOMAIN f = open
    BY <1>1, <1>4
  <2>2. IsFiniteSet(rows)
    BY DEF Searching
  <2> HIDE DEF f, open
  <2>3. IsFiniteSet({f[e] : e \in open})
    BY <1>7, <2>1, ImageIsFinite
  <2> QED
    BY <2>1, <2>2, <2>3, FS_Union
<1>14. WalkInv(L, E, d, D, queue', visited', rows')
  <2>1. open = {e \in E : NearBy(d, e) = queue[1].node /\ queue[1].depth < D}
    OBVIOUS
  <2> HIDE DEF L, E, d, D, open, hop, new, taken
  <2>2. IsTurn(E, d, D, queue, visited, rows, open, order, queue', visited', rows')
    BY <1>1, <1>4, <1>5, <1>6, <1>9, <1>11, <1>12, <2>1 DEF IsTurn
  <2> QED
    BY <1>2, <1>12, <2>2, WalkGoesOn
<1> QED
  BY <1>13, <1>14

(* As long as the repository and the question stay, so do the edges.        *)
LEMMA EligibleStays ==
  ASSUME UNCHANGED <<repository, question>>
  PROVE  Eligible' = Eligible
<1>1. structural' = structural /\ references' = references /\ question' = question
  BY DEF repository
<1>2. graph' = graph
  BY <1>1 DEF graph, Exercises, Of
<1>3. \A e : Admits(e)' <=> Admits(e)
  BY <1>1 DEF Admits, Resolution
<1> QED
  BY <1>2, <1>3 DEF Eligible

(* The symbols to be walked from are taken in the order of their ids.       *)
LEMMA LeastIsFirst ==
  ASSUME NEW S, S \subseteq Symbols, S # {}
  PROVE  Least(S) \in S
<1> DEFINE R == {x \in S \X S : x[2] < x[1]}
<1>1. IsFiniteSet(S) /\ \A s \in S : s \in Nat
  BY SymbolsAssumption, FS_Subset
<1>2. \A x, y \in S : <<x, y>> \in R <=> y < x
  OBVIOUS
<1> HIDE DEF R
<1>3. IsStrictOrder(S, R)
  <2>1. \A x \in S : <<x, x>> \notin R
    BY <1>1, <1>2
  <2>2. \A x, y, z \in S : <<x, y>> \in R /\ <<y, z>> \in R => <<x, z>> \in R
    BY <1>1, <1>2
  <2> QED
    BY <2>1, <2>2 DEF IsStrictOrder
<1>4. PICK s \in S : \A t \in S : <<s, t>> \notin R
  BY <1>1, <1>3, LastExists
<1>5. ASSUME NEW t \in S PROVE s <= t
  <2>1. s \in Nat /\ t \in Nat /\ ~(t < s)
    BY <1>1, <1>2, <1>4
  <2> QED
    BY <2>1
<1> QED
  BY <1>5 DEF Least

(* What a command or tool does to a question keeps the invariant.           *)
LEMMA StepKeepsTraversal ==
  ASSUME TraversalInv, Step, UNCHANGED repository
  PROVE  TraversalInv'
<1>1. Found /\ Found'
  BY DEF TraversalInv, Found, repository
<1>2. CASE Query
  <2>1. /\ pc = "ready" /\ question' \in Questions(Symbols, {NONE}, {"incoming", "outgoing"})
        /\ WalkFrom(question'.symbol) /\ pc' = "traverse"
        /\ roots' = roots /\ answer' = answer
    BY <1>2 DEF Query
  <2>2. question'.symbol \in Symbols /\ question'.file = NONE /\ question'.depth \in Nat
    BY <2>1, LinesAssumption DEF Questions
  <2>3. roots' = {}
    BY <2>1 DEF TraversalInv
  <2> PICK root \in Symbols : root = question'.symbol
    BY <2>2
  <2>4. Searching(root)'
    <3>1. WalkFrom(root)
      BY <2>1
    <3>2. /\ WalkInv(LevelsFrom({root}, question'.direction, Eligible'), Eligible',
                     question'.direction, question'.depth, queue', visited', rows')
          /\ IsFiniteSet(rows')
      BY <2>2, <3>1, WalkFromBegins
    <3> QED
      BY <2>2, <2>3, <3>2 DEF Searching
  <2> QED
    BY <1>1, <2>1, <2>2, <2>4 DEF TraversalInv
<1>3. CASE Impact
  <2> DEFINE defined == SymbolsOf(question'.file)
             root == Least(defined)
  <2>1. /\ pc = "ready"
        /\ question' \in Questions({NONE}, {f \in Files : SymbolsOf(f) # {}}, {"incoming"})
        /\ WalkFrom(root) /\ roots' = defined \ {root} /\ pc' = "traverse"
        /\ answer' = answer
    BY <1>3 DEF Impact
  <2>2. /\ question'.file # NONE /\ question'.depth \in Nat /\ question'.direction = "incoming"
        /\ defined # {}
    BY <2>1, LinesAssumption, NoneAssumption DEF Questions
  <2>3. answer' = {}
    BY <2>1 DEF TraversalInv
  <2>4. defined \subseteq Symbols
    BY DEF SymbolsOf
  <2>5. root \in defined /\ root \in Symbols
    <3> HIDE DEF defined
    <3> QED
      BY <2>2, <2>4, LeastIsFirst
  <2>6. NamesFiles(Eligible', question'.depth - 1, {}, question'.file, {})
    BY DEF NamesFiles, From
  <2>7. defined \ (roots' \union {root}) = {}
    BY <2>1
  <2> HIDE DEF root
  <2>8. /\ WalkInv(LevelsFrom({root}, question'.direction, Eligible'), Eligible',
                   question'.direction, question'.depth, queue', visited', rows')
        /\ IsFiniteSet(rows')
    BY <2>1, <2>2, <2>5, WalkFromBegins
  <2>9. \E r \in Symbols : Searching(r)'
    BY <2>1, <2>2, <2>3, <2>5, <2>6, <2>7, <2>8 DEF Searching
  <2> QED
    BY <1>1, <2>1, <2>2, <2>9 DEF TraversalInv
<1>4. CASE Visit
  <2>1. pc = "traverse" /\ UNCHANGED <<pc, question, roots, answer>>
    BY <1>4 DEF Visit, VisitBy
  <2>2. PICK root \in Symbols : Searching(root)
    BY <2>1 DEF TraversalInv
  <2>3. Eligible' = Eligible
    BY <2>1, EligibleStays DEF repository
  <2>4. question.depth \in Nat
    BY <2>1 DEF TraversalInv
  <2>5. /\ WalkInv(LevelsFrom({root}, question.direction, Eligible), Eligible,
                   question.direction, question.depth, queue', visited', rows')
        /\ IsFiniteSet(rows')
    BY <1>1, <1>4, <2>2, <2>4, VisitGoesOn
  <2>6. Searching(root)'
    BY <2>1, <2>2, <2>3, <2>5 DEF Searching, SymbolsOf
  <2> QED
    BY <1>1, <2>1, <2>4, <2>6 DEF TraversalInv
<1>5. CASE Collapse
  <2>1. /\ pc = "traverse" /\ queue = << >> /\ question' = question
        /\ answer' = IF question.file = NONE THEN Dedupe(rows)
                     ELSE answer \union Outside(Dedupe(rows))
        /\ IF roots = {}
             THEN pc' = "answered" /\ UNCHANGED <<roots, queue, visited, rows>>
             ELSE /\ WalkFrom(Least(roots))
                  /\ roots' = roots \ {Least(roots)}
                  /\ UNCHANGED pc
    BY <1>5 DEF Collapse
  <2>2. PICK root \in Symbols : Searching(root)
    BY <2>1 DEF TraversalInv
  <2>3. Eligible' = Eligible
    BY <2>1, EligibleStays DEF repository
  <2>4. question.depth \in Nat
    BY <2>1 DEF TraversalInv
  <2> DEFINE L == LevelsFrom({root}, question.direction, Eligible)
             E == Eligible
             D == question.depth
             d == question.direction
             S == SymbolsOf(question.file)
             done == S \ (roots \union {root})
  <2>5. /\ IsLevels(L, {root}, ArcsOf(d, E)) /\ IsFiniteSet(rows)
        /\ WalkInv(L, E, d, D, << >>, visited, rows)
    BY <2>1, <2>2, LevelsFromAreLevels DEF Searching
  <2>6. CASE question.file = NONE
    <3>1. question.symbol = root /\ roots = {} /\ pc' = "answered" /\ answer' = Dedupe(rows)
      BY <2>1, <2>2, <2>6 DEF Searching
    <3>2. IsNeighbourhood(L, E, d, D, Dedupe(rows))
      <4> HIDE DEF L, E, d, D
      <4>1. D \in Nat
        BY <2>4 DEF D
      <4> QED
        BY <2>5, <4>1, NeighbourhoodFound
    <3>3. Answered'
      BY <2>1, <2>3, <2>6, <3>1, <3>2 DEF Answered
    <3> QED
      BY <1>1, <2>1, <2>4, <3>1, <3>3 DEF TraversalInv
  <2>7. CASE question.file # NONE
    <3>1. /\ d = "incoming" /\ root \in S /\ roots \subseteq S \ {root}
          /\ D > 0 => NamesFiles(E, D - 1, done, question.file, answer)
          /\ answer' = answer \union Outside(Dedupe(rows))
      BY <2>1, <2>2, <2>7 DEF Searching
    <3>2. done \union {root} = S \ roots
      BY <3>1
    <3>3. D > 0 => NamesFiles(E, D - 1, S \ roots, question.file, answer')
      <4> SUFFICES ASSUME D > 0
                   PROVE  NamesFiles(E, D - 1, done \union {root}, question.file, answer')
        BY <3>2
      <4>1. /\ WalkInv(LevelsFrom({root}, "incoming", E), E, "incoming", D, << >>, visited, rows)
            /\ NamesFiles(E, D - 1, done, question.file, answer)
            /\ D \in Nat
        BY <2>4, <2>5, <3>1
      <4> HIDE DEF E, D, done
      <4>2. NamesFiles(E, D - 1, done \union {root}, question.file,
                       answer \union Outside(Dedupe(rows)))
        BY <2>5, <4>1, ImpactGoesOn
      <4> QED
        BY <3>1, <4>2
    <3>4. CASE roots = {}
      <4>1. pc' = "answered" /\ S \ roots = S
        BY <2>1, <3>4
      <4>2. Answered'
        BY <2>1, <2>3, <2>7, <3>1, <3>3, <4>1 DEF Answered, SymbolsOf
      <4> QED
        BY <1>1, <2>1, <2>4, <4>1, <4>2 DEF TraversalInv
    <3>5. CASE roots # {}
      <4>1. roots \subseteq Symbols
        BY <3>1 DEF SymbolsOf
      <4>2. PICK next \in roots : next = Least(roots)
        BY <3>5, <4>1, LeastIsFirst
      <4>3. WalkFrom(next) /\ roots' = roots \ {next} /\ pc' = pc
        BY <2>1, <3>5, <4>2
      <4>4. next \in Symbols /\ next \in S /\ roots' \subseteq S \ {next}
            /\ S \ (roots' \union {next}) = S \ roots
        BY <3>1, <4>1, <4>2, <4>3
      <4>5. /\ WalkInv(LevelsFrom({next}, question'.direction, Eligible'), Eligible',
                       question'.direction, question'.depth, queue', visited', rows')
            /\ IsFiniteSet(rows')
        BY <2>1, <2>4, <4>3, <4>4, WalkFromBegins
      <4>6. Searching(next)'
        BY <2>1, <2>3, <2>7, <3>1, <3>3, <4>4, <4>5 DEF Searching, SymbolsOf
      <4> QED
        BY <1>1, <2>1, <2>4, <4>3, <4>4, <4>6 DEF TraversalInv
    <3> QED
      BY <3>4, <3>5
  <2> QED
    BY <2>6, <2>7
<1>6. CASE Done
  BY <1>1, <1>6 DEF Done, TraversalInv
<1> QED
  BY <1>2, <1>3, <1>4, <1>5, <1>6 DEF Step

(* The invariant holds of every state that programmers, questions and       *)
(* selections of tests lead to.                                             *)
LEMMA TraversalInvariant == QuestionsSpec => []TraversalInv
<1>1. QuestionsInit => TraversalInv
  <2> SUFFICES ASSUME Init PROVE TraversalInv
    BY DEF QuestionsInit
  <2>1. references = {} /\ pc = "ready" /\ roots = {} /\ answer = {}
    BY DEF Init, Empty, Ready
  <2> QED
    BY <2>1, FS_EmptySet DEF TraversalInv, Found
<1>2. ASSUME TraversalInv, [AskOfGraph \/ AskOfChange]_questions
      PROVE  TraversalInv'
  <2>1. CASE UNCHANGED <<repository, asking>>
    <3>1. /\ structural' = structural /\ references' = references /\ pc' = pc
          /\ question' = question /\ roots' = roots /\ queue' = queue
          /\ visited' = visited /\ rows' = rows /\ answer' = answer
      BY <2>1 DEF repository, asking, traversal
    <3>2. Eligible' = Eligible
      BY <3>1, EligibleStays DEF repository
    <3>3. \A root \in Symbols : Searching(root) => Searching(root)'
      BY <3>1, <3>2 DEF Searching, SymbolsOf
    <3>4. Answered => Answered'
      BY <3>1, <3>2 DEF Answered, SymbolsOf
    <3>5. Found'
      BY <1>2, <3>1 DEF TraversalInv, Found
    <3> QED
      BY <1>2, <3>1, <3>3, <3>4, <3>5 DEF TraversalInv
  <2>2. CASE Write
    <3>1. PICK r \in References : Refer(r)
      BY <2>2 DEF Write
    <3>2. /\ pc = "ready" /\ pc' = pc /\ roots' = roots /\ answer' = answer
          /\ references' = references \union {r}
      BY <2>2, <3>1 DEF Write, Refer, asking, traversal
    <3>3. Found'
      BY <1>2, <3>2, FS_AddElement DEF TraversalInv, Found
    <3> QED
      BY <1>2, <3>2, <3>3 DEF TraversalInv
  <2>3. CASE Step /\ UNCHANGED repository
    BY <1>2, <2>3, StepKeepsTraversal
  <2>4. Write \/ (Step /\ UNCHANGED repository) \/ UNCHANGED <<repository, asking>>
    BY <1>2 DEF AskOfGraph, AskOfChange, Next, Ask, AskForTests, vars, questions
  <2> QED
    BY <2>1, <2>2, <2>3, <2>4
<1> QED
  BY <1>1, <1>2, PTL DEF QuestionsSpec

(* The distances of the model are those of the reference definition.        *)
LEMMA AwayAgrees ==
  ASSUME NEW S, NEW k \in Nat
  PROVE  Away(S)[k] = LevelsFrom(S, question.direction, Eligible)[k]
<1> DEFINE A == ArcsOf(question.direction, Eligible)
           f == Away(S)
           g == LevelsFrom(S, question.direction, Eligible)
<1>1. IsLevels(f, S, A) /\ IsLevels(g, S, A)
  BY AwayIsLevels, LevelsFromAreLevels, EndsOfEdges
<1> HIDE DEF A, f, g
<1>2. f[k] = g[k]
  BY <1>1, LevelsAreOne
<1> QED
  BY <1>2 DEF f, g

(* blast_radius and dependencies answer with the neighbourhood of the       *)
(* symbol: rows that are admitted edges at the distance they say, and for   *)
(* every fact within the depth exactly one, with the shortest distance - in *)
(* whatever order the edges of a node are listed, and of any graph.         *)
THEOREM AnswersAreNeighbourhoods == QuestionsSpec => []AnswerIsNeighbourhood
<1>1. TraversalInv => AnswerIsNeighbourhood
  <2> SUFFICES ASSUME TraversalInv, pc = "answered", question.file = NONE
               PROVE  LET away == Away({question.symbol})
                          HopIs(e, h) == Near(e) \in away[h - 1] \ (IF h = 1 THEN {} ELSE away[h - 2])
                      IN  /\ \A r \in answer : r.edge \in graph /\ Admits(r.edge) /\ HopIs(r.edge, r.hop)
                          /\ \A e \in graph, h \in 1 .. question.depth :
                               Admits(e) /\ HopIs(e, h) =>
                                 Cardinality({r \in answer : r.hop <= h /\ Fact(r) = Fact([edge |-> e])}) = 1
    BY DEF AnswerIsNeighbourhood
  <2> DEFINE away == Away({question.symbol})
             HopIs(e, h) == Near(e) \in away[h - 1] \ (IF h = 1 THEN {} ELSE away[h - 2])
             d == question.direction
             D == question.depth
             L == LevelsFrom({question.symbol}, d, Eligible)
  <2>1. D \in Nat /\ IsNeighbourhood(L, Eligible, d, D, answer)
    BY DEF TraversalInv, Answered
  <2>2. ASSUME NEW e, NEW h \in 1 .. D PROVE HopIs(e, h) <=> At(L, NearBy(d, e), h - 1)
    <3>1. h - 1 \in Nat /\ away[h - 1] = L[h - 1] /\ Near(e) = NearBy(d, e)
      BY <2>1, AwayAgrees, EndsOfEdges
    <3>2. h - 1 - 1 = h - 2
      BY <2>1
    <3>3. CASE h = 1
      BY <3>1, <3>3 DEF At
    <3>4. CASE h # 1
      <4>1. h - 2 \in Nat /\ h - 1 > 0
        BY <2>1, <3>4
      <4>2. away[h - 2] = L[h - 2]
        BY <4>1, AwayAgrees
      <4> HIDE DEF away, L
      <4> QED
        BY <3>1, <3>2, <3>4, <4>1, <4>2 DEF At
    <3> QED
      BY <3>3, <3>4
  <2> HIDE DEF away, HopIs, L, d, D
  <2>3. ASSUME NEW r \in answer PROVE r.edge \in graph /\ Admits(r.edge) /\ HopIs(r.edge, r.hop)
    BY <2>1, <2>2 DEF IsNeighbourhood, Eligible
  <2>4. ASSUME NEW e \in graph, NEW h \in 1 .. D, Admits(e), HopIs(e, h)
        PROVE  Cardinality({r \in answer : r.hop <= h /\ Fact(r) = Fact([edge |-> e])}) = 1
    <3>1. e \in Eligible /\ At(L, NearBy(d, e), h - 1)
      BY <2>2, <2>4 DEF Eligible
    <3>2. PICK m : {r \in answer : r.hop <= h /\ Fact(r) = Fact([edge |-> e])} = {m}
      BY <2>1, <3>1 DEF IsNeighbourhood
    <3> QED
      BY <3>2, FS_Singleton
  <2> QED
    BY <2>3, <2>4 DEF HopIs, away, D
<1> QED
  BY <1>1, TraversalInvariant, PTL

(* file_impact names exactly the files from which a symbol of the file is   *)
(* reached within the depth: none is lost where the rows of one walk, or of *)
(* two, are collapsed, and none is named without a reason.                  *)
THEOREM ImpactIsComplete == QuestionsSpec => []ImpactNamesEveryDependent
<1>1. TraversalInv => ImpactNamesEveryDependent
  <2> SUFFICES ASSUME TraversalInv, pc = "answered", question.file # NONE, question.depth > 0
               PROVE  {FileOf[r.edge.from] : r \in answer} =
                        {FileOf[e.from] : e \in {e \in graph :
                           Admits(e) /\ e.to \in Away(SymbolsOf(question.file))[question.depth - 1]}}
                          \ {question.file}
    BY DEF ImpactNamesEveryDependent
  <2> DEFINE S == SymbolsOf(question.file)
             D == question.depth
             L(T) == LevelsFrom(T, "incoming", Eligible)
             near == Away(S)[D - 1]
  <2>1. /\ D \in Nat /\ D - 1 \in Nat /\ question.direction = "incoming"
        /\ NamesFiles(Eligible, D - 1, S, question.file, answer)
    BY DEF TraversalInv, Answered
  <2>2. near = L(S)[D - 1]
    BY <2>1, AwayAgrees
  <2>3. ASSUME NEW s PROVE s \in near <=> \E root \in S : s \in L({root})[D - 1]
    <3> DEFINE k == D - 1
    <3>1. k \in Nat
      BY <2>1
    <3> HIDE DEF k, S
    <3>2. s \in LevelsFrom(S, "incoming", Eligible)[k] <=>
            \E root \in S : s \in LevelsFrom({root}, "incoming", Eligible)[k]
      BY <3>1, LevelsOfUnion
    <3> QED
      BY <2>2, <3>2 DEF k
  <2>4. ASSUME NEW f
        PROVE  From(answer, f) <=>
                 f # question.file /\ \E e \in Eligible : FileOf[e.from] = f /\ e.to \in near
    <3>1. From(answer, f) <=>
            f # question.file /\ \E root \in S : Within(L({root}), Eligible, D - 1, f)
      BY <2>1 DEF NamesFiles
    <3>2. (\E root \in S : Within(L({root}), Eligible, D - 1, f)) <=>
            \E e \in Eligible : FileOf[e.from] = f /\ e.to \in near
      <4> HIDE DEF near, L, S, D
      <4> QED
        BY <2>3 DEF Within
    <3> QED
      BY <3>1, <3>2
  <2> HIDE DEF near
  <2>5. \A f : f \in {FileOf[r.edge.from] : r \in answer} <=> From(answer, f)
    BY DEF From
  <2>6. \A f : f \in {FileOf[e.from] : e \in {e \in graph : Admits(e) /\ e.to \in near}}
                 <=> \E e \in Eligible : FileOf[e.from] = f /\ e.to \in near
    BY DEF Eligible
  <2>7. {FileOf[r.edge.from] : r \in answer} =
          {FileOf[e.from] : e \in {e \in graph : Admits(e) /\ e.to \in near}} \ {question.file}
    BY <2>4, <2>5, <2>6
  <2> QED
    BY <2>7 DEF near
<1> QED
  BY <1>1, TraversalInvariant, PTL

-----------------------------------------------------------------------------
(* Test selection. Of a finite number of things no more are reached by more *)
(* arcs than there are things: levels that do not grow stay as they are.    *)
LEMMA LevelsSaturate ==
  ASSUME NEW X, IsFiniteSet(X), NEW S, S \subseteq X, NEW A, \A a \in A : a[2] \in X,
         NEW L, IsLevels(L, S, A), NEW k \in Nat
  PROVE  L[k] \subseteq L[Cardinality(X)]
<1> DEFINE n == Cardinality(X)
           Still(j) == L[j + 1] = L[j]
           P == {i \in Nat : (\E j \in Nat : j < i /\ Still(j)) \/ Cardinality(L[i]) >= i}
           Q == {i \in Nat : L[i] \subseteq X}
<1>1. n \in Nat
  BY FS_CardinalityType
<1>2. ASSUME NEW i \in Nat PROVE IsFiniteSet(L[i]) /\ Cardinality(L[i]) \in Nat /\ Cardinality(L[i]) <= n
  <2>1. 0 \in Q
    BY DEF IsLevels
  <2>2. ASSUME NEW j \in 1 .. i, j - 1 \in Q PROVE j \in Q
    <3>1. j - 1 \in Nat /\ j - 1 + 1 = j /\ L[j - 1] \subseteq X
      BY <2>2
    <3>2. L[j] = Spread(L[j - 1], A)
      BY <3>1 DEF IsLevels
    <3>3. L[j] \subseteq X
      BY <3>1, <3>2 DEF Spread
    <3> QED
      BY <3>3
  <2> HIDE DEF Q
  <2>3. i \in Q
    BY <2>1, <2>2, UpTo
  <2>4. L[i] \subseteq X
    BY <2>3 DEF Q
  <2> QED
    BY <2>4, FS_Subset, FS_CardinalityType
<1>3. 0 \in P
  BY <1>2
<1>4. ASSUME NEW i \in 1 .. (n + 1), i - 1 \in P PROVE i \in P
  <2>1. i - 1 \in Nat /\ i - 1 + 1 = i /\ i \in Nat /\ i - 1 < i
    BY <1>1
  <2>2. CASE \E j \in Nat : j < i - 1 /\ Still(j)
    <3>1. PICK j \in Nat : j < i - 1 /\ Still(j)
      BY <2>2
    <3>2. j < i
      BY <2>1, <3>1
    <3> QED
      BY <2>1, <3>1, <3>2
  <2>3. CASE Cardinality(L[i - 1]) >= i - 1
    <3>1. CASE Still(i - 1)
      BY <2>1, <3>1
    <3>2. CASE ~Still(i - 1)
      <4>1. L[i - 1] \subseteq L[i] /\ L[i - 1] # L[i]
        <5>1. L[i - 1] \subseteq L[i]
          BY <2>1, LevelsGrow
        <5> QED
          BY <2>1, <3>2, <5>1
      <4>2. Cardinality(L[i - 1]) <= Cardinality(L[i]) /\ Cardinality(L[i - 1]) # Cardinality(L[i])
        <5>1. IsFiniteSet(L[i])
          BY <1>2, <2>1
        <5> QED
          BY <4>1, <5>1, FS_Subset
      <4>3. Cardinality(L[i - 1]) \in Nat /\ Cardinality(L[i]) \in Nat
        BY <1>2, <2>1
      <4>4. Cardinality(L[i]) >= i
        BY <2>1, <2>3, <4>2, <4>3
      <4> QED
        BY <2>1, <4>4
    <3> QED
      BY <3>1, <3>2
  <2> QED
    BY <1>4, <2>2, <2>3
<1>5. n + 1 \in P
  <2> HIDE DEF P
  <2>1. \A i \in 0 .. (n + 1) : i \in P
    BY <1>1, <1>3, <1>4, UpTo
  <2> QED
    BY <1>1, <2>1
<1>6. PICK j \in Nat : j < n + 1 /\ Still(j)
  <2>1. ~(Cardinality(L[n + 1]) >= n + 1)
    BY <1>1, <1>2
  <2> QED
    BY <1>5, <2>1
<1> HIDE DEF P, Q
<1>7. L[j] \subseteq L[n]
  BY <1>1, <1>6, LevelsGrow
<1>8. CASE k < j
  <2>1. L[k] \subseteq L[j]
    BY <1>8, LevelsGrow
  <2> QED
    BY <1>7, <2>1
<1>9. CASE k >= j
  <2> DEFINE m == k - j
             R == {i \in Nat : L[j + i] = L[j]}
  <2>1. m \in Nat /\ j + m = k /\ j + 0 = j
    BY <1>9
  <2>2. 0 \in R
    BY <2>1
  <2>3. ASSUME NEW i \in 1 .. m, i - 1 \in R PROVE i \in R
    <3>1. j + (i - 1) \in Nat /\ j + (i - 1) + 1 = j + i /\ i \in Nat
      BY <2>1
    <3>2. L[j + i] = Spread(L[j + (i - 1)], A)
      BY <3>1 DEF IsLevels
    <3>3. L[j + (i - 1)] = L[j]
      BY <2>3
    <3>4. Spread(L[j], A) = L[j]
      BY <1>6 DEF IsLevels
    <3> QED
      BY <3>1, <3>2, <3>3, <3>4
  <2> HIDE DEF R, m
  <2>4. \A i \in 0 .. m : i \in R
    BY <2>1, <2>2, <2>3, UpTo
  <2>5. m \in R
    BY <2>1, <2>4
  <2>6. L[k] = L[j]
    BY <2>1, <2>5 DEF R
  <2> QED
    BY <1>7, <2>6
<1> QED
  BY <1>8, <1>9

(* From what is referred to to what refers to it, of references that meet   *)
(* the floor g.                                                             *)
CallArcs(g) == {<<r.to, r.from>> : r \in {r \in references : Resolution(r) >= g}}

(* Whoever calls one of S is an arc away from it.                           *)
LEMMA CallersAreArcs ==
  ASSUME NEW S, NEW g, NEW s
  PROVE  s \in Callers(S, g) <=> \E id \in S : <<id, s>> \in CallArcs(g)
<1>1. ASSUME s \in Callers(S, g) PROVE \E id \in S : <<id, s>> \in CallArcs(g)
  BY <1>1 DEF Callers, CallArcs
<1>2. ASSUME NEW id \in S, <<id, s>> \in CallArcs(g) PROVE s \in Callers(S, g)
  <2>1. PICK r \in references : Resolution(r) >= g /\ <<id, s>> = <<r.to, r.from>>
    BY <1>2 DEF CallArcs
  <2>2. id = r.to /\ s = r.from
    BY <2>1
  <2> QED
    BY <2>1, <2>2 DEF Callers
<1> QED
  BY <1>1, <1>2

(* What is upstream is at levels of such arcs.                              *)
LEMMA UpstreamIsLevels ==
  ASSUME NEW S, NEW g
  PROVE  IsLevels(Upstream(S, g), S, CallArcs(g))
<1> DEFINE next(T) == T \union Callers(T, g)
           Solves(f) == f = [k \in Nat |-> IF k = 0 THEN S ELSE next(f[k - 1])]
<1>1. Upstream(S, g) = CHOOSE f : Solves(f)
  BY DEF Upstream
<1>2. ASSUME NEW T PROVE Spread(T, CallArcs(g)) = next(T)
  <2>1. ASSUME NEW x \in Spread(T, CallArcs(g)), x \notin T PROVE x \in next(T)
    <3>1. PICK a \in CallArcs(g) : a[1] \in T /\ x = a[2]
      BY <2>1 DEF Spread
    <3>2. a = <<a[1], x>>
      BY <3>1 DEF CallArcs
    <3> QED
      BY <3>1, <3>2, CallersAreArcs
  <2>2. ASSUME NEW x \in Callers(T, g) PROVE x \in Spread(T, CallArcs(g))
    <3>1. PICK id \in T : <<id, x>> \in CallArcs(g)
      BY CallersAreArcs
    <3> DEFINE a == <<id, x>>
    <3>2. a \in CallArcs(g) /\ a[1] = id /\ a[2] = x
      BY <3>1
    <3> HIDE DEF a
    <3> QED
      BY <3>2 DEF Spread
  <2>3. T \subseteq Spread(T, CallArcs(g))
    BY DEF Spread
  <2> QED
    BY <2>1, <2>2, <2>3
<1> HIDE DEF next
<1>3. PICK f : f = [k \in Nat |-> f[k]] /\ IsLevels(f, S, CallArcs(g))
  BY LevelsExist
<1>4. Solves(f)
  <2> SUFFICES ASSUME NEW k \in Nat PROVE f[k] = IF k = 0 THEN S ELSE next(f[k - 1])
    BY <1>3
  <2>1. CASE k = 0
    BY <1>3, <2>1 DEF IsLevels
  <2>2. CASE k # 0
    <3>1. k - 1 \in Nat /\ k - 1 + 1 = k
      BY <2>2
    <3>2. f[k - 1 + 1] = Spread(f[k - 1], CallArcs(g))
      BY <1>3, <3>1 DEF IsLevels
    <3> QED
      BY <1>2, <2>2, <3>1, <3>2
  <2> QED
    BY <2>1, <2>2
<1>5. ASSUME NEW h, Solves(h) PROVE IsLevels(h, S, CallArcs(g))
  <2>1. h[0] = S
    BY <1>5
  <2>2. ASSUME NEW k \in Nat PROVE h[k + 1] = Spread(h[k], CallArcs(g))
    <3>1. k + 1 \in Nat /\ k + 1 # 0 /\ k + 1 - 1 = k
      OBVIOUS
    <3>2. h[k + 1] = next(h[k + 1 - 1])
      BY <1>5, <3>1
    <3> QED
      BY <1>2, <3>1, <3>2
  <2> QED
    BY <2>1, <2>2 DEF IsLevels
<1> HIDE DEF Solves
<1> QED
  BY <1>1, <1>4, <1>5

-----------------------------------------------------------------------------
(* A level of the walk goes through its frontier in the order of the ids.   *)
LEMMA GreatestIsLast ==
  ASSUME NEW S, S \subseteq Symbols, S # {}
  PROVE  Max(S) \in S
<1> DEFINE R == {x \in S \X S : x[1] < x[2]}
<1>1. IsFiniteSet(S) /\ \A s \in S : s \in Nat
  BY SymbolsAssumption, FS_Subset
<1>2. \A x, y \in S : <<x, y>> \in R <=> x < y
  OBVIOUS
<1> HIDE DEF R
<1>3. IsStrictOrder(S, R)
  <2>1. \A x \in S : <<x, x>> \notin R
    BY <1>1, <1>2
  <2>2. \A x, y, z \in S : <<x, y>> \in R /\ <<y, z>> \in R => <<x, z>> \in R
    BY <1>1, <1>2
  <2> QED
    BY <2>1, <2>2 DEF IsStrictOrder
<1>4. PICK s \in S : \A t \in S : <<s, t>> \notin R
  BY <1>1, <1>3, LastExists
<1>5. ASSUME NEW t \in S PROVE s >= t
  <2>1. s \in Nat /\ t \in Nat /\ ~(s < t)
    BY <1>1, <1>2, <1>4
  <2> QED
    BY <2>1
<1> QED
  BY <1>5 DEF Max

(* s is upstream of d. What the symbols know, f, is no less than they did   *)
(* before the level, and of none but changed symbols they are upstream of.  *)
IsReached(d, s) == \E k \in Nat : s \in Upstream({d}, floor)[k]

IsKnown(f) ==
  /\ f \in [Symbols -> SUBSET changed]
  /\ \A s \in Symbols : origins[s] \subseteq f[s]
  /\ \A s \in Symbols : \A d \in f[s] : IsReached(d, s)

(* What one symbol passes to its callers.                                   *)
LEMMA LearnPasses ==
  ASSUME NEW f, IsKnown(f), NEW id \in Symbols
  PROVE  /\ IsKnown(Learn(f, id))
         /\ \A s \in Symbols : f[s] \subseteq Learn(f, id)[s]
         /\ \A s \in Symbols : <<id, s>> \in CallArcs(floor) => f[id] \subseteq Learn(f, id)[s]
<1> DEFINE callers == Callers({id}, floor)
           h == [s \in Symbols |-> IF s \in callers THEN f[s] \union f[id] ELSE f[s]]
<1>1. Learn(f, id) = h
  BY DEF Learn
<1>2. ASSUME NEW s PROVE s \in callers <=> <<id, s>> \in CallArcs(floor)
  <2> DEFINE own == {id}
  <2> HIDE DEF own, callers
  <2>1. s \in Callers(own, floor) <=> \E i \in own : <<i, s>> \in CallArcs(floor)
    BY CallersAreArcs
  <2> QED
    BY <2>1 DEF own, callers
<1> HIDE DEF callers
<1>3. \A s \in Symbols : h[s] = IF s \in callers THEN f[s] \union f[id] ELSE f[s]
  OBVIOUS
<1>4. f \in [Symbols -> SUBSET changed]
  BY DEF IsKnown
<1>5. h \in [Symbols -> SUBSET changed]
  BY <1>4
<1> HIDE DEF h
<1>6. ASSUME NEW s \in Symbols, NEW d \in h[s] PROVE IsReached(d, s)
  <2>1. CASE d \in f[s]
    BY <2>1 DEF IsKnown
  <2>2. CASE d \in f[id] /\ s \in callers
    <3>1. PICK k \in Nat : id \in Upstream({d}, floor)[k]
      BY <2>2 DEF IsKnown, IsReached
    <3>2. Upstream({d}, floor)[k + 1] = Spread(Upstream({d}, floor)[k], CallArcs(floor))
      BY UpstreamIsLevels DEF IsLevels
    <3> DEFINE a == <<id, s>>
    <3>3. a \in CallArcs(floor) /\ a[1] = id /\ a[2] = s
      BY <1>2, <2>2
    <3> HIDE DEF a
    <3>4. s \in Upstream({d}, floor)[k + 1]
      BY <3>1, <3>2, <3>3 DEF Spread
    <3> QED
      BY <3>4 DEF IsReached
  <2> QED
    BY <1>3, <1>6, <2>1, <2>2
<1>7. \A s \in Symbols : f[s] \subseteq h[s]
  BY <1>3
<1>8. IsKnown(h)
  <2>1. \A s \in Symbols : origins[s] \subseteq h[s]
    BY <1>7 DEF IsKnown
  <2> QED
    BY <1>5, <1>6, <2>1 DEF IsKnown
<1> QED
  BY <1>1, <1>2, <1>3, <1>7, <1>8

(* After a level every caller of a symbol in the frontier knows at least    *)
(* what that symbol did, no symbol knows less than it did, and none knows   *)
(* of a changed symbol from which it is not reached.                        *)
LEMMA LevelTeaches ==
  ASSUME IsKnown(origins), frontier \subseteq Symbols
  PROVE  /\ IsKnown(AfterLevel)
         /\ \A id \in frontier, s \in Symbols :
              <<id, s>> \in CallArcs(floor) => origins[id] \subseteq AfterLevel[s]
<1> DEFINE Solves(f) == f = [a \in SUBSET frontier |->
                               IF a = {} THEN origins ELSE Learn(f[a \ {Max(a)}], Max(a))]
           T == {f \in [Symbols -> SUBSET changed] : IsKnown(f)}
           pick == [a \in SUBSET frontier |-> Max(a)]
           next == [x \in frontier \X T |-> Learn(x[2], x[1])]
           g == CHOOSE f : Solves(f)
<1>1. AfterLevel = g[frontier]
  BY DEF AfterLevel, MapThenFoldSet
<1>2. \A f : f \in T <=> IsKnown(f)
  BY DEF IsKnown
<1>3. ASSUME NEW a \in SUBSET frontier, a # {} PROVE Max(a) \in a
  BY <1>3, GreatestIsLast
<1>4. IsFiniteSet(frontier)
  BY SymbolsAssumption, FS_Subset
<1>5. \A id \in frontier, f \in T : next[<<id, f>>] = Learn(f, id)
  OBVIOUS
<1> HIDE DEF T, next, g
<1>6. Solves(g)
  <2>1. Chooses(pick, frontier)
    BY <1>3 DEF Chooses
  <2>2. Closed(next, frontier, T)
    <3>1. ASSUME NEW id \in frontier, NEW f \in T PROVE next[<<id, f>>] \in T
      <4>1. IsKnown(Learn(f, id))
        BY <1>2, LearnPasses
      <4> QED
        BY <1>2, <1>5, <4>1
    <3> QED
      BY <3>1 DEF Closed
  <2>3. origins \in T
    BY <1>2
  <2>4. PICK f : Recursion(f, frontier, origins, pick, next) /\ \A a \in SUBSET frontier : f[a] \in T
    <3> DEFINE S == frontier
    <3>1. IsFiniteSet(S) /\ Chooses(pick, S) /\ Closed(next, S, T)
      BY <1>4, <2>1, <2>2
    <3> HIDE DEF pick, S
    <3>2. \E f : Recursion(f, S, origins, pick, next) /\ \A a \in SUBSET S : f[a] \in T
      BY <2>3, <3>1, RecursionExists
    <3> QED
      BY <3>2 DEF S
  <2>5. ASSUME NEW a \in SUBSET frontier
        PROVE  f[a] = IF a = {} THEN origins ELSE Learn(f[a \ {Max(a)}], Max(a))
    <3>1. f[a] = IF a = {} THEN origins ELSE next[<<pick[a], f[a \ {pick[a]}]>>]
      <4> HIDE DEF pick
      <4> QED
        BY <2>4 DEF Recursion
    <3>2. CASE a # {}
      <4>1. pick[a] = Max(a) /\ Max(a) \in frontier /\ a \ {Max(a)} \in SUBSET frontier
        BY <1>3, <3>2
      <4>2. f[a \ {Max(a)}] \in T
        BY <2>4, <4>1
      <4> QED
        BY <1>5, <3>1, <3>2, <4>1, <4>2
    <3> QED
      BY <3>1, <3>2
  <2>6. f = [a \in SUBSET frontier |-> f[a]]
    BY <2>4 DEF Recursion
  <2>7. Solves(f)
    BY <2>5, <2>6
  <2> HIDE DEF Solves
  <2> QED
    BY <2>7 DEF g
<1>7. \A a \in SUBSET frontier : g[a] = IF a = {} THEN origins ELSE Learn(g[a \ {Max(a)}], Max(a))
  BY <1>6
<1> HIDE DEF Solves, pick
<1> DEFINE Told(a) == /\ IsKnown(g[a])
                      /\ \A id \in a, s \in Symbols :
                           <<id, s>> \in CallArcs(floor) => origins[id] \subseteq g[a][s]
           Bad == {a \in SUBSET frontier : ~Told(a)}
<1>8. Bad = {}
  <2> SUFFICES ASSUME Bad # {} PROVE FALSE
    OBVIOUS
  <2>1. PICK a \in Bad : \A c \in Bad : c \subseteq a => c = a
    <3>1. Bad \in SUBSET (SUBSET frontier)
      OBVIOUS
    <3> HIDE DEF Bad
    <3> QED
      BY <1>4, <3>1, SmallestSet
  <2>2. a \in SUBSET frontier /\ ~Told(a)
    OBVIOUS
  <2>3. CASE a = {}
    BY <1>7, <2>2, <2>3
  <2>4. CASE a # {}
    <3> DEFINE m == Max(a)
               less == a \ {m}
    <3>1. m \in a /\ m \in frontier /\ m \in Symbols /\ less \in SUBSET frontier /\ less # a /\ less \subseteq a
      BY <1>3, <2>2, <2>4
    <3>2. less \notin Bad
      <4> HIDE DEF Bad, less
      <4> QED
        BY <2>1, <3>1
    <3>3. Told(less)
      BY <3>1, <3>2
    <3>4. g[a] = Learn(g[less], m)
      BY <1>7, <2>2, <2>4
    <3> DEFINE f == g[less]
    <3> HIDE DEF m, less, f, Bad
    <3>5. IsKnown(f)
      BY <3>3 DEF f
    <3>6. /\ IsKnown(Learn(f, m))
          /\ \A s \in Symbols : f[s] \subseteq Learn(f, m)[s]
          /\ \A s \in Symbols : <<m, s>> \in CallArcs(floor) => f[m] \subseteq Learn(f, m)[s]
      BY <3>1, <3>5, LearnPasses
    <3>7. ASSUME NEW id \in a, NEW s \in Symbols, <<id, s>> \in CallArcs(floor)
          PROVE  origins[id] \subseteq Learn(f, m)[s]
      <4>1. CASE id = m
        <5>1. origins[m] \subseteq f[m]
          BY <3>1, <3>5 DEF IsKnown
        <5> QED
          BY <3>6, <3>7, <4>1, <5>1
      <4>2. CASE id # m
        <5>1. id \in less
          BY <4>2 DEF less
        <5>2. origins[id] \subseteq f[s]
          BY <3>3, <3>7, <5>1 DEF f
        <5> QED
          BY <3>6, <5>2
      <4> QED
        BY <4>1, <4>2
    <3>8. g[a] = Learn(f, m)
      BY <3>4 DEF f
    <3> QED
      BY <2>2, <3>6, <3>7, <3>8
  <2> QED
    BY <2>3, <2>4
<1>9. Told(frontier)
  BY <1>8
<1> QED
  BY <1>1, <1>9

-----------------------------------------------------------------------------
(* While a selection is under way or shown, no symbol knows of a changed    *)
(* one from which it is not reached. After n levels whoever is reached by n *)
(* references knows; and who is not in the frontier has no more to tell.    *)
SelectionInv ==
  /\ Found
  /\ step \in {"walk", "selected"} =>
       /\ changed \subseteq Symbols /\ depth \in Nat /\ floor \in {Structural, Resolved}
       /\ IsKnown(origins)
  /\ step = "walk" =>
       /\ levels \in Nat /\ levels <= depth /\ frontier \subseteq Symbols
       /\ \A c \in changed, s \in Symbols : s \in Upstream({c}, floor)[levels] => c \in origins[s]
       /\ \A s \in Symbols \ frontier, t \in Symbols :
            <<s, t>> \in CallArcs(floor) => origins[s] \subseteq origins[t]
  /\ step = "selected" =>
       \A c \in changed, s \in Symbols : s \in Upstream({c}, floor)[depth] => c \in origins[s]

(* Both ends of an arc are symbols.                                         *)
LEMMA ArcsAreOfSymbols ==
  ASSUME Found, NEW g, NEW a \in CallArcs(g)
  PROVE  a = <<a[1], a[2]>> /\ a[1] \in Symbols /\ a[2] \in Symbols
<1>1. PICK r \in references : a = <<r.to, r.from>>
  BY DEF CallArcs
<1>2. r.to \in Symbols /\ r.from \in Symbols
  BY DEF Found, References
<1> QED
  BY <1>1, <1>2

(* So is whatever is upstream of one.                                       *)
LEMMA UpstreamIsOfSymbols ==
  ASSUME Found, NEW c \in Symbols, NEW g, NEW k \in Nat
  PROVE  /\ Upstream({c}, g)[k] \subseteq Symbols
         /\ Upstream({c}, g)[k] \subseteq Upstream({c}, g)[Cardinality(Symbols)]
<1> DEFINE U == Upstream({c}, g)
           A == CallArcs(g)
           P == {i \in Nat : U[i] \subseteq Symbols}
<1>1. IsLevels(U, {c}, A)
  BY UpstreamIsLevels
<1>2. \A a \in A : a[2] \in Symbols
  BY ArcsAreOfSymbols
<1> HIDE DEF U, A
<1>3. U[k] \subseteq Symbols
  <2>1. 0 \in P
    BY <1>1 DEF IsLevels
  <2>2. ASSUME NEW i \in 1 .. k, i - 1 \in P PROVE i \in P
    <3>1. i - 1 \in Nat /\ i - 1 + 1 = i /\ i \in Nat
      OBVIOUS
    <3>2. U[i] = Spread(U[i - 1], A)
      BY <1>1, <3>1 DEF IsLevels
    <3>3. U[i - 1] \subseteq Symbols
      BY <2>2
    <3>4. U[i] \subseteq Symbols
      BY <1>2, <3>2, <3>3 DEF Spread
    <3> QED
      BY <3>1, <3>4
  <2> HIDE DEF P
  <2>3. k \in P
    BY <2>1, <2>2, UpTo
  <2> QED
    BY <2>3 DEF P
<1>4. U[k] \subseteq U[Cardinality(Symbols)]
  <2> DEFINE X == Symbols
  <2>1. IsFiniteSet(X) /\ {c} \subseteq X /\ \A a \in A : a[2] \in X
    BY <1>2, SymbolsAssumption
  <2> DEFINE S == {c}
  <2> HIDE DEF X, S
  <2>2. U[k] \subseteq U[Cardinality(X)]
    BY <1>1, <2>1, LevelsSaturate DEF S
  <2> QED
    BY <2>2 DEF X
<1> QED
  BY <1>3, <1>4 DEF U

(* References that do not change have the same upstreams and arcs.          *)
LEMMA UpstreamStays ==
  ASSUME UNCHANGED repository
  PROVE  /\ \A S, g : Upstream(S, g)' = Upstream(S, g)
         /\ \A g : CallArcs(g)' = CallArcs(g)
BY DEF repository, Upstream, Callers, CallArcs, Resolution

(* A selection begins with each changed symbol knowing of itself.           *)
LEMMA SelectBegins ==
  ASSUME Found, Select, UNCHANGED repository
  PROVE  SelectionInv'
<1>1. PICK n \in 1 .. MaxChanged : changed' \in {S \in SUBSET Symbols : Cardinality(S) = n}
  BY DEF Select
<1>2. /\ changed' \subseteq Symbols /\ depth' \in Nat /\ floor' \in {Structural, Resolved}
      /\ levels' = 0 /\ frontier' = changed' /\ step' = "walk"
      /\ origins' = [s \in Symbols |-> IF s \in changed' THEN {s} ELSE {}]
  BY <1>1, LinesAssumption DEF Select
<1>3. /\ \A S, g : Upstream(S, g)' = Upstream(S, g)
      /\ \A g : CallArcs(g)' = CallArcs(g)
  BY UpstreamStays
<1>4. \A d : Upstream({d}, floor')[0] = {d}
  BY UpstreamIsLevels DEF IsLevels
<1>5. ASSUME NEW s \in Symbols, NEW d \in origins'[s] PROVE d = s /\ IsReached(d, s)'
  <2>1. d = s
    BY <1>2, <1>5
  <2>2. s \in Upstream({d}, floor')[0]
    BY <1>4, <2>1
  <2> QED
    BY <1>3, <2>1, <2>2 DEF IsReached
<1>6. origins' \in [Symbols -> SUBSET changed']
  BY <1>2
<1>7. IsKnown(origins)'
  BY <1>5, <1>6 DEF IsKnown
<1>8. \A s \in Symbols \ frontier' : origins'[s] = {}
  BY <1>2
<1>9. \A c \in changed', s \in Symbols : s \in Upstream({c}, floor')[0] => c \in origins'[s]
  BY <1>2, <1>4
<1>10. Found'
  BY DEF Found, repository
<1> QED
  BY <1>2, <1>3, <1>7, <1>8, <1>9, <1>10 DEF SelectionInv

(* A level of the walk.                                                     *)
LEMMA LevelGoesOn ==
  ASSUME SelectionInv, Level, UNCHANGED repository
  PROVE  SelectionInv'
<1>1. /\ step = "walk" /\ levels < depth /\ origins' = AfterLevel
      /\ frontier' = {s \in Symbols : origins'[s] # origins[s]}
      /\ levels' = levels + 1
      /\ step' = step /\ changed' = changed /\ depth' = depth /\ floor' = floor
  BY DEF Level
<1>2. /\ changed \subseteq Symbols /\ depth \in Nat /\ floor \in {Structural, Resolved}
      /\ IsKnown(origins)
      /\ levels \in Nat /\ levels <= depth /\ frontier \subseteq Symbols
      /\ \A c \in changed, s \in Symbols : s \in Upstream({c}, floor)[levels] => c \in origins[s]
      /\ \A s \in Symbols \ frontier, t \in Symbols :
           <<s, t>> \in CallArcs(floor) => origins[s] \subseteq origins[t]
      /\ Found
  BY <1>1 DEF SelectionInv
<1>3. /\ \A S, g : Upstream(S, g)' = Upstream(S, g)
      /\ \A g : CallArcs(g)' = CallArcs(g)
  BY UpstreamStays
<1>4. PICK f : f = AfterLevel
  OBVIOUS
<1>5. /\ IsKnown(f)
      /\ \A id \in frontier, s \in Symbols : <<id, s>> \in CallArcs(floor) => origins[id] \subseteq f[s]
  BY <1>2, <1>4, LevelTeaches
<1>6. ASSUME NEW s \in Symbols, NEW t \in Symbols, <<s, t>> \in CallArcs(floor)
      PROVE  origins[s] \subseteq f[t]
  <2>1. CASE s \in frontier
    BY <1>5, <1>6, <2>1
  <2>2. CASE s \notin frontier
    BY <1>2, <1>5, <1>6, <2>2 DEF IsKnown
  <2> QED
    BY <2>1, <2>2
<1>7. ASSUME NEW c \in changed, NEW s \in Symbols, s \in Upstream({c}, floor)[levels + 1]
      PROVE  c \in f[s]
  <2> DEFINE U == Upstream({c}, floor)
  <2>1. U[levels + 1] = Spread(U[levels], CallArcs(floor))
    BY <1>2, UpstreamIsLevels DEF IsLevels
  <2> HIDE DEF U
  <2>2. CASE s \in U[levels]
    <3>1. c \in origins[s]
      BY <1>2, <2>2 DEF U
    <3> QED
      BY <1>5, <3>1 DEF IsKnown
  <2>3. CASE s \notin U[levels]
    <3>1. PICK a \in CallArcs(floor) : a[1] \in U[levels] /\ a[2] = s
      BY <1>7, <2>1, <2>3 DEF Spread, U
    <3>2. a = <<a[1], s>> /\ a[1] \in Symbols
      BY <1>2, <3>1, ArcsAreOfSymbols
    <3>3. c \in origins[a[1]]
      BY <1>2, <3>1, <3>2 DEF U
    <3>4. origins[a[1]] \subseteq f[s]
      BY <1>6, <3>1, <3>2
    <3> QED
      BY <3>3, <3>4
  <2> QED
    BY <2>2, <2>3
<1>8. ASSUME NEW s \in Symbols \ frontier', NEW t \in Symbols, <<s, t>> \in CallArcs(floor)
      PROVE  f[s] \subseteq f[t]
  <2>1. f[s] = origins[s]
    BY <1>1, <1>4
  <2> QED
    BY <1>6, <1>8, <2>1
<1>9. IsKnown(origins)'
  <2>1. \A d, s : IsReached(d, s)' <=> IsReached(d, s)
    BY <1>1, <1>3 DEF IsReached
  <2> QED
    BY <1>1, <1>4, <1>5, <2>1 DEF IsKnown
<1>10. levels' \in Nat /\ levels' <= depth'
  BY <1>1, <1>2
<1>11. frontier' \subseteq Symbols
  BY <1>1
<1>12. \A c \in changed', s \in Symbols : s \in Upstream({c}, floor')[levels'] => c \in origins'[s]
  BY <1>1, <1>4, <1>7
<1>13. \A s \in Symbols \ frontier', t \in Symbols :
         <<s, t>> \in CallArcs(floor') => origins'[s] \subseteq origins'[t]
  BY <1>1, <1>4, <1>8
<1>14. Found'
  BY <1>2 DEF Found, repository
<1> QED
  BY <1>1, <1>2, <1>3, <1>9, <1>10, <1>11, <1>12, <1>13, <1>14 DEF SelectionInv

(* The walk ends at the depth asked for, or where nobody learned anything:  *)
(* then nobody would at any further level.                                  *)
LEMMA FinishKeepsSelection ==
  ASSUME SelectionInv, Finish, UNCHANGED repository
  PROVE  SelectionInv'
<1>1. /\ step = "walk" /\ (levels = depth \/ frontier = {})
      /\ step' = "selected" /\ changed' = changed /\ depth' = depth /\ floor' = floor
      /\ origins' = origins
  BY DEF Finish, walk
<1>2. /\ changed \subseteq Symbols /\ depth \in Nat /\ floor \in {Structural, Resolved}
      /\ IsKnown(origins)
      /\ levels \in Nat /\ levels <= depth /\ frontier \subseteq Symbols
      /\ \A c \in changed, s \in Symbols : s \in Upstream({c}, floor)[levels] => c \in origins[s]
      /\ \A s \in Symbols \ frontier, t \in Symbols :
           <<s, t>> \in CallArcs(floor) => origins[s] \subseteq origins[t]
      /\ Found
  BY DEF SelectionInv, Finish
<1>3. /\ \A S, g : Upstream(S, g)' = Upstream(S, g)
      /\ \A g : CallArcs(g)' = CallArcs(g)
  BY UpstreamStays
<1>4. ASSUME NEW c \in changed, NEW s \in Symbols, s \in Upstream({c}, floor)[depth], frontier = {}
      PROVE  c \in origins[s]
  <2> DEFINE U == Upstream({c}, floor)
             Knows(k) == \A t \in Symbols : t \in U[k] => c \in origins[t]
             P == {k \in Nat : Knows(k)}
  <2>1. IsLevels(U, {c}, CallArcs(floor))
    BY UpstreamIsLevels
  <2> HIDE DEF U
  <2>2. 0 \in P
    <3>1. U[0] \subseteq U[levels]
      BY <1>2, <2>1, LevelsGrow
    <3> QED
      BY <1>2, <3>1 DEF U
  <2>3. ASSUME NEW k \in 1 .. depth, k - 1 \in P PROVE k \in P
    <3>1. k - 1 \in Nat /\ k - 1 + 1 = k /\ k \in Nat
      BY <1>2
    <3>2. U[k] = Spread(U[k - 1], CallArcs(floor))
      BY <2>1, <3>1 DEF IsLevels
    <3>3. ASSUME NEW t \in Symbols, t \in U[k] PROVE c \in origins[t]
      <4>1. CASE t \in U[k - 1]
        BY <2>3, <4>1
      <4>2. CASE t \notin U[k - 1]
        <5>1. PICK a \in CallArcs(floor) : a[1] \in U[k - 1] /\ a[2] = t
          BY <3>2, <3>3, <4>2 DEF Spread
        <5>2. a = <<a[1], t>> /\ a[1] \in Symbols
          BY <1>2, <5>1, ArcsAreOfSymbols
        <5>3. c \in origins[a[1]]
          BY <2>3, <5>1, <5>2
        <5>4. origins[a[1]] \subseteq origins[t]
          BY <1>2, <1>4, <5>1, <5>2
        <5> QED
          BY <5>3, <5>4
      <4> QED
        BY <4>1, <4>2
    <3> QED
      BY <3>1, <3>3
  <2> HIDE DEF P
  <2>4. \A k \in 0 .. depth : k \in P
    BY <1>2, <2>2, <2>3, UpTo
  <2>5. depth \in P
    BY <1>2, <2>4
  <2> QED
    BY <1>4, <2>5 DEF P, U
<1>5. \A c \in changed, s \in Symbols : s \in Upstream({c}, floor)[depth] => c \in origins[s]
  BY <1>1, <1>2, <1>4
<1>6. IsKnown(origins)'
  <2>1. \A d, s : IsReached(d, s)' <=> IsReached(d, s)
    BY <1>1, <1>3 DEF IsReached
  <2> QED
    BY <1>1, <1>2, <2>1 DEF IsKnown
<1>7. Found'
  BY <1>2 DEF Found, repository
<1> QED
  BY <1>1, <1>2, <1>3, <1>5, <1>6, <1>7 DEF SelectionInv

(* The invariant holds of every state that programmers, questions and       *)
(* selections of tests lead to.                                             *)
LEMMA SelectionInvariant == QuestionsSpec => []SelectionInv
<1>1. QuestionsInit => SelectionInv
  <2> SUFFICES ASSUME Init PROVE SelectionInv
    BY DEF QuestionsInit
  <2>1. references = {} /\ step = "idle"
    BY DEF Init, Empty, Idle
  <2> QED
    BY <2>1, FS_EmptySet DEF SelectionInv, Found
<1>2. ASSUME SelectionInv, [AskOfGraph \/ AskOfChange]_questions
      PROVE  SelectionInv'
  <2>1. CASE UNCHANGED <<repository, selecting>>
    <3>1. /\ structural' = structural /\ references' = references /\ step' = step
          /\ changed' = changed /\ depth' = depth /\ floor' = floor /\ levels' = levels
          /\ origins' = origins /\ frontier' = frontier
      BY <2>1 DEF repository, selecting, walk
    <3>2. /\ \A S, g : Upstream(S, g)' = Upstream(S, g)
          /\ \A g : CallArcs(g)' = CallArcs(g)
      BY <3>1, UpstreamStays DEF repository
    <3>3. \A d, s : IsReached(d, s)' <=> IsReached(d, s)
      BY <3>1, <3>2 DEF IsReached
    <3>4. IsKnown(origins) => IsKnown(origins)'
      BY <3>1, <3>3 DEF IsKnown
    <3>5. Found'
      BY <1>2, <3>1 DEF SelectionInv, Found
    <3> QED
      BY <1>2, <3>1, <3>2, <3>4, <3>5 DEF SelectionInv
  <2>2. CASE Write
    <3>1. PICK r \in References : Refer(r)
      BY <2>2 DEF Write
    <3>2. step = "idle" /\ step' = step /\ references' = references \union {r}
      BY <2>2, <3>1 DEF Write, Refer, selecting
    <3>3. Found'
      BY <1>2, <3>2, FS_AddElement DEF SelectionInv, Found
    <3> QED
      BY <3>2, <3>3 DEF SelectionInv
  <2>3. CASE Turn /\ UNCHANGED repository
    <3>1. Found /\ Found'
      BY <1>2, <2>3 DEF SelectionInv, Found, repository
    <3>2. CASE Report
      BY <3>1, <3>2 DEF Report, SelectionInv
    <3>3. CASE Select
      BY <2>3, <3>1, <3>3, SelectBegins
    <3>4. CASE Level
      BY <1>2, <2>3, <3>4, LevelGoesOn
    <3>5. CASE Finish
      BY <1>2, <2>3, <3>5, FinishKeepsSelection
    <3> QED
      BY <2>3, <3>2, <3>3, <3>4, <3>5 DEF Turn
  <2>4. Write \/ (Turn /\ UNCHANGED repository) \/ UNCHANGED <<repository, selecting>>
    BY <1>2 DEF AskOfGraph, AskOfChange, Next, Ask, AskForTests, vars, questions
  <2> QED
    BY <2>1, <2>2, <2>3, <2>4
<1> QED
  BY <1>1, <1>2, PTL DEF QuestionsSpec

(* An edge of kind Tests comes of a reference out of a test file.           *)
LEMMA TestsOfReferences ==
  ASSUME NEW e \in Of("Tests", Exercises)
  PROVE  /\ e \in graph /\ e.kind = "Tests"
         /\ \E r \in references : e.from = r.from /\ e.to = r.to /\ FileOf[r.from] \in TestFiles
<1>1. PICK r \in Exercises : e = [from |-> r.from, to |-> r.to, line |-> r.line, kind |-> "Tests"]
  BY DEF Of
<1>2. r \in references /\ FileOf[r.from] \in TestFiles
  BY DEF Exercises
<1>3. e.kind = "Tests" /\ e.from = r.from /\ e.to = r.to
  BY <1>1
<1>4. e \in graph
  BY DEF graph
<1> QED
  BY <1>2, <1>3, <1>4

(* And every edge of that kind is one of those.                             *)
LEMMA EvidenceIsOfTests ==
  ASSUME NEW t, NEW e \in Evidence(t)
  PROVE  e \in Of("Tests", Exercises) /\ e \in graph /\ e.from = t
<1>1. e \in graph /\ e.kind = "Tests" /\ e.from = t
  BY DEF Evidence
<1>2. e \notin Of("Calls", references)
  <2>1. \A x \in Of("Calls", references) : x.kind = "Calls"
    BY DEF Of
  <2> QED
    BY <1>1, <2>1
<1> QED
  BY <1>1, <1>2 DEF graph

(* A test covers every changed symbol that what it exercises reaches within *)
(* the depth asked for, and none that it does not reach at all - however    *)
(* many symbols change, and whatever the references between them.           *)
THEOREM CoverageExact == QuestionsSpec => []CoverageIsExact
<1>1. SelectionInv => CoverageIsExact
  <2> SUFFICES ASSUME SelectionInv, step = "selected", NEW c \in changed,
                      NEW e \in Of("Tests", Exercises)
               PROVE  /\ e.to \in Upstream({c}, floor)[depth] => c \in Covers(e.from)
                      /\ origins[e.to] \subseteq
                           {d \in changed : e.to \in Upstream({d}, floor)[Cardinality(Symbols)]}
    BY DEF CoverageIsExact
  <2>1. PICK r \in references : e.from = r.from /\ e.to = r.to
    BY TestsOfReferences
  <2>2. e \in graph /\ e.kind = "Tests"
    BY TestsOfReferences
  <2>3. /\ Found /\ IsKnown(origins) /\ changed \subseteq Symbols
        /\ \A d \in changed, s \in Symbols : s \in Upstream({d}, floor)[depth] => d \in origins[s]
    BY DEF SelectionInv
  <2>4. e.to \in Symbols
    BY <2>1, <2>3 DEF Found, References
  <2>5. ASSUME e.to \in Upstream({c}, floor)[depth] PROVE c \in Covers(e.from)
    <3>1. c \in origins[e.to]
      BY <2>3, <2>4, <2>5
    <3>2. e \in Evidence(e.from)
      BY <2>2, <3>1 DEF Evidence
    <3> QED
      BY <3>1, <3>2 DEF Covers
  <2>6. ASSUME NEW d \in origins[e.to]
        PROVE  d \in changed /\ e.to \in Upstream({d}, floor)[Cardinality(Symbols)]
    <3>1. d \in changed /\ IsReached(d, e.to)
      BY <2>3, <2>4 DEF IsKnown
    <3>2. PICK k \in Nat : e.to \in Upstream({d}, floor)[k]
      BY <3>1 DEF IsReached
    <3>3. d \in Symbols
      BY <2>3, <3>1
    <3>4. Upstream({d}, floor)[k] \subseteq Upstream({d}, floor)[Cardinality(Symbols)]
      BY <2>3, <3>3, UpstreamIsOfSymbols
    <3> QED
      BY <3>1, <3>2, <3>4
  <2> QED
    BY <2>5, <2>6
<1> QED
  BY <1>1, SelectionInvariant, PTL

(* When the selection may be run in place of the suite, every changed       *)
(* symbol is a test the change modified or is reached, by resolved          *)
(* references alone, from a test in a selected file that was not modified.  *)
THEOREM TrustEarned == QuestionsSpec => []TrustIsEarned
<1>1. SelectionInv => TrustIsEarned
  <2> SUFFICES ASSUME SelectionInv, step = "selected", IsTrustworthy,
                      NEW c \in changed, c \notin modified_tests
               PROVE  \E t \in Upstream({c}, Resolved)[Cardinality(Symbols)] \ changed :
                        FileOf[t] \in TestFiles \cap TestsToRun
    BY DEF TrustIsEarned
  <2>1. PICK t \in tests : c \in Covers(t)
    BY DEF IsTrustworthy, uncovered
  <2>2. PICK e \in Evidence(t) : c \in origins[e.to]
    BY <2>1 DEF Covers
  <2>3. e \in Of("Tests", Exercises) /\ e.from = t
    BY EvidenceIsOfTests
  <2>4. PICK r \in references : t = r.from /\ e.to = r.to /\ FileOf[r.from] \in TestFiles
    BY <2>3, TestsOfReferences
  <2>5. /\ Found /\ IsKnown(origins) /\ c \in Symbols /\ floor \in {Structural, Resolved}
    BY DEF SelectionInv
  <2>6. r.to \in Symbols /\ r.from \in Symbols
    BY <2>5 DEF Found, References
  <2>7. ASSUME NEW q \in references PROVE Resolution(q) = Resolved
    <3> DEFINE x == [from |-> q.from, to |-> q.to, line |-> q.line, kind |-> "Calls"]
    <3>1. x \in graph
      BY DEF graph, Of
    <3>2. Resolution(x) # Structural
      <4>1. FileOf[x.from] \notin StructuralFiles
        BY DEF IsTrustworthy
      <4> HIDE DEF x
      <4> QED
        BY <3>1, <4>1 DEF StructuralFiles
    <3>3. Resolution(q) = Resolution(x)
      BY DEF Resolution
    <3> QED
      BY <3>2, <3>3 DEF Resolution
  <2>8. CallArcs(floor) = CallArcs(Resolved)
    <3>1. ASSUME NEW q \in references PROVE Resolution(q) >= floor /\ Resolution(q) >= Resolved
      BY <2>5, <2>7 DEF Structural, Resolved
    <3> QED
      BY <3>1 DEF CallArcs
  <2>9. PICK k \in Nat : r.to \in Upstream({c}, floor)[k]
    <3>1. IsReached(c, r.to)
      BY <2>2, <2>4, <2>5, <2>6 DEF IsKnown
    <3> QED
      BY <3>1 DEF IsReached
  <2> DEFINE U == Upstream({c}, Resolved)
  <2>10. IsLevels(U, {c}, CallArcs(Resolved)) /\ IsLevels(Upstream({c}, floor), {c}, CallArcs(Resolved))
    BY <2>8, UpstreamIsLevels
  <2>11. U[k] = Upstream({c}, floor)[k]
    <3> DEFINE V == Upstream({c}, floor)
               A == CallArcs(Resolved)
               S == {c}
    <3>1. IsLevels(U, S, A) /\ IsLevels(V, S, A)
      BY <2>10
    <3> HIDE DEF U, V, A, S
    <3>2. U[k] = V[k]
      BY <3>1, LevelsAreOne
    <3> QED
      BY <3>2 DEF V
  <2>12. t \in U[k + 1]
    <3>1. U[k + 1] = Spread(U[k], CallArcs(Resolved))
      BY <2>10 DEF IsLevels
    <3> DEFINE a == <<r.to, r.from>>
    <3>2. Resolution(r) >= Resolved
      BY <2>7 DEF Resolved
    <3>3. a \in CallArcs(Resolved) /\ a[1] = r.to /\ a[2] = t
      BY <2>4, <3>2 DEF CallArcs
    <3> HIDE DEF a, U
    <3> QED
      BY <2>9, <2>11, <3>1, <3>3 DEF Spread
  <2>13. U[k + 1] \subseteq U[Cardinality(Symbols)]
    <3>1. k + 1 \in Nat
      OBVIOUS
    <3> QED
      BY <2>5, <3>1, UpstreamIsOfSymbols
  <2>14. t \notin changed /\ FileOf[t] \in TestsToRun /\ FileOf[t] \in TestFiles
    BY <2>1, <2>4 DEF tests, TestsToRun
  <2> QED
    BY <2>12, <2>13, <2>14
<1> QED
  BY <1>1, SelectionInvariant, PTL

-----------------------------------------------------------------------------
(* Renames and moves. Of things R that each have an heir in N, with M the   *)
(* pairs that go together, each with its heir's and all of one kind with    *)
(* all of another, a pairing K leaves out none if it leaves out no pair of  *)
(* M of which neither member is in another.                                 *)
IsHeritage(heir, R, N) ==
  /\ heir \in [R -> N]
  /\ \A s, u \in R : heir[s] = heir[u] => s = u
  /\ \A t \in N : \E s \in R : heir[s] = t

IsBlocks(M, R, N, heir) ==
  /\ M \in SUBSET (R \X N)
  /\ \A s \in R : <<s, heir[s]>> \in M
  /\ \A s, u \in R, t, v \in N :
       <<s, t>> \in M /\ <<u, t>> \in M /\ <<u, v>> \in M => <<s, v>> \in M

IsPairing(K, M, R, N) ==
  /\ K \in SUBSET (R \X N)
  /\ \A p, q \in K : p[1] = q[1] <=> p[2] = q[2]
  /\ \A p \in M \ K : \E q \in M \intersect K : p[1] = q[1] \/ p[2] = q[2]

(* Nothing of R is left out.                                                *)
LEMMA PairingIsTotal ==
  ASSUME NEW R, IsFiniteSet(R), NEW N, NEW heir, IsHeritage(heir, R, N),
         NEW M, IsBlocks(M, R, N, heir), NEW K, IsPairing(K, M, R, N), NEW s \in R
  PROVE  \E t \in N : <<s, t>> \in K
<1> SUFFICES ASSUME \A t \in N : <<s, t>> \notin K PROVE FALSE
  OBVIOUS
<1> DEFINE C == {u \in R : <<u, heir[s]>> \in M}
           kin(u) == CHOOSE w \in C : <<w, heir[u]>> \in K
           F == [u \in C |-> kin(u)]
<1>1. \A u \in R : heir[u] \in N
  BY DEF IsHeritage
<1>2. s \in C /\ IsFiniteSet(C) /\ C \subseteq R
  BY FS_Subset DEF IsBlocks
<1>3. ASSUME NEW u \in C PROVE \E w \in C : <<w, heir[u]>> \in K
  <2>1. u \in R /\ <<u, heir[s]>> \in M /\ <<s, heir[s]>> \in M /\ <<u, heir[u]>> \in M
    BY DEF IsBlocks
  <2>2. <<s, heir[u]>> \in M
    BY <1>1, <2>1 DEF IsBlocks
  <2>3. <<s, heir[u]>> \notin K
    BY <1>1, <2>1
  <2>4. PICK q \in M \intersect K : <<s, heir[u]>>[1] = q[1] \/ <<s, heir[u]>>[2] = q[2]
    BY <2>2, <2>3 DEF IsPairing
  <2>5. q = <<q[1], q[2]>> /\ q[1] \in R /\ q[2] \in N
    BY DEF IsPairing
  <2>6. q[2] = heir[u]
    <3>1. q[1] # s
      BY <2>5
    <3> QED
      BY <2>4, <3>1
  <2>7. <<q[1], heir[u]>> \in M /\ <<q[1], heir[u]>> \in K
    BY <2>5, <2>6
  <2>8. <<q[1], heir[s]>> \in M
    BY <1>1, <2>1, <2>5, <2>7 DEF IsBlocks
  <2> QED
    BY <2>5, <2>7, <2>8
<1>4. ASSUME NEW u \in C PROVE F[u] \in C /\ <<F[u], heir[u]>> \in K
  BY <1>3
<1>5. ASSUME NEW u \in C, NEW w \in C, F[u] = F[w] PROVE u = w
  <2>1. <<F[u], heir[u]>> \in K /\ <<F[u], heir[w]>> \in K
    BY <1>4, <1>5
  <2>2. heir[u] = heir[w]
    <3> DEFINE p == <<F[u], heir[u]>>
               q == <<F[u], heir[w]>>
    <3>1. p \in K /\ q \in K /\ p[1] = q[1] /\ p[2] = heir[u] /\ q[2] = heir[w]
      BY <2>1
    <3> HIDE DEF p, q, F
    <3> QED
      BY <3>1 DEF IsPairing
  <2> QED
    BY <1>2, <2>2 DEF IsHeritage
<1>6. F = [u \in C |-> F[u]]
  <2> HIDE DEF kin, C
  <2> QED
    OBVIOUS
<1> HIDE DEF F, C
<1>7. F \in Injection(C, C)
  BY <1>4, <1>5, <1>6 DEF Injection, IsInjective
<1>8. F \in Surjection(C, C)
  BY <1>2, <1>7, FS_Injection
<1>9. PICK u \in C : F[u] = s
  BY <1>2, <1>8 DEF Surjection
<1> QED
  BY <1>1, <1>2, <1>4, <1>9

(* Nor is anything of N, of which there are as many.                        *)
LEMMA PairingIsOnto ==
  ASSUME NEW R, IsFiniteSet(R), NEW N, NEW heir, IsHeritage(heir, R, N),
         NEW M, IsBlocks(M, R, N, heir), NEW K, IsPairing(K, M, R, N), NEW t \in N
  PROVE  \E s \in R : <<s, t>> \in K
<1> DEFINE partner(s) == CHOOSE v \in N : <<s, v>> \in K
           F == [s \in R |-> partner(s)]
<1>1. ASSUME NEW s \in R PROVE F[s] \in N /\ <<s, F[s]>> \in K
  <2>1. \E v \in N : <<s, v>> \in K
    BY PairingIsTotal
  <2> QED
    BY <2>1
<1>2. ASSUME NEW s \in R, NEW u \in R, F[s] = F[u] PROVE s = u
  <2> DEFINE p == <<s, F[s]>>
             q == <<u, F[u]>>
  <2>1. p \in K /\ q \in K /\ p[2] = q[2] /\ p[1] = s /\ q[1] = u
    BY <1>1, <1>2
  <2> HIDE DEF p, q, F
  <2> QED
    BY <2>1 DEF IsPairing
<1>3. F = [s \in R |-> F[s]]
  <2> HIDE DEF partner
  <2> QED
    OBVIOUS
<1> HIDE DEF F
<1>4. F \in Injection(R, N)
  BY <1>1, <1>2, <1>3 DEF Injection, IsInjective
<1>5. IsFiniteSet(N) /\ Cardinality(N) = Cardinality(R)
  <2>1. N = {heir[s] : s \in R} /\ DOMAIN heir = R /\ \A s, u \in R : heir[s] = heir[u] => s = u
    BY DEF IsHeritage
  <2>2. IsFiniteSet({heir[s] : s \in R}) /\ Cardinality({heir[s] : s \in R}) = Cardinality(R)
    BY <2>1, ImageOfInjection
  <2> QED
    BY <2>1, <2>2
<1>6. F \in Surjection(R, N)
  BY <1>4, <1>5, FS_Injection
<1>7. PICK s \in R : F[s] = t
  BY <1>6 DEF Surjection
<1> QED
  BY <1>1, <1>7

(* The signature of t is that of s with its name for the name of s, and no  *)
(* other word of it was that name before.                                   *)
Respelled(s, t) ==
  /\ t.kind = s.kind
  /\ LanguageOf[t.file] = LanguageOf[s.file]
  /\ DOMAIN t.signature = DOMAIN s.signature
  /\ \A i \in DOMAIN s.signature :
       /\ s.signature[i] = s.name => t.signature[i] = t.name
       /\ s.signature[i] # s.name => t.signature[i] = s.signature[i] /\ t.signature[i] # t.name

(* What is respelled alike is respelled as all that is.                     *)
LEMMA RespelledAlike ==
  ASSUME NEW s, NEW t, NEW u, NEW v, Respelled(s, t), Respelled(u, t), Respelled(u, v)
  PROVE  Respelled(s, v)
BY DEF Respelled

(* Who is respelled has moved or been renamed, as the comparison sees it.   *)
LEMMA RespelledIsFound ==
  ASSUME NEW s \in Change!Declarations, NEW t \in Change!Declarations,
         Change!IdOf(s) # Change!IdOf(t), s.signature # << >>, Respelled(s, t),
         \A w \in Change!Range(s.signature) : <<s.name, w>> \notin Occurs
  PROVE  /\ Change!RenamesTo(s, t)
         /\ Change!ContinuationBetween(s, t) # Change!NoContinuation
<1>1. s.signature \in Seq(Nat) /\ t.signature \in Seq(Nat)
  BY DEF Change!Declarations
<1>2. t.signature # << >>
  <2>1. Len(s.signature) \in Nat /\ Len(s.signature) # 0
    BY <1>1
  <2>2. DOMAIN s.signature = 1 .. Len(s.signature) /\ DOMAIN t.signature = 1 .. Len(t.signature)
    BY <1>1
  <2>3. 1 \in DOMAIN s.signature
    BY <2>1, <2>2
  <2>4. 1 \in DOMAIN t.signature
    BY <2>3 DEF Respelled
  <2> QED
    BY <2>4
<1>3. Change!Substitute(s.signature, s.name, t.name) = t.signature
  <2> DEFINE f == Change!Substitute(s.signature, s.name, t.name)
  <2>1. \A i \in DOMAIN s.signature : <<s.name, s.signature[i]>> \notin Occurs
    BY DEF Change!Range
  <2>2. f = [i \in DOMAIN s.signature |-> IF s.signature[i] = s.name THEN t.name ELSE s.signature[i]]
    BY <2>1 DEF Change!Substitute
  <2>3. t.signature = [i \in DOMAIN t.signature |-> t.signature[i]]
    BY <1>1
  <2> HIDE DEF f
  <2>4. f = t.signature
    BY <2>2, <2>3 DEF Respelled
  <2> QED
    BY <2>4 DEF f
<1>4. Change!RenamesTo(s, t)
  BY <1>2, <1>3 DEF Change!RenamesTo
<1>5. t.kind = s.kind /\ LanguageOf[t.file] = LanguageOf[s.file]
  BY DEF Respelled
<1>6. s.name # t.name \/ s.file # t.file
  BY <1>5 DEF Change!IdOf
<1> QED
  BY <1>4, <1>5, <1>6 DEF Change!ContinuationBetween, Change!NoContinuation

(* What renames and moves leave of a symbol.                                *)
Remains(s, t) == t.kind = s.kind /\ LanguageOf[t.file] = LanguageOf[s.file]

(* Who reads like another is respelled from it, if no word of the signature *)
(* was the new name before.                                                 *)
LEMMA LikenessIsRespelled ==
  ASSUME NEW s \in Change!Declarations, NEW t \in Change!Declarations,
         Remains(s, t), Change!ReadsLike(t, s),
         t.name \notin Change!Range(s.signature) \ {s.name}
  PROVE  Respelled(s, t)
<1> DEFINE f == [i \in DOMAIN s.signature |-> IF s.signature[i] = s.name THEN t.name ELSE s.signature[i]]
<1>1. t.signature = f
  <2>1. t.name \in Names
    BY DEF Change!Declarations
  <2> QED
    BY <2>1, RenamedParts DEF Change!ReadsLike
<1>2. \A i \in DOMAIN s.signature : s.signature[i] # s.name => s.signature[i] # t.name
  BY DEF Change!Range
<1>3. DOMAIN t.signature = DOMAIN s.signature
  BY <1>1
<1>4. \A i \in DOMAIN s.signature :
        t.signature[i] = IF s.signature[i] = s.name THEN t.name ELSE s.signature[i]
  BY <1>1
<1> HIDE DEF f
<1> QED
  BY <1>2, <1>3, <1>4 DEF Respelled, Remains

(* And what the comparison finds with matching signatures reads like it, if *)
(* no name is a part of another word.                                       *)
LEMMA FoundIsAlike ==
  ASSUME NEW s \in Change!Declarations, NEW t \in Change!Declarations, Change!RenamesTo(s, t),
         \A w \in Change!Range(s.signature) : <<s.name, w>> \notin Occurs
  PROVE  Change!ReadsLike(t, s)
<1> DEFINE f == [i \in DOMAIN s.signature |-> IF s.signature[i] = s.name THEN t.name ELSE s.signature[i]]
<1>1. t.signature = Change!Substitute(s.signature, s.name, t.name)
  BY DEF Change!RenamesTo
<1>2. Change!Substitute(s.signature, s.name, t.name) = f
  <2>1. \A i \in DOMAIN s.signature : <<s.name, s.signature[i]>> \notin Occurs
    BY DEF Change!Range
  <2> QED
    BY <2>1 DEF Change!Substitute
<1>3. Change!Renamed(s, t.name).signature = f
  <2>1. t.name \in Names
    BY DEF Change!Declarations
  <2> QED
    BY <2>1, RenamedParts
<1> QED
  BY <1>1, <1>2, <1>3 DEF Change!ReadsLike

(* The history of a source: where a is what renames and moves have made of  *)
(* b, each symbol of a is of the kind and the language of the one of b that *)
(* it was, and each of b is one of a. References have followed their        *)
(* targets.                                                                 *)
IsFollowed(a, o, q, r) ==
  IF Change!IsExternalPackage(r.to) THEN q.to = r.to
  ELSE q.to \in Change!SymbolIds(a) /\ o[q.to] = r.to

IsHistory(b, a, o) ==
  /\ DOMAIN o = Change!SymbolIds(a)
  /\ \A t \in a.symbols : \E s \in b.symbols : o[Change!IdOf(t)] = Change!IdOf(s) /\ Remains(s, t)
  /\ \A s \in b.symbols : \E t \in a.symbols : o[Change!IdOf(t)] = Change!IdOf(s)
  /\ \A t, u \in a.symbols : o[Change!IdOf(t)] = o[Change!IdOf(u)] => t = u
  /\ \A r \in b.refs : Change!Binds(b, r) => \E q \in a.refs : IsFollowed(a, o, q, r)
  /\ \A q \in a.refs : Change!IsExternalPackage(q.to) => \E r \in b.refs : r.to = q.to

HistoryInv ==
  /\ ComparisonInv
  /\ before # NONE /\ deeds \subseteq {"rename", "move", "shift"} => IsHistory(before, after, origin)

(* Nothing done is a history.                                               *)
LEMMA HistoryBegins ==
  ASSUME NEW b, Change!IsSource(b)
  PROVE  IsHistory(b, b, [id \in Change!SymbolIds(b) |-> id])
<1> DEFINE o == [id \in Change!SymbolIds(b) |-> id]
<1>1. \A t \in b.symbols : Change!IdOf(t) \in Change!SymbolIds(b)
  BY DEF Change!SymbolIds
<1>2. \A t \in b.symbols : o[Change!IdOf(t)] = Change!IdOf(t)
  BY <1>1
<1>3. \A t \in b.symbols : Remains(t, t)
  BY DEF Remains
<1>4. \A t, u \in b.symbols : Change!IdOf(t) = Change!IdOf(u) => t = u
  BY DEF Change!IsSource
<1>5. ASSUME NEW r \in b.refs, Change!Binds(b, r) PROVE IsFollowed(b, o, r, r)
  BY <1>5 DEF IsFollowed, Change!Binds
<1>6. DOMAIN o = Change!SymbolIds(b)
  OBVIOUS
<1> HIDE DEF o
<1> QED
  BY <1>2, <1>3, <1>4, <1>5, <1>6 DEF IsHistory, o

(* No declaration has the id of a package.                                  *)
LEMMA DeclaredIsNoPackage ==
  ASSUME NEW s \in Change!Declarations
  PROVE  Change!IdOf(s) \in Change!DeclaredIds /\ ~Change!IsExternalPackage(Change!IdOf(s))
<1>1. Change!IdOf(s) \in Change!DeclaredIds
  BY IdsAreDeclared
<1>2. \A id \in Change!DeclaredIds : id[3] # "package"
  BY DEF Change!DeclaredIds
<1> QED
  BY <1>1, <1>2 DEF Change!IsExternalPackage

(* A symbol that is replaced goes on with its history, and so do those that *)
(* mention it, that it refers to and that refer to it.                      *)
LEMMA ReplaceKeepsHistory ==
  ASSUME Change!IsSource(after), NEW s \in after.symbols, NEW t \in Change!Declarations,
         NEW mentions, NEW deed,
         Change!IdOf(t) \notin Change!SymbolIds(after), Remains(s, t),
         Change!Replace(s, t, mentions, deed), IsHistory(before, after, origin)
  PROVE  IsHistory(before, after', origin')
<1> DEFINE as(id) == IF id = Change!IdOf(s) THEN Change!IdOf(t) ELSE id
           moved(r) == Redirected(r, Change!IdOf(s), Change!IdOf(t))
           now(u) == Mentioned(u, mentions, s.name, t.name)
           ids == (Change!SymbolIds(after) \ {Change!IdOf(s)}) \union {Change!IdOf(t)}
           o == [id \in ids |-> IF id = Change!IdOf(t) THEN origin[Change!IdOf(s)] ELSE origin[id]]
           a == after'
<1>1. /\ a.symbols = {now(u) : u \in after.symbols \ {s}} \union {t}
      /\ a.refs = {moved(r) : r \in after.refs}
  BY ReplaceParts DEF SymbolsReplaced, RefsRedirected
<1>2. origin' = o
  BY DEF Change!Replace, Change!Becomes
<1>3. \A u \in after.symbols : u \in Change!Declarations
  BY DEF Change!IsSource
<1>4. ASSUME NEW u \in after.symbols
      PROVE  Change!IdOf(now(u)) = Change!IdOf(u) /\ Remains(u, now(u))
  <2>1. u \in Change!Declarations /\ t.name \in Nat
    BY <1>3, NumbersAssumption DEF Change!Declarations
  <2>2. now(u).file = u.file /\ now(u).kind = u.kind /\ Change!IdOf(now(u)) = Change!IdOf(u)
    BY <2>1, MentionedParts
  <2> HIDE DEF now
  <2> QED
    BY <2>2 DEF Remains
<1> HIDE DEF now
<1>5. ASSUME NEW u \in after.symbols, u # s
      PROVE  /\ Change!IdOf(u) \in ids /\ Change!IdOf(u) # Change!IdOf(t)
             /\ o[Change!IdOf(u)] = origin[Change!IdOf(u)]
  BY <1>5 DEF Change!IsSource, Change!SymbolIds
<1>6. Change!IdOf(t) \in ids /\ o[Change!IdOf(t)] = origin[Change!IdOf(s)]
  OBVIOUS
<1>7. DOMAIN o = Change!SymbolIds(a) /\ \A id \in ids : id \in Change!SymbolIds(a)
  <2>1. ASSUME NEW id \in ids PROVE id \in Change!SymbolIds(a)
    <3>1. CASE id = Change!IdOf(t)
      BY <1>1, <3>1 DEF Change!SymbolIds
    <3>2. CASE id # Change!IdOf(t)
      <4>1. PICK u \in after.symbols : id = Change!IdOf(u) /\ u # s
        BY <3>2 DEF Change!SymbolIds
      <4>2. now(u) \in a.symbols /\ Change!IdOf(now(u)) = id
        BY <1>1, <1>4, <4>1
      <4> QED
        BY <4>2 DEF Change!SymbolIds
    <3> QED
      BY <3>1, <3>2
  <2>2. ASSUME NEW id \in Change!SymbolIds(a) PROVE id \in ids
    <3>1. PICK x \in a.symbols : id = Change!IdOf(x)
      BY <2>2 DEF Change!SymbolIds
    <3>2. CASE x = t
      BY <3>1, <3>2
    <3>3. CASE x # t
      <4>1. PICK u \in after.symbols \ {s} : x = now(u)
        BY <1>1, <3>1, <3>3
      <4> QED
        BY <1>4, <1>5, <3>1, <4>1
    <3> QED
      BY <3>2, <3>3
  <2>3. DOMAIN o = ids
    OBVIOUS
  <2> HIDE DEF ids, a, o
  <2> QED
    BY <2>1, <2>2, <2>3
<1>8. ASSUME NEW r \in after.refs PROVE moved(r) \in a.refs /\ moved(r).to = as(r.to)
  <2>1. r \in Change!Reference
    BY DEF Change!IsSource
  <2>2. moved(r).to = as(r.to)
    BY <2>1 DEF Change!Reference, Redirected
  <2> QED
    BY <1>1, <2>2
<1> HIDE DEF a, o, moved
<1>9. ASSUME NEW x \in a.symbols
      PROVE  \E u \in after.symbols :
               /\ o[Change!IdOf(x)] = origin[Change!IdOf(u)] /\ Remains(u, x)
               /\ x = IF u = s THEN t ELSE now(u)
  <2>1. CASE x = t
    BY <1>6, <2>1
  <2>2. CASE x # t
    <3>1. PICK u \in after.symbols \ {s} : x = now(u)
      BY <1>1, <2>2
    <3>2. /\ Change!IdOf(x) = Change!IdOf(u) /\ Remains(u, x)
          /\ o[Change!IdOf(u)] = origin[Change!IdOf(u)]
      BY <1>4, <1>5, <3>1
    <3> QED
      BY <3>1, <3>2
  <2> QED
    BY <2>1, <2>2
<1>10. ASSUME NEW x \in a.symbols
       PROVE  \E v \in before.symbols : o[Change!IdOf(x)] = Change!IdOf(v) /\ Remains(v, x)
  <2>1. PICK u \in after.symbols : o[Change!IdOf(x)] = origin[Change!IdOf(u)] /\ Remains(u, x)
    BY <1>9
  <2>2. PICK v \in before.symbols : origin[Change!IdOf(u)] = Change!IdOf(v) /\ Remains(v, u)
    BY DEF IsHistory
  <2>3. Remains(v, x)
    BY <2>1, <2>2 DEF Remains
  <2> QED
    BY <2>1, <2>2, <2>3
<1>11. ASSUME NEW v \in before.symbols PROVE \E x \in a.symbols : o[Change!IdOf(x)] = Change!IdOf(v)
  <2>1. PICK u \in after.symbols : origin[Change!IdOf(u)] = Change!IdOf(v)
    BY DEF IsHistory
  <2>2. CASE u = s
    BY <1>1, <1>6, <2>1, <2>2
  <2>3. CASE u # s
    <3>1. now(u) \in a.symbols /\ Change!IdOf(now(u)) = Change!IdOf(u)
      BY <1>1, <1>4, <2>3
    <3> QED
      BY <1>5, <2>1, <2>3, <3>1
  <2> QED
    BY <2>2, <2>3
<1>12. ASSUME NEW x \in a.symbols, NEW y \in a.symbols, o[Change!IdOf(x)] = o[Change!IdOf(y)] PROVE x = y
  <2>1. PICK u \in after.symbols : /\ o[Change!IdOf(x)] = origin[Change!IdOf(u)]
                                  /\ x = IF u = s THEN t ELSE now(u)
    BY <1>9
  <2>2. PICK w \in after.symbols : /\ o[Change!IdOf(y)] = origin[Change!IdOf(w)]
                                  /\ y = IF w = s THEN t ELSE now(w)
    BY <1>9
  <2>3. u = w
    BY <1>12, <2>1, <2>2 DEF IsHistory
  <2> QED
    BY <2>1, <2>2, <2>3
<1>13. ASSUME NEW r \in before.refs, Change!Binds(before, r) PROVE \E q \in a.refs : IsFollowed(a, o, q, r)
  <2>1. PICK q \in after.refs : IsFollowed(after, origin, q, r)
    BY <1>13 DEF IsHistory
  <2>2. moved(q) \in a.refs /\ moved(q).to = as(q.to)
    BY <1>8
  <2>3. ~Change!IsExternalPackage(Change!IdOf(s))
    BY <1>3, DeclaredIsNoPackage
  <2>4. CASE Change!IsExternalPackage(r.to)
    <3>1. q.to = r.to /\ q.to # Change!IdOf(s)
      BY <2>1, <2>3, <2>4 DEF IsFollowed
    <3> QED
      BY <2>2, <2>4, <3>1 DEF IsFollowed
  <2>5. CASE ~Change!IsExternalPackage(r.to)
    <3>1. q.to \in Change!SymbolIds(after) /\ origin[q.to] = r.to
      BY <2>1, <2>5 DEF IsFollowed
    <3>2. as(q.to) \in ids
      BY <3>1
    <3>3. o[as(q.to)] = r.to
      <4>1. CASE q.to = Change!IdOf(s)
        BY <1>6, <3>1, <4>1
      <4>2. CASE q.to # Change!IdOf(s)
        <5>1. q.to # Change!IdOf(t)
          BY <3>1
        <5> QED
          BY <3>1, <3>2, <4>2, <5>1 DEF o
      <4> QED
        BY <4>1, <4>2
    <3>4. as(q.to) \in Change!SymbolIds(a)
      BY <1>7, <3>2
    <3> HIDE DEF as, ids
    <3> QED
      BY <2>2, <2>5, <3>3, <3>4 DEF IsFollowed
  <2> QED
    BY <2>4, <2>5
<1>14. ASSUME NEW q \in a.refs, Change!IsExternalPackage(q.to) PROVE \E r \in before.refs : r.to = q.to
  <2>1. PICK x \in after.refs : q = moved(x)
    BY <1>1
  <2>2. q.to = as(x.to)
    BY <1>8, <2>1
  <2>3. ~Change!IsExternalPackage(Change!IdOf(t))
    BY DeclaredIsNoPackage
  <2>4. q.to = x.to
    BY <1>14, <2>2, <2>3
  <2> QED
    BY <1>14, <2>4 DEF IsHistory
<1>15. IsHistory(before, a, o)
  <2> HIDE DEF ids, as
  <2> QED
    BY <1>7, <1>10, <1>11, <1>12, <1>13, <1>14 DEF IsHistory
<1> QED
  BY <1>2, <1>15 DEF a

(* So does a reference that comes to be on another line.                    *)
LEMMA ShiftKeepsHistory ==
  ASSUME Change!IsSource(after), NEW r \in after.refs, NEW line \in Nat, Change!Shift(r, line),
         IsHistory(before, after, origin)
  PROVE  IsHistory(before, after', origin')
<1> DEFINE q == [r EXCEPT !.line = line]
<1>1. /\ after'.symbols = after.symbols
      /\ after'.refs = (after.refs \ {r}) \union {q}
      /\ origin' = origin
  BY DEF Change!Shift, Change!Becomes, Change!IsSource
<1>2. q.to = r.to
  BY DEF Change!IsSource, Change!Reference
<1> HIDE DEF q
<1>3. Change!SymbolIds(after') = Change!SymbolIds(after)
  BY <1>1 DEF Change!SymbolIds
<1>4. ASSUME NEW b \in before.refs, Change!Binds(before, b)
      PROVE  \E x \in after'.refs : IsFollowed(after', origin', x, b)
  <2>1. PICK x \in after.refs : IsFollowed(after, origin, x, b)
    BY <1>4 DEF IsHistory
  <2>2. PICK y \in after'.refs : y.to = x.to
    BY <1>1, <1>2
  <2> QED
    BY <1>1, <1>3, <2>1, <2>2 DEF IsFollowed
<1>5. ASSUME NEW x \in after'.refs, Change!IsExternalPackage(x.to)
      PROVE  \E b \in before.refs : b.to = x.to
  <2>1. PICK y \in after.refs : y.to = x.to
    BY <1>1, <1>2
  <2> QED
    BY <1>5, <2>1 DEF IsHistory
<1> QED
  BY <1>1, <1>3, <1>4, <1>5 DEF IsHistory

(* A rename, a move or a shift goes on with the history. Any other edit is  *)
(* remembered as another deed.                                              *)
LEMMA EditKeepsHistory ==
  ASSUME HistoryInv, before # NONE, Change!Edit, deeds' \subseteq {"rename", "move", "shift"}
  PROVE  IsHistory(before', after', origin')
<1>1. /\ Change!IsSource(after)
      /\ after.symbols \subseteq Change!Declarations
  BY DEF HistoryInv, ComparisonInv, Sources, Change!IsSource
<1>2. \/ \E s \in after.symbols, name \in Names, mentions \in SUBSET after.symbols :
           Change!Rename(s, name, mentions)
      \/ \E s \in after.symbols, file \in ComparedFiles : Change!Move(s, file)
      \/ \E r \in after.refs, line \in ComparedLines : Change!Shift(r, line)
  <2>1. ASSUME NEW s, NEW tidily, Change!Delete(s, tidily) PROVE FALSE
    <3>1. deeds' = deeds \union {"delete"}
      BY <2>1 DEF Change!Delete, Change!Becomes
    <3> QED
      BY <3>1
  <2>2. ASSUME NEW s, NEW word, Change!Reword(s, word) PROVE FALSE
    <3>1. deeds' = deeds \union {"reword"}
      BY <2>2 DEF Change!Reword, Change!Replace, Change!Becomes
    <3> QED
      BY <3>1
  <2>3. ASSUME NEW s, Change!Add(s) PROVE FALSE
    <3>1. deeds' = deeds \union {"add"}
      BY <2>3 DEF Change!Add, Change!Becomes
    <3> QED
      BY <3>1
  <2>4. ASSUME NEW r, Change!Drop(r) PROVE FALSE
    <3>1. deeds' = deeds \union {"drop"}
      BY <2>4 DEF Change!Drop, Change!Becomes
    <3> QED
      BY <3>1
  <2>5. ASSUME NEW from, NEW to, NEW line, Change!Refer(from, to, line) PROVE FALSE
    <3>1. deeds' = deeds \union {"refer"}
      BY <2>5 DEF Change!Refer, Change!Becomes
    <3> QED
      BY <3>1
  <2>6. \A s : Change!MayMention(s) \subseteq after.symbols
    BY DEF Change!MayMention
  <2> QED
    BY <2>1, <2>2, <2>3, <2>4, <2>5, <2>6 DEF Change!Edit
<1>3. ASSUME NEW s \in after.symbols, NEW t \in Change!Declarations, NEW mentions, NEW deed,
             Change!Replace(s, t, mentions, deed),
             Change!IdOf(t) \notin Change!SymbolIds(after), Remains(s, t)
      PROVE  IsHistory(before', after', origin')
  <2>1. before' = before /\ deeds \subseteq deeds'
    BY <1>3 DEF Change!Replace, Change!Becomes
  <2>2. IsHistory(before, after, origin)
    BY <2>1 DEF HistoryInv
  <2> QED
    BY <1>1, <1>3, <2>1, <2>2, ReplaceKeepsHistory
<1>4. ASSUME NEW s \in after.symbols, NEW name \in Names, NEW mentions, Change!Rename(s, name, mentions)
      PROVE  IsHistory(before', after', origin')
  <2> DEFINE t == Change!Renamed(s, name)
  <2>1. t \in Change!Declarations /\ t.file = s.file /\ t.kind = s.kind
    <3>1. s \in Change!Declarations
      BY <1>1
    <3> QED
      BY <3>1, RenamedParts
  <2>2. /\ Change!IdOf(t) \notin Change!SymbolIds(after)
        /\ Change!Replace(s, t, mentions, "rename")
    BY <1>4 DEF Change!Rename
  <2> HIDE DEF t
  <2>3. Remains(s, t)
    BY <2>1 DEF Remains
  <2> QED
    BY <1>3, <2>1, <2>2, <2>3
<1>5. ASSUME NEW s \in after.symbols, NEW file \in ComparedFiles, Change!Move(s, file)
      PROVE  IsHistory(before', after', origin')
  <2> DEFINE t == [s EXCEPT !.file = file]
  <2>1. t \in Change!Declarations /\ t.file = file /\ t.kind = s.kind
    <3>1. s \in Change!Declarations
      BY <1>1
    <3> QED
      BY <3>1 DEF Change!Declarations
  <2>2. /\ LanguageOf[file] = LanguageOf[s.file]
        /\ Change!IdOf(t) \notin Change!SymbolIds(after)
        /\ Change!Replace(s, t, {}, "move")
    BY <1>5 DEF Change!Move
  <2> HIDE DEF t
  <2>3. Remains(s, t)
    BY <2>1, <2>2 DEF Remains
  <2> QED
    BY <1>3, <2>1, <2>2, <2>3
<1>6. ASSUME NEW r \in after.refs, NEW line \in ComparedLines, Change!Shift(r, line)
      PROVE  IsHistory(before', after', origin')
  <2>1. before' = before /\ deeds \subseteq deeds'
    BY <1>6 DEF Change!Shift, Change!Becomes
  <2>2. IsHistory(before, after, origin)
    BY <2>1 DEF HistoryInv
  <2>3. line \in Nat
    BY NumbersAssumption
  <2> QED
    BY <1>1, <1>6, <2>1, <2>2, <2>3, ShiftKeepsHistory
<1> QED
  BY <1>2, <1>4, <1>5, <1>6

(* The invariant holds of every state that edits lead to.                   *)
LEMMA HistoryInvariant == QuestionsSpec => []HistoryInv
<1>1. QuestionsInit /\ ComparisonInv => HistoryInv
  <2> SUFFICES ASSUME QuestionsInit, ComparisonInv PROVE HistoryInv
    OBVIOUS
  <2>1. CASE Change!Idle
    BY <2>1 DEF HistoryInv, Change!Idle
  <2>2. CASE Change!Baseline
    <3>1. /\ after = before /\ origin = [id \in Change!SymbolIds(before) |-> id]
          /\ Change!IsSource(before)
      BY <2>2, BaselinesAssumption DEF Change!Baseline
    <3>2. IsHistory(before, after, origin)
      BY <3>1, HistoryBegins
    <3> QED
      BY <3>1, <3>2 DEF HistoryInv
  <2> QED
    BY <2>1, <2>2 DEF QuestionsInit
<1>2. HistoryInv /\ ComparisonInv' /\ [AskOfGraph \/ AskOfChange]_questions => HistoryInv'
  <2> SUFFICES ASSUME HistoryInv, ComparisonInv', [AskOfGraph \/ AskOfChange]_questions
               PROVE  HistoryInv'
    OBVIOUS
  <2>1. CASE before' = before /\ after' = after /\ origin' = origin /\ deeds' = deeds
    BY <2>1 DEF HistoryInv, IsHistory, IsFollowed, Change!SymbolIds, Change!Binds
  <2>2. CASE before # NONE /\ Change!Edit
    BY <2>2, EditKeepsHistory DEF HistoryInv
  <2>3. CASE Change!Compare
    BY <2>1, <2>3 DEF Change!Compare
  <2>4. CASE Change!Forget
    BY <2>1, <2>4 DEF Change!Forget
  <2> QED
    BY <2>1, <2>2, <2>3, <2>4 DEF AskOfGraph, AskOfChange, questions, comparison, Change!CompareStep
<1> QED
  BY <1>1, <1>2, ComparisonInvariant, PTL DEF QuestionsSpec

(* Who is in a graph that is built: what the source declares, and the       *)
(* packages that are referred to.                                           *)
LEMMA DeclaredOrReferredTo ==
  ASSUME NEW source, Change!IsSource(source), NEW s \in Change!GraphOf(source).symbols
  PROVE  \/ s \in source.symbols
         \/ \E r \in source.refs : Change!IsExternalPackage(r.to) /\ Change!IdOf(s) = r.to
<1> DEFINE external == {r \in {r \in source.refs : Change!Binds(source, r)} : Change!IsExternalPackage(r.to)}
<1>1. Change!GraphOf(source).symbols = source.symbols \union {Change!Package(r.to) : r \in external}
  BY DEF Change!GraphOf
<1> SUFFICES ASSUME s \notin source.symbols
             PROVE  \E r \in source.refs : Change!IsExternalPackage(r.to) /\ Change!IdOf(s) = r.to
  OBVIOUS
<1>2. PICK r \in external : s = Change!Package(r.to)
  BY <1>1
<1>3. r.to \in Change!DeclaredIds \union Change!Packages /\ r.to[3] = "package"
  BY DEF Change!IsSource, Change!Reference, Change!IsExternalPackage
<1>4. r.to \in Change!Packages
  BY <1>3 DEF Change!DeclaredIds
<1>5. r.to = <<0, r.to[2], "package">>
  BY <1>4 DEF Change!Packages
<1>6. Change!IdOf(Change!Package(r.to)) = <<0, r.to[2], "package">>
  BY DEF Change!IdOf, Change!Package
<1> QED
  BY <1>2, <1>5, <1>6

(* Who is declared in a graph that is built is declared in its source.      *)
LEMMA DeclaredInSource ==
  ASSUME NEW source, Change!IsSource(source), NEW s \in Change!Declarations,
         Change!IdOf(s) \in Change!SymbolIds(Change!GraphOf(source))
  PROVE  Change!IdOf(s) \in Change!SymbolIds(source)
<1>1. PICK t \in Change!GraphOf(source).symbols : Change!IdOf(s) = Change!IdOf(t)
  BY DEF Change!SymbolIds
<1>2. t \in source.symbols
  BY <1>1, DeclaredIsNoPackage, DeclaredOrReferredTo
<1> QED
  BY <1>1, <1>2 DEF Change!SymbolIds

(* A package that is referred to is in the graph.                           *)
LEMMA ReferredToIsThere ==
  ASSUME NEW source, Change!IsSource(source), NEW r \in source.refs, Change!IsExternalPackage(r.to)
  PROVE  r.to \in Change!SymbolIds(Change!GraphOf(source))
BY GraphParts DEF Change!Binds

(* What a history's renames and moves take away from one graph comes back   *)
(* in the other, as long as no symbol takes the id of another.              *)
LEMMA GoneHaveHeirs ==
  ASSUME Change!IsSource(before), Change!IsSource(after), IsHistory(before, after, origin),
         \A id \in DOMAIN origin : id = origin[id] \/ id \notin Change!SymbolIds(before)
  PROVE  LET removed == Change!Gone(Change!GraphOf(before), Change!GraphOf(after))
             added == Change!Gone(Change!GraphOf(after), Change!GraphOf(before))
         IN  /\ removed \subseteq before.symbols
             /\ added \subseteq after.symbols
             /\ \E heir : /\ IsHeritage(heir, removed, added)
                          /\ \A s \in removed : /\ Remains(s, heir[s])
                                                /\ origin[Change!IdOf(heir[s])] = Change!IdOf(s)
<1> DEFINE g == Change!GraphOf(before)
           h == Change!GraphOf(after)
           removed == Change!Gone(g, h)
           added == Change!Gone(h, g)
           child(s) == CHOOSE t \in after.symbols : origin[Change!IdOf(t)] = Change!IdOf(s)
           heir == [s \in removed |-> child(s)]
<1>1. /\ \A s \in before.symbols : s \in Change!Declarations
      /\ \A s \in after.symbols : s \in Change!Declarations
      /\ \A s, t \in before.symbols : Change!IdOf(s) = Change!IdOf(t) => s = t
  BY DEF Change!IsSource
<1>2. /\ \A s \in before.symbols : Change!IdOf(s) \in Change!SymbolIds(before)
      /\ \A t \in after.symbols : Change!IdOf(t) \in Change!SymbolIds(after)
                               /\ Change!IdOf(t) \in DOMAIN origin
  BY DEF Change!SymbolIds, IsHistory
<1>3. /\ \A s \in before.symbols : s \in g.symbols /\ Change!IdOf(s) \in Change!SymbolIds(g)
      /\ \A t \in after.symbols : t \in h.symbols /\ Change!IdOf(t) \in Change!SymbolIds(h)
  BY GraphParts DEF Change!SymbolIds
<1>4. ASSUME NEW s \in removed PROVE s \in before.symbols /\ Change!IdOf(s) \notin Change!SymbolIds(h)
  <2>1. s \in g.symbols /\ Change!IdOf(s) \notin Change!SymbolIds(h)
    BY DEF Change!Gone
  <2>2. ASSUME NEW r \in before.refs, Change!IsExternalPackage(r.to), Change!IdOf(s) = r.to PROVE FALSE
    <3>1. Change!Binds(before, r)
      BY <2>2 DEF Change!Binds
    <3>2. PICK q \in after.refs : IsFollowed(after, origin, q, r)
      BY <3>1 DEF IsHistory
    <3>3. q.to = r.to
      BY <2>2, <3>2 DEF IsFollowed
    <3> QED
      BY <2>1, <2>2, <3>3, ReferredToIsThere
  <2> QED
    BY <2>1, <2>2, DeclaredOrReferredTo
<1>5. ASSUME NEW t \in added PROVE t \in after.symbols /\ Change!IdOf(t) \notin Change!SymbolIds(g)
  <2>1. t \in h.symbols /\ Change!IdOf(t) \notin Change!SymbolIds(g)
    BY DEF Change!Gone
  <2>2. ASSUME NEW q \in after.refs, Change!IsExternalPackage(q.to), Change!IdOf(t) = q.to PROVE FALSE
    <3>1. PICK r \in before.refs : r.to = q.to
      BY <2>2 DEF IsHistory
    <3> QED
      BY <2>1, <2>2, <3>1, ReferredToIsThere
  <2> QED
    BY <2>1, <2>2, DeclaredOrReferredTo
<1>6. ASSUME NEW s \in removed, NEW t \in after.symbols, origin[Change!IdOf(t)] = Change!IdOf(s)
      PROVE  t \in added /\ Remains(s, t)
  <2>1. Change!IdOf(t) # Change!IdOf(s)
    BY <1>3, <1>4
  <2>2. Change!IdOf(t) \notin Change!SymbolIds(before)
    BY <1>2, <1>6, <2>1
  <2>3. Change!IdOf(t) \notin Change!SymbolIds(g)
    BY <1>1, <2>2, DeclaredInSource
  <2>4. t \in added
    BY <1>3, <2>3 DEF Change!Gone
  <2>5. PICK x \in before.symbols : origin[Change!IdOf(t)] = Change!IdOf(x) /\ Remains(x, t)
    BY DEF IsHistory
  <2>6. x = s
    BY <1>1, <1>4, <1>6, <2>5
  <2> QED
    BY <2>4, <2>5, <2>6
<1>7. ASSUME NEW t \in added PROVE \E s \in removed : origin[Change!IdOf(t)] = Change!IdOf(s)
  <2>1. PICK s \in before.symbols : origin[Change!IdOf(t)] = Change!IdOf(s)
    BY <1>5 DEF IsHistory
  <2>2. ASSUME Change!IdOf(s) \in Change!SymbolIds(h) PROVE FALSE
    <3>1. Change!IdOf(s) \in Change!SymbolIds(after)
      BY <1>1, <2>2, DeclaredInSource
    <3>2. PICK u \in after.symbols : Change!IdOf(s) = Change!IdOf(u)
      BY <3>1 DEF Change!SymbolIds
    <3>3. origin[Change!IdOf(u)] = Change!IdOf(u)
      BY <1>2, <3>2
    <3>4. u = t
      BY <1>5, <2>1, <3>2, <3>3 DEF IsHistory
    <3> QED
      BY <1>3, <1>5, <3>2, <3>4
  <2>3. s \in removed
    BY <1>3, <2>2 DEF Change!Gone
  <2> QED
    BY <2>1, <2>3
<1> HIDE DEF g, h, removed, added
<1>8. ASSUME NEW s \in removed
      PROVE  /\ heir[s] \in added /\ heir[s] \in after.symbols
             /\ origin[Change!IdOf(heir[s])] = Change!IdOf(s)
             /\ Remains(s, heir[s])
  <2>1. \E t \in after.symbols : origin[Change!IdOf(t)] = Change!IdOf(s)
    BY <1>4 DEF IsHistory
  <2>2. child(s) \in after.symbols /\ origin[Change!IdOf(child(s))] = Change!IdOf(s)
    BY <2>1
  <2>3. heir[s] = child(s)
    OBVIOUS
  <2> HIDE DEF heir, child
  <2> QED
    BY <1>6, <2>2, <2>3
<1>9. heir = [s \in removed |-> heir[s]]
  <2> HIDE DEF child
  <2> QED
    OBVIOUS
<1> HIDE DEF heir
<1>10. IsHeritage(heir, removed, added)
  <2>1. heir \in [removed -> added]
    BY <1>8, <1>9
  <2>2. \A s, u \in removed : heir[s] = heir[u] => s = u
    BY <1>1, <1>4, <1>8
  <2>3. ASSUME NEW t \in added PROVE \E s \in removed : heir[s] = t
    <3>1. PICK s \in removed : origin[Change!IdOf(t)] = Change!IdOf(s)
      BY <1>7
    <3>2. heir[s] = t
      BY <1>5, <1>8, <3>1 DEF IsHistory
    <3> QED
      BY <3>2
  <2> QED
    BY <2>1, <2>2, <2>3 DEF IsHeritage
<1>11. removed \subseteq before.symbols /\ added \subseteq after.symbols
  BY <1>4, <1>5
<1> QED
  BY <1>8, <1>10, <1>11 DEF g, h, removed, added

(* What reads the same on both sides comes first.                           *)
LEMMA RespelledComeFirst ==
  ASSUME NEW s, NEW t, NEW u, NEW v,
         Change!ContinuationBetween(s, t) # Change!NoContinuation, Change!RenamesTo(s, t),
         Change!ContinuationBetween(u, v) # Change!NoContinuation,
         Change!PairPrecedes(Change!Pair(u, v), Change!Pair(s, t))
  PROVE  /\ Change!RenamesTo(u, v)
         /\ u.kind = v.kind /\ LanguageOf[u.file] = LanguageOf[v.file]
<1> DEFINE how(x, y) == Change!ContinuationBetween(x, y)
           hows == {"renamed", "moved", "renamedAndMoved"}
<1>1. how(s, t) \in hows /\ how(u, v) \in hows
  BY DEF Change!ContinuationBetween, Change!NoContinuation
<1>2. /\ Change!Pair(s, t).rank = Change!PairingRank(how(s, t), Change!RenamesTo(s, t))
      /\ Change!Pair(u, v).rank = Change!PairingRank(how(u, v), Change!RenamesTo(u, v))
  BY DEF Change!Pair
<1>3. u.kind = v.kind /\ LanguageOf[u.file] = LanguageOf[v.file]
  BY DEF Change!ContinuationBetween
<1> DEFINE former == Change!PairingRank(how(u, v), Change!RenamesTo(u, v))
           latter == Change!PairingRank(how(s, t), Change!RenamesTo(s, t))
<1> HIDE DEF how
<1>4. latter \in {0, 1, 2}
  BY <1>1 DEF Change!PairingRank
<1>5. former \in Nat /\ (~Change!RenamesTo(u, v) => former \in {3, 4, 5})
  BY <1>1 DEF Change!PairingRank
<1>6. former < latter \/ former = latter
  BY <1>2 DEF Change!PairPrecedes
<1> HIDE DEF former, latter
<1> QED
  BY <1>3, <1>4, <1>5, <1>6

(* The pairs that are taken leave out none of what is respelled.            *)
LEMMA TakenIsPairing ==
  ASSUME NEW removed, IsFiniteSet(removed), Distinct(removed), removed \subseteq Change!Declarations,
         NEW added, IsFiniteSet(added), Distinct(added), added \subseteq Change!Declarations,
         \A s \in removed, t \in added : Change!IdOf(s) # Change!IdOf(t),
         \A s \in removed : /\ s.signature # << >>
                            /\ \A w \in Change!Range(s.signature) : <<s.name, w>> \notin Occurs
                            /\ \A t \in added :
                                 t.name \in Change!Range(s.signature) \ {s.name} =>
                                   ~Change!ReadsLike(t, s)
  PROVE  LET taken == Change!PairUp(Candidates(removed, added))
         IN  IsPairing({<<c.before, c.after>> : c \in taken},
                       {p \in removed \X added : Respelled(p[1], p[2])}, removed, added)
<1> DEFINE taken == Change!PairUp(Candidates(removed, added))
           K == {<<c.before, c.after>> : c \in taken}
           M == {p \in removed \X added : Respelled(p[1], p[2])}
<1>1. /\ taken \subseteq Candidates(removed, added)
      /\ \A p, q \in taken : p # q => p.before # q.before /\ p.after # q.after
      /\ \A p \in Candidates(removed, added) \ taken :
           \E q \in taken : /\ Change!PairPrecedes(q, p)
                            /\ p.before = q.before \/ p.after = q.after
  BY PairingParts
<1> HIDE DEF taken
<1>2. ASSUME NEW c \in taken
      PROVE  /\ c.before \in removed /\ c.after \in added /\ c = Change!Pair(c.before, c.after)
             /\ Change!ContinuationBetween(c.before, c.after) # Change!NoContinuation
  <2>1. c \in Candidates(removed, added)
    BY <1>1
  <2>2. PICK p \in removed \X added : /\ Change!ContinuationBetween(p[1], p[2]) # Change!NoContinuation
                                      /\ c = Change!Pair(p[1], p[2])
    BY <2>1 DEF Candidates
  <2>3. c.before = p[1] /\ c.after = p[2]
    BY <2>2 DEF Change!Pair
  <2> QED
    BY <2>1, <2>2, <2>3
<1>3. K \in SUBSET (removed \X added)
  BY <1>2
<1>4. ASSUME NEW p \in K, NEW q \in K PROVE p[1] = q[1] <=> p[2] = q[2]
  <2>1. PICK c \in taken : p = <<c.before, c.after>>
    OBVIOUS
  <2>2. PICK d \in taken : q = <<d.before, d.after>>
    OBVIOUS
  <2>3. c.before = d.before <=> c.after = d.after
    BY <1>1
  <2> QED
    BY <2>1, <2>2, <2>3
<1>5. ASSUME NEW p \in M \ K PROVE \E q \in M \intersect K : p[1] = q[1] \/ p[2] = q[2]
  <2> DEFINE s == p[1]
             t == p[2]
  <2>1. p = <<s, t>> /\ s \in removed /\ t \in added /\ Respelled(s, t)
    OBVIOUS
  <2> HIDE DEF s, t
  <2>2. Change!RenamesTo(s, t) /\ Change!ContinuationBetween(s, t) # Change!NoContinuation
    BY <2>1, RespelledIsFound
  <2>3. Change!Pair(s, t) \in Candidates(removed, added)
    <3>1. <<s, t>> \in removed \X added /\ <<s, t>>[1] = s /\ <<s, t>>[2] = t
      BY <2>1
    <3> QED
      BY <2>2, <3>1 DEF Candidates
  <2>4. Change!Pair(s, t).before = s /\ Change!Pair(s, t).after = t
    BY DEF Change!Pair
  <2>5. Change!Pair(s, t) \notin taken
    BY <2>1, <2>4
  <2>6. PICK c \in taken : /\ Change!PairPrecedes(c, Change!Pair(s, t))
                           /\ s = c.before \/ t = c.after
    BY <1>1, <2>3, <2>4, <2>5
  <2> DEFINE u == c.before
             v == c.after
  <2>7. /\ u \in removed /\ v \in added /\ <<u, v>> \in K
        /\ Change!PairPrecedes(Change!Pair(u, v), Change!Pair(s, t))
        /\ Change!ContinuationBetween(u, v) # Change!NoContinuation
    BY <1>2, <2>6
  <2>8. s = u \/ t = v
    BY <2>6
  <2> HIDE DEF u, v, K
  <2>9. /\ Change!RenamesTo(u, v)
        /\ u.kind = v.kind /\ LanguageOf[u.file] = LanguageOf[v.file]
    BY <2>2, <2>7, RespelledComeFirst
  <2>10. u \in Change!Declarations /\ v \in Change!Declarations
    BY <2>7
  <2>11. Respelled(u, v)
    BY <2>7, <2>9, <2>10, FoundIsAlike, LikenessIsRespelled DEF Remains
  <2>12. <<u, v>> \in M \intersect K
    BY <2>7, <2>11
  <2> HIDE DEF M
  <2> QED
    BY <2>1, <2>8, <2>12
<1> HIDE DEF K, M
<1>6. IsPairing(K, M, removed, added)
  BY <1>3, <1>4, <1>5 DEF IsPairing
<1> QED
  BY <1>6 DEF K, M, taken

(* The pairs that a move may have left.                                     *)
SameName(s, t) == s.name = t.name /\ s.kind = t.kind /\ LanguageOf[s.file] = LanguageOf[t.file]

(* Nor of what keeps its name, and what is taken and not respelled has kept *)
(* it.                                                                      *)
LEMMA TakenKeepsNames ==
  ASSUME NEW removed, IsFiniteSet(removed), Distinct(removed), removed \subseteq Change!Declarations,
         NEW added, IsFiniteSet(added), Distinct(added), added \subseteq Change!Declarations,
         \A s \in removed, t \in added : Change!IdOf(s) # Change!IdOf(t),
         \A s \in removed : /\ s.signature # << >>
                            /\ \A w \in Change!Range(s.signature) : <<s.name, w>> \notin Occurs
                            /\ \A t \in added :
                                 t.name \in Change!Range(s.signature) \ {s.name} =>
                                   ~Change!ReadsLike(t, s)
  PROVE  LET K == {<<c.before, c.after>> : c \in Change!PairUp(Candidates(removed, added))}
         IN  /\ \A s \in removed, t \in added :
                  SameName(s, t) /\ <<s, t>> \notin K => \E q \in K : q[1] = s \/ q[2] = t
             /\ \A q \in K : ~Respelled(q[1], q[2]) => SameName(q[1], q[2])
<1> DEFINE taken == Change!PairUp(Candidates(removed, added))
           K == {<<c.before, c.after>> : c \in taken}
<1>1. /\ taken \subseteq Candidates(removed, added)
      /\ \A p \in Candidates(removed, added) \ taken :
           \E q \in taken : p.before = q.before \/ p.after = q.after
  BY PairingParts
<1> HIDE DEF taken
<1>2. ASSUME NEW s \in removed, NEW t \in added, SameName(s, t), <<s, t>> \notin K
      PROVE  \E q \in K : q[1] = s \/ q[2] = t
  <2>1. s.file # t.file
    BY <1>2 DEF SameName, Change!IdOf
  <2>2. Change!ContinuationBetween(s, t) # Change!NoContinuation
    BY <1>2, <2>1 DEF SameName, Change!ContinuationBetween, Change!NoContinuation
  <2>3. Change!Pair(s, t) \in Candidates(removed, added)
    <3>1. <<s, t>> \in removed \X added /\ <<s, t>>[1] = s /\ <<s, t>>[2] = t
      OBVIOUS
    <3> QED
      BY <2>2, <3>1 DEF Candidates
  <2>4. Change!Pair(s, t).before = s /\ Change!Pair(s, t).after = t
    BY DEF Change!Pair
  <2>5. Change!Pair(s, t) \notin taken
    BY <1>2, <2>4
  <2>6. PICK c \in taken : s = c.before \/ t = c.after
    BY <1>1, <2>3, <2>4, <2>5
  <2>7. <<c.before, c.after>> \in K
    OBVIOUS
  <2> HIDE DEF K
  <2> QED
    BY <2>6, <2>7
<1>3. ASSUME NEW q \in K, ~Respelled(q[1], q[2]) PROVE SameName(q[1], q[2])
  <2>1. PICK c \in taken : q = <<c.before, c.after>>
    OBVIOUS
  <2>2. PICK p \in removed \X added : /\ Change!ContinuationBetween(p[1], p[2]) # Change!NoContinuation
                                      /\ c = Change!Pair(p[1], p[2])
    BY <1>1, <2>1 DEF Candidates
  <2>3. c.before = p[1] /\ c.after = p[2]
    BY <2>2 DEF Change!Pair
  <2> DEFINE u == q[1]
             v == q[2]
  <2>4. /\ u \in removed /\ v \in added
        /\ Change!ContinuationBetween(u, v) # Change!NoContinuation
    BY <2>1, <2>2, <2>3
  <2> HIDE DEF u, v, K
  <2>5. u.kind = v.kind /\ LanguageOf[u.file] = LanguageOf[v.file]
    BY <2>4 DEF Change!ContinuationBetween
  <2>6. ~Change!RenamesTo(u, v)
    <3>1. u \in Change!Declarations /\ v \in Change!Declarations
      BY <2>4
    <3>2. ASSUME Change!RenamesTo(u, v) PROVE Respelled(u, v)
      BY <2>4, <2>5, <3>1, <3>2, FoundIsAlike, LikenessIsRespelled DEF Remains
    <3> QED
      BY <1>3, <3>2 DEF u, v
  <2>7. u.name = v.name
    BY <2>4, <2>6 DEF Change!ContinuationBetween
  <2> QED
    BY <2>5, <2>7 DEF SameName, u, v
<1> HIDE DEF K
<1>4. /\ \A s \in removed, t \in added :
           SameName(s, t) /\ <<s, t>> \notin K => \E q \in K : q[1] = s \/ q[2] = t
      /\ \A q \in K : ~Respelled(q[1], q[2]) => SameName(q[1], q[2])
  BY <1>2, <1>3
<1> QED
  BY <1>4 DEF K, taken

(* Whoever keeps its likeness is respelled, or has its name and nobody on   *)
(* the other side that is respelled from it or to it.                       *)
LEMMA LikenessKept ==
  ASSUME Change!IsSource(before), Change!IsSource(after), Change!IsRefactoring,
         NEW s \in before.symbols, NEW t \in after.symbols,
         origin[Change!IdOf(t)] = Change!IdOf(s), Change!IdOf(t) # Change!IdOf(s), Remains(s, t)
  PROVE  \/ Respelled(s, t)
         \/ /\ SameName(s, t)
            /\ \A u \in after.symbols : ~Respelled(s, u)
            /\ \A u \in before.symbols : ~Respelled(u, t)
<1>1. s \in Change!Declarations /\ t \in Change!Declarations
  BY DEF Change!IsSource
<1>2. Change!SymbolAt(before, Change!IdOf(s)) = s
  BY DEF Change!SymbolAt, Change!IsSource
<1>3. Change!KeepsItsLikeness(s, t)
  BY <1>2 DEF Change!IsRefactoring
<1>4. ASSUME NEW u \in before.symbols, NEW v \in after.symbols, Respelled(u, v)
      PROVE  Change!ReadsLike(v, u)
  <2>1. u \in Change!Declarations /\ v \in Change!Declarations
    BY DEF Change!IsSource
  <2>2. Change!Renamed(u, v.name).signature =
          [i \in DOMAIN u.signature |-> IF u.signature[i] = u.name THEN v.name ELSE u.signature[i]]
    <3>1. v.name \in Names
      BY <2>1 DEF Change!Declarations
    <3> QED
      BY <2>1, <3>1, RenamedParts
  <2>3. v.signature = [i \in DOMAIN v.signature |-> v.signature[i]]
    BY <2>1 DEF Change!Declarations
  <2>4. v.signature =
          [i \in DOMAIN u.signature |-> IF u.signature[i] = u.name THEN v.name ELSE u.signature[i]]
    BY <1>4, <2>3 DEF Respelled
  <2> QED
    BY <2>2, <2>4 DEF Change!ReadsLike
<1>5. CASE Change!ReadsLike(t, s)
  <2>1. t.name \notin Change!Range(s.signature) \ {s.name}
    BY <1>5 DEF Change!IsRefactoring
  <2> QED
    BY <1>1, <1>5, <2>1, LikenessIsRespelled
<1>6. CASE ~Change!ReadsLike(t, s)
  BY <1>3, <1>4, <1>6 DEF Change!KeepsItsLikeness, Remains, SameName
<1> QED
  BY <1>5, <1>6

(* A history orphans no symbol: who is still there is who it was, and its   *)
(* referrers have followed it.                                              *)
LEMMA NoneIsOrphaned ==
  ASSUME Change!IsSource(before), Change!IsSource(after), IsHistory(before, after, origin),
         \A id \in DOMAIN origin : id = origin[id] \/ id \notin Change!SymbolIds(before)
  PROVE  Change!Orphans(Change!GraphOf(before), Change!GraphOf(after)) = {}
<1> DEFINE g == Change!GraphOf(before)
           h == Change!GraphOf(after)
<1> SUFFICES ASSUME NEW s \in h.symbols, Change!Inbound(g, Change!IdOf(s)) # {},
                    Change!Inbound(h, Change!IdOf(s)) = {}
             PROVE  FALSE
  BY DEF Change!Orphans
<1>1. PICK e \in g.edges : e.to = Change!IdOf(s)
  BY DEF Change!Inbound
<1>2. PICK r \in before.refs : /\ Change!Binds(before, r)
                               /\ e \in {Change!Edge(r.kind, r), Change!Edge("Tests", r)}
  BY GraphParts
<1>3. r.to = Change!IdOf(s)
  BY <1>1, <1>2, EdgeParts
<1>4. PICK q \in after.refs : IsFollowed(after, origin, q, r)
  BY <1>2 DEF IsHistory
<1>5. q.to = r.to /\ Change!Binds(after, q)
  <2>1. CASE Change!IsExternalPackage(r.to)
    BY <1>4, <2>1 DEF IsFollowed, Change!Binds
  <2>2. CASE ~Change!IsExternalPackage(r.to)
    <3>1. q.to \in Change!SymbolIds(after) /\ origin[q.to] = r.to
      BY <1>4, <2>2 DEF IsFollowed
    <3>2. s \in after.symbols
      BY <1>3, <2>2, DeclaredOrReferredTo
    <3>3. Change!IdOf(s) \in Change!SymbolIds(after)
      BY <3>2 DEF Change!SymbolIds
    <3>4. r.to \in Change!SymbolIds(before)
      BY <1>2, <2>2 DEF Change!Binds
    <3>5. origin[Change!IdOf(s)] = Change!IdOf(s)
      BY <1>3, <3>3, <3>4 DEF IsHistory
    <3>6. PICK u \in after.symbols : q.to = Change!IdOf(u)
      BY <3>1 DEF Change!SymbolIds
    <3>7. u = s
      BY <1>3, <3>1, <3>2, <3>5, <3>6 DEF IsHistory
    <3> QED
      BY <1>3, <3>1, <3>6, <3>7 DEF Change!Binds
  <2> QED
    BY <2>1, <2>2
<1>6. Change!Edge(q.kind, q) \in h.edges /\ Change!Edge(q.kind, q).to = q.to
  BY <1>5, GraphParts, EdgeParts
<1> QED
  BY <1>3, <1>5, <1>6 DEF Change!Inbound

(* Some that are removed, R1, and their heirs, N1, go together by M, and no *)
(* other does; the others have the names of their heirs, and K pairs by M   *)
(* or by the name, and leaves out no pair of a name with two free ends.     *)
AreTwoPasses(K, M, removed, added, heir, R1, N1) ==
  /\ \A s, u \in removed, t, v \in added :
       <<s, t>> \in M /\ <<u, t>> \in M /\ <<u, v>> \in M => <<s, v>> \in M
  /\ R1 \subseteq removed
  /\ N1 = {heir[s] : s \in R1}
  /\ M \subseteq R1 \X N1
  /\ \A s \in R1 : <<s, heir[s]>> \in M
  /\ \A s \in removed \ R1 : SameName(s, heir[s])
  /\ \A s \in removed, t \in added :
       SameName(s, t) /\ <<s, t>> \notin K => \E q \in K : q[1] = s \/ q[2] = t
  /\ \A q \in K : q \notin M => SameName(q[1], q[2])

(* Then nothing is left out: the former are paired among themselves, and so *)
(* are the latter, since whoever is free is one of them.                    *)
LEMMA LeftOverIsPaired ==
  ASSUME NEW removed, IsFiniteSet(removed), NEW added, NEW heir, IsHeritage(heir, removed, added),
         NEW M, NEW K, IsPairing(K, M, removed, added),
         NEW R1, NEW N1, AreTwoPasses(K, M, removed, added, heir, R1, N1)
  PROVE  /\ \A s \in removed : \E t \in added : <<s, t>> \in K
         /\ \A t \in added : \E s \in removed : <<s, t>> \in K
<1> DEFINE K1 == K \intersect M
           heir1 == [s \in R1 |-> heir[s]]
           R2 == removed \ R1
           N2 == added \ N1
           heir2 == [s \in R2 |-> heir[s]]
           M2 == {p \in R2 \X N2 : SameName(p[1], p[2])}
           K2 == K \intersect (R2 \X N2)
<1>1. /\ \A s, u \in removed, t, v \in added :
           <<s, t>> \in M /\ <<u, t>> \in M /\ <<u, v>> \in M => <<s, v>> \in M
      /\ R1 \subseteq removed
      /\ N1 = {heir[s] : s \in R1}
      /\ M \subseteq R1 \X N1
      /\ \A s \in R1 : <<s, heir[s]>> \in M
      /\ \A s \in removed \ R1 : SameName(s, heir[s])
      /\ \A s \in removed, t \in added :
           SameName(s, t) /\ <<s, t>> \notin K => \E q \in K : q[1] = s \/ q[2] = t
      /\ \A q \in K : q \notin M => SameName(q[1], q[2])
  BY DEF AreTwoPasses
<1>2. /\ \A s \in removed : heir[s] \in added
      /\ \A s, u \in removed : heir[s] = heir[u] => s = u
      /\ \A t \in added : \E s \in removed : heir[s] = t
  BY DEF IsHeritage
<1>3. N1 \subseteq added /\ IsFiniteSet(R1) /\ IsFiniteSet(R2)
  BY <1>1, <1>2, FS_Subset
<1>4. IsHeritage(heir1, R1, N1)
  BY <1>1, <1>2 DEF IsHeritage
<1>5. IsBlocks(M, R1, N1, heir1)
  BY <1>1, <1>3 DEF IsBlocks
<1>6. IsPairing(K1, M, R1, N1)
  BY <1>1 DEF IsPairing
<1> HIDE DEF K1, heir1
<1>7. /\ \A s \in R1 : \E t \in N1 : <<s, t>> \in K1
      /\ \A t \in N1 : \E s \in R1 : <<s, t>> \in K1
  BY <1>3, <1>4, <1>5, <1>6, PairingIsTotal, PairingIsOnto
<1>8. \A p, q \in K : p[1] = q[1] <=> p[2] = q[2]
  BY DEF IsPairing
<1>9. \A q \in K : q = <<q[1], q[2]>> /\ q[1] \in removed /\ q[2] \in added
  BY DEF IsPairing
<1>10. ASSUME NEW q \in K PROVE q[1] \in R1 <=> q[2] \in N1
  <2>1. ASSUME q[1] \in R1 PROVE q[2] \in N1
    <3>1. PICK t \in N1 : <<q[1], t>> \in K1
      BY <1>7, <2>1
    <3> DEFINE p == <<q[1], t>>
    <3>2. p \in K /\ p[1] = q[1] /\ p[2] = t
      BY <3>1 DEF K1
    <3> HIDE DEF p
    <3> QED
      BY <1>8, <3>1, <3>2
  <2>2. ASSUME q[2] \in N1 PROVE q[1] \in R1
    <3>1. PICK s \in R1 : <<s, q[2]>> \in K1
      BY <1>7, <2>2
    <3> DEFINE p == <<s, q[2]>>
    <3>2. p \in K /\ p[2] = q[2] /\ p[1] = s
      BY <3>1 DEF K1
    <3> HIDE DEF p
    <3> QED
      BY <1>8, <3>1, <3>2
  <2> QED
    BY <2>1, <2>2
<1>11. \A s \in R2 : heir[s] \in N2
  BY <1>1, <1>2
<1>12. IsHeritage(heir2, R2, N2)
  <2>1. \A t \in N2 : \E s \in R2 : heir[s] = t
    BY <1>1, <1>2
  <2>2. heir2 \in [R2 -> N2] /\ \A s \in R2 : heir2[s] = heir[s]
    BY <1>11
  <2> HIDE DEF heir2, N2
  <2> QED
    BY <1>2, <2>1, <2>2 DEF IsHeritage
<1>13. IsBlocks(M2, R2, N2, heir2)
  <2>1. \A s \in R2 : <<s, heir2[s]>> \in M2
    BY <1>1, <1>11
  <2>2. ASSUME NEW s \in R2, NEW u \in R2, NEW t \in N2, NEW v \in N2,
               <<s, t>> \in M2, <<u, t>> \in M2, <<u, v>> \in M2
        PROVE  <<s, v>> \in M2
    <3>1. SameName(s, t) /\ SameName(u, t) /\ SameName(u, v)
      BY <2>2
    <3>2. SameName(s, v)
      BY <3>1 DEF SameName
    <3> QED
      BY <3>2
  <2>3. M2 \in SUBSET (R2 \X N2)
    OBVIOUS
  <2> HIDE DEF M2, R2, N2, heir2
  <2> QED
    BY <2>1, <2>2, <2>3 DEF IsBlocks
<1>14. IsPairing(K2, M2, R2, N2)
  <2>1. \A p, q \in K2 : p[1] = q[1] <=> p[2] = q[2]
    BY <1>8
  <2>2. ASSUME NEW p \in M2 \ K2 PROVE \E q \in M2 \intersect K2 : p[1] = q[1] \/ p[2] = q[2]
    <3> DEFINE s == p[1]
               t == p[2]
    <3>1. p = <<s, t>> /\ s \in R2 /\ t \in N2 /\ SameName(s, t)
      OBVIOUS
    <3>2. <<s, t>> \notin K
      BY <3>1
    <3>3. PICK q \in K : q[1] = s \/ q[2] = t
      BY <1>1, <3>1, <3>2
    <3>4. q[1] \in R2 /\ q[2] \in N2
      BY <1>9, <1>10, <3>1, <3>3
    <3>5. q \notin M
      <4>1. q \notin R1 \X N1
        BY <3>4
      <4> QED
        BY <1>1, <4>1
    <3>6. q \in M2 /\ q \in K2
      <4>1. SameName(q[1], q[2]) /\ q = <<q[1], q[2]>>
        BY <1>1, <1>9, <3>5
      <4> HIDE DEF R2, N2
      <4> QED
        BY <3>4, <4>1
    <3> QED
      BY <3>3, <3>6
  <2>3. K2 \in SUBSET (R2 \X N2)
    OBVIOUS
  <2> HIDE DEF K2, M2, R2, N2
  <2> QED
    BY <2>1, <2>2, <2>3 DEF IsPairing
<1> HIDE DEF K2, M2, R2, N2, heir2
<1>15. /\ \A s \in R2 : \E t \in N2 : <<s, t>> \in K2
       /\ \A t \in N2 : \E s \in R2 : <<s, t>> \in K2
  BY <1>3, <1>12, <1>13, <1>14, PairingIsTotal, PairingIsOnto
<1>16. ASSUME NEW s \in removed PROVE \E t \in added : <<s, t>> \in K
  <2>1. CASE s \in R1
    BY <1>3, <1>7, <2>1 DEF K1
  <2>2. CASE s \notin R1
    BY <1>15, <2>2 DEF K2, R2, N2
  <2> QED
    BY <2>1, <2>2
<1>17. ASSUME NEW t \in added PROVE \E s \in removed : <<s, t>> \in K
  <2>1. CASE t \in N1
    BY <1>1, <1>7, <2>1 DEF K1
  <2>2. CASE t \notin N1
    BY <1>15, <2>2 DEF K2, R2, N2
  <2> QED
    BY <2>1, <2>2
<1> QED
  BY <1>16, <1>17

(* Renames and moves, however many and in whatever order, are told as that  *)
(* and as nothing worse (delta.rs, continuation_between and pair_up;        *)
(* findings.rs, derive; audit.rs, contract_erosion).                        *)
THEOREM NothingIsLost == QuestionsSpec => []RefactoringLosesNothing
<1>1. HistoryInv => RefactoringLosesNothing
  <2> SUFFICES ASSUME HistoryInv, judged # NONE, Change!IsRefactoring
               PROVE  /\ judged.delta.removed = {} /\ judged.delta.added = {}
                      /\ {f.kind : f \in judged.diff.findings} \subseteq {"signature changed"}
                      /\ Change!ContractErosion(judged.before, judged.after, judged.delta) = {}
    BY DEF RefactoringLosesNothing, Change!RefactoringLosesNothing
  <2> DEFINE g == Change!GraphOf(before)
             h == Change!GraphOf(after)
             removed == Change!Gone(g, h)
             added == Change!Gone(h, g)
             taken == Change!PairUp(Candidates(removed, added))
             K == {<<c.before, c.after>> : c \in taken}
             M == {p \in removed \X added : Respelled(p[1], p[2])}
             d == judged.delta
  <2>1. Change!IsSource(before) /\ Change!IsSource(after) /\ before # NONE
    BY BaselinesAssumption DEF HistoryInv, ComparisonInv, Sources, Compared
  <2>2. IsHistory(before, after, origin)
    BY <2>1 DEF HistoryInv, Change!IsRefactoring
  <2>3. \A id \in DOMAIN origin : id = origin[id] \/ id \notin Change!SymbolIds(before)
    BY DEF Change!IsRefactoring
  <2>4. /\ removed \subseteq before.symbols
        /\ added \subseteq after.symbols
    BY <2>1, <2>2, <2>3, GoneHaveHeirs
  <2>5. PICK heir : /\ IsHeritage(heir, removed, added)
                    /\ \A s \in removed : /\ Remains(s, heir[s])
                                          /\ origin[Change!IdOf(heir[s])] = Change!IdOf(s)
    BY <2>1, <2>2, <2>3, GoneHaveHeirs
  <2>6. Change!Orphans(g, h) = {}
    BY <2>1, <2>2, <2>3, NoneIsOrphaned
  <2>7. /\ Distinct(g.symbols) /\ IsFiniteSet(g.symbols)
        /\ Distinct(h.symbols) /\ IsFiniteSet(h.symbols)
    BY <2>1, BuiltSymbols
  <2>8. /\ judged.before = g /\ judged.after = h
        /\ d = Change!Compute(g, h) /\ judged.diff = Change!Derive(g, h, d)
    <3>1. judged = Change!Judgement(g, h)
      BY DEF HistoryInv, ComparisonInv, Compared
    <3> HIDE DEF g, h
    <3> QED
      BY <3>1 DEF Change!Judgement
  <2> HIDE DEF g, h
  <2>9. /\ d.continuities = taken
        /\ d.added = added \ {c.after : c \in taken}
        /\ d.removed = removed \ {c.before : c \in taken}
    BY <2>8 DEF Change!Compute, Candidates
  <2>10. /\ IsFiniteSet(removed) /\ Distinct(removed)
         /\ IsFiniteSet(added) /\ Distinct(added)
    BY <2>7, GoneOrKept
  <2>11. \A s \in removed, t \in added : Change!IdOf(s) # Change!IdOf(t)
    BY DEF Change!Gone, Change!SymbolIds
  <2> HIDE DEF removed, added, taken, d
  <2>12. /\ removed \subseteq Change!Declarations /\ added \subseteq Change!Declarations
         /\ \A s \in removed : /\ s.signature # << >>
                               /\ \A w \in Change!Range(s.signature) : <<s.name, w>> \notin Occurs
                               /\ \A t \in added :
                                    t.name \in Change!Range(s.signature) \ {s.name} =>
                                      ~Change!ReadsLike(t, s)
    <3>1. removed \subseteq Change!Declarations /\ added \subseteq Change!Declarations
      BY <2>1, <2>4 DEF Change!IsSource
    <3> QED
      BY <2>4, <3>1 DEF Change!IsRefactoring
  <2>13. IsPairing(K, M, removed, added)
    BY <2>10, <2>11, <2>12, TakenIsPairing DEF taken
  <2>14. /\ \A s \in removed, t \in added :
              SameName(s, t) /\ <<s, t>> \notin K => \E q \in K : q[1] = s \/ q[2] = t
         /\ \A q \in K : ~Respelled(q[1], q[2]) => SameName(q[1], q[2])
    BY <2>10, <2>11, <2>12, TakenKeepsNames DEF taken
  <2> DEFINE R1 == {s \in removed : Respelled(s, heir[s])}
             N1 == {heir[s] : s \in R1}
  <2>15. \A s \in removed : heir[s] \in added
    BY <2>5 DEF IsHeritage
  <2>16. ASSUME NEW s \in removed, s \notin R1
         PROVE  /\ SameName(s, heir[s])
                /\ \A u \in added : ~Respelled(s, u)
                /\ \A u \in removed : ~Respelled(u, heir[s])
    <3>1. s \in before.symbols /\ heir[s] \in after.symbols /\ Change!IdOf(heir[s]) # Change!IdOf(s)
      BY <2>4, <2>11, <2>15
    <3>2. \/ Respelled(s, heir[s])
          \/ /\ SameName(s, heir[s])
             /\ \A u \in after.symbols : ~Respelled(s, u)
             /\ \A u \in before.symbols : ~Respelled(u, heir[s])
      BY <2>1, <2>5, <3>1, LikenessKept
    <3> QED
      BY <2>4, <2>16, <3>2
  <2>17. M \subseteq R1 \X N1
    <3> SUFFICES ASSUME NEW p \in M PROVE p \in R1 \X N1
      OBVIOUS
    <3>1. p = <<p[1], p[2]>> /\ p[1] \in removed /\ p[2] \in added /\ Respelled(p[1], p[2])
      OBVIOUS
    <3>2. p[1] \in R1
      BY <2>16, <3>1
    <3>3. PICK w \in removed : heir[w] = p[2]
      BY <2>5, <3>1 DEF IsHeritage
    <3>4. w \in R1
      BY <2>16, <3>1, <3>3
    <3>5. p[2] \in N1
      BY <3>3, <3>4
    <3> HIDE DEF R1, N1
    <3> QED
      BY <3>1, <3>2, <3>5
  <2>18. /\ \A s \in removed : \E t \in added : <<s, t>> \in K
         /\ \A t \in added : \E s \in removed : <<s, t>> \in K
    <3>1. \A s \in R1 : <<s, heir[s]>> \in M
      BY <2>15
    <3>2. ASSUME NEW s \in removed, NEW u \in removed, NEW t \in added, NEW v \in added,
                 <<s, t>> \in M, <<u, t>> \in M, <<u, v>> \in M
          PROVE  <<s, v>> \in M
      <4>1. Respelled(s, t) /\ Respelled(u, t) /\ Respelled(u, v)
        BY <3>2
      <4>2. Respelled(s, v)
        BY <4>1, RespelledAlike
      <4> QED
        BY <4>2
    <3>3. \A q \in K : q \notin M => SameName(q[1], q[2])
      <4>1. \A q \in K : q \in removed \X added
        BY <2>13 DEF IsPairing
      <4> HIDE DEF K
      <4> QED
        BY <2>14, <4>1
    <3>4. R1 \in SUBSET removed /\ N1 = {heir[s] : s \in R1}
      OBVIOUS
    <3>5. \A s \in removed \ R1 : SameName(s, heir[s])
      BY <2>16
    <3>6. \A s, u \in removed, t, v \in added :
            <<s, t>> \in M /\ <<u, t>> \in M /\ <<u, v>> \in M => <<s, v>> \in M
      <4> HIDE DEF M
      <4> QED
        BY <3>2
    <3>7. \A s \in removed, t \in added :
            SameName(s, t) /\ <<s, t>> \notin K => \E q \in K : q[1] = s \/ q[2] = t
      BY <2>14
    <3> HIDE DEF K, M, R1, N1
    <3>8. AreTwoPasses(K, M, removed, added, heir, R1, N1)
      BY <2>17, <3>1, <3>3, <3>4, <3>5, <3>6, <3>7 DEF AreTwoPasses
    <3> QED
      BY <2>5, <2>10, <2>13, <3>8, LeftOverIsPaired
  <2>19. d.removed = {}
    <3>1. ASSUME NEW s \in removed PROVE s \in {c.before : c \in taken}
      <4>1. PICK t \in added : <<s, t>> \in K
        BY <2>18
      <4>2. PICK c \in taken : <<s, t>> = <<c.before, c.after>>
        BY <4>1
      <4> QED
        BY <4>2
    <3> QED
      BY <2>9, <3>1
  <2>20. d.added = {}
    <3>1. ASSUME NEW t \in added PROVE t \in {c.after : c \in taken}
      <4>1. PICK s \in removed : <<s, t>> \in K
        BY <2>18
      <4>2. PICK c \in taken : <<s, t>> = <<c.before, c.after>>
        BY <4>1
      <4> QED
        BY <4>2
    <3> QED
      BY <2>9, <3>1
  <2>21. ASSUME NEW f \in judged.diff.findings PROVE f.kind = "signature changed"
    <3>1. f \in Change!Derive(g, h, d).findings
      BY <2>8
    <3>2. PICK c \in d.resigned :
            f = Change!Finding("signature changed", c.after, Change!Inbound(h, Change!IdOf(c.after)))
      BY <2>6, <2>19, <3>1 DEF Change!Derive
    <3> QED
      BY <3>2 DEF Change!Finding
  <2>22. Change!ContractErosion(g, h, d) = {}
    BY <2>19 DEF Change!ContractErosion
  <2> QED
    BY <2>8, <2>19, <2>20, <2>21, <2>22 DEF d
<1> QED
  BY <1>1, HistoryInvariant, PTL
=============================================================================
