----------------------------- MODULE Comparison -----------------------------
(***************************************************************************)
(* A repository that is edited, and the comparison of what it is with what  *)
(* it was: `graphyn diff`, `check --base --head`, `audit` and `tests --diff`*)
(* (cli commands, mcp graph_diff.rs and check_rules.rs). What the           *)
(* programmers did is remembered, so that what is said of the change can be *)
(* measured by it; the comparison itself sees the two graphs alone.         *)
(***************************************************************************)
EXTENDS RuleEval, Audit

CONSTANTS
  Baselines,  \* sources to start from: symbols and references
  Spare,      \* symbols that may be added
  Words,      \* words a programmer changes in a signature
  Lines,      \* lines a reference may be put on
  MaxEdits    \* model bound: edits between the two graphs

VARIABLES
  before, after,  \* the sources
  origin,         \* for each symbol of `after`, the id it had in `before`
  deeds,          \* kinds of edits made
  edits,          \* their number
  judged          \* the comparison, NONE while editing

comparison == <<before, after, origin, deeds, edits, judged>>

Added == "added"

(* Every symbol is the target of the references that name its id; what they *)
(* name may be gone, and then there is no edge. A structural adapter looks  *)
(* no further than the file.                                                *)
Resolution(r) == IF r.from[1] \in StructuralFiles THEN Structural ELSE Resolved

Package(id) ==
  [file |-> 0, name |-> id[2], kind |-> "package", signature |-> << >>, line |-> 0, end |-> 0]

Edge(kind, r) ==
  [from |-> r.from, to |-> r.to, kind |-> kind, file |-> r.from[1], line |-> r.line,
   resolution |-> Resolution(r)]

(* What parsing can leave: declarations of different ids, and references    *)
(* from them to such ids or to packages, of which one line has one of a     *)
(* kind. FilesApart is what Refer sees to.                                  *)
Declarations ==
  [file : Files, name : Names, kind : {"class", "function", "module", "property"},
   signature : Seq(Nat), line : Nat, end : Nat]

DeclaredIds == Files \X Names \X {"class", "function", "module", "property"}
Packages == {0} \X Nat \X {"package"}
Reference ==
  [from : DeclaredIds, to : DeclaredIds \union Packages, kind : {"Calls", "Imports"}, line : Nat]

IsSource(source) ==
  /\ source \in [symbols : SUBSET Declarations, refs : SUBSET Reference]
  /\ IsFiniteSet(source.symbols) /\ IsFiniteSet(source.refs)
  /\ \A s, t \in source.symbols : IdOf(s) = IdOf(t) => s = t
  /\ \A r \in source.refs : r.from \in SymbolIds(source)

FilesApart(source) ==
  \A r \in source.refs : {r.from[1], r.to[1]} \intersect StructuralFiles # {} => r.from[1] = r.to[1]

Binds(source, r) == r.to \in SymbolIds(source) \/ IsExternalPackage(r.to)

(* build_graph, as far as a comparison sees it, with add_test_edges: one    *)
(* for all references of a test to a symbol, on the line of the first.      *)
GraphOf(source) ==
  LET bound == {r \in source.refs : Binds(source, r)}
      exercises == {r \in bound : /\ r.from[1] \in TestFiles
                                  /\ r.to[1] \notin TestFiles \union {0}
                                  /\ \A q \in bound : q.from = r.from /\ q.to = r.to => r.line <= q.line}
  IN  [symbols |-> source.symbols \union {Package(r.to) : r \in {r \in bound : IsExternalPackage(r.to)}},
       edges |-> {Edge(r.kind, r) : r \in bound} \union {Edge("Tests", r) : r \in exercises}]

-----------------------------------------------------------------------------
Idle == /\ before = NONE /\ after = NONE /\ judged = NONE
        /\ origin = << >> /\ deeds = {} /\ edits = 0

Baseline ==
  /\ before \in Baselines
  /\ after = before
  /\ origin = [id \in SymbolIds(before) |-> id]
  /\ deeds = {}
  /\ edits = 0
  /\ judged = NONE

Becomes(source, from, deed) ==
  /\ judged = NONE
  /\ edits < MaxEdits
  /\ after' = source
  /\ origin' = from
  /\ deeds' = deeds \union {deed}
  /\ edits' = edits + 1
  /\ UNCHANGED <<before, judged>>

(* A class goes with the fields below it.                                   *)
With(s) ==
  {s} \union (IF s.kind = "class"
                THEN {f \in after.symbols : f.kind = "property" /\
                        OwnersOf({c \in after.symbols : c.file = f.file /\ CanOwnFields(c)}, f) = {s}}
                ELSE {})

Without(map, ids) == [id \in DOMAIN map \ ids |-> map[id]]

(* References from what is deleted go with it; those to it stay behind, or  *)
(* are deleted too.                                                         *)
Delete(s, tidily) ==
  LET gone == {IdOf(d) : d \in With(s)}
      stays(r) == r.from \notin gone /\ (tidily => r.to \notin gone)
  IN  Becomes([symbols |-> after.symbols \ With(s), refs |-> {r \in after.refs : stays(r)}],
              Without(origin, gone), "delete")

(* A signature with one word in the place of another.                       *)
Respell(signature, old, new) ==
  [i \in DOMAIN signature |-> IF signature[i] = old THEN new ELSE signature[i]]

(* A symbol becomes another one. References to it are changed, and so are   *)
(* the signatures that mention it.                                          *)
Replace(s, t, mentions, deed) ==
  LET as(id) == IF id = IdOf(s) THEN IdOf(t) ELSE id
      respelled(u) == IF u \in mentions THEN [u EXCEPT !.signature = Respell(@, s.name, t.name)] ELSE u
      ids == (SymbolIds(after) \ {IdOf(s)}) \union {IdOf(t)}
  IN  Becomes([symbols |-> {respelled(u) : u \in after.symbols \ {s}} \union {t},
               refs |-> {[r EXCEPT !.from = as(@), !.to = as(@)] : r \in after.refs}],
              [id \in ids |-> IF id = IdOf(t) THEN origin[IdOf(s)] ELSE origin[id]], deed)

Renamed(s, name) == [s EXCEPT !.name = name, !.signature = Respell(@, s.name, name)]

(* Who has a symbol's name for a word of the signature may mean it or       *)
(* another of that name.                                                    *)
MayMention(s) == {u \in after.symbols : u.name # s.name /\ s.name \in Range(u.signature)}

Rename(s, name, mentions) ==
  /\ IdOf(Renamed(s, name)) \notin SymbolIds(after)
  /\ Replace(s, Renamed(s, name), mentions, "rename")

Move(s, file) ==
  LET t == [s EXCEPT !.file = file]
  IN  /\ LanguageOf[file] = LanguageOf[s.file]
      /\ IdOf(t) \notin SymbolIds(after)
      /\ Replace(s, t, {}, "move")

Reword(s, word) ==
  /\ s.signature # << >>
  /\ Replace(s, [s EXCEPT !.signature = Append(Front(@), word)], {}, "reword")

Add(s) ==
  /\ IdOf(s) \notin SymbolIds(after)
  /\ Becomes([after EXCEPT !.symbols = @ \union {s}], (IdOf(s) :> Added) @@ origin, "add")

(* A symbol's body is not in its signature, which is its first line.        *)
Drop(r) == Becomes([after EXCEPT !.refs = @ \ {r}], origin, "drop")

Refer(from, to, line) ==
  /\ {from[1], to[1]} \intersect StructuralFiles # {} => from[1] = to[1]
  /\ Becomes([after EXCEPT !.refs = @ \union {[from |-> from, to |-> to, kind |-> "Calls", line |-> line]}],
             origin, "refer")

(* A reference comes to be on another line by what is written above it.     *)
Shift(r, line) ==
  /\ [r EXCEPT !.line = line] \notin after.refs
  /\ Becomes([after EXCEPT !.refs = (@ \ {r}) \union {[r EXCEPT !.line = line]}], origin, "shift")

Edit ==
  \/ \E s \in after.symbols :
       \/ \E tidily \in BOOLEAN : Delete(s, tidily)
       \/ \E name \in Names, mentions \in SUBSET MayMention(s) : Rename(s, name, mentions)
       \/ \E file \in Files : Move(s, file)
       \/ \E word \in Words : Reword(s, word)
  \/ \E s \in Spare : Add(s)
  \/ \E r \in after.refs : Drop(r) \/ \E line \in Lines : Shift(r, line)
  \/ \E s, t \in after.symbols, line \in Lines : s # t /\ Refer(IdOf(s), IdOf(t), line)

(* delta::compute and what reads it.                                        *)
Judgement(g, h) ==
  LET delta == Compute(g, h)
  IN  [before |-> g, after |-> h, delta |-> delta, diff |-> Derive(g, h, delta),
       raw |-> Raw(g, h, delta)]

Compare ==
  /\ judged = NONE
  /\ judged' = Judgement(GraphOf(before), GraphOf(after))
  /\ UNCHANGED <<before, after, origin, deeds, edits>>

(* The answer is printed and forgotten.                                     *)
Forget ==
  /\ judged # NONE
  /\ judged' = NONE
  /\ UNCHANGED <<before, after, origin, deeds, edits>>

CompareStep == before # NONE /\ (Edit \/ Compare \/ Forget)

-----------------------------------------------------------------------------
(* Whatever pairs are to be had and in whatever order they compete, each    *)
(* symbol of either graph is accounted for once, and no removal and         *)
(* addition is left that could have been told as one change.                *)
EverySymbolIsAccountedFor ==
  judged # NONE =>
    LET g == judged.before
        h == judged.after
        d == judged.delta
        once(S, ids, kept) == /\ {IdOf(s) : s \in S} \union kept = ids
                              /\ Cardinality(S) + Cardinality(kept) = Cardinality(ids)
        kept == SymbolIds(g) \intersect SymbolIds(h)
    IN  /\ once(d.removed \union {c.before : c \in d.continuities}, SymbolIds(g), kept)
        /\ once(d.added \union {c.after : c \in d.continuities}, SymbolIds(h), kept)
        /\ Cardinality({c.before : c \in d.continuities}) = Cardinality(d.continuities)
        /\ Cardinality({c.after : c \in d.continuities}) = Cardinality(d.continuities)
        /\ \A s \in d.removed, t \in d.added : ContinuationBetween(s, t) = NoContinuation

(* Renaming and moving symbols, with the references to them and what        *)
(* mentions them, is reported as that: nothing is removed, added, broken or *)
(* orphaned. It is provided that no symbol takes the id of another, no name *)
(* is a part of another word of its symbol's signature, and no symbol reads *)
(* like one that was renamed to what is a word of its signature already;    *)
(* and that a symbol whose signature also mentions another that is renamed  *)
(* keeps its name, and if it moves has nothing else that reads like it. Of  *)
(* a class and a function over it that are both renamed the function is     *)
(* removed and another one added.                                           *)
ReadsLike(t, s) == t.signature = Renamed(s, t.name).signature

KeepsItsLikeness(s, t) ==
  \/ IdOf(t) = IdOf(s)
  \/ ReadsLike(t, s)
  \/ /\ t.name = s.name
     /\ \A u \in after.symbols : ~ReadsLike(u, s)
     /\ \A u \in before.symbols : ~ReadsLike(t, u)

IsRefactoring ==
  /\ deeds \subseteq {"rename", "move", "shift"}
  /\ \A id \in DOMAIN origin : id = origin[id] \/ id \notin SymbolIds(before)
  /\ \A s \in before.symbols : /\ s.signature # << >>
                               /\ \A w \in Range(s.signature) : <<s.name, w>> \notin Occurs
                               /\ \A t \in after.symbols :
                                    t.name \in Range(s.signature) \ {s.name} => ~ReadsLike(t, s)
  /\ \A t \in after.symbols : KeepsItsLikeness(SymbolAt(before, origin[IdOf(t)]), t)

RefactoringLosesNothing ==
  judged # NONE /\ IsRefactoring =>
    /\ judged.delta.removed = {} /\ judged.delta.added = {}
    /\ {f.kind : f \in judged.diff.findings} \subseteq {"signature changed"}
    /\ ContractErosion(judged.before, judged.after, judged.delta) = {}

(* A reference that a change left stale is reported, with its target and on *)
(* the line it was, by a finding a gate may act on and in the blast radius: *)
(* where import resolution had bound it, nothing declared in its file was   *)
(* edited and its target is not taken to live on under another id.          *)
StaleReferenceIsReported ==
  judged # NONE =>
    \A r \in before.refs, q \in after.refs :
      /\ q.from = r.from /\ q.to = r.to /\ q.kind = r.kind
      /\ Binds(before, r) /\ ~Binds(after, q)
      /\ Resolution(r) = Resolved
      /\ r.from[1] \notin EditedFiles(judged.delta)
      /\ r.to \notin {IdOf(c.before) : c \in judged.delta.continuities}
      => /\ \E f \in GateSafe(judged.diff.findings) :
              f.kind = "broken edge" /\ IdOf(f.symbol) = r.to /\ Edge(r.kind, r) \in f.referrers
         /\ r.from \in judged.diff.blastRadius

(* The graphs that may be the true one, where an edge that is not resolved  *)
(* may lead anywhere, or is where it is recorded or nowhere.                *)
Weak(g) == {e \in g.edges : e.resolution # Resolved}
Elsewhere(g) ==
  {[g EXCEPT !.edges = (@ \ Weak(g)) \union {[e EXCEPT !.to = at[e], !.resolution = Resolved] : e \in Weak(g)}] :
     at \in [Weak(g) -> SymbolIds(g)]}
Doubted(g) ==
  {[g EXCEPT !.edges = (@ \ Weak(g)) \union {[e EXCEPT !.resolution = Resolved] : e \in real}] :
     real \in SUBSET Weak(g)}

Breaks(g, rule) ==
  IF rule.kind = "max-fan-in"
    THEN \E id \in SymbolIds(g) : ~IsExternalPackage(id) /\ Cardinality(Inbound(g, id)) > rule.threshold
    ELSE \E e \in g.edges : /\ rule.kind = "forbid-dependency" => IsDependency(e)
                            /\ e.from[1] \in rule.from
                            /\ e.to[1] \in rule.to

(* `graphyn check` says that a rule is broken, and of a scope rule that it  *)
(* is satisfied, only if it is wherever the edges lead that could not be    *)
(* resolved. That max-fan-in is satisfied is certain of less: of the edges  *)
(* that are not resolved it takes into account those that are recorded as   *)
(* leading to a symbol, and not that others may lead there, too.            *)
VerdictIsCertain ==
  judged # NONE =>
    \A rule \in ScopeRules \union FanInRules, severity \in Severities :
      LET g == judged.after
          line == ClosingLine({[verdict |-> Verdict(rule, g, NONE), severity |-> severity]})
      IN  /\ line = "all satisfied" =>
               \A w \in IF rule.kind = "max-fan-in" THEN Doubted(g) ELSE Elsewhere(g) : ~Breaks(w, rule)
          /\ line \in {"failed", "advisory"} => \A w \in Elsewhere(g) : Breaks(w, rule)

(* An entry of the ignore file hides one finding and no other, and what no  *)
(* entry names is reported: no two findings of an audit share an id, though *)
(* an id does not tell which of its subjects the finding is about.          *)
AnEntryHidesOneFinding ==
  judged # NONE =>
    \A f \in judged.raw :
      LET report == Report(judged.raw, {f.id})
      IN  report.suppressed = {f} /\ report.findings = judged.raw \ {f}
=============================================================================
