---------------------------- MODULE AdaptersProofs ----------------------------
(***************************************************************************)
(* Proofs about Adapters: whatever is written in a repository of one of the *)
(* languages, what a relationship is resolved to is a symbol of a file that *)
(* was analysed or a package, and what is resolved to nothing is reported.  *)
(***************************************************************************)
EXTENDS Adapters, FiniteOrders, SequenceTheorems, TLAPS

-----------------------------------------------------------------------------
(* First and last. Of finitely many numbers one is the greatest, one least. *)
LEMMA GreatestOfFinite ==
  ASSUME NEW S, IsFiniteSet(S), S \subseteq Nat, S # {}
  PROVE  \E m \in S : \A k \in S : k <= m
<1> DEFINE R == {p \in S \X S : p[1] < p[2]}
<1>1. \A x, y \in S : <<x, y>> \in R <=> x < y
  OBVIOUS
<1> HIDE DEF R
<1>2. IsStrictOrder(S, R)
  BY <1>1 DEF IsStrictOrder
<1>3. PICK m \in S : \A k \in S : <<m, k>> \notin R
  BY <1>2, LastExists
<1>4. ASSUME NEW k \in S PROVE k <= m
  <2>1. ~(m < k)
    BY <1>1, <1>3
  <2>2. m \in Nat /\ k \in Nat
    OBVIOUS
  <2> QED
    BY <2>1, <2>2
<1> QED
  BY <1>4

(* And one the least.                                                       *)
LEMMA LeastOfFinite ==
  ASSUME NEW S, IsFiniteSet(S), S \subseteq Nat, S # {}
  PROVE  \E m \in S : \A k \in S : m <= k
<1> DEFINE R == {p \in S \X S : p[2] < p[1]}
<1>1. \A x, y \in S : <<x, y>> \in R <=> y < x
  OBVIOUS
<1> HIDE DEF R
<1>2. IsStrictOrder(S, R)
  BY <1>1 DEF IsStrictOrder
<1>3. PICK m \in S : \A k \in S : <<m, k>> \notin R
  BY <1>2, LastExists
<1>4. ASSUME NEW k \in S PROVE m <= k
  <2>1. ~(k < m)
    BY <1>1, <1>3
  <2>2. m \in Nat /\ k \in Nat
    OBVIOUS
  <2> QED
    BY <2>1, <2>2
<1> QED
  BY <1>4

(* The positions of a sequence are finitely many numbers.                   *)
LEMMA Positions ==
  ASSUME NEW n \in Nat, NEW S, S \subseteq 1 .. n
  PROVE  IsFiniteSet(S) /\ S \subseteq Nat
<1> DEFINE all == 1 .. n
<1>1. IsFiniteSet(all) /\ all \subseteq Nat /\ S \subseteq all
  BY FS_Interval
<1> HIDE DEF all
<1>2. IsFiniteSet(S)
  BY <1>1, FS_Subset
<1> QED
  BY <1>1, <1>2

(* Of some relationships that are said in n lines one is the latest.        *)
LEMMA LatestIsOne ==
  ASSUME NEW n \in Nat, NEW S, S # {}, \A r \in S : r.line \in 1 .. n
  PROVE  Latest(S) \in S /\ \A r \in S : r.line <= Latest(S).line
<1> DEFINE lines == {r.line : r \in S}
<1>1. lines \subseteq 1 .. n /\ lines # {}
  OBVIOUS
<1> HIDE DEF lines
<1>2. IsFiniteSet(lines) /\ lines \subseteq Nat
  BY <1>1, Positions
<1>3. PICK m \in lines : \A k \in lines : k <= m
  BY <1>1, <1>2, GreatestOfFinite
<1>4. PICK r \in S : r.line = m
  BY DEF lines
<1>5. \A q \in S : q.line <= r.line
  BY <1>3, <1>4 DEF lines
<1> QED
  BY <1>5 DEF Latest

(* The first place where each of several things is said is one of those     *)
(* where it is.                                                             *)
LEMMA FirstOfEachIsOne ==
  ASSUME NEW n \in Nat, NEW said, \A a \in said : a[1] \in 1 .. n, NEW b \in said
  PROVE  \E a \in FirstOfEach(said) : a[2] = b[2] /\ a[1] <= b[1]
<1> DEFINE same == {a \in said : a[2] = b[2]}
           lines == {a[1] : a \in same}
<1>1. lines \subseteq 1 .. n /\ b[1] \in lines
  OBVIOUS
<1> HIDE DEF lines
<1>2. IsFiniteSet(lines) /\ lines \subseteq Nat
  BY <1>1, Positions
<1>3. PICK m \in lines : \A k \in lines : m <= k
  BY <1>1, <1>2, LeastOfFinite
<1>4. PICK a \in same : a[1] = m
  BY DEF lines
<1>5. \A c \in said : a[2] = c[2] => a[1] <= c[1]
  BY <1>3, <1>4 DEF lines
<1>6. a \in FirstOfEach(said)
  BY <1>4, <1>5 DEF FirstOfEach
<1> QED
  BY <1>1, <1>3, <1>4, <1>6

-----------------------------------------------------------------------------
(* Going on until one stops. Where every step makes a rank smaller there is *)
(* a function that says of each place what one comes to from it.            *)
Follows(g, D, stop, value, next) ==
  g = [q \in D |-> IF q \in stop THEN value[q] ELSE g[next[q]]]

(* There is such a function wherever a rank becomes smaller.                *)
LEMMA EndsExist ==
  ASSUME NEW D, NEW n \in Nat, NEW rank \in [D -> 0 .. n], NEW stop, NEW value, NEW next,
         \A q \in D \ stop : next[q] \in D /\ rank[next[q]] < rank[q]
  PROVE  \E g : Follows(g, D, stop, value, next)
<1> DEFINE within(k) == {q \in D : rank[q] <= k}
           P == {k \in 0 .. n : \E g : Follows(g, within(k), stop, value, next)}
<1>1. 0 \in P
  <2> DEFINE g == [q \in within(0) |-> value[q]]
  <2>1. within(0) \subseteq stop
    OBVIOUS
  <2>2. DOMAIN g = within(0) /\ \A q \in within(0) : g[q] = IF q \in stop THEN value[q] ELSE g[next[q]]
    BY <2>1
  <2>3. g = [q \in within(0) |-> g[q]]
    OBVIOUS
  <2> HIDE DEF g, within
  <2>4. g = [q \in within(0) |-> IF q \in stop THEN value[q] ELSE g[next[q]]]
    BY <2>2, <2>3
  <2> QED
    BY <2>4 DEF Follows
<1>2. ASSUME NEW k \in 1 .. n, k - 1 \in P PROVE k \in P
  <2>1. PICK g : Follows(g, within(k - 1), stop, value, next)
    BY <1>2
  <2> DEFINE h == [q \in within(k) |-> IF q \in stop THEN value[q] ELSE g[next[q]]]
  <2>2. \A q \in within(k - 1) : q \in within(k) /\ g[q] = h[q]
    <3> DEFINE W == within(k - 1)
    <3>1. g = [q \in W |-> IF q \in stop THEN value[q] ELSE g[next[q]]]
      BY <2>1 DEF Follows
    <3>2. \A q \in W : g[q] = IF q \in stop THEN value[q] ELSE g[next[q]]
      <4> HIDE DEF W
      <4> QED
        BY <3>1
    <3>3. \A q \in W : q \in within(k)
      OBVIOUS
    <3> QED
      BY <3>2, <3>3
  <2>3. \A q \in within(k) : q \notin stop => next[q] \in within(k - 1)
    OBVIOUS
  <2>4. DOMAIN h = within(k) /\ \A q \in within(k) : h[q] = IF q \in stop THEN value[q] ELSE h[next[q]]
    BY <2>2, <2>3
  <2>5. h = [q \in within(k) |-> h[q]]
    OBVIOUS
  <2> HIDE DEF h, within
  <2>6. h = [q \in within(k) |-> IF q \in stop THEN value[q] ELSE h[next[q]]]
    BY <2>4, <2>5
  <2>7. k \in 0 .. n
    OBVIOUS
  <2> QED
    BY <2>6, <2>7 DEF Follows
<1> HIDE DEF P
<1>3. n \in P
  BY <1>1, <1>2, UpTo
<1>4. within(n) = D
  OBVIOUS
<1> QED
  BY <1>3, <1>4 DEF P

(* And what one comes to is where some place stops.                         *)
LEMMA EndsAreValues ==
  ASSUME NEW D, NEW n \in Nat, NEW rank \in [D -> 0 .. n], NEW stop, NEW value, NEW next,
         \A q \in D \ stop : next[q] \in D /\ rank[next[q]] < rank[q],
         NEW T, \A q \in D \intersect stop : value[q] \in T,
         NEW g, Follows(g, D, stop, value, next)
  PROVE  \A q \in D : g[q] \in T
<1> DEFINE P == {k \in 0 .. n : \A q \in D : rank[q] <= k => g[q] \in T}
<1>1. \A q \in D : g[q] = IF q \in stop THEN value[q] ELSE g[next[q]]
  BY DEF Follows
<1>2. 0 \in P
  BY <1>1
<1>3. ASSUME NEW k \in 1 .. n, k - 1 \in P PROVE k \in P
  <2>1. ASSUME NEW q \in D, rank[q] <= k PROVE g[q] \in T
    <3>1. CASE q \in stop
      BY <1>1, <3>1
    <3>2. CASE q \notin stop
      <4>1. next[q] \in D /\ rank[next[q]] <= k - 1
        BY <2>1, <3>2
      <4>2. g[next[q]] \in T
        BY <1>3, <4>1
      <4> QED
        BY <1>1, <3>2, <4>2
    <3> QED
      BY <3>1, <3>2
  <2> QED
    BY <2>1
<1> HIDE DEF P
<1>4. n \in P
  BY <1>2, <1>3, UpTo
<1> QED
  BY <1>4 DEF P

(* The parts of that statement by name, for where it is used among many     *)
(* other facts: steps that descend, stops with a value of T, ends in T.     *)
Ranked(D, n, rank, stop, next) ==
  /\ n \in Nat
  /\ rank \in [D -> 0 .. n]
  /\ \A q \in D \ stop : next[q] \in D /\ rank[next[q]] < rank[q]

LeadsInto(D, stop, value, T) == \A q \in D \intersect stop : value[q] \in T

EndsIn(D, g, T) == \A q \in D : g[q] \in T

(* Steps that descend to values of T end in T.                              *)
LEMMA RankedEndsAreValues ==
  ASSUME NEW D, NEW n, NEW rank, NEW stop, NEW value, NEW next, NEW T, NEW g,
         Ranked(D, n, rank, stop, next), LeadsInto(D, stop, value, T),
         Follows(g, D, stop, value, next)
  PROVE  EndsIn(D, g, T)
BY EndsAreValues DEF Ranked, LeadsInto, EndsIn

-----------------------------------------------------------------------------
(* The states of Adapters: what is written is a repository that has grown   *)
(* from one of its beginnings, and the index is what the last analysis made *)
(* of it.                                                                   *)
Grown(written, later) ==
  \A f \in DOMAIN written : \A i \in DOMAIN written[f] :
    i \in DOMAIN later[f] /\ later[f][i] = written[f][i]

AdaptersInv ==
  /\ language \in DOMAIN Beginnings
  /\ IsRepository(language, sources)
  /\ \E written \in Beginnings[language] : Grown(written, sources)
  /\ index = Analysis(language, sources)

(* A file to which a statement of its language is added keeps those it has. *)
LEMMA AppendKeeps ==
  ASSUME NEW T, NEW q \in Seq(T), NEW s \in T
  PROVE  /\ Append(q, s) \in Seq(T)
         /\ DOMAIN Append(q, s) = DOMAIN q \union {Len(q) + 1}
         /\ Append(q, s)[Len(q) + 1] = s
         /\ \A i \in DOMAIN q : Append(q, s)[i] = q[i]
  OBVIOUS

(* Adding one more statement, its class declared where it is a base, makes  *)
(* of a repository a repository.                                            *)
LEMMA WritingKeepsRepository ==
  ASSUME AdaptersInv, NEW w \in Writable[language],
         sources' = [sources EXCEPT ![w[1]] = Append(@, w[2])], language' = language
  PROVE  IsRepository(language, sources') /\ \E written \in Beginnings[language] : Grown(written, sources')
<1> DEFINE T == StatementsOf(language)
           F == FilesOf(language)
           f == w[1]
<1>1. /\ sources \in [F -> Seq(T)]
      /\ \A g \in F : \A i \in DOMAIN sources[g] : MayInherit(sources[g][i], sources[g])
  BY DEF AdaptersInv, IsRepository
<1>2. PICK written \in Beginnings[language] : Grown(written, sources)
  BY DEF AdaptersInv
<1>3. /\ f \in F /\ w[2] \in T /\ MayInherit(w[2], written[f])
      /\ written \in [F -> Seq(T)]
  BY WritingAssumption DEF AdaptersInv, IsRepository
<1> HIDE DEF T, F
<1>4. /\ sources'[f] = Append(sources[f], w[2])
      /\ \A g \in F : g # f => sources'[g] = sources[g]
      /\ DOMAIN sources' = F
  BY <1>1, <1>3
<1>5. /\ sources'[f] \in Seq(T)
      /\ DOMAIN sources'[f] = DOMAIN sources[f] \union {Len(sources[f]) + 1}
      /\ sources'[f][Len(sources[f]) + 1] = w[2]
      /\ \A i \in DOMAIN sources[f] : sources'[f][i] = sources[f][i]
  <2>1. sources[f] \in Seq(T)
    BY <1>1, <1>3
  <2> QED
    BY <1>3, <1>4, <2>1, AppendKeeps
<1>6. sources' \in [F -> Seq(T)]
  <2>1. \A g \in F : sources'[g] \in Seq(T)
    BY <1>1, <1>4, <1>5
  <2>2. sources' = [g \in F |-> sources'[g]]
    BY <1>1
  <2> QED
    BY <2>1, <2>2
<1>7. MayInherit(w[2], sources'[f])
  <2>1. \A i \in DOMAIN written[f] : i \in DOMAIN sources[f] /\ sources[f][i] = written[f][i]
    BY <1>2, <1>3 DEF Grown
  <2> QED
    BY <1>3, <1>5, <2>1 DEF MayInherit
<1>8. \A g \in F : \A i \in DOMAIN sources'[g] : MayInherit(sources'[g][i], sources'[g])
  <2>1. \A i \in DOMAIN sources[f] : MayInherit(sources[f][i], sources'[f])
    BY <1>1, <1>3, <1>5 DEF MayInherit
  <2> QED
    BY <1>1, <1>4, <1>5, <1>7, <2>1
<1>9. Grown(written, sources')
  BY <1>2, <1>3, <1>4, <1>5 DEF Grown
<1> QED
  BY <1>6, <1>8, <1>9 DEF IsRepository, T, F

(* Every state is one of those.                                             *)
THEOREM AdaptersInvHolds == AdaptersSpec => []AdaptersInv
<1>1. Checkout => AdaptersInv
  BY WritingAssumption DEF Checkout, AdaptersInv, Grown
<1>2. AdaptersInv /\ [WriteStatement]_adapters => AdaptersInv'
  <2> SUFFICES ASSUME AdaptersInv, [WriteStatement]_adapters PROVE AdaptersInv'
    OBVIOUS
  <2>1. CASE WriteStatement
    <3>1. PICK w \in Writable[language] : /\ sources' = [sources EXCEPT ![w[1]] = Append(@, w[2])]
                                          /\ index' = Analysis(language, sources')
      BY <2>1 DEF WriteStatement
    <3>2. language' = language
      BY <2>1 DEF WriteStatement
    <3>3. IsRepository(language, sources') /\ \E written \in Beginnings[language] : Grown(written, sources')
      BY <3>1, <3>2, WritingKeepsRepository
    <3>4. IsRepository(language, sources)' /\ index' = Analysis(language, sources)'
      BY <3>1, <3>2, <3>3
    <3> QED
      BY <3>2, <3>3, <3>4 DEF AdaptersInv
  <2>2. CASE UNCHANGED adapters
    BY <2>2 DEF adapters, AdaptersInv
  <2> QED
    BY <2>1, <2>2
<1> QED
  BY <1>1, <1>2, PTL DEF AdaptersSpec

-----------------------------------------------------------------------------
(* What the symbols of a file are, and which of them a map by name gives.   *)
Declared(file, source) == {SymbolAt(file, source[i]) : i \in Statements(source, "symbol")}

(* The last and the first of some of the symbols in the order they are met  *)
(* are symbols of the file.                                                 *)
LEMMA OneOfTheOrder ==
  ASSUME NEW T, NEW source \in Seq(T), NEW file, NEW at,
         \A i \in at : i \in DOMAIN source /\ InOrder(file, source)[i] # NONE
  PROVE  LET order == InOrder(file, source)
         IN  /\ LastSymbol(order, at) \in {NONE} \union Declared(file, source)
             /\ FirstSymbol(order, at) \in {NONE} \union Declared(file, source)
             /\ at # {} => LastSymbol(order, at) # NONE /\ FirstSymbol(order, at) # NONE
<1> DEFINE order == InOrder(file, source)
<1>1. /\ at \subseteq 1 .. Len(source) /\ Len(source) \in Nat /\ DOMAIN order = DOMAIN source
      /\ \A i \in at : order[i] # NONE
  <2>1. DOMAIN source = 1 .. Len(source) /\ Len(source) \in Nat
    OBVIOUS
  <2>2. DOMAIN order = DOMAIN source
    BY DEF InOrder
  <2>3. at \subseteq DOMAIN source
    OBVIOUS
  <2> QED
    BY <2>1, <2>2, <2>3
<1>2. \A i \in at : order[i] \in Declared(file, source)
  <2>1. ASSUME NEW i \in at PROVE order[i] \in Declared(file, source)
    <3>1. i \in DOMAIN source /\ order[i] = IF source[i].is = "symbol" THEN SymbolAt(file, source[i]) ELSE NONE
      BY DEF InOrder
    <3>2. i \in Statements(source, "symbol") /\ order[i] = SymbolAt(file, source[i])
      BY <1>1, <3>1 DEF Statements
    <3> QED
      BY <3>2 DEF Declared
  <2> QED
    BY <2>1
<1>3. IsFiniteSet(at) /\ at \subseteq Nat
  BY <1>1, Positions
<1> HIDE DEF order
<1>4. CASE at = {}
  BY <1>4 DEF LastSymbol, FirstSymbol, order
<1>5. CASE at # {}
  <2>1. \E i \in at : \A j \in at : j <= i
    BY <1>3, <1>5, GreatestOfFinite
  <2>2. \E i \in at : \A j \in at : i <= j
    BY <1>3, <1>5, LeastOfFinite
  <2> DEFINE last == CHOOSE i \in at : \A j \in at : j <= i
             first == CHOOSE i \in at : \A j \in at : i <= j
  <2>3. last \in at /\ first \in at
    BY <2>1, <2>2
  <2>4. LastSymbol(order, at) = order[last] /\ FirstSymbol(order, at) = order[first]
    BY <1>5 DEF LastSymbol, FirstSymbol
  <2> HIDE DEF last, first
  <2> QED
    BY <1>1, <1>2, <2>3, <2>4 DEF order
<1> QED
  BY <1>4, <1>5

(* So is what a name of the file is.                                        *)
LEMMA NameOfTheOrder ==
  ASSUME NEW T, NEW source \in Seq(T), NEW file, NEW name
  PROVE  ByName(InOrder(file, source), name) \in {NONE} \union Declared(file, source)
<1> DEFINE at == NamedAt(InOrder(file, source), name)
<1>1. \A i \in at : i \in DOMAIN source /\ InOrder(file, source)[i] # NONE
  BY DEF NamedAt, InOrder
<1> HIDE DEF at
<1>2. LastSymbol(InOrder(file, source), at) \in {NONE} \union Declared(file, source)
  BY <1>1, OneOfTheOrder
<1> QED
  BY <1>2 DEF ByName, at

(* A file's declarations are symbols of that file.                          *)
LEMMA DeclaredHere ==
  ASSUME NEW file, NEW source, NEW s \in Declared(file, source)
  PROVE  s.file = file
  BY DEF Declared, SymbolAt

(* Resolving a relationship changes what it leads to, and of a call also    *)
(* its kind.                                                                *)
LEMMA ResolvedRel ==
  ASSUME NEW from, NEW to, NEW kind, NEW alias, NEW line, NEW r, r = Rel(from, to, kind, alias, line),
         NEW s, NEW k
  PROVE  /\ r.from = from /\ r.to = to /\ r.kind = kind /\ r.alias = alias /\ r.line = line
         /\ [r EXCEPT !.to = s].from = from /\ [r EXCEPT !.to = s].to = s /\ [r EXCEPT !.to = s].line = line
         /\ [r EXCEPT !.to = s, !.kind = k].from = from /\ [r EXCEPT !.to = s, !.kind = k].to = s
         /\ [r EXCEPT !.to = s, !.kind = k].line = line
  BY DEF Rel

(* A package is one, and not a symbol.                                      *)
LEMMA PackagesAndSymbols ==
  /\ \A name : IsPackage(PackageNode(name)) /\ ~IsNamed(PackageNode(name))
  /\ \A file : ~IsPackage(ModuleSymbol(file))
  /\ \A file, s : ~IsPackage(SymbolAt(file, s))
  BY DEF IsPackage, IsNamed, PackageNode, ModuleSymbol, SymbolAt

(* What a name of a file is found to be through imports is a symbol of one  *)
(* of the files, or nothing.                                                *)
AllSymbols(irs) == UNION {irs[f].symbols : f \in DOMAIN irs}

(* What a name is followed to through imports is a symbol of some file, or  *)
(* nothing, however many imports are followed.                              *)
LEMMA ImportedIsSymbol ==
  ASSUME NEW irs, NEW files, DOMAIN irs = files, NEW limit \in Nat, NEW imports,
         \A f \in files : \A name \in Nat :
           /\ ByName(irs[f].order, name) \in {NONE} \union irs[f].symbols
           /\ \/ imports[<<f, name>>] = NONE
              \/ /\ imports[<<f, name>>].file \in {NONE} \union files
                 /\ imports[<<f, name>>].name \in Nat,
         NEW f \in files, NEW name \in Nat
  PROVE  Imported(irs, imports, limit)[<<f, name, 0>>] \in {NONE} \union AllSymbols(irs)
<1> DEFINE D == files \X Nat \X (0 .. limit)
           import(q) == imports[<<q[1], q[2]>>]
           own(q) == ByName(irs[q[1]].order, q[2])
           ends(q) == q[3] = limit \/ import(q) = NONE \/ import(q).file \in {NONE, q[1]}
           stop == {q \in D : own(q) # NONE \/ ends(q)}
           value == [q \in D |-> IF own(q) # NONE THEN own(q) ELSE NONE]
           next == [q \in D |-> <<import(q).file, import(q).name, q[3] + 1>>]
           rank == [q \in D |-> limit - q[3]]
           T == {NONE} \union AllSymbols(irs)
           lookup == Imported(irs, imports, limit)
<1>1. rank \in [D -> 0 .. limit]
  OBVIOUS
<1>2. \A q \in D \ stop : next[q] \in D /\ rank[next[q]] < rank[q]
  <2>1. ASSUME NEW q \in D \ stop PROVE next[q] \in D /\ rank[next[q]] < rank[q]
    <3>1. /\ q[1] \in files /\ q[2] \in Nat /\ q[3] \in 0 .. limit /\ q[3] # limit
          /\ import(q) # NONE /\ import(q).file # NONE
      OBVIOUS
    <3>2. import(q).file \in files /\ import(q).name \in Nat
      BY <3>1
    <3> DEFINE file == import(q).file
               called == import(q).name
    <3>3. q[3] + 1 \in 0 .. limit /\ limit - (q[3] + 1) < limit - q[3]
      BY <3>1
    <3>4. next[q] = <<file, called, q[3] + 1>>
      OBVIOUS
    <3> HIDE DEF file, called, next
    <3>5. next[q] \in D /\ next[q][3] = q[3] + 1
      BY <3>2, <3>3, <3>4 DEF file, called
    <3> QED
      BY <3>3, <3>5
  <2> QED
    BY <2>1
<1>3. \A q \in D \intersect stop : value[q] \in T
  <2>1. ASSUME NEW q \in D PROVE value[q] \in T
    <3>1. q[1] \in files /\ q[2] \in Nat
      OBVIOUS
    <3>2. own(q) \in {NONE} \union irs[q[1]].symbols
      BY <3>1
    <3> QED
      BY <3>1, <3>2 DEF AllSymbols
  <2> QED
    BY <2>1
<1> DEFINE Step(g, q) == IF own(q) # NONE THEN own(q) ELSE IF ends(q) THEN NONE
                         ELSE g[<<import(q).file, import(q).name, q[3] + 1>>]
<1>4. lookup = CHOOSE g : g = [q \in D |-> Step(g, q)]
  BY DEF Imported
<1>5. ASSUME NEW g PROVE (g = [q \in D |-> Step(g, q)]) <=> Follows(g, D, stop, value, next)
  <2>1. \A q \in D : Step(g, q) = IF q \in stop THEN value[q] ELSE g[next[q]]
    OBVIOUS
  <2> HIDE DEF D, stop, value, next, Step
  <2> QED
    BY <2>1 DEF Follows
<1> HIDE DEF D, stop, value, next, Step, rank, lookup, T
<1>6. \E g : Follows(g, D, stop, value, next)
  BY <1>1, <1>2, EndsExist
<1>7. Follows(lookup, D, stop, value, next)
  BY <1>4, <1>5, <1>6
<1>8. \A q \in D : lookup[q] \in T
  BY <1>1, <1>2, <1>3, <1>7, EndsAreValues
<1>9. <<f, name, 0>> \in D
  BY DEF D
<1> QED
  BY <1>8, <1>9 DEF lookup, T

-----------------------------------------------------------------------------
(* What every language but TypeScript shares. The parts of a statement are  *)
(* of their kind.                                                           *)
WellFormed(source) ==
  \A i \in DOMAIN source :
    /\ source[i].is # "access"
    /\ source[i].is \in {"typed", "member", "use"} => source[i].path \in Path
    /\ source[i].is = "typed" => source[i].type \in Path \union {NONE} /\ source[i].parameter \in BOOLEAN
    /\ source[i].is = "member" => source[i].owner \in Nat \union {NONE}
    /\ source[i].is = "symbol" => source[i].name \in Nat

(* The statements that the languages share are such.                        *)
LEMMA SharedWellFormed ==
  ASSUME NEW s \in SharedStatements
  PROVE  /\ s.is # "access"
         /\ s.is \in {"typed", "member", "use"} => s.path \in Path
         /\ s.is = "typed" => s.type \in Path \union {NONE} /\ s.parameter \in BOOLEAN
         /\ s.is = "member" => s.owner \in Nat \union {NONE}
         /\ s.is = "symbol" => s.name \in Nat
  BY DEF SharedStatements, Owner

(* A function is one of those around what is in it.                         *)
LEMMA PathsAround ==
  ASSUME NEW path \in Path
  PROVE  path \in Around(path) /\ IsPrefix(path, path)
<1>1. path \in Seq(Nat) /\ Len(path) \in Nat \ {0}
  BY EmptySeq DEF Path
<1>2. SubSeq(path, 1, Len(path)) = path
  BY <1>1
<1>3. Len(path) \in 1 .. Len(path)
  BY <1>1
<1>4. SubSeq(path, 1, Len(path)) \in Around(path)
  BY <1>3 DEF Around
<1>5. IsPrefix(path, path)
  BY <1>1 DEF IsPrefix
<1> QED
  BY <1>2, <1>4, <1>5

(* A variable that is of one type in all of the file, and has it said where *)
(* it is used, is bound to that type.                                       *)
TypedAs(source, var) == {t \in Range(source) : t.is = "typed" /\ t.var = var /\ t.type # NONE}
IsOnly(source, var, type) == \A t \in TypedAs(source, var) : t.type = type
IsSaidAt(source, owner, path, var) == \E t \in TypedAs(source, var) : t.owner = owner /\ t.path = path
SaidTypes(source, m) ==
  {<<i[1], BoundType(source, source[i[1]].owner, i[2], source[i[1]].var)>> : i \in m}

(* What is said where the variable is used decides, as long as nothing else *)
(* is said of it anywhere.                                                  *)
LEMMA BoundWhereSaid ==
  ASSUME NEW T, NEW source \in Seq(T), WellFormed(source), NEW owner, NEW path, NEW var, NEW type,
         path \in Path, IsOnly(source, var, type), IsSaidAt(source, owner, path, var)
  PROVE  BoundType(source, owner, path, var) = type
<1> DEFINE of(inside, parameter) ==
             {i \in Statements(source, "typed") :
                /\ source[i].var = var /\ source[i].owner = owner /\ source[i].type # NONE
                /\ source[i].parameter = parameter
                /\ IF inside THEN IsPrefix(path, source[i].path) ELSE source[i].path = path}
           last(S) == source[CHOOSE i \in S : \A j \in S : j <= i].type
<1>1. \A inside, parameter : \A i \in of(inside, parameter) : i \in DOMAIN source /\ source[i].type = type
  <2>1. ASSUME NEW inside, NEW parameter, NEW i \in of(inside, parameter)
        PROVE  i \in DOMAIN source /\ source[i].type = type
    <3>1. i \in DOMAIN source /\ source[i].is = "typed" /\ source[i].var = var /\ source[i].type # NONE
      BY DEF Statements
    <3>2. source[i] \in TypedAs(source, var)
      BY <3>1 DEF TypedAs, Range
    <3> QED
      BY <3>1, <3>2 DEF IsOnly
  <2> QED
    BY <2>1
<1>2. \A inside, parameter : of(inside, parameter) # {} => last(of(inside, parameter)) = type
  <2>1. ASSUME NEW inside, NEW parameter, of(inside, parameter) # {}
        PROVE  last(of(inside, parameter)) = type
    <3> DEFINE S == of(inside, parameter)
    <3>1. S \subseteq 1 .. Len(source) /\ Len(source) \in Nat
      BY <1>1
    <3>2. IsFiniteSet(S) /\ S \subseteq Nat
      <4> HIDE DEF S
      <4> QED
        BY <3>1, Positions
    <3> DEFINE k == CHOOSE i \in S : \A j \in S : j <= i
    <3>3. k \in S
      <4>1. \E i \in S : \A j \in S : j <= i
        <5> HIDE DEF S
        <5>1. S # {}
          BY <2>1 DEF S
        <5> QED
          BY <3>2, <5>1, GreatestOfFinite
      <4> HIDE DEF S
      <4> QED
        BY <4>1
    <3>4. last(of(inside, parameter)) = source[k].type
      OBVIOUS
    <3> HIDE DEF k
    <3> QED
      BY <1>1, <3>3, <3>4
  <2> QED
    BY <2>1
<1>3. of(TRUE, FALSE) # {} \/ of(FALSE, TRUE) # {}
  <2>1. PICK t \in TypedAs(source, var) : t.owner = owner /\ t.path = path
    BY DEF IsSaidAt
  <2>2. PICK i \in DOMAIN source : source[i] = t
    BY DEF TypedAs, Range
  <2>3. /\ i \in Statements(source, "typed") /\ source[i].var = var
        /\ source[i].type # NONE /\ source[i].parameter \in BOOLEAN
    BY <2>2 DEF TypedAs, Statements, WellFormed
  <2>4. source[i].owner = owner /\ source[i].path = path /\ IsPrefix(path, source[i].path)
    BY <2>1, <2>2, PathsAround
  <2>5. CASE source[i].parameter = TRUE
    <3>1. i \in of(FALSE, TRUE)
      BY <2>3, <2>4, <2>5
    <3> QED
      BY <3>1
  <2>6. CASE source[i].parameter = FALSE
    <3>1. i \in of(TRUE, FALSE)
      BY <2>3, <2>4, <2>6
    <3> QED
      BY <3>1
  <2> QED
    BY <2>3, <2>5, <2>6
<1>4. BoundType(source, owner, path, var) =
        IF of(TRUE, FALSE) # {} THEN last(of(TRUE, FALSE))
        ELSE IF of(FALSE, TRUE) # {} THEN last(of(FALSE, TRUE))
        ELSE IF var = Self /\ owner # NONE THEN <<owner>> ELSE NONE
  BY DEF BoundType
<1> HIDE DEF of, last
<1> QED
  BY <1>2, <1>3, <1>4

(* And what a variable is bound to is one of its types, or that of `self`.  *)
LEMMA BoundIsSaid ==
  ASSUME NEW T, NEW source \in Seq(T), NEW owner, NEW path, NEW var,
         BoundType(source, owner, path, var) # NONE
  PROVE  \/ \E t \in TypedAs(source, var) : t.type = BoundType(source, owner, path, var)
         \/ var = Self /\ owner # NONE /\ BoundType(source, owner, path, var) = <<owner>>
<1> DEFINE of(inside, parameter) ==
             {i \in Statements(source, "typed") :
                /\ source[i].var = var /\ source[i].owner = owner /\ source[i].type # NONE
                /\ source[i].parameter = parameter
                /\ IF inside THEN IsPrefix(path, source[i].path) ELSE source[i].path = path}
           last(S) == source[CHOOSE i \in S : \A j \in S : j <= i].type
<1>1. \A inside, parameter : of(inside, parameter) # {} =>
        \E t \in TypedAs(source, var) : t.type = last(of(inside, parameter))
  <2>1. ASSUME NEW inside, NEW parameter, of(inside, parameter) # {}
        PROVE  \E t \in TypedAs(source, var) : t.type = last(of(inside, parameter))
    <3> DEFINE S == of(inside, parameter)
    <3>1. S \subseteq 1 .. Len(source) /\ Len(source) \in Nat
      BY DEF Statements
    <3>2. IsFiniteSet(S) /\ S \subseteq Nat
      <4> HIDE DEF S
      <4> QED
        BY <3>1, Positions
    <3> DEFINE k == CHOOSE i \in S : \A j \in S : j <= i
    <3>3. k \in S
      <4>1. \E i \in S : \A j \in S : j <= i
        <5> HIDE DEF S
        <5>1. S # {}
          BY <2>1 DEF S
        <5> QED
          BY <3>2, <5>1, GreatestOfFinite
      <4> HIDE DEF S
      <4> QED
        BY <4>1
    <3>4. last(of(inside, parameter)) = source[k].type
      OBVIOUS
    <3> HIDE DEF k
    <3>5. k \in DOMAIN source /\ source[k] \in TypedAs(source, var)
      BY <3>3 DEF Statements, TypedAs, Range
    <3> QED
      BY <3>4, <3>5
  <2> QED
    BY <2>1
<1>2. BoundType(source, owner, path, var) =
        IF of(TRUE, FALSE) # {} THEN last(of(TRUE, FALSE))
        ELSE IF of(FALSE, TRUE) # {} THEN last(of(FALSE, TRUE))
        ELSE IF var = Self /\ owner # NONE THEN <<owner>> ELSE NONE
  BY DEF BoundType
<1> HIDE DEF of, last
<1> QED
  BY <1>1, <1>2

(* The members that are taken in a file, and what is charged for them.      *)
LEMMA MemberIsCharged ==
  ASSUME NEW T, NEW source \in Seq(T), WellFormed(source), NEW builtin, NEW i \in Statements(source, "member"),
         NEW type, type # NONE, type \notin builtin,
         IsOnly(source, source[i].var, type),
         IsSaidAt(source, source[i].owner, source[i].path, source[i].var)
  PROVE  \E a \in MemberTypes(SaidTypes(source, Members(source)), builtin) : a[2] = type /\ a[1] <= i
<1> DEFINE path == source[i].path
           m == <<i, path>>
           said == {a \in SaidTypes(source, Members(source)) : a[2] \notin builtin \union {NONE}}
           b == <<i, type>>
<1>1. i \in DOMAIN source /\ path \in Path
  BY DEF Statements, WellFormed
<1>2. m \in Members(source)
  <2>1. m \in {i} \X Around(source[i].path)
    BY <1>1, PathsAround
  <2> QED
    BY <2>1 DEF Members
<1>3. BoundType(source, source[i].owner, path, source[i].var) = type
  <2> DEFINE owner == source[i].owner
             var == source[i].var
  <2>1. IsOnly(source, var, type) /\ IsSaidAt(source, owner, path, var)
    OBVIOUS
  <2> HIDE DEF path, owner, var
  <2>2. BoundType(source, owner, path, var) = type
    BY <1>1, <2>1, BoundWhereSaid
  <2> QED
    BY <2>2 DEF owner, var
<1>4. b \in SaidTypes(source, Members(source))
  <2>1. m[1] = i /\ m[2] = path
    OBVIOUS
  <2> HIDE DEF m, path
  <2> QED
    BY <1>2, <1>3, <2>1 DEF SaidTypes
<1>5. b \in said /\ b[1] = i /\ b[2] = type
  BY <1>4
<1>6. \A a \in said : a[1] \in 1 .. Len(source)
  <2>1. ASSUME NEW a \in said PROVE a[1] \in 1 .. Len(source)
    <3>1. PICK k \in Members(source) :
            a = <<k[1], BoundType(source, source[k[1]].owner, k[2], source[k[1]].var)>>
      BY DEF SaidTypes
    <3>2. k[1] \in Statements(source, "member")
      BY DEF Members
    <3> QED
      BY <3>1, <3>2 DEF Statements
  <2> QED
    BY <2>1
<1>7. MemberTypes(SaidTypes(source, Members(source)), builtin) = FirstOfEach(said)
  BY DEF MemberTypes
<1>8. Len(source) \in Nat
  OBVIOUS
<1> HIDE DEF said, b
<1>9. \E a \in FirstOfEach(said) : a[2] = b[2] /\ a[1] <= b[1]
  BY <1>5, <1>6, <1>8, FirstOfEachIsOne
<1> QED
  BY <1>5, <1>7, <1>9

(* And what is charged is a member taken of a variable that is somewhere    *)
(* said to be of the type, or of `self`.                                    *)
LEMMA ChargedIsMember ==
  ASSUME NEW T, NEW source \in Seq(T), WellFormed(source), NEW builtin,
         NEW a \in MemberTypes(SaidTypes(source, Members(source)), builtin)
  PROVE  LET s == source[a[1]]
         IN  /\ a[1] \in Statements(source, "member")
             /\ a[2] \in Path /\ a[2] \notin builtin
             /\ \/ \E t \in TypedAs(source, s.var) : t.type = a[2]
                \/ s.var = Self /\ a[2] = <<s.owner>>
<1>1. a \in SaidTypes(source, Members(source)) /\ a[2] # NONE /\ a[2] \notin builtin
  BY DEF MemberTypes, FirstOfEach
<1>2. PICK k \in Members(source) : a = <<k[1], BoundType(source, source[k[1]].owner, k[2], source[k[1]].var)>>
  BY <1>1 DEF SaidTypes
<1>3. k[1] \in Statements(source, "member")
  BY DEF Members
<1> DEFINE i == k[1]
           path == k[2]
<1>4. a[1] = i /\ a[2] = BoundType(source, source[i].owner, path, source[i].var)
  BY <1>2
<1> HIDE DEF i, path
<1>5. \/ \E t \in TypedAs(source, source[i].var) : t.type = BoundType(source, source[i].owner, path, source[i].var)
      \/ /\ source[i].var = Self /\ source[i].owner # NONE
         /\ BoundType(source, source[i].owner, path, source[i].var) = <<source[i].owner>>
  BY <1>1, <1>4, BoundIsSaid
<1>6. i \in DOMAIN source /\ source[i].is = "member"
  BY <1>3 DEF Statements, i
<1>7. a[2] \in Path
  <2>1. CASE \E t \in TypedAs(source, source[i].var) : t.type = a[2]
    <3>1. PICK t \in TypedAs(source, source[i].var) : t.type = a[2]
      BY <2>1
    <3>2. PICK j \in DOMAIN source : source[j] = t
      BY DEF TypedAs, Range
    <3> QED
      BY <3>1, <3>2 DEF TypedAs, WellFormed
  <2>2. CASE source[i].owner # NONE /\ a[2] = <<source[i].owner>>
    <3>1. source[i].owner \in Nat
      BY <1>6, <2>2 DEF WellFormed
    <3> QED
      BY <2>2, <3>1 DEF Path
  <2> QED
    BY <1>4, <1>5, <2>1, <2>2
<1> QED
  BY <1>1, <1>3, <1>4, <1>5, <1>7 DEF i

-----------------------------------------------------------------------------
(* What is analysed: the files of the language, each read as it is written  *)
(* or, where it is taken for generated, as empty.                           *)
IRs == Extracted(language, sources)
Read(generated, f) == IF f \in generated THEN << >> ELSE sources[f]

(* What is analysed is what was extracted of every file, and the index is   *)
(* what each was resolved to.                                               *)
LEMMA Analysed ==
  ASSUME AdaptersInv
  PROVE  /\ DOMAIN sources = FilesOf(language) /\ DOMAIN IRs = FilesOf(language) /\ DOMAIN index = FilesOf(language)
         /\ \A f \in FilesOf(language) :
              /\ sources[f] \in Seq(StatementsOf(language))
              /\ \A i \in DOMAIN sources[f] : MayInherit(sources[f][i], sources[f])
              /\ IRs[f] = Extract(language, f, sources[f])
              /\ index[f] = Resolve(language, IRs, f)
<1> DEFINE F == FilesOf(language)
           T == StatementsOf(language)
<1>1. /\ sources \in [F -> Seq(T)] /\ index = Analysis(language, sources)
      /\ \A f \in F : \A i \in DOMAIN sources[f] : MayInherit(sources[f][i], sources[f])
  BY DEF AdaptersInv, IsRepository
<1>2. IRs = [f \in DOMAIN sources |-> Extract(language, f, sources[f])]
  BY DEF IRs, Extracted
<1>3. index = [f \in DOMAIN IRs |-> Resolve(language, IRs, f)]
  BY <1>1 DEF Analysis, IRs
<1> HIDE DEF F, T
<1>4. DOMAIN sources = F /\ \A f \in F : sources[f] \in Seq(T)
  BY <1>1
<1>5. DOMAIN IRs = F /\ \A f \in F : IRs[f] = Extract(language, f, sources[f])
  BY <1>2, <1>4
<1>6. DOMAIN index = F /\ \A f \in F : index[f] = Resolve(language, IRs, f)
  BY <1>3, <1>5
<1> QED
  BY <1>1, <1>4, <1>5, <1>6 DEF F, T

(* What there is to show of a relationship that is not a call: an edge, a   *)
(* diagnostic, or the name of a built-in type.                              *)
Fate(f, r, builtin) ==
  EdgesAt(f, r.line) # {} \/ Reported(f, r.line) \/ (IsNamed(r.to) /\ r.to.named \in builtin)

(* A relationship of a symbol that leads to another or to a package is an   *)
(* edge.                                                                    *)
LEMMA AnEdge ==
  ASSUME NEW f, NEW i, NEW r \in index[f].relationships, r.line = i, r.from \in index[f].symbols,
         IsPackage(r.to) \/ r.to \in SymbolsOfAll
  PROVE  EdgesAt(f, i) # {}
  BY DEF EdgesAt

(* The imports by which a file knows a name, and the last of them.          *)
ImportsOf(f, name) == {j \in Written(f, {"import", "usetree"}) : name \in LocalNames(f, sources[f][j])}
LastOfImports(f, name) == CHOOSE j \in ImportsOf(f, name) : \A k \in ImportsOf(f, name) : k <= j

(* A use of a name leads where that import does.                            *)
FollowsImport(f, i) ==
  LET name == UsedName(sources[f][i])
      last == LastOfImports(f, name)
      targets == {r.to : r \in EdgesAt(f, last)}
  IN  /\ name # NONE /\ ~IsMisnamed(f, name) /\ ImportsOf(f, name) # {} /\ targets # {}
      /\ LocalNames(f, sources[f][last]) = {name} \/ ~Reported(f, last)
      => /\ {r.to : r \in EdgesAt(f, i)} \subseteq targets
         /\ EdgesAt(f, i) # {} \/ \E to \in targets : IsPackage(to)

(* The last import of a name is one of those of the file.                   *)
LEMMA LastImport ==
  ASSUME NEW T, NEW f, sources[f] \in Seq(T), NEW name, ImportsOf(f, name) # {}
  PROVE  /\ LastOfImports(f, name) \in ImportsOf(f, name)
         /\ \A k \in ImportsOf(f, name) : k <= LastOfImports(f, name)
         /\ ImportsOf(f, name) \subseteq DOMAIN sources[f] /\ DOMAIN sources[f] \subseteq Nat
<1>1. DOMAIN sources[f] = 1 .. Len(sources[f]) /\ Len(sources[f]) \in Nat
  OBVIOUS
<1>2. ImportsOf(f, name) \subseteq DOMAIN sources[f]
  BY DEF ImportsOf, Written
<1>3. IsFiniteSet(ImportsOf(f, name)) /\ ImportsOf(f, name) \subseteq Nat
  BY <1>1, <1>2, Positions
<1>4. \E j \in ImportsOf(f, name) : \A k \in ImportsOf(f, name) : k <= j
  BY <1>3, GreatestOfFinite
<1> QED
  BY <1>1, <1>2, <1>4 DEF LastOfImports

-----------------------------------------------------------------------------
(* Python. The parts of its statements.                                     *)
LEMMA PyStatementParts ==
  ASSUME NEW s \in PyStatements
  PROVE  /\ s.is # "access"
         /\ s.is \in {"typed", "member", "use"} => s.path \in Path
         /\ s.is = "typed" => s.type \in Path \union {NONE} /\ s.parameter \in BOOLEAN
         /\ s.is = "member" => s.owner \in Nat \union {NONE}
         /\ s.is = "symbol" => s.name \in Nat
         /\ s.is = "symbol" /\ "bases" \in DOMAIN s => s.bases \subseteq Path
         /\ s.is = "import" => s.name \in Nat
  BY DEF PyStatements, SharedStatements, Owner

PyRead(f) == Read(PyGenerated, f)

(* The files of a Python repository and what was extracted from them.       *)
LEMMA PyShape ==
  ASSUME AdaptersInv, language = "python"
  PROVE  /\ DOMAIN sources = PyFiles /\ DOMAIN IRs = PyFiles /\ DOMAIN index = PyFiles
         /\ IsFiniteSet(PyFiles) /\ PyFiles \subseteq Nat
         /\ \A f \in PyFiles :
              /\ PyRead(f) \in Seq(PyStatements) /\ WellFormed(PyRead(f))
              /\ IRs[f].symbols = {ModuleSymbol(f)} \union Declared(f, PyRead(f))
              /\ IRs[f].order = InOrder(f, PyRead(f))
              /\ IRs[f].relationships = PyBases(f, PyRead(f)) \union PyImports(f, PyRead(f))
                                          \union PyCalls(f, PyRead(f)) \union PyAccesses(f, PyRead(f))
<1>1. FilesOf(language) = PyFiles /\ StatementsOf(language) = PyStatements
  BY DEF FilesOf, StatementsOf
<1>2. DOMAIN sources = PyFiles /\ DOMAIN IRs = PyFiles /\ DOMAIN index = PyFiles
  BY <1>1, Analysed
<1>3. ASSUME NEW f \in PyFiles
      PROVE  /\ PyRead(f) \in Seq(PyStatements) /\ WellFormed(PyRead(f))
             /\ IRs[f].symbols = {ModuleSymbol(f)} \union Declared(f, PyRead(f))
             /\ IRs[f].order = InOrder(f, PyRead(f))
             /\ IRs[f].relationships = PyBases(f, PyRead(f)) \union PyImports(f, PyRead(f))
                                          \union PyCalls(f, PyRead(f)) \union PyAccesses(f, PyRead(f))
  <2>1. sources[f] \in Seq(PyStatements) /\ IRs[f] = Extract(language, f, sources[f])
    BY <1>1, <1>3, Analysed
  <2>2. PyRead(f) \in Seq(PyStatements)
    BY <2>1 DEF PyRead, Read
  <2>3. \A i \in DOMAIN PyRead(f) : PyRead(f)[i] \in PyStatements
    BY <2>2
  <2>4. WellFormed(PyRead(f))
    BY <2>3, PyStatementParts DEF WellFormed
  <2>5. IRs[f] = ExtractPy(f, sources[f])
    BY <2>1 DEF Extract
  <2>6. PySymbols(f, PyRead(f)) = {ModuleSymbol(f)} \union Declared(f, PyRead(f))
    BY DEF PySymbols, Declared
  <2> QED
    BY <2>2, <2>4, <2>5, <2>6 DEF ExtractPy, PyRead, Read
<1> QED
  BY <1>2, <1>3, FilesAssumption

(* Its relationships, and which of them are imports.                        *)
LEMMA PyRelationships ==
  ASSUME AdaptersInv, language = "python", NEW f \in PyFiles, NEW r \in IRs[f].relationships
  PROVE  /\ r.line \in DOMAIN PyRead(f) /\ r.from \in IRs[f].symbols
         /\ \/ r.kind = "Imports" /\ r \in PyImports(f, PyRead(f)) /\ r.to.name \in Nat
            \/ r.kind # "Imports" /\ IsNamed(r.to) /\ r.to.named \in Path
         /\ DOMAIN r = {"from", "to", "kind", "alias", "line"}
<1> DEFINE source == PyRead(f)
<1>1. /\ source \in Seq(PyStatements) /\ WellFormed(source)
      /\ IRs[f].symbols = {ModuleSymbol(f)} \union Declared(f, source)
      /\ r \in PyBases(f, source) \union PyImports(f, source) \union PyCalls(f, source) \union PyAccesses(f, source)
  BY PyShape
<1> HIDE DEF source
<1>2. CASE r \in PyBases(f, source)
  <2>1. PICK i, base :
          /\ i \in DOMAIN source /\ source[i].is = "symbol"
          /\ "bases" \in DOMAIN source[i] /\ base \in source[i].bases
          /\ r = Rel(SymbolAt(f, source[i]), Named(base), "Extends", NONE, i)
    BY <1>2 DEF PyBases, Statements
  <2>2. base \in Path
    <3>1. source[i] \in PyStatements
      BY <1>1, <2>1
    <3> QED
      BY <2>1, <3>1, PyStatementParts
  <2>3. SymbolAt(f, source[i]) \in Declared(f, source)
    BY <2>1 DEF Declared, Statements
  <2> QED
    BY <1>1, <2>1, <2>2, <2>3 DEF Rel, IsNamed, Named, source
<1>3. CASE r \in PyImports(f, source)
  <2>1. PICK i \in DOMAIN source :
          /\ source[i].is = "import"
          /\ r = Rel(ModuleSymbol(f), PyMember(source[i].spec, source[i].name), "Imports", source[i].alias, i)
    BY <1>3 DEF PyImports, Statements
  <2>2. source[i].name \in Nat
    <3>1. source[i] \in PyStatements
      BY <1>1
    <3> QED
      BY <2>1, <3>1, PyStatementParts
  <2> QED
    BY <1>1, <1>3, <2>1, <2>2 DEF Rel, PyMember, source
<1>4. CASE r \in PyCalls(f, source)
  <2>1. PICK i \in DOMAIN source :
          source[i].is = "use" /\ r = Rel(ModuleSymbol(f), Named(source[i].path), "Calls", NONE, i)
    BY <1>4 DEF PyCalls, Statements
  <2>2. source[i].path \in Path
    BY <1>1, <2>1 DEF WellFormed
  <2> QED
    BY <1>1, <2>1, <2>2 DEF Rel, IsNamed, Named, source
<1>5. CASE r \in PyAccesses(f, source)
  <2>1. PICK a \in MemberTypes(SaidTypes(source, Members(source)), PyBuiltin) :
          r = Rel(ModuleSymbol(f), Named(a[2]), "AccessesProperty", NONE, a[1])
    BY <1>5 DEF PyAccesses, PyBound, SaidTypes
  <2>2. a[1] \in DOMAIN source /\ a[2] \in Path
    BY <1>1, <2>1, ChargedIsMember DEF Statements
  <2> QED
    BY <1>1, <2>1, <2>2 DEF Rel, IsNamed, Named, source
<1> QED
  BY <1>1, <1>2, <1>3, <1>4, <1>5

(* A module is one of the files, or of no file here.                        *)
LEMMA PyFileOfIsFile ==
  ASSUME NEW module
  PROVE  PyFileOf(module) \in {NONE} \union PyFiles
<1> DEFINE files == {f \in PyFiles : PyModule(f) = module}
<1>1. IsFiniteSet(files) /\ files \subseteq Nat /\ files \subseteq PyFiles
  <2>1. files \subseteq PyFiles
    OBVIOUS
  <2> HIDE DEF files
  <2> QED
    BY <2>1, FilesAssumption, FS_Subset
<1>2. PyFileOf(module) = IF files = {} THEN NONE ELSE CHOOSE f \in files : \A g \in files : g <= f
  BY DEF PyFileOf
<1> HIDE DEF files
<1>3. files # {} => \E f \in files : \A g \in files : g <= f
  BY <1>1, GreatestOfFinite
<1> QED
  BY <1>1, <1>2, <1>3

(* Of some of a file's imports the latest is one of them.                   *)
LEMMA PyLatestImport ==
  ASSUME AdaptersInv, language = "python", NEW f \in PyFiles, NEW S, S # {},
         \A r \in S : r \in IRs[f].relationships /\ r.kind = "Imports"
  PROVE  /\ Latest(S) \in S /\ Latest(S) \in PyImports(f, PyRead(f)) /\ Latest(S).to.name \in Nat
         /\ \A r \in S : r.line <= Latest(S).line
<1>1. \A r \in S : r.line \in DOMAIN PyRead(f) /\ r \in PyImports(f, PyRead(f)) /\ r.to.name \in Nat
  BY PyRelationships
<1>2. DOMAIN PyRead(f) = 1 .. Len(PyRead(f)) /\ Len(PyRead(f)) \in Nat
  <2>1. PyRead(f) \in Seq(PyStatements)
    BY PyShape
  <2> QED
    BY <2>1
<1>3. \A r \in S : r.line \in 1 .. Len(PyRead(f))
  BY <1>1, <1>2
<1>4. Latest(S) \in S /\ \A r \in S : r.line <= Latest(S).line
  BY <1>2, <1>3, LatestIsOne
<1> QED
  BY <1>1, <1>4

(* What a name of a file is found to be is a symbol, or nothing.            *)
LEMMA PyLookupIsSymbol ==
  ASSUME AdaptersInv, language = "python", NEW f \in PyFiles, NEW name \in Nat
  PROVE  PyLookup(IRs)[<<f, name, 0>>] \in {NONE} \union AllSymbols(IRs)
<1> DEFINE leads(file, import) ==
             IF import = NONE THEN NONE ELSE Import(PyFileOf(PyAbsolute(file, import.spec)), import.name)
           imports == [p \in PyFiles \X Nat |-> leads(p[1], PyImportOf(IRs, p[1], p[2]))]
<1>1. PyLookup(IRs) = Imported(IRs, imports, MaxInits)
  BY DEF PyLookup
<1>2. ASSUME NEW g \in PyFiles, NEW n \in Nat
      PROVE  /\ ByName(IRs[g].order, n) \in {NONE} \union IRs[g].symbols
             /\ \/ imports[<<g, n>>] = NONE
                \/ imports[<<g, n>>].file \in {NONE} \union PyFiles /\ imports[<<g, n>>].name \in Nat
  <2>1. ByName(IRs[g].order, n) \in {NONE} \union IRs[g].symbols
    <3>1. PyRead(g) \in Seq(PyStatements) /\ IRs[g].order = InOrder(g, PyRead(g))
          /\ IRs[g].symbols = {ModuleSymbol(g)} \union Declared(g, PyRead(g))
      BY PyShape
    <3> QED
      BY <3>1, NameOfTheOrder
  <2>2. PyImportOf(IRs, g, n) = NONE \/ PyImportOf(IRs, g, n).name \in Nat
    <3> DEFINE of == {r \in IRs[g].relationships :
                        r.kind = "Imports" /\ (IF r.alias = NONE THEN r.to.name ELSE r.alias) = n}
    <3>1. PyImportOf(IRs, g, n) = IF of = {} THEN NONE ELSE Latest(of).to
      BY DEF PyImportOf
    <3>2. \A r \in of : r \in IRs[g].relationships /\ r.kind = "Imports"
      OBVIOUS
    <3> HIDE DEF of
    <3>3. of # {} => Latest(of).to.name \in Nat
      BY <3>2, PyLatestImport
    <3> QED
      BY <3>1, <3>3
  <2>3. imports[<<g, n>>] = leads(g, PyImportOf(IRs, g, n))
    OBVIOUS
  <2> HIDE DEF imports
  <2> QED
    BY <2>1, <2>2, <2>3, PyFileOfIsFile DEF Import
<1>3. DOMAIN IRs = PyFiles
  BY PyShape
<1> HIDE DEF imports
<1>4. Imported(IRs, imports, MaxInits)[<<f, name, 0>>] \in {NONE} \union AllSymbols(IRs)
  BY <1>2, <1>3, FilesAssumption, ImportedIsSymbol
<1> QED
  BY <1>1, <1>4

(* Every symbol is of a file of the repository.                             *)
LEMMA PySymbolsAreOfFiles ==
  ASSUME AdaptersInv, language = "python", NEW s \in AllSymbols(IRs)
  PROVE  s.file \in PyFiles /\ ~IsPackage(s)
<1>1. PICK f \in PyFiles : s \in IRs[f].symbols
  BY PyShape DEF AllSymbols
<1>2. s = ModuleSymbol(f) \/ s \in Declared(f, PyRead(f))
  BY <1>1, PyShape
<1> QED
  BY <1>2, PackagesAndSymbols DEF Declared, ModuleSymbol, SymbolAt

(* An import leads to a package or to a symbol; and a name in a file to     *)
(* one of those, or nowhere.                                                *)
IsTarget(to) == IsPackage(to) \/ to \in AllSymbols(IRs)

(* What an import of Python leads to is one of those.                       *)
LEMMA PyTargetIsTarget ==
  ASSUME AdaptersInv, language = "python", NEW f \in PyFiles, NEW r \in PyImports(f, PyRead(f)), r.to.name \in Nat
  PROVE  IsTarget(PyTarget(IRs, f, r))
<1> DEFINE module == PyAbsolute(f, r.to.spec)
           target == PyFileOf(module)
           name == r.to.name
<1>1. CASE target = NONE
  <2>1. \E n : PyTarget(IRs, f, r) = PackageNode(n)
    BY <1>1 DEF PyTarget
  <2> QED
    BY <2>1, PackagesAndSymbols DEF IsTarget
<1>2. CASE target # NONE
  <2>1. target \in PyFiles
    BY <1>2, PyFileOfIsFile
  <2>2. ModuleSymbol(target) \in AllSymbols(IRs)
    BY <2>1, PyShape DEF AllSymbols
  <2>3. PyLookup(IRs)[<<target, name, 0>>] \in {NONE} \union AllSymbols(IRs)
    <3> HIDE DEF target, name
    <3>1. name \in Nat
      BY DEF name
    <3> QED
      BY <2>1, <3>1, PyLookupIsSymbol
  <2> QED
    BY <1>2, <2>2, <2>3 DEF PyTarget, IsTarget
<1> QED
  BY <1>1, <1>2

(* So is what it is known as in the file.                                   *)
LEMMA PyLocalIsTarget ==
  ASSUME AdaptersInv, language = "python", NEW f \in PyFiles, NEW name
  PROVE  PyLocal(IRs, f, name) = NONE \/ IsTarget(PyLocal(IRs, f, name))
<1> DEFINE of == {r \in IRs[f].relationships : r.kind = "Imports" /\ PyLocalName(f, r) = name}
<1>1. PyLocal(IRs, f, name) = IF of = {} THEN NONE ELSE PyTarget(IRs, f, Latest(of))
  BY DEF PyLocal
<1>2. \A r \in of : r \in IRs[f].relationships /\ r.kind = "Imports"
  OBVIOUS
<1> HIDE DEF of
<1>3. ASSUME of # {} PROVE IsTarget(PyTarget(IRs, f, Latest(of)))
  <2>1. Latest(of) \in PyImports(f, PyRead(f)) /\ Latest(of).to.name \in Nat
    BY <1>2, <1>3, PyLatestImport
  <2> QED
    BY <2>1, PyTargetIsTarget
<1> QED
  BY <1>1, <1>3

(* So is what a path of names means there, where it means anything.         *)
LEMMA PyMeansIsTarget ==
  ASSUME AdaptersInv, language = "python", NEW f \in PyFiles, NEW path \in Path
  PROVE  PyMeans(IRs, f, path) = NONE \/ IsTarget(PyMeans(IRs, f, path))
<1>1. path \in Seq(Nat) /\ Len(path) \in Nat \ {0}
  BY EmptySeq DEF Path
<1>2. CASE Len(path) > 1
  <2> DEFINE base == PyLocal(IRs, f, Head(path))
             second == path[2]
  <2>1. base = NONE \/ IsTarget(base)
    BY PyLocalIsTarget
  <2>2. second \in Nat
    BY <1>1, <1>2
  <2>3. ASSUME base # NONE, ~IsPackage(base)
        PROVE  PyLookup(IRs)[<<base.file, second, 0>>] \in {NONE} \union AllSymbols(IRs)
    <3> DEFINE file == base.file
    <3>1. base \in AllSymbols(IRs)
      BY <2>1, <2>3 DEF IsTarget
    <3>2. file \in PyFiles
      BY <3>1, PySymbolsAreOfFiles
    <3> HIDE DEF second, file
    <3>3. PyLookup(IRs)[<<file, second, 0>>] \in {NONE} \union AllSymbols(IRs)
      BY <2>2, <3>2, PyLookupIsSymbol
    <3> QED
      BY <3>3 DEF file
  <2>4. PyMeans(IRs, f, path) = PyDotted(IRs, f, path)
    BY <1>2 DEF PyMeans
  <2>5. PyDotted(IRs, f, path) =
          IF Len(path) < 2 \/ base = NONE THEN NONE
          ELSE IF IsPackage(base) THEN base
          ELSE IF Len(path) > 2 THEN NONE
          ELSE PyLookup(IRs)[<<base.file, second, 0>>]
    BY DEF PyDotted, PyMemberOf
  <2> HIDE DEF base, second
  <2> QED
    BY <2>1, <2>3, <2>4, <2>5 DEF IsTarget
<1>3. CASE ~(Len(path) > 1)
  <2> DEFINE first == path[1]
  <2>1. PyLocal(IRs, f, first) = NONE \/ IsTarget(PyLocal(IRs, f, first))
    BY PyLocalIsTarget
  <2>2. ByName(IRs[f].order, first) \in {NONE} \union IRs[f].symbols
    <3>1. PyRead(f) \in Seq(PyStatements) /\ IRs[f].order = InOrder(f, PyRead(f))
          /\ IRs[f].symbols = {ModuleSymbol(f)} \union Declared(f, PyRead(f))
      BY PyShape
    <3> QED
      BY <3>1, NameOfTheOrder
  <2>3. ByName(IRs[f].order, first) \in {NONE} \union AllSymbols(IRs)
    BY <2>2, PyShape DEF AllSymbols
  <2>4. PyMeans(IRs, f, path) =
          IF PyLocal(IRs, f, first) # NONE THEN PyLocal(IRs, f, first) ELSE ByName(IRs[f].order, first)
    BY <1>3 DEF PyMeans
  <2> HIDE DEF first
  <2> QED
    BY <2>1, <2>3, <2>4 DEF IsTarget
<1> QED
  BY <1>2, <1>3

(* What resolving a Python file makes of each relationship.                 *)
LEMMA PyResolution ==
  ASSUME AdaptersInv, language = "python", NEW f \in PyFiles
  PROVE  /\ index[f].symbols = IRs[f].symbols
         /\ \A r \in IRs[f].relationships : r.kind = "Imports" =>
              [r EXCEPT !.to = PyTarget(IRs, f, r)] \in index[f].relationships
         /\ \A r \in IRs[f].relationships : r.kind \notin {"Imports", "Calls"} =>
              LET to == PyMeans(IRs, f, r.to.named)
              IN  IF to # NONE THEN \E k : [r EXCEPT !.to = to, !.kind = k] \in index[f].relationships
                  ELSE r.to.named \in PyBuiltin \/ r.line \in index[f].diagnostics
<1> DEFINE rels == IRs[f].relationships
           imports == {r \in rels : r.kind = "Imports"}
           means == [path \in {r.to.named : r \in rels \ imports} |-> PyMeans(IRs, f, path)]
           to(r) == means[r.to.named]
           kept == {r \in rels \ imports : to(r) # NONE /\ ~(r.kind = "Calls" /\ IsPackage(to(r)))}
           lost == {r \in rels \ imports : to(r) = NONE /\ r.kind # "Calls" /\ r.to.named \notin PyBuiltin}
           constructs(r) == r.kind = "Calls" /\ to(r).kind = "class"
           resolved == {[r EXCEPT !.to = PyTarget(IRs, f, r)] : r \in imports}
             \union {[r EXCEPT !.to = to(r), !.kind = IF constructs(r) THEN "Instantiates" ELSE @] : r \in kept}
           diagnosed == {r.line : r \in {r \in imports : PyIsMissing(IRs, f, r)} \union lost}
<1>1. index[f] = [IRs[f] EXCEPT !.relationships = resolved, !.diagnostics = diagnosed]
  <2>1. index[f] = ResolvePy(IRs, f)
    <3>1. FilesOf(language) = PyFiles
      BY DEF FilesOf
    <3>2. index[f] = Resolve(language, IRs, f)
      BY <3>1, Analysed
    <3> QED
      BY <3>2 DEF Resolve
  <2> QED
    BY <2>1 DEF ResolvePy
<1>2. IRs[f] = ExtractPy(f, sources[f])
  <2>1. FilesOf(language) = PyFiles
    BY DEF FilesOf
  <2>2. IRs[f] = Extract(language, f, sources[f])
    BY <2>1, Analysed
  <2> QED
    BY <2>2 DEF Extract
<1>3. DOMAIN IRs[f] = {"symbols", "order", "relationships", "diagnostics"}
  BY <1>2 DEF ExtractPy
<1>4. \A r \in rels \ imports : to(r) = PyMeans(IRs, f, r.to.named)
  OBVIOUS
<1>5. \A r \in rels : r.kind \notin {"Imports", "Calls"} => r \in rels \ imports
  OBVIOUS
<1> HIDE DEF means
<1>6. /\ \A r \in imports : [r EXCEPT !.to = PyTarget(IRs, f, r)] \in resolved
      /\ \A r \in kept : [r EXCEPT !.to = to(r), !.kind = IF constructs(r) THEN "Instantiates" ELSE @] \in resolved
      /\ \A r \in lost : r.line \in diagnosed
  OBVIOUS
<1> HIDE DEF resolved, diagnosed
<1>7. /\ index[f].symbols = IRs[f].symbols /\ index[f].relationships = resolved
      /\ index[f].diagnostics = diagnosed
  BY <1>1, <1>3
<1>8. ASSUME NEW r \in rels, r.kind \notin {"Imports", "Calls"}, to(r) # NONE
      PROVE  \E k : [r EXCEPT !.to = to(r), !.kind = k] \in resolved
  <2>1. r \in kept
    BY <1>5, <1>8
  <2> DEFINE k == IF constructs(r) THEN "Instantiates" ELSE r.kind
  <2>2. [r EXCEPT !.to = to(r), !.kind = k] \in resolved
    BY <1>6, <2>1
  <2> QED
    BY <2>2
<1>9. ASSUME NEW r \in rels, r.kind \notin {"Imports", "Calls"}, to(r) = NONE
      PROVE  r.to.named \in PyBuiltin \/ r.line \in diagnosed
  BY <1>5, <1>6, <1>9
<1>10. ASSUME NEW r \in rels, r.kind \notin {"Imports", "Calls"}
       PROVE  LET means_ == PyMeans(IRs, f, r.to.named)
              IN  IF means_ # NONE THEN \E k : [r EXCEPT !.to = means_, !.kind = k] \in resolved
                  ELSE r.to.named \in PyBuiltin \/ r.line \in diagnosed
  <2>1. to(r) = PyMeans(IRs, f, r.to.named)
    BY <1>4, <1>5, <1>10
  <2> HIDE DEF to
  <2> QED
    BY <1>8, <1>9, <1>10, <2>1
<1> QED
  BY <1>6, <1>7, <1>10

(* The symbols of a Python repository are those its files declare.          *)
LEMMA PySymbolsOfAll ==
  ASSUME AdaptersInv, language = "python"
  PROVE  SymbolsOfAll = AllSymbols(IRs)
<1>1. \A f \in PyFiles : index[f].symbols = IRs[f].symbols
  BY PyResolution
<1>2. DOMAIN index = PyFiles /\ DOMAIN IRs = PyFiles
  BY PyShape
<1> QED
  BY <1>1, <1>2 DEF SymbolsOfAll, AllSymbols

(* No relationship of a Python file is lost, unless it is a call.           *)
LEMMA PyFates ==
  ASSUME AdaptersInv, language = "python", NEW f \in PyFiles,
         NEW r \in IRs[f].relationships, r.kind # "Calls"
  PROVE  Fate(f, r, PyBuiltin)
<1>1. /\ r.from \in index[f].symbols /\ index[f].symbols = IRs[f].symbols
      /\ DOMAIN r = {"from", "to", "kind", "alias", "line"}
  BY PyRelationships, PyResolution
<1>2. CASE r.kind = "Imports"
  <2> DEFINE to == PyTarget(IRs, f, r)
             q == [r EXCEPT !.to = to]
  <2>1. q \in index[f].relationships
    BY <1>2, PyResolution
  <2>2. IsTarget(to)
    <3>1. r \in PyImports(f, PyRead(f)) /\ r.to.name \in Nat
      BY <1>2, PyRelationships
    <3> QED
      BY <3>1, PyTargetIsTarget
  <2> HIDE DEF to
  <2>3. q.from = r.from /\ q.to = to /\ q.line = r.line
    BY <1>1
  <2> HIDE DEF q
  <2>4. EdgesAt(f, r.line) # {}
    BY <1>1, <2>1, <2>2, <2>3, PySymbolsOfAll, AnEdge DEF IsTarget
  <2> QED
    BY <2>4 DEF Fate
<1>3. CASE r.kind # "Imports"
  <2> DEFINE path == r.to.named
             to == PyMeans(IRs, f, path)
  <2>1. IsNamed(r.to) /\ path \in Path
    BY <1>3, PyRelationships
  <2>2. to = NONE \/ IsTarget(to)
    <3> HIDE DEF path
    <3> QED
      BY <2>1, PyMeansIsTarget
  <2>3. IF to # NONE THEN \E k : [r EXCEPT !.to = to, !.kind = k] \in index[f].relationships
        ELSE path \in PyBuiltin \/ r.line \in index[f].diagnostics
    BY <1>3, PyResolution
  <2> HIDE DEF to
  <2>4. CASE to = NONE
    BY <2>1, <2>3, <2>4 DEF Fate, Reported
  <2>5. CASE to # NONE
    <3>1. PICK k : [r EXCEPT !.to = to, !.kind = k] \in index[f].relationships
      BY <2>3, <2>5
    <3> DEFINE q == [r EXCEPT !.to = to, !.kind = k]
    <3>2. q.from = r.from /\ q.to = to /\ q.line = r.line
      BY <1>1
    <3>3. q \in index[f].relationships
      BY <3>1
    <3> HIDE DEF q
    <3>4. EdgesAt(f, r.line) # {}
      BY <1>1, <2>2, <2>5, <3>2, <3>3, PySymbolsOfAll, AnEdge DEF IsTarget
    <3> QED
      BY <3>4 DEF Fate
  <2> QED
    BY <2>4, <2>5
<1> QED
  BY <1>2, <1>3

-----------------------------------------------------------------------------
(* What there is to show, file by file.                                     *)
Accounted(f, i) ==
  LET s == sources[f][i]
  IN  \/ EdgesAt(f, i) # {} \/ Reported(f, i) \/ ReportedMissing(f, s)
      \/ IsBuiltinName(s) \/ UsesNothing(s) \/ ExportsNothing(s) \/ IsImplOfNoStruct(f, s)
Takes == {"import", "reexport", "usetree", "include", "impl", "alias", "forward", "inherits", "symbol"}

ChargedIn(f) == {r \in IRs[f].relationships : r.kind = "AccessesProperty"}
EveryMemberIsCharged(f) ==
  \A i \in Written(f, {"access", "member"}) :
    LET s == sources[f][i]
        types == TypesOf(f, s)
    IN  Cardinality(types) = 1 /\ types = TypesHere(f, s) =>
          \A type \in types :
            \/ IsBuiltin(type) \/ IsElsewhere(IRs, f, type)
            \/ \E r \in ChargedIn(f) : /\ NamesType(r, type) /\ r.line <= i
                                       /\ \/ EdgesAt(f, r.line) # {} \/ Reported(f, r.line)
                                          \/ ReportedAs(f, Ts!TypeNamed(type))
EveryChargeIsOfAMember(f) ==
  \A r \in ChargedIn(f) :
    LET s == sources[f][r.line]
    IN  \/ \E type \in TypesOf(f, s) : NamesType(r, type)
        \/ language # "typescript" /\ s.var = Self /\ r.to.named = <<s.owner>>

(* The types a sequence of statements says are finitely many, and of one    *)
(* such set with one member that is the only one.                           *)
LEMMA OneType ==
  ASSUME NEW T, NEW source \in Seq(T), NEW S, S \subseteq Range(source), NEW types,
         types = {t.type : t \in S}, Cardinality(types) = 1, NEW type \in types
  PROVE  \A t \in S : t.type = type
<1> DEFINE all == DOMAIN source
           at == {i \in all : source[i] \in S}
           typeOf == [i \in at |-> source[i].type]
<1>1. IsFiniteSet(at)
  <2>1. at \subseteq 1 .. Len(source) /\ Len(source) \in Nat
    OBVIOUS
  <2> HIDE DEF at
  <2> QED
    BY <2>1, Positions
<1>2. types = {typeOf[i] : i \in at}
  <2>1. \A i \in at : typeOf[i] \in types
    OBVIOUS
  <2>2. ASSUME NEW u \in types PROVE \E i \in at : u = typeOf[i]
    <3>1. PICK t \in S : u = t.type
      OBVIOUS
    <3>2. PICK i \in DOMAIN source : source[i] = t
      BY DEF Range
    <3> QED
      BY <3>1, <3>2
  <2> HIDE DEF typeOf, at
  <2> QED
    BY <2>1, <2>2
<1>0. DOMAIN typeOf = at
  OBVIOUS
<1> HIDE DEF typeOf, at
<1>3. IsFiniteSet(types)
  <2>1. IsFiniteSet({typeOf[i] : i \in at})
    BY <1>0, <1>1, ImageIsFinite
  <2> QED
    BY <1>2, <2>1
<1>4. PICK u : types = {u}
  BY <1>3, FS_Singleton
<1> QED
  BY <1>4

(* Members in a file of any language but TypeScript.                        *)
Charged(f, source, builtin) ==
  {Rel(ModuleSymbol(f), Named(a[2]), "AccessesProperty", NONE, a[1]) :
     a \in MemberTypes(SaidTypes(source, Members(source)), builtin)}

(* If what is charged is what members say, and nothing charged is lost,     *)
(* then the members of the file are of their types.                         *)
LEMMA MembersOfFile ==
  ASSUME language # "typescript", NEW builtin, \A type : IsBuiltin(type) <=> type \in builtin,
         NEW f, NEW generated, IsLookedInto(f) <=> f \notin generated,
         NEW T, Read(generated, f) \in Seq(T), WellFormed(Read(generated, f)),
         ChargedIn(f) = Charged(f, Read(generated, f), builtin),
         \A r \in ChargedIn(f) : Fate(f, r, builtin) \/ IsElsewhere(IRs, f, r.to.named)
  PROVE  EveryMemberIsCharged(f) /\ EveryChargeIsOfAMember(f)
<1> DEFINE source == Read(generated, f)
<1>1. source \in Seq(T) /\ WellFormed(source) /\ ChargedIn(f) = Charged(f, source, builtin)
  OBVIOUS
<1>2. f \notin generated => source = sources[f]
  BY DEF Read
<1>3. f \in generated => source = << >>
  BY DEF Read
<1> HIDE DEF source
<1>4. EveryMemberIsCharged(f)
  <2> SUFFICES ASSUME NEW i \in Written(f, {"access", "member"}), NEW type \in TypesOf(f, sources[f][i]),
                      Cardinality(TypesOf(f, sources[f][i])) = 1,
                      TypesOf(f, sources[f][i]) = TypesHere(f, sources[f][i]),
                      ~IsBuiltin(type), ~IsElsewhere(IRs, f, type)
               PROVE  \E r \in ChargedIn(f) : /\ NamesType(r, type) /\ r.line <= i
                                              /\ EdgesAt(f, r.line) # {} \/ Reported(f, r.line)
    BY DEF EveryMemberIsCharged
  <2>1. source = sources[f] /\ i \in DOMAIN source /\ source[i].is = "member"
    BY <1>1, <1>2 DEF Written, WellFormed
  <2> DEFINE s == source[i]
             var == s.var
  <2>2. Typings(f, s) = TypedAs(source, var)
    BY <2>1 DEF Typings, TypedAs
  <2>3. IsOnly(source, var, type)
    <3> DEFINE S == TypedAs(source, var)
               types == TypesOf(f, s)
    <3>1. S \subseteq Range(source) /\ types = {t.type : t \in S} /\ Cardinality(types) = 1 /\ type \in types
      BY <2>1, <2>2 DEF TypesOf, TypedAs
    <3> HIDE DEF S, types
    <3>2. \A t \in S : t.type = type
      BY <1>1, <3>1, OneType
    <3> QED
      BY <3>2 DEF IsOnly, S
  <2>4. IsSaidAt(source, s.owner, s.path, var)
    <3>1. type \in TypesHere(f, s)
      BY <2>1
    <3> QED
      BY <2>2, <3>1 DEF TypesHere, IsTypedHere, IsSaidAt
  <2>5. type # NONE /\ type \notin builtin
    BY <2>1 DEF TypesOf, Typings
  <2>6. PICK a \in MemberTypes(SaidTypes(source, Members(source)), builtin) : a[2] = type /\ a[1] <= i
    <3>1. i \in Statements(source, "member")
      BY <2>1 DEF Statements
    <3> QED
      BY <1>1, <2>3, <2>4, <2>5, <3>1, MemberIsCharged
  <2> DEFINE r == Rel(ModuleSymbol(f), Named(a[2]), "AccessesProperty", NONE, a[1])
  <2>7. r \in ChargedIn(f)
    BY <1>1 DEF Charged
  <2>8. r.to.named = type /\ IsNamed(r.to) /\ r.line = a[1]
    BY <2>6 DEF Rel, Named, IsNamed
  <2> HIDE DEF r
  <2>9. EdgesAt(f, r.line) # {} \/ Reported(f, r.line)
    BY <2>5, <2>7, <2>8 DEF Fate
  <2> QED
    BY <2>6, <2>7, <2>8, <2>9 DEF NamesType
<1>5. EveryChargeIsOfAMember(f)
  <2> SUFFICES ASSUME NEW r \in ChargedIn(f)
               PROVE  LET s == sources[f][r.line]
                      IN  \/ \E type \in TypesOf(f, s) : NamesType(r, type)
                          \/ s.var = Self /\ r.to.named = <<s.owner>>
    BY DEF EveryChargeIsOfAMember
  <2>1. PICK a \in MemberTypes(SaidTypes(source, Members(source)), builtin) :
          r = Rel(ModuleSymbol(f), Named(a[2]), "AccessesProperty", NONE, a[1])
    BY <1>1 DEF Charged
  <2> DEFINE s == source[a[1]]
  <2>2. /\ a[1] \in Statements(source, "member")
        /\ \/ \E t \in TypedAs(source, s.var) : t.type = a[2]
           \/ s.var = Self /\ a[2] = <<s.owner>>
    BY <1>1, ChargedIsMember
  <2>3. source = sources[f]
    BY <1>2, <1>3, <2>2 DEF Statements
  <2>4. r.line = a[1] /\ r.to.named = a[2] /\ IsNamed(r.to)
    BY <2>1 DEF Rel, Named, IsNamed
  <2>5. ASSUME NEW t \in TypedAs(source, s.var), t.type = a[2]
        PROVE  a[2] \in TypesOf(f, s)
    BY <2>3, <2>5 DEF TypesOf, Typings, TypedAs
  <2> QED
    BY <2>2, <2>3, <2>4, <2>5 DEF NamesType
<1> QED
  BY <1>4, <1>5

(* Nothing a Python file says is lost.                                      *)
LEMMA PyLosesNothing ==
  ASSUME AdaptersInv, language = "python", NEW f \in DOMAIN sources, NEW i \in Written(f, Takes)
  PROVE  Accounted(f, i)
<1> DEFINE source == PyRead(f)
           s == source[i]
<1>1. f \in PyFiles /\ source = sources[f] /\ i \in DOMAIN source /\ s.is \in Takes /\ s \in PyStatements
  <2>1. f \in PyFiles /\ f \notin PyGenerated /\ i \in DOMAIN sources[f] /\ sources[f][i].is \in Takes
    BY PyShape DEF Written, IsLookedInto
  <2>2. source = sources[f]
    BY <2>1 DEF PyRead, Read
  <2>3. source \in Seq(PyStatements)
    BY <2>1, PyShape
  <2> QED
    BY <2>1, <2>2, <2>3
<1>2. s.is \in {"import", "symbol"}
  BY <1>1 DEF PyStatements, SharedStatements, Takes
<1>3. PyBases(f, source) \union PyImports(f, source) \subseteq IRs[f].relationships
  BY <1>1, PyShape
<1> HIDE DEF source
<1>4. CASE s.is = "import"
  <2> DEFINE r == Rel(ModuleSymbol(f), PyMember(s.spec, s.name), "Imports", s.alias, i)
  <2>1. r \in PyImports(f, source)
    BY <1>1, <1>4 DEF PyImports, Statements
  <2>2. r.kind = "Imports" /\ r.line = i /\ ~IsNamed(r.to)
    BY DEF Rel, PyMember, IsNamed
  <2> HIDE DEF r
  <2>3. Fate(f, r, PyBuiltin)
    BY <1>1, <1>3, <2>1, <2>2, PyFates
  <2> QED
    BY <2>2, <2>3 DEF Fate, Accounted
<1>5. CASE s.is = "symbol" /\ ~IsBuiltinName(s)
  <2>1. PICK base \in s.bases : "bases" \in DOMAIN s /\ base \notin PyBuiltin
    BY <1>5 DEF IsBuiltinName
  <2> DEFINE r == Rel(SymbolAt(f, s), Named(base), "Extends", NONE, i)
  <2>2. r \in PyBases(f, source)
    BY <1>1, <1>5, <2>1 DEF PyBases, Statements
  <2>3. r.kind = "Extends" /\ r.line = i /\ r.to.named = base
    BY DEF Rel, Named
  <2> HIDE DEF r
  <2>4. Fate(f, r, PyBuiltin)
    BY <1>1, <1>3, <2>2, <2>3, PyFates
  <2> QED
    BY <2>1, <2>3, <2>4 DEF Fate, Accounted
<1>6. CASE IsBuiltinName(s)
  BY <1>1, <1>6 DEF Accounted
<1> QED
  BY <1>2, <1>4, <1>5, <1>6

(* And its members are charged to their types.                              *)
LEMMA PyMembers ==
  ASSUME AdaptersInv, language = "python", NEW f \in DOMAIN sources
  PROVE  EveryMemberIsCharged(f) /\ EveryChargeIsOfAMember(f)
<1> DEFINE source == Read(PyGenerated, f)
           T == PyStatements
<1>1. f \in PyFiles /\ source \in Seq(T) /\ WellFormed(source)
  BY PyShape DEF PyRead
<1>2. ChargedIn(f) = Charged(f, source, PyBuiltin)
  <2>1. IRs[f].relationships = PyBases(f, source) \union PyImports(f, source)
                                 \union PyCalls(f, source) \union PyAccesses(f, source)
    BY <1>1, PyShape DEF PyRead
  <2>2. PyAccesses(f, source) = Charged(f, source, PyBuiltin)
    BY DEF PyAccesses, Charged, PyBound, SaidTypes
  <2> HIDE DEF source
  <2>3. \A r \in PyBases(f, source) \union PyImports(f, source) \union PyCalls(f, source) :
          r.kind # "AccessesProperty"
    BY DEF PyBases, PyImports, PyCalls, Rel
  <2>4. \A r \in Charged(f, source, PyBuiltin) : r.kind = "AccessesProperty"
    BY DEF Charged, Rel
  <2> QED
    BY <2>1, <2>2, <2>3, <2>4 DEF ChargedIn
<1>3. \A type : IsBuiltin(type) <=> type \in PyBuiltin
  BY DEF IsBuiltin
<1>4. IsLookedInto(f) <=> f \notin PyGenerated
  BY DEF IsLookedInto
<1>5. \A r \in ChargedIn(f) : Fate(f, r, PyBuiltin)
  BY <1>1, PyFates DEF ChargedIn
<1> HIDE DEF T
<1>6. language # "typescript"
  OBVIOUS
<1> QED
  BY <1>1, <1>2, <1>3, <1>4, <1>5, <1>6, MembersOfFile

(* A symbol of a Python file is something.                                  *)
LEMMA PySymbolsAreSomething ==
  ASSUME AdaptersInv, language = "python", NEW s \in AllSymbols(IRs)
  PROVE  s # NONE
<1> DEFINE S == [file : Nat, name : Nat, owner : Owner, kind : SymbolKinds]
<1>1. PICK f \in PyFiles : s \in IRs[f].symbols /\ f \in Nat
  BY PyShape DEF AllSymbols
<1>2. CASE s = ModuleSymbol(f)
  <2>1. ModuleSymbol(f) \in S
    BY <1>1 DEF ModuleSymbol, Owner, SymbolKinds
  <2> QED
    BY <1>2, <2>1, FilesAssumption
<1>3. CASE s \in Declared(f, PyRead(f))
  <2>1. PICK i \in DOMAIN PyRead(f) : PyRead(f)[i].is = "symbol" /\ s = SymbolAt(f, PyRead(f)[i])
    BY <1>3 DEF Declared, Statements
  <2> DEFINE t == PyRead(f)[i]
  <2>2. t \in PyStatements
    BY <1>1, PyShape
  <2>3. t.name \in Nat /\ t.owner \in Owner /\ t.kind \in SymbolKinds
    BY <2>1, <2>2 DEF PyStatements, SharedStatements, SymbolKinds
  <2>4. SymbolAt(f, t) \in S
    BY <1>1, <2>3 DEF SymbolAt
  <2> QED
    BY <2>1, <2>4, FilesAssumption
<1> QED
  BY <1>1, <1>2, <1>3, PyShape

(* A module's name is a sequence of names.                                  *)
LEMMA PyAbsoluteIsPath ==
  ASSUME NEW f \in PyFiles, NEW spec \in [dots : Nat, path : Seq(Nat)]
  PROVE  PyAbsolute(f, spec) \in Seq(Nat)
<1> DEFINE package == PyDirectory[f]
           up == IF spec.dots > Len(package) THEN Len(package) ELSE spec.dots - 1
           rest == spec.path
<1>1. package \in Seq(Nat) /\ spec.dots \in Nat /\ rest \in Seq(Nat)
  BY FilesAssumption
<1>2. Len(package) \in Nat
  BY <1>1
<1>3. spec.dots # 0 => Len(package) - up \in 0 .. Len(package)
  BY <1>1, <1>2
<1>4. PyAbsolute(f, spec) = IF spec.dots = 0 THEN rest ELSE SubSeq(package, 1, Len(package) - up) \o rest
  BY DEF PyAbsolute
<1> HIDE DEF package, up, rest
<1>5. spec.dots # 0 => SubSeq(package, 1, Len(package) - up) \in Seq(Nat)
  BY <1>1, <1>3
<1> QED
  BY <1>1, <1>4, <1>5

(* An import leads somewhere.                                               *)
LEMMA PyTargetIsSomething ==
  ASSUME AdaptersInv, language = "python", NEW f \in PyFiles, NEW r \in PyImports(f, PyRead(f))
  PROVE  PyTarget(IRs, f, r) # NONE
<1>1. PICK i \in DOMAIN PyRead(f) :
        /\ PyRead(f)[i].is = "import"
        /\ r = Rel(ModuleSymbol(f), PyMember(PyRead(f)[i].spec, PyRead(f)[i].name), "Imports", PyRead(f)[i].alias, i)
  BY DEF PyImports, Statements
<1>2. PyRead(f)[i] \in PyStatements
  BY PyShape
<1>3. r.to.spec \in [dots : Nat, path : Seq(Nat)] /\ r.to.name \in Nat
  BY <1>1, <1>2 DEF PyStatements, SharedStatements, Rel, PyMember
<1> DEFINE module == PyAbsolute(f, r.to.spec)
<1>4. module \in Seq(Nat)
  BY <1>3, PyAbsoluteIsPath
<1>5. CASE PyFileOf(module) = NONE
  <2>1. (IF module = << >> THEN 0 ELSE Head(module)) \in Nat
    <3> HIDE DEF module
    <3> QED
      BY <1>4
  <2>2. PyTarget(IRs, f, r) \in [package : Nat]
    BY <1>5, <2>1 DEF PyTarget, PackageNode
  <2> QED
    BY <2>2, FilesAssumption
<1>6. CASE PyFileOf(module) # NONE
  <2> DEFINE target == PyFileOf(module)
             found == PyLookup(IRs)[<<target, r.to.name, 0>>]
  <2>1. PyTarget(IRs, f, r) = IF target = NONE THEN PackageNode(IF module = << >> THEN 0 ELSE Head(module))
                              ELSE IF r.to.name = All \/ found = NONE THEN ModuleSymbol(target) ELSE found
    BY DEF PyTarget
  <2>2. target \in PyFiles
    BY <1>6, PyFileOfIsFile
  <2>3. ModuleSymbol(target) \in AllSymbols(IRs)
    BY <2>2, PyShape DEF AllSymbols
  <2> HIDE DEF target
  <2>4. ModuleSymbol(target) # NONE
    BY <2>3, PySymbolsAreSomething
  <2> HIDE DEF found
  <2> QED
    BY <1>6, <2>1, <2>4 DEF target
<1> QED
  BY <1>5, <1>6

(* What is in the index of a Python file comes from what was extracted, and *)
(* a call of a symbol stays.                                                *)
LEMMA PyResolvedParts ==
  ASSUME AdaptersInv, language = "python", NEW f \in PyFiles
  PROVE  /\ \A r \in index[f].relationships : \E q \in IRs[f].relationships :
              /\ r.line = q.line /\ r.from = q.from
              /\ r.to = IF q.kind = "Imports" THEN PyTarget(IRs, f, q) ELSE PyMeans(IRs, f, q.to.named)
         /\ \A q \in IRs[f].relationships : q.kind = "Calls" =>
              LET to == PyMeans(IRs, f, q.to.named)
              IN  to # NONE /\ ~IsPackage(to) => \E k : [q EXCEPT !.to = to, !.kind = k] \in index[f].relationships
<1> DEFINE rels == IRs[f].relationships
           imports == {r \in rels : r.kind = "Imports"}
           means == [path \in {r.to.named : r \in rels \ imports} |-> PyMeans(IRs, f, path)]
           to(r) == means[r.to.named]
           kept == {r \in rels \ imports : to(r) # NONE /\ ~(r.kind = "Calls" /\ IsPackage(to(r)))}
           constructs(r) == r.kind = "Calls" /\ to(r).kind = "class"
           kind(r) == IF constructs(r) THEN "Instantiates" ELSE r.kind
           led == {[r EXCEPT !.to = PyTarget(IRs, f, r)] : r \in imports}
           bound == {[r EXCEPT !.to = to(r), !.kind = IF constructs(r) THEN "Instantiates" ELSE @] : r \in kept}
<1>1. index[f].relationships = led \union bound
  <2>1. FilesOf(language) = PyFiles
    BY DEF FilesOf
  <2>2. IRs[f] = Extract(language, f, sources[f]) /\ index[f] = Resolve(language, IRs, f)
    BY <2>1, Analysed
  <2>3. IRs[f] = ExtractPy(f, sources[f]) /\ index[f] = ResolvePy(IRs, f)
    BY <2>2 DEF Extract, Resolve
  <2>4. DOMAIN IRs[f] = {"symbols", "order", "relationships", "diagnostics"}
    BY <2>3 DEF ExtractPy
  <2> QED
    BY <2>3, <2>4 DEF ResolvePy
<1>2. \A r \in rels \ imports : to(r) = PyMeans(IRs, f, r.to.named)
  OBVIOUS
<1>3. \A q \in rels : DOMAIN q = {"from", "to", "kind", "alias", "line"}
  BY PyRelationships
<1> HIDE DEF means
<1>4. ASSUME NEW r \in led
      PROVE  \E q \in imports : r.line = q.line /\ r.from = q.from /\ r.to = PyTarget(IRs, f, q)
  <2>1. PICK q \in imports : r = [q EXCEPT !.to = PyTarget(IRs, f, q)]
    OBVIOUS
  <2> QED
    BY <1>3, <2>1
<1>5. ASSUME NEW r \in bound
      PROVE  \E q \in rels \ imports : r.line = q.line /\ r.from = q.from /\ r.to = PyMeans(IRs, f, q.to.named)
  <2>1. PICK q \in kept : r = [q EXCEPT !.to = to(q), !.kind = kind(q)]
    OBVIOUS
  <2>2. q \in rels \ imports
    OBVIOUS
  <2> HIDE DEF kept, kind, to
  <2> QED
    BY <1>2, <1>3, <2>1, <2>2
<1>6. ASSUME NEW q \in rels, q.kind = "Calls", to(q) # NONE, ~IsPackage(to(q))
      PROVE  \E k : [q EXCEPT !.to = to(q), !.kind = k] \in bound
  <2>1. q \in kept
    BY <1>6
  <2>2. [q EXCEPT !.to = to(q), !.kind = kind(q)] \in bound
    BY <2>1
  <2> QED
    BY <2>2
<1>7. \A q \in rels : q.kind = "Calls" => to(q) = PyMeans(IRs, f, q.to.named)
  BY <1>2
<1> HIDE DEF led, bound, to
<1>8. \A r \in led \union bound : \E q \in rels :
        /\ r.line = q.line /\ r.from = q.from
        /\ r.to = IF q.kind = "Imports" THEN PyTarget(IRs, f, q) ELSE PyMeans(IRs, f, q.to.named)
  BY <1>4, <1>5
<1> QED
  BY <1>1, <1>6, <1>7, <1>8

(* The relationship a Python import is.                                     *)
PyImportAt(f, i) ==
  Rel(ModuleSymbol(f), PyMember(sources[f][i].spec, sources[f][i].name), "Imports", sources[f][i].alias, i)

(* The imports of a name are the relationships that are known by it.        *)
LEMMA PyImportsOf ==
  ASSUME AdaptersInv, language = "python", NEW f \in PyFiles, f \notin PyGenerated, NEW name
  PROVE  {r \in IRs[f].relationships : r.kind = "Imports" /\ PyLocalName(f, r) = name}
           = {PyImportAt(f, j) : j \in ImportsOf(f, name)}
<1> DEFINE source == PyRead(f)
           T == Statements(source, "import")
<1>1. source = sources[f] /\ source \in Seq(PyStatements)
  <2>1. source = sources[f]
    BY DEF PyRead, Read
  <2> QED
    BY <2>1, PyShape
<1>2. ASSUME NEW j \in DOMAIN source PROVE source[j].is # "usetree"
  BY <1>1, <1>2 DEF PyStatements, SharedStatements
<1>3. Written(f, {"import", "usetree"}) = T
  BY <1>1, <1>2 DEF Written, IsLookedInto, Statements
<1>4. ASSUME NEW j \in T PROVE name \in LocalNames(f, sources[f][j]) <=> PyLocalName(f, PyImportAt(f, j)) = name
  <2> DEFINE s == source[j]
             q == Rel(ModuleSymbol(f), PyMember(s.spec, s.name), "Imports", s.alias, 1)
  <2>1. s.is = "import" /\ s = sources[f][j]
    BY <1>1 DEF Statements
  <2> HIDE DEF s
  <2>2. PyImports(f, <<s>>) = {q}
    <3>1. DOMAIN <<s>> = {1} /\ <<s>>[1] = s
      OBVIOUS
    <3>2. Statements(<<s>>, "import") = {1}
      BY <2>1, <3>1 DEF Statements
    <3> QED
      BY <3>1, <3>2 DEF PyImports
  <2>3. LocalNames(f, s) = {PyLocalName(f, q)}
    BY <2>1, <2>2 DEF LocalNames
  <2>4. PyLocalName(f, q) = PyLocalName(f, PyImportAt(f, j))
    BY <2>1 DEF PyLocalName, PyImportAt, Rel
  <2> QED
    BY <2>1, <2>3, <2>4
<1>5. ImportsOf(f, name) = {j \in T : PyLocalName(f, PyImportAt(f, j)) = name}
  BY <1>3, <1>4 DEF ImportsOf
<1>6. {r \in IRs[f].relationships : r.kind = "Imports"} = {PyImportAt(f, j) : j \in T}
  <2>1. PyImports(f, source) = {PyImportAt(f, j) : j \in T}
    BY <1>1 DEF PyImports, PyImportAt
  <2>2. PyImports(f, source) \subseteq IRs[f].relationships
    BY PyShape
  <2>3. \A r \in PyImports(f, source) : r.kind = "Imports"
    BY DEF PyImports, Rel
  <2>4. \A r \in IRs[f].relationships : r.kind = "Imports" => r \in PyImports(f, source)
    BY PyRelationships
  <2> QED
    BY <2>1, <2>2, <2>3, <2>4
<1> HIDE DEF T, source
<1> QED
  BY <1>5, <1>6

(* What is in the index of a line of a Python file is of the statement that *)
(* is written there.                                                        *)
LEMMA PyLineOf ==
  ASSUME AdaptersInv, language = "python", NEW f \in PyFiles, NEW q \in IRs[f].relationships
  PROVE  /\ PyRead(f)[q.line].is = "import" => q.kind = "Imports"
         /\ PyRead(f)[q.line].is = "use" => /\ q.kind = "Calls" /\ q.to.named = PyRead(f)[q.line].path
<1> DEFINE source == PyRead(f)
<1>1. /\ source \in Seq(PyStatements) /\ WellFormed(source)
      /\ q \in PyBases(f, source) \union PyImports(f, source) \union PyCalls(f, source) \union PyAccesses(f, source)
  BY PyShape
<1> HIDE DEF source
<1>2. CASE q \in PyBases(f, source)
  <2>1. source[q.line].is = "symbol"
    BY <1>2 DEF PyBases, Statements, Rel
  <2> QED
    BY <2>1 DEF source
<1>3. CASE q \in PyImports(f, source)
  <2>1. source[q.line].is = "import" /\ q.kind = "Imports"
    BY <1>3 DEF PyImports, Statements, Rel
  <2> QED
    BY <2>1 DEF source
<1>4. CASE q \in PyCalls(f, source)
  <2>1. source[q.line].is = "use" /\ q.kind = "Calls" /\ q.to.named = source[q.line].path
    BY <1>4 DEF PyCalls, Statements, Rel, Named
  <2> QED
    BY <2>1 DEF source
<1>5. CASE q \in PyAccesses(f, source)
  <2>1. PICK a \in MemberTypes(SaidTypes(source, Members(source)), PyBuiltin) :
          q = Rel(ModuleSymbol(f), Named(a[2]), "AccessesProperty", NONE, a[1])
    BY <1>5 DEF PyAccesses, PyBound, SaidTypes
  <2>2. source[a[1]].is = "member"
    BY <1>1, <2>1, ChargedIsMember DEF Statements
  <2>3. q.line = a[1]
    BY <2>1 DEF Rel
  <2> QED
    BY <2>2, <2>3 DEF source
<1> QED
  BY <1>1, <1>2, <1>3, <1>4, <1>5

(* In Python a use leads where the last import of its name does.            *)
LEMMA PyUses ==
  ASSUME AdaptersInv, language = "python", NEW f \in DOMAIN sources, NEW i \in Written(f, {"use"})
  PROVE  FollowsImport(f, i)
<1> DEFINE s == sources[f][i]
           name == UsedName(s)
           last == LastOfImports(f, name)
           import == PyImportAt(f, last)
           to == PyTarget(IRs, f, import)
<1>1. /\ f \in PyFiles /\ f \notin PyGenerated /\ PyRead(f) = sources[f]
      /\ sources[f] \in Seq(PyStatements) /\ i \in DOMAIN sources[f] /\ s.is = "use" /\ s.path \in Path
  <2>1. f \in PyFiles /\ f \notin PyGenerated /\ i \in DOMAIN sources[f] /\ s.is = "use"
    BY PyShape DEF Written, IsLookedInto
  <2>2. PyRead(f) = sources[f]
    BY <2>1 DEF PyRead, Read
  <2>3. sources[f] \in Seq(PyStatements) /\ WellFormed(sources[f])
    BY <2>1, <2>2, PyShape
  <2> QED
    BY <2>1, <2>2, <2>3 DEF WellFormed
<1> SUFFICES ASSUME name # NONE, ImportsOf(f, name) # {}, {r.to : r \in EdgesAt(f, last)} # {}
             PROVE  /\ {r.to : r \in EdgesAt(f, i)} \subseteq {r.to : r \in EdgesAt(f, last)}
                    /\ EdgesAt(f, i) # {} \/ \E t \in {r.to : r \in EdgesAt(f, last)} : IsPackage(t)
  BY DEF FollowsImport
<1>2. Len(s.path) = 1 /\ name = s.path[1]
  BY DEF UsedName
<1>3. /\ last \in ImportsOf(f, name) /\ \A k \in ImportsOf(f, name) : k <= last
      /\ ImportsOf(f, name) \subseteq DOMAIN sources[f] /\ DOMAIN sources[f] \subseteq Nat
  <2> HIDE DEF name
  <2> QED
    BY <1>1, LastImport
<1>4. sources[f][last].is = "import"
  <2>1. last \in DOMAIN sources[f] /\ sources[f][last].is \in {"import", "usetree"}
    BY <1>3 DEF ImportsOf, Written
  <2>2. sources[f][last] \in PyStatements
    BY <1>1, <2>1
  <2> QED
    BY <2>1, <2>2 DEF PyStatements, SharedStatements
<1> HIDE DEF name, last
<1> DEFINE of == {r \in IRs[f].relationships : r.kind = "Imports" /\ PyLocalName(f, r) = name}
<1>5. of = {PyImportAt(f, j) : j \in ImportsOf(f, name)} /\ \A j : PyImportAt(f, j).line = j
  BY <1>1, PyImportsOf DEF PyImportAt, Rel
<1>6. \A r \in of : r \in IRs[f].relationships /\ r.kind = "Imports"
  OBVIOUS
<1>7. PyLocal(IRs, f, name) = IF of = {} THEN NONE ELSE PyTarget(IRs, f, Latest(of))
  BY DEF PyLocal
<1> HIDE DEF of
<1>8. Latest(of) = import /\ import \in of
  <2>1. Latest(of) \in of /\ \A r \in of : r.line <= Latest(of).line
    BY <1>1, <1>3, <1>5, <1>6, PyLatestImport
  <2>2. PICK j \in ImportsOf(f, name) : Latest(of) = PyImportAt(f, j)
    BY <1>5, <2>1
  <2>3. last <= j /\ j <= last /\ j \in Nat /\ last \in Nat
    BY <1>3, <1>5, <2>1, <2>2
  <2>4. j = last
    BY <2>3
  <2> QED
    BY <1>3, <1>5, <2>2, <2>4
<1>9. import \in PyImports(f, PyRead(f)) /\ import.to.name \in Nat
  BY <1>1, <1>6, <1>8, PyRelationships
<1>10. PyLocal(IRs, f, name) = to
  BY <1>5, <1>7, <1>8
<1>11. to # NONE /\ IsTarget(to)
  <2> HIDE DEF import
  <2> QED
    BY <1>1, <1>9, PyTargetIsSomething, PyTargetIsTarget
<1>12. PyMeans(IRs, f, s.path) = to
  BY <1>2, <1>10, <1>11 DEF PyMeans
<1>13. \A q \in IRs[f].relationships : q.line = last => q = import
  <2>1. ASSUME NEW q \in IRs[f].relationships, q.line = last PROVE q = import
    <3>1. q.kind = "Imports"
      BY <1>1, <1>4, <2>1, PyLineOf
    <3>2. q \in PyImports(f, PyRead(f))
      BY <1>1, <3>1, PyRelationships
    <3> QED
      BY <1>1, <2>1, <3>2 DEF PyImports, PyImportAt, Rel
  <2> QED
    BY <2>1
<1> HIDE DEF import
<1>14. \A r \in EdgesAt(f, last) : r.to = to
  <2>1. ASSUME NEW r \in index[f].relationships, r.line = last PROVE r.to = to
    <3>1. PICK q \in IRs[f].relationships :
            /\ r.line = q.line
            /\ r.to = IF q.kind = "Imports" THEN PyTarget(IRs, f, q) ELSE PyMeans(IRs, f, q.to.named)
      BY <1>1, PyResolvedParts
    <3>2. q = import /\ q.kind = "Imports"
      BY <1>6, <1>8, <1>13, <2>1, <3>1
    <3> QED
      BY <3>1, <3>2
  <2> QED
    BY <2>1 DEF EdgesAt
<1>15. \A r \in EdgesAt(f, i) : r.to = to
  <2>1. ASSUME NEW r \in index[f].relationships, r.line = i PROVE r.to = to
    <3>1. PICK q \in IRs[f].relationships :
            /\ r.line = q.line
            /\ r.to = IF q.kind = "Imports" THEN PyTarget(IRs, f, q) ELSE PyMeans(IRs, f, q.to.named)
      BY <1>1, PyResolvedParts
    <3>2. q.kind = "Calls" /\ q.to.named = s.path
      BY <1>1, <2>1, <3>1, PyLineOf
    <3> QED
      BY <1>12, <3>1, <3>2
  <2> QED
    BY <2>1 DEF EdgesAt
<1>16. IsPackage(to) \/ EdgesAt(f, i) # {}
  <2> SUFFICES ASSUME ~IsPackage(to) PROVE EdgesAt(f, i) # {}
    OBVIOUS
  <2> DEFINE q == Rel(ModuleSymbol(f), Named(s.path), "Calls", NONE, i)
  <2>1. q \in PyCalls(f, PyRead(f))
    BY <1>1, <1>2 DEF PyCalls, Statements
  <2>2. q \in IRs[f].relationships
    BY <1>1, <2>1, PyShape
  <2>3. q.kind = "Calls" /\ q.to.named = s.path /\ q.line = i /\ q.from = ModuleSymbol(f)
    BY DEF Rel, Named
  <2>4. \A t, k : /\ [q EXCEPT !.to = t, !.kind = k].line = i /\ [q EXCEPT !.to = t, !.kind = k].to = t
                  /\ [q EXCEPT !.to = t, !.kind = k].from = ModuleSymbol(f)
    BY DEF Rel
  <2> HIDE DEF q, to
  <2>5. PICK k : [q EXCEPT !.to = to, !.kind = k] \in index[f].relationships
    <3> DEFINE means == PyMeans(IRs, f, q.to.named)
    <3>1. means # NONE /\ ~IsPackage(means) => \E k : [q EXCEPT !.to = means, !.kind = k] \in index[f].relationships
      BY <1>1, <2>2, <2>3, PyResolvedParts
    <3>2. means = to
      BY <1>12, <2>3
    <3> HIDE DEF means
    <3> QED
      BY <1>11, <3>1, <3>2
  <2>6. ModuleSymbol(f) \in index[f].symbols
    BY <1>1, PyShape, PyResolution
  <2>7. to \in SymbolsOfAll
    BY <1>11, PySymbolsOfAll DEF IsTarget
  <2> DEFINE e == [q EXCEPT !.to = to, !.kind = k]
  <2>8. e \in index[f].relationships /\ e.line = i /\ e.from \in index[f].symbols /\ e.to \in SymbolsOfAll
    BY <2>4, <2>5, <2>6, <2>7
  <2> HIDE DEF e
  <2> QED
    BY <2>8, AnEdge
<1> HIDE DEF to
<1>17. {r.to : r \in EdgesAt(f, last)} = {to}
  BY <1>14
<1> QED
  BY <1>15, <1>16, <1>17

-----------------------------------------------------------------------------
(* Go. The parts of its statements.                                         *)
LEMMA GoStatementParts ==
  ASSUME NEW s \in GoStatements
  PROVE  /\ s.is # "access"
         /\ s.is \in {"typed", "member", "use"} => s.path \in Path
         /\ s.is = "typed" => s.type \in Path \union {NONE} /\ s.parameter \in BOOLEAN
         /\ s.is = "member" => s.owner \in Nat \union {NONE}
         /\ s.is = "symbol" => s.name \in Nat
         /\ s.is = "import" => s.path \in Path
         /\ s.is = "refer" => s.type \in Path
         /\ s.is \in Takes => s.is \in {"import", "symbol"}
         /\ s.is = "symbol" => "bases" \notin DOMAIN s
  BY DEF GoStatements, SharedStatements, Owner, Takes

GoRead(f) == Read(GoGenerated, f)

(* The files of a Go repository and what was extracted from them.           *)
LEMMA GoShape ==
  ASSUME AdaptersInv, language = "go"
  PROVE  /\ DOMAIN sources = GoFiles /\ DOMAIN IRs = GoFiles /\ DOMAIN index = GoFiles
         /\ IsFiniteSet(GoFiles) /\ GoFiles \subseteq Nat
         /\ \A f \in GoFiles :
              /\ GoRead(f) \in Seq(GoStatements) /\ WellFormed(GoRead(f))
              /\ IRs[f].symbols = {ModuleSymbol(f)} \union Declared(f, GoRead(f))
              /\ IRs[f].order = InOrder(f, GoRead(f))
              /\ IRs[f].relationships = GoImports(f, GoRead(f)) \union GoCalls(f, GoRead(f))
                                          \union GoAccesses(f, GoRead(f)) \union GoTypeReferences(f, GoRead(f))
              /\ DOMAIN IRs[f] = {"symbols", "order", "relationships", "diagnostics"}
              /\ index[f] = ResolveGo(IRs, f)
<1>1. FilesOf(language) = GoFiles /\ StatementsOf(language) = GoStatements
  BY DEF FilesOf, StatementsOf
<1>2. DOMAIN sources = GoFiles /\ DOMAIN IRs = GoFiles /\ DOMAIN index = GoFiles
  BY <1>1, Analysed
<1>3. ASSUME NEW f \in GoFiles
      PROVE  /\ GoRead(f) \in Seq(GoStatements) /\ WellFormed(GoRead(f))
             /\ IRs[f].symbols = {ModuleSymbol(f)} \union Declared(f, GoRead(f))
             /\ IRs[f].order = InOrder(f, GoRead(f))
             /\ IRs[f].relationships = GoImports(f, GoRead(f)) \union GoCalls(f, GoRead(f))
                                         \union GoAccesses(f, GoRead(f)) \union GoTypeReferences(f, GoRead(f))
             /\ DOMAIN IRs[f] = {"symbols", "order", "relationships", "diagnostics"}
             /\ index[f] = ResolveGo(IRs, f)
  <2>1. /\ sources[f] \in Seq(GoStatements) /\ IRs[f] = Extract(language, f, sources[f])
        /\ index[f] = Resolve(language, IRs, f)
    BY <1>1, <1>3, Analysed
  <2>2. GoRead(f) \in Seq(GoStatements)
    BY <2>1 DEF GoRead, Read
  <2>3. \A i \in DOMAIN GoRead(f) : GoRead(f)[i] \in GoStatements
    BY <2>2
  <2>4. WellFormed(GoRead(f))
    BY <2>3, GoStatementParts DEF WellFormed
  <2>5. IRs[f] = ExtractGo(f, sources[f])
    BY <2>1 DEF Extract
  <2>6. GoSymbols(f, GoRead(f)) = {ModuleSymbol(f)} \union Declared(f, GoRead(f))
    BY DEF GoSymbols, Declared
  <2>7. /\ IRs[f].symbols = {ModuleSymbol(f)} \union Declared(f, GoRead(f))
        /\ IRs[f].order = InOrder(f, GoRead(f))
        /\ IRs[f].relationships = GoImports(f, GoRead(f)) \union GoCalls(f, GoRead(f))
                                    \union GoAccesses(f, GoRead(f)) \union GoTypeReferences(f, GoRead(f))
        /\ DOMAIN IRs[f] = {"symbols", "order", "relationships", "diagnostics"}
    BY <2>5, <2>6 DEF ExtractGo, GoRead, Read
  <2>8. index[f] = ResolveGo(IRs, f)
    BY <2>1 DEF Resolve
  <2> QED
    BY <2>2, <2>4, <2>7, <2>8
<1> QED
  BY <1>2, <1>3, FilesAssumption

(* Its relationships, and which of them are imports.                        *)
LEMMA GoRelationships ==
  ASSUME AdaptersInv, language = "go", NEW f \in GoFiles, NEW r \in IRs[f].relationships
  PROVE  /\ r.from \in IRs[f].symbols
         /\ \/ r.kind = "Imports" /\ r.to.path \in Path
            \/ r.kind # "Imports" /\ IsNamed(r.to) /\ r.to.named \in Path
         /\ DOMAIN r = {"from", "to", "kind", "alias", "line"}
<1> DEFINE source == GoRead(f)
<1>1. /\ source \in Seq(GoStatements) /\ WellFormed(source)
      /\ IRs[f].symbols = {ModuleSymbol(f)} \union Declared(f, source)
      /\ r \in GoImports(f, source) \union GoCalls(f, source) \union GoAccesses(f, source)
                 \union GoTypeReferences(f, source)
  BY GoShape
<1>2. \A i \in DOMAIN source : source[i] \in GoStatements
  BY <1>1
<1> HIDE DEF source
<1>3. CASE r \in GoImports(f, source)
  <2>1. PICK i, alias :
          /\ i \in DOMAIN source /\ source[i].is = "import"
          /\ r = Rel(ModuleSymbol(f), [path |-> source[i].path], "Imports", alias, i)
    BY <1>3 DEF GoImports, Statements
  <2>2. source[i].path \in Path
    BY <1>2, <2>1, GoStatementParts
  <2> QED
    BY <1>1, <2>1, <2>2 DEF Rel
<1>4. CASE r \in GoCalls(f, source)
  <2>1. PICK i \in DOMAIN source :
          source[i].is = "use" /\ r = Rel(ModuleSymbol(f), Named(source[i].path), source[i].kind, NONE, i)
    BY <1>4 DEF GoCalls, Statements
  <2>2. source[i].path \in Path /\ source[i].kind # "Imports"
    <3>1. source[i] \in GoStatements
      BY <1>2
    <3> QED
      BY <2>1, <3>1 DEF GoStatements, SharedStatements
  <2> QED
    BY <1>1, <2>1, <2>2 DEF Rel, IsNamed, Named
<1>5. CASE r \in GoAccesses(f, source)
  <2>1. PICK a \in MemberTypes(SaidTypes(source, Members(source)), GoBuiltin) :
          r = Rel(ModuleSymbol(f), Named(a[2]), "AccessesProperty", NONE, a[1])
    BY <1>5 DEF GoAccesses, GoBound, SaidTypes
  <2>2. a[2] \in Path
    BY <1>1, <2>1, ChargedIsMember
  <2> QED
    BY <1>1, <2>1, <2>2 DEF Rel, IsNamed, Named
<1>6. CASE r \in GoTypeReferences(f, source)
  <2>1. PICK i \in DOMAIN source :
          /\ source[i].is \in {"typed", "refer"} /\ source[i].type # NONE
          /\ r = Rel(ModuleSymbol(f), Named(source[i].type), "UsesType", NONE, i)
    BY <1>6 DEF GoTypeReferences, FirstOfEach
  <2>2. source[i].type \in Path
    BY <1>2, <2>1, GoStatementParts
  <2> QED
    BY <1>1, <2>1, <2>2 DEF Rel, IsNamed, Named
<1> QED
  BY <1>1, <1>3, <1>4, <1>5, <1>6

(* A set of files has an owner.                                             *)
LEMMA OwnerIsOne ==
  ASSUME NEW files, files \subseteq GoFiles, files # {}
  PROVE  OwnerOf(files) \in files
<1>1. IsFiniteSet(files) /\ files \subseteq Nat
  BY FilesAssumption, FS_Subset
<1>2. \E f \in files : \A g \in files : f <= g
  BY <1>1, LeastOfFinite
<1> QED
  BY <1>2 DEF OwnerOf

(* What a name of a package is found to be is a symbol, or nothing.         *)
LEMMA GoDeclaredIsSymbol ==
  ASSUME AdaptersInv, language = "go", NEW files, files \subseteq GoFiles, NEW name
  PROVE  GoDeclaredIn(IRs, files, name) \in {NONE} \union AllSymbols(IRs)
<1> DEFINE declare == {f \in files : ByName(IRs[f].order, name) # NONE}
           owner == OwnerOf(declare)
           order == IRs[owner].order
<1>1. CASE declare = {}
  BY <1>1 DEF GoDeclaredIn
<1>2. CASE declare # {}
  <2>1. owner \in GoFiles
    <3>1. declare \subseteq GoFiles
      OBVIOUS
    <3> HIDE DEF declare
    <3> QED
      BY <1>2, <3>1, OwnerIsOne
  <2> HIDE DEF owner
  <2>2. /\ GoRead(owner) \in Seq(GoStatements) /\ order = InOrder(owner, GoRead(owner))
        /\ IRs[owner].symbols = {ModuleSymbol(owner)} \union Declared(owner, GoRead(owner))
    BY <2>1, GoShape
  <2>3. FirstSymbol(order, NamedAt(order, name)) \in {NONE} \union Declared(owner, GoRead(owner))
    <3> DEFINE at == NamedAt(order, name)
               source == GoRead(owner)
    <3>1. \A i \in at : i \in DOMAIN source /\ InOrder(owner, source)[i] # NONE
      BY <2>2 DEF NamedAt, InOrder
    <3> HIDE DEF at, source
    <3>2. FirstSymbol(InOrder(owner, source), at) \in {NONE} \union Declared(owner, source)
      <4>1. source \in Seq(GoStatements)
        BY <2>2 DEF source
      <4> QED
        BY <3>1, <4>1, OneOfTheOrder
    <3> QED
      BY <2>2, <3>2 DEF at, source
  <2>4. GoDeclaredIn(IRs, files, name) = FirstSymbol(order, NamedAt(order, name))
    BY <1>2 DEF GoDeclaredIn, owner
  <2>5. IRs[owner].symbols \subseteq AllSymbols(IRs)
    BY <2>1, GoShape DEF AllSymbols
  <2> QED
    BY <2>2, <2>3, <2>4, <2>5
<1> QED
  BY <1>1, <1>2

(* What a name of Go means is a symbol or nothing.                          *)
LEMMA GoNameIsSymbol ==
  ASSUME AdaptersInv, language = "go", NEW f \in GoFiles, NEW path
  PROVE  GoName(IRs, f, path) \in {NONE} \union AllSymbols(IRs)
<1> DEFINE own == ImportPath(GoDirectory[f])
           imported == GoPackageNamed(IRs, f, path[1])
           first == path[1]
           second == path[2]
<1>1. \A p : GoPackage(p) \subseteq GoFiles
  BY DEF GoPackage
<1>2. imported \subseteq GoFiles
  BY <1>1 DEF GoPackageNamed
<1>3. GoName(IRs, f, path) = IF Len(path) = 1
                               THEN IF own = NONE THEN NONE ELSE GoDeclaredIn(IRs, GoPackage(own), first)
                               ELSE GoDeclaredIn(IRs, imported, second)
  BY DEF GoName
<1> HIDE DEF own, imported, first, second
<1>4. GoDeclaredIn(IRs, imported, second) \in {NONE} \union AllSymbols(IRs)
  BY <1>2, GoDeclaredIsSymbol
<1>5. GoDeclaredIn(IRs, GoPackage(own), first) \in {NONE} \union AllSymbols(IRs)
  <2> DEFINE files == GoPackage(own)
  <2>1. files \subseteq GoFiles
    BY <1>1
  <2> HIDE DEF files
  <2>2. GoDeclaredIn(IRs, files, first) \in {NONE} \union AllSymbols(IRs)
    BY <2>1, GoDeclaredIsSymbol
  <2> QED
    BY <2>2 DEF files
<1> QED
  BY <1>3, <1>4, <1>5

(* What resolving a Go file makes of each relationship; the first file of a *)
(* package holds its symbol.                                                *)
LEMMA GoResolution ==
  ASSUME AdaptersInv, language = "go", NEW f \in GoFiles
  PROVE  /\ IRs[f].symbols \subseteq index[f].symbols
         /\ LET package == ImportPath(GoDirectory[f])
            IN  package # NONE /\ OwnerOf(GoPackage(package)) = f => PackageSymbol(package) \in index[f].symbols
         /\ \A r \in IRs[f].relationships : r.kind = "Imports" =>
              [r EXCEPT !.to = GoTarget(r.to.path)] \in index[f].relationships
         /\ \A r \in IRs[f].relationships : r.kind \notin {"Imports", "Calls", "Instantiates"} =>
              LET to == GoName(IRs, f, r.to.named)
              IN  IF to # NONE THEN \E k : [r EXCEPT !.to = to, !.kind = k] \in index[f].relationships
                  ELSE \/ r.to.named \in GoBuiltin \/ r.line \in index[f].diagnostics
                       \/ Len(r.to.named) > 1 /\ GoPackageNamed(IRs, f, r.to.named[1]) = {}
<1> DEFINE rels == IRs[f].relationships
           imports == {r \in rels : r.kind = "Imports"}
           means == [path \in {r.to.named : r \in rels \ imports} |-> GoName(IRs, f, path)]
           to(r) == means[r.to.named]
           isCall(r) == r.kind \in {"Calls", "Instantiates"}
           kept == {r \in rels \ imports : to(r) # NONE}
           lost == {r \in rels \ (imports \union kept) : ~isCall(r)}
           isExternal(path) == Len(path) > 1 /\ GoPackageNamed(IRs, f, path[1]) = {}
           unindexed == {r \in imports : GoPackage(r.to.path) = {} /\ IsLocalImport(r.to.path)}
           package == ImportPath(GoDirectory[f])
           hosts == package # NONE /\ OwnerOf(GoPackage(package)) = f
           kindOf(r) == IF isCall(r) /\ to(r).kind = "class" THEN "Instantiates" ELSE r.kind
           resolved == {[r EXCEPT !.to = GoTarget(r.to.path)] : r \in imports}
             \union {[r EXCEPT !.to = to(r), !.kind = IF isCall(r) /\ to(r).kind = "class"
                                                         THEN "Instantiates" ELSE @] : r \in kept}
             \union Implementations(IRs, f)
           diagnosed == {r.line : r \in unindexed
             \union {r \in lost : ~isExternal(r.to.named) /\ r.to.named \notin GoBuiltin}}
           symbols == IRs[f].symbols \union (IF hosts THEN {PackageSymbol(package)} ELSE {})
<1>1. index[f] = [IRs[f] EXCEPT !.symbols = symbols, !.relationships = resolved, !.diagnostics = diagnosed]
  <2>1. index[f] = ResolveGo(IRs, f)
    BY GoShape
  <2> QED
    BY <2>1 DEF ResolveGo
<1>2. DOMAIN IRs[f] = {"symbols", "order", "relationships", "diagnostics"}
  BY GoShape
<1>3. \A r \in rels \ imports : to(r) = GoName(IRs, f, r.to.named)
  OBVIOUS
<1>4. \A r \in rels : r.kind \notin {"Imports", "Calls", "Instantiates"} => r \in rels \ imports /\ ~isCall(r)
  OBVIOUS
<1> HIDE DEF means
<1>5. /\ \A r \in imports : [r EXCEPT !.to = GoTarget(r.to.path)] \in resolved
      /\ \A r \in kept : [r EXCEPT !.to = to(r), !.kind = kindOf(r)] \in resolved
      /\ \A r \in lost : r.to.named \in GoBuiltin \/ isExternal(r.to.named) \/ r.line \in diagnosed
      /\ IRs[f].symbols \subseteq symbols /\ (hosts => PackageSymbol(package) \in symbols)
  OBVIOUS
<1> HIDE DEF resolved, diagnosed, symbols
<1>6. index[f].symbols = symbols /\ index[f].relationships = resolved /\ index[f].diagnostics = diagnosed
  BY <1>1, <1>2
<1>7. ASSUME NEW r \in rels, r.kind \notin {"Imports", "Calls", "Instantiates"}, to(r) # NONE
      PROVE  \E k : [r EXCEPT !.to = to(r), !.kind = k] \in resolved
  <2>1. r \in kept
    BY <1>4, <1>7
  <2>2. [r EXCEPT !.to = to(r), !.kind = kindOf(r)] \in resolved
    BY <1>5, <2>1
  <2> HIDE DEF kindOf
  <2> QED
    BY <2>2
<1>8. ASSUME NEW r \in rels, r.kind \notin {"Imports", "Calls", "Instantiates"}, to(r) = NONE
      PROVE  r.to.named \in GoBuiltin \/ isExternal(r.to.named) \/ r.line \in diagnosed
  BY <1>4, <1>5, <1>8
<1>9. ASSUME NEW r \in rels, r.kind \notin {"Imports", "Calls", "Instantiates"}
      PROVE  LET name == GoName(IRs, f, r.to.named)
             IN  IF name # NONE THEN \E k : [r EXCEPT !.to = name, !.kind = k] \in resolved
                 ELSE r.to.named \in GoBuiltin \/ isExternal(r.to.named) \/ r.line \in diagnosed
  <2>1. to(r) = GoName(IRs, f, r.to.named)
    BY <1>3, <1>4, <1>9
  <2> HIDE DEF to
  <2> QED
    BY <1>7, <1>8, <1>9, <2>1
<1>10. ASSUME NEW r \in rels, r.kind \notin {"Imports", "Calls", "Instantiates"}
       PROVE  LET name == GoName(IRs, f, r.to.named)
              IN  IF name # NONE THEN \E k : [r EXCEPT !.to = name, !.kind = k] \in index[f].relationships
                  ELSE \/ r.to.named \in GoBuiltin \/ r.line \in index[f].diagnostics
                       \/ Len(r.to.named) > 1 /\ GoPackageNamed(IRs, f, r.to.named[1]) = {}
  BY <1>6, <1>9, <1>10
<1> QED
  BY <1>5, <1>6, <1>10

(* What a Go import leads to is there.                                      *)
LEMMA GoTargetIsThere ==
  ASSUME AdaptersInv, language = "go", NEW path \in Path
  PROVE  IsPackage(GoTarget(path)) \/ GoTarget(path) \in SymbolsOfAll
<1> DEFINE files == GoPackage(path)
           owner == OwnerOf(files)
<1>1. CASE files = {}
  BY <1>1, PackagesAndSymbols DEF GoTarget
<1>2. CASE files # {}
  <2>1. files \subseteq GoFiles
    BY DEF GoPackage
  <2>2. owner \in files
    <3> HIDE DEF files
    <3> QED
      BY <1>2, <2>1, OwnerIsOne
  <2>3. owner \in GoFiles /\ ImportPath(GoDirectory[owner]) = path /\ path # NONE
    BY <2>2, FilesAssumption DEF GoPackage
  <2>4. PackageSymbol(path) \in index[owner].symbols
    <3> HIDE DEF owner
    <3>1. OwnerOf(GoPackage(path)) = owner
      BY DEF owner
    <3> QED
      BY <2>3, <3>1, GoResolution
  <2>5. PackageSymbol(path) \in SymbolsOfAll
    BY <2>3, <2>4, GoShape DEF SymbolsOfAll
  <2> QED
    BY <1>2, <2>5 DEF GoTarget
<1> QED
  BY <1>1, <1>2

(* The symbols of a Go repository are those its files declare.              *)
LEMMA GoSymbolsOfAll ==
  ASSUME AdaptersInv, language = "go"
  PROVE  AllSymbols(IRs) \subseteq SymbolsOfAll
<1>1. \A f \in GoFiles : IRs[f].symbols \subseteq index[f].symbols
  BY GoResolution
<1>2. DOMAIN index = GoFiles /\ DOMAIN IRs = GoFiles
  BY GoShape
<1> QED
  BY <1>1, <1>2 DEF SymbolsOfAll, AllSymbols

(* No relationship of a Go file is lost, unless it is a call or is said of  *)
(* a package from elsewhere.                                                *)
LEMMA GoFates ==
  ASSUME AdaptersInv, language = "go", NEW f \in GoFiles,
         NEW r \in IRs[f].relationships, r.kind \notin {"Calls", "Instantiates"}
  PROVE  \/ Fate(f, r, GoBuiltin)
         \/ r.kind # "Imports" /\ IsElsewhere(IRs, f, r.to.named)
<1>1. /\ r.from \in index[f].symbols
      /\ DOMAIN r = {"from", "to", "kind", "alias", "line"}
  BY GoRelationships, GoResolution
<1>2. CASE r.kind = "Imports"
  <2> DEFINE to == GoTarget(r.to.path)
             q == [r EXCEPT !.to = to]
  <2>1. q \in index[f].relationships
    BY <1>2, GoResolution
  <2>2. IsPackage(to) \/ to \in SymbolsOfAll
    <3> DEFINE path == r.to.path
    <3>1. path \in Path
      BY <1>2, GoRelationships
    <3> HIDE DEF path
    <3>2. IsPackage(GoTarget(path)) \/ GoTarget(path) \in SymbolsOfAll
      BY <3>1, GoTargetIsThere
    <3> QED
      BY <3>2 DEF path
  <2> HIDE DEF to
  <2>3. q.from = r.from /\ q.to = to /\ q.line = r.line
    BY <1>1
  <2> HIDE DEF q
  <2>4. EdgesAt(f, r.line) # {}
    BY <1>1, <2>1, <2>2, <2>3, AnEdge
  <2> QED
    BY <2>4 DEF Fate
<1>3. CASE r.kind # "Imports"
  <2> DEFINE path == r.to.named
             to == GoName(IRs, f, path)
  <2>1. IsNamed(r.to)
    BY <1>3, GoRelationships
  <2>2. to \in {NONE} \union SymbolsOfAll
    BY GoNameIsSymbol, GoSymbolsOfAll
  <2>3. IF to # NONE THEN \E k : [r EXCEPT !.to = to, !.kind = k] \in index[f].relationships
        ELSE \/ path \in GoBuiltin \/ r.line \in index[f].diagnostics
             \/ Len(path) > 1 /\ GoPackageNamed(IRs, f, path[1]) = {}
    BY <1>3, GoResolution
  <2> HIDE DEF to
  <2>4. CASE to = NONE
    BY <1>3, <2>1, <2>3, <2>4 DEF Fate, Reported, IsElsewhere
  <2>5. CASE to # NONE
    <3>1. PICK k : [r EXCEPT !.to = to, !.kind = k] \in index[f].relationships
      BY <2>3, <2>5
    <3> DEFINE q == [r EXCEPT !.to = to, !.kind = k]
    <3>2. q.from = r.from /\ q.to = to /\ q.line = r.line
      BY <1>1
    <3>3. q \in index[f].relationships
      BY <3>1
    <3> HIDE DEF q
    <3>4. EdgesAt(f, r.line) # {}
      BY <1>1, <2>2, <2>5, <3>2, <3>3, AnEdge
    <3> QED
      BY <3>4 DEF Fate
  <2> QED
    BY <2>4, <2>5
<1> QED
  BY <1>2, <1>3

(* Nothing a Go file says is lost.                                          *)
LEMMA GoLosesNothing ==
  ASSUME AdaptersInv, language = "go", NEW f \in DOMAIN sources, NEW i \in Written(f, Takes)
  PROVE  Accounted(f, i)
<1> DEFINE source == GoRead(f)
           s == source[i]
<1>1. f \in GoFiles /\ source = sources[f] /\ i \in DOMAIN source /\ s.is \in Takes /\ s \in GoStatements
  <2>1. f \in GoFiles /\ f \notin GoGenerated /\ i \in DOMAIN sources[f] /\ sources[f][i].is \in Takes
    BY GoShape DEF Written, IsLookedInto
  <2>2. source = sources[f]
    BY <2>1 DEF GoRead, Read
  <2>3. source \in Seq(GoStatements)
    BY <2>1, GoShape
  <2> QED
    BY <2>1, <2>2, <2>3
<1>2. s.is \in {"import", "symbol"} /\ (s.is = "symbol" => "bases" \notin DOMAIN s)
  BY <1>1, GoStatementParts
<1>3. GoImports(f, source) \subseteq IRs[f].relationships
  BY <1>1, GoShape
<1> HIDE DEF source
<1>4. CASE s.is = "import"
  <2> DEFINE alias == IF s.name \in {Blank, Dot} THEN NONE ELSE s.name
             r == Rel(ModuleSymbol(f), [path |-> s.path], "Imports", alias, i)
  <2>1. r \in GoImports(f, source)
    BY <1>1, <1>4 DEF GoImports, Statements
  <2>2. r.kind = "Imports" /\ r.line = i /\ ~IsNamed(r.to)
    BY DEF Rel, IsNamed
  <2> HIDE DEF r
  <2>3. Fate(f, r, GoBuiltin)
    BY <1>1, <1>3, <2>1, <2>2, GoFates
  <2> QED
    BY <2>2, <2>3 DEF Fate, Accounted
<1>5. CASE s.is = "symbol"
  BY <1>1, <1>2, <1>5 DEF Accounted, IsBuiltinName
<1> QED
  BY <1>2, <1>4, <1>5

(* And its members are charged to their types.                              *)
LEMMA GoMembers ==
  ASSUME AdaptersInv, language = "go", NEW f \in DOMAIN sources
  PROVE  EveryMemberIsCharged(f) /\ EveryChargeIsOfAMember(f)
<1> DEFINE source == Read(GoGenerated, f)
           T == GoStatements
<1>1. f \in GoFiles /\ source \in Seq(T) /\ WellFormed(source)
  BY GoShape DEF GoRead
<1>2. ChargedIn(f) = Charged(f, source, GoBuiltin)
  <2>1. IRs[f].relationships = GoImports(f, source) \union GoCalls(f, source)
                                 \union GoAccesses(f, source) \union GoTypeReferences(f, source)
    BY <1>1, GoShape DEF GoRead
  <2>2. GoAccesses(f, source) = Charged(f, source, GoBuiltin)
    BY DEF GoAccesses, Charged, GoBound, SaidTypes
  <2>3. \A i \in DOMAIN source : source[i].is = "use" => source[i].kind # "AccessesProperty"
    <3>1. \A i \in DOMAIN source : source[i] \in GoStatements
      BY <1>1
    <3> HIDE DEF source
    <3> QED
      BY <3>1 DEF GoStatements, SharedStatements
  <2> HIDE DEF source
  <2>4. \A r \in GoImports(f, source) \union GoTypeReferences(f, source) : r.kind # "AccessesProperty"
    <3>1. \A r \in GoImports(f, source) : r.kind = "Imports"
      BY DEF GoImports, Rel
    <3>2. \A r \in GoTypeReferences(f, source) : r.kind = "UsesType"
      <4>1. ASSUME NEW r \in GoTypeReferences(f, source) PROVE r.kind = "UsesType"
        <5>1. PICK a : r = Rel(ModuleSymbol(f), Named(a[2]), "UsesType", NONE, a[1])
          BY DEF GoTypeReferences
        <5> QED
          BY <5>1 DEF Rel
      <4> QED
        BY <4>1
    <3> QED
      BY <3>1, <3>2
  <2>5. \A r \in GoCalls(f, source) : r.kind # "AccessesProperty"
    BY <2>3 DEF GoCalls, Statements, Rel
  <2>6. \A r \in Charged(f, source, GoBuiltin) : r.kind = "AccessesProperty"
    BY DEF Charged, Rel
  <2> QED
    BY <2>1, <2>2, <2>4, <2>5, <2>6 DEF ChargedIn
<1>3. \A type : IsBuiltin(type) <=> type \in GoBuiltin
  BY DEF IsBuiltin
<1>4. IsLookedInto(f) <=> f \notin GoGenerated
  BY DEF IsLookedInto
<1>5. \A r \in ChargedIn(f) : Fate(f, r, GoBuiltin) \/ IsElsewhere(IRs, f, r.to.named)
  BY <1>1, GoFates DEF ChargedIn
<1> HIDE DEF T
<1>6. language # "typescript"
  OBVIOUS
<1> QED
  BY <1>1, <1>2, <1>3, <1>4, <1>5, <1>6, MembersOfFile

-----------------------------------------------------------------------------
(* Taking one turn after another. A step that leads from a set back to it   *)
(* can be taken as often as one likes.                                      *)
Turns(g, n, b, step) == g = [k \in 0 .. n |-> IF k = 0 THEN b ELSE step[g[k - 1]]]

(* There is a sequence of such turns, and it stays in the set.              *)
LEMMA TurnsExist ==
  ASSUME NEW n \in Nat, NEW T, NEW b \in T, NEW step, \A t \in T : step[t] \in T
  PROVE  \E g : Turns(g, n, b, step) /\ \A k \in 0 .. n : g[k] \in T
<1> DEFINE Walks(g, m) == /\ DOMAIN g = 0 .. m /\ g[0] = b /\ \A k \in 0 .. m : g[k] \in T
                          /\ \A k \in 1 .. m : g[k] = step[g[k - 1]]
           P == {m \in 0 .. n : \E g : Walks(g, m)}
<1>1. 0 \in P
  <2> DEFINE g == [k \in 0 .. 0 |-> b]
  <2>1. Walks(g, 0)
    OBVIOUS
  <2> HIDE DEF Walks
  <2>2. \E h : Walks(h, 0)
    BY <2>1
  <2> QED
    BY <2>2
<1>2. ASSUME NEW m \in 1 .. n, m - 1 \in P PROVE m \in P
  <2>1. PICK g : Walks(g, m - 1)
    BY <1>2
  <2> DEFINE h == [k \in 0 .. m |-> IF k < m THEN g[k] ELSE step[g[m - 1]]]
  <2>2. h[m] = step[g[m - 1]] /\ h[m] \in T
    BY <2>1
  <2>3. \A k \in 0 .. (m - 1) : k \in 0 .. m /\ h[k] = g[k] /\ g[k] \in T
    BY <2>1
  <2>4. h[0] = b /\ \A k \in 0 .. m : h[k] \in T
    <3>1. 0 \in 0 .. (m - 1) /\ \A k \in 0 .. m : k = m \/ k \in 0 .. (m - 1)
      OBVIOUS
    <3> HIDE DEF h
    <3> QED
      BY <2>1, <2>2, <2>3, <3>1
  <2>5. ASSUME NEW k \in 1 .. m PROVE h[k] = step[h[k - 1]]
    <3>1. CASE k = m
      <4>1. h[m - 1] = g[m - 1]
        OBVIOUS
      <4> QED
        BY <2>2, <3>1, <4>1
    <3>2. CASE k # m
      <4>1. k \in 1 .. (m - 1) /\ k \in 0 .. (m - 1) /\ k - 1 \in 0 .. (m - 1)
        BY <3>2
      <4> HIDE DEF h
      <4> QED
        BY <2>1, <2>3, <4>1
    <3> QED
      BY <3>1, <3>2
  <2>6. DOMAIN h = 0 .. m
    OBVIOUS
  <2> HIDE DEF h
  <2>7. Walks(h, m)
    BY <2>4, <2>5, <2>6
  <2> HIDE DEF Walks
  <2> QED
    BY <2>7
<1> HIDE DEF P
<1>3. n \in P
  BY <1>1, <1>2, UpTo
<1>4. PICK f : Walks(f, n)
  BY <1>3 DEF P
<1> DEFINE g == [k \in 0 .. n |-> f[k]]
<1>5. \A k \in 0 .. n : g[k] = f[k] /\ g[k] = IF k = 0 THEN b ELSE step[g[k - 1]]
  <2>1. ASSUME NEW k \in 0 .. n, k # 0 PROVE g[k] = step[g[k - 1]]
    <3>1. k \in 1 .. n /\ k - 1 \in 0 .. n
      BY <2>1
    <3>2. g[k - 1] = f[k - 1] /\ g[k] = f[k]
      BY <3>1
    <3> QED
      BY <1>4, <3>1, <3>2
  <2>2. g[0] = b
    BY <1>4
  <2>3. \A k \in 0 .. n : g[k] = f[k]
    OBVIOUS
  <2> HIDE DEF g
  <2> QED
    BY <2>1, <2>2, <2>3
<1>6. g = [k \in 0 .. n |-> g[k]]
  OBVIOUS
<1> HIDE DEF g
<1>7. Turns(g, n, b, step)
  BY <1>5, <1>6 DEF Turns
<1>8. \A k \in 0 .. n : g[k] \in T
  BY <1>4, <1>5
<1> QED
  BY <1>7, <1>8

-----------------------------------------------------------------------------
(* C. The parts of its statements.                                          *)
LEMMA CStatementParts ==
  ASSUME NEW s \in CStatements
  PROVE  /\ s.is # "access"
         /\ s.is \in {"typed", "member", "use"} => s.path \in Path
         /\ s.is = "typed" => s.type \in Path \union {NONE} /\ s.parameter \in BOOLEAN
         /\ s.is = "member" => s.owner \in Nat \union {NONE}
         /\ s.is = "symbol" => s.name \in Nat
         /\ s.is = "use" => s.kind \in {"Calls", "Instantiates"}
         /\ s.is = "alias" => s.type \in Nat
         /\ s.is = "forward" => s.name \in Nat
         /\ s.is = "inherits" => s.base \in Nat
         /\ s.is \in Takes => s.is \in {"include", "alias", "forward", "inherits", "symbol"}
         /\ s.is = "symbol" => "bases" \notin DOMAIN s
  BY DEF CStatements, SharedStatements, Owner, Takes

CRead(f) == Read(CGenerated, f)

(* The files of a C repository and what was extracted from them.            *)
LEMMA CShape ==
  ASSUME AdaptersInv, language = "c"
  PROVE  /\ DOMAIN sources = CFiles /\ DOMAIN IRs = CFiles /\ DOMAIN index = CFiles
         /\ IsFiniteSet(CFiles) /\ CFiles \subseteq Nat
         /\ \A f \in CFiles :
              /\ CRead(f) \in Seq(CStatements) /\ WellFormed(CRead(f))
              /\ \A i \in DOMAIN CRead(f) : MayInherit(CRead(f)[i], CRead(f))
              /\ IRs[f].symbols = {ModuleSymbol(f)} \union Declared(f, CRead(f))
              /\ IRs[f].order = InOrder(f, CRead(f))
              /\ IRs[f].relationships = CIncludes(f, CRead(f)) \union Prototypes(f, CRead(f))
                                          \union Aliases(f, CRead(f))
                           \union Forwards(f, CRead(f)) \union CBases(f, CRead(f))
                           \union CCalls(f, CRead(f)) \union CAccesses(f, CRead(f))
              /\ DOMAIN IRs[f] = {"symbols", "order", "relationships", "diagnostics"}
              /\ index[f] = ResolveC(IRs, f)
<1>1. FilesOf(language) = CFiles /\ StatementsOf(language) = CStatements
  BY DEF FilesOf, StatementsOf
<1>2. DOMAIN sources = CFiles /\ DOMAIN IRs = CFiles /\ DOMAIN index = CFiles
  BY <1>1, Analysed
<1>3. ASSUME NEW f \in CFiles
      PROVE  /\ CRead(f) \in Seq(CStatements) /\ WellFormed(CRead(f))
             /\ \A i \in DOMAIN CRead(f) : MayInherit(CRead(f)[i], CRead(f))
             /\ IRs[f].symbols = {ModuleSymbol(f)} \union Declared(f, CRead(f))
             /\ IRs[f].order = InOrder(f, CRead(f))
             /\ IRs[f].relationships = CIncludes(f, CRead(f)) \union Prototypes(f, CRead(f))
                                          \union Aliases(f, CRead(f))
                          \union Forwards(f, CRead(f)) \union CBases(f, CRead(f))
                          \union CCalls(f, CRead(f)) \union CAccesses(f, CRead(f))
             /\ DOMAIN IRs[f] = {"symbols", "order", "relationships", "diagnostics"}
             /\ index[f] = ResolveC(IRs, f)
  <2>1. /\ sources[f] \in Seq(CStatements) /\ IRs[f] = Extract(language, f, sources[f])
        /\ \A i \in DOMAIN sources[f] : MayInherit(sources[f][i], sources[f])
        /\ index[f] = Resolve(language, IRs, f)
    BY <1>1, <1>3, Analysed
  <2>2. CRead(f) \in Seq(CStatements) /\ \A i \in DOMAIN CRead(f) : MayInherit(CRead(f)[i], CRead(f))
    BY <2>1 DEF CRead, Read
  <2>3. \A i \in DOMAIN CRead(f) : CRead(f)[i] \in CStatements
    BY <2>2
  <2>4. WellFormed(CRead(f))
    BY <2>3, CStatementParts DEF WellFormed
  <2>5. IRs[f] = ExtractC(f, sources[f])
    BY <2>1 DEF Extract
  <2>6. CSymbols(f, CRead(f)) = {ModuleSymbol(f)} \union Declared(f, CRead(f))
    BY DEF CSymbols, Declared
  <2>7. /\ IRs[f].symbols = {ModuleSymbol(f)} \union Declared(f, CRead(f))
        /\ IRs[f].order = InOrder(f, CRead(f))
        /\ IRs[f].relationships = CIncludes(f, CRead(f)) \union Prototypes(f, CRead(f))
                                          \union Aliases(f, CRead(f))
                          \union Forwards(f, CRead(f)) \union CBases(f, CRead(f))
                          \union CCalls(f, CRead(f)) \union CAccesses(f, CRead(f))
        /\ DOMAIN IRs[f] = {"symbols", "order", "relationships", "diagnostics"}
    BY <2>5, <2>6 DEF ExtractC, CRead, Read
  <2>8. index[f] = ResolveC(IRs, f)
    BY <2>1 DEF Resolve
  <2> QED
    BY <2>2, <2>4, <2>7, <2>8
<1> QED
  BY <1>2, <1>3, FilesAssumption

(* Its relationships: an include, the declaration of a function, a call, or *)
(* a name of a type.                                                        *)
LEMMA CRelationships ==
  ASSUME AdaptersInv, language = "c", NEW f \in CFiles, NEW r \in IRs[f].relationships
  PROVE  /\ r.from \in IRs[f].symbols
         /\ IsNamed(r.to) => r.to.named \in Path
         /\ DOMAIN r = {"from", "to", "kind", "alias", "line"}
<1> DEFINE source == CRead(f)
<1>1. /\ source \in Seq(CStatements) /\ WellFormed(source)
      /\ \A i \in DOMAIN source : MayInherit(source[i], source)
      /\ IRs[f].symbols = {ModuleSymbol(f)} \union Declared(f, source)
      /\ r \in CIncludes(f, source) \union Prototypes(f, source) \union Aliases(f, source)
                 \union Forwards(f, source) \union CBases(f, source)
                 \union CCalls(f, source) \union CAccesses(f, source)
  BY CShape
<1>2. \A i \in DOMAIN source : source[i] \in CStatements
  BY <1>1
<1> HIDE DEF source
<1>3. \A n \in Nat : <<n>> \in Path
  BY DEF Path
<1>4. CASE r \in CIncludes(f, source)
  <2>1. PICK i : r = Rel(ModuleSymbol(f), [include |-> source[i].path, isLocal |-> source[i].isLocal],
                         "Imports", NONE, i)
    BY <1>4 DEF CIncludes
  <2> QED
    BY <1>1, <2>1 DEF Rel, IsNamed
<1>5. CASE r \in Prototypes(f, source)
  <2>1. PICK i : r = Rel(ModuleSymbol(f), [prototype |-> source[i].name], "ReExports", source[i].name, i)
    BY <1>5 DEF Prototypes
  <2> QED
    BY <1>1, <2>1 DEF Rel, IsNamed
<1>6. CASE r \in Aliases(f, source)
  <2>1. PICK i \in DOMAIN source : /\ source[i].is = "alias"
                                   /\ r = Rel(ModuleSymbol(f), Named(<<source[i].type>>), "Imports", source[i].name, i)
    BY <1>6 DEF Aliases, Statements
  <2>2. <<source[i].type>> \in Path
    BY <1>2, <1>3, <2>1, CStatementParts
  <2> QED
    BY <1>1, <2>1, <2>2 DEF Rel, IsNamed, Named
<1>7. CASE r \in Forwards(f, source)
  <2>1. PICK i \in DOMAIN source : /\ source[i].is = "forward"
                                   /\ r = Rel(ModuleSymbol(f), Named(<<source[i].name>>), "UsesType", NONE, i)
    BY <1>7 DEF Forwards, Statements
  <2>2. <<source[i].name>> \in Path
    BY <1>2, <1>3, <2>1, CStatementParts
  <2> QED
    BY <1>1, <2>1, <2>2 DEF Rel, IsNamed, Named
<1>8. CASE r \in CBases(f, source)
  <2>1. PICK i \in DOMAIN source :
          /\ source[i].is = "inherits"
          /\ r = Rel(SymbolAt(f, Def(source[i].name, NONE, "class")), Named(<<source[i].base>>), "Extends", NONE, i)
    BY <1>8 DEF CBases, Statements
  <2>2. <<source[i].base>> \in Path
    BY <1>2, <1>3, <2>1, CStatementParts
  <2>3. SymbolAt(f, Def(source[i].name, NONE, "class")) \in Declared(f, source)
    <3>1. PICK j \in DOMAIN source : source[j] = Def(source[i].name, NONE, "class")
      BY <1>1, <2>1 DEF MayInherit
    <3>2. j \in Statements(source, "symbol")
      BY <3>1 DEF Statements, Def
    <3> QED
      BY <3>1, <3>2 DEF Declared
  <2> QED
    BY <1>1, <2>1, <2>2, <2>3 DEF Rel, IsNamed, Named
<1>9. CASE r \in CCalls(f, source)
  <2>1. PICK i \in DOMAIN source :
          source[i].is = "use" /\ r = Rel(ModuleSymbol(f), Named(source[i].path), source[i].kind, NONE, i)
    BY <1>9 DEF CCalls, Statements
  <2>2. source[i].path \in Path
    BY <1>2, <2>1, CStatementParts
  <2> QED
    BY <1>1, <2>1, <2>2 DEF Rel, IsNamed, Named
<1>10. CASE r \in CAccesses(f, source)
  <2>1. PICK a \in MemberTypes(SaidTypes(source, Members(source)), CBuiltin) :
          r = Rel(ModuleSymbol(f), Named(a[2]), "AccessesProperty", NONE, a[1])
    BY <1>10 DEF CAccesses, CBound, SaidTypes
  <2>2. a[2] \in Path
    BY <1>1, <2>1, ChargedIsMember
  <2> QED
    BY <1>1, <2>1, <2>2 DEF Rel, IsNamed, Named
<1> QED
  BY <1>1, <1>4, <1>5, <1>6, <1>7, <1>8, <1>9, <1>10

(* An include leads to a file, or to none.                                  *)
LEMMA CIncludedIsFile ==
  ASSUME NEW f, NEW to
  PROVE  IncludedFile(f, to) \in {NONE} \union CFiles
<1> DEFINE path == Relatively(f, to.include)
           beside == {g \in CFiles : CPath[g] = path}
           alike == {g \in CFiles : Last(CPath[g]) = Last(to.include)}
<1>1. IncludedFile(f, to) =
        IF to.isLocal /\ beside # {} THEN CHOOSE g \in beside : TRUE ELSE ByBasename(to.include)
  BY DEF IncludedFile
<1>2. beside # {} => (CHOOSE g \in beside : TRUE) \in CFiles
  OBVIOUS
<1>3. ByBasename(to.include) \in {NONE} \union CFiles
  <2>1. ByBasename(to.include) = IF Cardinality(alike) = 1 THEN CHOOSE g \in alike : TRUE ELSE NONE
    BY DEF ByBasename
  <2>2. alike \subseteq CFiles
    OBVIOUS
  <2> HIDE DEF alike
  <2>3. IsFiniteSet(alike)
    BY <2>2, FilesAssumption, FS_Subset
  <2>4. Cardinality(alike) = 1 => \E g : alike = {g}
    BY <2>3, FS_Singleton
  <2> QED
    BY <2>1, <2>2, <2>4
<1> HIDE DEF beside
<1> QED
  BY <1>1, <1>2, <1>3

(* The files that each file includes are a sequence, with gaps.             *)
CIncludesIn(irs) == [f \in CFiles |-> Includes(irs, f)]

(* What a file includes are files of the repository, or unknown.            *)
LEMMA CIncludesAreFiles ==
  ASSUME AdaptersInv, language = "c", NEW f \in CFiles
  PROVE  CIncludesIn(IRs)[f] \in Seq(CFiles \union {NONE})
<1> DEFINE T == CFiles \union {NONE}
           at(i) == {r \in IRs[f].relationships : IsInclude(r) /\ r.line = i}
           n == Len(CRead(f))
           G(i) == IF at(i) = {} THEN NONE ELSE IncludedFile(f, (CHOOSE r \in at(i) : TRUE).to)
<1>1. CIncludesIn(IRs)[f] = Includes(IRs, f)
  BY DEF CIncludesIn
<1>2. Includes(IRs, f) = [i \in DOMAIN IRs[f].order |-> G(i)]
  BY DEF Includes
<1>3. DOMAIN IRs[f].order = 1 .. n /\ n \in Nat
  <2>1. CRead(f) \in Seq(CStatements) /\ IRs[f].order = InOrder(f, CRead(f))
    BY CShape
  <2> QED
    BY <2>1 DEF InOrder
<1>4. \A i : G(i) \in T
  BY CIncludedIsFile
<1> HIDE DEF G, T, n
<1>5. [i \in 1 .. n |-> G(i)] \in Seq(T)
  BY <1>3, <1>4
<1> QED
  BY <1>1, <1>2, <1>3, <1>5 DEF T

(* A sequence without its last is one, and the last is one of what it is of.*)
LEMMA FrontIsSeq ==
  ASSUME NEW T, NEW q \in Seq(T), q # << >>
  PROVE  Front(q) \in Seq(T) /\ Last(q) \in T
<1>1. Len(q) \in Nat \ {0}
  BY EmptySeq
<1>2. Last(q) \in T
  BY <1>1 DEF Last
<1>3. Front(q) \in Seq(T)
  BY <1>1 DEF Front
<1> QED
  BY <1>2, <1>3

(* A walk over the includes has a stack of some files, with unknown ones    *)
(* between, and those of them that were seen.                               *)
CStates(S) == [stack : Seq(S \union {NONE}), seen : Seq(S)]

(* A turn of it comes to no others, if they include no others.              *)
LEMMA CVisitStays ==
  ASSUME NEW S, NEW includes, \A f \in S : includes[f] \in Seq(S \union {NONE}), NEW at \in CStates(S)
  PROVE  Visit(includes, at) \in CStates(S)
<1> DEFINE T == S \union {NONE}
           f == Last(at.stack)
<1>1. at.stack \in Seq(T) /\ at.seen \in Seq(S) /\ at \in [stack : Seq(T), seen : Seq(S)]
  BY DEF CStates
<1>2. CASE at.stack = << >>
  BY <1>2 DEF Visit
<1>3. CASE at.stack # << >>
  <2>1. Front(at.stack) \in Seq(T) /\ f \in T
    <3> HIDE DEF T
    <3> QED
      BY <1>1, <1>3, FrontIsSeq
  <2>2. CASE f = NONE \/ Contains(at.seen, f)
    <3>1. Visit(includes, at) = [at EXCEPT !.stack = Front(@)]
      BY <1>3, <2>2 DEF Visit
    <3> QED
      BY <1>1, <2>1, <3>1 DEF CStates
  <2>3. CASE ~(f = NONE \/ Contains(at.seen, f))
    <3>1. Visit(includes, at) = [stack |-> Front(at.stack) \o includes[f], seen |-> Append(at.seen, f)]
      BY <1>3, <2>3 DEF Visit
    <3>2. f \in S
      BY <2>1, <2>3
    <3>3. includes[f] \in Seq(T)
      BY <3>2
    <3> HIDE DEF f, T
    <3>4. Front(at.stack) \o includes[f] \in Seq(T) /\ Append(at.seen, f) \in Seq(S)
      BY <1>1, <2>1, <3>2, <3>3
    <3> QED
      BY <3>1, <3>4 DEF T, CStates
  <2> QED
    BY <2>2, <2>3
<1> QED
  BY <1>2, <1>3

(* The walk takes as many turns as files are included, and one more.        *)
COccurrences(includes, S) == UNION {{f} \X DOMAIN includes[f] : f \in S}
CTurns(includes) == Cardinality(COccurrences(includes, CFiles)) + 1
CStart(file) == [stack |-> <<file>>, seen |-> << >>]
Walks(w, n, includes, file) == w[0] = CStart(file) /\ \A k \in 1 .. n : w[k] = Visit(includes, w[k - 1])

(* They are finitely many.                                                  *)
LEMMA COccurrencesAreFinite ==
  ASSUME NEW includes, \A f \in CFiles : includes[f] \in Seq(CFiles \union {NONE})
  PROVE  IsFiniteSet(COccurrences(includes, CFiles)) /\ CTurns(includes) \in Nat
<1> DEFINE all == {{f} \X DOMAIN includes[f] : f \in CFiles}
           one == [f \in CFiles |-> {f} \X DOMAIN includes[f]]
<1>1. IsFiniteSet({one[f] : f \in CFiles})
  <2>1. DOMAIN one = CFiles
    OBVIOUS
  <2> HIDE DEF one
  <2> QED
    BY <2>1, FilesAssumption, ImageIsFinite
<1>2. all = {one[f] : f \in CFiles}
  OBVIOUS
<1>3. ASSUME NEW f \in CFiles PROVE IsFiniteSet({f} \X DOMAIN includes[f])
  <2> DEFINE D == DOMAIN includes[f]
             E == {f}
  <2>1. IsFiniteSet(D)
    <3>1. D = 1 .. Len(includes[f]) /\ Len(includes[f]) \in Nat
      OBVIOUS
    <3> HIDE DEF D
    <3> QED
      BY <3>1, FS_Interval
  <2>2. IsFiniteSet(E)
    BY FS_Singleton
  <2> HIDE DEF D, E
  <2>3. IsFiniteSet(E \X D)
    BY <2>1, <2>2, FS_Product
  <2> QED
    BY <2>3 DEF D, E
<1>4. \A A \in all : IsFiniteSet(A)
  BY <1>3
<1>5. COccurrences(includes, CFiles) = UNION all
  BY DEF COccurrences
<1> HIDE DEF all, one
<1>6. IsFiniteSet(UNION all)
  BY <1>1, <1>2, <1>4, FS_UNION
<1>7. Cardinality(UNION all) \in Nat
  BY <1>6, FS_CardinalityType
<1> QED
  BY <1>5, <1>6, <1>7 DEF CTurns

(* There is such a walk, and what it has seen is what is looked into.       *)
LEMMA CWalks ==
  ASSUME NEW includes, \A f \in CFiles : includes[f] \in Seq(CFiles \union {NONE}), NEW file \in CFiles
  PROVE  \E w : /\ Walks(w, CTurns(includes), includes, file)
                /\ LookedInto(includes, file) = w[CTurns(includes)].seen
<1> DEFINE turns == CTurns(includes)
           b == CStart(file)
           States == CStates(CFiles)
           step == [t \in States |-> Visit(includes, t)]
           Solves(g) == g = [n \in 0 .. turns |-> IF n = 0 THEN b ELSE Visit(includes, g[n - 1])]
           walk == CHOOSE g : Solves(g)
<1>1. LookedInto(includes, file) = walk[turns].seen
  BY DEF LookedInto, CTurns, COccurrences, CStart
<1>2. turns \in Nat
  BY COccurrencesAreFinite
<1>3. b \in States
  BY DEF CStart, CStates
<1>4. \A t \in States : Visit(includes, t) \in States
  BY CVisitStays
<1> HIDE DEF States, turns, b
<1>5. \A t \in States : step[t] \in States /\ step[t] = Visit(includes, t)
  BY <1>4
<1> HIDE DEF step
<1>6. PICK g : Turns(g, turns, b, step) /\ \A n \in 0 .. turns : g[n] \in States
  BY <1>2, <1>3, <1>5, TurnsExist
<1>7. Solves(g)
  <2>1. \A n \in 0 .. turns : n # 0 => n - 1 \in 0 .. turns
    BY <1>2
  <2>2. \A n \in 0 .. turns : (IF n = 0 THEN b ELSE step[g[n - 1]]) = IF n = 0 THEN b ELSE Visit(includes, g[n - 1])
    BY <1>5, <1>6, <2>1
  <2> DEFINE F(n) == IF n = 0 THEN b ELSE step[g[n - 1]]
             G(n) == IF n = 0 THEN b ELSE Visit(includes, g[n - 1])
  <2>3. g = [n \in 0 .. turns |-> F(n)] /\ \A n \in 0 .. turns : F(n) = G(n)
    BY <1>6, <2>2 DEF Turns
  <2> HIDE DEF F, G
  <2>4. g = [n \in 0 .. turns |-> G(n)]
    BY <2>3
  <2> QED
    BY <2>4 DEF G
<1>8. Solves(walk)
  <2> HIDE DEF Solves
  <2>1. \E h : Solves(h)
    BY <1>7
  <2> QED
    BY <2>1
<1> HIDE DEF walk
<1>9. walk[0] = b /\ \A n \in 1 .. turns : walk[n] = Visit(includes, walk[n - 1])
  <2> DEFINE G(n) == IF n = 0 THEN b ELSE Visit(includes, walk[n - 1])
  <2>1. \A n \in 0 .. turns : walk[n] = G(n)
    <3>1. walk = [n \in 0 .. turns |-> G(n)]
      BY <1>8
    <3> HIDE DEF G
    <3> QED
      BY <3>1
  <2> QED
    BY <1>2, <2>1
<1>10. Walks(walk, turns, includes, file)
  BY <1>9 DEF Walks, b
<1> QED
  BY <1>1, <1>10 DEF turns

(* A walk from one of some files that include no others comes to no others. *)
LEMMA CWalkStays ==
  ASSUME NEW S, NEW includes, \A f \in S : includes[f] \in Seq(S \union {NONE}),
         NEW file \in S, NEW n \in Nat, NEW w, Walks(w, n, includes, file)
  PROVE  \A k \in 0 .. n : w[k] \in CStates(S)
<1> DEFINE P == {k \in 0 .. n : w[k] \in CStates(S)}
<1>1. 0 \in P
  <2> DEFINE T == S \union {NONE}
  <2>1. <<file>> \in Seq(T) /\ << >> \in Seq(S)
    OBVIOUS
  <2> HIDE DEF T
  <2>2. CStart(file) \in [stack : Seq(T), seen : Seq(S)]
    BY <2>1 DEF CStart
  <2> QED
    BY <2>2 DEF Walks, CStates, T
<1>2. ASSUME NEW k \in 1 .. n, k - 1 \in P PROVE k \in P
  <2>1. w[k] = Visit(includes, w[k - 1]) /\ w[k - 1] \in CStates(S) /\ k \in 0 .. n
    BY <1>2 DEF Walks
  <2>2. Visit(includes, w[k - 1]) \in CStates(S)
    BY <2>1, CVisitStays
  <2> QED
    BY <2>1, <2>2
<1> HIDE DEF P
<1>3. \A k \in 0 .. n : k \in P
  BY <1>1, <1>2, UpTo
<1> QED
  BY <1>3 DEF P

(* So that the walk comes to files of the repository only.                  *)
LEMMA CLookedIntoAreFiles ==
  ASSUME NEW includes, \A f \in CFiles : includes[f] \in Seq(CFiles \union {NONE}), NEW file \in CFiles
  PROVE  LookedInto(includes, file) \in Seq(CFiles)
<1> DEFINE n == CTurns(includes)
<1>1. PICK w : Walks(w, n, includes, file) /\ LookedInto(includes, file) = w[n].seen
  BY CWalks
<1>2. n \in Nat
  BY COccurrencesAreFinite
<1> HIDE DEF n
<1>3. w[n] \in CStates(CFiles)
  BY <1>1, <1>2, CWalkStays
<1> QED
  BY <1>1, <1>3 DEF CStates

(* What is visible by a name is a symbol, or nothing.                       *)
LEMMA CVisibleIsSymbol ==
  ASSUME AdaptersInv, language = "c", NEW files \in Seq(CFiles), NEW name
  PROVE  Visible(IRs, files, name) \in {NONE} \union AllSymbols(IRs)
<1> DEFINE declaring == {i \in DOMAIN files : ByName(IRs[files[i]].order, name) # NONE}
           first == CHOOSE i \in declaring : \A j \in declaring : i <= j
<1>1. Visible(IRs, files, name) =
        IF declaring = {} THEN NONE ELSE ByName(IRs[files[first]].order, name)
  BY DEF Visible
<1>2. CASE declaring = {}
  BY <1>1, <1>2
<1>3. CASE declaring # {}
  <2>1. declaring \subseteq 1 .. Len(files) /\ Len(files) \in Nat /\ declaring \subseteq DOMAIN files
    OBVIOUS
  <2>2. first \in declaring
    <3> HIDE DEF declaring
    <3>1. IsFiniteSet(declaring) /\ declaring \subseteq Nat
      BY <2>1, Positions
    <3>2. \E i \in declaring : \A j \in declaring : i <= j
      BY <1>3, <3>1, LeastOfFinite
    <3> QED
      BY <3>2
  <2> DEFINE f == files[first]
  <2>3. f \in CFiles
    <3>1. first \in DOMAIN files
      BY <2>1, <2>2
    <3> HIDE DEF first
    <3> QED
      BY <3>1
  <2> HIDE DEF f
  <2>4. ByName(IRs[f].order, name) \in {NONE} \union IRs[f].symbols
    <3>1. CRead(f) \in Seq(CStatements) /\ IRs[f].order = InOrder(f, CRead(f))
          /\ IRs[f].symbols = {ModuleSymbol(f)} \union Declared(f, CRead(f))
      BY <2>3, CShape
    <3> QED
      BY <3>1, NameOfTheOrder
  <2>5. IRs[f].symbols \subseteq AllSymbols(IRs)
    BY <2>3, CShape DEF AllSymbols
  <2>6. Visible(IRs, files, name) = ByName(IRs[f].order, name)
    BY <1>1, <1>3 DEF f
  <2> QED
    BY <2>4, <2>5, <2>6
<1> QED
  BY <1>2, <1>3

(* And a name is one of the symbols they declare, or nothing.               *)
LEMMA CNameIsSymbol ==
  ASSUME AdaptersInv, language = "c", NEW files \in Seq(CFiles), NEW f, NEW name
  PROVE  CName(IRs, files, f, name) \in {NONE} \union AllSymbols(IRs)
<1> DEFINE seen == Visible(IRs, files, name)
           aliases == {r \in IRs[f].relationships :
                         /\ r.kind = "Imports" /\ IsNamed(r.to) /\ r.alias = name
                         /\ Visible(IRs, files, r.to.named[1]) # NONE}
           other == Latest(aliases).to.named[1]
<1>1. CName(IRs, files, f, name) =
        IF seen # NONE THEN seen ELSE IF aliases = {} THEN NONE ELSE Visible(IRs, files, other)
  BY DEF CName
<1> HIDE DEF aliases, other, seen
<1>2. seen \in {NONE} \union AllSymbols(IRs)
  BY CVisibleIsSymbol DEF seen
<1>3. Visible(IRs, files, other) \in {NONE} \union AllSymbols(IRs)
  BY CVisibleIsSymbol
<1> QED
  BY <1>1, <1>2, <1>3

(* What resolving a C file makes of each relationship.                      *)
LEMMA CResolution ==
  ASSUME AdaptersInv, language = "c", NEW f \in CFiles
  PROVE  /\ index[f].symbols = IRs[f].symbols
         /\ \A r \in IRs[f].relationships : IsInclude(r) =>
              [r EXCEPT !.to = CIncludeTarget(f, r.to)] \in index[f].relationships
         /\ \A r \in IRs[f].relationships : IsNamed(r.to) /\ r.kind \notin {"Calls", "Instantiates"} =>
              LET to == CName(IRs, LookedInto(CIncludesIn(IRs), f), f, r.to.named[1])
              IN  IF to # NONE THEN \E k : [r EXCEPT !.to = to, !.kind = k] \in index[f].relationships
                  ELSE r.to.named \in CBuiltin \/ r.line \in index[f].diagnostics
<1> DEFINE rels == IRs[f].relationships
           included == {r \in rels : IsInclude(r)}
           named == {r \in rels : IsNamed(r.to)}
           isCall(r) == r.kind \in {"Calls", "Instantiates"}
           files == LookedInto(CIncludesIn(IRs), f)
           seen == [n \in {r.to.named[1] : r \in named} |-> CName(IRs, files, f, n)]
           linked == [n \in {r.to.named[1] : r \in {r \in named : isCall(r)}} |->
                        IF seen[n] # NONE THEN seen[n] ELSE ViaPrototype(IRs, CIncludesIn(IRs), f, n)]
           to(r) == IF isCall(r) THEN linked[r.to.named[1]] ELSE seen[r.to.named[1]]
           kept == {r \in named : to(r) # NONE}
           lost == {r \in named \ kept : ~isCall(r) /\ r.to.named \notin CBuiltin}
           kindOf(r) == IF isCall(r) /\ to(r).kind = "class" THEN "Instantiates" ELSE r.kind
           resolved == {[r EXCEPT !.to = CIncludeTarget(f, r.to)] : r \in included}
             \union {[r EXCEPT !.to = to(r), !.kind = IF isCall(r) /\ to(r).kind = "class"
                                                         THEN "Instantiates" ELSE @] : r \in kept}
           diagnosed == {r.line : r \in lost}
<1>1. index[f] = [IRs[f] EXCEPT !.relationships = resolved, !.diagnostics = diagnosed]
  <2>1. index[f] = ResolveC(IRs, f)
    BY CShape
  <2> QED
    BY <2>1 DEF ResolveC, CIncludesIn
<1>2. DOMAIN IRs[f] = {"symbols", "order", "relationships", "diagnostics"}
  BY CShape
<1>3. \A r \in named : ~isCall(r) => to(r) = CName(IRs, files, f, r.to.named[1])
  OBVIOUS
<1> HIDE DEF seen, linked, files
<1>4. /\ \A r \in included : [r EXCEPT !.to = CIncludeTarget(f, r.to)] \in resolved
      /\ \A r \in kept : [r EXCEPT !.to = to(r), !.kind = kindOf(r)] \in resolved
      /\ \A r \in lost : r.line \in diagnosed
  OBVIOUS
<1> HIDE DEF resolved, diagnosed
<1>5. /\ index[f].symbols = IRs[f].symbols /\ index[f].relationships = resolved
      /\ index[f].diagnostics = diagnosed
  BY <1>1, <1>2
<1>6. ASSUME NEW r \in rels, IsNamed(r.to), r.kind \notin {"Calls", "Instantiates"}
      PROVE  LET name == CName(IRs, files, f, r.to.named[1])
             IN  IF name # NONE THEN \E k : [r EXCEPT !.to = name, !.kind = k] \in resolved
                 ELSE r.to.named \in CBuiltin \/ r.line \in diagnosed
  <2> DEFINE name == CName(IRs, files, f, r.to.named[1])
  <2>1. r \in named /\ ~isCall(r) /\ to(r) = name
    BY <1>3, <1>6
  <2> HIDE DEF to, name
  <2>2. CASE name # NONE
    <3>1. r \in kept
      BY <2>1, <2>2
    <3>2. [r EXCEPT !.to = to(r), !.kind = kindOf(r)] \in resolved
      BY <1>4, <3>1
    <3> HIDE DEF kindOf
    <3> QED
      BY <2>1, <2>2, <3>2 DEF name
  <2>3. CASE name = NONE
    <3>1. r \notin kept
      BY <2>1, <2>3
    <3> QED
      BY <1>4, <2>1, <2>3, <3>1 DEF name
  <2> QED
    BY <2>2, <2>3
<1>7. \A r \in rels : IsInclude(r) => r \in included
  OBVIOUS
<1> QED
  BY <1>4, <1>5, <1>6, <1>7 DEF files

(* The symbols of a C repository are those its files declare.               *)
LEMMA CSymbolsOfAll ==
  ASSUME AdaptersInv, language = "c"
  PROVE  SymbolsOfAll = AllSymbols(IRs)
<1>1. \A f \in CFiles : index[f].symbols = IRs[f].symbols
  BY CResolution
<1>2. DOMAIN index = CFiles /\ DOMAIN IRs = CFiles
  BY CShape
<1> QED
  BY <1>1, <1>2 DEF SymbolsOfAll, AllSymbols

(* No relationship of a C file is lost, unless it is a call or the          *)
(* declaration of a function.                                               *)
LEMMA CFates ==
  ASSUME AdaptersInv, language = "c", NEW f \in CFiles, NEW r \in IRs[f].relationships,
         IsInclude(r) \/ (IsNamed(r.to) /\ r.kind \notin {"Calls", "Instantiates"})
  PROVE  Fate(f, r, CBuiltin)
<1>1. /\ r.from \in index[f].symbols
      /\ DOMAIN r = {"from", "to", "kind", "alias", "line"}
  BY CRelationships, CResolution
<1>2. CASE IsInclude(r)
  <2> DEFINE to == CIncludeTarget(f, r.to)
             q == [r EXCEPT !.to = to]
             g == IncludedFile(f, r.to)
  <2>1. q \in index[f].relationships
    BY <1>2, CResolution
  <2>2. IsPackage(to) \/ to \in AllSymbols(IRs)
    <3>1. CASE g = NONE
      BY <3>1, PackagesAndSymbols DEF CIncludeTarget
    <3>2. CASE g # NONE
      <4>1. g \in CFiles
        BY <3>2, CIncludedIsFile
      <4>2. to = ModuleSymbol(g)
        BY <3>2 DEF CIncludeTarget
      <4> HIDE DEF to, g
      <4> QED
        BY <4>1, <4>2, CShape DEF AllSymbols
    <3> QED
      BY <3>1, <3>2
  <2> HIDE DEF to
  <2>3. q.from = r.from /\ q.to = to /\ q.line = r.line
    BY <1>1
  <2> HIDE DEF q
  <2>4. EdgesAt(f, r.line) # {}
    BY <1>1, <2>1, <2>2, <2>3, CSymbolsOfAll, AnEdge
  <2> QED
    BY <2>4 DEF Fate
<1>3. CASE IsNamed(r.to) /\ r.kind \notin {"Calls", "Instantiates"}
  <2> DEFINE name == r.to.named[1]
             files == LookedInto(CIncludesIn(IRs), f)
             to == CName(IRs, files, f, name)
  <2>1. files \in Seq(CFiles)
    <3>1. \A g \in CFiles : CIncludesIn(IRs)[g] \in Seq(CFiles \union {NONE})
      BY CIncludesAreFiles
    <3> QED
      BY <3>1, CLookedIntoAreFiles
  <2>2. to \in {NONE} \union AllSymbols(IRs)
    <3> HIDE DEF files, name
    <3> QED
      BY <2>1, CNameIsSymbol
  <2>3. IF to # NONE THEN \E k : [r EXCEPT !.to = to, !.kind = k] \in index[f].relationships
        ELSE r.to.named \in CBuiltin \/ r.line \in index[f].diagnostics
    BY <1>3, CResolution
  <2> HIDE DEF to
  <2>4. CASE to = NONE
    BY <1>3, <2>3, <2>4 DEF Fate, Reported
  <2>5. CASE to # NONE
    <3>1. PICK k : [r EXCEPT !.to = to, !.kind = k] \in index[f].relationships
      BY <2>3, <2>5
    <3> DEFINE q == [r EXCEPT !.to = to, !.kind = k]
    <3>2. q.from = r.from /\ q.to = to /\ q.line = r.line
      BY <1>1
    <3>3. q \in index[f].relationships
      BY <3>1
    <3> HIDE DEF q
    <3>4. EdgesAt(f, r.line) # {}
      BY <1>1, <2>2, <2>5, <3>2, <3>3, CSymbolsOfAll, AnEdge
    <3> QED
      BY <3>4 DEF Fate
  <2> QED
    BY <2>4, <2>5
<1> QED
  BY <1>2, <1>3

(* Nothing a C file says is lost.                                           *)
LEMMA CLosesNothing ==
  ASSUME AdaptersInv, language = "c", NEW f \in DOMAIN sources, NEW i \in Written(f, Takes)
  PROVE  Accounted(f, i)
<1> DEFINE source == CRead(f)
           s == source[i]
<1>1. f \in CFiles /\ source = sources[f] /\ i \in DOMAIN source /\ s.is \in Takes /\ s \in CStatements
  <2>1. f \in CFiles /\ f \notin CGenerated /\ i \in DOMAIN sources[f] /\ sources[f][i].is \in Takes
    BY CShape DEF Written, IsLookedInto
  <2>2. source = sources[f]
    BY <2>1 DEF CRead, Read
  <2>3. source \in Seq(CStatements)
    BY <2>1, CShape
  <2> QED
    BY <2>1, <2>2, <2>3
<1>2. s.is \in {"include", "alias", "forward", "inherits", "symbol"} /\ (s.is = "symbol" => "bases" \notin DOMAIN s)
  BY <1>1, CStatementParts
<1>3. CIncludes(f, source) \union Aliases(f, source) \union Forwards(f, source) \union CBases(f, source)
        \subseteq IRs[f].relationships
  BY <1>1, CShape
<1> HIDE DEF source
<1>4. CASE s.is = "include"
  <2> DEFINE r == Rel(ModuleSymbol(f), [include |-> s.path, isLocal |-> s.isLocal], "Imports", NONE, i)
  <2>1. r \in CIncludes(f, source)
    BY <1>1, <1>4 DEF CIncludes, Statements
  <2>2. IsInclude(r) /\ r.line = i /\ ~IsNamed(r.to)
    BY DEF Rel, IsInclude, IsNamed
  <2> HIDE DEF r
  <2>3. Fate(f, r, CBuiltin)
    BY <1>1, <1>3, <2>1, <2>2, CFates
  <2> QED
    BY <2>2, <2>3 DEF Fate, Accounted
<1>5. CASE s.is = "alias" /\ ~IsBuiltinName(s)
  <2> DEFINE r == Rel(ModuleSymbol(f), Named(<<s.type>>), "Imports", s.name, i)
  <2>1. s.name # s.type /\ <<s.type>> \notin CBuiltin
    BY <1>5 DEF IsBuiltinName
  <2>2. r \in Aliases(f, source)
    BY <1>1, <1>5, <2>1 DEF Aliases, Statements
  <2>3. IsNamed(r.to) /\ r.kind \notin {"Calls", "Instantiates"} /\ r.line = i /\ r.to.named = <<s.type>>
    BY DEF Rel, Named, IsNamed
  <2> HIDE DEF r
  <2>4. Fate(f, r, CBuiltin)
    BY <1>1, <1>3, <2>2, <2>3, CFates
  <2> QED
    BY <2>1, <2>3, <2>4 DEF Fate, Accounted
<1>6. CASE s.is = "forward" /\ ~IsBuiltinName(s)
  <2> DEFINE r == Rel(ModuleSymbol(f), Named(<<s.name>>), "UsesType", NONE, i)
  <2>1. <<s.name>> \notin CBuiltin
    BY <1>6 DEF IsBuiltinName
  <2>2. r \in Forwards(f, source)
    BY <1>1, <1>6, <2>1 DEF Forwards, Statements
  <2>3. IsNamed(r.to) /\ r.kind \notin {"Calls", "Instantiates"} /\ r.line = i /\ r.to.named = <<s.name>>
    BY DEF Rel, Named, IsNamed
  <2> HIDE DEF r
  <2>4. Fate(f, r, CBuiltin)
    BY <1>1, <1>3, <2>2, <2>3, CFates
  <2> QED
    BY <2>1, <2>3, <2>4 DEF Fate, Accounted
<1>7. CASE s.is = "inherits" /\ ~IsBuiltinName(s)
  <2> DEFINE r == Rel(SymbolAt(f, Def(s.name, NONE, "class")), Named(<<s.base>>), "Extends", NONE, i)
  <2>1. <<s.base>> \notin CBuiltin
    BY <1>7 DEF IsBuiltinName
  <2>2. r \in CBases(f, source)
    BY <1>1, <1>7, <2>1 DEF CBases, Statements
  <2>3. IsNamed(r.to) /\ r.kind \notin {"Calls", "Instantiates"} /\ r.line = i /\ r.to.named = <<s.base>>
    BY DEF Rel, Named, IsNamed
  <2> HIDE DEF r
  <2>4. Fate(f, r, CBuiltin)
    BY <1>1, <1>3, <2>2, <2>3, CFates
  <2> QED
    BY <2>1, <2>3, <2>4 DEF Fate, Accounted
<1>8. CASE IsBuiltinName(s)
  BY <1>1, <1>8 DEF Accounted
<1>9. CASE s.is = "symbol"
  BY <1>1, <1>2, <1>9 DEF Accounted, IsBuiltinName
<1> QED
  BY <1>2, <1>4, <1>5, <1>6, <1>7, <1>8, <1>9

(* And its members are charged to their types.                              *)
LEMMA CMembers ==
  ASSUME AdaptersInv, language = "c", NEW f \in DOMAIN sources
  PROVE  EveryMemberIsCharged(f) /\ EveryChargeIsOfAMember(f)
<1> DEFINE source == Read(CGenerated, f)
           T == CStatements
<1>1. f \in CFiles /\ source \in Seq(T) /\ WellFormed(source)
  BY CShape DEF CRead
<1>2. ChargedIn(f) = Charged(f, source, CBuiltin)
  <2>1. IRs[f].relationships = CIncludes(f, source) \union Prototypes(f, source) \union Aliases(f, source)
                           \union Forwards(f, source) \union CBases(f, source)
                           \union CCalls(f, source) \union CAccesses(f, source)
    BY <1>1, CShape DEF CRead
  <2>2. CAccesses(f, source) = Charged(f, source, CBuiltin)
    BY DEF CAccesses, Charged, CBound, SaidTypes
  <2>3. \A i \in DOMAIN source : source[i].is = "use" => source[i].kind # "AccessesProperty"
    <3>1. \A i \in DOMAIN source : source[i] \in CStatements
      BY <1>1
    <3> HIDE DEF source
    <3> QED
      BY <3>1, CStatementParts
  <2> HIDE DEF source
  <2>4. \A r \in CIncludes(f, source) : r.kind # "AccessesProperty"
    BY DEF CIncludes, Rel
  <2>5. \A r \in Prototypes(f, source) \union Aliases(f, source) : r.kind # "AccessesProperty"
    <3>1. \A r \in Prototypes(f, source) : r.kind # "AccessesProperty"
      BY DEF Prototypes, Rel
    <3>2. \A r \in Aliases(f, source) : r.kind # "AccessesProperty"
      <4>1. ASSUME NEW r \in Aliases(f, source) PROVE r.kind # "AccessesProperty"
        <5>1. PICK i, from, to, alias, k :
                     k \in {"Imports", "UsesType", "Extends"} /\ r = Rel(from, to, k, alias, i)
          BY DEF Aliases
        <5> QED
          BY <5>1 DEF Rel
      <4> QED
        BY <4>1
    <3> QED
      BY <3>1, <3>2
  <2>6. \A r \in Forwards(f, source) \union CBases(f, source) : r.kind # "AccessesProperty"
    <3>1. \A r \in Forwards(f, source) : r.kind # "AccessesProperty"
      <4>1. ASSUME NEW r \in Forwards(f, source) PROVE r.kind # "AccessesProperty"
        <5>1. PICK i, from, to, alias, k :
                     k \in {"Imports", "UsesType", "Extends"} /\ r = Rel(from, to, k, alias, i)
          BY DEF Forwards
        <5> QED
          BY <5>1 DEF Rel
      <4> QED
        BY <4>1
    <3>2. \A r \in CBases(f, source) : r.kind # "AccessesProperty"
      <4>1. ASSUME NEW r \in CBases(f, source) PROVE r.kind # "AccessesProperty"
        <5>1. PICK i, from, to, alias, k :
                     k \in {"Imports", "UsesType", "Extends"} /\ r = Rel(from, to, k, alias, i)
          BY DEF CBases
        <5> QED
          BY <5>1 DEF Rel
      <4> QED
        BY <4>1
    <3> QED
      BY <3>1, <3>2
  <2>7. \A r \in CCalls(f, source) : r.kind # "AccessesProperty"
    BY <2>3 DEF CCalls, Statements, Rel
  <2>8. \A r \in Charged(f, source, CBuiltin) : r.kind = "AccessesProperty"
    BY DEF Charged, Rel
  <2> QED
    BY <2>1, <2>2, <2>4, <2>5, <2>6, <2>7, <2>8 DEF ChargedIn
<1>3. \A type : IsBuiltin(type) <=> type \in CBuiltin
  BY DEF IsBuiltin
<1>4. IsLookedInto(f) <=> f \notin CGenerated
  BY DEF IsLookedInto
<1>5. \A r \in ChargedIn(f) : Fate(f, r, CBuiltin)
  <2>1. ASSUME NEW r \in ChargedIn(f) PROVE Fate(f, r, CBuiltin)
    <3>1. r \in IRs[f].relationships /\ r.kind \notin {"Calls", "Instantiates"}
      BY DEF ChargedIn
    <3>2. IsNamed(r.to)
      BY <1>2 DEF Charged, Rel, Named, IsNamed
    <3> QED
      BY <1>1, <3>1, <3>2, CFates
  <2> QED
    BY <2>1
<1> HIDE DEF T
<1>6. language # "typescript"
  OBVIOUS
<1> QED
  BY <1>1, <1>2, <1>3, <1>4, <1>5, <1>6, MembersOfFile

-----------------------------------------------------------------------------
(* Rust. The parts of its statements.                                       *)
LEMMA RsStatementParts ==
  ASSUME NEW s \in RsStatements
  PROVE  /\ s.is # "access"
         /\ s.is \in {"typed", "member", "use"} => s.path \in Path
         /\ s.is = "typed" => s.type \in Path \union {NONE} /\ s.parameter \in BOOLEAN
         /\ s.is = "member" => s.owner \in Nat \union {NONE}
         /\ s.is = "symbol" => s.name \in Nat
         /\ s.is = "use" => s.kind \in {"Calls", "Instantiates"}
         /\ s.is = "usetree" => s.prefix \in Seq(Nat) /\ s.leaves \in Seq(RsLeaves)
         /\ s.is = "impl" => s.trait \in Nat
         /\ s.is \in Takes => s.is \in {"usetree", "impl", "symbol"}
         /\ s.is = "symbol" => "bases" \notin DOMAIN s
  BY DEF RsStatements, SharedStatements, Owner, Takes

(* A name that a `use` takes, or all names.                                 *)
LEMMA LeavesHaveNames ==
  ASSUME NEW s \in RsStatements, s.is = "usetree", NEW leaf \in Leaves(s)
  PROVE  leaf.to.name \in Nat
<1> DEFINE prefix == s.prefix
<1>1. prefix \in Seq(Nat) /\ s.leaves \in Seq(RsLeaves)
  BY RsStatementParts
<1>2. PICK l \in ToSet(s.leaves) :
        leaf = CASE l.form = "self" -> [to |-> RsMember(s.prefix, All), alias |-> NONE]
                 [] l.form = "glob" -> [to |-> RsMember(s.prefix \o l.path, All), alias |-> NONE]
                 [] l.form = "name" -> [to |-> SplitPath(s.prefix \o l.path), alias |-> l.alias]
  BY DEF Leaves
<1>3. l \in RsLeaves
  BY <1>1, <1>2 DEF ToSet
<1>4. CASE l.form = "self"
  BY <1>2, <1>4 DEF RsMember, All
<1>5. CASE l.form = "glob"
  BY <1>2, <1>5 DEF RsMember, All
<1>6. CASE l.form = "name"
  <2> DEFINE last == l.path
             path == prefix \o last
  <2>1. last \in Seq(Nat) /\ last # << >>
    BY <1>3, <1>6 DEF RsLeaves, Path
  <2> HIDE DEF prefix, last
  <2>2. path \in Seq(Nat) /\ Len(path) = Len(prefix) + Len(last)
    BY <1>1, <2>1
  <2>3. Len(path) \in Nat \ {0}
    BY <1>1, <2>1, <2>2, EmptySeq
  <2>4. path[Len(path)] \in Nat
    BY <2>2, <2>3
  <2>5. SplitPath(path).name \in Nat
    BY <2>4 DEF SplitPath, RsMember, All, Last
  <2>6. leaf.to = SplitPath(path)
    BY <1>2, <1>6 DEF prefix, last
  <2> QED
    BY <2>5, <2>6
<1>7. l.form \in {"self", "glob", "name"}
  BY <1>3 DEF RsLeaves
<1> QED
  BY <1>4, <1>5, <1>6, <1>7

RsRead(f) == Read(RsGenerated, f)

(* The files of a Rust repository and what was extracted from them.         *)
LEMMA RsShape ==
  ASSUME AdaptersInv, language = "rust"
  PROVE  /\ DOMAIN sources = RsFiles /\ DOMAIN IRs = RsFiles /\ DOMAIN index = RsFiles
         /\ IsFiniteSet(RsFiles) /\ RsFiles \subseteq Nat
         /\ \A f \in RsFiles :
              /\ RsRead(f) \in Seq(RsStatements) /\ WellFormed(RsRead(f))
              /\ IRs[f].symbols = {ModuleSymbol(f)} \union Declared(f, RsRead(f))
              /\ IRs[f].order = InOrder(f, RsRead(f))
              /\ IRs[f].relationships = RsImpls(f, RsRead(f)) \union RsImports(f, RsRead(f))
                                          \union RsCalls(f, RsRead(f)) \union RsAccesses(f, RsRead(f))
              /\ DOMAIN IRs[f] = {"symbols", "order", "relationships", "diagnostics"}
              /\ index[f] = ResolveRs(IRs, f)
<1>1. FilesOf(language) = RsFiles /\ StatementsOf(language) = RsStatements
  BY DEF FilesOf, StatementsOf
<1>2. DOMAIN sources = RsFiles /\ DOMAIN IRs = RsFiles /\ DOMAIN index = RsFiles
  BY <1>1, Analysed
<1>3. ASSUME NEW f \in RsFiles
      PROVE  /\ RsRead(f) \in Seq(RsStatements) /\ WellFormed(RsRead(f))
             /\ IRs[f].symbols = {ModuleSymbol(f)} \union Declared(f, RsRead(f))
             /\ IRs[f].order = InOrder(f, RsRead(f))
             /\ IRs[f].relationships = RsImpls(f, RsRead(f)) \union RsImports(f, RsRead(f))
                                         \union RsCalls(f, RsRead(f)) \union RsAccesses(f, RsRead(f))
             /\ DOMAIN IRs[f] = {"symbols", "order", "relationships", "diagnostics"}
             /\ index[f] = ResolveRs(IRs, f)
  <2>1. /\ sources[f] \in Seq(RsStatements) /\ IRs[f] = Extract(language, f, sources[f])
        /\ index[f] = Resolve(language, IRs, f)
    BY <1>1, <1>3, Analysed
  <2>2. RsRead(f) \in Seq(RsStatements)
    BY <2>1 DEF RsRead, Read
  <2>3. \A i \in DOMAIN RsRead(f) : RsRead(f)[i] \in RsStatements
    BY <2>2
  <2>4. WellFormed(RsRead(f))
    BY <2>3, RsStatementParts DEF WellFormed
  <2>5. IRs[f] = ExtractRs(f, sources[f])
    BY <2>1 DEF Extract
  <2>6. RsSymbols(f, RsRead(f)) = {ModuleSymbol(f)} \union Declared(f, RsRead(f))
    BY DEF RsSymbols, Declared
  <2>7. /\ IRs[f].symbols = {ModuleSymbol(f)} \union Declared(f, RsRead(f))
        /\ IRs[f].order = InOrder(f, RsRead(f))
        /\ IRs[f].relationships = RsImpls(f, RsRead(f)) \union RsImports(f, RsRead(f))
                                    \union RsCalls(f, RsRead(f)) \union RsAccesses(f, RsRead(f))
        /\ DOMAIN IRs[f] = {"symbols", "order", "relationships", "diagnostics"}
    BY <2>5, <2>6 DEF ExtractRs, RsRead, Read
  <2>8. index[f] = ResolveRs(IRs, f)
    BY <2>1 DEF Resolve
  <2> QED
    BY <2>2, <2>4, <2>7, <2>8
<1> QED
  BY <1>2, <1>3, FilesAssumption

(* Its relationships: imports, what is of the file's module or, as an       *)
(* `impl`, of a type that may be declared elsewhere.                        *)
LEMMA RsRelationships ==
  ASSUME AdaptersInv, language = "rust", NEW f \in RsFiles, NEW r \in IRs[f].relationships
  PROVE  /\ r.kind # "Implements" => r.from = ModuleSymbol(f)
         /\ IF r.kind = "Imports" THEN r.line \in DOMAIN RsRead(f) /\ r.to.name \in Nat ELSE IsNamed(r.to)
         /\ DOMAIN r = {"from", "to", "kind", "alias", "line"}
<1> DEFINE source == RsRead(f)
<1>1. /\ source \in Seq(RsStatements) /\ WellFormed(source)
      /\ r \in RsImpls(f, source) \union RsImports(f, source) \union RsCalls(f, source) \union RsAccesses(f, source)
  BY RsShape
<1>2. \A i \in DOMAIN source : source[i] \in RsStatements
  BY <1>1
<1> HIDE DEF source
<1>3. CASE r \in RsImpls(f, source)
  <2>1. PICK i : r = Rel(SymbolAt(f, Def(source[i].name, NONE, source[i].kind)), Named(<<source[i].trait>>),
                         "Implements", NONE, i)
    BY <1>3 DEF RsImpls
  <2> QED
    BY <2>1 DEF Rel, IsNamed, Named
<1>4. CASE r \in RsImports(f, source)
  <2>1. PICK i, leaf :
          /\ i \in DOMAIN source /\ source[i].is = "usetree" /\ leaf \in Leaves(source[i])
          /\ r = Rel(ModuleSymbol(f), leaf.to, "Imports", leaf.alias, i)
    BY <1>4 DEF RsImports, Statements
  <2>2. leaf.to.name \in Nat
    BY <1>2, <2>1, LeavesHaveNames
  <2> QED
    BY <2>1, <2>2 DEF Rel, source
<1>5. CASE r \in RsCalls(f, source)
  <2>1. PICK i \in DOMAIN source :
          source[i].is = "use" /\ r = Rel(ModuleSymbol(f), Named(source[i].path), source[i].kind, NONE, i)
    BY <1>5 DEF RsCalls, Statements
  <2>2. source[i].kind \in {"Calls", "Instantiates"}
    BY <1>2, <2>1, RsStatementParts
  <2> QED
    BY <2>1, <2>2 DEF Rel, IsNamed, Named
<1>6. CASE r \in RsAccesses(f, source)
  <2>1. PICK a : r = Rel(ModuleSymbol(f), Named(a[2]), "AccessesProperty", NONE, a[1])
    BY <1>6 DEF RsAccesses
  <2> QED
    BY <2>1 DEF Rel, IsNamed, Named
<1> QED
  BY <1>1, <1>3, <1>4, <1>5, <1>6

(* A module is one of the files, or of no file here.                        *)
LEMMA RsFileOfIsFile ==
  ASSUME NEW module
  PROVE  RsFileOf(module) \in {NONE} \union RsFiles
<1> DEFINE files == {f \in RsFiles : ModulePath[f] = module}
<1>1. files \subseteq RsFiles
  OBVIOUS
<1>2. RsFileOf(module) = LastOf(files)
  BY DEF RsFileOf
<1> HIDE DEF files
<1>3. IsFiniteSet(files) /\ files \subseteq Nat
  BY <1>1, FilesAssumption, FS_Subset
<1>4. files # {} => \E f \in files : \A g \in files : g <= f
  BY <1>3, GreatestOfFinite
<1> QED
  BY <1>1, <1>2, <1>4 DEF LastOf

(* Of some of a file's imports the latest is one of them.                   *)
LEMMA RsLatestImport ==
  ASSUME AdaptersInv, language = "rust", NEW f \in RsFiles, NEW S, S # {},
         \A r \in S : r \in IRs[f].relationships /\ r.kind = "Imports"
  PROVE  Latest(S) \in S /\ Latest(S).to.name \in Nat
<1>1. \A r \in S : r.line \in DOMAIN RsRead(f) /\ r.to.name \in Nat
  BY RsRelationships
<1>2. DOMAIN RsRead(f) = 1 .. Len(RsRead(f)) /\ Len(RsRead(f)) \in Nat
  <2>1. RsRead(f) \in Seq(RsStatements)
    BY RsShape
  <2> QED
    BY <2>1
<1>3. \A r \in S : r.line \in 1 .. Len(RsRead(f))
  BY <1>1, <1>2
<1>4. Latest(S) \in S
  BY <1>2, <1>3, LatestIsOne
<1> QED
  BY <1>1, <1>4

(* What a name of a file is found to be is a symbol, or nothing.            *)
LEMMA RsOwnIsSymbol ==
  ASSUME AdaptersInv, language = "rust", NEW f \in RsFiles, NEW name
  PROVE  ByName(IRs[f].order, name) \in {NONE} \union IRs[f].symbols
<1>1. /\ RsRead(f) \in Seq(RsStatements) /\ IRs[f].order = InOrder(f, RsRead(f))
      /\ IRs[f].symbols = {ModuleSymbol(f)} \union Declared(f, RsRead(f))
  BY RsShape
<1> QED
  BY <1>1, NameOfTheOrder

(* And so is what it is followed to through `pub use`.                      *)
LEMMA RsLookupIsSymbol ==
  ASSUME AdaptersInv, language = "rust", NEW f \in RsFiles, NEW name \in Nat
  PROVE  RsLookup(IRs)[<<f, name, 0>>] \in {NONE} \union AllSymbols(IRs)
<1> DEFINE imports == [p \in RsFiles \X Nat |-> RsLeads(p[1], RsImportOf(IRs, p[1], p[2]))]
<1>1. RsLookup(IRs) = Imported(IRs, imports, MaxPubUses)
  BY DEF RsLookup
<1>2. ASSUME NEW g \in RsFiles, NEW n \in Nat
      PROVE  /\ ByName(IRs[g].order, n) \in {NONE} \union IRs[g].symbols
             /\ \/ imports[<<g, n>>] = NONE
                \/ imports[<<g, n>>].file \in {NONE} \union RsFiles /\ imports[<<g, n>>].name \in Nat
  <2>1. ByName(IRs[g].order, n) \in {NONE} \union IRs[g].symbols
    BY RsOwnIsSymbol
  <2>2. RsImportOf(IRs, g, n) = NONE \/ RsImportOf(IRs, g, n).name \in Nat
    <3> DEFINE of == {r \in IRs[g].relationships :
                        r.kind = "Imports" /\ (IF r.alias = NONE THEN r.to.name ELSE r.alias) = n}
    <3>1. RsImportOf(IRs, g, n) = IF of = {} THEN NONE ELSE Latest(of).to
      BY DEF RsImportOf
    <3>2. \A r \in of : r \in IRs[g].relationships /\ r.kind = "Imports"
      OBVIOUS
    <3> HIDE DEF of
    <3>3. of # {} => Latest(of).to.name \in Nat
      BY <3>2, RsLatestImport
    <3> QED
      BY <3>1, <3>3
  <2>3. imports[<<g, n>>] = RsLeads(g, RsImportOf(IRs, g, n))
    OBVIOUS
  <2> HIDE DEF imports
  <2> QED
    BY <2>1, <2>2, <2>3, RsFileOfIsFile DEF RsLeads, Import
<1>3. DOMAIN IRs = RsFiles
  BY RsShape
<1> HIDE DEF imports
<1>4. Imported(IRs, imports, MaxPubUses)[<<f, name, 0>>] \in {NONE} \union AllSymbols(IRs)
  BY <1>2, <1>3, FilesAssumption, ImportedIsSymbol
<1> QED
  BY <1>1, <1>4

(* An import leads to a package or to a symbol, or nowhere; and so does a   *)
(* name in a file.                                                          *)
LEMMA RsTargetIsTarget ==
  ASSUME AdaptersInv, language = "rust", NEW f \in RsFiles, NEW r, r.to.name \in Nat
  PROVE  RsTarget(IRs, f, r) = NONE \/ IsTarget(RsTarget(IRs, f, r))
<1> DEFINE module == Absolutize(f, r.to.module)
           target == RsFileOf(module)
           namespace == module.namespace
           name == r.to.name
<1>1. RsTarget(IRs, f, r) = RsTargetIn(IRs, target, namespace, name)
  BY DEF RsTarget, RsTargetOf
<1>2. target \in {NONE} \union RsFiles /\ name \in Nat
  BY RsFileOfIsFile
<1> HIDE DEF target, namespace, name
<1>3. CASE target = NONE
  BY <1>1, <1>3, PackagesAndSymbols DEF RsTargetIn, NowhereIn, IsTarget
<1>4. CASE target # NONE
  <2>1. target \in RsFiles
    BY <1>2, <1>4
  <2>2. ModuleSymbol(target) \in AllSymbols(IRs)
    BY <2>1, RsShape DEF AllSymbols
  <2>3. RsLookup(IRs)[<<target, name, 0>>] \in {NONE} \union AllSymbols(IRs)
    BY <1>2, <2>1, RsLookupIsSymbol
  <2> QED
    BY <1>1, <1>4, <2>2, <2>3 DEF RsTargetIn, OrModule, IsTarget
<1> QED
  BY <1>3, <1>4

RsTargets(f) == [r \in ImportsIn(IRs[f]) |-> RsTarget(IRs, f, r)]

(* What a name leads to in a Rust file is what an import leads to, or a     *)
(* symbol of the file.                                                      *)
LEMMA RsLocalIsTarget ==
  ASSUME AdaptersInv, language = "rust", NEW f \in RsFiles, NEW name
  PROVE  RsLocal(IRs[f], RsTargets(f), name) = NONE \/ IsTarget(RsLocal(IRs[f], RsTargets(f), name))
<1> DEFINE targets == RsTargets(f)
           of == {r \in DOMAIN targets : RsLocalName(r) = name /\ targets[r] # NONE}
<1>1. RsLocal(IRs[f], targets, name) = IF of = {} THEN ByName(IRs[f].order, name) ELSE targets[Latest(of)]
  BY DEF RsLocal
<1>2. \A r \in of : r \in IRs[f].relationships /\ r.kind = "Imports" /\ targets[r] = RsTarget(IRs, f, r)
  BY DEF RsTargets, ImportsIn
<1> HIDE DEF of, targets
<1>3. CASE of = {}
  <2>1. ByName(IRs[f].order, name) \in {NONE} \union IRs[f].symbols
    BY RsOwnIsSymbol
  <2> QED
    BY <1>1, <1>3, <2>1, RsShape DEF IsTarget, AllSymbols, targets
<1>4. CASE of # {}
  <2> DEFINE r == Latest(of)
  <2>1. r \in of /\ r.to.name \in Nat
    BY <1>2, <1>4, RsLatestImport
  <2> HIDE DEF r
  <2>2. RsTarget(IRs, f, r) = NONE \/ IsTarget(RsTarget(IRs, f, r))
    BY <2>1, RsTargetIsTarget
  <2> QED
    BY <1>1, <1>2, <1>4, <2>1, <2>2 DEF r, targets
<1> QED
  BY <1>3, <1>4

(* What resolving a Rust file makes of each relationship.                   *)
LEMMA RsResolution ==
  ASSUME AdaptersInv, language = "rust", NEW f \in RsFiles
  PROVE  /\ index[f].symbols = IRs[f].symbols
         /\ \A r \in IRs[f].relationships : r.kind = "Imports" =>
              LET to == RsTarget(IRs, f, r)
              IN  IF to # NONE THEN [r EXCEPT !.to = to] \in index[f].relationships
                  ELSE r.line \in index[f].diagnostics
         /\ \A r \in IRs[f].relationships : r.kind \notin {"Imports", "Calls", "Instantiates"} =>
              LET to == RsLocal(IRs[f], RsTargets(f), r.to.named[1])
              IN  IF to # NONE THEN [r EXCEPT !.to = to] \in index[f].relationships
                  ELSE r.to.named \in RsBuiltin \/ r.line \in index[f].diagnostics
<1> DEFINE ir == IRs[f]
           rels == ir.relationships
           targets == RsTargets(f)
           missing == {r \in ImportsIn(ir) : RsIsMissing(IRs, f, r)}
           calls == {r \in rels : r.kind \in {"Calls", "Instantiates"}}
           types == {r \in rels : r.kind \notin {"Imports", "Calls", "Instantiates"}}
           local(r) == RsLocal(ir, targets, r.to.named[1])
           unknown == {r \in DOMAIN targets : targets[r] = NONE}
           lost == {r \in types : local(r) = NONE}
           called == BoundCalls({<<r, RsCallee(IRs, local(r), r.to.named)>> : r \in calls})
           resolved == {[r EXCEPT !.to = targets[r]] : r \in DOMAIN targets \ unknown}
                         \union called \union {[r EXCEPT !.to = local(r)] : r \in types \ lost}
           diagnosed == {r.line : r \in unknown \union missing \union {r \in lost : r.to.named \notin RsBuiltin}}
<1>1. index[f] = [ir EXCEPT !.relationships = resolved, !.diagnostics = diagnosed]
  <2>1. index[f] = ResolveRs(IRs, f)
    BY RsShape
  <2>2. ResolveRs(IRs, f) = ResolveWith(IRs, f, targets, missing)
    BY DEF ResolveRs, RsTargets
  <2>3. ResolveWith(IRs, f, targets, missing)
          = [ir EXCEPT !.relationships = resolved, !.diagnostics = diagnosed]
    BY DEF ResolveWith
  <2> HIDE DEF ir, targets, missing, resolved, diagnosed
  <2> QED
    BY <2>1, <2>2, <2>3
<1>2. DOMAIN ir = {"symbols", "order", "relationships", "diagnostics"}
  BY RsShape
<1>3. DOMAIN targets = {r \in rels : r.kind = "Imports"} /\ \A r \in DOMAIN targets : targets[r] = RsTarget(IRs, f, r)
  BY DEF RsTargets, ImportsIn
<1> HIDE DEF targets, missing, called
<1>4. /\ \A r \in DOMAIN targets \ unknown : [r EXCEPT !.to = targets[r]] \in resolved
      /\ \A r \in types \ lost : [r EXCEPT !.to = local(r)] \in resolved
      /\ \A r \in unknown : r.line \in diagnosed
      /\ \A r \in lost : r.to.named \in RsBuiltin \/ r.line \in diagnosed
  BY DEF unknown, types, lost, resolved, diagnosed
<1> HIDE DEF resolved, diagnosed
<1>5. /\ index[f].symbols = ir.symbols /\ index[f].relationships = resolved
      /\ index[f].diagnostics = diagnosed
  <2> HIDE DEF ir
  <2> QED
    BY <1>1, <1>2
<1>6. ASSUME NEW r \in rels, r.kind = "Imports"
      PROVE  LET to == RsTarget(IRs, f, r)
             IN  IF to # NONE THEN [r EXCEPT !.to = to] \in resolved ELSE r.line \in diagnosed
  <2>1. r \in DOMAIN targets /\ targets[r] = RsTarget(IRs, f, r)
    BY <1>3, <1>6
  <2> QED
    BY <1>4, <2>1
<1>7. ASSUME NEW r \in rels, r.kind \notin {"Imports", "Calls", "Instantiates"}
      PROVE  IF local(r) # NONE THEN [r EXCEPT !.to = local(r)] \in resolved
             ELSE r.to.named \in RsBuiltin \/ r.line \in diagnosed
  <2>1. r \in types
    BY <1>7
  <2> HIDE DEF local
  <2> QED
    BY <1>4, <2>1
<1> QED
  BY <1>5, <1>6, <1>7 DEF targets

(* The symbols of a Rust repository are those its files declare.            *)
LEMMA RsSymbolsOfAll ==
  ASSUME AdaptersInv, language = "rust"
  PROVE  SymbolsOfAll = AllSymbols(IRs)
<1>1. \A f \in RsFiles : index[f].symbols = IRs[f].symbols
  BY RsResolution
<1>2. DOMAIN index = RsFiles /\ DOMAIN IRs = RsFiles
  BY RsShape
<1> QED
  BY <1>1, <1>2 DEF SymbolsOfAll, AllSymbols

(* No relationship of a symbol of a Rust file is lost, unless it is a call. *)
LEMMA RsFates ==
  ASSUME AdaptersInv, language = "rust", NEW f \in RsFiles, NEW r \in IRs[f].relationships,
         r.kind \notin {"Calls", "Instantiates"}, r.from \in index[f].symbols
  PROVE  Fate(f, r, RsBuiltin)
<1>1. DOMAIN r = {"from", "to", "kind", "alias", "line"} /\ (r.kind = "Imports" => r.to.name \in Nat)
      /\ (r.kind # "Imports" => IsNamed(r.to))
  BY RsRelationships
<1>2. ASSUME NEW to, IsTarget(to), [r EXCEPT !.to = to] \in index[f].relationships
      PROVE  Fate(f, r, RsBuiltin)
  <2> DEFINE q == [r EXCEPT !.to = to]
  <2>1. q.from = r.from /\ q.to = to /\ q.line = r.line /\ q \in index[f].relationships
    BY <1>1, <1>2
  <2> HIDE DEF q
  <2>2. EdgesAt(f, r.line) # {}
    BY <1>2, <2>1, RsSymbolsOfAll, AnEdge DEF IsTarget
  <2> QED
    BY <2>2 DEF Fate
<1>3. CASE r.kind = "Imports"
  <2> DEFINE to == RsTarget(IRs, f, r)
  <2>1. IF to # NONE THEN [r EXCEPT !.to = to] \in index[f].relationships ELSE r.line \in index[f].diagnostics
    BY <1>3, RsResolution
  <2>2. to = NONE \/ IsTarget(to)
    BY <1>1, <1>3, RsTargetIsTarget
  <2> HIDE DEF to
  <2> QED
    BY <1>2, <2>1, <2>2 DEF Fate, Reported
<1>4. CASE r.kind # "Imports"
  <2> DEFINE name == r.to.named[1]
             to == RsLocal(IRs[f], RsTargets(f), name)
  <2>1. IF to # NONE THEN [r EXCEPT !.to = to] \in index[f].relationships
        ELSE r.to.named \in RsBuiltin \/ r.line \in index[f].diagnostics
    BY <1>4, RsResolution
  <2>2. to = NONE \/ IsTarget(to)
    <3> HIDE DEF name
    <3> QED
      BY RsLocalIsTarget
  <2> HIDE DEF to
  <2> QED
    BY <1>1, <1>2, <1>4, <2>1, <2>2 DEF Fate, Reported
<1> QED
  BY <1>3, <1>4

(* It is named as a member of a module.                                     *)
LEMMA LeafIsMember ==
  ASSUME NEW s \in RsStatements, s.is = "usetree", NEW leaf \in Leaves(s)
  PROVE  \E module, name : leaf.to = RsMember(module, name)
<1>1. PICK l \in ToSet(s.leaves) :
        leaf = CASE l.form = "self" -> [to |-> RsMember(s.prefix, All), alias |-> NONE]
                 [] l.form = "glob" -> [to |-> RsMember(s.prefix \o l.path, All), alias |-> NONE]
                 [] l.form = "name" -> [to |-> SplitPath(s.prefix \o l.path), alias |-> l.alias]
  BY DEF Leaves
<1>2. s.leaves \in Seq(RsLeaves)
  BY RsStatementParts
<1>3. l \in RsLeaves
  BY <1>1, <1>2 DEF ToSet
<1>4. l.form \in {"self", "glob", "name"}
  BY <1>3 DEF RsLeaves
<1> DEFINE path == s.prefix \o l.path
<1>5. CASE l.form = "self"
  BY <1>1, <1>5
<1>6. CASE l.form = "glob"
  BY <1>1, <1>6
<1>7. CASE l.form = "name"
  BY <1>1, <1>7 DEF SplitPath
<1> QED
  BY <1>4, <1>5, <1>6, <1>7

(* Nothing a Rust file says is lost.                                        *)
LEMMA RsLosesNothing ==
  ASSUME AdaptersInv, language = "rust", NEW f \in DOMAIN sources, NEW i \in Written(f, Takes)
  PROVE  Accounted(f, i)
<1> DEFINE source == RsRead(f)
           s == source[i]
<1>1. f \in RsFiles /\ source = sources[f] /\ i \in DOMAIN source /\ s.is \in Takes /\ s \in RsStatements
  <2>1. f \in RsFiles /\ f \notin RsGenerated /\ i \in DOMAIN sources[f] /\ sources[f][i].is \in Takes
    BY RsShape DEF Written, IsLookedInto
  <2>2. source = sources[f]
    BY <2>1 DEF RsRead, Read
  <2>3. source \in Seq(RsStatements)
    BY <2>1, RsShape
  <2> QED
    BY <2>1, <2>2, <2>3
<1>2. s.is \in {"usetree", "impl", "symbol"} /\ (s.is = "symbol" => "bases" \notin DOMAIN s)
  BY <1>1, RsStatementParts
<1>3. RsImpls(f, source) \union RsImports(f, source) \subseteq IRs[f].relationships
      /\ ModuleSymbol(f) \in index[f].symbols
  BY <1>1, RsShape, RsResolution
<1> HIDE DEF source
<1>4. CASE s.is = "usetree" /\ ~UsesNothing(s)
  <2>1. PICK leaf \in Leaves(s) : TRUE
    BY <1>4 DEF UsesNothing
  <2> DEFINE r == Rel(ModuleSymbol(f), leaf.to, "Imports", leaf.alias, i)
  <2>2. r \in RsImports(f, source)
    <3>1. i \in Statements(source, "usetree")
      BY <1>1, <1>4 DEF Statements
    <3> QED
      BY <2>1, <3>1 DEF RsImports
  <2>3. r.kind = "Imports" /\ r.line = i /\ r.from = ModuleSymbol(f) /\ r.to = leaf.to
    BY DEF Rel
  <2> HIDE DEF r
  <2>4. Fate(f, r, RsBuiltin)
    BY <1>1, <1>3, <2>2, <2>3, RsFates
  <2>5. ~IsNamed(r.to)
    <3>1. PICK l, n : leaf.to = RsMember(l, n)
      BY <1>1, <1>4, LeafIsMember
    <3> QED
      BY <2>3, <3>1 DEF RsMember, IsNamed
  <2> QED
    BY <2>3, <2>4, <2>5 DEF Fate, Accounted
<1>5. CASE s.is = "impl" /\ ~IsImplOfNoStruct(f, s) /\ ~IsBuiltinName(s)
  <2> DEFINE from == SymbolAt(f, Def(s.name, NONE, s.kind))
             r == Rel(from, Named(<<s.trait>>), "Implements", NONE, i)
  <2>1. from \in index[f].symbols /\ <<s.trait>> \notin RsBuiltin
    BY <1>5 DEF IsImplOfNoStruct, IsBuiltinName
  <2>2. r \in RsImpls(f, source)
    BY <1>1, <1>5 DEF RsImpls, Statements
  <2> HIDE DEF from
  <2>3. r.kind = "Implements" /\ r.line = i /\ r.from = from /\ r.to.named = <<s.trait>>
    BY DEF Rel, Named
  <2> HIDE DEF r
  <2>4. Fate(f, r, RsBuiltin)
    BY <1>1, <1>3, <2>1, <2>2, <2>3, RsFates
  <2> QED
    BY <2>1, <2>3, <2>4 DEF Fate, Accounted
<1>6. CASE IsBuiltinName(s) \/ UsesNothing(s) \/ IsImplOfNoStruct(f, s)
  BY <1>1, <1>6 DEF Accounted
<1>7. CASE s.is = "symbol"
  BY <1>1, <1>2, <1>7 DEF Accounted, IsBuiltinName
<1> QED
  BY <1>2, <1>4, <1>5, <1>6, <1>7

(* And its members are charged to their types.                              *)
LEMMA RsMembers ==
  ASSUME AdaptersInv, language = "rust", NEW f \in DOMAIN sources
  PROVE  EveryMemberIsCharged(f) /\ EveryChargeIsOfAMember(f)
<1> DEFINE source == Read(RsGenerated, f)
           T == RsStatements
<1>1. f \in RsFiles /\ source \in Seq(T) /\ WellFormed(source)
  BY RsShape DEF RsRead
<1>2. ChargedIn(f) = Charged(f, source, RsBuiltin)
  <2>1. IRs[f].relationships = RsImpls(f, source) \union RsImports(f, source)
                                 \union RsCalls(f, source) \union RsAccesses(f, source)
    BY <1>1, RsShape DEF RsRead
  <2>2. RsAccesses(f, source) = Charged(f, source, RsBuiltin)
    BY DEF RsAccesses, Charged, RsBound, SaidTypes
  <2>3. \A i \in DOMAIN source : source[i].is = "use" => source[i].kind # "AccessesProperty"
    <3>1. \A i \in DOMAIN source : source[i] \in RsStatements
      BY <1>1
    <3> HIDE DEF source
    <3> QED
      BY <3>1, RsStatementParts
  <2> HIDE DEF source
  <2>4. \A r \in RsImpls(f, source) \union RsImports(f, source) : r.kind # "AccessesProperty"
    <3>1. ASSUME NEW r \in RsImpls(f, source) PROVE r.kind # "AccessesProperty"
      <4>1. PICK from, to, i : r = Rel(from, to, "Implements", NONE, i)
        BY DEF RsImpls
      <4> QED
        BY <4>1 DEF Rel
    <3>2. ASSUME NEW r \in RsImports(f, source) PROVE r.kind # "AccessesProperty"
      <4>1. PICK from, to, alias, i : r = Rel(from, to, "Imports", alias, i)
        BY DEF RsImports
      <4> QED
        BY <4>1 DEF Rel
    <3> QED
      BY <3>1, <3>2
  <2>5. \A r \in RsCalls(f, source) : r.kind # "AccessesProperty"
    BY <2>3 DEF RsCalls, Statements, Rel
  <2>6. \A r \in Charged(f, source, RsBuiltin) : r.kind = "AccessesProperty"
    BY DEF Charged, Rel
  <2> QED
    BY <2>1, <2>2, <2>4, <2>5, <2>6 DEF ChargedIn
<1>3. \A type : IsBuiltin(type) <=> type \in RsBuiltin
  BY DEF IsBuiltin
<1>4. IsLookedInto(f) <=> f \notin RsGenerated
  BY DEF IsLookedInto
<1>5. \A r \in ChargedIn(f) : Fate(f, r, RsBuiltin)
  <2>1. ASSUME NEW r \in ChargedIn(f) PROVE Fate(f, r, RsBuiltin)
    <3>1. r \in IRs[f].relationships /\ r.kind = "AccessesProperty"
      BY DEF ChargedIn
    <3>2. r.from = ModuleSymbol(f)
      BY <1>1, <3>1, RsRelationships
    <3>3. ModuleSymbol(f) \in index[f].symbols
      BY <1>1, RsShape, RsResolution
    <3> QED
      BY <1>1, <3>1, <3>2, <3>3, RsFates
  <2> QED
    BY <2>1
<1> HIDE DEF T
<1>6. language # "typescript"
  OBVIOUS
<1> QED
  BY <1>1, <1>2, <1>3, <1>4, <1>5, <1>6, MembersOfFile

(* What a use of a Rust name is bound to.                                   *)
RsBoundTo(f, q) == RsCallee(IRs, RsLocal(IRs[f], RsTargets(f), q.to.named[1]), q.to.named)
RsIsCall(q) == q.kind \in {"Calls", "Instantiates"}

(* What is in the index of a Rust file comes from what was extracted, and a *)
(* call of a symbol stays.                                                  *)
LEMMA RsResolvedParts ==
  ASSUME AdaptersInv, language = "rust", NEW f \in RsFiles
  PROVE  /\ \A r \in index[f].relationships : \E q \in IRs[f].relationships :
              /\ r.line = q.line
              /\ q.kind = "Imports" => r.to = RsTarget(IRs, f, q) /\ r.to # NONE
              /\ RsIsCall(q) => r.to = RsBoundTo(f, q)
         /\ \A q \in IRs[f].relationships : RsIsCall(q) =>
              LET to == RsBoundTo(f, q)
              IN  to # NONE /\ ~IsPackage(to) => \E k : [q EXCEPT !.to = to, !.kind = k] \in index[f].relationships
<1> DEFINE ir == IRs[f]
           rels == ir.relationships
           targets == RsTargets(f)
           missing == {r \in ImportsIn(ir) : RsIsMissing(IRs, f, r)}
           calls == {r \in rels : r.kind \in {"Calls", "Instantiates"}}
           types == {r \in rels : r.kind \notin {"Imports", "Calls", "Instantiates"}}
           local(r) == RsLocal(ir, targets, r.to.named[1])
           unknown == {r \in DOMAIN targets : targets[r] = NONE}
           lost == {r \in types : local(r) = NONE}
           to(q) == RsCallee(IRs, local(q), q.to.named)
           pairs == {<<r, to(r)>> : r \in calls}
           called == BoundCalls(pairs)
           led == {[r EXCEPT !.to = targets[r]] : r \in DOMAIN targets \ unknown}
           typed == {[r EXCEPT !.to = local(r)] : r \in types \ lost}
           diagnosed == {r.line : r \in unknown \union missing \union {r \in lost : r.to.named \notin RsBuiltin}}
<1>1. index[f].relationships = led \union called \union typed
  <2>1. index[f] = ResolveRs(IRs, f) /\ DOMAIN ir = {"symbols", "order", "relationships", "diagnostics"}
    BY RsShape
  <2>2. ResolveRs(IRs, f) = ResolveWith(IRs, f, targets, missing)
    BY DEF ResolveRs, RsTargets
  <2>3. ResolveWith(IRs, f, targets, missing)
          = [ir EXCEPT !.relationships = led \union called \union typed, !.diagnostics = diagnosed]
    BY DEF ResolveWith
  <2> HIDE DEF ir, targets, missing, led, called, typed, diagnosed
  <2>4. index[f] = [ir EXCEPT !.relationships = led \union called \union typed, !.diagnostics = diagnosed]
    BY <2>1, <2>2, <2>3
  <2> QED
    BY <2>1, <2>4
<1>2. DOMAIN targets = {r \in rels : r.kind = "Imports"} /\ \A r \in DOMAIN targets : targets[r] = RsTarget(IRs, f, r)
  BY DEF RsTargets, ImportsIn
<1>3. \A q \in rels : DOMAIN q = {"from", "to", "kind", "alias", "line"}
  BY RsRelationships
<1>4. \A q : to(q) = RsBoundTo(f, q)
  BY DEF RsBoundTo
<1> HIDE DEF targets, local
<1>5. ASSUME NEW r \in led
      PROVE  \E q \in rels : r.line = q.line /\ q.kind = "Imports" /\ r.to = RsTarget(IRs, f, q) /\ r.to # NONE
  <2>1. PICK q \in DOMAIN targets \ unknown : r = [q EXCEPT !.to = targets[q]]
    OBVIOUS
  <2>2. targets[q] # NONE
    BY <2>1
  <2> QED
    BY <1>2, <1>3, <2>1, <2>2
<1>6. ASSUME NEW r \in typed PROVE \E q \in types : r.line = q.line
  <2>1. PICK q \in types \ lost : r = [q EXCEPT !.to = local(q)]
    OBVIOUS
  <2> QED
    BY <1>3, <2>1
<1> HIDE DEF to
<1>7. ASSUME NEW r \in called PROVE \E q \in calls : r.line = q.line /\ r.to = to(q)
  <2>1. PICK c \in pairs : r = [c[1] EXCEPT !.to = c[2], !.kind = IF Constructs(c[2]) THEN "Instantiates" ELSE @]
    BY DEF BoundCalls
  <2>2. PICK q \in calls : c = <<q, to(q)>>
    OBVIOUS
  <2> DEFINE kind == IF Constructs(to(q)) THEN "Instantiates" ELSE q.kind
  <2>3. r = [q EXCEPT !.to = to(q), !.kind = kind]
    BY <2>1, <2>2
  <2> HIDE DEF kind
  <2> QED
    BY <1>3, <2>3
<1>8. ASSUME NEW q \in calls, to(q) # NONE, ~IsPackage(to(q))
      PROVE  \E k : [q EXCEPT !.to = to(q), !.kind = k] \in called
  <2> DEFINE kind == IF Constructs(to(q)) THEN "Instantiates" ELSE q.kind
             c == <<q, to(q)>>
  <2>1. c \in pairs /\ c[2] # NONE /\ ~IsPackage(c[2])
    BY <1>8
  <2>2. [c[1] EXCEPT !.to = c[2], !.kind = IF Constructs(c[2]) THEN "Instantiates" ELSE @] \in called
    <3> HIDE DEF c, pairs
    <3> QED
      BY <2>1 DEF BoundCalls
  <2>3. [q EXCEPT !.to = to(q), !.kind = kind] \in called
    BY <2>2
  <2> QED
    BY <2>3
<1>9. \A q \in rels : RsIsCall(q) <=> q \in calls
  BY DEF RsIsCall
<1>10. \A q \in types : q \in rels /\ q.kind # "Imports" /\ q \notin calls
  OBVIOUS
<1>11. \A q \in calls : q \in rels /\ q.kind # "Imports"
  OBVIOUS
<1> HIDE DEF led, called, typed, calls, types
<1>12. \A r \in led \union called \union typed : \E q \in rels :
         /\ r.line = q.line
         /\ q.kind = "Imports" => r.to = RsTarget(IRs, f, q) /\ r.to # NONE
         /\ RsIsCall(q) => r.to = RsBoundTo(f, q)
  <2>1. ASSUME NEW r \in led
        PROVE  \E q \in rels : /\ r.line = q.line
                               /\ q.kind = "Imports" => r.to = RsTarget(IRs, f, q) /\ r.to # NONE
                               /\ RsIsCall(q) => r.to = RsBoundTo(f, q)
    BY <1>5, <2>1 DEF RsIsCall
  <2>2. ASSUME NEW r \in called
        PROVE  \E q \in rels : /\ r.line = q.line
                               /\ q.kind = "Imports" => r.to = RsTarget(IRs, f, q) /\ r.to # NONE
                               /\ RsIsCall(q) => r.to = RsBoundTo(f, q)
    BY <1>4, <1>7, <1>11, <2>2
  <2>3. ASSUME NEW r \in typed
        PROVE  \E q \in rels : /\ r.line = q.line
                               /\ q.kind = "Imports" => r.to = RsTarget(IRs, f, q) /\ r.to # NONE
                               /\ RsIsCall(q) => r.to = RsBoundTo(f, q)
    BY <1>6, <1>9, <1>10, <2>3
  <2> QED
    BY <2>1, <2>2, <2>3
<1>13. \A q \in rels : RsIsCall(q) =>
         (RsBoundTo(f, q) # NONE /\ ~IsPackage(RsBoundTo(f, q))
            => \E k : [q EXCEPT !.to = RsBoundTo(f, q), !.kind = k] \in called)
  BY <1>4, <1>8, <1>9
<1> QED
  BY <1>1, <1>12, <1>13

(* The imports of a Rust file, each of a leaf of the statement at its line; *)
(* and what is there where a name is used.                                  *)
LEMMA RsLineOf ==
  ASSUME AdaptersInv, language = "rust", NEW f \in RsFiles
  PROVE  /\ \A q \in IRs[f].relationships :
              /\ q.kind = "Imports" =>
                   /\ q.line \in DOMAIN RsRead(f) /\ RsRead(f)[q.line].is = "usetree"
                   /\ \E leaf \in Leaves(RsRead(f)[q.line]) : q.to = leaf.to /\ q.alias = leaf.alias
              /\ RsRead(f)[q.line].is = "usetree" => q.kind = "Imports"
              /\ RsRead(f)[q.line].is = "use" => RsIsCall(q) /\ q.to.named = RsRead(f)[q.line].path
         /\ \A j \in DOMAIN RsRead(f) : RsRead(f)[j].is = "usetree" =>
              \A leaf \in Leaves(RsRead(f)[j]) : \E q \in IRs[f].relationships :
                q.kind = "Imports" /\ q.line = j /\ q.to = leaf.to /\ q.alias = leaf.alias
<1> DEFINE source == RsRead(f)
<1>1. /\ source \in Seq(RsStatements) /\ WellFormed(source)
      /\ IRs[f].relationships = RsImpls(f, source) \union RsImports(f, source)
                                  \union RsCalls(f, source) \union RsAccesses(f, source)
  BY RsShape
<1>2. \A i \in DOMAIN source : source[i] \in RsStatements
  BY <1>1
<1> HIDE DEF source
<1>3. ASSUME NEW q \in RsImpls(f, source) PROVE source[q.line].is = "impl" /\ q.kind # "Imports"
  <2>1. PICK j \in DOMAIN source :
          /\ source[j].is = "impl"
          /\ q = Rel(SymbolAt(f, Def(source[j].name, NONE, source[j].kind)), Named(<<source[j].trait>>),
                     "Implements", NONE, j)
    BY <1>3 DEF RsImpls, Statements
  <2> QED
    BY <2>1 DEF Rel
<1>4. ASSUME NEW q \in RsImports(f, source)
      PROVE  /\ q.kind = "Imports" /\ q.line \in DOMAIN source /\ source[q.line].is = "usetree"
             /\ \E leaf \in Leaves(source[q.line]) : q.to = leaf.to /\ q.alias = leaf.alias
  <2>1. PICK j, leaf :
          /\ j \in DOMAIN source /\ source[j].is = "usetree" /\ leaf \in Leaves(source[j])
          /\ q = Rel(ModuleSymbol(f), leaf.to, "Imports", leaf.alias, j)
    BY <1>4 DEF RsImports, Statements
  <2> QED
    BY <2>1 DEF Rel
<1>5. ASSUME NEW q \in RsCalls(f, source)
      PROVE  q.kind # "Imports" /\ source[q.line].is = "use" /\ RsIsCall(q) /\ q.to.named = source[q.line].path
  <2>1. PICK j \in DOMAIN source :
          source[j].is = "use" /\ q = Rel(ModuleSymbol(f), Named(source[j].path), source[j].kind, NONE, j)
    BY <1>5 DEF RsCalls, Statements
  <2>2. source[j].kind \in {"Calls", "Instantiates"}
    BY <1>2, <2>1, RsStatementParts
  <2> QED
    BY <2>1, <2>2 DEF Rel, Named, RsIsCall
<1>6. ASSUME NEW q \in RsAccesses(f, source) PROVE source[q.line].is = "member" /\ q.kind # "Imports"
  <2>1. PICK a \in MemberTypes(SaidTypes(source, Members(source)), RsBuiltin) :
          q = Rel(ModuleSymbol(f), Named(a[2]), "AccessesProperty", NONE, a[1])
    BY <1>6 DEF RsAccesses, RsBound, SaidTypes
  <2>2. source[a[1]].is = "member"
    BY <1>1, <2>1, ChargedIsMember DEF Statements
  <2> QED
    BY <2>1, <2>2 DEF Rel
<1>7. ASSUME NEW j \in DOMAIN source, source[j].is = "usetree", NEW leaf \in Leaves(source[j])
      PROVE  \E q \in IRs[f].relationships : q.kind = "Imports" /\ q.line = j /\ q.to = leaf.to /\ q.alias = leaf.alias
  <2> DEFINE q == Rel(ModuleSymbol(f), leaf.to, "Imports", leaf.alias, j)
  <2>1. q \in RsImports(f, source)
    BY <1>7 DEF RsImports, Statements
  <2>2. q.kind = "Imports" /\ q.line = j /\ q.to = leaf.to /\ q.alias = leaf.alias
    BY DEF Rel
  <2> HIDE DEF q
  <2> QED
    BY <1>1, <2>1, <2>2
<1>8. ASSUME NEW q \in IRs[f].relationships
      PROVE  /\ q.kind = "Imports" =>
                   /\ q.line \in DOMAIN source /\ source[q.line].is = "usetree"
                   /\ \E leaf \in Leaves(source[q.line]) : q.to = leaf.to /\ q.alias = leaf.alias
             /\ source[q.line].is = "usetree" => q.kind = "Imports"
             /\ source[q.line].is = "use" => RsIsCall(q) /\ q.to.named = source[q.line].path
  BY <1>1, <1>3, <1>4, <1>5, <1>6, <1>8
<1> QED
  BY <1>7, <1>8 DEF source

(* The imports of a Rust file by a name that lead somewhere.                *)
RsImportsBy(f, name) == {r \in ImportsIn(IRs[f]) : RsLocalName(r) = name /\ RsTarget(IRs, f, r) # NONE}

(* The last of them is what the name means in the file.                     *)
LEMMA RsNameIsImport ==
  ASSUME AdaptersInv, language = "rust", NEW f \in RsFiles, NEW name, RsImportsBy(f, name) # {}
  PROVE  LET r == Latest(RsImportsBy(f, name))
         IN  /\ r \in RsImportsBy(f, name) /\ \A q \in RsImportsBy(f, name) : q.line <= r.line
             /\ RsLocal(IRs[f], RsTargets(f), name) = RsTarget(IRs, f, r)
             /\ IsTarget(RsTarget(IRs, f, r))
             /\ RsTarget(IRs, f, r) \in {e.to : e \in EdgesAt(f, r.line)}
<1> DEFINE of == RsImportsBy(f, name)
           targets == RsTargets(f)
           r == Latest(of)
           to == RsTarget(IRs, f, r)
<1>1. \A q \in of : q \in IRs[f].relationships /\ q.kind = "Imports" /\ RsTarget(IRs, f, q) # NONE
  BY DEF RsImportsBy, ImportsIn
<1>2. of = {q \in DOMAIN targets : RsLocalName(q) = name /\ targets[q] # NONE}
      /\ \A q \in of : targets[q] = RsTarget(IRs, f, q)
  BY DEF RsImportsBy, RsTargets
<1> HIDE DEF targets
<1>3. RsLocal(IRs[f], targets, name) = IF of = {} THEN ByName(IRs[f].order, name) ELSE targets[r]
  BY <1>2 DEF RsLocal
<1> HIDE DEF of
<1>4. \A q \in of : /\ q.line \in DOMAIN RsRead(f) /\ q.to.name \in Nat /\ q.from = ModuleSymbol(f)
                    /\ DOMAIN q = {"from", "to", "kind", "alias", "line"}
  BY <1>1, RsRelationships
<1>5. r \in of /\ \A q \in of : q.line <= r.line
  <2>1. DOMAIN RsRead(f) = 1 .. Len(RsRead(f)) /\ Len(RsRead(f)) \in Nat
    <3>1. RsRead(f) \in Seq(RsStatements)
      BY RsShape
    <3> QED
      BY <3>1
  <2>2. \A q \in of : q.line \in 1 .. Len(RsRead(f))
    BY <1>4, <2>1
  <2> QED
    BY <2>1, <2>2, LatestIsOne DEF of
<1> HIDE DEF r
<1>6. RsLocal(IRs[f], targets, name) = to
  BY <1>2, <1>3, <1>5
<1>7. to # NONE /\ IsTarget(to)
  BY <1>1, <1>4, <1>5, RsTargetIsTarget
<1>8. [r EXCEPT !.to = to] \in index[f].relationships
  BY <1>1, <1>5, <1>7, RsResolution
<1> DEFINE e == [r EXCEPT !.to = to]
<1>9. e.line = r.line /\ e.from = ModuleSymbol(f) /\ e.to = to /\ e \in index[f].relationships
  BY <1>4, <1>5, <1>8
<1>10. ModuleSymbol(f) \in index[f].symbols
  BY RsShape, RsResolution
<1> HIDE DEF e, to
<1>11. e \in EdgesAt(f, r.line)
  BY <1>7, <1>9, <1>10, RsSymbolsOfAll DEF EdgesAt, IsTarget
<1> QED
  BY <1>5, <1>6, <1>7, <1>9, <1>11 DEF of, targets, to, r

(* The names that a `use` makes known.                                      *)
RsNames(s) == {RsLocalName(leaf) : leaf \in Leaves(s)}

(* The imports of a name are the statements that make it known.             *)
LEMMA RsImportsOf ==
  ASSUME AdaptersInv, language = "rust", NEW f \in RsFiles, f \notin RsGenerated, NEW name
  PROVE  /\ \A j : j \in ImportsOf(f, name) <=>
               j \in DOMAIN sources[f] /\ sources[f][j].is = "usetree" /\ name \in RsNames(sources[f][j])
         /\ \A j \in ImportsOf(f, name) : LocalNames(f, sources[f][j]) = RsNames(sources[f][j])
<1> DEFINE source == sources[f]
<1>1. source \in Seq(RsStatements)
  <2>1. RsRead(f) = source
    BY DEF RsRead, Read
  <2> QED
    BY <2>1, RsShape
<1>2. ASSUME NEW j \in DOMAIN source PROVE source[j].is # "import"
  <2>1. source[j] \in RsStatements
    BY <1>1
  <2> QED
    BY <2>1 DEF RsStatements, SharedStatements
<1>3. Written(f, {"import", "usetree"}) = {j \in DOMAIN source : source[j].is = "usetree"}
  BY <1>2 DEF Written, IsLookedInto
<1>4. \A j \in DOMAIN source : source[j].is = "usetree" => LocalNames(f, source[j]) = RsNames(source[j])
  BY DEF LocalNames, RsNames
<1>5. ImportsOf(f, name) = {j \in DOMAIN source : source[j].is = "usetree" /\ name \in LocalNames(f, source[j])}
  BY <1>3 DEF ImportsOf
<1> HIDE DEF source
<1>6. /\ \A j : j \in ImportsOf(f, name) <=>
            j \in DOMAIN source /\ source[j].is = "usetree" /\ name \in RsNames(source[j])
      /\ \A j \in ImportsOf(f, name) : LocalNames(f, source[j]) = RsNames(source[j])
  BY <1>4, <1>5
<1> QED
  BY <1>6 DEF source

(* In Rust a use leads where the last import of its name does.              *)
LEMMA RsUses ==
  ASSUME AdaptersInv, language = "rust", NEW f \in DOMAIN sources, NEW i \in Written(f, {"use"})
  PROVE  FollowsImport(f, i)
<1> DEFINE s == sources[f][i]
           name == UsedName(s)
           last == LastOfImports(f, name)
           targets == {r.to : r \in EdgesAt(f, last)}
           of == RsImportsBy(f, name)
           r == Latest(of)
           to == RsTarget(IRs, f, r)
<1>1. /\ f \in RsFiles /\ f \notin RsGenerated /\ RsRead(f) = sources[f]
      /\ sources[f] \in Seq(RsStatements) /\ i \in DOMAIN sources[f] /\ s.is = "use" /\ s.path \in Path
  <2>1. f \in RsFiles /\ f \notin RsGenerated /\ i \in DOMAIN sources[f] /\ s.is = "use"
    BY RsShape DEF Written, IsLookedInto
  <2>2. RsRead(f) = sources[f]
    BY <2>1 DEF RsRead, Read
  <2>3. sources[f] \in Seq(RsStatements) /\ WellFormed(sources[f])
    BY <2>1, <2>2, RsShape
  <2> QED
    BY <2>1, <2>2, <2>3 DEF WellFormed
<1> SUFFICES ASSUME name # NONE, ImportsOf(f, name) # {}, targets # {},
                    LocalNames(f, sources[f][last]) = {name} \/ ~Reported(f, last)
             PROVE  /\ {e.to : e \in EdgesAt(f, i)} \subseteq targets
                    /\ EdgesAt(f, i) # {} \/ \E t \in targets : IsPackage(t)
  BY DEF FollowsImport
<1>2. Len(s.path) = 1 /\ name = s.path[1]
  BY DEF UsedName
<1>3. /\ last \in ImportsOf(f, name) /\ \A k \in ImportsOf(f, name) : k <= last
      /\ ImportsOf(f, name) \subseteq DOMAIN sources[f] /\ DOMAIN sources[f] \subseteq Nat
  <2> HIDE DEF name
  <2> QED
    BY <1>1, LastImport
<1> HIDE DEF name, last
<1>4. /\ \A j : j \in ImportsOf(f, name) <=>
            j \in DOMAIN sources[f] /\ sources[f][j].is = "usetree" /\ name \in RsNames(sources[f][j])
      /\ sources[f][last].is = "usetree" /\ name \in RsNames(sources[f][last])
      /\ LocalNames(f, sources[f][last]) = RsNames(sources[f][last])
  BY <1>1, <1>3, RsImportsOf
<1>5. \A q \in of : q.line \in ImportsOf(f, name)
  <2>1. ASSUME NEW q \in of PROVE q.line \in ImportsOf(f, name)
    <3>1. q \in IRs[f].relationships /\ q.kind = "Imports" /\ RsLocalName(q) = name
      BY DEF RsImportsBy, ImportsIn
    <3>2. PICK leaf \in Leaves(sources[f][q.line]) : q.to = leaf.to /\ q.alias = leaf.alias
      BY <1>1, <3>1, RsLineOf
    <3>3. RsLocalName(leaf) = name
      BY <3>1, <3>2 DEF RsLocalName
    <3>4. name \in RsNames(sources[f][q.line])
      BY <3>2, <3>3 DEF RsNames
    <3>5. q.line \in DOMAIN sources[f] /\ sources[f][q.line].is = "usetree"
      BY <1>1, <3>1, RsLineOf
    <3> QED
      BY <1>4, <3>4, <3>5
  <2> QED
    BY <2>1
<1>6. \E q \in of : q.line = last
  <2>1. CASE LocalNames(f, sources[f][last]) = {name}
    <3>1. PICK e \in EdgesAt(f, last) : TRUE
      OBVIOUS
    <3>2. e \in index[f].relationships /\ e.line = last
      BY DEF EdgesAt
    <3>3. PICK q \in IRs[f].relationships :
            e.line = q.line /\ (q.kind = "Imports" => e.to = RsTarget(IRs, f, q) /\ e.to # NONE)
      BY <1>1, <3>2, RsResolvedParts
    <3>4. q.kind = "Imports"
      BY <1>1, <1>4, <3>2, <3>3, RsLineOf
    <3>5. PICK leaf \in Leaves(sources[f][last]) : q.to = leaf.to /\ q.alias = leaf.alias
      BY <1>1, <3>2, <3>3, <3>4, RsLineOf
    <3>6. RsLocalName(leaf) = name
      BY <1>4, <2>1 DEF RsNames
    <3>7. RsLocalName(q) = name
      BY <3>5, <3>6 DEF RsLocalName
    <3> QED
      BY <3>2, <3>3, <3>4, <3>7 DEF RsImportsBy, ImportsIn
  <2>2. CASE ~Reported(f, last)
    <3>1. PICK leaf \in Leaves(sources[f][last]) : RsLocalName(leaf) = name
      BY <1>4 DEF RsNames
    <3>2. PICK q \in IRs[f].relationships : q.kind = "Imports" /\ q.line = last /\ q.to = leaf.to /\ q.alias = leaf.alias
      BY <1>1, <1>3, <1>4, RsLineOf
    <3>3. RsLocalName(q) = name
      BY <3>1, <3>2 DEF RsLocalName
    <3>4. RsTarget(IRs, f, q) # NONE
      BY <1>1, <2>2, <3>2, RsResolution DEF Reported
    <3> QED
      BY <3>2, <3>3, <3>4 DEF RsImportsBy, ImportsIn
  <2> QED
    BY <2>1, <2>2
<1>7. /\ r \in of /\ \A q \in of : q.line <= r.line
      /\ RsLocal(IRs[f], RsTargets(f), name) = to /\ IsTarget(to) /\ to \in {e.to : e \in EdgesAt(f, r.line)}
  BY <1>1, <1>6, RsNameIsImport
<1>8. to # NONE
  BY <1>7 DEF RsImportsBy
<1> HIDE DEF of, r
<1>9. r.line = last
  <2>1. PICK q \in of : q.line = last
    BY <1>6
  <2>2. r.line \in Nat /\ last \in Nat /\ r.line <= last /\ last <= r.line
    BY <1>3, <1>5, <1>7, <2>1
  <2> QED
    BY <2>2
<1> HIDE DEF to
<1>10. to \in targets
  BY <1>7, <1>9
<1>11. \A q : q.to.named = s.path => RsBoundTo(f, q) = to
  BY <1>2, <1>7 DEF RsBoundTo, RsCallee
<1>12. \A e \in EdgesAt(f, i) : e.to = to
  <2>1. ASSUME NEW e \in index[f].relationships, e.line = i PROVE e.to = to
    <3>1. PICK q \in IRs[f].relationships : e.line = q.line /\ (RsIsCall(q) => e.to = RsBoundTo(f, q))
      BY <1>1, RsResolvedParts
    <3>2. RsIsCall(q) /\ q.to.named = s.path
      BY <1>1, <2>1, <3>1, RsLineOf
    <3> QED
      BY <1>11, <3>1, <3>2
  <2> QED
    BY <2>1 DEF EdgesAt
<1>13. IsPackage(to) \/ EdgesAt(f, i) # {}
  <2> SUFFICES ASSUME ~IsPackage(to) PROVE EdgesAt(f, i) # {}
    OBVIOUS
  <2> DEFINE q == Rel(ModuleSymbol(f), Named(s.path), s.kind, NONE, i)
  <2>1. q \in RsCalls(f, RsRead(f))
    BY <1>1 DEF RsCalls, Statements
  <2>2. q \in IRs[f].relationships
    BY <1>1, <2>1, RsShape
  <2>3. q.kind = s.kind /\ q.to.named = s.path /\ q.line = i /\ q.from = ModuleSymbol(f)
    BY DEF Rel, Named
  <2>4. s.kind \in {"Calls", "Instantiates"}
    <3>1. s \in RsStatements
      BY <1>1
    <3> HIDE DEF s
    <3> QED
      BY <1>1, <3>1, RsStatementParts
  <2>5. \A t, k : /\ [q EXCEPT !.to = t, !.kind = k].line = i /\ [q EXCEPT !.to = t, !.kind = k].to = t
                  /\ [q EXCEPT !.to = t, !.kind = k].from = ModuleSymbol(f)
    BY DEF Rel
  <2> HIDE DEF q
  <2>6. RsIsCall(q) /\ RsBoundTo(f, q) = to
    BY <1>11, <2>3, <2>4 DEF RsIsCall
  <2>7. PICK k : [q EXCEPT !.to = RsBoundTo(f, q), !.kind = k] \in index[f].relationships
    BY <1>1, <1>8, <2>2, <2>6, RsResolvedParts
  <2> DEFINE e == [q EXCEPT !.to = to, !.kind = k]
  <2>8. e \in index[f].relationships
    BY <2>6, <2>7
  <2>9. e.line = i /\ e.to = to /\ e.from = ModuleSymbol(f)
    BY <2>5
  <2>10. ModuleSymbol(f) \in index[f].symbols
    BY <1>1, RsShape, RsResolution
  <2>11. to \in SymbolsOfAll
    BY <1>7, RsSymbolsOfAll DEF IsTarget
  <2> HIDE DEF e
  <2> QED
    BY <2>8, <2>9, <2>10, <2>11, AnEdge
<1> QED
  BY <1>10, <1>12, <1>13

-----------------------------------------------------------------------------
(* TypeScript. The parts of its statements.                                 *)
LEMMA TsStatementParts ==
  ASSUME NEW s \in Ts!TsStatements
  PROVE  /\ s.is \in Takes => s.is \in {"import", "reexport"}
         /\ s.is = "declaration" => s.name \in Nat /\ s.kind \in {"class", "function", "method", "property"}
         /\ s.is = "use" => s.kind \in {"Calls", "Instantiates", "UsesType"}
         /\ s.is = "typed" => s.type \in Nat /\ s.var \in Nat
         /\ s.is # "member"
  BY DEF Ts!TsStatements, Takes

(* The symbols of a file, of which every one has a place in their order.    *)
IsTsSymbol(f, s) ==
  \E name \in Nat, kind \in {"class", "function", "method", "property", "module"} : s = Ts!Sym(f, name, kind)

(* They are finitely many, and only the module is of its kind.              *)
LEMMA TsSymbolsAreFinite ==
  ASSUME NEW f, NEW source \in Seq(Ts!TsStatements)
  PROVE  /\ IsFiniteSet(Ts!SymbolsOf(f, source)) /\ Ts!ModuleSymbol(f) \in Ts!SymbolsOf(f, source)
         /\ \A s \in Ts!SymbolsOf(f, source) : IsTsSymbol(f, s)
         /\ \A s \in Ts!SymbolsOf(f, source) : s.kind = "module" => s = Ts!ModuleSymbol(f)
<1> DEFINE at == Ts!StatementsOf(source, "declaration")
           symbolAt == [i \in at |-> Ts!Sym(f, source[i].name, source[i].kind)]
<1>1. \A i \in DOMAIN source : source[i] \in Ts!TsStatements
  OBVIOUS
<1>2. IsFiniteSet(at)
  <2>1. at \subseteq 1 .. Len(source) /\ Len(source) \in Nat
    BY DEF Ts!StatementsOf
  <2> HIDE DEF at
  <2> QED
    BY <2>1, Positions
<1>3. Ts!SymbolsOf(f, source) = {symbolAt[i] : i \in at} \union {Ts!ModuleSymbol(f)}
  BY DEF Ts!SymbolsOf
<1>4. \A i \in at : /\ IsTsSymbol(f, symbolAt[i])
                    /\ symbolAt[i].kind # "module"
  <2>1. ASSUME NEW i \in at PROVE IsTsSymbol(f, symbolAt[i]) /\ symbolAt[i].kind # "module"
    <3> DEFINE name == source[i].name
               kind == source[i].kind
    <3>1. name \in Nat /\ kind \in {"class", "function", "method", "property"}
      BY <1>1, TsStatementParts DEF Ts!StatementsOf
    <3>2. symbolAt[i] = Ts!Sym(f, name, kind)
      OBVIOUS
    <3> HIDE DEF name, kind, symbolAt
    <3> QED
      BY <3>1, <3>2 DEF IsTsSymbol, Ts!Sym
  <2> QED
    BY <2>1
<1>5. IsTsSymbol(f, Ts!ModuleSymbol(f))
  BY DEF IsTsSymbol, Ts!ModuleSymbol, Ts!Sym, Ts!Module
<1>6. DOMAIN symbolAt = at
  OBVIOUS
<1> HIDE DEF at, symbolAt
<1>7. IsFiniteSet({symbolAt[i] : i \in at})
  BY <1>2, <1>6, ImageIsFinite
<1>8. IsFiniteSet({symbolAt[i] : i \in at} \union {Ts!ModuleSymbol(f)})
  BY <1>7, FS_AddElement
<1> QED
  BY <1>3, <1>4, <1>5, <1>8

(* Of some symbols of a file one is the least.                              *)
LEMMA LeastSymbolIsOne ==
  ASSUME NEW f, NEW S, IsFiniteSet(S), S # {}, \A s \in S : IsTsSymbol(f, s)
  PROVE  Ts!LeastSymbol(S) \in S
<1> DEFINE rank(s) == Ts!KindRank[s.kind]
           R == {p \in S \X S : Ts!SymPrecedes(p[2], p[1])}
<1>1. \A s, t \in S : <<s, t>> \in R <=> Ts!SymPrecedes(t, s)
  OBVIOUS
<1> HIDE DEF R
<1>2. \A s \in S : /\ s.name \in Nat /\ rank(s) \in 1 .. 5 /\ s = [file |-> f, name |-> s.name, kind |-> s.kind]
                   /\ s.kind \in {"class", "function", "method", "property", "module"}
  BY DEF IsTsSymbol, Ts!Sym, Ts!KindRank
<1>3. \A s, t \in S : rank(s) = rank(t) => s.kind = t.kind
  BY <1>2 DEF Ts!KindRank
<1>4. \A s, t \in S : s.name = t.name /\ s.kind = t.kind => s = t
  BY <1>2
<1>5. \A s, t \in S : Ts!SymPrecedes(s, t) <=>
        \/ t.kind = "module" /\ s.kind # "module"
        \/ /\ (s.kind = "module") = (t.kind = "module")
           /\ s.name < t.name \/ (s.name = t.name /\ rank(s) < rank(t))
  BY DEF Ts!SymPrecedes
<1> DEFINE last(s) == s.kind = "module"
<1>6. \A s \in S : s.name \in Nat /\ rank(s) \in Nat /\ last(s) \in BOOLEAN
  BY <1>2
<1>7. \A s, t \in S : Ts!SymPrecedes(s, t) <=>
        \/ last(t) /\ ~last(s)
        \/ /\ last(s) = last(t)
           /\ s.name < t.name \/ (s.name = t.name /\ rank(s) < rank(t))
  BY <1>5
<1> HIDE DEF rank, last
<1>8. IsStrictOrder(S, R)
  <2>1. \A s \in S : <<s, s>> \notin R
    BY <1>1, <1>6, <1>7
  <2>2. \A s, t, u \in S : <<s, t>> \in R /\ <<t, u>> \in R => <<s, u>> \in R
    BY <1>1, <1>6, <1>7
  <2> QED
    BY <2>1, <2>2 DEF IsStrictOrder
<1>9. PICK s \in S : \A t \in S : <<s, t>> \notin R
  BY <1>8, LastExists
<1>10. ASSUME NEW t \in S PROVE s = t \/ Ts!SymPrecedes(s, t)
  <2>1. ~Ts!SymPrecedes(t, s)
    BY <1>1, <1>9
  <2>2. Ts!SymPrecedes(s, t) \/ (s.name = t.name /\ rank(s) = rank(t))
    BY <1>6, <1>7, <2>1
  <2> QED
    BY <1>3, <1>4, <2>2
<1> QED
  BY <1>10 DEF Ts!LeastSymbol

(* The symbols of a name: the default export may be of any.                 *)
KnownBy(S, name) == {s \in S : name # Ts!Default => s.name = name}

(* What a file exports under a name is a symbol of that name, or nothing.   *)
LEMMA ExportedIsSymbol ==
  ASSUME NEW f, NEW S, IsFiniteSet(S), \A s \in S : IsTsSymbol(f, s), NEW name
  PROVE  Ts!Exported(S, name) \in {NONE} \union KnownBy(S, name)
<1> DEFINE candidates == {s \in S : s.kind \notin {"module", "property"}}
           named == {s \in S : s.name = name}
<1>1. Ts!Exported(S, name) = IF name = Ts!Default THEN (IF candidates = {} THEN NONE ELSE Ts!LeastSymbol(candidates))
                             ELSE IF named = {} THEN NONE ELSE Ts!LeastSymbol(named)
  BY DEF Ts!Exported, Ts!PickDefault
<1>2. candidates \in SUBSET S /\ named \in SUBSET S /\ \A s \in named : s.name = name
  OBVIOUS
<1> HIDE DEF candidates, named
<1>3. IsFiniteSet(candidates) /\ IsFiniteSet(named)
  BY <1>2, FS_Subset
<1>4. \A s \in candidates \union named : IsTsSymbol(f, s)
  BY <1>2
<1>5. candidates # {} => Ts!LeastSymbol(candidates) \in candidates
  BY <1>3, <1>4, LeastSymbolIsOne
<1>6. named # {} => Ts!LeastSymbol(named) \in named
  BY <1>3, <1>4, LeastSymbolIsOne
<1> QED
  BY <1>1, <1>2, <1>5, <1>6 DEF KnownBy

(* A relative specifier leads to a file that is analysed, or to none.       *)
LEMMA TargetFileIsFile ==
  ASSUME NEW spec
  PROVE  Ts!TargetFile(spec) \in {NONE} \union TsKnown
<1> DEFINE files == TsRelative[spec]
           at == {i \in DOMAIN files : files[i] \in TsKnown}
<1>1. CASE spec \in DOMAIN TsRelative
  <2>1. files \in Seq(TsFiles)
    BY <1>1, FilesAssumption
  <2>2. at \subseteq 1 .. Len(files) /\ Len(files) \in Nat
    BY <2>1
  <2>3. Ts!TargetFile(spec) = IF at = {} THEN NONE ELSE files[CHOOSE i \in at : \A j \in at : i <= j]
    BY <1>1 DEF Ts!TargetFile, Ts!FirstIn
  <2>4. \A i \in at : files[i] \in TsKnown
    OBVIOUS
  <2> HIDE DEF files, at
  <2>5. IsFiniteSet(at) /\ at \subseteq Nat
    BY <2>2, Positions
  <2>6. at # {} => \E i \in at : \A j \in at : i <= j
    BY <2>5, LeastOfFinite
  <2> QED
    BY <2>3, <2>4, <2>6
<1>2. CASE spec \notin DOMAIN TsRelative
  BY <1>2 DEF Ts!TargetFile
<1> QED
  BY <1>1, <1>2

(* What is made of a TypeScript file: its symbols and its relationships.    *)
TsRead(f) == Read(TsMinified, f)
TsPrimary(f) == Ts!Primary(f, TsRead(f))
TsImports(f) ==
  {Ts!Rel(TsPrimary(f), Ts!ImportOf(TsRead(f)[i].spec, TsRead(f)[i].name), "Imports",
          Ts!AliasOf(TsRead(f)[i].name, TsRead(f)[i].local), i) : i \in Ts!StatementsOf(TsRead(f), "import")}
TsReexports(f) ==
  {Ts!Rel(TsPrimary(f), Ts!ImportOf(TsRead(f)[i].spec, TsRead(f)[i].name), "ReExports",
          Ts!AliasOf(TsRead(f)[i].name, TsRead(f)[i].as), i) : i \in Ts!StatementsOf(TsRead(f), "reexport")}
TsUses(f) ==
  {Ts!Rel(TsPrimary(f), Ts!TypeNamed(TsRead(f)[i].name), TsRead(f)[i].kind, TsRead(f)[i].name, i) :
     i \in Ts!StatementsOf(TsRead(f), "use")}

(* The files of a TypeScript repository and what was extracted from them.   *)
LEMMA TsShape ==
  ASSUME AdaptersInv, language = "typescript"
  PROVE  /\ DOMAIN sources = TsKnown /\ DOMAIN IRs = TsKnown /\ DOMAIN index = TsKnown
         /\ IsFiniteSet(TsKnown) /\ TsKnown \subseteq Nat
         /\ \A f \in TsKnown :
              /\ TsRead(f) \in Seq(Ts!TsStatements)
              /\ IRs[f].symbols = Ts!SymbolsOf(f, TsRead(f))
              /\ IRs[f].relationships = TsImports(f) \union TsReexports(f) \union TsUses(f)
                                          \union Ts!AccessRels(f, TsRead(f))
              /\ DOMAIN IRs[f] = {"symbols", "reexports", "relationships", "diagnostics", "unplaced"}
              /\ index[f] = Ts!ResolveTs(IRs, f)
<1>1. FilesOf(language) = TsKnown /\ StatementsOf(language) = Ts!TsStatements
  BY DEF FilesOf, StatementsOf
<1>2. DOMAIN sources = TsKnown /\ DOMAIN IRs = TsKnown /\ DOMAIN index = TsKnown
  BY <1>1, Analysed
<1>3. ASSUME NEW f \in TsKnown
      PROVE  /\ TsRead(f) \in Seq(Ts!TsStatements)
             /\ IRs[f].symbols = Ts!SymbolsOf(f, TsRead(f))
             /\ IRs[f].relationships = TsImports(f) \union TsReexports(f) \union TsUses(f)
                                         \union Ts!AccessRels(f, TsRead(f))
             /\ DOMAIN IRs[f] = {"symbols", "reexports", "relationships", "diagnostics", "unplaced"}
             /\ index[f] = Ts!ResolveTs(IRs, f)
  <2>1. /\ sources[f] \in Seq(Ts!TsStatements) /\ IRs[f] = Extract(language, f, sources[f])
        /\ index[f] = Resolve(language, IRs, f)
    BY <1>1, <1>3, Analysed
  <2>2. TsRead(f) \in Seq(Ts!TsStatements)
    BY <2>1 DEF TsRead, Read
  <2>3. IRs[f] = Ts!ExtractTs(f, TsRead(f))
    BY <2>1 DEF Extract, Ts!TsFileIR, TsRead, Read
  <2>4. /\ IRs[f].symbols = Ts!SymbolsOf(f, TsRead(f))
        /\ IRs[f].relationships = TsImports(f) \union TsReexports(f) \union TsUses(f)
                                    \union Ts!AccessRels(f, TsRead(f))
        /\ DOMAIN IRs[f] = {"symbols", "reexports", "relationships", "diagnostics", "unplaced"}
    BY <2>3 DEF Ts!ExtractTs, TsImports, TsReexports, TsUses, TsPrimary
  <2>5. index[f] = Ts!ResolveTs(IRs, f)
    BY <2>1 DEF Resolve
  <2> QED
    BY <2>2, <2>4, <2>5
<1> QED
  BY <1>2, <1>3, FilesAssumption

(* Its symbols are of it, and its first symbol is one of them.              *)
LEMMA TsSymbols ==
  ASSUME AdaptersInv, language = "typescript", NEW f \in TsKnown
  PROVE  /\ IsFiniteSet(IRs[f].symbols) /\ Ts!ModuleSymbol(f) \in IRs[f].symbols
         /\ \A s \in IRs[f].symbols : IsTsSymbol(f, s) /\ (s.kind = "module" => s = Ts!ModuleSymbol(f))
         /\ TsPrimary(f) \in IRs[f].symbols
<1>1. TsRead(f) \in Seq(Ts!TsStatements) /\ IRs[f].symbols = Ts!SymbolsOf(f, TsRead(f))
  BY TsShape
<1>2. /\ IsFiniteSet(IRs[f].symbols) /\ Ts!ModuleSymbol(f) \in IRs[f].symbols
      /\ \A s \in IRs[f].symbols : IsTsSymbol(f, s) /\ (s.kind = "module" => s = Ts!ModuleSymbol(f))
  BY <1>1, TsSymbolsAreFinite
<1>3. Ts!LeastSymbol(IRs[f].symbols) \in IRs[f].symbols
  <2> DEFINE S == IRs[f].symbols
  <2>1. IsFiniteSet(S) /\ S # {} /\ \A s \in S : IsTsSymbol(f, s)
    BY <1>2
  <2> HIDE DEF S
  <2>2. Ts!LeastSymbol(S) \in S
    BY <2>1, LeastSymbolIsOne
  <2> QED
    BY <2>2 DEF S
<1>4. TsPrimary(f) = Ts!LeastSymbol(IRs[f].symbols)
  BY <1>1 DEF TsPrimary, Ts!Primary
<1> QED
  BY <1>2, <1>3, <1>4

(* What one comes to from a file x when V are those that one has come to:   *)
(* what the file that x is passed it from exports, or on from that one.     *)
ComesTo(F, limit, own, to, x, V) ==
  F[<<x, V>>] = IF Cardinality(V) > limit \/ to[x] \in {NONE} \union V THEN NONE
                ELSE IF own[to[x]] # NONE THEN own[to[x]] ELSE F[<<to[x], V \union {to[x]}>>]
Visits(F, P, limit, own, to) == \A x \in P : \A V \in SUBSET P : ComesTo(F, limit, own, to, x, V)

ExportedBy(irs, name) == [g \in TsKnown |-> Ts!Exported(irs[g].symbols, name)]
PassedOnFrom(irs, name) == [g \in TsKnown |-> Ts!PassedFrom(irs[g], name)]

(* The file a name is passed on from is one that is analysed.               *)
LEMMA PassedFromIsFile ==
  ASSUME NEW ir, NEW name
  PROVE  Ts!PassedFrom(ir, name) \in {NONE} \union TsKnown
BY TargetFileIsFile DEF Ts!PassedFrom

(* What is followed from file to file comes to a symbol of that name, or to *)
(* nothing: it comes to no file twice.                                      *)
LEMMA FollowIsSymbol ==
  ASSUME NEW irs, DOMAIN irs = TsKnown,
         \A g \in TsKnown : IsFiniteSet(irs[g].symbols) /\ \A s \in irs[g].symbols : IsTsSymbol(g, s),
         NEW name, NEW f \in TsKnown
  PROVE  /\ Ts!Follow(irs, name)[<<f, {f}>>] \in {NONE} \union KnownBy(AllSymbols(irs), name)
         /\ Visits(Ts!Follow(irs, name), TsKnown, MaxReexports, ExportedBy(irs, name), PassedOnFrom(irs, name))
<1> DEFINE D == TsKnown \X SUBSET TsKnown
           target(q) == Ts!PassedFrom(irs[q[1]], name)
           found(q) == Ts!Exported(irs[target(q)].symbols, name)
           ends(q) == Ts!Cardinality(q[2]) > MaxReexports \/ target(q) \in {NONE} \union q[2]
           stop == {q \in D : ends(q) \/ found(q) # NONE}
           value == [q \in D |-> IF ends(q) THEN NONE ELSE found(q)]
           next == [q \in D |-> <<target(q), q[2] \union {target(q)}>>]
           n == Cardinality(TsKnown)
           rank == [q \in D |-> n - Cardinality(q[2])]
           T == {NONE} \union KnownBy(AllSymbols(irs), name)
           Step(g, q) == IF ends(q) THEN NONE ELSE IF found(q) # NONE THEN found(q)
                         ELSE g[<<target(q), q[2] \union {target(q)}>>]
           follow == Ts!Follow(irs, name)
<1>1. n \in Nat /\ IsFiniteSet(TsKnown)
  BY FilesAssumption, FS_CardinalityType
<1>2. \A V \in SUBSET TsKnown : IsFiniteSet(V) /\ Cardinality(V) \in 0 .. n
  <2>1. ASSUME NEW V \in SUBSET TsKnown PROVE IsFiniteSet(V) /\ Cardinality(V) \in 0 .. n
    <3>1. IsFiniteSet(V) /\ Cardinality(V) <= n
      BY <1>1, FS_Subset
    <3>2. Cardinality(V) \in Nat
      BY <3>1, FS_CardinalityType
    <3> QED
      BY <1>1, <3>1, <3>2
  <2> QED
    BY <2>1
<1>3. \A q \in D : target(q) \in {NONE} \union TsKnown
  BY PassedFromIsFile
<1>4. follow = CHOOSE g : g = [q \in D |-> Step(g, q)]
  BY DEF Ts!Follow
<1>5. \A g, q : Step(g, q) = IF ends(q) THEN NONE ELSE IF found(q) # NONE THEN found(q)
                             ELSE g[<<target(q), q[2] \union {target(q)}>>]
  OBVIOUS
<1>6. \A q \in D : ~ends(q) => target(q) \in TsKnown /\ target(q) \notin q[2]
  BY <1>3
<1>7. \A q : q \in stop <=> q \in D /\ (ends(q) \/ found(q) # NONE)
  OBVIOUS
<1>8. \A q \in D : /\ value[q] = IF ends(q) THEN NONE ELSE found(q)
                   /\ next[q] = <<target(q), q[2] \union {target(q)}>>
                   /\ rank[q] = n - Cardinality(q[2])
  OBVIOUS
<1>9. \A q \in D : ~ends(q) => found(q) \in T
  <2>1. ASSUME NEW q \in D, ~ends(q) PROVE found(q) \in T
    <3> DEFINE g == target(q)
               S == irs[g].symbols
    <3>1. g \in TsKnown
      BY <1>6, <2>1
    <3> HIDE DEF g
    <3>2. IsFiniteSet(S) /\ \A s \in S : IsTsSymbol(g, s)
      BY <3>1
    <3>3. KnownBy(S, name) \subseteq KnownBy(AllSymbols(irs), name)
      BY <3>1 DEF AllSymbols, KnownBy
    <3> HIDE DEF S
    <3>4. Ts!Exported(S, name) \in {NONE} \union KnownBy(S, name)
      BY <3>2, ExportedIsSymbol
    <3> QED
      BY <3>3, <3>4 DEF S, g
  <2> QED
    BY <2>1
<1>10. rank \in [D -> 0 .. n]
  BY <1>1, <1>2
<1> HIDE DEF target, found, ends, stop, value, next, rank, Step, T
<1>11. \A q \in D \ stop : next[q] \in D /\ rank[next[q]] < rank[q]
  <2>1. ASSUME NEW q \in D \ stop PROVE next[q] \in D /\ rank[next[q]] < rank[q]
    <3> DEFINE visited == q[2]
               to == target(q)
               more == visited \union {to}
    <3>1. to \in TsKnown /\ to \notin visited /\ visited \in SUBSET TsKnown
      BY <1>6, <1>7
    <3>2. next[q] = <<to, more>> /\ rank[q] = n - Cardinality(visited)
      BY <1>8
    <3> HIDE DEF visited, to
    <3>3. Cardinality(more) = Cardinality(visited) + 1
      BY <1>2, <3>1, FS_AddElement
    <3>4. more \in SUBSET TsKnown
      BY <3>1
    <3> HIDE DEF more
    <3>5. <<to, more>> \in D
      BY <3>1, <3>4
    <3>6. rank[next[q]] = n - Cardinality(more)
      BY <1>8, <3>2, <3>5
    <3> QED
      BY <1>1, <1>2, <3>1, <3>2, <3>3, <3>5, <3>6
  <2> QED
    BY <2>1
<1>12. \A q \in D \intersect stop : value[q] \in T
  BY <1>8, <1>9 DEF T
<1>13. \A g : (g = [q \in D |-> Step(g, q)]) <=> Follows(g, D, stop, value, next)
  <2>1. ASSUME NEW g PROVE (g = [q \in D |-> Step(g, q)]) <=> Follows(g, D, stop, value, next)
    <3>1. \A q \in D : Step(g, q) = IF q \in stop THEN value[q] ELSE g[next[q]]
      BY <1>5, <1>7, <1>8
    <3> HIDE DEF D
    <3> QED
      BY <3>1 DEF Follows
  <2> QED
    BY <2>1
<1>14. f \in TsKnown /\ <<f, {f}>> \in D
  OBVIOUS
<1>15. ASSUME NEW x \in TsKnown, NEW V \in SUBSET TsKnown
       PROVE  /\ <<x, V>> \in D /\ target(<<x, V>>) = PassedOnFrom(irs, name)[x]
              /\ ends(<<x, V>>) <=> Cardinality(V) > MaxReexports \/ target(<<x, V>>) \in {NONE} \union V
              /\ ~ends(<<x, V>>) => found(<<x, V>>) = ExportedBy(irs, name)[target(<<x, V>>)]
  <2>1. Ts!Cardinality(V) = Cardinality(V)
    BY DEF Ts!Cardinality, Cardinality
  <2>2. <<x, V>> \in D /\ target(<<x, V>>) = PassedOnFrom(irs, name)[x]
    BY DEF target, PassedOnFrom
  <2>3. ends(<<x, V>>) <=> Cardinality(V) > MaxReexports \/ target(<<x, V>>) \in {NONE} \union V
    BY <2>1 DEF ends
  <2>4. ~ends(<<x, V>>) => target(<<x, V>>) \in TsKnown
    BY <1>6, <2>2
  <2>5. \A g \in TsKnown : Ts!Exported(irs[g].symbols, name) = ExportedBy(irs, name)[g]
    BY DEF ExportedBy
  <2>6. ~ends(<<x, V>>) => found(<<x, V>>) = ExportedBy(irs, name)[target(<<x, V>>)]
    BY <2>4, <2>5 DEF found
  <2> QED
    BY <2>2, <2>3, <2>6
<1> HIDE DEF D, follow, n
<1>16. \E g : Follows(g, D, stop, value, next)
  BY <1>1, <1>10, <1>11, EndsExist
<1>17. Follows(follow, D, stop, value, next)
  BY <1>4, <1>13, <1>16
<1>18. \A q \in D : follow[q] \in T
  <2>1. Ranked(D, n, rank, stop, next)
    BY <1>1, <1>10, <1>11 DEF Ranked
  <2>2. LeadsInto(D, stop, value, T)
    BY <1>12 DEF LeadsInto
  <2>3. EndsIn(D, follow, T)
    BY <2>1, <2>2, <1>17, RankedEndsAreValues
  <2> QED
    BY <2>3 DEF EndsIn
<1>19. ASSUME NEW q \in D
       PROVE  follow[q] = IF ends(q) THEN NONE ELSE IF found(q) # NONE THEN found(q)
                          ELSE follow[<<target(q), q[2] \union {target(q)}>>]
  <2>1. follow[q] = IF q \in stop THEN value[q] ELSE follow[next[q]]
    BY <1>17 DEF Follows
  <2> QED
    BY <1>7, <1>8, <2>1
<1>20. Visits(follow, TsKnown, MaxReexports, ExportedBy(irs, name), PassedOnFrom(irs, name))
  <2> DEFINE own == ExportedBy(irs, name)
             to == PassedOnFrom(irs, name)
  <2>1. ASSUME NEW x \in TsKnown, NEW V \in SUBSET TsKnown PROVE ComesTo(follow, MaxReexports, own, to, x, V)
    <3> DEFINE q == <<x, V>>
    <3>1. q \in D /\ q[1] = x /\ q[2] = V
      BY <1>15
    <3>2. /\ target(q) = to[x] /\ (~ends(q) => found(q) = own[to[x]])
          /\ ends(q) <=> Cardinality(V) > MaxReexports \/ to[x] \in {NONE} \union V
      BY <1>15
    <3>3. follow[q] = IF ends(q) THEN NONE ELSE IF found(q) # NONE THEN found(q)
                      ELSE follow[<<target(q), q[2] \union {target(q)}>>]
      BY <1>19, <3>1
    <3> HIDE DEF q, to, own
    <3>4. follow[q] = IF ends(q) THEN NONE ELSE IF own[to[x]] # NONE THEN own[to[x]]
                      ELSE follow[<<to[x], V \union {to[x]}>>]
      BY <3>1, <3>2, <3>3
    <3> QED
      BY <3>2, <3>4 DEF q, ComesTo
  <2> HIDE DEF own, to
  <2>2. Visits(follow, TsKnown, MaxReexports, own, to)
    BY <2>1 DEF Visits
  <2> QED
    BY <2>2 DEF own, to
<1> QED
  BY <1>14, <1>18, <1>20 DEF follow, T

(* And so does what an import asks of a file.                               *)
LEMMA TsLookupIsSymbol ==
  ASSUME AdaptersInv, language = "typescript", NEW name, NEW g
  PROVE  Ts!Lookup(IRs, g, name) \in {NONE} \union KnownBy(AllSymbols(IRs), name)
<1>1. CASE g \in TsKnown
  <2> DEFINE S == IRs[g].symbols
  <2>1. IsFiniteSet(S) /\ \A s \in S : IsTsSymbol(g, s)
    BY <1>1, TsSymbols
  <2>2. KnownBy(S, name) \subseteq KnownBy(AllSymbols(IRs), name)
    BY <1>1, TsShape DEF AllSymbols, KnownBy
  <2> HIDE DEF S
  <2>3. Ts!Exported(S, name) \in {NONE} \union KnownBy(S, name)
    BY <2>1, ExportedIsSymbol
  <2>4. Ts!Follow(IRs, name)[<<g, {g}>>] \in {NONE} \union KnownBy(AllSymbols(IRs), name)
    <3>1. /\ DOMAIN IRs = TsKnown
          /\ \A h \in TsKnown : IsFiniteSet(IRs[h].symbols) /\ \A s \in IRs[h].symbols : IsTsSymbol(h, s)
      BY TsShape, TsSymbols
    <3> QED
      BY <1>1, <3>1, FollowIsSymbol
  <2> QED
    BY <1>1, <2>2, <2>3, <2>4, TsShape DEF Ts!Lookup, S
<1>2. CASE g \notin TsKnown
  BY <1>2, TsShape DEF Ts!Lookup
<1> QED
  BY <1>1, <1>2

(* The type that a variable is of in some scopes is one that is said of it, *)
(* and there is one if one is said.                                         *)
LEMMA TypeIsSaid ==
  ASSUME NEW source \in Seq(Ts!TsStatements), NEW scopes, NEW var, NEW type, type = Ts!TypeOf(source, scopes, var)
  PROVE  /\ type = NONE \/ \E t \in Range(source) : t.is = "typed" /\ t.var = var /\ t.type = type
         /\ (\E t \in Range(source) : t.is = "typed" /\ t.var = var /\ t.scope \in scopes) => type # NONE
<1> DEFINE typed == {i \in Ts!StatementsOf(source, "typed") : source[i].var = var /\ source[i].scope \in scopes}
           last == CHOOSE i \in typed : \A j \in typed : j <= i
<1>1. type = IF typed = {} THEN NONE ELSE source[last].type
  BY DEF Ts!TypeOf
<1>2. \A i \in typed : /\ i \in DOMAIN source /\ source[i].is = "typed" /\ source[i].var = var
  BY DEF Ts!StatementsOf
<1>3. \A t \in Range(source) : t.is = "typed" /\ t.var = var /\ t.scope \in scopes => \E i \in typed : source[i] = t
  BY DEF Range, Ts!StatementsOf
<1>4. IsFiniteSet(typed) /\ typed \subseteq Nat
  <2>1. typed \subseteq 1 .. Len(source) /\ Len(source) \in Nat
    BY DEF Ts!StatementsOf
  <2> HIDE DEF typed
  <2> QED
    BY <2>1, Positions
<1> HIDE DEF typed
<1>5. typed # {} => last \in typed
  <2>1. typed # {} => \E i \in typed : \A j \in typed : j <= i
    BY <1>4, GreatestOfFinite
  <2> QED
    BY <2>1
<1>6. \A i \in DOMAIN source : source[i] \in Range(source) /\ source[i] \in Ts!TsStatements
  BY DEF Range
<1>7. \A i \in typed : source[i].type \in Nat
  BY <1>2, <1>6, TsStatementParts
<1> HIDE DEF last
<1> QED
  BY <1>1, <1>2, <1>3, <1>5, <1>6, <1>7, FilesAssumption

(* Who is charged with an access: a symbol of the file, with a type that is *)
(* said of the variable.                                                    *)
LEMMA AccessParts ==
  ASSUME NEW f, NEW source \in Seq(Ts!TsStatements), NEW r \in Ts!AccessRels(f, source),
         Ts!Primary(f, source) \in Ts!SymbolsOf(f, source)
  PROVE  \E from \in Ts!SymbolsOf(f, source), i \in DOMAIN source, type \in Nat :
           /\ r = Ts!Rel(from, Ts!TypeNamed(type), "AccessesProperty", type, i)
           /\ source[i].is = "access" /\ type \notin TsBuiltin
           /\ \E t \in Range(source) : t.is = "typed" /\ t.var = source[i].var /\ t.type = type
<1> DEFINE accesses == Ts!StatementsOf(source, "access")
           methods == {s \in Ts!SymbolsOf(f, source) : s.kind = "method"}
           said(at, scopes) == {<<i, Ts!AccessedType(source, i, scopes)>> : i \in at}
           rels(from, at, scopes) ==
             {Ts!Rel(from, Ts!TypeNamed(a[2]), "AccessesProperty", a[2], a[1]) :
                a \in {a \in said(at, scopes) : /\ a[2] \notin TsBuiltin \union {NONE}
                                                /\ \A b \in said(at, scopes) : a[2] = b[2] => a[1] <= b[1]}}
<1>1. Ts!AccessRels(f, source) =
        rels(Ts!Primary(f, source), accesses, Ts!AllScopes(source))
          \union UNION {rels(m, {i \in accesses : source[i].scope = m.name}, {m.name}) : m \in methods}
  BY DEF Ts!AccessRels
<1>2. ASSUME NEW from, NEW at, NEW scopes, NEW q \in rels(from, at, scopes)
      PROVE  \E i \in at : LET type == Ts!AccessedType(source, i, scopes)
                           IN  /\ q = Ts!Rel(from, Ts!TypeNamed(type), "AccessesProperty", type, i)
                               /\ type \notin TsBuiltin \union {NONE}
  <2>1. PICK a \in said(at, scopes) :
          /\ q = Ts!Rel(from, Ts!TypeNamed(a[2]), "AccessesProperty", a[2], a[1])
          /\ a[2] \notin TsBuiltin \union {NONE}
    BY <1>2
  <2>2. PICK i \in at : a = <<i, Ts!AccessedType(source, i, scopes)>>
    OBVIOUS
  <2> DEFINE type == Ts!AccessedType(source, i, scopes)
  <2>3. a[1] = i /\ a[2] = type
    BY <2>2
  <2> HIDE DEF type
  <2>4. q = Ts!Rel(from, Ts!TypeNamed(type), "AccessesProperty", type, i) /\ type \notin TsBuiltin \union {NONE}
    BY <2>1, <2>3
  <2> QED
    BY <2>4 DEF type
<1>3. PICK from, at, scopes :
        /\ r \in rels(from, at, scopes) /\ at \subseteq accesses /\ from \in Ts!SymbolsOf(f, source)
  <2>1. CASE r \in rels(Ts!Primary(f, source), accesses, Ts!AllScopes(source))
    <3> HIDE DEF rels, accesses
    <3> QED
      BY <2>1
  <2>2. CASE \E m \in methods : r \in rels(m, {i \in accesses : source[i].scope = m.name}, {m.name})
    <3> HIDE DEF rels, accesses
    <3>1. PICK m \in methods : r \in rels(m, {i \in accesses : source[i].scope = m.name}, {m.name})
      BY <2>2
    <3> DEFINE at == {i \in accesses : source[i].scope = m.name}
               scopes == {m.name}
    <3>2. r \in rels(m, at, scopes) /\ at \subseteq accesses /\ m \in Ts!SymbolsOf(f, source)
      BY <3>1
    <3> HIDE DEF at, scopes
    <3> QED
      BY <3>2
  <2> HIDE DEF rels, accesses, methods
  <2> QED
    BY <1>1, <2>1, <2>2
<1> HIDE DEF rels
<1>4. PICK i \in at :
        LET type == Ts!AccessedType(source, i, scopes)
        IN  /\ r = Ts!Rel(from, Ts!TypeNamed(type), "AccessesProperty", type, i)
            /\ type \notin TsBuiltin \union {NONE}
  BY <1>2, <1>3
<1> DEFINE type == Ts!AccessedType(source, i, scopes)
           where == IF source[i].this THEN {Ts!Constructor} ELSE scopes
           var == source[i].var
<1>5. i \in DOMAIN source /\ source[i].is = "access"
  BY <1>3 DEF Ts!StatementsOf
<1>6. type = Ts!TypeOf(source, where, var)
  BY DEF Ts!AccessedType
<1>7. r = Ts!Rel(from, Ts!TypeNamed(type), "AccessesProperty", type, i) /\ type \notin TsBuiltin \union {NONE}
  BY <1>4
<1> HIDE DEF type, where, var
<1>8. PICK t \in Range(source) : t.is = "typed" /\ t.var = var /\ t.type = type
  BY <1>6, <1>7, TypeIsSaid
<1>9. type \in Nat
  <2>1. t \in Ts!TsStatements
    BY DEF Range
  <2> QED
    BY <1>8, <2>1, TsStatementParts
<1>10. r = Ts!Rel(from, Ts!TypeNamed(type), "AccessesProperty", type, i)
  BY <1>7
<1>11. \E u \in Range(source) : u.is = "typed" /\ u.var = source[i].var /\ u.type = type
  BY <1>8 DEF var
<1> QED
  BY <1>3, <1>5, <1>7, <1>9, <1>10, <1>11

(* A member of a variable that is of one type wherever it is said is        *)
(* charged to the file's first symbol, there or before.                     *)
LEMMA AccessIsCharged ==
  ASSUME NEW f, NEW source \in Seq(Ts!TsStatements),
         NEW i \in DOMAIN source, source[i].is = "access", ~source[i].this,
         NEW type, type \notin TsBuiltin, type # NONE,
         \E t \in Range(source) : t.is = "typed" /\ t.var = source[i].var,
         \A t \in Range(source) : t.is = "typed" /\ t.var = source[i].var => t.type = type
  PROVE  \E k \in DOMAIN source :
           /\ k <= i
           /\ Ts!Rel(Ts!Primary(f, source), Ts!TypeNamed(type), "AccessesProperty", type, k)
                \in Ts!AccessRels(f, source)
<1> DEFINE scopes == Ts!AllScopes(source)
           accesses == Ts!StatementsOf(source, "access")
           said == {<<k, Ts!AccessedType(source, k, scopes)>> : k \in accesses}
           var == source[i].var
<1>1. Ts!AccessedType(source, i, scopes) = type
  <2>1. Ts!AccessedType(source, i, scopes) = Ts!TypeOf(source, scopes, var)
    BY DEF Ts!AccessedType
  <2>2. \E t \in Range(source) : t.is = "typed" /\ t.var = var /\ t.scope \in scopes
    <3>1. PICK t \in Range(source) : t.is = "typed" /\ t.var = var
      OBVIOUS
    <3>2. t.scope \in scopes
      BY <3>1 DEF Ts!AllScopes, Ts!StatementsOf, Range
    <3> QED
      BY <3>1, <3>2
  <2> DEFINE found == Ts!TypeOf(source, scopes, var)
  <2> HIDE DEF scopes, var
  <2>3. found # NONE /\ (found = NONE \/ \E t \in Range(source) : t.is = "typed" /\ t.var = var /\ t.type = found)
    BY <2>2, TypeIsSaid
  <2> HIDE DEF found
  <2>4. found = type
    BY <2>3 DEF var
  <2> QED
    BY <2>1, <2>4 DEF found
<1>2. \A a \in said : a[1] \in 1 .. Len(source)
  BY DEF Ts!StatementsOf
<1>3. <<i, type>> \in said
  BY <1>1 DEF Ts!StatementsOf
<1>4. Len(source) \in Nat
  OBVIOUS
<1>5. \A a \in said : a = <<a[1], a[2]>> /\ a[1] \in DOMAIN source
  BY DEF Ts!StatementsOf
<1>6. {Ts!Rel(Ts!Primary(f, source), Ts!TypeNamed(a[2]), "AccessesProperty", a[2], a[1]) :
         a \in {a \in said : /\ a[2] \notin TsBuiltin \union {NONE}
                             /\ \A b \in said : a[2] = b[2] => a[1] <= b[1]}} \subseteq Ts!AccessRels(f, source)
  BY DEF Ts!AccessRels
<1> DEFINE b == <<i, type>>
<1>7. b \in said /\ b[1] = i /\ b[2] = type
  BY <1>3
<1> HIDE DEF said, b
<1>8. PICK a \in FirstOfEach(said) : a[2] = type /\ a[1] <= i
  <2>1. \E a \in FirstOfEach(said) : a[2] = b[2] /\ a[1] <= b[1]
    BY <1>2, <1>4, <1>7, FirstOfEachIsOne
  <2> QED
    BY <1>7, <2>1
<1>9. a \in said /\ \A c \in said : a[2] = c[2] => a[1] <= c[1]
  BY DEF FirstOfEach
<1>10. Ts!Rel(Ts!Primary(f, source), Ts!TypeNamed(a[2]), "AccessesProperty", a[2], a[1]) \in Ts!AccessRels(f, source)
  BY <1>6, <1>8, <1>9
<1> QED
  BY <1>5, <1>8, <1>9, <1>10

(* The relationships of a file: they are of one of its symbols, and those   *)
(* that are resolved across files are imports, of the first of them.        *)
IsRel(r) == DOMAIN r = {"from", "to", "kind", "alias", "line"}

(* Every relationship of a TypeScript file is of one of its symbols.        *)
LEMMA TsRelationships ==
  ASSUME AdaptersInv, language = "typescript", NEW f \in TsKnown, NEW r \in IRs[f].relationships
  PROVE  /\ IsRel(r) /\ r.from \in IRs[f].symbols /\ r.line \in DOMAIN TsRead(f)
         /\ IF r \in TsImports(f) \union TsReexports(f)
              THEN /\ Ts!IsImport(r.to) /\ ~Ts!IsSymbol(r.to) /\ ~Ts!IsTypeName(r.to)
                   /\ r.kind \in {"Imports", "ReExports"}
              ELSE ~Ts!IsImport(r.to) /\ r \in TsUses(f) \union Ts!AccessRels(f, TsRead(f))
         /\ r.kind = "AccessesProperty" <=> r \in Ts!AccessRels(f, TsRead(f))
<1> DEFINE source == TsRead(f)
<1>1. /\ source \in Seq(Ts!TsStatements) /\ TsPrimary(f) \in IRs[f].symbols
      /\ IRs[f].symbols = Ts!SymbolsOf(f, source)
      /\ r \in TsImports(f) \union TsReexports(f) \union TsUses(f) \union Ts!AccessRels(f, source)
  BY TsShape, TsSymbols
<1>2. \A i \in DOMAIN source : source[i] \in Ts!TsStatements
  BY <1>1
<1> HIDE DEF source
<1> DEFINE IsAnImport ==
      /\ IsRel(r) /\ r.from \in IRs[f].symbols /\ r.line \in DOMAIN source
      /\ Ts!IsImport(r.to) /\ ~Ts!IsSymbol(r.to) /\ ~Ts!IsTypeName(r.to) /\ r.kind \in {"Imports", "ReExports"}
    IsAnother ==
      /\ IsRel(r) /\ r.from \in IRs[f].symbols /\ r.line \in DOMAIN source
      /\ ~Ts!IsImport(r.to)
<1>3. ASSUME r \in TsImports(f) PROVE IsAnImport
  <2>1. PICK i \in Ts!StatementsOf(source, "import") :
          r = Ts!Rel(TsPrimary(f), Ts!ImportOf(source[i].spec, source[i].name), "Imports",
                     Ts!AliasOf(source[i].name, source[i].local), i)
    BY <1>3 DEF TsImports, source
  <2> QED
    BY <1>1, <2>1 DEF Ts!Rel, Ts!ImportOf, Ts!StatementsOf, IsRel, Ts!IsImport, Ts!IsSymbol, Ts!IsTypeName
<1>4. ASSUME r \in TsReexports(f) PROVE IsAnImport
  <2>1. PICK i \in Ts!StatementsOf(source, "reexport") :
          r = Ts!Rel(TsPrimary(f), Ts!ImportOf(source[i].spec, source[i].name), "ReExports",
                     Ts!AliasOf(source[i].name, source[i].as), i)
    BY <1>4 DEF TsReexports, source
  <2> QED
    BY <1>1, <2>1 DEF Ts!Rel, Ts!ImportOf, Ts!StatementsOf, IsRel, Ts!IsImport, Ts!IsSymbol, Ts!IsTypeName
<1>5. ASSUME r \in TsUses(f) PROVE IsAnother /\ r.kind \in {"Calls", "Instantiates", "UsesType"}
  <2>1. PICK i \in Ts!StatementsOf(source, "use") :
          r = Ts!Rel(TsPrimary(f), Ts!TypeNamed(source[i].name), source[i].kind, source[i].name, i)
    BY <1>5 DEF TsUses, source
  <2>2. source[i].kind \in {"Calls", "Instantiates", "UsesType"}
    BY <1>2, <2>1, TsStatementParts DEF Ts!StatementsOf
  <2> QED
    BY <1>1, <2>1, <2>2 DEF Ts!Rel, Ts!TypeNamed, Ts!StatementsOf, IsRel, Ts!IsImport
<1>6. ASSUME r \in Ts!AccessRels(f, source) PROVE IsAnother /\ r.kind = "AccessesProperty"
  <2>1. Ts!Primary(f, source) \in Ts!SymbolsOf(f, source)
    BY <1>1 DEF TsPrimary, source
  <2>2. PICK from \in Ts!SymbolsOf(f, source), i \in DOMAIN source, type \in Nat :
          r = Ts!Rel(from, Ts!TypeNamed(type), "AccessesProperty", type, i)
    BY <1>1, <1>6, <2>1, AccessParts
  <2> QED
    BY <1>1, <2>2 DEF Ts!Rel, Ts!TypeNamed, IsRel, Ts!IsImport
<1> QED
  BY <1>1, <1>3, <1>4, <1>5, <1>6 DEF source

(* What a relationship that names a file leads to: a package or a symbol,   *)
(* or else it stays as it is.                                               *)
TsTarget(to) == (\E spec : to = Ts!PackageOf(spec)) \/ to \in AllSymbols(IRs)
Leads(q, r) == \E to : TsTarget(to) /\ q = [r EXCEPT !.to = to]

(* What is led to is no longer the name of something.                       *)
LEMMA TargetsAreNamed ==
  ASSUME AdaptersInv, language = "typescript", NEW to, TsTarget(to)
  PROVE  IsTarget(to) /\ ~Ts!IsImport(to) /\ ~Ts!IsTypeName(to)
<1>1. CASE \E spec : to = Ts!PackageOf(spec)
  BY <1>1 DEF Ts!PackageOf, IsTarget, IsPackage, Ts!IsImport, Ts!IsTypeName
<1>2. CASE to \in AllSymbols(IRs)
  <2>1. PICK f \in TsKnown : to \in IRs[f].symbols
    BY <1>2, TsShape DEF AllSymbols
  <2>2. PICK name, kind : to = Ts!Sym(f, name, kind)
    BY <2>1, TsSymbols DEF IsTsSymbol
  <2> QED
    BY <1>2, <2>2 DEF Ts!Sym, IsTarget, Ts!IsImport, Ts!IsTypeName
<1> QED
  BY <1>1, <1>2 DEF TsTarget

(* An import leads to something, or stays as it is; if it takes all of a    *)
(* file, that file declares nothing.                                        *)
LEMMA TsImportLeads ==
  ASSUME AdaptersInv, language = "typescript", NEW r
  PROVE  /\ Ts!ResolveImport(IRs, r) # {}
         /\ \A q \in Ts!ResolveImport(IRs, r) : q = r \/ Leads(q, r)
         /\ r \in Ts!ResolveImport(IRs, r) /\ Ts!IsEmptyBarrel(IRs, r) /\ ~Leads(r, r) =>
              LET g == Ts!Destination(r.to.import)
              IN  g \in TsKnown /\ IRs[g].symbols = {Ts!ModuleSymbol(g)}
<1> DEFINE spec == r.to.import
           target == Ts!Destination(spec)
           exported == {s \in IRs[target].symbols : s.kind # "module"}
           found == {Ts!Lookup(IRs, target, r.to.name)} \ {NONE}
           result == Ts!ResolveImport(IRs, r)
           isBarrel == r.to.name = Ts!Star /\ r.kind = "ReExports"
<1>1. result = IF target = NONE /\ spec \notin DOMAIN TsRelative THEN Ts!Led(r, {Ts!PackageOf(spec)})
               ELSE IF target \notin DOMAIN IRs THEN {r}
               ELSE IF isBarrel THEN Ts!Led(r, exported) ELSE Ts!Led(r, found)
  BY DEF Ts!ResolveImport, Ts!LedTo
<1>2. ASSUME NEW S, \A to \in S : TsTarget(to)
      PROVE  /\ Ts!Led(r, S) # {} /\ \A q \in Ts!Led(r, S) : q = r \/ Leads(q, r)
             /\ r \in Ts!Led(r, S) /\ ~Leads(r, r) => S = {}
  <2>1. CASE S = {}
    BY <2>1 DEF Ts!Led
  <2>2. CASE S # {}
    <3>1. Ts!Led(r, S) = {[r EXCEPT !.to = s] : s \in S}
      BY <2>2 DEF Ts!Led
    <3>2. \A q \in Ts!Led(r, S) : Leads(q, r)
      BY <1>2, <3>1 DEF Leads
    <3>3. Ts!Led(r, S) # {}
      BY <2>2, <3>1
    <3> QED
      BY <3>2, <3>3
  <2> QED
    BY <2>1, <2>2
<1>3. ASSUME NEW g \in TsKnown, NEW s \in IRs[g].symbols PROVE TsTarget(s)
  BY TsShape DEF TsTarget, AllSymbols
<1>4. DOMAIN IRs = TsKnown
  BY TsShape
<1>5. target \in TsKnown => \A to \in exported : TsTarget(to)
  BY <1>3
<1>6. \A to \in found : TsTarget(to)
  BY TsLookupIsSymbol DEF TsTarget, KnownBy
<1>7. \A to \in {Ts!PackageOf(spec)} : TsTarget(to)
  BY DEF TsTarget
<1>8. Ts!IsEmptyBarrel(IRs, r) => isBarrel /\ target \in TsKnown
  BY <1>4 DEF Ts!IsEmptyBarrel
<1>9. target \in TsKnown /\ exported = {} => IRs[target].symbols = {Ts!ModuleSymbol(target)}
  <2> HIDE DEF target
  <2> QED
    BY TsSymbols
<1>10. target \in TsKnown => target # NONE
  BY FilesAssumption
<1> HIDE DEF target, exported, found, result, isBarrel
<1>11. result # {} /\ \A q \in result : q = r \/ Leads(q, r)
  <2>1. CASE target = NONE /\ spec \notin DOMAIN TsRelative
    BY <1>1, <1>2, <1>7, <2>1
  <2>2. CASE ~(target = NONE /\ spec \notin DOMAIN TsRelative) /\ target \notin TsKnown
    BY <1>1, <1>4, <2>2
  <2>3. CASE ~(target = NONE /\ spec \notin DOMAIN TsRelative) /\ target \in TsKnown /\ isBarrel
    BY <1>1, <1>2, <1>4, <1>5, <2>3
  <2>4. CASE ~(target = NONE /\ spec \notin DOMAIN TsRelative) /\ target \in TsKnown /\ ~isBarrel
    BY <1>1, <1>2, <1>4, <1>6, <2>4
  <2> QED
    BY <2>1, <2>2, <2>3, <2>4
<1>12. ASSUME r \in result, Ts!IsEmptyBarrel(IRs, r), ~Leads(r, r)
       PROVE  target \in TsKnown /\ IRs[target].symbols = {Ts!ModuleSymbol(target)}
  <2>1. isBarrel /\ target \in TsKnown /\ target # NONE
    BY <1>8, <1>10, <1>12
  <2>2. result = Ts!Led(r, exported)
    BY <1>1, <1>4, <2>1
  <2>3. exported = {}
    BY <1>2, <1>5, <1>12, <2>1, <2>2
  <2> QED
    BY <1>9, <2>1, <2>3
<1> QED
  BY <1>11, <1>12 DEF result, target

(* What resolving a TypeScript file makes of each relationship.             *)
TsResolved(f) == UNION {Ts!ResolveImport(IRs, r) : r \in {r \in IRs[f].relationships : Ts!IsImport(r.to)}}
TsMeaning(f, name) == Ts!NameInFile(IRs, f, TsResolved(f), name)

(* Imports are resolved first; then names, which are found or reported.     *)
LEMMA TsResolution ==
  ASSUME AdaptersInv, language = "typescript", NEW f \in TsKnown
  PROVE  /\ index[f].symbols = IRs[f].symbols
         /\ TsResolved(f) \subseteq index[f].relationships
         /\ \A q \in TsResolved(f) : Ts!IsImport(q.to) /\ ~Ts!IsEmptyBarrel(IRs, q) =>
              \/ q.line \in index[f].diagnostics
              \/ Ts!MissingFile(Ts!Destination(q.to.import)) \in index[f].unplaced
         /\ \A r \in IRs[f].relationships : ~Ts!IsImport(r.to) =>
              LET to == TsMeaning(f, r.to.type)
              IN  r.kind \notin {"Calls", "Instantiates"} \/ ~Ts!IsTypeName(to) =>
                    /\ [r EXCEPT !.to = to] \in index[f].relationships
                    /\ Ts!IsTypeName(to) /\ to.type \notin TsBuiltin => to \in index[f].unplaced
         /\ \A q \in index[f].relationships : q \in TsResolved(f) \/
              \E r \in IRs[f].relationships : ~Ts!IsImport(r.to) /\ q = [r EXCEPT !.to = TsMeaning(f, r.to.type)]
<1> DEFINE rels == IRs[f].relationships
           importLike == {r \in rels : Ts!IsImport(r.to)}
           imports == TsResolved(f)
           named == {[r EXCEPT !.to = Ts!NameInFile(IRs, f, imports, r.to.type)] : r \in rels \ importLike}
           lost == {r \in named : Ts!IsTypeName(r.to)}
           dropped == {r \in lost : r.kind \in {"Calls", "Instantiates"}}
           resolved == imports \union (named \ dropped)
           unbound == {r \in imports : Ts!IsImport(r.to) /\ ~Ts!IsEmptyBarrel(IRs, r)}
           astray == {r \in unbound : Ts!LeadsAstray(IRs, r)}
           diagnosed == {r.line : r \in unbound \ astray}
           unplaced == {Ts!MissingFile(Ts!Destination(r.to.import)) : r \in astray}
                         \union {r.to : r \in {r \in lost \ dropped : r.to.type \notin TsBuiltin}}
<1>1. index[f] = [IRs[f] EXCEPT !.relationships = resolved, !.diagnostics = diagnosed, !.unplaced = unplaced]
  <2>1. index[f] = Ts!ResolveTs(IRs, f)
    BY TsShape
  <2> QED
    BY <2>1 DEF Ts!ResolveTs, TsResolved
<1>2. DOMAIN IRs[f] = {"symbols", "reexports", "relationships", "diagnostics", "unplaced"}
  BY TsShape
<1>3. /\ imports \subseteq resolved /\ named \ dropped \subseteq resolved /\ resolved \subseteq imports \union named
      /\ \A q \in imports : Ts!IsImport(q.to) /\ ~Ts!IsEmptyBarrel(IRs, q) =>
           q.line \in diagnosed \/ Ts!MissingFile(Ts!Destination(q.to.import)) \in unplaced
      /\ \A q \in lost \ dropped : q.to.type \notin TsBuiltin => q.to \in unplaced
  <2> HIDE DEF imports, named, lost, dropped
  <2> QED
    OBVIOUS
<1> HIDE DEF resolved, unbound, astray, diagnosed, unplaced
<1>4. /\ index[f].symbols = IRs[f].symbols /\ index[f].relationships = resolved
      /\ index[f].diagnostics = diagnosed /\ index[f].unplaced = unplaced
  BY <1>1, <1>2
<1>5. ASSUME NEW r \in rels, ~Ts!IsImport(r.to),
             r.kind \notin {"Calls", "Instantiates"} \/ ~Ts!IsTypeName(TsMeaning(f, r.to.type))
      PROVE  LET to == TsMeaning(f, r.to.type)
             IN  /\ [r EXCEPT !.to = to] \in resolved
                 /\ Ts!IsTypeName(to) /\ to.type \notin TsBuiltin => to \in unplaced
  <2> DEFINE to == TsMeaning(f, r.to.type)
             q == [r EXCEPT !.to = to]
  <2>1. q \in named
    BY <1>5 DEF TsMeaning
  <2>2. IsRel(r)
    BY TsRelationships
  <2> HIDE DEF to
  <2>3. q.kind = r.kind /\ q.to = to /\ q.line = r.line
    BY <2>2 DEF IsRel
  <2> HIDE DEF q, named
  <2>4. q \notin dropped
    BY <1>5, <2>3 DEF to
  <2>5. Ts!IsTypeName(to) => q \in lost
    BY <2>1, <2>3
  <2> HIDE DEF lost, dropped
  <2> QED
    BY <1>3, <2>1, <2>3, <2>4, <2>5 DEF q, to
<1>6. \A q \in named : \E r \in rels : ~Ts!IsImport(r.to) /\ q = [r EXCEPT !.to = TsMeaning(f, r.to.type)]
  BY DEF TsMeaning
<1> HIDE DEF named
<1> QED
  BY <1>3, <1>4, <1>5, <1>6

(* The symbols of a TypeScript repository are those its files declare.      *)
LEMMA TsSymbolsOfAll ==
  ASSUME AdaptersInv, language = "typescript"
  PROVE  SymbolsOfAll = AllSymbols(IRs)
<1>1. \A f \in TsKnown : index[f].symbols = IRs[f].symbols
  BY TsResolution
<1>2. DOMAIN index = TsKnown /\ DOMAIN IRs = TsKnown
  BY TsShape
<1> QED
  BY <1>1, <1>2 DEF SymbolsOfAll, AllSymbols

(* What a relationship that leads somewhere leaves is an edge.              *)
LEMMA TsAnEdge ==
  ASSUME AdaptersInv, language = "typescript", NEW f \in TsKnown, NEW r \in IRs[f].relationships,
         NEW to, TsTarget(to), [r EXCEPT !.to = to] \in index[f].relationships
  PROVE  EdgesAt(f, r.line) # {}
<1> DEFINE q == [r EXCEPT !.to = to]
<1>1. IsRel(r) /\ r.from \in index[f].symbols
  BY TsRelationships, TsResolution
<1>2. q.from = r.from /\ q.to = to /\ q.line = r.line /\ q \in index[f].relationships
  BY <1>1 DEF IsRel
<1>3. IsPackage(to) \/ to \in SymbolsOfAll
  BY TargetsAreNamed, TsSymbolsOfAll DEF IsTarget
<1> HIDE DEF q
<1> QED
  BY <1>1, <1>2, <1>3, AnEdge

(* An import leads somewhere or is reported, at its line or as a file that  *)
(* is missing, unless it takes all there is of a file that declares nothing.*)
LEMMA TsImportFates ==
  ASSUME AdaptersInv, language = "typescript", NEW f \in TsKnown, NEW r \in IRs[f].relationships, Ts!IsImport(r.to)
  PROVE  \/ EdgesAt(f, r.line) # {} \/ Reported(f, r.line)
         \/ ReportedAs(f, Ts!MissingFile(Ts!Destination(r.to.import)))
         \/ /\ Ts!IsEmptyBarrel(IRs, r)
            /\ LET g == Ts!Destination(r.to.import) IN g \in DOMAIN index /\ index[g].symbols = {Ts!ModuleSymbol(g)}
<1>1. PICK q \in Ts!ResolveImport(IRs, r) : q = r \/ Leads(q, r)
  BY TsImportLeads
<1>2. q \in TsResolved(f)
  BY <1>1 DEF TsResolved
<1>3. CASE Leads(q, r)
  <2>1. PICK to : TsTarget(to) /\ q = [r EXCEPT !.to = to]
    BY <1>3 DEF Leads
  <2>2. [r EXCEPT !.to = to] \in index[f].relationships
    BY <1>2, <2>1, TsResolution
  <2> QED
    BY <2>1, <2>2, TsAnEdge
<1>4. CASE q = r /\ ~Leads(r, r) /\ ~Ts!IsEmptyBarrel(IRs, r)
  BY <1>2, <1>4, TsResolution DEF Reported, ReportedAs
<1>5. CASE q = r /\ ~Leads(r, r) /\ Ts!IsEmptyBarrel(IRs, r)
  <2> DEFINE g == Ts!Destination(r.to.import)
  <2>1. g \in TsKnown /\ IRs[g].symbols = {Ts!ModuleSymbol(g)}
    BY <1>1, <1>5, TsImportLeads
  <2> HIDE DEF g
  <2>2. index[g].symbols = {Ts!ModuleSymbol(g)} /\ g \in DOMAIN index
    BY <2>1, TsResolution, TsShape
  <2> QED
    BY <1>5, <2>2 DEF g
<1> QED
  BY <1>1, <1>3, <1>4, <1>5

(* Nothing a TypeScript file says is lost.                                  *)
LEMMA TsLosesNothing ==
  ASSUME AdaptersInv, language = "typescript", NEW f \in DOMAIN sources, NEW i \in Written(f, Takes)
  PROVE  Accounted(f, i)
<1> DEFINE source == TsRead(f)
           s == source[i]
<1>1. f \in TsKnown /\ source = sources[f] /\ i \in DOMAIN source /\ s.is \in Takes /\ s \in Ts!TsStatements
  <2>1. f \in TsKnown /\ f \notin TsMinified /\ i \in DOMAIN sources[f] /\ sources[f][i].is \in Takes
    BY TsShape DEF Written, IsLookedInto
  <2>2. source = sources[f]
    BY <2>1 DEF TsRead, Read
  <2>3. source \in Seq(Ts!TsStatements)
    BY <2>1, TsShape
  <2> QED
    BY <2>1, <2>2, <2>3
<1>2. s.is \in {"import", "reexport"}
  BY <1>1, TsStatementParts
<1>3. TsImports(f) \union TsReexports(f) \subseteq IRs[f].relationships
  BY <1>1, TsShape
<1>4. CASE s.is = "import"
  <2> DEFINE r == Ts!Rel(TsPrimary(f), Ts!ImportOf(s.spec, s.name), "Imports", Ts!AliasOf(s.name, s.local), i)
  <2>1. r \in TsImports(f)
    BY <1>1, <1>4 DEF TsImports, Ts!StatementsOf
  <2>2. r.kind = "Imports" /\ r.line = i /\ Ts!IsImport(r.to) /\ r.to.import = s.spec
    BY DEF Ts!Rel, Ts!ImportOf, Ts!IsImport
  <2> HIDE DEF r
  <2>3. ~Ts!IsEmptyBarrel(IRs, r)
    BY <2>2 DEF Ts!IsEmptyBarrel
  <2>4. EdgesAt(f, i) # {} \/ Reported(f, i) \/ ReportedAs(f, Ts!MissingFile(Ts!Destination(s.spec)))
    BY <1>1, <1>3, <2>1, <2>2, <2>3, TsImportFates
  <2>5. ReportedAs(f, Ts!MissingFile(Ts!Destination(s.spec))) => ReportedMissing(f, s)
    BY <1>4 DEF ReportedMissing
  <2> HIDE DEF s
  <2>6. s = sources[f][i]
    BY <1>1 DEF s
  <2> QED
    BY <2>4, <2>5, <2>6 DEF Accounted
<1>5. CASE s.is = "reexport"
  <2> DEFINE r == Ts!Rel(TsPrimary(f), Ts!ImportOf(s.spec, s.name), "ReExports", Ts!AliasOf(s.name, s.as), i)
             g == Ts!Destination(s.spec)
  <2>1. r \in TsReexports(f)
    BY <1>1, <1>5 DEF TsReexports, Ts!StatementsOf
  <2>2. r.line = i /\ Ts!IsImport(r.to) /\ r.to.name = s.name /\ r.to.import = s.spec
    BY DEF Ts!Rel, Ts!ImportOf, Ts!IsImport
  <2> HIDE DEF r
  <2>3. \/ EdgesAt(f, i) # {} \/ Reported(f, i)
        \/ ReportedAs(f, Ts!MissingFile(g))
        \/ Ts!IsEmptyBarrel(IRs, r) /\ g \in DOMAIN index /\ index[g].symbols = {Ts!ModuleSymbol(g)}
    BY <1>1, <1>3, <2>1, <2>2, TsImportFates
  <2>4. Ts!IsEmptyBarrel(IRs, r) => s.name = Ts!Star
    BY <2>2 DEF Ts!IsEmptyBarrel
  <2>5. /\ ReportedAs(f, Ts!MissingFile(g)) => ReportedMissing(f, s)
        /\ Ts!IsEmptyBarrel(IRs, r) /\ g \in DOMAIN index /\ index[g].symbols = {Ts!ModuleSymbol(g)} =>
             ExportsNothing(s)
    BY <1>5, <2>4 DEF ExportsNothing, ReportedMissing
  <2> HIDE DEF g, s
  <2>6. s = sources[f][i]
    BY <1>1 DEF s
  <2> QED
    BY <2>3, <2>5, <2>6 DEF Accounted
<1> QED
  BY <1>2, <1>4, <1>5

(* What a name means in a file: a package, a symbol or a type of that name, *)
(* or what is imported by it and was not found.                             *)
LEMMA TsResolvedParts ==
  ASSUME AdaptersInv, language = "typescript", NEW f \in TsKnown, NEW q \in TsResolved(f)
  PROVE  /\ q.line \in DOMAIN TsRead(f)
         /\ TsTarget(q.to) \/ (q \in IRs[f].relationships /\ Ts!IsImport(q.to))
<1>1. PICK r \in IRs[f].relationships : Ts!IsImport(r.to) /\ q \in Ts!ResolveImport(IRs, r)
  BY DEF TsResolved
<1>2. IsRel(r) /\ r.line \in DOMAIN TsRead(f)
  BY TsRelationships
<1>3. CASE q = r
  BY <1>1, <1>2, <1>3
<1>4. CASE Leads(q, r)
  <2>1. PICK to : TsTarget(to) /\ q = [r EXCEPT !.to = to]
    BY <1>4 DEF Leads
  <2>2. q.to = to /\ q.line = r.line
    BY <1>2, <2>1 DEF IsRel
  <2> QED
    BY <1>2, <2>1, <2>2
<1> QED
  BY <1>1, <1>3, <1>4, TsImportLeads

(* And a name means what is imported by it, what is declared, or a type.    *)
LEMMA TsMeans ==
  ASSUME AdaptersInv, language = "typescript", NEW f \in TsKnown, NEW name \in Nat, NEW to, to = TsMeaning(f, name)
  PROVE  \/ TsTarget(to) \/ to = Ts!TypeNamed(name)
         \/ \E x \in TsResolved(f) \intersect TsImports(f) : Ts!IsImport(x.to) /\ x.alias = name /\ to = x.to
<1> DEFINE imports == TsResolved(f)
           of == {r \in imports : r.kind = "Imports" /\ Ts!LocalName(r) = name}
           declared == {s \in IRs[f].symbols : s.name = name}
<1>1. to = IF Ts!BoundTo(imports, name) # NONE THEN Ts!BoundTo(imports, name)
           ELSE IF declared # {} THEN Ts!LeastSymbol(declared) ELSE Ts!TypeNamed(name)
  BY DEF TsMeaning, Ts!NameInFile
<1>2. Ts!BoundTo(imports, name) = IF of = {} THEN NONE ELSE Latest(of).to
  BY DEF Ts!BoundTo, Latest
<1>3. declared # {} => Ts!LeastSymbol(declared) \in declared
  <2>1. declared \in SUBSET IRs[f].symbols
    OBVIOUS
  <2> HIDE DEF declared
  <2>2. IsFiniteSet(declared) /\ \A s \in declared : IsTsSymbol(f, s)
    BY <2>1, TsSymbols, FS_Subset
  <2> QED
    BY <2>2, LeastSymbolIsOne
<1>4. \A s \in declared : TsTarget(s)
  BY TsShape DEF TsTarget, AllSymbols
<1>5. \A q \in of : q \in imports /\ q.kind = "Imports" /\ Ts!LocalName(q) = name
  OBVIOUS
<1> HIDE DEF of, declared
<1>6. CASE of # {}
  <2> DEFINE x == Latest(of)
  <2>1. x \in of
    <3>1. TsRead(f) \in Seq(Ts!TsStatements)
      BY TsShape
    <3> DEFINE n == Len(TsRead(f))
    <3>2. n \in Nat /\ DOMAIN TsRead(f) = 1 .. n
      BY <3>1
    <3>3. \A q \in of : q.line \in 1 .. n
      BY <1>5, <3>2, TsResolvedParts
    <3> HIDE DEF n
    <3> QED
      BY <1>6, <3>2, <3>3, LatestIsOne
  <2> HIDE DEF x
  <2>2. x \in imports /\ x.kind = "Imports" /\ Ts!LocalName(x) = name
    BY <1>5, <2>1
  <2>3. TsTarget(x.to) \/ (x \in IRs[f].relationships /\ Ts!IsImport(x.to))
    BY <2>2, TsResolvedParts
  <2>4. ASSUME x \in IRs[f].relationships, Ts!IsImport(x.to)
        PROVE  x \in TsImports(f) /\ x.alias = name
    <3>1. x \in TsImports(f) \union TsReexports(f) /\ ~Ts!IsSymbol(x.to)
      BY <2>4, TsRelationships
    <3>2. x \notin TsReexports(f)
      <4>1. ASSUME x \in TsReexports(f) PROVE x.kind = "ReExports"
        <5>1. PICK from, what, alias, i : x = Ts!Rel(from, what, "ReExports", alias, i)
          BY <4>1 DEF TsReexports
        <5> QED
          BY <5>1 DEF Ts!Rel
      <4> QED
        BY <2>2, <4>1
    <3>3. x.alias = name
      BY <2>2, <2>4, <3>1, FilesAssumption DEF Ts!LocalName
    <3> QED
      BY <3>1, <3>2, <3>3
  <2>5. to = x.to \/ (Ts!BoundTo(imports, name) = NONE /\ (TsTarget(to) \/ to = Ts!TypeNamed(name)))
    BY <1>1, <1>2, <1>3, <1>4, <1>6 DEF x
  <2> QED
    BY <2>2, <2>3, <2>4, <2>5
<1>7. CASE of = {}
  BY <1>1, <1>2, <1>3, <1>4, <1>7
<1> QED
  BY <1>6, <1>7

(* What is charged is found, is reported, or is elsewhere.                  *)
LEMMA TsChargeFates ==
  ASSUME AdaptersInv, language = "typescript", NEW f \in TsKnown, f \notin TsMinified, NEW r \in IRs[f].relationships,
         NEW type \in Nat, type \notin TsBuiltin, r.kind = "AccessesProperty", r.to = Ts!TypeNamed(type)
  PROVE  EdgesAt(f, r.line) # {} \/ ReportedAs(f, Ts!TypeNamed(type)) \/ IsElsewhere(IRs, f, type)
<1> DEFINE to == TsMeaning(f, type)
<1>1. ~Ts!IsImport(r.to) /\ r.to.type = type
  BY DEF Ts!TypeNamed, Ts!IsImport
<1>2. /\ [r EXCEPT !.to = to] \in index[f].relationships
      /\ Ts!IsTypeName(to) /\ to.type \notin TsBuiltin => to \in index[f].unplaced
  BY <1>1, TsResolution
<1>3. \/ TsTarget(to) \/ to = Ts!TypeNamed(type)
      \/ \E x \in TsResolved(f) \intersect TsImports(f) : Ts!IsImport(x.to) /\ x.alias = type /\ to = x.to
  BY TsMeans
<1> HIDE DEF to
<1>4. CASE TsTarget(to)
  BY <1>2, <1>4, TsAnEdge
<1>5. CASE to = Ts!TypeNamed(type)
  BY <1>2, <1>5 DEF Ts!TypeNamed, Ts!IsTypeName, ReportedAs
<1>6. ASSUME NEW x \in TsResolved(f) \intersect TsImports(f), Ts!IsImport(x.to), x.alias = type
      PROVE  IsElsewhere(IRs, f, type)
  <2> DEFINE source == TsRead(f)
  <2>1. source = sources[f]
    BY DEF TsRead, Read
  <2>2. PICK j \in Ts!StatementsOf(source, "import") :
          x = Ts!Rel(TsPrimary(f), Ts!ImportOf(source[j].spec, source[j].name), "Imports",
                     Ts!AliasOf(source[j].name, source[j].local), j)
    BY <1>6 DEF TsImports
  <2>3. /\ x.line = j /\ x.kind = "Imports" /\ x.alias = Ts!AliasOf(source[j].name, source[j].local)
        /\ x.to.import = source[j].spec
    BY <2>2 DEF Ts!Rel, Ts!ImportOf
  <2>4. source[j].local = type
    BY <1>6, <2>3, FilesAssumption DEF Ts!AliasOf
  <2>5. \/ j \in index[f].diagnostics
        \/ Ts!MissingFile(Ts!Destination(source[j].spec)) \in index[f].unplaced
    <3>1. ~Ts!IsEmptyBarrel(IRs, x)
      BY <2>3 DEF Ts!IsEmptyBarrel
    <3> QED
      BY <1>6, <2>3, <3>1, TsResolution
  <2>6. j \in DOMAIN source /\ source[j].is = "import"
    BY <2>2 DEF Ts!StatementsOf
  <2> HIDE DEF source
  <2>7. j \in Written(f, {"import"})
    BY <2>1, <2>6 DEF Written, IsLookedInto
  <2>8. Reported(f, j) \/ ReportedMissing(f, sources[f][j])
    BY <2>1, <2>5, <2>6 DEF Reported, ReportedMissing, ReportedAs
  <2> QED
    BY <2>1, <2>4, <2>7, <2>8 DEF IsElsewhere
<1> QED
  BY <1>3, <1>4, <1>5, <1>6

(* The members of a TypeScript file are charged to their types.             *)
LEMMA TsMembers ==
  ASSUME AdaptersInv, language = "typescript", NEW f \in DOMAIN sources
  PROVE  EveryMemberIsCharged(f) /\ EveryChargeIsOfAMember(f)
<1> DEFINE source == TsRead(f)
<1>1. /\ f \in TsKnown /\ source \in Seq(Ts!TsStatements)
      /\ Ts!AccessRels(f, source) \subseteq IRs[f].relationships
      /\ Ts!Primary(f, source) \in Ts!SymbolsOf(f, source)
  BY TsShape, TsSymbols DEF TsPrimary
<1>2. f \notin TsMinified => source = sources[f]
  BY DEF TsRead, Read
<1>3. f \in TsMinified => source = << >>
  BY DEF TsRead, Read
<1>4. \A t \in Range(source) : t \in Ts!TsStatements
  BY <1>1 DEF Range
<1> HIDE DEF source
<1>5. EveryMemberIsCharged(f)
  <2> SUFFICES ASSUME NEW i \in Written(f, {"access", "member"}), NEW type \in TypesOf(f, sources[f][i]),
                      Cardinality(TypesOf(f, sources[f][i])) = 1,
                      TypesOf(f, sources[f][i]) = TypesHere(f, sources[f][i]),
                      ~IsBuiltin(type), ~IsElsewhere(IRs, f, type)
               PROVE  \E r \in ChargedIn(f) : /\ NamesType(r, type) /\ r.line <= i
                                              /\ EdgesAt(f, r.line) # {} \/ ReportedAs(f, Ts!TypeNamed(type))
    BY DEF EveryMemberIsCharged
  <2> DEFINE s == source[i]
             var == s.var
             S == Typings(f, s)
  <2>1. f \notin TsMinified /\ source = sources[f] /\ i \in DOMAIN source /\ s.is = "access"
    <3>1. f \notin TsMinified /\ i \in DOMAIN sources[f] /\ sources[f][i].is \in {"access", "member"}
      BY DEF Written, IsLookedInto
    <3>2. sources[f] = source /\ sources[f][i] \in Ts!TsStatements
      BY <1>1, <1>2, <3>1
    <3> QED
      BY <3>1, <3>2, TsStatementParts
  <2>2. S = {t \in Range(source) : t.is = "typed" /\ t.var = var /\ t.type # NONE}
    BY <2>1 DEF Typings
  <2>3. \A t \in Range(source) : t.is = "typed" => t.type \in Nat /\ t.type # NONE
    BY <1>4, TsStatementParts, FilesAssumption
  <2>4. \A t \in S : t.type = type
    <3> DEFINE types == TypesOf(f, s)
    <3>1. S \subseteq Range(source) /\ types = {t.type : t \in S} /\ Cardinality(types) = 1 /\ type \in types
      BY <2>1, <2>2 DEF TypesOf
    <3> HIDE DEF S, types
    <3> QED
      BY <1>1, <3>1, OneType
  <2>5. PICK u \in S : u.type = type /\ IsTypedHere(s, u)
    <3>1. type \in TypesHere(f, s)
      BY <2>1
    <3> QED
      BY <3>1 DEF TypesHere
  <2>6. ~s.this
    BY <2>5 DEF IsTypedHere
  <2>7. type \in Nat /\ type # NONE /\ type \notin TsBuiltin
    BY <2>2, <2>3, <2>5 DEF IsBuiltin
  <2>8. PICK k \in DOMAIN source :
          /\ k <= i
          /\ Ts!Rel(Ts!Primary(f, source), Ts!TypeNamed(type), "AccessesProperty", type, k)
                \in Ts!AccessRels(f, source)
    <3>1. \E t \in Range(source) : t.is = "typed" /\ t.var = source[i].var
      BY <2>2, <2>5
    <3>2. \A t \in Range(source) : t.is = "typed" /\ t.var = source[i].var => t.type = type
      BY <2>2, <2>3, <2>4
    <3> QED
      BY <1>1, <2>1, <2>6, <2>7, <3>1, <3>2, AccessIsCharged
  <2> DEFINE r == Ts!Rel(Ts!Primary(f, source), Ts!TypeNamed(type), "AccessesProperty", type, k)
  <2>9. r \in IRs[f].relationships /\ r.kind = "AccessesProperty" /\ r.to = Ts!TypeNamed(type) /\ r.line = k
    BY <1>1, <2>8 DEF Ts!Rel
  <2> HIDE DEF r
  <2>10. r \in ChargedIn(f) /\ NamesType(r, type)
    BY <2>9 DEF ChargedIn, NamesType, Ts!TypeNamed, Ts!IsTypeName
  <2>11. EdgesAt(f, r.line) # {} \/ ReportedAs(f, Ts!TypeNamed(type))
    BY <1>1, <2>1, <2>7, <2>9, TsChargeFates
  <2> QED
    BY <2>8, <2>9, <2>10, <2>11
<1>6. EveryChargeIsOfAMember(f)
  <2> SUFFICES ASSUME NEW r \in ChargedIn(f)
               PROVE  \E type \in TypesOf(f, sources[f][r.line]) : NamesType(r, type)
    BY DEF EveryChargeIsOfAMember
  <2>1. r \in Ts!AccessRels(f, source)
    BY <1>1, TsRelationships DEF ChargedIn, source
  <2>2. PICK from \in Ts!SymbolsOf(f, source), i \in DOMAIN source, type \in Nat :
          /\ r = Ts!Rel(from, Ts!TypeNamed(type), "AccessesProperty", type, i)
          /\ \E t \in Range(source) : t.is = "typed" /\ t.var = source[i].var /\ t.type = type
    BY <1>1, <2>1, AccessParts
  <2>3. source = sources[f]
    BY <1>2, <1>3, <2>2
  <2>4. r.line = i /\ r.to = Ts!TypeNamed(type)
    BY <2>2 DEF Ts!Rel
  <2>5. NamesType(r, type)
    BY <2>4 DEF NamesType, Ts!TypeNamed, Ts!IsTypeName
  <2>6. type \in TypesOf(f, source[i])
    BY <2>2, <2>3, FilesAssumption DEF TypesOf, Typings
  <2> QED
    BY <2>3, <2>4, <2>5, <2>6
<1> QED
  BY <1>5, <1>6

(* The relationship a TypeScript import is.                                 *)
TsImportAt(f, i) ==
  Ts!Rel(TsPrimary(f), Ts!ImportOf(TsRead(f)[i].spec, TsRead(f)[i].name), "Imports",
         Ts!AliasOf(TsRead(f)[i].name, TsRead(f)[i].local), i)

(* What an import leads to: a package of that name, or a symbol that has    *)
(* the name imported.                                                       *)
TsMayBe(r, to) ==
  \/ to = Ts!PackageOf(r.to.import) /\ r.to.import \notin DOMAIN TsRelative /\ Ts!Destination(r.to.import) = NONE
  \/ to \in KnownBy(AllSymbols(IRs), r.to.name)

(* An import that is no re-export leads to one thing or stays as it is.     *)
LEMMA TsLeadsToOne ==
  ASSUME AdaptersInv, language = "typescript", NEW r, r.kind = "Imports"
  PROVE  \/ Ts!ResolveImport(IRs, r) = {r}
         \/ \E to : TsMayBe(r, to) /\ Ts!ResolveImport(IRs, r) = {[r EXCEPT !.to = to]}
<1> DEFINE spec == r.to.import
           target == Ts!Destination(spec)
           found == Ts!Lookup(IRs, target, r.to.name)
<1>1. Ts!ResolveImport(IRs, r) =
        IF target = NONE /\ spec \notin DOMAIN TsRelative THEN Ts!Led(r, {Ts!PackageOf(spec)})
        ELSE IF target \notin DOMAIN IRs THEN {r} ELSE Ts!Led(r, {found} \ {NONE})
  BY DEF Ts!ResolveImport, Ts!LedTo
<1>2. \A to : Ts!Led(r, {to}) = {[r EXCEPT !.to = to]}
  BY DEF Ts!Led
<1>3. Ts!Led(r, {}) = {r}
  BY DEF Ts!Led
<1>4. found \in {NONE} \union KnownBy(AllSymbols(IRs), r.to.name)
  BY TsLookupIsSymbol
<1>5. CASE target = NONE /\ spec \notin DOMAIN TsRelative
  BY <1>1, <1>2, <1>5 DEF TsMayBe
<1> HIDE DEF target, found
<1>6. CASE ~(target = NONE /\ spec \notin DOMAIN TsRelative) /\ found # NONE
  <2>1. {found} \ {NONE} = {found} /\ TsMayBe(r, found)
    BY <1>4, <1>6 DEF TsMayBe
  <2> QED
    BY <1>1, <1>2, <1>6, <2>1
<1>7. CASE ~(target = NONE /\ spec \notin DOMAIN TsRelative) /\ found = NONE
  <2>1. {found} \ {NONE} = {}
    BY <1>7
  <2> QED
    BY <1>1, <1>3, <1>7, <2>1
<1> QED
  BY <1>5, <1>6, <1>7

(* What it leads to is something.                                           *)
LEMMA TsTargetIsSomething ==
  ASSUME AdaptersInv, language = "typescript", NEW r, r.to.import \in Nat, NEW to, TsMayBe(r, to)
  PROVE  to # NONE /\ TsTarget(to) /\ (Ts!IsSymbol(to) => to \in KnownBy(AllSymbols(IRs), r.to.name))
<1>1. CASE to = Ts!PackageOf(r.to.import)
  <2>1. to \in [package : Nat]
    BY <1>1 DEF Ts!PackageOf
  <2> QED
    BY <1>1, <2>1, FilesAssumption DEF TsTarget, Ts!PackageOf, Ts!IsSymbol
<1>2. CASE to \in KnownBy(AllSymbols(IRs), r.to.name)
  <2>1. PICK f \in TsKnown : to \in IRs[f].symbols
    BY <1>2, TsShape DEF KnownBy, AllSymbols
  <2>2. PICK name \in Nat, kind \in {"class", "function", "method", "property", "module"} : to = Ts!Sym(f, name, kind)
    BY <2>1, TsSymbols DEF IsTsSymbol
  <2>3. to \in [file : Nat, name : Nat, kind : SymbolKinds]
    BY <2>2, FilesAssumption DEF Ts!Sym, SymbolKinds
  <2> QED
    BY <1>2, <2>3, FilesAssumption DEF TsTarget, KnownBy
<1> QED
  BY <1>1, <1>2 DEF TsMayBe

(* What is in the index of a line is of the statement that is written there.*)
LEMMA TsLineOf ==
  ASSUME AdaptersInv, language = "typescript", NEW f \in TsKnown, NEW r \in IRs[f].relationships
  PROVE  /\ r.line \in DOMAIN TsRead(f)
         /\ TsRead(f)[r.line].is = "import" => r = TsImportAt(f, r.line)
         /\ TsRead(f)[r.line].is = "use" => ~Ts!IsImport(r.to) /\ r.to.type = TsRead(f)[r.line].name
         /\ Ts!IsImport(r.to) /\ r.kind = "Imports" => TsRead(f)[r.line].is = "import"
<1> DEFINE source == TsRead(f)
<1>1. /\ source \in Seq(Ts!TsStatements) /\ TsPrimary(f) \in IRs[f].symbols
      /\ IRs[f].symbols = Ts!SymbolsOf(f, source)
      /\ r \in TsImports(f) \union TsReexports(f) \union TsUses(f) \union Ts!AccessRels(f, source)
  BY TsShape, TsSymbols
<1> HIDE DEF source
<1>2. CASE r \in TsImports(f)
  <2>1. PICK i \in Ts!StatementsOf(source, "import") : r = TsImportAt(f, i)
    BY <1>2 DEF TsImports, TsImportAt, source
  <2>2. r.line = i
    BY <2>1 DEF TsImportAt, Ts!Rel
  <2> QED
    BY <2>1, <2>2 DEF Ts!StatementsOf, source
<1>3. CASE r \in TsReexports(f)
  <2>1. PICK i \in Ts!StatementsOf(source, "reexport") :
          r = Ts!Rel(TsPrimary(f), Ts!ImportOf(source[i].spec, source[i].name), "ReExports",
                     Ts!AliasOf(source[i].name, source[i].as), i)
    BY <1>3 DEF TsReexports, source
  <2>2. r.line = i /\ r.kind = "ReExports"
    BY <2>1 DEF Ts!Rel
  <2> QED
    BY <2>1, <2>2 DEF Ts!StatementsOf, source
<1>4. CASE r \in TsUses(f)
  <2>1. PICK i \in Ts!StatementsOf(source, "use") :
          r = Ts!Rel(TsPrimary(f), Ts!TypeNamed(source[i].name), source[i].kind, source[i].name, i)
    BY <1>4 DEF TsUses, source
  <2>2. r.line = i /\ r.to = Ts!TypeNamed(source[i].name)
    BY <2>1 DEF Ts!Rel
  <2>3. ~Ts!IsImport(r.to) /\ r.to.type = source[i].name
    BY <2>2 DEF Ts!TypeNamed, Ts!IsImport
  <2> QED
    BY <2>1, <2>2, <2>3 DEF Ts!StatementsOf, source
<1>5. CASE r \in Ts!AccessRels(f, source)
  <2>1. Ts!Primary(f, source) \in Ts!SymbolsOf(f, source)
    BY <1>1 DEF TsPrimary, source
  <2>2. PICK from \in Ts!SymbolsOf(f, source), i \in DOMAIN source, type \in Nat :
          r = Ts!Rel(from, Ts!TypeNamed(type), "AccessesProperty", type, i) /\ source[i].is = "access"
    BY <1>1, <1>5, <2>1, AccessParts
  <2>3. r.line = i /\ r.kind = "AccessesProperty"
    BY <2>2 DEF Ts!Rel
  <2> QED
    BY <2>2, <2>3 DEF source
<1> QED
  BY <1>1, <1>2, <1>3, <1>4, <1>5

(* An import, as it is resolved: what it leads to, and its name in the file,*)
(* which is the one it is given unless it is of a package.                  *)
LEMMA TsNameOf ==
  ASSUME AdaptersInv, language = "typescript", NEW f \in TsKnown, NEW j \in DOMAIN TsRead(f),
         TsRead(f)[j].is = "import", NEW q \in Ts!ResolveImport(IRs, TsImportAt(f, j))
  PROVE  LET s == TsRead(f)[j]
         IN  /\ Ts!ResolveImport(IRs, TsImportAt(f, j)) = {q} /\ q.line = j /\ q.kind = "Imports"
             /\ (~Ts!IsImport(q.to) => q.to # NONE /\ TsTarget(q.to))
             /\ \/ Ts!LocalName(q) = s.local
                \/ Ts!LocalName(q) = NONE /\ Ts!IsImport(q.to)
                \/ /\ s.name = s.local /\ Ts!LocalName(q) = s.spec
                   /\ s.spec \notin DOMAIN TsRelative /\ Ts!Destination(s.spec) = NONE
<1> DEFINE s == TsRead(f)[j]
           r == TsImportAt(f, j)
<1>1. s \in Ts!TsStatements
  <2>1. TsRead(f) \in Seq(Ts!TsStatements)
    BY TsShape
  <2> QED
    BY <2>1
<1>2. s.spec \in Nat /\ s.name \in Nat /\ s.local \in Nat /\ s.local # Ts!Default
  <2> HIDE DEF s
  <2> QED
    BY <1>1 DEF Ts!TsStatements, s
<1>3. /\ r.kind = "Imports" /\ r.line = j /\ r.to.import = s.spec /\ r.to.name = s.name /\ Ts!IsImport(r.to)
      /\ ~Ts!IsSymbol(r.to) /\ r.alias = Ts!AliasOf(s.name, s.local) /\ IsRel(r)
  BY DEF TsImportAt, Ts!Rel, Ts!ImportOf, Ts!IsImport, Ts!IsSymbol, IsRel
<1> HIDE DEF s, r
<1>4. r.alias # NONE => r.alias = s.local
  BY <1>3 DEF Ts!AliasOf
<1>5. r.alias = NONE => s.name = s.local
  BY <1>2, <1>3, FilesAssumption DEF Ts!AliasOf
<1>6. CASE Ts!ResolveImport(IRs, r) = {r}
  <2>1. q = r
    BY <1>6 DEF r
  <2>2. Ts!LocalName(q) = s.local \/ Ts!LocalName(q) = NONE
    BY <1>3, <1>4, <2>1 DEF Ts!LocalName
  <2> QED
    BY <1>3, <1>6, <2>1, <2>2 DEF r, s
<1>7. ASSUME NEW to, TsMayBe(r, to), Ts!ResolveImport(IRs, r) = {[r EXCEPT !.to = to]}
      PROVE  /\ Ts!ResolveImport(IRs, r) = {q} /\ q.line = j /\ q.kind = "Imports"
             /\ (~Ts!IsImport(q.to) => q.to # NONE /\ TsTarget(q.to))
             /\ \/ Ts!LocalName(q) = s.local
                \/ Ts!LocalName(q) = NONE /\ Ts!IsImport(q.to)
                \/ /\ s.name = s.local /\ Ts!LocalName(q) = s.spec
                   /\ s.spec \notin DOMAIN TsRelative /\ Ts!Destination(s.spec) = NONE
  <2>1. q = [r EXCEPT !.to = to]
    BY <1>7 DEF r
  <2>2. q.line = j /\ q.kind = "Imports" /\ q.to = to /\ q.alias = r.alias
    BY <1>3, <2>1 DEF IsRel
  <2>3. to # NONE /\ TsTarget(to) /\ (Ts!IsSymbol(to) => to \in KnownBy(AllSymbols(IRs), s.name))
    BY <1>2, <1>3, <1>7, TsTargetIsSomething
  <2>4. ASSUME r.alias # NONE PROVE Ts!LocalName(q) = s.local
    BY <1>4, <2>2, <2>4 DEF Ts!LocalName
  <2>5. ASSUME r.alias = NONE, Ts!IsSymbol(to) PROVE Ts!LocalName(q) = s.local
    <3>1. to.name = s.name
      BY <1>2, <1>5, <2>3, <2>5 DEF KnownBy
    <3> QED
      BY <1>5, <2>2, <2>5, <3>1 DEF Ts!LocalName
  <2>6. ASSUME r.alias = NONE, ~Ts!IsSymbol(to)
        PROVE  /\ s.name = s.local /\ Ts!LocalName(q) = s.spec
               /\ s.spec \notin DOMAIN TsRelative /\ Ts!Destination(s.spec) = NONE
    <3>1. to \notin AllSymbols(IRs)
      <4>1. ASSUME to \in AllSymbols(IRs) PROVE Ts!IsSymbol(to)
        <5>1. PICK g \in TsKnown : to \in IRs[g].symbols
          BY <4>1, TsShape DEF AllSymbols
        <5>2. PICK name, kind : to = Ts!Sym(g, name, kind)
          BY <5>1, TsSymbols DEF IsTsSymbol
        <5> QED
          BY <5>2 DEF Ts!Sym, Ts!IsSymbol
      <4> QED
        BY <2>6, <4>1
    <3>2. to = Ts!PackageOf(s.spec) /\ s.spec \notin DOMAIN TsRelative /\ Ts!Destination(s.spec) = NONE
      BY <1>3, <1>7, <3>1 DEF TsMayBe, KnownBy
    <3>3. ~Ts!IsImport(to) /\ to.package = s.spec
      BY <3>2 DEF Ts!PackageOf, Ts!IsImport
    <3>4. Ts!LocalName(q) = s.spec
      BY <2>2, <2>6, <3>3 DEF Ts!LocalName
    <3> QED
      BY <1>5, <2>6, <3>2, <3>4
  <2>7. \/ Ts!LocalName(q) = s.local
        \/ /\ s.name = s.local /\ Ts!LocalName(q) = s.spec
           /\ s.spec \notin DOMAIN TsRelative /\ Ts!Destination(s.spec) = NONE
    BY <2>4, <2>5, <2>6
  <2> QED
    BY <1>7, <2>1, <2>2, <2>3, <2>7
<1>8. Ts!ResolveImport(IRs, r) = {r} \/ \E to : TsMayBe(r, to) /\ Ts!ResolveImport(IRs, r) = {[r EXCEPT !.to = to]}
  BY <1>3, TsLeadsToOne
<1> QED
  BY <1>6, <1>7, <1>8 DEF r, s

(* The imports of a name are those that give it.                            *)
LEMMA TsImportsOf ==
  ASSUME AdaptersInv, language = "typescript", NEW f \in TsKnown, f \notin TsMinified, NEW name
  PROVE  \A j : j \in ImportsOf(f, name) <=>
           j \in DOMAIN sources[f] /\ sources[f][j].is = "import" /\ sources[f][j].local = name
<1> DEFINE source == sources[f]
<1>1. source \in Seq(Ts!TsStatements)
  <2>1. TsRead(f) = source
    BY DEF TsRead, Read
  <2> QED
    BY <2>1, TsShape
<1>2. ASSUME NEW j \in DOMAIN source PROVE source[j].is # "usetree"
  <2>1. source[j] \in Ts!TsStatements
    BY <1>1
  <2> QED
    BY <2>1 DEF Ts!TsStatements
<1>3. Written(f, {"import", "usetree"}) = {j \in DOMAIN source : source[j].is = "import"}
  BY <1>2 DEF Written, IsLookedInto
<1>4. \A j \in DOMAIN source : source[j].is = "import" => LocalNames(f, source[j]) = {source[j].local}
  BY DEF LocalNames
<1> HIDE DEF source
<1>5. ImportsOf(f, name) = {j \in DOMAIN source : source[j].is = "import" /\ name \in LocalNames(f, source[j])}
  BY <1>3 DEF ImportsOf, source
<1> QED
  BY <1>4, <1>5 DEF source

(* In the index of a file an import by a name that is not misnamed is one   *)
(* of the file's statements by that name.                                   *)
LEMMA TsKnownAs ==
  ASSUME AdaptersInv, language = "typescript", NEW f \in TsKnown, f \notin TsMinified,
         NEW name, name # NONE, ~IsMisnamed(f, name), NEW q \in TsResolved(f), q.kind = "Imports", Ts!LocalName(q) = name
  PROVE  q.line \in ImportsOf(f, name) /\ q \in Ts!ResolveImport(IRs, TsImportAt(f, q.line))
<1>1. TsRead(f) = sources[f]
  BY DEF TsRead, Read
<1>2. PICK r \in IRs[f].relationships : Ts!IsImport(r.to) /\ q \in Ts!ResolveImport(IRs, r)
  BY DEF TsResolved
<1>3. r.kind = "Imports" /\ r.line = q.line
  <2>1. q = r \/ Leads(q, r)
    BY <1>2, TsImportLeads
  <2>2. IsRel(r)
    BY TsRelationships
  <2>3. ASSUME NEW to, q = [r EXCEPT !.to = to] PROVE q.kind = r.kind /\ q.line = r.line
    BY <2>2, <2>3 DEF IsRel
  <2> QED
    BY <2>1, <2>3 DEF Leads
<1> DEFINE j == q.line
           s == sources[f][j]
<1>4. j \in DOMAIN sources[f] /\ s.is = "import" /\ r = TsImportAt(f, j)
  BY <1>1, <1>2, <1>3, TsLineOf
<1> HIDE DEF j
<1>5. \/ Ts!LocalName(q) = s.local
      \/ Ts!LocalName(q) = NONE
      \/ /\ s.name = s.local /\ Ts!LocalName(q) = s.spec
         /\ s.spec \notin DOMAIN TsRelative /\ Ts!Destination(s.spec) = NONE
  BY <1>1, <1>2, <1>4, TsNameOf
<1>6. j \in Written(f, {"import"})
  BY <1>4 DEF Written, IsLookedInto
<1>7. s.local = name
  BY <1>5, <1>6 DEF IsMisnamed
<1>8. j \in ImportsOf(f, name)
  BY <1>4, <1>7, TsImportsOf
<1> QED
  BY <1>2, <1>4, <1>8 DEF j

(* In TypeScript a use leads where the last import of its name does.        *)
LEMMA TsUsesFollow ==
  ASSUME AdaptersInv, language = "typescript", NEW f \in DOMAIN sources, NEW i \in Written(f, {"use"})
  PROVE  FollowsImport(f, i)
<1> DEFINE s == sources[f][i]
           name == UsedName(s)
           last == LastOfImports(f, name)
           targets == {e.to : e \in EdgesAt(f, last)}
           imports == TsResolved(f)
           of == {r \in imports : r.kind = "Imports" /\ Ts!LocalName(r) = name}
<1>1. /\ f \in TsKnown /\ f \notin TsMinified /\ TsRead(f) = sources[f]
      /\ sources[f] \in Seq(Ts!TsStatements) /\ i \in DOMAIN sources[f] /\ s.is = "use"
  <2>1. f \in TsKnown /\ f \notin TsMinified /\ i \in DOMAIN sources[f] /\ s.is = "use"
    BY TsShape DEF Written, IsLookedInto
  <2>2. TsRead(f) = sources[f]
    BY <2>1 DEF TsRead, Read
  <2>3. sources[f] \in Seq(Ts!TsStatements)
    BY <2>1, <2>2, TsShape
  <2> QED
    BY <2>1, <2>2, <2>3
<1> SUFFICES ASSUME name # NONE, ~IsMisnamed(f, name), ImportsOf(f, name) # {}, targets # {}
             PROVE  /\ {e.to : e \in EdgesAt(f, i)} \subseteq targets
                    /\ EdgesAt(f, i) # {} \/ \E t \in targets : IsPackage(t)
  BY DEF FollowsImport
<1>2. name = s.name
  BY DEF UsedName
<1>3. /\ last \in ImportsOf(f, name) /\ \A k \in ImportsOf(f, name) : k <= last
      /\ ImportsOf(f, name) \subseteq DOMAIN sources[f] /\ DOMAIN sources[f] \subseteq Nat
  <2> HIDE DEF name
  <2> QED
    BY <1>1, LastImport
<1> HIDE DEF name, last
<1>4. last \in DOMAIN sources[f] /\ sources[f][last].is = "import" /\ sources[f][last].local = name
  BY <1>1, <1>3, TsImportsOf
<1> DEFINE r == TsImportAt(f, last)
<1>5. \A e \in EdgesAt(f, last) : e \in Ts!ResolveImport(IRs, r) /\ e \in imports /\ ~Ts!IsImport(e.to)
  <2>1. ASSUME NEW e \in EdgesAt(f, last)
        PROVE  e \in Ts!ResolveImport(IRs, r) /\ e \in imports /\ ~Ts!IsImport(e.to)
    <3>1. e \in index[f].relationships /\ e.line = last /\ (IsPackage(e.to) \/ e.to \in SymbolsOfAll)
      BY DEF EdgesAt
    <3>2. TsTarget(e.to) \/ IsPackage(e.to)
      BY <3>1, TsSymbolsOfAll DEF TsTarget
    <3>3. e \in imports
      <4>1. ASSUME NEW q \in IRs[f].relationships, ~Ts!IsImport(q.to), NEW to, e = [q EXCEPT !.to = to] PROVE FALSE
        <5>1. e.line = q.line
          <6>1. IsRel(q)
            BY <1>1, TsRelationships
          <6> QED
            BY <4>1, <6>1 DEF IsRel
        <5>2. q = TsImportAt(f, last)
          BY <1>1, <1>4, <3>1, <5>1, TsLineOf
        <5>3. Ts!IsImport(q.to)
          BY <5>2 DEF TsImportAt, Ts!Rel, Ts!ImportOf, Ts!IsImport
        <5> QED
          BY <4>1, <5>3
      <4>2. e \in TsResolved(f) \/ \E q \in IRs[f].relationships :
              ~Ts!IsImport(q.to) /\ e = [q EXCEPT !.to = TsMeaning(f, q.to.type)]
        BY <1>1, <3>1, TsResolution
      <4> QED
        BY <4>1, <4>2
    <3>4. PICK q \in IRs[f].relationships : Ts!IsImport(q.to) /\ e \in Ts!ResolveImport(IRs, q)
      BY <3>3 DEF TsResolved
    <3>5. q.line = last
      <4>1. e = q \/ Leads(e, q)
        BY <3>4, TsImportLeads
      <4>2. IsRel(q)
        BY <1>1, TsRelationships
      <4>3. ASSUME NEW to, e = [q EXCEPT !.to = to] PROVE e.line = q.line
        BY <4>2, <4>3 DEF IsRel
      <4> QED
        BY <3>1, <4>1, <4>3 DEF Leads
    <3>6. q = r
      BY <1>1, <1>4, <3>5, TsLineOf
    <3>7. ~Ts!IsImport(e.to)
      <4>1. CASE TsTarget(e.to)
        BY <4>1, TargetsAreNamed
      <4>2. CASE IsPackage(e.to) /\ e = q
        BY <3>6, <4>2 DEF IsPackage, TsImportAt, Ts!Rel, Ts!ImportOf
      <4>3. CASE Leads(e, q)
        <5>1. PICK to : TsTarget(to) /\ e = [q EXCEPT !.to = to]
          BY <4>3 DEF Leads
        <5>2. IsRel(q)
          BY <1>1, TsRelationships
        <5>3. e.to = to
          BY <5>1, <5>2 DEF IsRel
        <5> QED
          BY <5>1, <5>3, TargetsAreNamed
      <4> QED
        BY <3>2, <3>4, <4>1, <4>2, <4>3, TsImportLeads
    <3> QED
      BY <3>3, <3>4, <3>6, <3>7
  <2> QED
    BY <2>1
<1>6. PICK e \in EdgesAt(f, last) : TRUE
  OBVIOUS
<1>7. e \in Ts!ResolveImport(IRs, r) /\ e \in imports /\ ~Ts!IsImport(e.to)
  BY <1>5
<1>8. /\ Ts!ResolveImport(IRs, r) = {e} /\ e.line = last /\ e.kind = "Imports"
      /\ e.to # NONE /\ TsTarget(e.to) /\ Ts!LocalName(e) = name
  <2> DEFINE t == sources[f][last]
  <2>1. /\ Ts!ResolveImport(IRs, r) = {e} /\ e.line = last /\ e.kind = "Imports"
        /\ e.to # NONE /\ TsTarget(e.to)
        /\ \/ Ts!LocalName(e) = t.local
           \/ /\ t.name = t.local /\ t.spec \notin DOMAIN TsRelative /\ Ts!Destination(t.spec) = NONE
    BY <1>1, <1>4, <1>7, TsNameOf
  <2>2. last \in Written(f, {"import"})
    BY <1>1, <1>4 DEF Written, IsLookedInto
  <2>3. Ts!LocalName(e) = t.local
    BY <1>4, <2>1, <2>2 DEF IsMisnamed
  <2> QED
    BY <1>4, <2>1, <2>3
<1> DEFINE to == e.to
<1>9. targets = {to}
  <2>1. \A x \in EdgesAt(f, last) : x = e
    BY <1>5, <1>8
  <2> QED
    BY <2>1
<1> HIDE DEF targets, imports
<1>10. \A q \in of : /\ q.line \in ImportsOf(f, name) /\ q \in Ts!ResolveImport(IRs, TsImportAt(f, q.line))
                     /\ q \in imports
  BY <1>1, TsKnownAs DEF imports
<1>11. e \in of
  BY <1>7, <1>8
<1>12. Ts!BoundTo(imports, name) = IF of = {} THEN NONE ELSE Latest(of).to
  BY DEF Ts!BoundTo, Latest
<1> HIDE DEF of
<1>13. Latest(of) = e
  <2>1. DOMAIN sources[f] = 1 .. Len(sources[f]) /\ Len(sources[f]) \in Nat
    BY <1>1
  <2>2. \A q \in of : q.line \in 1 .. Len(sources[f])
    BY <1>3, <1>10, <2>1
  <2>3. Latest(of) \in of /\ \A q \in of : q.line <= Latest(of).line
    BY <1>11, <2>1, <2>2, LatestIsOne
  <2> DEFINE q == Latest(of)
  <2> HIDE DEF q
  <2>4. q \in of /\ e.line <= q.line
    BY <1>11, <2>3 DEF q
  <2>5. q.line \in Nat /\ last \in Nat /\ q.line <= last
    BY <1>3, <1>10, <2>4
  <2>6. q.line = last
    BY <1>8, <2>4, <2>5
  <2>7. q \in Ts!ResolveImport(IRs, r)
    BY <1>10, <2>4, <2>6
  <2> QED
    BY <1>8, <2>7 DEF q
<1>14. TsMeaning(f, name) = to
  BY <1>8, <1>11, <1>12, <1>13 DEF TsMeaning, Ts!NameInFile, imports
<1>15. TsTarget(to) /\ ~Ts!IsTypeName(to)
  BY <1>8, TargetsAreNamed
<1> HIDE DEF to, r
<1>16. \A x \in EdgesAt(f, i) : x.to = to
  <2>1. ASSUME NEW x \in EdgesAt(f, i) PROVE x.to = to
    <3>1. x \in index[f].relationships /\ x.line = i
      BY DEF EdgesAt
    <3>2. x \notin TsResolved(f)
      <4>1. ASSUME NEW q \in IRs[f].relationships, Ts!IsImport(q.to), x \in Ts!ResolveImport(IRs, q) PROVE FALSE
        <5>1. x = q \/ Leads(x, q)
          BY <4>1, TsImportLeads
        <5>2. IsRel(q)
          BY <1>1, TsRelationships
        <5>3. ASSUME NEW t, x = [q EXCEPT !.to = t] PROVE x.line = q.line
          BY <5>2, <5>3 DEF IsRel
        <5>4. q.line = i
          BY <3>1, <5>1, <5>3 DEF Leads
        <5> QED
          BY <1>1, <4>1, <5>4, TsLineOf
      <4> QED
        BY <4>1 DEF TsResolved
    <3>3. PICK q \in IRs[f].relationships : ~Ts!IsImport(q.to) /\ x = [q EXCEPT !.to = TsMeaning(f, q.to.type)]
      BY <1>1, <3>1, <3>2, TsResolution
    <3>4. IsRel(q)
      BY <1>1, TsRelationships
    <3> DEFINE t == TsMeaning(f, q.to.type)
    <3>5. x.line = q.line /\ x.to = t
      <4> HIDE DEF t
      <4>1. x = [q EXCEPT !.to = t]
        BY <3>3 DEF t
      <4> QED
        BY <3>4, <4>1 DEF IsRel
    <3>6. q.to.type = name
      BY <1>1, <1>2, <3>1, <3>5, TsLineOf
    <3> QED
      BY <1>14, <3>5, <3>6
  <2> QED
    BY <2>1
<1>17. EdgesAt(f, i) # {}
  <2> DEFINE q == Ts!Rel(TsPrimary(f), Ts!TypeNamed(s.name), s.kind, s.name, i)
  <2>1. q \in TsUses(f)
    BY <1>1 DEF TsUses, Ts!StatementsOf
  <2>2. q \in IRs[f].relationships
    BY <1>1, <2>1, TsShape
  <2>3. q.line = i /\ q.to.type = name /\ ~Ts!IsImport(q.to)
    BY <1>2 DEF Ts!Rel, Ts!TypeNamed, Ts!IsImport
  <2> HIDE DEF q
  <2> DEFINE t == TsMeaning(f, q.to.type)
  <2>4. t = to
    BY <1>14, <2>3
  <2>5. [q EXCEPT !.to = t] \in index[f].relationships
    BY <1>1, <1>15, <2>2, <2>3, <2>4, TsResolution
  <2> HIDE DEF t
  <2>6. TsTarget(t)
    BY <1>15, <2>4
  <2>7. EdgesAt(f, q.line) # {}
    BY <1>1, <2>2, <2>5, <2>6, TsAnEdge
  <2> QED
    BY <2>3, <2>7
<1> QED
  BY <1>9, <1>16, <1>17

(* Go and C have no names that are imported.                                *)
LEMMA NoNamesAreImported ==
  ASSUME language \in {"go", "c"}, AdaptersInv, NEW f \in DOMAIN sources, NEW i \in Written(f, {"use"})
  PROVE  FollowsImport(f, i)
<1> DEFINE name == UsedName(sources[f][i])
<1>1. ASSUME NEW j \in Written(f, {"import", "usetree"}) PROVE LocalNames(f, sources[f][j]) = {}
  <2>1. sources[f] \in Seq(StatementsOf(language)) /\ j \in DOMAIN sources[f]
    BY Analysed DEF Written
  <2>2. sources[f][j] \in GoStatements \union CStatements
    BY <2>1 DEF StatementsOf
  <2>3. sources[f][j].is # "usetree"
    BY <2>2 DEF GoStatements, CStatements, SharedStatements
  <2> QED
    BY <2>3 DEF LocalNames
<1>2. ImportsOf(f, name) = {}
  BY <1>1 DEF ImportsOf
<1> QED
  BY <1>2 DEF FollowsImport

-----------------------------------------------------------------------------
(* Chains of limited length. What a place comes to within d more steps: its *)
(* own value, or what the next place comes to within one step less.         *)
Within(L, P, limit, own, stops, next) ==
  \A p \in P : \A d \in 0 .. limit :
    L[<<p, d>>] = IF own[p] # NONE THEN own[p]
                  ELSE IF d = limit \/ p \in stops THEN NONE ELSE L[<<next[p], d + 1>>]

(* A place that has no value and is no stop leads to another.               *)
GoesOn(P, own, stops, next) == \A p \in P \ stops : own[p] = NONE => next[p] \in P

(* What is found late is what is found when one starts earlier.             *)
LEMMA FoundEarlier ==
  ASSUME NEW P, NEW limit \in Nat, NEW L, NEW own, NEW stops, NEW next,
         GoesOn(P, own, stops, next),
         Within(L, P, limit, own, stops, next),
         NEW d \in 0 .. limit, NEW e \in 0 .. limit, d <= e, NEW p \in P, L[<<p, e>>] # NONE
  PROVE  L[<<p, d>>] = L[<<p, e>>]
<1> DEFINE Q == {k \in 0 .. limit : \A q \in P : \A x \in 0 .. limit :
                   x = limit - k /\ x > 0 /\ L[<<q, x>>] # NONE => L[<<q, x - 1>>] = L[<<q, x>>]}
<1>1. \A q \in P : \A x \in 0 .. limit :
        L[<<q, x>>] = IF own[q] # NONE THEN own[q]
                      ELSE IF x = limit \/ q \in stops THEN NONE ELSE L[<<next[q], x + 1>>]
  BY DEF Within
<1>2. ASSUME NEW q \in P, NEW x \in 1 .. limit, L[<<q, x>>] # NONE,
             x # limit => \A r \in P : L[<<r, x + 1>>] # NONE => L[<<r, x>>] = L[<<r, x + 1>>]
      PROVE  L[<<q, x - 1>>] = L[<<q, x>>]
  <2>1. x \in 0 .. limit /\ x - 1 \in 0 .. limit /\ x - 1 # limit /\ (x - 1) + 1 = x
    OBVIOUS
  <2>2. L[<<q, x - 1>>] = IF own[q] # NONE THEN own[q] ELSE IF q \in stops THEN NONE ELSE L[<<next[q], x>>]
    BY <1>1, <2>1
  <2>3. L[<<q, x>>] = IF own[q] # NONE THEN own[q]
                      ELSE IF x = limit \/ q \in stops THEN NONE ELSE L[<<next[q], x + 1>>]
    BY <1>1, <2>1
  <2>4. CASE own[q] # NONE
    BY <2>2, <2>3, <2>4
  <2>5. CASE own[q] = NONE
    <3>1. x # limit /\ q \notin stops /\ L[<<q, x>>] = L[<<next[q], x + 1>>]
      BY <1>2, <2>3, <2>5
    <3>2. next[q] \in P
      BY <2>5, <3>1 DEF GoesOn
    <3>3. L[<<next[q], x>>] = L[<<next[q], x + 1>>]
      BY <1>2, <3>1, <3>2
    <3> QED
      BY <2>2, <2>5, <3>1, <3>3
  <2> QED
    BY <2>4, <2>5
<1>3. 0 \in Q
  <2>1. ASSUME NEW q \in P, NEW x \in 0 .. limit, x = limit - 0, x > 0, L[<<q, x>>] # NONE
        PROVE  L[<<q, x - 1>>] = L[<<q, x>>]
    <3>1. x \in 1 .. limit /\ x = limit
      BY <2>1
    <3> QED
      BY <1>2, <2>1, <3>1
  <2> QED
    BY <2>1
<1>4. ASSUME NEW k \in 1 .. limit, k - 1 \in Q PROVE k \in Q
  <2>1. ASSUME NEW q \in P, NEW x \in 0 .. limit, x = limit - k, x > 0, L[<<q, x>>] # NONE
        PROVE  L[<<q, x - 1>>] = L[<<q, x>>]
    <3>1. x \in 1 .. limit /\ x + 1 \in 0 .. limit /\ x + 1 = limit - (k - 1) /\ x + 1 > 0 /\ (x + 1) - 1 = x
      BY <2>1
    <3>2. \A r \in P : L[<<r, x + 1>>] # NONE => L[<<r, (x + 1) - 1>>] = L[<<r, x + 1>>]
      BY <1>4, <3>1
    <3>3. \A r \in P : L[<<r, x + 1>>] # NONE => L[<<r, x>>] = L[<<r, x + 1>>]
      BY <3>1, <3>2
    <3> QED
      BY <1>2, <2>1, <3>1, <3>3
  <2> QED
    BY <2>1
<1>5. \A k \in 0 .. limit : k \in Q
  <2>1. ASSUME NEW k \in 0 .. limit PROVE k \in Q
    <3> HIDE DEF Q
    <3>1. \A j \in 1 .. k : j - 1 \in Q => j \in Q
      BY <1>4
    <3> QED
      BY <1>3, <3>1, UpTo
  <2> QED
    BY <2>1
<1>6. ASSUME NEW x \in 1 .. limit, NEW q \in P, L[<<q, x>>] # NONE PROVE L[<<q, x - 1>>] = L[<<q, x>>]
  <2>1. limit - x \in 0 .. limit /\ x = limit - (limit - x) /\ x \in 0 .. limit /\ x > 0
    OBVIOUS
  <2>2. limit - x \in Q
    BY <1>5, <2>1
  <2> QED
    BY <1>6, <2>1, <2>2
<1> DEFINE R == {k \in 0 .. e : L[<<p, e - k>>] = L[<<p, e>>]}
<1>7. 0 \in R
  <2>1. e - 0 = e /\ 0 \in 0 .. e
    OBVIOUS
  <2> QED
    BY <2>1
<1>8. ASSUME NEW k \in 1 .. e, k - 1 \in R PROVE k \in R
  <2>1. e - (k - 1) \in 1 .. limit /\ e - (k - 1) - 1 = e - k /\ k \in 0 .. e
    OBVIOUS
  <2>2. L[<<p, e - (k - 1)>>] = L[<<p, e>>]
    BY <1>8
  <2>3. L[<<p, e - (k - 1) - 1>>] = L[<<p, e - (k - 1)>>]
    BY <1>6, <2>1, <2>2
  <2> QED
    BY <2>1, <2>2, <2>3
<1>9. e - d \in R
  <2> HIDE DEF R
  <2>1. e - d \in Nat
    OBVIOUS
  <2>2. \A j \in 1 .. (e - d) : j - 1 \in R => j \in R
    <3>1. \A j \in 1 .. (e - d) : j \in 1 .. e
      OBVIOUS
    <3> QED
      BY <1>8, <3>1
  <2> QED
    BY <1>7, <2>1, <2>2, UpTo
<1>10. e - (e - d) = d
  OBVIOUS
<1> QED
  BY <1>9, <1>10

(* The places that lead on are known.                                       *)
AreKnown(P, own, stops, known) == \A p \in P \ stops : own[p] = NONE => p \in known

(* Where the limit is not below the number of places that lead on, a place  *)
(* that leads on comes to what the next one does.                           *)
LEMMA OneStepLess ==
  ASSUME NEW P, NEW limit \in Nat, NEW L, NEW own, NEW stops, NEW next,
         GoesOn(P, own, stops, next),
         Within(L, P, limit, own, stops, next),
         NEW known, IsFiniteSet(known), Cardinality(known) <= limit,
         AreKnown(P, own, stops, known),
         NEW p \in P \ stops, own[p] = NONE, L[<<next[p], 0>>] # NONE
  PROVE  L[<<p, 0>>] = L[<<next[p], 0>>]
<1> DEFINE after == next[p]
<1>1. \A q \in P : \A x \in 0 .. limit :
        L[<<q, x>>] = IF own[q] # NONE THEN own[q]
                      ELSE IF x = limit \/ q \in stops THEN NONE ELSE L[<<next[q], x + 1>>]
  BY DEF Within
<1>2. after \in P /\ p \in known
  BY DEF GoesOn, AreKnown
<1>3. \A q \in P : \A d, e \in 0 .. limit : d <= e /\ L[<<q, e>>] # NONE => L[<<q, d>>] = L[<<q, e>>]
  <2>1. ASSUME NEW q \in P, NEW d \in 0 .. limit, NEW e \in 0 .. limit, d <= e, L[<<q, e>>] # NONE
        PROVE  L[<<q, d>>] = L[<<q, e>>]
    <3> HIDE DEF after
    <3> QED
      BY <2>1, FoundEarlier
  <2> QED
    BY <2>1
<1>4. Cardinality(known) \in Nat /\ limit >= 1
  <2>1. Cardinality(known) \in Nat
    BY FS_CardinalityType
  <2>2. known # {}
    BY <1>2
  <2>3. Cardinality(known) # 0
    BY <2>2, FS_EmptySet
  <2> QED
    BY <2>1, <2>3
<1>5. L[<<p, 0>>] = L[<<after, 1>>]
  <2>1. 0 \in 0 .. limit /\ 0 # limit /\ 0 + 1 = 1
    BY <1>4
  <2> QED
    BY <1>1, <2>1
<1>6. SUFFICES ASSUME L[<<after, 1>>] = NONE PROVE FALSE
  <2>1. 0 \in 0 .. limit /\ 1 \in 0 .. limit
    BY <1>4
  <2>2. L[<<after, 1>>] # NONE => L[<<after, 0>>] = L[<<after, 1>>]
    BY <1>2, <1>3, <2>1
  <2> QED
    BY <1>5, <2>2
<1> DEFINE Just(d) == {q \in P : L[<<q, d>>] # NONE /\ L[<<q, d + 1>>] = NONE}
<1>7. \A d \in 0 .. limit - 1 : \E q \in P : q \in Just(d)
  <2> DEFINE Q == {d \in 0 .. limit - 1 : \E q \in P : q \in Just(d)}
  <2>1. 0 \in Q
    <3>1. after \in Just(0)
      <4>1. 0 + 1 = 1
        OBVIOUS
      <4> QED
        BY <1>2, <1>6, <4>1
    <3> QED
      BY <1>2, <1>4, <3>1
  <2>2. ASSUME NEW d \in 1 .. limit - 1, d - 1 \in Q PROVE d \in Q
    <3>1. PICK q \in P : L[<<q, d - 1>>] # NONE /\ L[<<q, (d - 1) + 1>>] = NONE
      BY <2>2
    <3>2. /\ d - 1 \in 0 .. limit /\ d \in 0 .. limit /\ d - 1 # limit /\ d # limit /\ (d - 1) + 1 = d
          /\ d \in 0 .. limit - 1
      BY <1>4
    <3>3. L[<<q, d>>] = NONE
      BY <3>1, <3>2
    <3>4. own[q] = NONE
      BY <1>1, <3>2, <3>3
    <3>5. q \notin stops /\ L[<<q, d - 1>>] = L[<<next[q], d>>]
      <4>1. L[<<q, d - 1>>] = IF q \in stops THEN NONE ELSE L[<<next[q], d>>]
        BY <1>1, <3>2, <3>4
      <4> QED
        BY <3>1, <4>1
    <3>6. L[<<q, d>>] = L[<<next[q], d + 1>>]
      BY <1>1, <3>2, <3>4, <3>5
    <3>7. next[q] \in P
      BY <3>4, <3>5 DEF GoesOn
    <3>8. next[q] \in Just(d)
      BY <3>1, <3>3, <3>5, <3>6, <3>7
    <3> HIDE DEF Just
    <3> QED
      BY <3>2, <3>7, <3>8
  <2> HIDE DEF Q
  <2>3. limit - 1 \in Nat
    BY <1>4
  <2>4. \A d \in 0 .. limit - 1 : d \in Q
    BY <2>1, <2>2, <2>3, UpTo
  <2> QED
    BY <2>4 DEF Q
<1> DEFINE D == 0 .. limit - 1
           rest == known \ {p}
           w == [d \in D |-> CHOOSE q \in P : q \in Just(d)]
<1>8. ASSUME NEW d \in D
      PROVE  w[d] \in P /\ w[d] \in rest /\ L[<<w[d], d>>] # NONE /\ L[<<w[d], d + 1>>] = NONE
  <2>1. w[d] \in P /\ w[d] \in Just(d)
    <3> DEFINE q == CHOOSE q \in P : q \in Just(d)
    <3>1. w[d] = q
      OBVIOUS
    <3> HIDE DEF w
    <3>2. q \in P /\ q \in Just(d)
      <4> HIDE DEF Just
      <4> QED
        BY <1>7
    <3> HIDE DEF q
    <3> QED
      BY <3>1, <3>2
  <2> HIDE DEF w
  <2>2. L[<<w[d], d>>] # NONE /\ L[<<w[d], d + 1>>] = NONE
    BY <2>1
  <2>3. d \in 0 .. limit /\ d + 1 \in 0 .. limit /\ d # limit
    BY <1>4
  <2>4. own[w[d]] = NONE /\ w[d] \notin stops
    BY <1>1, <2>1, <2>2, <2>3
  <2>5. w[d] # p
    <3>1. L[<<p, 0>>] = NONE
      BY <1>5, <1>6
    <3>2. L[<<p, d>>] # NONE => L[<<p, 0>>] = L[<<p, d>>]
      <4>1. 0 \in 0 .. limit /\ 0 <= d
        BY <2>3
      <4> QED
        BY <1>3, <2>3, <4>1
    <3> QED
      BY <2>2, <3>1, <3>2
  <2> QED
    BY <2>1, <2>2, <2>4, <2>5 DEF AreKnown
<1>9. ASSUME NEW d \in D, NEW e \in D, d < e PROVE w[d] # w[e]
  <2>1. L[<<w[e], e>>] # NONE /\ w[e] \in P /\ L[<<w[d], d + 1>>] = NONE
    BY <1>8
  <2>2. d + 1 \in 0 .. limit /\ e \in 0 .. limit /\ d + 1 <= e
    BY <1>4, <1>9
  <2> HIDE DEF w
  <2>3. L[<<w[e], d + 1>>] = L[<<w[e], e>>]
    BY <1>3, <2>1, <2>2
  <2> QED
    BY <2>1, <2>3
<1>10. w \in Injection(D, rest)
  <2>1. w \in [D -> rest]
    <3>1. \A d \in D : w[d] \in rest
      BY <1>8
    <3> QED
      BY <3>1
  <2>2. ASSUME NEW d \in D, NEW e \in D, w[d] = w[e] PROVE d = e
    <3> HIDE DEF w
    <3>1. d \in Int /\ e \in Int
      OBVIOUS
    <3>2. ~(d < e) /\ ~(e < d)
      BY <1>9, <2>2
    <3> QED
      BY <3>1, <3>2
  <2> HIDE DEF w, D, rest
  <2> QED
    BY <2>1, <2>2 DEF Injection, IsInjective
<1>11. IsFiniteSet(rest) /\ Cardinality(rest) = Cardinality(known) - 1
  BY <1>2, FS_RemoveElement
<1>12. Cardinality(D) = limit
  BY <1>4, FS_Interval
<1> HIDE DEF D, rest, w
<1>13. Cardinality(D) <= Cardinality(rest)
  BY <1>10, <1>11, FS_Injection
<1> QED
  BY <1>4, <1>11, <1>12, <1>13

(* What is known of the imports of files: where each leads to is a file, or *)
(* none, and a name.                                                        *)
ImportsLead(imports, files) ==
  \A f \in files : \A name \in Nat :
    \/ imports[<<f, name>>] = NONE
    \/ imports[<<f, name>>].file \in {NONE} \union files /\ imports[<<f, name>>].name \in Nat

(* The search for a name is what its equation says.                         *)
LEMMA ImportedUnfolds ==
  ASSUME NEW irs, NEW files, DOMAIN irs = files, NEW limit \in Nat, NEW imports, ImportsLead(imports, files),
         NEW f \in files, NEW name \in Nat, NEW d \in 0 .. limit
  PROVE  LET import == imports[<<f, name>>]
             own == ByName(irs[f].order, name)
         IN  Imported(irs, imports, limit)[<<f, name, d>>]
               = IF own # NONE THEN own
                 ELSE IF d = limit \/ import = NONE \/ import.file \in {NONE, f} THEN NONE
                 ELSE Imported(irs, imports, limit)[<<import.file, import.name, d + 1>>]
<1> DEFINE D == files \X Nat \X (0 .. limit)
           import(q) == imports[<<q[1], q[2]>>]
           own(q) == ByName(irs[q[1]].order, q[2])
           ends(q) == q[3] = limit \/ import(q) = NONE \/ import(q).file \in {NONE, q[1]}
           stop == {q \in D : own(q) # NONE \/ ends(q)}
           value == [q \in D |-> IF own(q) # NONE THEN own(q) ELSE NONE]
           next == [q \in D |-> <<import(q).file, import(q).name, q[3] + 1>>]
           rank == [q \in D |-> limit - q[3]]
           lookup == Imported(irs, imports, limit)
           here == <<f, name, d>>
<1>1. rank \in [D -> 0 .. limit]
  OBVIOUS
<1>2. \A q \in D \ stop : next[q] \in D /\ rank[next[q]] < rank[q]
  <2>1. ASSUME NEW q \in D \ stop PROVE next[q] \in D /\ rank[next[q]] < rank[q]
    <3>1. /\ q[1] \in files /\ q[2] \in Nat /\ q[3] \in 0 .. limit /\ q[3] # limit
          /\ import(q) # NONE /\ import(q).file # NONE
      OBVIOUS
    <3>2. import(q).file \in files /\ import(q).name \in Nat
      BY <3>1 DEF ImportsLead
    <3> DEFINE file == import(q).file
               called == import(q).name
    <3>3. q[3] + 1 \in 0 .. limit /\ limit - (q[3] + 1) < limit - q[3]
      BY <3>1
    <3>4. next[q] = <<file, called, q[3] + 1>>
      OBVIOUS
    <3> HIDE DEF file, called, next
    <3>5. next[q] \in D /\ next[q][3] = q[3] + 1
      BY <3>2, <3>3, <3>4 DEF file, called
    <3> QED
      BY <3>3, <3>5
  <2> QED
    BY <2>1
<1> DEFINE Step(g, q) == IF own(q) # NONE THEN own(q) ELSE IF ends(q) THEN NONE
                         ELSE g[<<import(q).file, import(q).name, q[3] + 1>>]
<1>3. lookup = CHOOSE g : g = [q \in D |-> Step(g, q)]
  BY DEF Imported
<1>4. ASSUME NEW g PROVE (g = [q \in D |-> Step(g, q)]) <=> Follows(g, D, stop, value, next)
  <2>1. \A q \in D : Step(g, q) = IF q \in stop THEN value[q] ELSE g[next[q]]
    OBVIOUS
  <2> HIDE DEF D, stop, value, next, Step
  <2> QED
    BY <2>1 DEF Follows
<1>5. here \in D /\ here[1] = f /\ here[2] = name /\ here[3] = d
  OBVIOUS
<1> HIDE DEF D, stop, value, next, rank, lookup, here
<1>6. lookup = [q \in D |-> Step(lookup, q)]
  <2> HIDE DEF Step
  <2>1. \E g : Follows(g, D, stop, value, next)
    BY <1>1, <1>2, EndsExist
  <2> QED
    BY <1>3, <1>4, <2>1
<1>7. lookup[here] = Step(lookup, here)
  <2> HIDE DEF Step
  <2> QED
    BY <1>5, <1>6
<1>8. lookup[here] = IF own(here) # NONE THEN own(here) ELSE IF ends(here) THEN NONE
                     ELSE lookup[<<import(here).file, import(here).name, d + 1>>]
  BY <1>5, <1>7
<1>9. own(here) = ByName(irs[f].order, name) /\ import(here) = imports[<<f, name>>]
  BY <1>5
<1> HIDE DEF own, import
<1> QED
  BY <1>5, <1>8, <1>9 DEF here, lookup

(* Some names are all that their imports come to, but for names that are    *)
(* not imported.                                                            *)
LeadWithin(imports, files, known) ==
  \A f \in files : \A name \in Nat :
    LET to == imports[<<f, name>>]
    IN  <<f, name>> \in known /\ to # NONE /\ to.file # NONE =>
          <<to.file, to.name>> \in known \/ imports[<<to.file, to.name>>] = NONE

(* Where the limit is not below the number of names that one can come to,   *)
(* what a file passes on is what it is in the file it comes from.           *)
LEMMA ImportedOnceMore ==
  ASSUME NEW irs, NEW files, DOMAIN irs = files, NEW limit \in Nat, NEW imports, ImportsLead(imports, files),
         NEW known, IsFiniteSet(known), Cardinality(known) <= limit, LeadWithin(imports, files, known),
         NEW f \in files, NEW name \in Nat, <<f, name>> \in known, ByName(irs[f].order, name) = NONE,
         imports[<<f, name>>] # NONE, imports[<<f, name>>].file \notin {NONE, f},
         NEW s, s # NONE, s = Imported(irs, imports, limit)[<<imports[<<f, name>>].file, imports[<<f, name>>].name, 0>>]
  PROVE  Imported(irs, imports, limit)[<<f, name, 0>>] = s
<1> DEFINE P == {p \in files \X Nat : p \in known \/ imports[<<p[1], p[2]>>] = NONE}
           lookup == Imported(irs, imports, limit)
           L == [x \in P \X (0 .. limit) |-> lookup[<<x[1][1], x[1][2], x[2]>>]]
           own == [p \in P |-> ByName(irs[p[1]].order, p[2])]
           stops == {p \in P : imports[<<p[1], p[2]>>] = NONE \/ imports[<<p[1], p[2]>>].file \in {NONE, p[1]}}
           next == [p \in P |-> <<imports[<<p[1], p[2]>>].file, imports[<<p[1], p[2]>>].name>>]
           here == <<f, name>>
<1>1. ASSUME NEW p \in P \ stops
      PROVE  /\ imports[<<p[1], p[2]>>] # NONE /\ p \in known /\ next[p] \in P
             /\ next[p][1] = imports[<<p[1], p[2]>>].file /\ next[p][2] = imports[<<p[1], p[2]>>].name
  <2> DEFINE file == p[1]
             called == p[2]
             to == imports[<<file, called>>]
             further == <<to.file, to.name>>
  <2>1. file \in files /\ called \in Nat /\ p = <<file, called>> /\ to # NONE /\ to.file # NONE /\ p \in known
    OBVIOUS
  <2>2. next[p] = further
    OBVIOUS
  <2> HIDE DEF file, called, next
  <2>3. to.file \in files /\ to.name \in Nat
    BY <2>1 DEF ImportsLead
  <2>4. further \in known \/ imports[further] = NONE
    BY <2>1 DEF LeadWithin
  <2>5. further \in P /\ further[1] = to.file /\ further[2] = to.name
    BY <2>3, <2>4
  <2> HIDE DEF P, further
  <2> QED
    BY <2>1, <2>2, <2>5 DEF file, called
<1>2. GoesOn(P, own, stops, next)
  BY <1>1 DEF GoesOn
<1>3. Within(L, P, limit, own, stops, next)
  <2>1. ASSUME NEW p \in P, NEW d \in 0 .. limit
        PROVE  L[<<p, d>>] = IF own[p] # NONE THEN own[p]
                             ELSE IF d = limit \/ p \in stops THEN NONE ELSE L[<<next[p], d + 1>>]
    <3>1. /\ p[1] \in files /\ p[2] \in Nat /\ own[p] = ByName(irs[p[1]].order, p[2])
          /\ L[<<p, d>>] = lookup[<<p[1], p[2], d>>]
          /\ p \in stops <=> imports[<<p[1], p[2]>>] = NONE \/ imports[<<p[1], p[2]>>].file \in {NONE, p[1]}
      OBVIOUS
    <3>2. lookup[<<p[1], p[2], d>>]
            = IF ByName(irs[p[1]].order, p[2]) # NONE THEN ByName(irs[p[1]].order, p[2])
              ELSE IF d = limit \/ imports[<<p[1], p[2]>>] = NONE \/ imports[<<p[1], p[2]>>].file \in {NONE, p[1]}
                THEN NONE
              ELSE lookup[<<imports[<<p[1], p[2]>>].file, imports[<<p[1], p[2]>>].name, d + 1>>]
      <4> DEFINE file == p[1]
                 called == p[2]
      <4>1. file \in files /\ called \in Nat
        BY <3>1
      <4> HIDE DEF file, called
      <4>2. lookup[<<file, called, d>>]
              = IF ByName(irs[file].order, called) # NONE THEN ByName(irs[file].order, called)
                ELSE IF d = limit \/ imports[<<file, called>>] = NONE \/ imports[<<file, called>>].file \in {NONE, file}
                  THEN NONE
                ELSE lookup[<<imports[<<file, called>>].file, imports[<<file, called>>].name, d + 1>>]
        <5> HIDE DEF P, L, own, stops, next
        <5> QED
          BY <4>1, ImportedUnfolds
      <4> QED
        BY <4>2 DEF file, called
    <3>3. ASSUME p \notin stops, d # limit
          PROVE  L[<<next[p], d + 1>>] = lookup[<<imports[<<p[1], p[2]>>].file, imports[<<p[1], p[2]>>].name, d + 1>>]
      <4>1. next[p] \in P /\ d + 1 \in 0 .. limit
        <5>1. d + 1 \in 0 .. limit
          BY <3>3
        <5> HIDE DEF P, L, own, stops, next, lookup
        <5>2. p \in P \ stops
          BY <3>3
        <5> QED
          BY <1>1, <5>1, <5>2
      <4>2. L[<<next[p], d + 1>>] = lookup[<<next[p][1], next[p][2], d + 1>>]
        <5> HIDE DEF next
        <5> QED
          BY <4>1
      <4> QED
        BY <1>1, <3>3, <4>2
    <3> HIDE DEF L, own, stops, next, lookup
    <3> QED
      BY <3>1, <3>2, <3>3
  <2> QED
    BY <2>1 DEF Within
<1>4. AreKnown(P, own, stops, known)
  BY <1>1 DEF AreKnown
<1>5. here \in P \ stops /\ own[here] = NONE
  OBVIOUS
<1>6. L[<<here, 0>>] = lookup[<<f, name, 0>>] /\ L[<<next[here], 0>>] = s
  <2>1. 0 \in 0 .. limit
    OBVIOUS
  <2>2. /\ next[here] \in P /\ next[here][1] = imports[<<f, name>>].file
        /\ next[here][2] = imports[<<f, name>>].name
    <3>1. here[1] = f /\ here[2] = name
      OBVIOUS
    <3> HIDE DEF next, stops, P
    <3> QED
      BY <1>1, <1>5, <3>1 DEF here
  <2>3. L[<<here, 0>>] = lookup[<<here[1], here[2], 0>>]
    BY <2>1
  <2>4. L[<<next[here], 0>>] = lookup[<<next[here][1], next[here][2], 0>>]
    <3> HIDE DEF next
    <3> QED
      BY <2>1, <2>2
  <2> QED
    BY <2>2, <2>3, <2>4
<1> HIDE DEF P, L, own, stops, next, here, lookup
<1>7. L[<<here, 0>>] = L[<<next[here], 0>>]
  BY <1>2, <1>3, <1>4, <1>5, <1>6, OneStepLess
<1> QED
  BY <1>6, <1>7 DEF lookup

(* The steps from name to name, and the names that some lead on from: a name *)
(* from which chains are short is one of a few that lead to no others.      *)
Steps == UNION {NextNames(f) : f \in DOMAIN sources}
Passed == {step[1] : step \in Steps}
IsClosed(K) == \A step \in Steps : step[1] \in K /\ step[2] \in Passed => step[2] \in K

(* Chains that are short are of finitely many names.                        *)
LEMMA ShortChains ==
  ASSUME NEW g, NEW name, IsShort(g, name)
  PROVE  \E K : IsFiniteSet(K) /\ Cardinality(K) <= Limit /\ <<g, name>> \in K /\ IsClosed(K) /\ K \subseteq Passed
<1>1. \E K \in SUBSET Passed :
        /\ IsFiniteSet(K) /\ Cardinality(K) <= Limit /\ <<g, name>> \in K
        /\ \A step \in Steps : step[1] \in K /\ step[2] \in Passed => step[2] \in K
  BY DEF IsShort, Steps, Passed
<1> QED
  BY <1>1 DEF IsClosed

(* What is imported is a step on.                                           *)
AreSteps(imports, files) ==
  \A f \in files : \A name \in Nat :
    LET to == imports[<<f, name>>]
    IN  to # NONE => <<f, name>> \in Passed /\ <<<<f, name>>, <<to.file, to.name>>>> \in Steps

(* And so such names lead to no others that are imported.                   *)
LEMMA ClosedLeadWithin ==
  ASSUME NEW imports, NEW files, ImportsLead(imports, files), AreSteps(imports, files), NEW K, IsClosed(K)
  PROVE  LeadWithin(imports, files, K)
<1>1. ASSUME NEW f \in files, NEW name \in Nat, NEW to, to = imports[<<f, name>>],
             <<f, name>> \in K, to # NONE, to.file # NONE
      PROVE  <<to.file, to.name>> \in K \/ imports[<<to.file, to.name>>] = NONE
  <2> DEFINE further == <<to.file, to.name>>
             step == <<<<f, name>>, further>>
  <2>1. to.file \in files /\ to.name \in Nat
    BY <1>1 DEF ImportsLead
  <2>2. step \in Steps
    BY <1>1 DEF AreSteps
  <2>3. imports[further] # NONE => further \in Passed
    BY <2>1 DEF AreSteps
  <2>4. step[1] \in K /\ step[2] = further
    BY <1>1
  <2> HIDE DEF step, further
  <2>5. further \in Passed => further \in K
    BY <2>2, <2>4 DEF IsClosed
  <2> QED
    BY <2>3, <2>5 DEF further
<1> QED
  BY <1>1 DEF LeadWithin

(* An import that takes a name from another file leads, wherever the file   *)
(* only passes the name on, where the file's own import of it does.         *)
IsTransparent(f, i) ==
  LET g == TakenFrom(f, sources[f][i])[1]
      name == TakenFrom(f, sources[f][i])[2]
  IN  /\ g \in DOMAIN sources /\ (\A s \in index[g].symbols : s.name # name) /\ IsShort(g, name)
      /\ \A j \in LinesOf(g, name) : PassesOn(g, sources[g][j])
      => \A j \in LinesOf(g, name) :
           /\ \A k \in LinesOf(g, name) : TargetsAt(g, k) = TargetsAt(g, j)
           /\ \E s \in TargetsAt(g, j) : IsSymbol(s) /\ s.kind # "module"
           => TargetsAt(f, i) = TargetsAt(g, j)

-----------------------------------------------------------------------------
(* Python: a line with an import leads where that import does.              *)
LEMMA PyTargetsAt ==
  ASSUME AdaptersInv, language = "python", NEW f \in PyFiles, NEW i \in Written(f, {"import"})
  PROVE  /\ TargetsAt(f, i) = {PyTarget(IRs, f, PyImportAt(f, i))}
         /\ PyImportAt(f, i) \in IRs[f].relationships /\ PyImportAt(f, i).kind = "Imports"
         /\ PyImportAt(f, i) \in PyImports(f, PyRead(f)) /\ PyImportAt(f, i).to.name \in Nat
<1> DEFINE import == PyImportAt(f, i)
           to == PyTarget(IRs, f, import)
<1>1. PyRead(f) = sources[f] /\ i \in DOMAIN sources[f] /\ sources[f][i].is = "import"
  BY DEF Written, IsLookedInto, PyRead, Read
<1>2. import \in PyImports(f, PyRead(f)) /\ import.line = i /\ import.kind = "Imports"
  BY <1>1 DEF PyImports, PyImportAt, Statements, Rel
<1>3. import \in IRs[f].relationships
  BY <1>2, PyShape
<1>4. import.to.name \in Nat /\ import.from \in IRs[f].symbols /\ DOMAIN import = {"from", "to", "kind", "alias", "line"}
  <2> HIDE DEF import
  <2> QED
    BY <1>2, <1>3, PyRelationships
<1>5. \A q \in IRs[f].relationships : q.line = i => q = import
  <2>1. ASSUME NEW q \in IRs[f].relationships, q.line = i PROVE q = import
    <3>1. q.kind = "Imports"
      BY <1>1, <2>1, PyLineOf
    <3>2. q \in PyImports(f, PyRead(f))
      BY <3>1, PyRelationships
    <3> QED
      BY <1>1, <2>1, <3>2 DEF PyImports, PyImportAt, Rel
  <2> QED
    BY <2>1
<1> HIDE DEF import
<1>6. \A r \in EdgesAt(f, i) : r.to = to
  <2>1. ASSUME NEW r \in index[f].relationships, r.line = i PROVE r.to = to
    <3>1. PICK q \in IRs[f].relationships :
            /\ r.line = q.line
            /\ r.to = IF q.kind = "Imports" THEN PyTarget(IRs, f, q) ELSE PyMeans(IRs, f, q.to.named)
      BY PyResolvedParts
    <3>2. q = import
      BY <1>5, <2>1, <3>1
    <3> QED
      BY <1>2, <3>1, <3>2
  <2> QED
    BY <2>1 DEF EdgesAt
<1>7. EdgesAt(f, i) # {}
  <2> DEFINE q == [import EXCEPT !.to = to]
  <2>1. q \in index[f].relationships
    BY <1>2, <1>3, PyResolution
  <2>2. IsTarget(to)
    BY <1>2, <1>4, PyTargetIsTarget
  <2> HIDE DEF to
  <2>3. q.from = import.from /\ q.to = to /\ q.line = i
    BY <1>2, <1>4
  <2> HIDE DEF q
  <2>4. q.from \in index[f].symbols
    BY <1>4, <2>3, PyResolution
  <2> QED
    BY <2>1, <2>2, <2>3, <2>4, PySymbolsOfAll, AnEdge DEF IsTarget
<1> HIDE DEF to
<1>8. TargetsAt(f, i) = {to}
  BY <1>6, <1>7 DEF TargetsAt
<1> QED
  BY <1>2, <1>3, <1>4, <1>8 DEF to, import

(* What a name is imported as in Python is the next of its chain.          *)
LEMMA PyNextName ==
  ASSUME AdaptersInv, language = "python", NEW f \in PyFiles, NEW r \in IRs[f].relationships, r.kind = "Imports",
         NEW name, name = (IF r.alias = NONE THEN r.to.name ELSE r.alias)
  PROVE  <<f, name>> \in Passed /\ <<<<f, name>>, <<PyFileOf(PyAbsolute(f, r.to.spec)), r.to.name>>>> \in Steps
<1> DEFINE rels == IRs[f].relationships
           step(q) == <<<<f, KnownAs(q)>>, <<PyFileOf(PyAbsolute(f, q.to.spec)), q.to.name>>>>
<1>1. DOMAIN sources = PyFiles /\ rels = Extract(language, f, sources[f]).relationships
  <2>1. FilesOf(language) = PyFiles
    BY DEF FilesOf
  <2> QED
    BY <2>1, Analysed
<1>2. NextNames(f) = {step(q) : q \in {q \in rels : q.kind = "Imports"}}
  BY <1>1 DEF NextNames
<1>3. step(r) \in NextNames(f)
  <2> HIDE DEF step
  <2> QED
    BY <1>2
<1>4. step(r) = <<<<f, name>>, <<PyFileOf(PyAbsolute(f, r.to.spec)), r.to.name>>>>
  BY DEF KnownAs
<1> HIDE DEF step
<1>5. step(r) \in Steps
  BY <1>1, <1>3 DEF Steps
<1>6. step(r)[1] \in Passed
  BY <1>5 DEF Passed
<1> QED
  BY <1>4, <1>5, <1>6

(* What a name of a file is goes by that name.                              *)
LEMMA NameOfTheOrderIsNamed ==
  ASSUME NEW T, NEW source \in Seq(T), NEW file, NEW name,
         ByName(InOrder(file, source), name) # NONE
  PROVE  ByName(InOrder(file, source), name).name = name
<1> DEFINE order == InOrder(file, source)
           at == NamedAt(order, name)
<1>1. order = [i \in DOMAIN source |-> IF source[i].is = "symbol" THEN SymbolAt(file, source[i]) ELSE NONE]
  BY DEF InOrder
<1>2. DOMAIN order = 1 .. Len(source) /\ Len(source) \in Nat
  BY <1>1
<1> HIDE DEF order
<1>3. at \subseteq 1 .. Len(source) /\ \A i \in at : order[i].name = name
  BY <1>2 DEF NamedAt
<1> HIDE DEF at
<1>4. ByName(order, name) = IF at = {} THEN NONE ELSE order[CHOOSE i \in at : \A j \in at : j <= i]
  BY DEF ByName, LastSymbol, at
<1>5. IsFiniteSet(at) /\ at \subseteq Nat
  BY <1>2, <1>3, Positions
<1>6. at # {} => \E i \in at : \A j \in at : j <= i
  BY <1>5, GreatestOfFinite
<1> QED
  BY <1>3, <1>4, <1>6 DEF order

(* What a name is imported as, and by which of the imports.                 *)
LEMMA PyImportOfIsImport ==
  ASSUME AdaptersInv, language = "python", NEW f \in PyFiles, NEW name
  PROVE  \/ /\ PyImportOf(IRs, f, name) = NONE
            /\ \A r \in IRs[f].relationships : r.kind = "Imports" =>
                 (IF r.alias = NONE THEN r.to.name ELSE r.alias) # name
         \/ \E r \in IRs[f].relationships :
              /\ r.kind = "Imports" /\ (IF r.alias = NONE THEN r.to.name ELSE r.alias) = name
              /\ PyImportOf(IRs, f, name) = r.to
<1> DEFINE of == {r \in IRs[f].relationships :
                    r.kind = "Imports" /\ (IF r.alias = NONE THEN r.to.name ELSE r.alias) = name}
<1>1. PyImportOf(IRs, f, name) = IF of = {} THEN NONE ELSE Latest(of).to
  BY DEF PyImportOf
<1>2. \A r \in of : r \in IRs[f].relationships /\ r.kind = "Imports"
  OBVIOUS
<1>3. of # {} => Latest(of) \in of
  <2> HIDE DEF of
  <2> QED
    BY <1>2, PyLatestImport
<1>4. CASE of = {}
  BY <1>1, <1>4
<1>5. CASE of # {}
  <2>1. Latest(of) \in of /\ PyImportOf(IRs, f, name) = Latest(of).to
    BY <1>1, <1>3, <1>5
  <2> DEFINE r == Latest(of)
  <2> HIDE DEF r
  <2>2. r \in of /\ PyImportOf(IRs, f, name) = r.to
    BY <2>1 DEF r
  <2> QED
    BY <2>2
<1> QED
  BY <1>4, <1>5

(* A name that a file imports from another, where it is found, is found.    *)
LEMMA PyFoundOnceMore ==
  ASSUME AdaptersInv, language = "python",
         NEW g \in PyFiles, NEW name \in Nat, IsShort(g, name), ByName(IRs[g].order, name) = NONE,
         NEW import, PyImportOf(IRs, g, name) = import, import # NONE,
         NEW h, h = PyFileOf(PyAbsolute(g, import.spec)), h # NONE, h # g,
         NEW s, s # NONE, s = PyLookup(IRs)[<<h, import.name, 0>>]
  PROVE  PyLookup(IRs)[<<g, name, 0>>] = s
<1> DEFINE leads(file, to) == IF to = NONE THEN NONE ELSE Import(PyFileOf(PyAbsolute(file, to.spec)), to.name)
           imports == [p \in PyFiles \X Nat |-> leads(p[1], PyImportOf(IRs, p[1], p[2]))]
<1>1. PyLookup(IRs) = Imported(IRs, imports, MaxInits)
  BY DEF PyLookup
<1>2. \A f \in PyFiles : \A n \in Nat : imports[<<f, n>>] = leads(f, PyImportOf(IRs, f, n))
  OBVIOUS
<1> HIDE DEF imports
<1>3. ASSUME NEW f \in PyFiles, NEW n \in Nat
      PROVE  /\ \/ imports[<<f, n>>] = NONE
                \/ imports[<<f, n>>].file \in {NONE} \union PyFiles /\ imports[<<f, n>>].name \in Nat
             /\ imports[<<f, n>>] # NONE =>
                  /\ <<f, n>> \in Passed
                  /\ <<<<f, n>>, <<imports[<<f, n>>].file, imports[<<f, n>>].name>>>> \in Steps
  <2>1. CASE PyImportOf(IRs, f, n) = NONE
    BY <1>2, <2>1
  <2>2. CASE PyImportOf(IRs, f, n) # NONE
    <3>1. PICK r \in IRs[f].relationships :
            /\ r.kind = "Imports" /\ (IF r.alias = NONE THEN r.to.name ELSE r.alias) = n
            /\ PyImportOf(IRs, f, n) = r.to
      BY <2>2, PyImportOfIsImport
    <3>2. r.to.name \in Nat
      BY <3>1, PyRelationships
    <3>3. <<f, n>> \in Passed /\ <<<<f, n>>, <<PyFileOf(PyAbsolute(f, r.to.spec)), r.to.name>>>> \in Steps
      BY <3>1, PyNextName
    <3>4. imports[<<f, n>>] = Import(PyFileOf(PyAbsolute(f, r.to.spec)), r.to.name)
      BY <1>2, <2>2, <3>1
    <3> QED
      BY <3>2, <3>3, <3>4, PyFileOfIsFile DEF Import
  <2> QED
    BY <2>1, <2>2
<1>4. ImportsLead(imports, PyFiles)
  BY <1>3 DEF ImportsLead
<1>5. AreSteps(imports, PyFiles)
  BY <1>3 DEF AreSteps
<1>6. imports[<<g, name>>] = Import(h, import.name)
  BY <1>2
<1>7. /\ imports[<<g, name>>].file = h /\ imports[<<g, name>>].name = import.name
      /\ h \in PyFiles
  BY <1>6, PyFileOfIsFile DEF Import
<1>8. imports[<<g, name>>] # NONE
  <2>1. PICK r \in IRs[g].relationships : r.kind = "Imports" /\ import = r.to
    BY PyImportOfIsImport
  <2>2. import.name \in Nat
    BY <2>1, PyRelationships
  <2>3. imports[<<g, name>>] \in [file : Nat, name : Nat]
    BY <1>6, <1>7, <2>2, FilesAssumption DEF Import
  <2> QED
    BY <2>3, FilesAssumption
<1>9. DOMAIN IRs = PyFiles
  BY PyShape
<1>10. PICK K : IsFiniteSet(K) /\ Cardinality(K) <= Limit /\ <<g, name>> \in K /\ IsClosed(K)
  BY ShortChains
<1>11. LeadWithin(imports, PyFiles, K) /\ Limit = MaxInits /\ MaxInits \in Nat
  BY <1>4, <1>5, <1>10, ClosedLeadWithin, FilesAssumption DEF Limit
<1> DEFINE file == imports[<<g, name>>].file
           called == imports[<<g, name>>].name
<1>12. s = Imported(IRs, imports, MaxInits)[<<file, called, 0>>] /\ file \notin {NONE, g}
  BY <1>1, <1>7
<1> HIDE DEF leads
<1>13. Imported(IRs, imports, MaxInits)[<<g, name, 0>>] = s
  BY <1>4, <1>8, <1>9, <1>10, <1>11, <1>12, ImportedOnceMore
<1> QED
  BY <1>1, <1>13

(* What an import leads to that is neither a package nor a module is what   *)
(* its name is in the file it names.                                        *)
LEMMA PySymbolIsFound ==
  ASSUME NEW f, NEW r, NEW t, t = PyTarget(IRs, f, r), IsSymbol(t), t.kind # "module"
  PROVE  LET h == PyFileOf(PyAbsolute(f, r.to.spec))
         IN  h # NONE /\ r.to.name # All /\ t # NONE /\ t = PyLookup(IRs)[<<h, r.to.name, 0>>]
<1> DEFINE h == PyFileOf(PyAbsolute(f, r.to.spec))
           package == PackageNode(IF PyAbsolute(f, r.to.spec) = << >> THEN 0 ELSE Head(PyAbsolute(f, r.to.spec)))
           found == PyLookup(IRs)[<<h, r.to.name, 0>>]
<1>1. t = IF h = NONE THEN package ELSE IF r.to.name = All \/ found = NONE THEN ModuleSymbol(h) ELSE found
  BY DEF PyTarget
<1>2. ~IsSymbol(package)
  BY DEF PackageNode, IsSymbol
<1>3. ModuleSymbol(h).kind = "module"
  BY DEF ModuleSymbol
<1> HIDE DEF h, package, found
<1>4. h # NONE /\ r.to.name # All /\ found # NONE /\ t = found
  BY <1>1, <1>2, <1>3
<1> QED
  BY <1>4 DEF h, found

(* In Python a name that is only passed on is what it is passed on as.      *)
LEMMA PyTransparent ==
  ASSUME AdaptersInv, language = "python",
         NEW f \in DOMAIN sources, NEW i \in Written(f, {"import", "usetree"})
  PROVE  IsTransparent(f, i)
<1> DEFINE s == sources[f][i]
           g == TakenFrom(f, s)[1]
           name == TakenFrom(f, s)[2]
<1> SUFFICES ASSUME g \in DOMAIN sources, \A t \in index[g].symbols : t.name # name, IsShort(g, name),
                    \A k \in LinesOf(g, name) : PassesOn(g, sources[g][k]),
                    NEW j \in LinesOf(g, name),
                    \A k \in LinesOf(g, name) : TargetsAt(g, k) = TargetsAt(g, j),
                    \E t \in TargetsAt(g, j) : IsSymbol(t) /\ t.kind # "module"
             PROVE  TargetsAt(f, i) = TargetsAt(g, j)
  BY DEF IsTransparent
<1>1. /\ DOMAIN sources = PyFiles /\ NONE \notin PyFiles
      /\ \A e \in PyFiles : \A k \in Written(e, {"import", "reexport", "usetree"}) :
           /\ e \notin PyGenerated /\ k \in Written(e, {"import"}) /\ k \in Written(e, {"import", "usetree"})
           /\ sources[e][k].is = "import" /\ sources[e][k] \in PyStatements
  <2>1. DOMAIN sources = PyFiles /\ PyFiles \subseteq Nat /\ \A e \in PyFiles : PyRead(e) \in Seq(PyStatements)
    BY PyShape
  <2>2. ASSUME NEW e \in PyFiles, NEW k \in Written(e, {"import", "reexport", "usetree"})
        PROVE  /\ e \notin PyGenerated /\ k \in Written(e, {"import"}) /\ k \in Written(e, {"import", "usetree"})
               /\ sources[e][k].is = "import" /\ sources[e][k] \in PyStatements
    <3>1. /\ e \notin PyGenerated /\ k \in DOMAIN sources[e]
          /\ sources[e][k].is \in {"import", "reexport", "usetree"}
      BY DEF Written, IsLookedInto
    <3>2. PyRead(e) = sources[e]
      BY <3>1 DEF PyRead, Read
    <3>3. sources[e][k] \in PyStatements
      BY <2>1, <3>1, <3>2
    <3>4. sources[e][k].is = "import"
      BY <3>1, <3>3 DEF PyStatements, SharedStatements
    <3> QED
      BY <3>1, <3>3, <3>4 DEF Written
  <2> QED
    BY <2>1, <2>2, FilesAssumption
<1>2. i \in Written(f, {"import"}) /\ s.is = "import" /\ s \in PyStatements /\ f \in PyFiles
  <2>1. i \in Written(f, {"import", "reexport", "usetree"}) /\ f \in PyFiles
    BY <1>1 DEF Written
  <2> QED
    BY <1>1, <2>1
<1>3. s.name # All /\ g = PyFileOf(PyAbsolute(f, s.spec)) /\ name = s.name /\ g \in PyFiles
  <2>1. g # NONE /\ g \in PyFiles
    BY <1>1
  <2>2. TakenFrom(f, s) = IF s.name # All THEN <<PyFileOf(PyAbsolute(f, s.spec)), s.name>> ELSE <<NONE, NONE>>
    BY <1>2 DEF TakenFrom
  <2> QED
    BY <2>1, <2>2
<1>4. name \in Nat
  BY <1>2, <1>3 DEF PyStatements, SharedStatements
<1> HIDE DEF g, name
<1>5. g \notin PyGenerated /\ LinesOf(g, name) = ImportsOf(g, name)
  <2>1. g \notin PyGenerated
    BY <1>1, <1>3 DEF LinesOf
  <2>2. \A k \in Written(g, {"import", "reexport", "usetree"}) : NamesIn(g, sources[g][k]) = LocalNames(g, sources[g][k])
    BY DEF NamesIn
  <2>3. Written(g, {"import", "reexport", "usetree"}) = Written(g, {"import", "usetree"})
    <3>1. \A k \in Written(g, {"import", "reexport", "usetree"}) : k \in Written(g, {"import", "usetree"})
      BY <1>1, <1>3
    <3>2. Written(g, {"import", "usetree"}) \subseteq Written(g, {"import", "reexport", "usetree"})
      BY DEF Written
    <3> QED
      BY <3>1, <3>2
  <2> QED
    BY <2>1, <2>2, <2>3 DEF LinesOf, ImportsOf
<1>6. \A k \in LinesOf(g, name) : k \in Written(g, {"import"}) /\ sources[g][k].is = "import"
  BY <1>1, <1>3 DEF LinesOf
<1>7. \A k \in LinesOf(g, name) : TargetsAt(g, k) = {PyTarget(IRs, g, PyImportAt(g, k))}
  BY <1>3, <1>6, PyTargetsAt
<1> DEFINE t == PyTarget(IRs, g, PyImportAt(g, j))
<1>8. TargetsAt(g, j) = {t} /\ IsSymbol(t) /\ t.kind # "module"
  BY <1>7
<1> HIDE DEF t
<1>9. ByName(IRs[g].order, name) = NONE
  <2>1. /\ PyRead(g) \in Seq(PyStatements) /\ IRs[g].order = InOrder(g, PyRead(g))
        /\ IRs[g].symbols = {ModuleSymbol(g)} \union Declared(g, PyRead(g))
    BY <1>3, PyShape
  <2>2. index[g].symbols = IRs[g].symbols
    BY <1>3, PyResolution
  <2> DEFINE own == ByName(IRs[g].order, name)
  <2>3. own \in {NONE} \union Declared(g, PyRead(g)) /\ (own # NONE => own.name = name)
    BY <2>1, NameOfTheOrder, NameOfTheOrderIsNamed
  <2> HIDE DEF own
  <2>4. own = NONE
    BY <2>1, <2>2, <2>3
  <2> QED
    BY <2>4 DEF own
<1>10. /\ PyImportAt(g, j) \in IRs[g].relationships /\ PyImportAt(g, j).kind = "Imports"
       /\ (IF PyImportAt(g, j).alias = NONE THEN PyImportAt(g, j).to.name ELSE PyImportAt(g, j).alias) = name
  <2> DEFINE r == PyImportAt(g, j)
  <2>1. r \in IRs[g].relationships /\ r.kind = "Imports" /\ PyLocalName(g, r) = name
    <3>1. r \in {PyImportAt(g, k) : k \in ImportsOf(g, name)}
      BY <1>5
    <3> HIDE DEF r
    <3> QED
      BY <1>3, <1>5, <3>1, PyImportsOf
  <2>2. r.to.name # All
    <3> HIDE DEF r
    <3> QED
      BY <1>8, PySymbolIsFound DEF t, r
  <2> HIDE DEF r
  <2>3. (IF r.alias = NONE THEN r.to.name ELSE r.alias) = name
    BY <2>1, <2>2 DEF PyLocalName
  <2> QED
    BY <2>1, <2>3 DEF r
<1>11. PICK q \in IRs[g].relationships :
         /\ q.kind = "Imports" /\ (IF q.alias = NONE THEN q.to.name ELSE q.alias) = name
         /\ PyImportOf(IRs, g, name) = q.to
  BY <1>3, <1>10, PyImportOfIsImport
<1>12. PICK k \in LinesOf(g, name) : q = PyImportAt(g, k)
  <2>1. PyLocalName(g, q) = name
    BY <1>3, <1>11 DEF PyLocalName
  <2>2. q \in {PyImportAt(g, k) : k \in ImportsOf(g, name)}
    BY <1>3, <1>5, <1>11, <2>1, PyImportsOf
  <2> QED
    BY <1>5, <2>2
<1>13. t = PyTarget(IRs, g, q)
  <2>1. TargetsAt(g, k) = {PyTarget(IRs, g, q)} /\ TargetsAt(g, k) = {t}
    BY <1>7, <1>8, <1>12
  <2> QED
    BY <2>1
<1> DEFINE h == PyFileOf(PyAbsolute(g, q.to.spec))
<1>14. h # NONE /\ q.to.name # All /\ t # NONE /\ t = PyLookup(IRs)[<<h, q.to.name, 0>>]
  BY <1>8, <1>13, PySymbolIsFound
<1>15. h # g
  <2>1. sources[g][k].is = "import" /\ q.to.spec = sources[g][k].spec /\ q.to.name = sources[g][k].name
    BY <1>6, <1>12 DEF PyImportAt, Rel, PyMember
  <2>2. TakenFrom(g, sources[g][k]) = <<h, sources[g][k].name>>
    BY <1>14, <2>1 DEF TakenFrom
  <2>3. TakenFrom(g, sources[g][k])[1] \notin {NONE, g}
    BY <2>1 DEF PassesOn
  <2> QED
    BY <2>2, <2>3
<1>16. q.to # NONE
  <2>1. q \in PyImports(g, PyRead(g)) /\ PyRead(g) \in Seq(PyStatements)
    BY <1>3, <1>11, PyRelationships, PyShape
  <2>2. PICK m \in DOMAIN PyRead(g) :
          /\ PyRead(g)[m].is = "import"
          /\ q.to = PyMember(PyRead(g)[m].spec, PyRead(g)[m].name)
    BY <2>1 DEF PyImports, Statements, Rel
  <2>3. PyRead(g)[m] \in PyStatements
    BY <2>1
  <2>4. q.to \in [spec : [dots : Nat, path : Seq(Nat)], name : Nat]
    BY <2>2, <2>3 DEF PyStatements, SharedStatements, PyMember
  <2> QED
    BY <2>4, FilesAssumption
<1> DEFINE import == q.to
<1>17. PyLookup(IRs)[<<g, name, 0>>] = t
  <2>1. import # NONE /\ PyImportOf(IRs, g, name) = import /\ h = PyFileOf(PyAbsolute(g, import.spec))
        /\ t = PyLookup(IRs)[<<h, import.name, 0>>]
    BY <1>11, <1>14, <1>16
  <2> HIDE DEF import, h
  <2> QED
    BY <1>3, <1>4, <1>9, <1>14, <1>15, <2>1, PyFoundOnceMore
<1>18. PyTarget(IRs, f, PyImportAt(f, i)) = t
  <2>1. PyImportAt(f, i).to.spec = s.spec /\ PyImportAt(f, i).to.name = s.name
    BY DEF PyImportAt, Rel, PyMember
  <2> HIDE DEF s
  <2> QED
    BY <1>3, <1>1, <1>14, <1>17, <2>1 DEF PyTarget
<1> QED
  BY <1>2, <1>8, <1>18, PyTargetsAt

-----------------------------------------------------------------------------
(* Rust: as Python, by the leaf that the one name of a `use` is.            *)

(* A `use` is of finitely many names, each of a module's path.              *)
LEMMA LeavesAreNamed ==
  ASSUME NEW s \in RsStatements, s.is = "usetree"
  PROVE  /\ IsFiniteSet(Leaves(s))
         /\ \A leaf \in Leaves(s) : leaf.to \in [module : Seq(Nat), name : Nat]
<1> DEFINE prefix == s.prefix
           to(l) == CASE l.form = "self" -> [to |-> RsMember(s.prefix, All), alias |-> NONE]
                      [] l.form = "glob" -> [to |-> RsMember(s.prefix \o l.path, All), alias |-> NONE]
                      [] l.form = "name" -> [to |-> SplitPath(s.prefix \o l.path), alias |-> l.alias]
           said == {l \in ToSet(s.leaves) : l.form = "self" => s.prefix # << >>}
           leaf == [l \in said |-> to(l)]
<1>1. prefix \in Seq(Nat) /\ s.leaves \in Seq(RsLeaves)
  BY RsStatementParts
<1>2. Leaves(s) = {leaf[l] : l \in said}
  BY DEF Leaves
<1>3. IsFiniteSet(said)
  <2> DEFINE leaves == s.leaves
             at == 1 .. Len(leaves)
             one == [i \in at |-> leaves[i]]
  <2>1. Len(leaves) \in Nat /\ DOMAIN leaves = at
    BY <1>1
  <2> HIDE DEF leaves
  <2>2. IsFiniteSet(at) /\ DOMAIN one = at
    BY <2>1, FS_Interval
  <2>3. ToSet(leaves) = {one[i] : i \in at}
    BY <2>1 DEF ToSet
  <2> HIDE DEF at, one
  <2>4. IsFiniteSet(ToSet(leaves))
    BY <2>2, <2>3, ImageIsFinite
  <2>5. said \subseteq ToSet(leaves)
    BY DEF leaves
  <2> QED
    BY <2>4, <2>5, FS_Subset
<1>4. IsFiniteSet(Leaves(s))
  <2>1. DOMAIN leaf = said
    OBVIOUS
  <2> HIDE DEF leaf, said
  <2> QED
    BY <1>2, <1>3, <2>1, ImageIsFinite
<1>5. ASSUME NEW l \in ToSet(s.leaves) PROVE to(l).to \in [module : Seq(Nat), name : Nat]
  <2>1. l \in RsLeaves
    BY <1>1 DEF ToSet
  <2>2. CASE l.form = "self"
    BY <1>1, <2>2 DEF RsMember, All
  <2>3. CASE l.form = "glob"
    <3> DEFINE rest == l.path
               path == prefix \o rest
    <3>1. rest \in Seq(Nat)
      BY <2>1, <2>3 DEF RsLeaves
    <3> HIDE DEF prefix, rest
    <3>2. path \in Seq(Nat)
      BY <1>1, <3>1
    <3>3. to(l).to = RsMember(path, All)
      BY <2>3 DEF prefix, rest
    <3> HIDE DEF path, to
    <3>4. RsMember(path, All) \in [module : Seq(Nat), name : Nat]
      BY <3>2 DEF RsMember, All
    <3> QED
      BY <3>3, <3>4
  <2>4. CASE l.form = "name"
    <3> DEFINE rest == l.path
               path == prefix \o rest
    <3>1. rest \in Seq(Nat) /\ rest # << >>
      BY <2>1, <2>4 DEF RsLeaves, Path
    <3> HIDE DEF prefix, rest
    <3>2. path \in Seq(Nat) /\ Len(path) = Len(prefix) + Len(rest)
      BY <1>1, <3>1
    <3>3. Len(path) \in Nat \ {0}
      BY <1>1, <3>1, <3>2, EmptySeq
    <3>4. to(l).to = SplitPath(path)
      BY <2>4 DEF prefix, rest
    <3> HIDE DEF path, to
    <3>5. Front(path) \in Seq(Nat) /\ Last(path) \in Nat
      <4>1. path # << >>
        BY <3>3
      <4> QED
        BY <3>2, <4>1, FrontIsSeq
    <3>6. SplitPath(path) \in [module : Seq(Nat), name : Nat]
      BY <3>2, <3>5 DEF SplitPath, RsMember, All
    <3> QED
      BY <3>4, <3>6
  <2>5. l.form \in {"self", "glob", "name"}
    BY <2>1 DEF RsLeaves
  <2> QED
    BY <2>2, <2>3, <2>4, <2>5
<1>6. ASSUME NEW u \in Leaves(s) PROVE u.to \in [module : Seq(Nat), name : Nat]
  <2>1. PICK l \in said : u = leaf[l]
    BY <1>2
  <2>2. l \in ToSet(s.leaves) /\ u = to(l)
    BY <2>1
  <2> HIDE DEF to
  <2> QED
    BY <1>5, <2>2
<1> QED
  BY <1>4, <1>6

(* A `use` of one name.                                                     *)
LEMMA TheOneLeaf ==
  ASSUME NEW s \in RsStatements, s.is = "usetree", IsSimple(s)
  PROVE  \E leaf : Leaves(s) = {leaf} /\ Used(s) = leaf.to
<1>1. IsFiniteSet(Leaves(s)) /\ Cardinality(Leaves(s)) = 1
  BY LeavesAreNamed DEF IsSimple
<1>2. PICK leaf : Leaves(s) = {leaf}
  BY <1>1, FS_Singleton
<1>3. (CHOOSE x \in {leaf} : TRUE) = leaf
  OBVIOUS
<1>4. Used(s) = leaf.to
  BY <1>2, <1>3 DEF Used
<1> QED
  BY <1>2, <1>4

(* Rust: where a path in a file leads.                                      *)
RsGoal(f, to) == RsTargetOf(IRs, Absolutize(f, to.module), to.name)

(* A line with a `use` of one name leads where that name does.              *)
LEMMA RsTargetsAt ==
  ASSUME AdaptersInv, language = "rust", NEW f \in RsFiles, NEW i \in Written(f, {"usetree"}),
         IsSimple(sources[f][i])
  PROVE  TargetsAt(f, i) = {RsGoal(f, Used(sources[f][i]))} \ {NONE}
<1> DEFINE s == sources[f][i]
           to == RsGoal(f, Used(s))
<1>1. RsRead(f) = sources[f] /\ i \in DOMAIN sources[f] /\ s.is = "usetree" /\ s \in RsStatements
  <2>1. RsRead(f) = sources[f] /\ i \in DOMAIN sources[f] /\ s.is = "usetree"
    BY DEF Written, IsLookedInto, RsRead, Read
  <2>2. RsRead(f) \in Seq(RsStatements)
    BY RsShape
  <2> QED
    BY <2>1, <2>2
<1>2. PICK leaf : Leaves(s) = {leaf} /\ Used(s) = leaf.to
  <2> HIDE DEF s
  <2> QED
    BY <1>1, TheOneLeaf DEF s
<1>3. \A q : q.to = leaf.to => RsTarget(IRs, f, q) = to
  BY <1>2 DEF RsTarget, RsGoal
<1> HIDE DEF to
<1>4. \A r \in EdgesAt(f, i) : r.to = to /\ to # NONE
  <2>1. ASSUME NEW r \in index[f].relationships, r.line = i PROVE r.to = to /\ to # NONE
    <3>1. PICK q \in IRs[f].relationships :
            r.line = q.line /\ (q.kind = "Imports" => r.to = RsTarget(IRs, f, q) /\ r.to # NONE)
      BY RsResolvedParts
    <3>2. q.kind = "Imports"
      BY <1>1, <2>1, <3>1, RsLineOf
    <3>3. \E l \in Leaves(RsRead(f)[q.line]) : q.to = l.to
      BY <3>2, RsLineOf
    <3>4. q.to = leaf.to
      BY <1>1, <1>2, <2>1, <3>1, <3>3
    <3> QED
      BY <1>3, <3>1, <3>2, <3>4
  <2> QED
    BY <2>1 DEF EdgesAt
<1>5. to # NONE => EdgesAt(f, i) # {}
  <2> SUFFICES ASSUME to # NONE PROVE EdgesAt(f, i) # {}
    OBVIOUS
  <2>1. PICK q \in IRs[f].relationships : q.kind = "Imports" /\ q.line = i /\ q.to = leaf.to
    BY <1>1, <1>2, RsLineOf
  <2>2. /\ q.from = ModuleSymbol(f) /\ q.to.name \in Nat
        /\ DOMAIN q = {"from", "to", "kind", "alias", "line"}
    BY <2>1, RsRelationships
  <2>3. RsTarget(IRs, f, q) = to /\ IsTarget(to)
    BY <1>3, <2>1, <2>2, RsTargetIsTarget
  <2> DEFINE e == [q EXCEPT !.to = to]
  <2>4. e \in index[f].relationships
    BY <2>1, <2>3, RsResolution
  <2>5. e.from = q.from /\ e.to = to /\ e.line = i
    BY <2>1, <2>2
  <2> HIDE DEF e
  <2>6. q.from \in index[f].symbols
    BY <2>2, RsShape, RsResolution
  <2> QED
    BY <2>3, <2>4, <2>5, <2>6, RsSymbolsOfAll, AnEdge DEF IsTarget
<1>6. TargetsAt(f, i) = {to} \ {NONE}
  BY <1>4, <1>5 DEF TargetsAt
<1> QED
  BY <1>6 DEF to

(* What a name is imported as in Rust is the next of its chain.            *)
LEMMA RsNextName ==
  ASSUME AdaptersInv, language = "rust", NEW f \in RsFiles, NEW r \in IRs[f].relationships, r.kind = "Imports",
         NEW name, name = (IF r.alias = NONE THEN r.to.name ELSE r.alias)
  PROVE  <<f, name>> \in Passed /\ <<<<f, name>>, <<RsFileOf(Absolutize(f, r.to.module)), r.to.name>>>> \in Steps
<1> DEFINE rels == IRs[f].relationships
           step(q) == <<<<f, KnownAs(q)>>, <<RsFileOf(Absolutize(f, q.to.module)), q.to.name>>>>
<1>1. DOMAIN sources = RsFiles /\ rels = Extract(language, f, sources[f]).relationships
  <2>1. FilesOf(language) = RsFiles
    BY DEF FilesOf
  <2> QED
    BY <2>1, Analysed
<1>2. NextNames(f) = {step(q) : q \in {q \in rels : q.kind = "Imports"}}
  BY <1>1 DEF NextNames
<1>3. step(r) \in NextNames(f)
  <2> HIDE DEF step
  <2> QED
    BY <1>2
<1>4. step(r) = <<<<f, name>>, <<RsFileOf(Absolutize(f, r.to.module)), r.to.name>>>>
  BY DEF KnownAs
<1> HIDE DEF step
<1>5. step(r) \in Steps
  BY <1>1, <1>3 DEF Steps
<1>6. step(r)[1] \in Passed
  BY <1>5 DEF Passed
<1> QED
  BY <1>4, <1>5, <1>6

(* What a name is imported as, and by which of the imports.                 *)
LEMMA RsImportOfIsImport ==
  ASSUME AdaptersInv, language = "rust", NEW f \in RsFiles, NEW name
  PROVE  \/ /\ RsImportOf(IRs, f, name) = NONE
            /\ \A r \in IRs[f].relationships : r.kind = "Imports" =>
                 (IF r.alias = NONE THEN r.to.name ELSE r.alias) # name
         \/ \E r \in IRs[f].relationships :
              /\ r.kind = "Imports" /\ (IF r.alias = NONE THEN r.to.name ELSE r.alias) = name
              /\ RsImportOf(IRs, f, name) = r.to
<1> DEFINE of == {r \in IRs[f].relationships :
                    r.kind = "Imports" /\ (IF r.alias = NONE THEN r.to.name ELSE r.alias) = name}
<1>1. RsImportOf(IRs, f, name) = IF of = {} THEN NONE ELSE Latest(of).to
  BY DEF RsImportOf
<1>2. \A r \in of : r \in IRs[f].relationships /\ r.kind = "Imports"
  OBVIOUS
<1>3. of # {} => Latest(of) \in of
  <2> HIDE DEF of
  <2> QED
    BY <1>2, RsLatestImport
<1>4. CASE of = {}
  BY <1>1, <1>4
<1>5. CASE of # {}
  <2>1. Latest(of) \in of /\ RsImportOf(IRs, f, name) = Latest(of).to
    BY <1>1, <1>3, <1>5
  <2> DEFINE r == Latest(of)
  <2> HIDE DEF r
  <2>2. r \in of /\ RsImportOf(IRs, f, name) = r.to
    BY <2>1 DEF r
  <2> QED
    BY <2>2
<1> QED
  BY <1>4, <1>5

(* A name that a file takes with `use` from another, where it is found, is  *)
(* found.                                                                   *)
LEMMA RsFoundOnceMore ==
  ASSUME AdaptersInv, language = "rust",
         NEW g \in RsFiles, NEW name \in Nat, IsShort(g, name), ByName(IRs[g].order, name) = NONE,
         NEW import, RsImportOf(IRs, g, name) = import, import # NONE,
         NEW h, h = RsFileOf(Absolutize(g, import.module)), h # NONE, h # g,
         NEW s, s # NONE, s = RsLookup(IRs)[<<h, import.name, 0>>]
  PROVE  RsLookup(IRs)[<<g, name, 0>>] = s
<1> DEFINE imports == [p \in RsFiles \X Nat |-> RsLeads(p[1], RsImportOf(IRs, p[1], p[2]))]
<1>1. RsLookup(IRs) = Imported(IRs, imports, MaxPubUses)
  BY DEF RsLookup
<1>2. \A f \in RsFiles : \A n \in Nat : imports[<<f, n>>] = RsLeads(f, RsImportOf(IRs, f, n))
  OBVIOUS
<1> HIDE DEF imports
<1>3. ASSUME NEW f \in RsFiles, NEW n \in Nat
      PROVE  /\ \/ imports[<<f, n>>] = NONE
                \/ imports[<<f, n>>].file \in {NONE} \union RsFiles /\ imports[<<f, n>>].name \in Nat
             /\ imports[<<f, n>>] # NONE =>
                  /\ <<f, n>> \in Passed
                  /\ <<<<f, n>>, <<imports[<<f, n>>].file, imports[<<f, n>>].name>>>> \in Steps
  <2>1. CASE RsImportOf(IRs, f, n) = NONE
    BY <1>2, <2>1 DEF RsLeads
  <2>2. CASE RsImportOf(IRs, f, n) # NONE
    <3>1. PICK r \in IRs[f].relationships :
            /\ r.kind = "Imports" /\ (IF r.alias = NONE THEN r.to.name ELSE r.alias) = n
            /\ RsImportOf(IRs, f, n) = r.to
      BY <2>2, RsImportOfIsImport
    <3>2. r.to.name \in Nat
      BY <3>1, RsRelationships
    <3>3. <<f, n>> \in Passed /\ <<<<f, n>>, <<RsFileOf(Absolutize(f, r.to.module)), r.to.name>>>> \in Steps
      BY <3>1, RsNextName
    <3>4. imports[<<f, n>>] = Import(RsFileOf(Absolutize(f, r.to.module)), r.to.name)
      BY <1>2, <2>2, <3>1 DEF RsLeads
    <3> QED
      BY <3>2, <3>3, <3>4, RsFileOfIsFile DEF Import
  <2> QED
    BY <2>1, <2>2
<1>4. ImportsLead(imports, RsFiles)
  BY <1>3 DEF ImportsLead
<1>5. AreSteps(imports, RsFiles)
  BY <1>3 DEF AreSteps
<1>6. imports[<<g, name>>] = Import(h, import.name)
  BY <1>2 DEF RsLeads
<1>7. /\ imports[<<g, name>>].file = h /\ imports[<<g, name>>].name = import.name
      /\ h \in RsFiles
  BY <1>6, RsFileOfIsFile DEF Import
<1>8. imports[<<g, name>>] # NONE
  <2>1. PICK r \in IRs[g].relationships : r.kind = "Imports" /\ import = r.to
    BY RsImportOfIsImport
  <2>2. import.name \in Nat
    BY <2>1, RsRelationships
  <2>3. imports[<<g, name>>] \in [file : Nat, name : Nat]
    BY <1>6, <1>7, <2>2, FilesAssumption DEF Import
  <2> QED
    BY <2>3, FilesAssumption
<1>9. DOMAIN IRs = RsFiles
  BY RsShape
<1>10. PICK K : IsFiniteSet(K) /\ Cardinality(K) <= Limit /\ <<g, name>> \in K /\ IsClosed(K)
  BY ShortChains
<1>11. LeadWithin(imports, RsFiles, K) /\ Limit = MaxPubUses /\ MaxPubUses \in Nat
  BY <1>4, <1>5, <1>10, ClosedLeadWithin, FilesAssumption DEF Limit
<1> DEFINE file == imports[<<g, name>>].file
           called == imports[<<g, name>>].name
<1>12. s = Imported(IRs, imports, MaxPubUses)[<<file, called, 0>>] /\ file \notin {NONE, g}
  BY <1>1, <1>7
<1>13. Imported(IRs, imports, MaxPubUses)[<<g, name, 0>>] = s
  BY <1>4, <1>8, <1>9, <1>10, <1>11, <1>12, ImportedOnceMore
<1> QED
  BY <1>1, <1>13

(* What a path leads to that is neither a package nor a module is what its  *)
(* name is in the file of its module.                                       *)
LEMMA RsSymbolIsFound ==
  ASSUME NEW f, NEW to, NEW t, t = RsGoal(f, to), t # NONE, IsSymbol(t), t.kind # "module"
  PROVE  LET h == RsFileOf(Absolutize(f, to.module))
         IN  h # NONE /\ to.name # All /\ t = RsLookup(IRs)[<<h, to.name, 0>>]
<1> DEFINE h == RsFileOf(Absolutize(f, to.module))
           namespace == Absolutize(f, to.module).namespace
           found == RsLookup(IRs)[<<h, to.name, 0>>]
<1>1. t = IF h = NONE THEN NowhereIn(namespace)
          ELSE IF to.name = All \/ found = NONE THEN ModuleSymbol(h) ELSE found
  BY DEF RsGoal, RsTargetOf, RsTargetIn, OrModule
<1>2. NowhereIn(namespace) = NONE \/ ~IsSymbol(NowhereIn(namespace))
  BY DEF NowhereIn, PackageNode, IsSymbol
<1>3. ModuleSymbol(h).kind = "module"
  BY DEF ModuleSymbol
<1> HIDE DEF h, namespace, found
<1>4. h # NONE /\ to.name # All /\ t = found
  BY <1>1, <1>2, <1>3
<1> QED
  BY <1>4 DEF h, found

(* In Rust a name that is only passed on is what it is passed on as.        *)
LEMMA RsTransparent ==
  ASSUME AdaptersInv, language = "rust",
         NEW f \in DOMAIN sources, NEW i \in Written(f, {"import", "usetree"})
  PROVE  IsTransparent(f, i)
<1> DEFINE s == sources[f][i]
           g == TakenFrom(f, s)[1]
           name == TakenFrom(f, s)[2]
<1> SUFFICES ASSUME g \in DOMAIN sources, \A t \in index[g].symbols : t.name # name, IsShort(g, name),
                    \A k \in LinesOf(g, name) : PassesOn(g, sources[g][k]),
                    NEW j \in LinesOf(g, name),
                    \A k \in LinesOf(g, name) : TargetsAt(g, k) = TargetsAt(g, j),
                    \E t \in TargetsAt(g, j) : IsSymbol(t) /\ t.kind # "module"
             PROVE  TargetsAt(f, i) = TargetsAt(g, j)
  BY DEF IsTransparent
<1>1. /\ DOMAIN sources = RsFiles /\ NONE \notin RsFiles
      /\ \A e \in RsFiles : \A k \in Written(e, {"import", "reexport", "usetree"}) :
           /\ e \notin RsGenerated /\ k \in Written(e, {"usetree"}) /\ k \in Written(e, {"import", "usetree"})
           /\ sources[e][k].is = "usetree" /\ sources[e][k] \in RsStatements
           /\ RsRead(e) = sources[e] /\ k \in DOMAIN sources[e]
  <2>1. DOMAIN sources = RsFiles /\ RsFiles \subseteq Nat /\ \A e \in RsFiles : RsRead(e) \in Seq(RsStatements)
    BY RsShape
  <2>2. ASSUME NEW e \in RsFiles, NEW k \in Written(e, {"import", "reexport", "usetree"})
        PROVE  /\ e \notin RsGenerated /\ k \in Written(e, {"usetree"}) /\ k \in Written(e, {"import", "usetree"})
               /\ sources[e][k].is = "usetree" /\ sources[e][k] \in RsStatements
               /\ RsRead(e) = sources[e] /\ k \in DOMAIN sources[e]
    <3>1. /\ e \notin RsGenerated /\ k \in DOMAIN sources[e]
          /\ sources[e][k].is \in {"import", "reexport", "usetree"}
      BY DEF Written, IsLookedInto
    <3>2. RsRead(e) = sources[e]
      BY <3>1 DEF RsRead, Read
    <3>3. sources[e][k] \in RsStatements
      BY <2>1, <3>1, <3>2
    <3>4. sources[e][k].is = "usetree"
      BY <3>1, <3>3 DEF RsStatements, SharedStatements
    <3> QED
      BY <3>1, <3>2, <3>3, <3>4 DEF Written
  <2> QED
    BY <2>1, <2>2, FilesAssumption
<1>2. i \in Written(f, {"usetree"}) /\ s.is = "usetree" /\ s \in RsStatements /\ f \in RsFiles
  <2>1. i \in Written(f, {"import", "reexport", "usetree"}) /\ f \in RsFiles
    BY <1>1 DEF Written
  <2> QED
    BY <1>1, <2>1
<1>3. /\ IsSimple(s) /\ Used(s).name # All /\ g = RsFileOf(Absolutize(f, Used(s).module)) /\ name = Used(s).name
      /\ g \in RsFiles /\ g # NONE
  <2>1. g # NONE /\ g \in RsFiles
    BY <1>1
  <2>2. TakenFrom(f, s) = IF IsSimple(s) /\ Used(s).name # All
                          THEN <<RsFileOf(Absolutize(f, Used(s).module)), Used(s).name>> ELSE <<NONE, NONE>>
    BY <1>2 DEF TakenFrom
  <2> QED
    BY <2>1, <2>2
<1>4. name \in Nat
  <2>1. PICK leaf : Leaves(s) = {leaf} /\ Used(s) = leaf.to
    <3> HIDE DEF s
    <3> QED
      BY <1>2, <1>3, TheOneLeaf
  <2>2. leaf \in Leaves(s) => leaf.to.name \in Nat
    <3> HIDE DEF s
    <3> QED
      BY <1>2, LeavesHaveNames
  <2> QED
    BY <1>3, <2>1, <2>2
<1> HIDE DEF g, name
<1>5. g \notin RsGenerated /\ LinesOf(g, name) = ImportsOf(g, name)
  <2>1. g \notin RsGenerated
    BY <1>1, <1>3 DEF LinesOf
  <2>2. \A k \in Written(g, {"import", "reexport", "usetree"}) : NamesIn(g, sources[g][k]) = LocalNames(g, sources[g][k])
    BY DEF NamesIn
  <2>3. Written(g, {"import", "reexport", "usetree"}) = Written(g, {"import", "usetree"})
    <3>1. \A k \in Written(g, {"import", "reexport", "usetree"}) : k \in Written(g, {"import", "usetree"})
      BY <1>1, <1>3
    <3>2. Written(g, {"import", "usetree"}) \subseteq Written(g, {"import", "reexport", "usetree"})
      BY DEF Written
    <3> QED
      BY <3>1, <3>2
  <2> QED
    BY <2>1, <2>2, <2>3 DEF LinesOf, ImportsOf
<1>6. ASSUME NEW k \in LinesOf(g, name)
      PROVE  /\ k \in Written(g, {"usetree"}) /\ k \in DOMAIN sources[g] /\ sources[g][k].is = "usetree"
             /\ sources[g][k] \in RsStatements
             /\ IsSimple(sources[g][k]) /\ Used(sources[g][k]).name # All
             /\ RsFileOf(Absolutize(g, Used(sources[g][k]).module)) \notin {NONE, g}
             /\ TargetsAt(g, k) = {RsGoal(g, Used(sources[g][k]))} \ {NONE}
  <2> DEFINE u == sources[g][k]
  <2>1. k \in Written(g, {"usetree"}) /\ u.is = "usetree" /\ u \in RsStatements /\ k \in DOMAIN sources[g]
    BY <1>1, <1>3 DEF LinesOf
  <2>2. TakenFrom(g, u) = IF IsSimple(u) /\ Used(u).name # All
                          THEN <<RsFileOf(Absolutize(g, Used(u).module)), Used(u).name>> ELSE <<NONE, NONE>>
    BY <2>1 DEF TakenFrom
  <2>3. TakenFrom(g, u)[1] \notin {NONE, g}
    BY <2>1 DEF PassesOn
  <2>4. /\ IsSimple(u) /\ Used(u).name # All /\ RsFileOf(Absolutize(g, Used(u).module)) \notin {NONE, g}
    BY <2>2, <2>3
  <2> QED
    BY <1>3, <2>1, <2>4, RsTargetsAt
<1> DEFINE t == RsGoal(g, Used(sources[g][j]))
<1>7. TargetsAt(g, j) = {t} /\ t # NONE /\ IsSymbol(t) /\ t.kind # "module"
  <2>1. TargetsAt(g, j) = {t} \ {NONE}
    BY <1>6
  <2> HIDE DEF t
  <2> QED
    BY <2>1
<1>8. ASSUME NEW k \in LinesOf(g, name) PROVE RsGoal(g, Used(sources[g][k])) = t
  <2>1. TargetsAt(g, k) = {RsGoal(g, Used(sources[g][k]))} \ {NONE} /\ TargetsAt(g, k) = {t}
    BY <1>6, <1>7
  <2> HIDE DEF t
  <2> QED
    BY <2>1
<1> HIDE DEF t
<1>9. ByName(IRs[g].order, name) = NONE
  <2>1. /\ RsRead(g) \in Seq(RsStatements) /\ IRs[g].order = InOrder(g, RsRead(g))
        /\ IRs[g].symbols = {ModuleSymbol(g)} \union Declared(g, RsRead(g))
    BY <1>3, RsShape
  <2>2. index[g].symbols = IRs[g].symbols
    BY <1>3, RsResolution
  <2> DEFINE own == ByName(IRs[g].order, name)
  <2>3. own \in {NONE} \union Declared(g, RsRead(g)) /\ (own # NONE => own.name = name)
    BY <2>1, NameOfTheOrder, NameOfTheOrderIsNamed
  <2> HIDE DEF own
  <2>4. own = NONE
    BY <2>1, <2>2, <2>3
  <2> QED
    BY <2>4 DEF own
<1>10. PICK q \in IRs[g].relationships :
         /\ q.kind = "Imports" /\ (IF q.alias = NONE THEN q.to.name ELSE q.alias) = name
         /\ RsImportOf(IRs, g, name) = q.to
  <2> DEFINE u == sources[g][j]
  <2>1. PICK leaf : Leaves(u) = {leaf} /\ Used(u) = leaf.to
    <3>1. u \in RsStatements /\ u.is = "usetree" /\ IsSimple(u)
      BY <1>6
    <3> HIDE DEF u
    <3> QED
      BY <3>1, TheOneLeaf
  <2>2. name \in RsNames(u) /\ j \in DOMAIN sources[g] /\ u.is = "usetree" /\ RsRead(g) = sources[g]
    <3>1. name \in RsNames(u) /\ j \in DOMAIN sources[g] /\ u.is = "usetree"
      BY <1>3, <1>5, RsImportsOf
    <3> QED
      BY <1>5, <3>1 DEF RsRead, Read
  <2>3. RsLocalName(leaf) = name /\ leaf.to.name # All
    BY <1>6, <2>1, <2>2 DEF RsNames
  <2>4. (IF leaf.alias = NONE THEN leaf.to.name ELSE leaf.alias) = name
    BY <2>3 DEF RsLocalName
  <2>5. PICK r \in IRs[g].relationships : r.kind = "Imports" /\ r.to = leaf.to /\ r.alias = leaf.alias
    BY <1>3, <2>1, <2>2, RsLineOf
  <2> QED
    BY <1>3, <2>4, <2>5, RsImportOfIsImport
<1>11. /\ Leaves(RsRead(g)[q.line]) # {} /\ q.line \in DOMAIN RsRead(g) /\ RsRead(g)[q.line].is = "usetree"
       /\ \E leaf \in Leaves(RsRead(g)[q.line]) : q.to = leaf.to /\ q.alias = leaf.alias
  BY <1>3, <1>10, RsLineOf
<1> DEFINE k == q.line
           u == sources[g][k]
<1>12. RsRead(g) = sources[g] /\ k \in DOMAIN sources[g] /\ u.is = "usetree" /\ u \in RsStatements
  <2>1. RsRead(g) = sources[g]
    BY <1>5 DEF RsRead, Read
  <2>2. RsRead(g) \in Seq(RsStatements)
    BY <1>3, RsShape
  <2> QED
    BY <1>11, <2>1, <2>2
<1>13. PICK leaf \in Leaves(u) : q.to = leaf.to /\ q.alias = leaf.alias
  BY <1>11, <1>12
<1> HIDE DEF u
<1>14. leaf.to \in [module : Seq(Nat), name : Nat]
  BY <1>12, <1>13, LeavesAreNamed
<1>15. k \in LinesOf(g, name)
  <2>1. name # All
    BY <1>3
  <2>2. RsLocalName(leaf) = name
    BY <1>10, <1>13, <2>1 DEF RsLocalName
  <2>3. name \in RsNames(u)
    BY <1>13, <2>2 DEF RsNames
  <2>4. k \in ImportsOf(g, name)
    BY <1>3, <1>5, <1>12, <2>3, RsImportsOf DEF u
  <2> QED
    BY <1>5, <2>4
<1>16. Used(u) = q.to
  <2>1. IsSimple(u)
    BY <1>6, <1>15 DEF u
  <2>2. PICK l : Leaves(u) = {l} /\ Used(u) = l.to
    BY <1>12, <2>1, TheOneLeaf
  <2>3. l = leaf
    BY <1>13, <2>2
  <2> QED
    BY <1>13, <2>2, <2>3
<1> DEFINE import == q.to
           h == RsFileOf(Absolutize(g, import.module))
<1>17. t = RsGoal(g, import) /\ h \notin {NONE, g}
  BY <1>6, <1>8, <1>15, <1>16 DEF u
<1>18. t = RsLookup(IRs)[<<h, import.name, 0>>]
  <2> HIDE DEF import
  <2> QED
    BY <1>7, <1>17, RsSymbolIsFound
<1>19. import # NONE /\ RsImportOf(IRs, g, name) = import
  BY <1>10, <1>13, <1>14, FilesAssumption
<1>20. RsLookup(IRs)[<<g, name, 0>>] = t
  <2> HIDE DEF import, h
  <2>1. h = RsFileOf(Absolutize(g, import.module)) /\ h # NONE /\ h # g
    BY <1>17 DEF h
  <2> QED
    BY <1>3, <1>4, <1>7, <1>9, <1>18, <1>19, <2>1, RsFoundOnceMore
<1>21. RsGoal(f, Used(s)) = t
  <2> HIDE DEF s
  <2> QED
    BY <1>3, <1>7, <1>20 DEF RsGoal, RsTargetOf, RsTargetIn, OrModule
<1>22. TargetsAt(f, i) = {t} \ {NONE}
  BY <1>2, <1>3, <1>21, RsTargetsAt
<1> QED
  BY <1>7, <1>22

-----------------------------------------------------------------------------
(* Some files are all that pass a name on to others, but for files that     *)
(* pass it on no further.                                                   *)
PassWithin(P, to, R) == \A x \in R : to[x] \in P => to[x] \in R \/ to[to[x]] = NONE

(* A file more among those one has come to changes nothing of what one      *)
(* finds, if the name is passed on to it from one that is there already.    *)
LEMMA FoundWithoutIt ==
  ASSUME NEW P, IsFiniteSet(P), NONE \notin P, NEW F, NEW limit \in Nat, NEW own, NEW to,
         Visits(F, P, limit, own, to), \A x \in P : to[x] \in {NONE} \union P,
         NEW R \in SUBSET P, Cardinality(R) <= limit, PassWithin(P, to, R),
         NEW g \in R, own[g] = NONE, to[g] \in P
  PROVE  \A x \in P : \A V \in SUBSET P :
           /\ to[g] \in V /\ g \notin V /\ V \subseteq R \union {x} /\ (x \in R \/ to[x] = NONE)
           /\ F[<<x, V>>] # NONE
           => F[<<x, V \union {g}>>] = F[<<x, V>>]
<1> DEFINE n == Cardinality(P)
           Reached(x, V) == to[g] \in V /\ g \notin V /\ V \subseteq R \union {x} /\ (x \in R \/ to[x] = NONE)
           Kept(x, V) == Reached(x, V) /\ F[<<x, V>>] # NONE => F[<<x, V \union {g}>>] = F[<<x, V>>]
           Q == {k \in 0 .. n : \A x \in P : \A V \in SUBSET P : n - Cardinality(V) = k => Kept(x, V)}
<1>1. n \in Nat
  BY FS_CardinalityType
<1>2. \A V \in SUBSET P : IsFiniteSet(V) /\ Cardinality(V) \in Nat /\ Cardinality(V) <= n
  <2>1. ASSUME NEW V \in SUBSET P PROVE IsFiniteSet(V) /\ Cardinality(V) \in Nat /\ Cardinality(V) <= n
    BY FS_Subset, FS_CardinalityType
  <2> QED
    BY <2>1
<1>3. \A V \in SUBSET P : g \notin V => Cardinality(V) # n
  <2>1. ASSUME NEW V \in SUBSET P, g \notin V, Cardinality(V) = n PROVE FALSE
    <3>1. V = P
      BY <2>1, FS_Subset
    <3> QED
      BY <2>1, <3>1
  <2> QED
    BY <2>1
<1>4. ASSUME NEW x \in P, NEW V \in SUBSET P PROVE ComesTo(F, limit, own, to, x, V)
  BY DEF Visits
<1>5. 0 \in Q
  <2>1. ASSUME NEW x \in P, NEW V \in SUBSET P, n - Cardinality(V) = 0 PROVE Kept(x, V)
    BY <1>1, <1>2, <1>3, <2>1
  <2> HIDE DEF Kept
  <2> QED
    BY <1>1, <2>1
<1>6. ASSUME NEW k \in 1 .. n, k - 1 \in Q PROVE k \in Q
  <2>1. ASSUME NEW x \in P, NEW V \in SUBSET P, n - Cardinality(V) = k, Reached(x, V), F[<<x, V>>] # NONE
        PROVE  F[<<x, V \union {g}>>] = F[<<x, V>>]
    <3> DEFINE y == to[x]
               W == V \union {g}
    <3>1. /\ y \notin {NONE} \union V /\ y \in P
          /\ F[<<x, V>>] = IF own[y] # NONE THEN own[y] ELSE F[<<y, V \union {y}>>]
      BY <1>4, <2>1 DEF ComesTo
    <3>2. W \in SUBSET P /\ W \subseteq R /\ x \in R
      BY <2>1, <3>1
    <3>3. ~(Cardinality(W) > limit)
      <4> HIDE DEF W
      <4>1. IsFiniteSet(R) /\ Cardinality(R) \in Nat
        BY <1>2
      <4>2. Cardinality(W) <= Cardinality(R) /\ Cardinality(W) \in Nat
        BY <1>2, <3>2, <4>1, FS_Subset
      <4> QED
        BY <4>1, <4>2
    <3>4. ASSUME y = g PROVE FALSE
      <4>1. F[<<x, V>>] = F[<<g, W>>]
        BY <3>1, <3>4
      <4>2. F[<<g, W>>] = NONE
        <5>1. to[g] \in {NONE} \union W
          BY <2>1
        <5>2. ComesTo(F, limit, own, to, g, W)
          BY <1>4, <3>2
        <5> HIDE DEF W
        <5> QED
          BY <5>1, <5>2 DEF ComesTo
      <4> QED
        BY <2>1, <4>1, <4>2
    <3>5. y \notin {NONE} \union W
      BY <3>1, <3>4
    <3>6. F[<<x, W>>] = IF own[y] # NONE THEN own[y] ELSE F[<<y, W \union {y}>>]
      <4>1. ComesTo(F, limit, own, to, x, W)
        BY <1>4, <3>2
      <4> HIDE DEF W
      <4> QED
        BY <3>3, <3>5, <4>1 DEF ComesTo
    <3>7. ASSUME own[y] = NONE PROVE F[<<y, W \union {y}>>] = F[<<y, V \union {y}>>]
      <4> DEFINE U == V \union {y}
      <4>1. U \in SUBSET P /\ W \union {y} = U \union {g} /\ Reached(y, U)
        <5>1. y \in R \/ to[y] = NONE
          BY <3>1, <3>2 DEF PassWithin
        <5> QED
          BY <2>1, <3>1, <3>2, <3>4, <5>1
      <4>2. n - Cardinality(U) = k - 1
        <5>1. Cardinality(U) = Cardinality(V) + 1
          BY <1>2, <2>1, <3>1, FS_AddElement
        <5> QED
          BY <1>1, <1>2, <2>1, <5>1
      <4>3. F[<<y, U>>] # NONE
        BY <2>1, <3>1, <3>7
      <4> HIDE DEF U, W, y, Reached
      <4>4. Kept(y, U)
        <5> HIDE DEF Kept
        <5> QED
          BY <1>6, <3>1, <4>1, <4>2
      <4> QED
        BY <4>1, <4>3, <4>4 DEF U
    <3> HIDE DEF W, y
    <3> QED
      BY <3>1, <3>6, <3>7 DEF W
  <2>2. ASSUME NEW x \in P, NEW V \in SUBSET P, n - Cardinality(V) = k PROVE Kept(x, V)
    <3> HIDE DEF Reached
    <3> QED
      BY <2>1, <2>2
  <2> HIDE DEF Kept
  <2> QED
    BY <2>2
<1> HIDE DEF Q
<1>7. \A k \in 0 .. n : k \in Q
  BY <1>1, <1>5, <1>6, UpTo
<1>8. ASSUME NEW x \in P, NEW V \in SUBSET P PROVE Kept(x, V)
  <2>1. n - Cardinality(V) \in 0 .. n
    BY <1>1, <1>2
  <2> HIDE DEF Kept
  <2> QED
    BY <1>7, <2>1 DEF Q
<1> QED
  BY <1>8

(* What is found in a file to which the name is passed on from another is   *)
(* found from that other, where no chain is cut short.                      *)
LEMMA OneFileMore ==
  ASSUME NEW P, IsFiniteSet(P), NONE \notin P, NEW F, NEW limit \in Nat, NEW own, NEW to,
         Visits(F, P, limit, own, to), \A x \in P : to[x] \in {NONE} \union P,
         NEW R \in SUBSET P, Cardinality(R) <= limit, PassWithin(P, to, R),
         NEW g \in R, own[g] = NONE, to[g] \in P, to[g] # g
  PROVE  LET h == to[g]
             found == IF own[h] # NONE THEN own[h] ELSE F[<<h, {h}>>]
         IN  found # NONE => F[<<g, {g}>>] = found
<1> DEFINE h == to[g]
           V == {h}
           W == {g, h}
<1>1. ComesTo(F, limit, own, to, g, {g})
  BY DEF Visits
<1>2. ~(Cardinality({g}) > limit)
  <2>1. IsFiniteSet(R)
    BY FS_Subset
  <2>2. Cardinality({g}) <= Cardinality(R) /\ Cardinality(R) \in Nat /\ Cardinality({g}) \in Nat
    BY <2>1, FS_Subset, FS_CardinalityType
  <2> QED
    BY <2>2
<1>3. F[<<g, {g}>>] = IF own[h] # NONE THEN own[h] ELSE F[<<h, W>>]
  <2>1. h \notin {NONE} \union {g} /\ {g} \union {h} = W
    OBVIOUS
  <2> QED
    BY <1>1, <1>2, <2>1 DEF ComesTo
<1>4. ASSUME F[<<h, V>>] # NONE PROVE F[<<h, W>>] = F[<<h, V>>]
  <2>1. /\ V \in SUBSET P /\ to[g] \in V /\ g \notin V /\ h \in P /\ W = V \union {g} /\ V \subseteq R \union {h}
    OBVIOUS
  <2>2. h \in R \/ to[h] = NONE
    BY DEF PassWithin
  <2> HIDE DEF h, V, W
  <2>3. F[<<h, V \union {g}>>] = F[<<h, V>>]
    BY <1>4, <2>1, <2>2, FoundWithoutIt
  <2> QED
    BY <2>1, <2>3
<1> QED
  BY <1>3, <1>4

(* What is extracted of a line that takes something from another file.      *)
TsTakenAt(f, i) ==
  IF TsRead(f)[i].is = "import" THEN TsImportAt(f, i)
  ELSE Ts!Rel(TsPrimary(f), Ts!ImportOf(TsRead(f)[i].spec, TsRead(f)[i].name), "ReExports",
              Ts!AliasOf(TsRead(f)[i].name, TsRead(f)[i].as), i)

(* It is all that is extracted of that line.                                *)
LEMMA TsTakenOnce ==
  ASSUME AdaptersInv, language = "typescript", NEW f \in TsKnown, NEW i \in DOMAIN TsRead(f),
         TsRead(f)[i].is \in {"import", "reexport"}
  PROVE  /\ TsTakenAt(f, i) \in IRs[f].relationships /\ IsRel(TsTakenAt(f, i)) /\ TsTakenAt(f, i).line = i
         /\ TsTakenAt(f, i).to = Ts!ImportOf(TsRead(f)[i].spec, TsRead(f)[i].name)
         /\ TsTakenAt(f, i).kind = "ReExports" => TsRead(f)[i].is = "reexport"
         /\ \A r \in IRs[f].relationships : r.line = i => r = TsTakenAt(f, i)
<1> DEFINE source == TsRead(f)
           taken == TsTakenAt(f, i)
<1>1. /\ source \in Seq(Ts!TsStatements) /\ TsPrimary(f) \in IRs[f].symbols
      /\ IRs[f].symbols = Ts!SymbolsOf(f, source)
      /\ IRs[f].relationships = TsImports(f) \union TsReexports(f) \union TsUses(f) \union Ts!AccessRels(f, source)
  BY TsShape, TsSymbols
<1>2. taken \in TsImports(f) \union TsReexports(f)
  <2>1. CASE source[i].is = "import"
    BY <2>1 DEF TsTakenAt, TsImportAt, TsImports, Ts!StatementsOf
  <2>2. CASE source[i].is = "reexport"
    BY <2>2 DEF TsTakenAt, TsReexports, Ts!StatementsOf
  <2> QED
    BY <2>1, <2>2
<1>3. /\ IsRel(taken) /\ taken.line = i /\ taken.to = Ts!ImportOf(source[i].spec, source[i].name)
      /\ taken.kind = "ReExports" => source[i].is = "reexport"
  BY DEF TsTakenAt, TsImportAt, Ts!Rel, IsRel
<1>4. ASSUME NEW r \in IRs[f].relationships, r.line = i PROVE r = taken
  <2>1. CASE r \in TsImports(f)
    <3>1. PICK j \in Ts!StatementsOf(source, "import") : r = TsImportAt(f, j)
      BY <2>1 DEF TsImports, TsImportAt
    <3>2. j = i /\ source[j].is = "import"
      BY <1>4, <3>1 DEF TsImportAt, Ts!Rel, Ts!StatementsOf
    <3> QED
      BY <3>1, <3>2 DEF TsTakenAt
  <2>2. CASE r \in TsReexports(f)
    <3> DEFINE reexport(j) == Ts!Rel(TsPrimary(f), Ts!ImportOf(source[j].spec, source[j].name), "ReExports",
                                     Ts!AliasOf(source[j].name, source[j].as), j)
    <3>1. PICK j \in Ts!StatementsOf(source, "reexport") : r = reexport(j)
      BY <2>2 DEF TsReexports
    <3>2. j = i /\ source[j].is = "reexport"
      BY <1>4, <3>1 DEF Ts!Rel, Ts!StatementsOf
    <3> QED
      BY <3>1, <3>2 DEF TsTakenAt
  <2>3. r \notin TsUses(f)
    <3>1. ASSUME NEW j \in Ts!StatementsOf(source, "use"),
                 r = Ts!Rel(TsPrimary(f), Ts!TypeNamed(source[j].name), source[j].kind, source[j].name, j)
          PROVE  FALSE
      <4>1. j = i /\ source[j].is = "use"
        BY <1>4, <3>1 DEF Ts!Rel, Ts!StatementsOf
      <4> QED
        BY <4>1
    <3> QED
      BY <3>1 DEF TsUses
  <2>4. r \notin Ts!AccessRels(f, source)
    <3>1. SUFFICES ASSUME r \in Ts!AccessRels(f, source) PROVE FALSE
      OBVIOUS
    <3> HIDE DEF source
    <3>2. Ts!Primary(f, source) \in Ts!SymbolsOf(f, source)
      BY <1>1 DEF TsPrimary, source
    <3>3. PICK from \in Ts!SymbolsOf(f, source), j \in DOMAIN source, type \in Nat :
            r = Ts!Rel(from, Ts!TypeNamed(type), "AccessesProperty", type, j) /\ source[j].is = "access"
      BY <1>1, <3>1, <3>2, AccessParts
    <3>4. j = i
      BY <1>4, <3>3 DEF Ts!Rel
    <3> QED
      BY <3>3, <3>4 DEF source
  <2> QED
    BY <1>1, <1>4, <2>1, <2>2, <2>3, <2>4
<1> QED
  BY <1>1, <1>2, <1>3, <1>4

(* A line that takes a name by a relative specifier leads to what the file  *)
(* that this means has under the name, or nowhere.                          *)
LEMMA TsTargetsAt ==
  ASSUME AdaptersInv, language = "typescript", NEW f \in TsKnown, NEW i \in Written(f, {"import", "reexport"}),
         sources[f][i].spec \in DOMAIN TsRelative,
         sources[f][i].name # Ts!Star
  PROVE  TargetsAt(f, i) = {Ts!Lookup(IRs, Ts!TargetFile(sources[f][i].spec), sources[f][i].name)} \ {NONE}
<1> DEFINE s == sources[f][i]
           r == TsTakenAt(f, i)
           t == Ts!Lookup(IRs, Ts!TargetFile(s.spec), s.name)
           resolved == Ts!ResolveImport(IRs, r)
<1>1. TsRead(f) = sources[f] /\ i \in DOMAIN TsRead(f) /\ s.is \in {"import", "reexport"}
  BY DEF Written, IsLookedInto, TsRead, Read
<1>2. /\ r \in IRs[f].relationships /\ IsRel(r) /\ r.line = i /\ r.to = Ts!ImportOf(s.spec, s.name)
      /\ \A q \in IRs[f].relationships : q.line = i => q = r
  BY <1>1, TsTakenOnce
<1>3. r.to.import = s.spec /\ r.to.name = s.name /\ Ts!IsImport(r.to) /\ ~IsPackage(r.to) /\ ~Ts!IsSymbol(r.to)
  BY <1>2 DEF Ts!ImportOf, Ts!IsImport, Ts!IsSymbol, IsPackage
<1>4. t = NONE \/ TsTarget(t)
  BY TsLookupIsSymbol DEF TsTarget, KnownBy
<1>5. resolved = IF t = NONE THEN {r} ELSE {[r EXCEPT !.to = t]}
  <2> DEFINE h == Ts!TargetFile(s.spec)
  <2>1. resolved = IF h \notin DOMAIN IRs THEN {r} ELSE Ts!Led(r, {Ts!Lookup(IRs, h, s.name)} \ {NONE})
    <3>1. Ts!Destination(s.spec) = h
      BY DEF Ts!Destination
    <3> HIDE DEF r, h
    <3> QED
      BY <1>3, <3>1 DEF Ts!ResolveImport, Ts!LedTo, s
  <2>2. h \notin DOMAIN IRs => t = NONE
    BY DEF Ts!Lookup
  <2>3. t = Ts!Lookup(IRs, h, s.name)
    OBVIOUS
  <2> HIDE DEF t, r, h
  <2>4. Ts!Led(r, {t} \ {NONE}) = IF t = NONE THEN {r} ELSE {[r EXCEPT !.to = t]}
    <3>1. CASE t = NONE
      <4>1. {t} \ {NONE} = {}
        BY <3>1
      <4> QED
        BY <3>1, <4>1 DEF Ts!Led
    <3>2. CASE t # NONE
      <4>1. {t} \ {NONE} = {t}
        BY <3>2
      <4> QED
        BY <3>2, <4>1 DEF Ts!Led
    <3> QED
      BY <3>1, <3>2
  <2> QED
    BY <2>1, <2>2, <2>3, <2>4
<1> HIDE DEF t, r, s
<1>6. ASSUME NEW e \in EdgesAt(f, i) PROVE t # NONE /\ e.to = t
  <2>1. e \in index[f].relationships /\ e.line = i /\ (IsPackage(e.to) \/ e.to \in SymbolsOfAll)
    BY DEF EdgesAt
  <2>2. e \in TsResolved(f)
    <3>1. ASSUME NEW q \in IRs[f].relationships, ~Ts!IsImport(q.to), e = [q EXCEPT !.to = TsMeaning(f, q.to.type)]
          PROVE  FALSE
      <4>1. IsRel(q)
        BY TsRelationships
      <4>2. e.line = q.line
        BY <3>1, <4>1 DEF IsRel
      <4> QED
        BY <1>2, <1>3, <2>1, <3>1, <4>2
    <3> QED
      BY <2>1, <3>1, TsResolution
  <2>3. PICK q \in IRs[f].relationships : Ts!IsImport(q.to) /\ e \in Ts!ResolveImport(IRs, q)
    BY <2>2 DEF TsResolved
  <2>4. e.line = q.line
    <3>1. IsRel(q) /\ (e = q \/ Leads(e, q))
      BY <2>3, TsRelationships, TsImportLeads
    <3> QED
      BY <3>1 DEF Leads, IsRel
  <2>5. q = r
    BY <1>2, <2>1, <2>4
  <2>6. e \in resolved
    BY <2>3, <2>5
  <2>7. e # r
    <3>1. SymbolsOfAll = AllSymbols(IRs)
      BY TsSymbolsOfAll
    <3>2. \A to \in AllSymbols(IRs) : Ts!IsSymbol(to)
      <4>1. ASSUME NEW to \in AllSymbols(IRs) PROVE Ts!IsSymbol(to)
        <5>1. PICK g \in TsKnown : to \in IRs[g].symbols
          BY TsShape DEF AllSymbols
        <5> QED
          BY <5>1, TsSymbols DEF IsTsSymbol, Ts!Sym, Ts!IsSymbol
      <4> QED
        BY <4>1
    <3> QED
      BY <1>3, <2>1, <3>1, <3>2
  <2>8. t # NONE /\ e = [r EXCEPT !.to = t]
    BY <1>5, <2>6, <2>7
  <2> QED
    BY <1>2, <2>8 DEF IsRel
<1>7. ASSUME t # NONE PROVE EdgesAt(f, i) # {}
  <2>1. [r EXCEPT !.to = t] \in index[f].relationships
    <3>1. [r EXCEPT !.to = t] \in resolved
      BY <1>5, <1>7
    <3>2. [r EXCEPT !.to = t] \in TsResolved(f)
      BY <1>2, <1>3, <3>1 DEF TsResolved
    <3> QED
      BY <3>2, TsResolution
  <2>2. EdgesAt(f, r.line) # {}
    BY <1>2, <1>4, <1>7, <2>1, TsAnEdge
  <2> QED
    BY <1>2, <2>2
<1>8. TargetsAt(f, i) = {t} \ {NONE}
  BY <1>6, <1>7 DEF TargetsAt
<1> QED
  BY <1>8 DEF t, s

(* The statement a line of a file is, where the file is looked into.        *)
LEMMA TsWritten ==
  ASSUME AdaptersInv, language = "typescript", NEW f \in TsKnown, NEW i \in Written(f, {"import", "reexport", "usetree"})
  PROVE  /\ TsRead(f) = sources[f] /\ i \in DOMAIN sources[f] /\ i \in Nat
         /\ sources[f][i].is \in {"import", "reexport"} /\ i \in Written(f, {"import", "reexport"})
<1>1. TsRead(f) = sources[f] /\ i \in DOMAIN sources[f] /\ sources[f][i].is \in {"import", "reexport", "usetree"}
  BY DEF Written, IsLookedInto, TsRead, Read
<1>2. sources[f] \in Seq(Ts!TsStatements)
  BY <1>1, TsShape
<1>3. sources[f][i] \in Ts!TsStatements /\ i \in Nat
  BY <1>1, <1>2
<1>4. sources[f][i].is \in {"import", "reexport"}
  BY <1>1, <1>3, TsStatementParts DEF Takes
<1> QED
  BY <1>1, <1>3, <1>4 DEF Written

(* A name is passed on from the file of the first line that exports it.     *)
LEMMA TsPassedFrom ==
  ASSUME AdaptersInv, language = "typescript", NEW g \in TsKnown, NEW name, name # Ts!Star,
         \/ Ts!PassedFrom(IRs[g], name) # NONE
         \/ \E j \in Written(g, {"import", "reexport", "usetree"}) :
              sources[g][j].is = "reexport" /\ sources[g][j].name = name
  PROVE  \E k \in Written(g, {"import", "reexport", "usetree"}) :
           /\ sources[g][k].is = "reexport" /\ sources[g][k].name = name
           /\ Ts!PassedFrom(IRs[g], name) = Ts!TargetFile(sources[g][k].spec)
<1> DEFINE source == TsRead(g)
           exports == Ts!StatementsOf(source, "reexport")
           entry(i) == [name |-> source[i].name, spec |-> source[i].spec, line |-> i]
           entries == {e \in IRs[g].reexports : e.name = name}
           first == CHOOSE e \in entries : \A d \in entries : e.line <= d.line
           lines == {i \in exports : source[i].name = name}
<1>1. source \in Seq(Ts!TsStatements)
  BY TsShape
<1>2. IRs[g].reexports = Ts!ReexportEntries(source)
  <2>1. FilesOf(language) = TsKnown
    BY DEF FilesOf
  <2>2. IRs[g] = Extract(language, g, sources[g])
    BY <2>1, Analysed
  <2>3. IRs[g] = Ts!ExtractTs(g, source)
    BY <2>2 DEF Extract, Ts!TsFileIR, TsRead, Read
  <2> QED
    BY <2>3 DEF Ts!ExtractTs
<1>3. entries = {entry(i) : i \in lines}
  <2>1. IRs[g].reexports = {entry(i) : i \in {i \in exports : source[i].name # Ts!Star}}
    BY <1>2 DEF Ts!ReexportEntries
  <2> QED
    BY <2>1
<1>4. lines # {} /\ IsFiniteSet(lines) /\ lines \subseteq Nat
  <2>1. lines # {}
    <3>1. CASE Ts!PassedFrom(IRs[g], name) # NONE
      <4>1. entries # {}
        BY <3>1 DEF Ts!PassedFrom
      <4> QED
        BY <1>3, <4>1
    <3>2. ASSUME NEW j \in Written(g, {"import", "reexport", "usetree"}),
                 sources[g][j].is = "reexport", sources[g][j].name = name
          PROVE  j \in lines
      <4>1. source = sources[g] /\ j \in DOMAIN source
        BY <3>2, TsWritten
      <4> QED
        BY <3>2, <4>1 DEF Ts!StatementsOf
    <3> QED
      BY <3>1, <3>2
  <2>2. lines \subseteq 1 .. Len(source) /\ Len(source) \in Nat
    BY <1>1 DEF Ts!StatementsOf
  <2> HIDE DEF lines
  <2> QED
    BY <2>1, <2>2, Positions
<1>5. PICK m \in lines : \A i \in lines : m <= i
  <2> HIDE DEF lines
  <2> QED
    BY <1>4, LeastOfFinite
<1>6. \A i \in lines : entry(i).line = i /\ entry(i).spec = source[i].spec
  OBVIOUS
<1>7. entries # {} /\ first \in entries
  <2>1. entry(m) \in entries /\ \A d \in entries : entry(m).line <= d.line
    <3> HIDE DEF lines, entry, entries
    <3> QED
      BY <1>3, <1>5, <1>6
  <2> HIDE DEF entries, entry
  <2>2. \E e \in entries : \A d \in entries : e.line <= d.line
    BY <2>1
  <2> QED
    BY <2>1, <2>2
<1>8. Ts!PassedFrom(IRs[g], name) = Ts!TargetFile(first.spec)
  BY <1>7 DEF Ts!PassedFrom
<1> HIDE DEF first, entries
<1>9. PICK k \in lines : first = entry(k)
  BY <1>3, <1>7
<1>10. first.spec = source[k].spec
  BY <1>9
<1>11. k \in DOMAIN source /\ source[k].is = "reexport" /\ source[k].name = name
  BY <1>9 DEF Ts!StatementsOf
<1>12. g \notin TsMinified /\ source = sources[g]
  BY <1>11 DEF TsRead, Read
<1>13. k \in Written(g, {"import", "reexport", "usetree"})
  BY <1>11, <1>12 DEF Written, IsLookedInto
<1> QED
  BY <1>8, <1>10, <1>11, <1>12, <1>13

(* The files that chains which are short come to.                           *)
LEMMA TsShortChains ==
  ASSUME AdaptersInv, language = "typescript", NEW g, NEW name, name # Ts!Star, IsShort(g, name)
  PROVE  \E R \in SUBSET TsKnown :
           g \in R /\ Cardinality(R) <= MaxReexports /\ PassWithin(TsKnown, PassedOnFrom(IRs, name), R)
<1> DEFINE to == PassedOnFrom(IRs, name)
<1>1. PICK K : IsFiniteSet(K) /\ Cardinality(K) <= Limit /\ <<g, name>> \in K /\ IsClosed(K) /\ K \subseteq Passed
  BY ShortChains
<1>2. Limit = MaxReexports /\ MaxReexports \in Nat
  BY FilesAssumption DEF Limit
<1>3. /\ DOMAIN sources = TsKnown
      /\ \A f \in TsKnown : NextNames(f) = {<<<<f, r.to.name>>, <<Ts!TargetFile(r.to.import), r.to.name>>>> :
                                              r \in {r \in IRs[f].relationships : r.kind = "ReExports"}}
  <2>1. FilesOf(language) = TsKnown
    BY DEF FilesOf
  <2>2. ASSUME NEW f \in TsKnown PROVE IRs[f] = Extract(language, f, sources[f])
    BY <2>1, Analysed
  <2> QED
    BY <2>2, TsShape DEF NextNames
<1>4. \A p \in Passed : p[1] \in TsKnown
  <2>1. ASSUME NEW f \in TsKnown, NEW step \in NextNames(f) PROVE step[1][1] = f
    BY <1>3
  <2> QED
    BY <1>3, <2>1 DEF Passed, Steps
<1> DEFINE R == {x \in TsKnown : <<x, name>> \in K}
<1>5. g \in R
  <2> DEFINE p == <<g, name>>
  <2>1. p \in Passed /\ p[1] = g
    BY <1>1
  <2> HIDE DEF p
  <2>2. g \in TsKnown
    BY <1>4, <2>1
  <2> QED
    BY <1>1, <2>2
<1>6. Cardinality(R) <= MaxReexports
  <2> DEFINE pair == [x \in R |-> <<x, name>>]
  <2>1. pair \in Injection(R, K)
    <3>1. pair \in [R -> K] /\ \A x, y \in R : pair[x] = pair[y] => x = y
      OBVIOUS
    <3> QED
      BY <3>1 DEF Injection, IsInjective
  <2> HIDE DEF pair, R
  <2>2. Cardinality(R) <= Cardinality(K) /\ IsFiniteSet(R)
    BY <1>1, <2>1, FS_Injection
  <2>3. Cardinality(R) \in Nat /\ Cardinality(K) \in Nat
    BY <1>1, <2>2, FS_CardinalityType
  <2> QED
    BY <1>1, <1>2, <2>2, <2>3
<1>7. ASSUME NEW x \in TsKnown, NEW y, y = to[x], y # NONE
      PROVE  <<x, name>> \in Passed /\ <<<<x, name>>, <<y, name>>>> \in Steps
  <2>1. PICK k \in Written(x, {"import", "reexport", "usetree"}) :
          sources[x][k].is = "reexport" /\ sources[x][k].name = name /\ y = Ts!TargetFile(sources[x][k].spec)
    BY <1>7, TsPassedFrom DEF PassedOnFrom
  <2>2. TsRead(x) = sources[x] /\ k \in DOMAIN sources[x]
    BY <2>1, TsWritten
  <2> DEFINE r == TsTakenAt(x, k)
  <2>3. /\ r \in IRs[x].relationships /\ r.kind = "ReExports"
        /\ r.to = Ts!ImportOf(sources[x][k].spec, name)
    BY <2>1, <2>2, TsTakenOnce DEF TsTakenAt, Ts!Rel
  <2>4. r.to.name = name /\ Ts!TargetFile(r.to.import) = y
    BY <2>1, <2>3 DEF Ts!ImportOf
  <2> DEFINE step == <<<<x, name>>, <<y, name>>>>
  <2> HIDE DEF r
  <2>5. step \in NextNames(x)
    BY <1>3, <2>3, <2>4
  <2>6. step[1] = <<x, name>>
    OBVIOUS
  <2> HIDE DEF step
  <2>7. step \in Steps /\ step[1] \in Passed
    BY <1>3, <2>5 DEF Steps, Passed
  <2> QED
    BY <2>6, <2>7 DEF step
<1>8. PassWithin(TsKnown, to, R)
  <2>1. ASSUME NEW x \in R, NEW y \in TsKnown, y = to[x], to[y] # NONE PROVE y \in R
    <3> DEFINE step == <<<<x, name>>, <<y, name>>>>
    <3>1. y # NONE /\ x \in TsKnown
      BY TsShape, FilesAssumption
    <3>2. step \in Steps /\ <<y, name>> \in Passed
      BY <1>7, <2>1, <3>1
    <3>3. step[1] \in K /\ step[2] = <<y, name>>
      OBVIOUS
    <3> HIDE DEF step
    <3>4. <<y, name>> \in K
      BY <1>1, <3>2, <3>3 DEF IsClosed
    <3> QED
      BY <3>4
  <2> HIDE DEF to, R
  <2> QED
    BY <2>1 DEF PassWithin
<1> QED
  BY <1>5, <1>6, <1>8

(* A TypeScript file that passes a name on is passed by.                    *)
LEMMA TsTransparent ==
  ASSUME AdaptersInv, language = "typescript",
         NEW f \in TsKnown, NEW i \in Written(f, {"import", "usetree"})
  PROVE  IsTransparent(f, i)
<1> DEFINE s == sources[f][i]
           g == TakenFrom(f, s)[1]
           name == TakenFrom(f, s)[2]
           T == {"import", "reexport", "usetree"}
<1>1. SUFFICES ASSUME g \in DOMAIN sources, \A x \in index[g].symbols : x.name # name, IsShort(g, name),
                      \A k \in LinesOf(g, name) : PassesOn(g, sources[g][k]),
                      NEW j \in LinesOf(g, name),
                      \A k \in LinesOf(g, name) : TargetsAt(g, k) = TargetsAt(g, j),
                      TargetsAt(g, j) # {}
               PROVE  TargetsAt(f, i) = TargetsAt(g, j)
  BY DEF IsTransparent
<1>2. /\ DOMAIN sources = TsKnown /\ DOMAIN IRs = TsKnown /\ IsFiniteSet(TsKnown) /\ NONE \notin TsKnown
      /\ MaxReexports \in Nat
  BY TsShape, FilesAssumption
<1>3. i \in Written(f, {"import", "reexport"}) /\ s.is = "import"
  <2>1. i \in Written(f, T) /\ s.is # "reexport"
    BY DEF Written
  <2> QED
    BY <2>1, TsWritten
<1>4. g = Ts!TargetFile(s.spec) /\ name = s.name /\ name \notin {Ts!Default, Ts!Star}
  <2>1. g # NONE
    BY <1>1, <1>2
  <2>2. TakenFrom(f, s) = IF s.name \notin {Ts!Default, Ts!Star} THEN <<Ts!TargetFile(s.spec), s.name>> ELSE <<NONE, NONE>>
    BY <1>3 DEF TakenFrom
  <2> HIDE DEF s
  <2> QED
    BY <2>1, <2>2
<1> HIDE DEF g, name
<1>5. s.spec \in DOMAIN TsRelative
  <2>1. Ts!TargetFile(s.spec) # NONE
    BY <1>1, <1>2, <1>4
  <2> QED
    BY <2>1 DEF Ts!TargetFile
<1>6. TargetsAt(f, i) = {Ts!Lookup(IRs, g, name)} \ {NONE}
  BY <1>3, <1>4, <1>5, TsTargetsAt
<1>7. g \in TsKnown /\ Ts!Exported(IRs[g].symbols, name) = NONE
  <2>1. g \in TsKnown /\ index[g].symbols = IRs[g].symbols
    BY <1>1, <1>2, TsResolution
  <2>2. {x \in IRs[g].symbols : x.name = name} = {}
    BY <1>1, <2>1
  <2> QED
    BY <1>4, <2>1, <2>2 DEF Ts!Exported
<1>8. ASSUME NEW k \in LinesOf(g, name)
      PROVE  /\ k \in Written(g, T) /\ k \in Written(g, {"import", "reexport"})
             /\ sources[g][k].is = "reexport" /\ sources[g][k].name = name
             /\ TargetsAt(g, k) = {Ts!Lookup(IRs, Ts!TargetFile(sources[g][k].spec), name)} \ {NONE}
  <2>1. k \in Written(g, T) /\ name \in NamesIn(g, sources[g][k])
    BY DEF LinesOf
  <2>2. sources[g][k].is = "reexport" /\ name \in {sources[g][k].name, sources[g][k].as}
    BY <2>1 DEF NamesIn
  <2>3. sources[g][k].name = sources[g][k].as /\ sources[g][k].spec \in DOMAIN TsRelative
    BY <1>1, <2>2 DEF PassesOn
  <2>4. k \in Written(g, {"import", "reexport"})
    BY <1>7, <2>1, TsWritten
  <2>5. sources[g][k].name = name
    BY <2>2, <2>3
  <2>6. TargetsAt(g, k) = {Ts!Lookup(IRs, Ts!TargetFile(sources[g][k].spec), name)} \ {NONE}
    <3>1. sources[g][k].name # Ts!Star
      BY <1>4, <2>5
    <3> QED
      BY <1>7, <2>3, <2>4, <2>5, <3>1, TsTargetsAt
  <2> QED
    BY <2>1, <2>2, <2>4, <2>5, <2>6
<1>9. PICK k \in Written(g, T) :
        /\ sources[g][k].is = "reexport" /\ sources[g][k].name = name
        /\ Ts!PassedFrom(IRs[g], name) = Ts!TargetFile(sources[g][k].spec)
  <2>1. name # Ts!Star
    BY <1>4
  <2>2. j \in Written(g, T) /\ sources[g][j].is = "reexport" /\ sources[g][j].name = name
    BY <1>8
  <2> QED
    BY <1>7, <2>1, <2>2, TsPassedFrom
<1>10. k \in LinesOf(g, name)
  BY <1>9 DEF LinesOf, NamesIn
<1> DEFINE h == Ts!TargetFile(sources[g][k].spec)
           t == Ts!Lookup(IRs, h, name)
           F == Ts!Follow(IRs, name)
           own == ExportedBy(IRs, name)
           to == PassedOnFrom(IRs, name)
<1>11. t # NONE /\ TargetsAt(g, j) = {t}
  <2>1. TargetsAt(g, j) = {t} \ {NONE}
    BY <1>1, <1>8, <1>10
  <2> QED
    BY <1>1, <2>1
<1>12. h \in TsKnown /\ t = (IF Ts!Exported(IRs[h].symbols, name) # NONE THEN Ts!Exported(IRs[h].symbols, name)
                             ELSE F[<<h, {h}>>])
  BY <1>2, <1>11 DEF Ts!Lookup
<1>13. Visits(F, TsKnown, MaxReexports, own, to)
  <2>1. \A x \in TsKnown : IsFiniteSet(IRs[x].symbols) /\ \A y \in IRs[x].symbols : IsTsSymbol(x, y)
    BY TsSymbols
  <2> QED
    BY <1>2, <1>7, <2>1, FollowIsSymbol
<1>14. /\ own[g] = NONE /\ to[g] = h /\ own[h] = Ts!Exported(IRs[h].symbols, name)
       /\ \A x \in TsKnown : to[x] \in {NONE} \union TsKnown
  BY <1>7, <1>9, <1>12, PassedFromIsFile DEF ExportedBy, PassedOnFrom
<1>15. Ts!Lookup(IRs, g, name) = F[<<g, {g}>>]
  BY <1>2, <1>7 DEF Ts!Lookup
<1>16. t = IF own[h] # NONE THEN own[h] ELSE F[<<h, {h}>>]
  BY <1>12, <1>14
<1>17. h # g
  <2>1. SUFFICES ASSUME h = g PROVE FALSE
    OBVIOUS
  <2>2. t = F[<<g, {g}>>]
    BY <1>15, <2>1
  <2>3. ComesTo(F, MaxReexports, own, to, g, {g})
    BY <1>7, <1>13 DEF Visits
  <2>4. to[g] \in {NONE} \union {g}
    BY <1>14, <2>1
  <2> HIDE DEF t, F, own, to, h
  <2>5. F[<<g, {g}>>] = NONE
    BY <2>3, <2>4 DEF ComesTo
  <2> QED
    BY <1>11, <2>2, <2>5
<1>18. F[<<g, {g}>>] = t
  <2>0. PICK R \in SUBSET TsKnown : g \in R /\ Cardinality(R) <= MaxReexports /\ PassWithin(TsKnown, to, R)
    BY <1>1, <1>4, TsShortChains
  <2> HIDE DEF t, F, own, to, h
  <2>1. to[g] \in TsKnown /\ to[g] # g /\ own[g] = NONE
    BY <1>12, <1>14, <1>17
  <2>2. LET found == IF own[to[g]] # NONE THEN own[to[g]] ELSE F[<<to[g], {to[g]}>>]
        IN  found # NONE => F[<<g, {g}>>] = found
    BY <1>2, <1>13, <1>14, <2>0, <2>1, OneFileMore
  <2> QED
    BY <1>11, <1>14, <1>16, <2>2
<1> QED
  BY <1>6, <1>11, <1>15, <1>18

-----------------------------------------------------------------------------
(* The languages a repository can be of.                                    *)
LEMMA Languages ==
  ASSUME AdaptersInv
  PROVE  language \in {"typescript", "python", "rust", "go", "c"}
  BY WritingAssumption DEF AdaptersInv

(* No statement is lost without a word, in any language, whatever is        *)
(* written and in whichever order: every file says what its edges and       *)
(* diagnostics show (NothingIsLostSilently).                                *)
THEOREM NothingIsEverLostSilently == AdaptersSpec => []NothingIsLostSilently
<1>1. ASSUME AdaptersInv PROVE NothingIsLostSilently
  <2>1. ASSUME NEW f \in DOMAIN sources, NEW i \in Written(f, Takes) PROVE Accounted(f, i)
    BY <1>1, <2>1, Languages, TsLosesNothing, PyLosesNothing, RsLosesNothing, GoLosesNothing, CLosesNothing
  <2> QED
    BY <2>1 DEF NothingIsLostSilently, Accounted, Takes
<1> QED
  BY <1>1, AdaptersInvHolds, PTL

(* In every language a member is charged to the type of its variable, and a *)
(* type is charged only where a variable of it has a member taken           *)
(* (MembersAreOfTheirType).                                                 *)
THEOREM MembersAreAlwaysOfTheirType == AdaptersSpec => []MembersAreOfTheirType
<1>1. ASSUME AdaptersInv PROVE MembersAreOfTheirType
  <2>1. ASSUME NEW f \in DOMAIN sources PROVE EveryMemberIsCharged(f) /\ EveryChargeIsOfAMember(f)
    BY <1>1, <2>1, Languages, TsMembers, PyMembers, RsMembers, GoMembers, CMembers
  <2>2. DOMAIN IRs = DOMAIN sources
    BY <1>1, Analysed
  <2> QED
    BY <2>1, <2>2 DEF MembersAreOfTheirType, EveryMemberIsCharged, EveryChargeIsOfAMember, ChargedIn, IRs
<1> QED
  BY <1>1, AdaptersInvHolds, PTL

(* Wherever a name is imported, by whichever of its imports is the last, a  *)
(* use of it leads where that import does, in every language that names what *)
(* it imports (UsesFollowImports).                                          *)
THEOREM UsesAlwaysFollowImports == AdaptersSpec => []UsesFollowImports
<1>1. ASSUME AdaptersInv PROVE UsesFollowImports
  <2>1. ASSUME NEW f \in DOMAIN sources, NEW i \in Written(f, {"use"}) PROVE FollowsImport(f, i)
    BY <1>1, <2>1, Languages, TsUsesFollow, PyUses, RsUses, NoNamesAreImported
  <2> QED
    BY <2>1 DEF UsesFollowImports, FollowsImport, LastOfImports, ImportsOf
<1> QED
  BY <1>1, AdaptersInvHolds, PTL

(* The adapters of Go and C follow no chains, and so none is short.         *)
LEMMA NoChains ==
  ASSUME language \in {"go", "c"}, NEW g, NEW name
  PROVE  ~IsShort(g, name)
<1>1. \A f : NextNames(f) = {}
  BY DEF NextNames
<1> QED
  BY <1>1 DEF IsShort

(* A name that a file only passes on leads, wherever it is taken from that  *)
(* file, to what it leads to there, if no chain is cut short for its length *)
(* (ReexportsAreTransparent).                                               *)
THEOREM ReexportsAreAlwaysTransparent == AdaptersSpec => []ReexportsAreTransparent
<1>1. ASSUME AdaptersInv PROVE ReexportsAreTransparent
  <2>1. ASSUME NEW f \in DOMAIN sources, NEW i \in Written(f, {"import", "usetree"})
        PROVE  IsTransparent(f, i)
    <3>1. CASE language = "typescript"
      BY <1>1, <2>1, <3>1, TsShape, TsTransparent
    <3>2. CASE language = "python"
      BY <1>1, <2>1, <3>2, PyShape, PyTransparent
    <3>3. CASE language = "rust"
      BY <1>1, <2>1, <3>3, RsShape, RsTransparent
    <3>4. CASE language \in {"go", "c"}
      BY <3>4, NoChains DEF IsTransparent
    <3> QED
      BY <1>1, <3>1, <3>2, <3>3, <3>4, Languages
  <2> QED
    BY <2>1 DEF ReexportsAreTransparent, IsTransparent
<1> QED
  BY <1>1, AdaptersInvHolds, PTL
=============================================================================
