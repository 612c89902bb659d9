---------------------------- MODULE LocalityProofs ----------------------------
(***************************************************************************)
(* Resolution is local: a relationship of a file is resolved in the files   *)
(* that are reached from it through what their imports name, so that a      *)
(* statement written anywhere else changes nothing about it. What is        *)
(* reached is closed under naming, the analyses before and after agree on   *)
(* it, and each language's lookup stays in it.                              *)
(***************************************************************************)
EXTENDS AdaptersProofs

-----------------------------------------------------------------------------
(* What is reached from a file: itself, and what is named by what is        *)
(* reached. Each turn that adds nothing ends it, and there are as many      *)
(* turns as there are files.                                                *)
LEMMA ReachIsClosed ==
  ASSUME NEW named, IsFiniteSet(DOMAIN named), \A g \in DOMAIN named : named[g] \subseteq DOMAIN named,
         NEW f \in DOMAIN named
  PROVE  /\ f \in Reach(named, f) /\ Reach(named, f) \subseteq DOMAIN named
         /\ \A g \in Reach(named, f) : named[g] \subseteq Reach(named, f)
         /\ \A K : f \in K /\ (\A g \in K \intersect DOMAIN named : named[g] \subseteq K) => Reach(named, f) \subseteq K
<1> DEFINE D == DOMAIN named
           n == Cardinality(D)
           More(T) == T \union UNION {named[g] : g \in T}
           step == [T \in SUBSET D |-> More(T)]
           Solves(w) == w = [k \in 0 .. n |-> IF k = 0 THEN {f} ELSE w[k - 1] \union UNION {named[g] : g \in w[k - 1]}]
           within == CHOOSE w : Solves(w)
<1>1. Reach(named, f) = within[n]
  BY DEF Reach
<1>2. n \in Nat /\ IsFiniteSet(D)
  BY FS_CardinalityType
<1>3. \A T \in SUBSET D : step[T] \in SUBSET D /\ step[T] = More(T)
  OBVIOUS
<1>4. {f} \in SUBSET D
  OBVIOUS
<1> HIDE DEF step, n
<1>5. PICK w : Turns(w, n, {f}, step) /\ \A k \in 0 .. n : w[k] \in SUBSET D
  <2> DEFINE T == SUBSET D
  <2>1. {f} \in T /\ \A t \in T : step[t] \in T
    BY <1>3, <1>4
  <2> HIDE DEF D
  <2> HIDE DEF T
  <2>2. \E w : Turns(w, n, {f}, step) /\ \A k \in 0 .. n : w[k] \in T
    BY <1>2, <2>1, TurnsExist
  <2> QED
    BY <2>2 DEF T
<1>6. Solves(w)
  <2> DEFINE F(k) == IF k = 0 THEN {f} ELSE step[w[k - 1]]
             G(k) == IF k = 0 THEN {f} ELSE w[k - 1] \union UNION {named[g] : g \in w[k - 1]}
  <2>1. w = [k \in 0 .. n |-> F(k)]
    BY <1>5 DEF Turns
  <2>2. \A k \in 0 .. n : F(k) = G(k)
    <3>1. ASSUME NEW k \in 0 .. n, k # 0 PROVE step[w[k - 1]] = More(w[k - 1])
      <4>1. k - 1 \in 0 .. n
        BY <1>2, <3>1
      <4> QED
        BY <1>3, <1>5, <4>1
    <3> QED
      BY <3>1
  <2> HIDE DEF F, G
  <2>3. w = [k \in 0 .. n |-> G(k)]
    BY <2>1, <2>2
  <2> QED
    BY <2>3 DEF G
<1>7. Solves(within)
  <2> HIDE DEF Solves
  <2> QED
    BY <1>6
<1> HIDE DEF within
<1>8. within[0] = {f} /\ \A k \in 1 .. n : within[k] = More(within[k - 1])
  <2> DEFINE G(k) == IF k = 0 THEN {f} ELSE within[k - 1] \union UNION {named[g] : g \in within[k - 1]}
  <2>1. \A k \in 0 .. n : within[k] = G(k)
    <3>1. within = [k \in 0 .. n |-> G(k)]
      BY <1>7
    <3> HIDE DEF G
    <3> QED
      BY <3>1
  <2>2. \A k \in 1 .. n : k \in 0 .. n /\ G(k) = More(within[k - 1])
    BY <1>2
  <2>3. 0 \in 0 .. n /\ G(0) = {f}
    BY <1>2
  <2> HIDE DEF G, More
  <2> QED
    BY <2>1, <2>2, <2>3
<1> DEFINE IsClosedFrom(T) == \A g \in T : named[g] \subseteq T
           P == {k \in 0 .. n : /\ within[k] \in SUBSET D /\ f \in within[k]
                                /\ IsClosedFrom(within[k]) \/ Cardinality(within[k]) > k}
<1>9. 0 \in P
  <2>1. Cardinality({f}) = 1
    BY FS_Singleton
  <2> QED
    BY <1>2, <1>4, <1>8, <2>1
<1>10. ASSUME NEW k \in 1 .. n, k - 1 \in P PROVE k \in P
  <2> DEFINE T == within[k - 1]
             U == within[k]
  <2>1. /\ T \in SUBSET D /\ f \in T /\ U = More(T) /\ k \in 0 .. n
        /\ IsClosedFrom(T) \/ Cardinality(T) > k - 1
    BY <1>2, <1>8, <1>10
  <2> HIDE DEF T, U
  <2>2. U \in SUBSET D /\ f \in U /\ T \subseteq U
    BY <2>1
  <2>3. CASE IsClosedFrom(T)
    <3>1. U = T
      <4>1. UNION {named[g] : g \in T} \subseteq T
        BY <2>3
      <4> QED
        BY <2>1, <4>1
    <3> QED
      BY <2>1, <2>2, <2>3, <3>1 DEF U
  <2>4. CASE ~IsClosedFrom(T) /\ Cardinality(T) > k - 1
    <3>1. U # T
      BY <2>1, <2>4
    <3>2. IsFiniteSet(U) /\ IsFiniteSet(T)
      BY <1>2, <2>1, <2>2, FS_Subset
    <3>3. Cardinality(T) < Cardinality(U) /\ Cardinality(T) \in Nat /\ Cardinality(U) \in Nat
      BY <2>2, <3>1, <3>2, FS_Subset, FS_CardinalityType
    <3>4. Cardinality(U) > k
      BY <2>4, <3>3
    <3> QED
      BY <2>1, <2>2, <3>4 DEF U
  <2> QED
    BY <2>1, <2>3, <2>4
<1> HIDE DEF P
<1>11. n \in P
  <2>1. \A k \in 0 .. n : k \in P
    BY <1>2, <1>9, <1>10, UpTo
  <2> QED
    BY <1>2, <2>1
<1>12. within[n] \in SUBSET D /\ f \in within[n] /\ IsClosedFrom(within[n])
  <2>1. Cardinality(within[n]) <= n
    <3>1. within[n] \in SUBSET D
      BY <1>11 DEF P
    <3> QED
      BY <1>2, <3>1, FS_Subset DEF n
  <2>2. Cardinality(within[n]) \in Nat
    <3>1. within[n] \in SUBSET D
      BY <1>11 DEF P
    <3> QED
      BY <1>2, <3>1, FS_Subset, FS_CardinalityType
  <2> QED
    BY <1>2, <1>11, <2>1, <2>2 DEF P
<1>13. ASSUME NEW K, f \in K, \A g \in K \intersect DOMAIN named : named[g] \subseteq K
       PROVE  within[n] \subseteq K
  <2> DEFINE Q == {k \in 0 .. n : within[k] \in SUBSET D /\ within[k] \subseteq K}
  <2>1. 0 \in Q
    BY <1>2, <1>4, <1>8, <1>13
  <2>2. ASSUME NEW k \in 1 .. n, k - 1 \in Q PROVE k \in Q
    <3>1. within[k - 1] \in SUBSET D /\ within[k - 1] \subseteq K /\ within[k] = More(within[k - 1]) /\ k \in 0 .. n
      BY <1>2, <1>8, <2>2
    <3>2. More(within[k - 1]) \in SUBSET D /\ More(within[k - 1]) \subseteq K
      BY <1>13, <3>1
    <3> QED
      BY <3>1, <3>2
  <2> HIDE DEF Q
  <2>3. \A k \in 0 .. n : k \in Q
    BY <1>2, <2>1, <2>2, UpTo
  <2> QED
    BY <1>2, <2>3 DEF Q
<1> HIDE DEF n, More
<1> QED
  BY <1>1, <1>12, <1>13

(* Two analyses that have a set of files in common, from which imports lead *)
(* to no other file.                                                        *)
SameImports(irs, i, jrs, j, S) ==
  \A f \in S : \A name \in Nat :
    /\ ByName(irs[f].order, name) = ByName(jrs[f].order, name)
    /\ ByName(irs[f].order, name) # NONE => ByName(irs[f].order, name).file \in S
    /\ i[<<f, name>>] = j[<<f, name>>]
    /\ i[<<f, name>>] # NONE => i[<<f, name>>].file \in {NONE} \union S
SameFound(l, m, S, d) ==
  \A f \in S : \A name \in Nat :
    l[<<f, name, d>>] = m[<<f, name, d>>] /\ (l[<<f, name, d>>] # NONE => l[<<f, name, d>>].file \in S)

(* In both a name of one of these files is the same, and one of theirs.     *)
LEMMA ImportedAlike ==
  ASSUME NEW files, NEW irs, DOMAIN irs = files, NEW jrs, DOMAIN jrs = files, NEW limit \in Nat,
         NEW i, ImportsLead(i, files), NEW j, ImportsLead(j, files),
         NEW S, S \subseteq files, SameImports(irs, i, jrs, j, S)
  PROVE  SameFound(Imported(irs, i, limit), Imported(jrs, j, limit), S, 0)
<1> DEFINE l == Imported(irs, i, limit)
           m == Imported(jrs, j, limit)
           P == {k \in 0 .. limit : SameFound(l, m, S, limit - k)}
<1>1. ASSUME NEW f \in S, NEW name \in Nat, NEW d \in 0 .. limit, d # limit => SameFound(l, m, S, d + 1)
      PROVE  l[<<f, name, d>>] = m[<<f, name, d>>] /\ (l[<<f, name, d>>] # NONE => l[<<f, name, d>>].file \in S)
  <2> DEFINE own == ByName(irs[f].order, name)
             to == i[<<f, name>>]
             g == to.file
             n == to.name
  <2>1. f \in files
    OBVIOUS
  <2>2. l[<<f, name, d>>] = IF own # NONE THEN own
                            ELSE IF d = limit \/ to = NONE \/ g \in {NONE, f} THEN NONE ELSE l[<<g, n, d + 1>>]
    BY <2>1, ImportedUnfolds
  <2>3. /\ own = ByName(jrs[f].order, name) /\ to = j[<<f, name>>]
        /\ own # NONE => own.file \in S
        /\ to # NONE => g \in {NONE} \union S
    BY DEF SameImports
  <2>4. m[<<f, name, d>>] = IF own # NONE THEN own
                            ELSE IF d = limit \/ to = NONE \/ g \in {NONE, f} THEN NONE ELSE m[<<g, n, d + 1>>]
    <3>1. m[<<f, name, d>>]
            = IF ByName(jrs[f].order, name) # NONE THEN ByName(jrs[f].order, name)
              ELSE IF d = limit \/ j[<<f, name>>] = NONE \/ j[<<f, name>>].file \in {NONE, f} THEN NONE
              ELSE m[<<j[<<f, name>>].file, j[<<f, name>>].name, d + 1>>]
      BY <2>1, ImportedUnfolds
    <3> HIDE DEF m, own, to
    <3> QED
      BY <2>3, <3>1
  <2>5. to # NONE => n \in Nat
    BY <2>1 DEF ImportsLead
  <2> HIDE DEF l, m, own, to, g, n
  <2>6. ASSUME d # limit, g \in S, n \in Nat
        PROVE  l[<<g, n, d + 1>>] = m[<<g, n, d + 1>>] /\ (l[<<g, n, d + 1>>] # NONE => l[<<g, n, d + 1>>].file \in S)
    BY <1>1, <2>6 DEF SameFound
  <2>7. CASE own # NONE
    BY <2>2, <2>3, <2>4, <2>7
  <2>8. CASE own = NONE /\ (d = limit \/ to = NONE \/ g \in {NONE, f})
    BY <2>2, <2>4, <2>8
  <2>9. CASE own = NONE /\ ~(d = limit \/ to = NONE \/ g \in {NONE, f})
    <3>1. g \in S /\ n \in Nat /\ d # limit
      BY <2>3, <2>5, <2>9
    <3>2. l[<<f, name, d>>] = l[<<g, n, d + 1>>] /\ m[<<f, name, d>>] = m[<<g, n, d + 1>>]
      BY <2>2, <2>4, <2>9
    <3> QED
      BY <2>6, <3>1, <3>2
  <2> QED
    BY <2>7, <2>8, <2>9
<1> HIDE DEF l, m
<1>3. 0 \in P
  <2>1. SameFound(l, m, S, limit)
    <3>1. ASSUME NEW f \in S, NEW name \in Nat
          PROVE  /\ l[<<f, name, limit>>] = m[<<f, name, limit>>]
                 /\ l[<<f, name, limit>>] # NONE => l[<<f, name, limit>>].file \in S
      <4>1. limit \in 0 .. limit
        OBVIOUS
      <4> QED
        BY <1>1, <4>1
    <3> QED
      BY <3>1 DEF SameFound
  <2>2. limit - 0 = limit /\ 0 \in 0 .. limit
    OBVIOUS
  <2> QED
    BY <2>1, <2>2
<1>4. ASSUME NEW k \in 1 .. limit, k - 1 \in P PROVE k \in P
  <2> DEFINE d == limit - k
  <2>1. d \in 0 .. limit /\ d + 1 = limit - (k - 1) /\ k \in 0 .. limit
    OBVIOUS
  <2>2. SameFound(l, m, S, d + 1)
    BY <1>4, <2>1
  <2> HIDE DEF d
  <2>3. ASSUME NEW f \in S, NEW name \in Nat
        PROVE  l[<<f, name, d>>] = m[<<f, name, d>>] /\ (l[<<f, name, d>>] # NONE => l[<<f, name, d>>].file \in S)
    BY <1>1, <2>1, <2>2
  <2>4. SameFound(l, m, S, d)
    BY <2>3 DEF SameFound
  <2> QED
    BY <2>1, <2>4 DEF d
<1> HIDE DEF P
<1>5. \A k \in 0 .. limit : k \in P
  BY <1>3, <1>4, UpTo
<1>6. SameFound(l, m, S, 0)
  <2>1. limit \in P /\ limit - limit = 0
    BY <1>5
  <2> QED
    BY <2>1 DEF P
<1> QED
  BY <1>6 DEF l, m

-----------------------------------------------------------------------------
(* Two analyses of one repository, as it is and after something was written *)
(* in a file: what has been extracted of a set of files is the same in      *)
(* both, and these name no others.                                          *)
Same(jrs, S) ==
  /\ S \subseteq DOMAIN IRs /\ DOMAIN jrs = DOMAIN IRs
  /\ \A f \in S : jrs[f] = IRs[f] /\ NamedBy(jrs, f) \intersect DOMAIN IRs \subseteq S

(* What a name leads to when it leads to one of these files.                *)
IsOf(to, S) == to # NONE /\ ~IsPackage(to) => to.file \in S

(* Python. Where the imports of each file lead.                             *)
PyLeads(f, import) == IF import = NONE THEN NONE ELSE Import(PyFileOf(PyAbsolute(f, import.spec)), import.name)
PyLeadsIn(irs) == [p \in PyFiles \X Nat |-> PyLeads(p[1], PyImportOf(irs, p[1], p[2]))]

(* They lead to files and names.                                            *)
LEMMA PyImportsLead ==
  ASSUME AdaptersInv, language = "python"
  PROVE  ImportsLead(PyLeadsIn(IRs), PyFiles)
<1> DEFINE i == PyLeadsIn(IRs)
<1>1. ASSUME NEW f \in PyFiles, NEW n \in Nat
      PROVE  i[<<f, n>>] = NONE \/ (i[<<f, n>>].file \in {NONE} \union PyFiles /\ i[<<f, n>>].name \in Nat)
  <2> DEFINE to == PyImportOf(IRs, f, n)
  <2>1. PyLeadsIn(IRs)[<<f, n>>] = PyLeads(f, to)
    BY DEF PyLeadsIn
  <2>2. to = NONE \/ to.name \in Nat
    BY PyImportOfIsImport, PyRelationships
  <2> HIDE DEF to
  <2> QED
    BY <2>1, <2>2, PyFileOfIsFile DEF PyLeads, Import
<1> HIDE DEF i
<1>2. ImportsLead(i, PyFiles)
  BY <1>1, Zenon DEF ImportsLead
<1> QED
  BY <1>2 DEF i

(* What a file imports is of the files that it names.                       *)
LEMMA PyImportsStay ==
  ASSUME AdaptersInv, language = "python", NEW jrs, NEW S, Same(jrs, S), NEW f \in S,
         NEW r \in IRs[f].relationships, r.kind = "Imports"
  PROVE  PyFileOf(PyAbsolute(f, r.to.spec)) \in {NONE} \union S
<1> DEFINE h == PyFileOf(PyAbsolute(f, r.to.spec))
           imports == {q \in jrs[f].relationships : q.kind \in {"Imports", "ReExports"}}
<1>1. NamedBy(jrs, f) = {PyFileOf(PyAbsolute(f, q.to.spec)) : q \in imports}
  BY DEF NamedBy
<1>2. r \in imports
  BY DEF Same
<1>3. h \in NamedBy(jrs, f)
  BY <1>1, <1>2
<1> HIDE DEF h
<1>4. h \in {NONE} \union PyFiles /\ DOMAIN IRs = PyFiles
  BY PyFileOfIsFile, PyShape DEF h
<1> QED
  BY <1>3, <1>4 DEF Same, h

(* A name of one of these files is found to be the same in both, and to be  *)
(* of one of them.                                                          *)
LEMMA PyLookupAlike ==
  ASSUME AdaptersInv, language = "python", NEW jrs, NEW S, Same(jrs, S), ImportsLead(PyLeadsIn(jrs), PyFiles)
  PROVE  SameFound(PyLookup(IRs), PyLookup(jrs), S, 0)
<1> DEFINE i == PyLeadsIn(IRs)
           j == PyLeadsIn(jrs)
<1>1. PyLookup(IRs) = Imported(IRs, i, MaxInits) /\ PyLookup(jrs) = Imported(jrs, j, MaxInits)
  BY DEF PyLookup, PyLeadsIn, PyLeads
<1>2. DOMAIN IRs = PyFiles /\ DOMAIN jrs = PyFiles /\ S \subseteq PyFiles /\ MaxInits \in Nat
  BY PyShape, FilesAssumption DEF Same
<1>3. ImportsLead(i, PyFiles)
  BY PyImportsLead
<1>4. ASSUME NEW f \in S, NEW name \in Nat
      PROVE  /\ ByName(IRs[f].order, name) = ByName(jrs[f].order, name)
             /\ ByName(IRs[f].order, name) # NONE => ByName(IRs[f].order, name).file \in S
             /\ i[<<f, name>>] = j[<<f, name>>]
             /\ i[<<f, name>>] # NONE => i[<<f, name>>].file \in {NONE} \union S
  <2>1. f \in PyFiles /\ jrs[f] = IRs[f]
    BY <1>2 DEF Same
  <2>2. ByName(IRs[f].order, name) # NONE => ByName(IRs[f].order, name).file \in S
    <3>1. PyRead(f) \in Seq(PyStatements) /\ IRs[f].order = InOrder(f, PyRead(f))
      BY <2>1, PyShape
    <3>2. ByName(IRs[f].order, name) \in {NONE} \union Declared(f, PyRead(f))
      BY <3>1, NameOfTheOrder
    <3> QED
      BY <3>2, DeclaredHere
  <2> DEFINE to == PyImportOf(IRs, f, name)
  <2>3. PyImportOf(jrs, f, name) = to
    BY <2>1 DEF PyImportOf
  <2>4. i[<<f, name>>] = PyLeads(f, to) /\ j[<<f, name>>] = PyLeads(f, to)
    BY <2>1, <2>3 DEF PyLeadsIn
  <2>5. PyLeads(f, to) # NONE => PyLeads(f, to).file \in {NONE} \union S
    <3>1. CASE to = NONE
      BY <3>1 DEF PyLeads
    <3>2. CASE to # NONE
      <4>1. PICK r \in IRs[f].relationships : r.kind = "Imports" /\ to = r.to
        BY <2>1, <3>2, PyImportOfIsImport
      <4> HIDE DEF to
      <4>2. PyFileOf(PyAbsolute(f, to.spec)) \in {NONE} \union S
        BY <4>1, PyImportsStay
      <4> QED
        BY <3>2, <4>2 DEF PyLeads, Import
    <3> QED
      BY <3>1, <3>2
  <2> HIDE DEF to, i, j
  <2> QED
    BY <2>1, <2>2, <2>4, <2>5
<1> HIDE DEF i, j
<1>5. SameImports(IRs, i, jrs, j, S)
  BY <1>4, Zenon DEF SameImports
<1>6. SameFound(Imported(IRs, i, MaxInits), Imported(jrs, j, MaxInits), S, 0)
  <2>1. ImportsLead(j, PyFiles)
    BY DEF j
  <2> QED
    BY <1>2, <1>3, <1>5, <2>1, ImportedAlike
<1> QED
  BY <1>1, <1>6

(* So is what an import leads to.                                           *)
LEMMA PyTargetAlike ==
  ASSUME AdaptersInv, language = "python", NEW jrs, NEW S, Same(jrs, S), ImportsLead(PyLeadsIn(jrs), PyFiles),
         NEW f \in S, NEW r \in IRs[f].relationships, r.kind = "Imports"
  PROVE  /\ PyTarget(IRs, f, r) = PyTarget(jrs, f, r) /\ IsOf(PyTarget(IRs, f, r), S)
         /\ PyIsMissing(IRs, f, r) = PyIsMissing(jrs, f, r)
<1> DEFINE h == PyFileOf(PyAbsolute(f, r.to.spec))
           name == r.to.name
           package == PackageNode(IF PyAbsolute(f, r.to.spec) = << >> THEN 0 ELSE Head(PyAbsolute(f, r.to.spec)))
           found == PyLookup(IRs)[<<h, name, 0>>]
           foundToo == PyLookup(jrs)[<<h, name, 0>>]
<1>1. h \in {NONE} \union S
  BY PyImportsStay
<1>2. name \in Nat
  <2>1. f \in PyFiles
    BY PyShape DEF Same
  <2> QED
    BY <2>1, PyRelationships
<1>3. /\ PyTarget(IRs, f, r) = IF h = NONE THEN package
                               ELSE IF name = All \/ found = NONE THEN ModuleSymbol(h) ELSE found
      /\ PyTarget(jrs, f, r) = IF h = NONE THEN package
                               ELSE IF name = All \/ foundToo = NONE THEN ModuleSymbol(h) ELSE foundToo
      /\ PyIsMissing(IRs, f, r) = (name # All /\ h # NONE /\ found = NONE)
      /\ PyIsMissing(jrs, f, r) = (name # All /\ h # NONE /\ foundToo = NONE)
  BY DEF PyTarget, PyIsMissing
<1>4. SameFound(PyLookup(IRs), PyLookup(jrs), S, 0)
  BY PyLookupAlike
<1> HIDE DEF h, name
<1>5. h # NONE => found = foundToo /\ (found # NONE => found.file \in S)
  BY <1>1, <1>2, <1>4 DEF SameFound
<1>6. IsPackage(package) /\ ModuleSymbol(h).file = h
  BY PackagesAndSymbols DEF ModuleSymbol
<1> HIDE DEF package, found, foundToo
<1> QED
  BY <1>1, <1>3, <1>5, <1>6 DEF IsOf

(* And what a name of the file means.                                       *)
LEMMA PyMeansAlike ==
  ASSUME AdaptersInv, language = "python", NEW jrs, NEW S, Same(jrs, S), ImportsLead(PyLeadsIn(jrs), PyFiles),
         NEW f \in S, NEW path \in Path
  PROVE  PyMeans(IRs, f, path) = PyMeans(jrs, f, path)
<1>1. jrs[f] = IRs[f] /\ f \in PyFiles
  BY PyShape DEF Same
<1>2. ASSUME NEW name PROVE PyLocal(IRs, f, name) = PyLocal(jrs, f, name) /\ IsOf(PyLocal(IRs, f, name), S)
  <2> DEFINE of == {r \in IRs[f].relationships : r.kind = "Imports" /\ PyLocalName(f, r) = name}
             r == Latest(of)
  <2>1. /\ PyLocal(IRs, f, name) = (IF of = {} THEN NONE ELSE PyTarget(IRs, f, r))
        /\ PyLocal(jrs, f, name) = (IF of = {} THEN NONE ELSE PyTarget(jrs, f, r))
    BY <1>1 DEF PyLocal
  <2>2. \A q \in of : q \in IRs[f].relationships /\ q.kind = "Imports"
    OBVIOUS
  <2> HIDE DEF of
  <2>3. of # {} => r \in of
    BY <1>1, <2>2, PyLatestImport
  <2> HIDE DEF r
  <2>4. of # {} => PyTarget(IRs, f, r) = PyTarget(jrs, f, r) /\ IsOf(PyTarget(IRs, f, r), S)
    BY <2>2, <2>3, PyTargetAlike
  <2> QED
    BY <2>1, <2>4 DEF IsOf
<1>3. Len(path) > 1 => path[2] \in Nat
  BY DEF Path
<1> DEFINE base == PyLocal(IRs, f, Head(path))
           first == PyLocal(IRs, f, path[1])
           second == path[2]
<1>4. /\ base = PyLocal(jrs, f, Head(path)) /\ IsOf(base, S)
      /\ first = PyLocal(jrs, f, path[1])
  BY <1>2
<1>5. /\ PyDotted(IRs, f, path) = (IF Len(path) < 2 \/ base = NONE THEN NONE
                                   ELSE IF IsPackage(base) THEN base ELSE IF Len(path) > 2 THEN NONE
                                   ELSE PyLookup(IRs)[<<base.file, second, 0>>])
      /\ PyDotted(jrs, f, path) = (IF Len(path) < 2 \/ base = NONE THEN NONE
                                   ELSE IF IsPackage(base) THEN base ELSE IF Len(path) > 2 THEN NONE
                                   ELSE PyLookup(jrs)[<<base.file, second, 0>>])
  <2>1. /\ PyDotted(jrs, f, path) = (IF Len(path) < 2 \/ PyLocal(jrs, f, Head(path)) = NONE THEN NONE
                                   ELSE IF IsPackage(PyLocal(jrs, f, Head(path))) THEN PyLocal(jrs, f, Head(path))
                                   ELSE IF Len(path) > 2 THEN NONE
                                   ELSE PyLookup(jrs)[<<PyLocal(jrs, f, Head(path)).file, second, 0>>])
        /\ PyDotted(IRs, f, path) = (IF Len(path) < 2 \/ base = NONE THEN NONE
                                   ELSE IF IsPackage(base) THEN base ELSE IF Len(path) > 2 THEN NONE
                                   ELSE PyLookup(IRs)[<<base.file, second, 0>>])
    BY DEF PyDotted, PyMemberOf
  <2> HIDE DEF base
  <2> QED
    BY <1>4, <2>1
<1>6. /\ PyMeans(IRs, f, path) = (IF Len(path) > 1 THEN PyDotted(IRs, f, path)
                                  ELSE IF first # NONE THEN first ELSE ByName(IRs[f].order, path[1]))
      /\ PyMeans(jrs, f, path) = (IF Len(path) > 1 THEN PyDotted(jrs, f, path)
                                  ELSE IF first # NONE THEN first ELSE ByName(IRs[f].order, path[1]))
  <2> HIDE DEF first
  <2>1. /\ PyMeans(jrs, f, path) = (IF Len(path) > 1 THEN PyDotted(jrs, f, path)
                                  ELSE IF PyLocal(jrs, f, path[1]) # NONE THEN PyLocal(jrs, f, path[1])
                                  ELSE ByName(jrs[f].order, path[1]))
        /\ PyMeans(IRs, f, path) = (IF Len(path) > 1 THEN PyDotted(IRs, f, path)
                                  ELSE IF PyLocal(IRs, f, path[1]) # NONE THEN PyLocal(IRs, f, path[1])
                                  ELSE ByName(IRs[f].order, path[1]))
    BY DEF PyMeans
  <2> QED
    BY <1>1, <1>4, <2>1 DEF first
<1> HIDE DEF base, first, second
<1>7. ASSUME Len(path) > 1, base # NONE, ~IsPackage(base)
      PROVE  PyLookup(IRs)[<<base.file, second, 0>>] = PyLookup(jrs)[<<base.file, second, 0>>]
  <2> DEFINE g == base.file
  <2>1. g \in S /\ second \in Nat
    BY <1>3, <1>4, <1>7 DEF IsOf, second
  <2>2. SameFound(PyLookup(IRs), PyLookup(jrs), S, 0)
    BY PyLookupAlike
  <2> HIDE DEF g
  <2>3. PyLookup(IRs)[<<g, second, 0>>] = PyLookup(jrs)[<<g, second, 0>>]
    BY <2>1, <2>2 DEF SameFound
  <2> QED
    BY <2>3 DEF g
<1> QED
  BY <1>5, <1>6, <1>7

(* A file is resolved by what its imports and its names lead to.            *)
ResolvedPy(ir, edges, means, missing) ==
  LET rels == ir.relationships
      imports == {r \in rels : r.kind = "Imports"}
      to(r) == means[r.to.named]
      kept == {r \in rels \ imports : to(r) # NONE /\ ~(r.kind = "Calls" /\ IsPackage(to(r)))}
      lost == {r \in rels \ imports : to(r) = NONE /\ r.kind # "Calls" /\ r.to.named \notin PyBuiltin}
      constructs(r) == r.kind = "Calls" /\ to(r).kind = "class"
  IN  [ir EXCEPT
         !.relationships =
           edges \union {[r EXCEPT !.to = to(r), !.kind = IF constructs(r) THEN "Instantiates" ELSE @] : r \in kept},
         !.diagnostics = {r.line : r \in missing \union lost}]
PyImportsIn(ir) == {r \in ir.relationships : r.kind = "Imports"}
PyEdges(irs, f) == {[r EXCEPT !.to = PyTarget(irs, f, r)] : r \in PyImportsIn(irs[f])}
PyMeaning(irs, f) == [path \in {r.to.named : r \in irs[f].relationships \ PyImportsIn(irs[f])} |-> PyMeans(irs, f, path)]
PyMissing(irs, f) == {r \in PyImportsIn(irs[f]) : PyIsMissing(irs, f, r)}

(* So a Python file that names none of the others is resolved alike.        *)
LEMMA PyAlike ==
  ASSUME AdaptersInv, language = "python", NEW jrs, NEW S, Same(jrs, S), ImportsLead(PyLeadsIn(jrs), PyFiles),
         NEW f \in S
  PROVE  ResolvePy(IRs, f) = ResolvePy(jrs, f)
<1>1. jrs[f] = IRs[f] /\ f \in PyFiles
  BY PyShape DEF Same
<1>2. ASSUME NEW irs
      PROVE  ResolvePy(irs, f) = ResolvedPy(irs[f], PyEdges(irs, f), PyMeaning(irs, f), PyMissing(irs, f))
  BY DEF ResolvePy, ResolvedPy, PyEdges, PyMeaning, PyMissing, PyImportsIn
<1> DEFINE rels == IRs[f].relationships
           imports == PyImportsIn(IRs[f])
           paths == {r.to.named : r \in rels \ imports}
<1>3. PyEdges(IRs, f) = PyEdges(jrs, f)
  <2>1. \A r \in imports : PyTarget(IRs, f, r) = PyTarget(jrs, f, r)
    BY PyTargetAlike DEF PyImportsIn
  <2>2. /\ PyEdges(IRs, f) = {[r EXCEPT !.to = PyTarget(IRs, f, r)] : r \in imports}
        /\ PyEdges(jrs, f) = {[r EXCEPT !.to = PyTarget(jrs, f, r)] : r \in imports}
    BY <1>1 DEF PyEdges
  <2> HIDE DEF imports
  <2> QED
    BY <2>1, <2>2
<1>4. PyMeaning(IRs, f) = PyMeaning(jrs, f)
  <2>1. \A path \in paths : path \in Path
    BY <1>1, PyRelationships DEF PyImportsIn
  <2>2. \A path \in paths : PyMeans(IRs, f, path) = PyMeans(jrs, f, path)
    BY <2>1, PyMeansAlike
  <2>3. /\ PyMeaning(IRs, f) = [path \in paths |-> PyMeans(IRs, f, path)]
        /\ PyMeaning(jrs, f) = [path \in paths |-> PyMeans(jrs, f, path)]
    BY <1>1 DEF PyMeaning
  <2> HIDE DEF paths
  <2> QED
    BY <2>2, <2>3
<1>5. PyMissing(IRs, f) = PyMissing(jrs, f)
  <2>1. \A r \in imports : PyIsMissing(IRs, f, r) = PyIsMissing(jrs, f, r)
    BY PyTargetAlike DEF PyImportsIn
  <2> QED
    BY <1>1, <2>1 DEF PyMissing
<1> QED
  BY <1>1, <1>2, <1>3, <1>4, <1>5

(* Rust. Where the imports of each file lead, by the names they are of.     *)
RsLeadsIn(irs) == [p \in RsFiles \X Nat |-> RsLeads(p[1], RsImportOf(irs, p[1], p[2]))]

(* They lead to files and names.                                            *)
LEMMA RsImportsLead ==
  ASSUME AdaptersInv, language = "rust"
  PROVE  ImportsLead(RsLeadsIn(IRs), RsFiles)
<1> DEFINE i == RsLeadsIn(IRs)
<1>1. ASSUME NEW f \in RsFiles, NEW n \in Nat
      PROVE  i[<<f, n>>] = NONE \/ (i[<<f, n>>].file \in {NONE} \union RsFiles /\ i[<<f, n>>].name \in Nat)
  <2> DEFINE to == RsImportOf(IRs, f, n)
  <2>1. RsLeadsIn(IRs)[<<f, n>>] = RsLeads(f, to)
    BY DEF RsLeadsIn
  <2>2. to = NONE \/ to.name \in Nat
    BY RsImportOfIsImport, RsRelationships
  <2> HIDE DEF to
  <2> QED
    BY <2>1, <2>2, RsFileOfIsFile DEF RsLeads, Import
<1> HIDE DEF i
<1>2. ImportsLead(i, RsFiles)
  BY <1>1, Zenon DEF ImportsLead
<1> QED
  BY <1>2 DEF i

(* What a file imports is of the files that it names.                       *)
LEMMA RsImportsStay ==
  ASSUME AdaptersInv, language = "rust", NEW jrs, NEW S, Same(jrs, S), NEW f \in S,
         NEW r \in IRs[f].relationships, r.kind = "Imports"
  PROVE  RsFileOf(Absolutize(f, r.to.module)) \in {NONE} \union S
<1> DEFINE h == RsFileOf(Absolutize(f, r.to.module))
           imports == {q \in jrs[f].relationships : q.kind \in {"Imports", "ReExports"}}
<1>1. NamedBy(jrs, f) = {RsFileOf(Absolutize(f, q.to.module)) : q \in imports}
  BY DEF NamedBy
<1>2. r \in imports
  BY DEF Same
<1>3. h \in NamedBy(jrs, f)
  BY <1>1, <1>2
<1> HIDE DEF h
<1>4. h \in {NONE} \union RsFiles /\ DOMAIN IRs = RsFiles
  BY RsFileOfIsFile, RsShape DEF h
<1> QED
  BY <1>3, <1>4 DEF Same, h

(* A name of one of these files is found to be the same in both.            *)
LEMMA RsLookupAlike ==
  ASSUME AdaptersInv, language = "rust", NEW jrs, NEW S, Same(jrs, S), ImportsLead(RsLeadsIn(jrs), RsFiles)
  PROVE  SameFound(RsLookup(IRs), RsLookup(jrs), S, 0)
<1> DEFINE i == RsLeadsIn(IRs)
           j == RsLeadsIn(jrs)
<1>1. RsLookup(IRs) = Imported(IRs, i, MaxPubUses) /\ RsLookup(jrs) = Imported(jrs, j, MaxPubUses)
  BY DEF RsLookup, RsLeadsIn
<1>2. DOMAIN IRs = RsFiles /\ DOMAIN jrs = RsFiles /\ S \subseteq RsFiles /\ MaxPubUses \in Nat
  BY RsShape, FilesAssumption DEF Same
<1>3. ImportsLead(i, RsFiles)
  BY RsImportsLead
<1>4. ASSUME NEW f \in S, NEW name \in Nat
      PROVE  /\ ByName(IRs[f].order, name) = ByName(jrs[f].order, name)
             /\ ByName(IRs[f].order, name) # NONE => ByName(IRs[f].order, name).file \in S
             /\ i[<<f, name>>] = j[<<f, name>>]
             /\ i[<<f, name>>] # NONE => i[<<f, name>>].file \in {NONE} \union S
  <2>1. f \in RsFiles /\ jrs[f] = IRs[f]
    BY <1>2 DEF Same
  <2>2. ByName(IRs[f].order, name) # NONE => ByName(IRs[f].order, name).file \in S
    <3>1. RsRead(f) \in Seq(RsStatements) /\ IRs[f].order = InOrder(f, RsRead(f))
      BY <2>1, RsShape
    <3>2. ByName(IRs[f].order, name) \in {NONE} \union Declared(f, RsRead(f))
      BY <3>1, NameOfTheOrder
    <3> QED
      BY <3>2, DeclaredHere
  <2> DEFINE to == RsImportOf(IRs, f, name)
  <2>3. RsImportOf(jrs, f, name) = to
    BY <2>1 DEF RsImportOf
  <2>4. i[<<f, name>>] = RsLeads(f, to) /\ j[<<f, name>>] = RsLeads(f, to)
    BY <2>1, <2>3 DEF RsLeadsIn
  <2>5. RsLeads(f, to) # NONE => RsLeads(f, to).file \in {NONE} \union S
    <3>1. CASE to = NONE
      BY <3>1 DEF RsLeads
    <3>2. CASE to # NONE
      <4>1. PICK r \in IRs[f].relationships : r.kind = "Imports" /\ to = r.to
        BY <2>1, <3>2, RsImportOfIsImport
      <4> HIDE DEF to
      <4>2. RsFileOf(Absolutize(f, to.module)) \in {NONE} \union S
        BY <4>1, RsImportsStay
      <4> QED
        BY <3>2, <4>2 DEF RsLeads, Import
    <3> QED
      BY <3>1, <3>2
  <2> HIDE DEF to, i, j
  <2> QED
    BY <2>1, <2>2, <2>4, <2>5
<1> HIDE DEF i, j
<1>5. SameImports(IRs, i, jrs, j, S)
  BY <1>4, Zenon DEF SameImports
<1>6. SameFound(Imported(IRs, i, MaxPubUses), Imported(jrs, j, MaxPubUses), S, 0)
  <2>1. ImportsLead(j, RsFiles)
    BY DEF j
  <2> QED
    BY <1>2, <1>3, <1>5, <2>1, ImportedAlike
<1> QED
  BY <1>1, <1>6

(* So is what an import leads to.                                           *)
LEMMA RsTargetAlike ==
  ASSUME AdaptersInv, language = "rust", NEW jrs, NEW S, Same(jrs, S), ImportsLead(RsLeadsIn(jrs), RsFiles),
         NEW f \in S, NEW r \in IRs[f].relationships, r.kind = "Imports"
  PROVE  /\ RsTarget(IRs, f, r) = RsTarget(jrs, f, r) /\ IsOf(RsTarget(IRs, f, r), S)
         /\ RsIsMissing(IRs, f, r) = RsIsMissing(jrs, f, r)
<1> DEFINE module == Absolutize(f, r.to.module)
           h == RsFileOf(module)
           namespace == module.namespace
           name == r.to.name
           found == RsLookup(IRs)[<<h, name, 0>>]
           foundToo == RsLookup(jrs)[<<h, name, 0>>]
<1>1. h \in {NONE} \union S
  BY RsImportsStay
<1>2. name \in Nat
  <2>1. f \in RsFiles
    BY RsShape DEF Same
  <2> QED
    BY <2>1, RsRelationships
<1>3. /\ RsTarget(IRs, f, r) = IF h = NONE THEN NowhereIn(namespace)
                               ELSE IF name = All \/ found = NONE THEN ModuleSymbol(h) ELSE found
      /\ RsTarget(jrs, f, r) = IF h = NONE THEN NowhereIn(namespace)
                               ELSE IF name = All \/ foundToo = NONE THEN ModuleSymbol(h) ELSE foundToo
      /\ RsIsMissing(IRs, f, r) = (name # All /\ h # NONE /\ found = NONE)
      /\ RsIsMissing(jrs, f, r) = (name # All /\ h # NONE /\ foundToo = NONE)
  <2>1. /\ RsTarget(IRs, f, r) = RsTargetIn(IRs, h, namespace, name)
        /\ RsTarget(jrs, f, r) = RsTargetIn(jrs, h, namespace, name)
        /\ RsIsMissing(IRs, f, r) = RsIsMissingIn(IRs, h, name)
        /\ RsIsMissing(jrs, f, r) = RsIsMissingIn(jrs, h, name)
    BY DEF RsTarget, RsTargetOf, RsIsMissing
  <2> HIDE DEF h, namespace, name
  <2> QED
    BY <2>1 DEF RsTargetIn, OrModule, RsIsMissingIn
<1>4. SameFound(RsLookup(IRs), RsLookup(jrs), S, 0)
  BY RsLookupAlike
<1> HIDE DEF h, namespace, name
<1>5. h # NONE => found = foundToo /\ (found # NONE => found.file \in S)
  BY <1>1, <1>2, <1>4 DEF SameFound
<1>6. /\ NowhereIn(namespace) = NONE \/ IsPackage(NowhereIn(namespace))
      /\ ModuleSymbol(h).file = h
  BY PackagesAndSymbols DEF ModuleSymbol, NowhereIn
<1> HIDE DEF found, foundToo
<1> QED
  BY <1>1, <1>3, <1>5, <1>6 DEF IsOf

(* And what a name of the file leads to.                                    *)
LEMMA RsLocalIsOf ==
  ASSUME AdaptersInv, language = "rust", NEW jrs, NEW S, Same(jrs, S), ImportsLead(RsLeadsIn(jrs), RsFiles),
         NEW f \in S, NEW name
  PROVE  IsOf(RsLocal(IRs[f], RsTargets(f), name), S)
<1> DEFINE targets == RsTargets(f)
           of == {r \in DOMAIN targets : RsLocalName(r) = name /\ targets[r] # NONE}
<1>1. RsLocal(IRs[f], targets, name) = IF of = {} THEN ByName(IRs[f].order, name) ELSE targets[Latest(of)]
  BY DEF RsLocal
<1>2. \A r \in of : r \in IRs[f].relationships /\ r.kind = "Imports" /\ targets[r] = RsTarget(IRs, f, r)
  BY DEF RsTargets, ImportsIn
<1>3. f \in RsFiles
  BY RsShape DEF Same
<1> HIDE DEF of, targets
<1>4. CASE of = {}
  <2>1. RsRead(f) \in Seq(RsStatements) /\ IRs[f].order = InOrder(f, RsRead(f))
    BY <1>3, RsShape
  <2>2. ByName(IRs[f].order, name) \in {NONE} \union Declared(f, RsRead(f))
    BY <2>1, NameOfTheOrder
  <2>3. ByName(IRs[f].order, name) # NONE => ByName(IRs[f].order, name).file = f
    BY <2>2, DeclaredHere
  <2> QED
    BY <1>1, <1>4, <2>3 DEF IsOf, targets
<1>5. CASE of # {}
  <2> DEFINE r == Latest(of)
  <2>1. r \in of
    BY <1>2, <1>3, <1>5, RsLatestImport
  <2> HIDE DEF r
  <2>2. IsOf(RsTarget(IRs, f, r), S)
    BY <1>2, <2>1, RsTargetAlike
  <2> QED
    BY <1>1, <1>2, <1>5, <2>1, <2>2 DEF r, targets
<1> QED
  BY <1>4, <1>5

(* A file is resolved by what its imports and the methods of its types are. *)
ResolvedRs(ir, targets, missing, bound) ==
  LET types == {r \in ir.relationships : r.kind \notin {"Imports", "Calls", "Instantiates"}}
      local(r) == RsLocal(ir, targets, r.to.named[1])
      unknown == {r \in DOMAIN targets : targets[r] = NONE}
      lost == {r \in types : local(r) = NONE}
  IN  [ir EXCEPT
         !.relationships = {[r EXCEPT !.to = targets[r]] : r \in DOMAIN targets \ unknown}
                             \union BoundCalls(bound)
                             \union {[r EXCEPT !.to = local(r)] : r \in types \ lost},
         !.diagnostics = {r.line : r \in unknown \union missing
                                           \union {r \in lost : r.to.named \notin RsBuiltin}}]
RsTargetsIn(irs, f) == [r \in ImportsIn(irs[f]) |-> RsTarget(irs, f, r)]
RsMissing(irs, f) == {r \in ImportsIn(irs[f]) : RsIsMissing(irs, f, r)}
RsCallsOf(ir) == {r \in ir.relationships : r.kind \in {"Calls", "Instantiates"}}
RsBoundIn(irs, f, targets) ==
  {<<r, RsCallee(irs, RsLocal(irs[f], targets, r.to.named[1]), r.to.named)>> : r \in RsCallsOf(irs[f])}

(* So a Rust file that names none of the others is resolved alike.          *)
LEMMA RsAlike ==
  ASSUME AdaptersInv, language = "rust", NEW jrs, NEW S, Same(jrs, S), ImportsLead(RsLeadsIn(jrs), RsFiles),
         NEW f \in S
  PROVE  ResolveRs(IRs, f) = ResolveRs(jrs, f)
<1>1. jrs[f] = IRs[f] /\ f \in RsFiles
  BY RsShape DEF Same
<1>2. ASSUME NEW irs, NEW targets, targets = RsTargetsIn(irs, f)
      PROVE  ResolveRs(irs, f) = ResolvedRs(irs[f], targets, RsMissing(irs, f), RsBoundIn(irs, f, targets))
  <2>1. ResolveRs(irs, f) = ResolveWith(irs, f, targets, RsMissing(irs, f))
    BY <1>2 DEF ResolveRs, RsTargetsIn, RsMissing
  <2> QED
    BY <2>1 DEF ResolveWith, ResolvedRs, RsBoundIn, RsCallsOf
<1> DEFINE imports == ImportsIn(IRs[f])
           targets == RsTargets(f)
<1>3. \A r \in imports : r \in IRs[f].relationships /\ r.kind = "Imports"
  BY DEF ImportsIn
<1>4. RsTargetsIn(IRs, f) = targets /\ RsTargetsIn(jrs, f) = targets
  <2>1. \A r \in imports : RsTarget(IRs, f, r) = RsTarget(jrs, f, r)
    BY <1>3, RsTargetAlike
  <2>2. /\ RsTargetsIn(IRs, f) = [r \in imports |-> RsTarget(IRs, f, r)]
        /\ RsTargetsIn(jrs, f) = [r \in imports |-> RsTarget(jrs, f, r)]
        /\ targets = [r \in imports |-> RsTarget(IRs, f, r)]
    BY <1>1 DEF RsTargetsIn, RsTargets
  <2> HIDE DEF imports, targets
  <2> QED
    BY <2>1, <2>2
<1>5. RsMissing(IRs, f) = RsMissing(jrs, f)
  <2>1. \A r \in imports : RsIsMissing(IRs, f, r) = RsIsMissing(jrs, f, r)
    BY <1>3, RsTargetAlike
  <2>2. /\ RsMissing(IRs, f) = {r \in imports : RsIsMissing(IRs, f, r)}
        /\ RsMissing(jrs, f) = {r \in imports : RsIsMissing(jrs, f, r)}
    BY <1>1 DEF RsMissing
  <2> HIDE DEF imports
  <2> QED
    BY <2>1, <2>2
<1>6. RsBoundIn(IRs, f, targets) = RsBoundIn(jrs, f, targets)
  <2> DEFINE calls == RsCallsOf(IRs[f])
             local(r) == RsLocal(IRs[f], targets, r.to.named[1])
  <2>1. ASSUME NEW r PROVE RsCallee(IRs, local(r), r.to.named) = RsCallee(jrs, local(r), r.to.named)
    <3> DEFINE type == local(r)
               path == r.to.named
    <3>1. IsOf(type, S)
      BY RsLocalIsOf
    <3> HIDE DEF type, path
    <3>2. type # NONE /\ ~IsPackage(type) => IRs[type.file] = jrs[type.file]
      BY <3>1 DEF IsOf, Same
    <3>3. MethodOf(IRs, type, path) = MethodOf(jrs, type, path)
      BY <3>2 DEF MethodOf
    <3>4. RsCallee(IRs, type, path) = RsCallee(jrs, type, path)
      BY <3>3 DEF RsCallee
    <3> QED
      BY <3>4 DEF type, path
  <2>2. /\ RsBoundIn(IRs, f, targets) = {<<r, RsCallee(IRs, local(r), r.to.named)>> : r \in calls}
        /\ RsBoundIn(jrs, f, targets) = {<<r, RsCallee(jrs, local(r), r.to.named)>> : r \in calls}
    BY <1>1 DEF RsBoundIn
  <2> HIDE DEF calls, local
  <2> QED
    BY <2>1, <2>2
<1> HIDE DEF targets
<1>7. /\ ResolveRs(IRs, f) = ResolvedRs(IRs[f], targets, RsMissing(IRs, f), RsBoundIn(IRs, f, targets))
      /\ ResolveRs(jrs, f) = ResolvedRs(jrs[f], targets, RsMissing(jrs, f), RsBoundIn(jrs, f, targets))
  BY <1>2, <1>4
<1> QED
  BY <1>1, <1>5, <1>6, <1>7

(* Go. The files of its directory and of its package are named by a file,   *)
(* and those of the packages that it imports.                               *)
LEMMA GoImportsStay ==
  ASSUME AdaptersInv, language = "go", NEW jrs, NEW S, Same(jrs, S), NEW f \in S
  PROVE  /\ {g \in GoFiles : GoDirectory[g] = GoDirectory[f]} \subseteq S
         /\ ImportPath(GoDirectory[f]) # NONE => GoPackage(ImportPath(GoDirectory[f])) \subseteq S
         /\ \A r \in IRs[f].relationships : r.kind = "Imports" => GoPackage(r.to.path) \subseteq S
<1> DEFINE imports == {q \in jrs[f].relationships : q.kind \in {"Imports", "ReExports"}}
           beside == {g \in GoFiles : GoDirectory[g] = GoDirectory[f]}
           imported == UNION {GoPackage(r.to.path) : r \in imports}
<1>1. NamedBy(jrs, f) = beside \union PackageOfFile(f) \union imported
  BY DEF NamedBy
<1>2. \A path : GoPackage(path) \subseteq GoFiles
  BY DEF GoPackage
<1>3. DOMAIN IRs = GoFiles /\ jrs[f] = IRs[f] /\ NamedBy(jrs, f) \intersect GoFiles \subseteq S
  BY GoShape DEF Same
<1>4. \A r \in IRs[f].relationships : r.kind = "Imports" => GoPackage(r.to.path) \subseteq imported
  BY <1>3
<1>5. ImportPath(GoDirectory[f]) # NONE => GoPackage(ImportPath(GoDirectory[f])) = PackageOfFile(f)
  BY DEF PackageOfFile
<1>6. beside \subseteq GoFiles
  OBVIOUS
<1> HIDE DEF beside, imported
<1>7. /\ beside \subseteq S
      /\ ImportPath(GoDirectory[f]) # NONE => GoPackage(ImportPath(GoDirectory[f])) \subseteq S
      /\ \A r \in IRs[f].relationships : r.kind = "Imports" => GoPackage(r.to.path) \subseteq S
  BY <1>1, <1>2, <1>3, <1>4, <1>5, <1>6
<1> QED
  BY <1>7 DEF beside

(* A name of some of these files is the same in both.                       *)
LEMMA GoDeclaredAlike ==
  ASSUME AdaptersInv, language = "go", NEW jrs, NEW S, Same(jrs, S), NEW files, files \subseteq S, NEW name
  PROVE  GoDeclaredIn(IRs, files, name) = GoDeclaredIn(jrs, files, name)
<1> DEFINE declare == {f \in files : ByName(IRs[f].order, name) # NONE}
           order == IRs[OwnerOf(declare)].order
           orderToo == jrs[OwnerOf(declare)].order
<1>1. \A f \in files : jrs[f] = IRs[f] /\ f \in GoFiles
  BY GoShape DEF Same
<1>2. {f \in files : ByName(jrs[f].order, name) # NONE} = declare
  BY <1>1
<1>3. declare \subseteq files
  OBVIOUS
<1>4. /\ GoDeclaredIn(IRs, files, name) = IF declare = {} THEN NONE ELSE FirstSymbol(order, NamedAt(order, name))
      /\ GoDeclaredIn(jrs, files, name) = IF declare = {} THEN NONE ELSE FirstSymbol(orderToo, NamedAt(orderToo, name))
  <2> DEFINE declareToo == {f \in files : ByName(jrs[f].order, name) # NONE}
  <2>1. GoDeclaredIn(jrs, files, name)
          = IF declareToo = {} THEN NONE
            ELSE FirstSymbol(jrs[OwnerOf(declareToo)].order, NamedAt(jrs[OwnerOf(declareToo)].order, name))
    BY DEF GoDeclaredIn
  <2>2. GoDeclaredIn(IRs, files, name) = IF declare = {} THEN NONE ELSE FirstSymbol(order, NamedAt(order, name))
    BY DEF GoDeclaredIn
  <2> HIDE DEF declare, declareToo
  <2> QED
    BY <1>2, <2>1, <2>2 DEF declareToo
<1> HIDE DEF declare
<1>5. declare # {} => OwnerOf(declare) \in files
  BY <1>1, <1>3, OwnerIsOne
<1>6. declare # {} => order = orderToo
  BY <1>1, <1>5
<1> HIDE DEF order, orderToo
<1> QED
  BY <1>4, <1>6

(* What a name of the file means is the same in both.                       *)
LEMMA GoNameAlike ==
  ASSUME AdaptersInv, language = "go", NEW jrs, NEW S, Same(jrs, S), NEW f \in S, NEW path
  PROVE  /\ GoName(IRs, f, path) = GoName(jrs, f, path)
         /\ GoPackageNamed(IRs, f, path[1]) = GoPackageNamed(jrs, f, path[1])
<1> DEFINE own == ImportPath(GoDirectory[f])
           first == path[1]
           second == path[2]
           imported == GoPackageNamed(IRs, f, first)
           files == GoPackage(own)
<1>1. jrs[f] = IRs[f] /\ f \in GoFiles
  BY GoShape DEF Same
<1>2. GoPackageNamed(jrs, f, first) = imported
  BY <1>1 DEF GoPackageNamed
<1>3. imported \subseteq S
  <2> DEFINE imports == {r \in IRs[f].relationships :
                           r.kind = "Imports" /\ GoLocalName(r) = first /\ GoPackage(r.to.path) # {}}
             latest == Latest(imports)
  <2>1. imported = IF imports = {} THEN {} ELSE GoPackage(latest.to.path)
    BY DEF GoPackageNamed
  <2>2. \A r \in imports : r.line \in 1 .. Len(GoRead(f)) /\ r \in IRs[f].relationships /\ r.kind = "Imports"
    <3>1. ASSUME NEW r \in IRs[f].relationships, r.kind = "Imports" PROVE r.line \in 1 .. Len(GoRead(f))
      <4>1. /\ GoRead(f) \in Seq(GoStatements)
            /\ IRs[f].relationships = GoImports(f, GoRead(f)) \union GoCalls(f, GoRead(f))
                                        \union GoAccesses(f, GoRead(f)) \union GoTypeReferences(f, GoRead(f))
        BY <1>1, GoShape
      <4>2. ASSUME r \in GoCalls(f, GoRead(f)) PROVE FALSE
        <5>1. PICK i \in DOMAIN GoRead(f) :
                GoRead(f)[i].is = "use" /\ r = Rel(ModuleSymbol(f), Named(GoRead(f)[i].path), GoRead(f)[i].kind, NONE, i)
          BY <4>2 DEF GoCalls, Statements
        <5>2. GoRead(f)[i] \in GoStatements
          BY <4>1
        <5>3. GoRead(f)[i].kind # "Imports"
          BY <5>1, <5>2 DEF GoStatements, SharedStatements
        <5> QED
          BY <3>1, <5>1, <5>3 DEF Rel
      <4>3. r \notin GoAccesses(f, GoRead(f)) /\ r \notin GoTypeReferences(f, GoRead(f))
        <5>1. ASSUME r \in GoAccesses(f, GoRead(f)) PROVE FALSE
          <6>1. PICK a : r = Rel(ModuleSymbol(f), Named(a[2]), "AccessesProperty", NONE, a[1])
            BY <5>1 DEF GoAccesses
          <6> QED
            BY <3>1, <6>1 DEF Rel
        <5>2. ASSUME r \in GoTypeReferences(f, GoRead(f)) PROVE FALSE
          <6>1. PICK a : r = Rel(ModuleSymbol(f), Named(a[2]), "UsesType", NONE, a[1])
            BY <5>2 DEF GoTypeReferences
          <6> QED
            BY <3>1, <6>1 DEF Rel
        <5> QED
          BY <5>1, <5>2
      <4>4. r \in GoImports(f, GoRead(f))
        BY <4>1, <4>2, <4>3
      <4>5. r.line \in DOMAIN GoRead(f)
        BY <4>4 DEF GoImports, Statements, Rel
      <4> QED
        BY <4>1, <4>5
    <3> QED
      BY <3>1
  <2>3. Len(GoRead(f)) \in Nat
    <3>1. GoRead(f) \in Seq(GoStatements)
      BY <1>1, GoShape
    <3> QED
      BY <3>1
  <2> HIDE DEF imports
  <2>4. imports # {} => latest \in imports
    BY <2>2, <2>3, LatestIsOne
  <2> HIDE DEF latest
  <2>5. imports # {} => GoPackage(latest.to.path) \subseteq S
    BY <2>2, <2>4, GoImportsStay
  <2> QED
    BY <2>1, <2>5
<1>4. own # NONE => files \subseteq S
  BY GoImportsStay
<1>5. /\ GoName(IRs, f, path) = IF Len(path) = 1 THEN IF own = NONE THEN NONE ELSE GoDeclaredIn(IRs, files, first)
                                ELSE GoDeclaredIn(IRs, imported, second)
      /\ GoName(jrs, f, path) = IF Len(path) = 1 THEN IF own = NONE THEN NONE ELSE GoDeclaredIn(jrs, files, first)
                                ELSE GoDeclaredIn(jrs, imported, second)
  <2>1. /\ GoName(IRs, f, path) = IF Len(path) = 1 THEN IF own = NONE THEN NONE ELSE GoDeclaredIn(IRs, files, first)
                                  ELSE GoDeclaredIn(IRs, imported, second)
        /\ GoName(jrs, f, path) = IF Len(path) = 1 THEN IF own = NONE THEN NONE ELSE GoDeclaredIn(jrs, files, first)
                                  ELSE GoDeclaredIn(jrs, GoPackageNamed(jrs, f, first), second)
    BY DEF GoName
  <2> HIDE DEF own, first, second, imported, files
  <2> QED
    BY <1>2, <2>1
<1> HIDE DEF own, first, second, imported, files
<1>6. GoDeclaredIn(IRs, imported, second) = GoDeclaredIn(jrs, imported, second)
  BY <1>3, GoDeclaredAlike
<1>7. own # NONE => GoDeclaredIn(IRs, files, first) = GoDeclaredIn(jrs, files, first)
  BY <1>4, GoDeclaredAlike
<1> QED
  BY <1>2, <1>5, <1>6, <1>7 DEF first, imported

(* What a type of the file implements is the same in both.                  *)
LEMMA GoImplementationsAlike ==
  ASSUME AdaptersInv, language = "go", NEW jrs, NEW S, Same(jrs, S), NEW f \in S
  PROVE  Implementations(IRs, f) = Implementations(jrs, f)
<1> DEFINE dir == GoDirectory[f]
           beside == {g \in GoFiles : GoDirectory[g] = dir}
           all == SymbolsIn(IRs, dir)
           classes == {s \in IRs[f].symbols : s.kind = "class" /\ FirstClass(IRs, f, s)}
           interfaces == {i \in all : i.kind = "interface" /\ Required(IRs, i) # {}}
<1>1. f \in GoFiles /\ \A g \in beside : jrs[g] = IRs[g]
  BY GoShape, GoImportsStay DEF Same
<1>2. f \in beside /\ jrs[f] = IRs[f]
  BY <1>1
<1>3. \A irs : SymbolsIn(irs, dir) = UNION {irs[g].symbols : g \in beside}
  BY DEF SymbolsIn
<1>4. \A s \in all : s.file \in beside
  <2>1. ASSUME NEW g \in beside, NEW s \in IRs[g].symbols PROVE s.file = g
    BY <2>1, GoShape, DeclaredHere DEF ModuleSymbol
  <2> QED
    BY <1>3, <2>1
<1>5. SymbolsIn(jrs, dir) = all
  <2> HIDE DEF dir, beside
  <2>1. {IRs[g].symbols : g \in beside} = {jrs[g].symbols : g \in beside}
    BY <1>1
  <2> QED
    BY <1>3, <2>1
<1>6. {s \in jrs[f].symbols : s.kind = "class" /\ FirstClass(jrs, f, s)} = classes
  <2>1. \A s : FirstClass(jrs, f, s) = FirstClass(IRs, f, s)
    BY <1>1 DEF FirstClass
  <2> QED
    BY <1>2, <2>1
<1>7. \A i \in all : Required(IRs, i) = Required(jrs, i)
  BY <1>1, <1>4 DEF Required
<1>8. \A type : MethodsOf(IRs, dir, type) = MethodsOf(jrs, dir, type)
  <2>1. \A type : \A s \in all : IsInterface(IRs, s.file, type) = IsInterface(jrs, s.file, type)
    BY <1>1, <1>4 DEF IsInterface
  <2> HIDE DEF all, dir
  <2>2. ASSUME NEW type PROVE MethodsOf(IRs, dir, type) = MethodsOf(jrs, dir, type)
    <3> DEFINE of(irs) == {s \in all : s.kind = "method" /\ s.owner = type /\ ~IsInterface(irs, s.file, type)}
    <3>1. of(IRs) = of(jrs)
      BY <2>1
    <3>2. MethodsOf(IRs, dir, type) = {s.name : s \in of(IRs)} /\ MethodsOf(jrs, dir, type) = {s.name : s \in of(jrs)}
      BY <1>5 DEF MethodsOf, all
    <3> QED
      BY <3>1, <3>2
  <2> QED
    BY <2>2
<1>9. {i \in SymbolsIn(jrs, dir) : i.kind = "interface" /\ Required(jrs, i) # {}} = interfaces
  <2> HIDE DEF all, dir
  <2> QED
    BY <1>5, <1>7
<1> DEFINE matching(irs) == {p \in classes \X interfaces : Required(irs, p[2]) \subseteq MethodsOf(irs, dir, p[1].name)}
<1>10. matching(IRs) = matching(jrs)
  <2>1. interfaces \subseteq all
    OBVIOUS
  <2> HIDE DEF all, dir, classes, interfaces
  <2> QED
    BY <1>7, <1>8, <2>1
<1>11. /\ Implementations(IRs, f) = {Rel(p[1], p[2], "Implements", NONE, 0) : p \in matching(IRs)}
       /\ Implementations(jrs, f) = {Rel(p[1], p[2], "Implements", NONE, 0) : p \in matching(jrs)}
  <2> DEFINE classesToo == {s \in jrs[f].symbols : s.kind = "class" /\ FirstClass(jrs, f, s)}
             interfacesToo == {i \in SymbolsIn(jrs, dir) : i.kind = "interface" /\ Required(jrs, i) # {}}
  <2>1. Implementations(IRs, f) = {Rel(p[1], p[2], "Implements", NONE, 0) : p \in matching(IRs)}
    BY DEF Implementations
  <2>2. Implementations(jrs, f) =
          {Rel(p[1], p[2], "Implements", NONE, 0) :
             p \in {p \in classesToo \X interfacesToo : Required(jrs, p[2]) \subseteq MethodsOf(jrs, dir, p[1].name)}}
    BY DEF Implementations
  <2>3. classesToo = classes /\ interfacesToo = interfaces
    BY <1>6, <1>9
  <2> HIDE DEF classes, interfaces, classesToo, interfacesToo, dir
  <2> QED
    BY <2>1, <2>2, <2>3
<1> HIDE DEF matching
<1> QED
  BY <1>10, <1>11

(* A file is resolved by what its names and its types are.                  *)
ResolvedGo(ir, file, means, lost, implementations) ==
  LET rels == ir.relationships
      imports == {r \in rels : r.kind = "Imports"}
      to(r) == means[r.to.named]
      isCall(r) == r.kind \in {"Calls", "Instantiates"}
      kept == {r \in rels \ imports : to(r) # NONE}
      unindexed == {r \in imports : GoPackage(r.to.path) = {} /\ IsLocalImport(r.to.path)}
      package == ImportPath(GoDirectory[file])
      hosts == package # NONE /\ OwnerOf(GoPackage(package)) = file
  IN  [ir EXCEPT
         !.symbols = @ \union (IF hosts THEN {PackageSymbol(package)} ELSE {}),
         !.relationships =
           {[r EXCEPT !.to = GoTarget(r.to.path)] : r \in imports}
             \union {[r EXCEPT !.to = to(r), !.kind = IF isCall(r) /\ to(r).kind = "class"
                                                         THEN "Instantiates" ELSE @] : r \in kept}
             \union implementations,
         !.diagnostics = {r.line : r \in unindexed \union lost}]
GoMeaning(irs, f) ==
  LET rels == irs[f].relationships
      imports == {r \in rels : r.kind = "Imports"}
  IN  [path \in {r.to.named : r \in rels \ imports} |-> GoName(irs, f, path)]
GoLost(irs, f, means) ==
  LET rels == irs[f].relationships
      imports == {r \in rels : r.kind = "Imports"}
      to(r) == means[r.to.named]
      isCall(r) == r.kind \in {"Calls", "Instantiates"}
      kept == {r \in rels \ imports : to(r) # NONE}
      lost == {r \in rels \ (imports \union kept) : ~isCall(r)}
      isExternal(path) == Len(path) > 1 /\ GoPackageNamed(irs, f, path[1]) = {}
  IN  {r \in lost : ~isExternal(r.to.named) /\ r.to.named \notin GoBuiltin}

(* So a Go file that names none of the others is resolved alike.            *)
LEMMA GoAlike ==
  ASSUME AdaptersInv, language = "go", NEW jrs, NEW S, Same(jrs, S), NEW f \in S
  PROVE  ResolveGo(IRs, f) = ResolveGo(jrs, f)
<1>1. jrs[f] = IRs[f] /\ f \in GoFiles
  BY GoShape DEF Same
<1>2. ASSUME NEW irs
      PROVE  ResolveGo(irs, f) = ResolvedGo(irs[f], f, GoMeaning(irs, f), GoLost(irs, f, GoMeaning(irs, f)),
                                            Implementations(irs, f))
  BY DEF ResolveGo, ResolvedGo, GoMeaning, GoLost
<1>3. GoMeaning(IRs, f) = GoMeaning(jrs, f)
  <2> DEFINE rels == IRs[f].relationships
             imports == {r \in rels : r.kind = "Imports"}
             paths == {r.to.named : r \in rels \ imports}
  <2>1. /\ GoMeaning(IRs, f) = [path \in paths |-> GoName(IRs, f, path)]
        /\ GoMeaning(jrs, f) = [path \in paths |-> GoName(jrs, f, path)]
    BY <1>1 DEF GoMeaning
  <2> HIDE DEF paths
  <2>2. \A path \in paths : GoName(IRs, f, path) = GoName(jrs, f, path)
    BY GoNameAlike
  <2> QED
    BY <2>1, <2>2
<1>4. \A means : GoLost(IRs, f, means) = GoLost(jrs, f, means)
  <2>1. ASSUME NEW path PROVE GoPackageNamed(IRs, f, path[1]) = GoPackageNamed(jrs, f, path[1])
    BY GoNameAlike
  <2> QED
    BY <1>1, <2>1 DEF GoLost
<1>5. Implementations(IRs, f) = Implementations(jrs, f)
  BY GoImplementationsAlike
<1> QED
  BY <1>1, <1>2, <1>3, <1>4, <1>5

(* TypeScript. What some files export under a name, and what they pass it   *)
(* on of, in two analyses.                                                  *)
PassAlike(own, to, ownToo, toToo, S) ==
  \A x \in S : own[x] = ownToo[x] /\ to[x] = toToo[x] /\ to[x] \in {NONE} \union S
FollowAlike(F, G, P, S) == \A x \in S : \A V \in SUBSET P : F[<<x, V>>] = G[<<x, V>>]

(* What is followed from file to file is the same in both, if               *)
(* what these files export and pass on is, and they pass on of no others.   *)
LEMMA VisitsAlike ==
  ASSUME NEW P, IsFiniteSet(P), NEW limit, NEW S \in SUBSET P,
         NEW F, NEW own, NEW to, Visits(F, P, limit, own, to),
         NEW G, NEW ownToo, NEW toToo, Visits(G, P, limit, ownToo, toToo),
         PassAlike(own, to, ownToo, toToo, S)
  PROVE  FollowAlike(F, G, P, S)
<1> DEFINE n == Cardinality(P)
           Q == {k \in 0 .. n : \A x \in S : \A V \in SUBSET P : n - Cardinality(V) = k => F[<<x, V>>] = G[<<x, V>>]}
<1>1. n \in Nat
  BY FS_CardinalityType
<1>2. ASSUME NEW V \in SUBSET P PROVE IsFiniteSet(V) /\ Cardinality(V) \in Nat /\ Cardinality(V) <= n
  BY <1>2, FS_Subset, FS_CardinalityType
<1>3. ASSUME NEW x \in S, NEW V \in SUBSET P
      PROVE  /\ ComesTo(F, limit, own, to, x, V) /\ ComesTo(G, limit, ownToo, toToo, x, V)
             /\ own[x] = ownToo[x] /\ to[x] = toToo[x] /\ to[x] \in {NONE} \union S
  BY DEF Visits, PassAlike
<1>4. ASSUME NEW x \in S, NEW V \in SUBSET P,
             to[x] \notin {NONE} \union V => F[<<to[x], V \union {to[x]}>>] = G[<<to[x], V \union {to[x]}>>]
      PROVE  F[<<x, V>>] = G[<<x, V>>]
  <2> DEFINE y == to[x]
             W == V \union {y}
  <2>1. /\ F[<<x, V>>] = IF Cardinality(V) > limit \/ y \in {NONE} \union V THEN NONE
                         ELSE IF own[y] # NONE THEN own[y] ELSE F[<<y, W>>]
        /\ G[<<x, V>>] = IF Cardinality(V) > limit \/ y \in {NONE} \union V THEN NONE
                         ELSE IF ownToo[y] # NONE THEN ownToo[y] ELSE G[<<y, W>>]
    <3>1. toToo[x] = y /\ ComesTo(F, limit, own, to, x, V) /\ ComesTo(G, limit, ownToo, toToo, x, V)
      BY <1>3
    <3> QED
      BY <3>1 DEF ComesTo
  <2>2. y \notin {NONE} \union V => own[y] = ownToo[y] /\ F[<<y, W>>] = G[<<y, W>>]
    BY <1>3, <1>4
  <2> HIDE DEF y, W
  <2> QED
    BY <2>1, <2>2
<1>5. 0 \in Q
  <2>1. ASSUME NEW x \in S, NEW V \in SUBSET P, n - Cardinality(V) = 0 PROVE F[<<x, V>>] = G[<<x, V>>]
    <3>1. V = P
      BY <1>1, <1>2, <2>1, FS_Subset
    <3>2. to[x] \in {NONE} \union V
      BY <1>3, <3>1
    <3> QED
      BY <1>4, <3>2
  <2> QED
    BY <1>1, <2>1
<1>6. ASSUME NEW k \in 1 .. n, k - 1 \in Q PROVE k \in Q
  <2>1. ASSUME NEW x \in S, NEW V \in SUBSET P, n - Cardinality(V) = k PROVE F[<<x, V>>] = G[<<x, V>>]
    <3> DEFINE y == to[x]
               W == V \union {y}
    <3>1. ASSUME y \notin {NONE} \union V PROVE F[<<y, W>>] = G[<<y, W>>]
      <4>1. y \in S /\ W \in SUBSET P
        BY <1>3, <3>1
      <4>2. Cardinality(W) = Cardinality(V) + 1
        BY <1>2, <3>1, FS_AddElement
      <4>3. n - Cardinality(W) = k - 1
        BY <1>1, <1>2, <2>1, <4>2
      <4> HIDE DEF y, W
      <4> QED
        BY <1>6, <4>1, <4>3
    <3> QED
      BY <1>4, <3>1
  <2> QED
    BY <1>1, <2>1
<1> HIDE DEF Q
<1>7. \A k \in 0 .. n : k \in Q
  BY <1>1, <1>5, <1>6, UpTo
<1>8. ASSUME NEW x \in S, NEW V \in SUBSET P PROVE F[<<x, V>>] = G[<<x, V>>]
  <2>1. n - Cardinality(V) \in 0 .. n
    BY <1>1, <1>2
  <2> QED
    BY <1>7, <2>1 DEF Q
<1> QED
  BY <1>8, Zenon DEF FollowAlike

(* The symbols of every file are some of its own.                           *)
TsAreSymbols(irs) ==
  \A g \in TsKnown : IsFiniteSet(irs[g].symbols) /\ \A s \in irs[g].symbols : IsTsSymbol(g, s)

(* What a file imports or passes on is of the files that it names.          *)
LEMMA TsImportsStay ==
  ASSUME AdaptersInv, language = "typescript", NEW jrs, NEW S, Same(jrs, S), NEW f \in S
  PROVE  /\ \A r \in IRs[f].relationships : r.kind \in {"Imports", "ReExports"} =>
              \A g \in {Ts!TargetFile(r.to.import), Ts!ByTsConfig(r.to.import)} : g \in TsKnown => g \in S
         /\ \A name : Ts!PassedFrom(IRs[f], name) \in {NONE} \union S
<1> DEFINE imports == {q \in jrs[f].relationships : q.kind \in {"Imports", "ReExports"}}
<1>1. NamedBy(jrs, f) = {Ts!TargetFile(r.to.import) : r \in imports} \union {Ts!ByTsConfig(r.to.import) : r \in imports}
  BY DEF NamedBy
<1>2. DOMAIN IRs = TsKnown /\ jrs[f] = IRs[f] /\ f \in TsKnown /\ NamedBy(jrs, f) \intersect TsKnown \subseteq S
  BY TsShape DEF Same
<1>3. ASSUME NEW r \in IRs[f].relationships, r.kind \in {"Imports", "ReExports"},
             NEW g \in {Ts!TargetFile(r.to.import), Ts!ByTsConfig(r.to.import)}, g \in TsKnown
      PROVE  g \in S
  <2>1. r \in imports
    BY <1>2, <1>3
  <2>2. g \in NamedBy(jrs, f)
    BY <1>1, <1>3, <2>1
  <2> QED
    BY <1>2, <1>3, <2>2
<1>4. ASSUME NEW name PROVE Ts!PassedFrom(IRs[f], name) \in {NONE} \union S
  <2> DEFINE g == Ts!PassedFrom(IRs[f], name)
  <2>1. g \in {NONE} \union TsKnown
    BY PassedFromIsFile
  <2>2. CASE g # NONE /\ name # Ts!Star
    <3>1. PICK k \in Written(f, {"import", "reexport", "usetree"}) :
            sources[f][k].is = "reexport" /\ g = Ts!TargetFile(sources[f][k].spec)
      BY <1>2, <2>2, TsPassedFrom
    <3>2. TsRead(f) = sources[f] /\ k \in DOMAIN TsRead(f)
      BY <1>2, TsWritten
    <3> DEFINE r == TsTakenAt(f, k)
    <3>3. r \in IRs[f].relationships /\ r.to = Ts!ImportOf(sources[f][k].spec, sources[f][k].name)
      BY <1>2, <3>1, <3>2, TsTakenOnce
    <3>4. r.kind = "ReExports"
      BY <3>1, <3>2 DEF TsTakenAt, Ts!Rel
    <3>5. g = Ts!TargetFile(r.to.import)
      BY <3>1, <3>3 DEF Ts!ImportOf
    <3> HIDE DEF r, g
    <3>6. g \in S
      BY <1>3, <2>1, <2>2, <3>3, <3>4, <3>5
    <3> QED
      BY <3>6 DEF g
  <2>3. CASE name = Ts!Star
    <3>1. IRs[f].reexports = Ts!ReexportEntries(TsRead(f))
      <4>1. FilesOf(language) = TsKnown
        BY DEF FilesOf
      <4>2. IRs[f] = Extract(language, f, sources[f])
        BY <1>2, <4>1, Analysed
      <4>3. IRs[f] = Ts!ExtractTs(f, TsRead(f))
        BY <4>2 DEF Extract, Ts!TsFileIR, TsRead, Read
      <4> QED
        BY <4>3 DEF Ts!ExtractTs
    <3>2. {e \in IRs[f].reexports : e.name = name} = {}
      BY <2>3, <3>1 DEF Ts!ReexportEntries
    <3> QED
      BY <3>2 DEF Ts!PassedFrom
  <2> HIDE DEF g
  <2> QED
    BY <2>2, <2>3 DEF g
<1> QED
  BY <1>3, <1>4

(* So what is asked of one of these files is answered alike.                *)
LEMMA TsLookupAlike ==
  ASSUME AdaptersInv, language = "typescript", NEW jrs, NEW S, Same(jrs, S), TsAreSymbols(jrs),
         NEW g \in S, NEW name
  PROVE  Ts!Lookup(IRs, g, name) = Ts!Lookup(jrs, g, name)
<1> DEFINE F == Ts!Follow(IRs, name)
           G == Ts!Follow(jrs, name)
           own == ExportedBy(IRs, name)
           ownToo == ExportedBy(jrs, name)
           to == PassedOnFrom(IRs, name)
           toToo == PassedOnFrom(jrs, name)
<1>1. /\ DOMAIN IRs = TsKnown /\ DOMAIN jrs = TsKnown /\ S \in SUBSET TsKnown /\ IsFiniteSet(TsKnown)
      /\ \A x \in S : jrs[x] = IRs[x]
  BY TsShape DEF Same
<1>2. PassAlike(own, to, ownToo, toToo, S)
  <2>1. ASSUME NEW x \in S PROVE own[x] = ownToo[x] /\ to[x] = toToo[x] /\ to[x] = Ts!PassedFrom(IRs[x], name)
    BY <1>1 DEF ExportedBy, PassedOnFrom
  <2> HIDE DEF own, ownToo, to, toToo
  <2> QED
    BY <2>1, TsImportsStay DEF PassAlike
<1>3. Visits(F, TsKnown, MaxReexports, own, to)
  <2>1. \A h \in TsKnown : IsFiniteSet(IRs[h].symbols) /\ \A s \in IRs[h].symbols : IsTsSymbol(h, s)
    BY TsSymbols
  <2> QED
    BY <1>1, <2>1, FollowIsSymbol
<1>4. Visits(G, TsKnown, MaxReexports, ownToo, toToo)
  <2>1. \A h \in TsKnown : IsFiniteSet(jrs[h].symbols) /\ \A s \in jrs[h].symbols : IsTsSymbol(h, s)
    BY DEF TsAreSymbols
  <2> QED
    BY <1>1, <2>1, FollowIsSymbol
<1> HIDE DEF F, G, own, ownToo, to, toToo
<1>5. FollowAlike(F, G, TsKnown, S)
  BY <1>1, <1>2, <1>3, <1>4, VisitsAlike
<1>6. F[<<g, {g}>>] = G[<<g, {g}>>]
  BY <1>1, <1>5 DEF FollowAlike
<1> QED
  BY <1>1, <1>6 DEF Ts!Lookup, F, G

(* And what an import leads to is the same in both.                         *)
LEMMA TsImportAlike ==
  ASSUME AdaptersInv, language = "typescript", NEW jrs, NEW S, Same(jrs, S), TsAreSymbols(jrs),
         NEW f \in S, NEW r \in IRs[f].relationships, Ts!IsImport(r.to)
  PROVE  Ts!ResolveImport(IRs, r) = Ts!ResolveImport(jrs, r)
<1> DEFINE spec == r.to.import
           target == Ts!Destination(spec)
<1>1. DOMAIN IRs = TsKnown /\ DOMAIN jrs = TsKnown /\ f \in TsKnown /\ \A g \in S : jrs[g] = IRs[g]
  BY TsShape DEF Same
<1>2. r.kind \in {"Imports", "ReExports"}
  BY <1>1, TsRelationships
<1>3. target \in TsKnown => target \in S
  <2>1. target \in {Ts!TargetFile(spec), Ts!ByTsConfig(spec)}
    BY DEF Ts!Destination
  <2> HIDE DEF target
  <2> QED
    BY <1>2, <2>1, TsImportsStay
<1>4. target \in TsKnown =>
        Ts!Lookup(IRs, target, r.to.name) = Ts!Lookup(jrs, target, r.to.name) /\ IRs[target] = jrs[target]
  <2> HIDE DEF target
  <2> QED
    BY <1>1, <1>3, TsLookupAlike
<1>5. Ts!ResolveImport(IRs, r) = Ts!LedTo(IRs, r, target) /\ Ts!ResolveImport(jrs, r) = Ts!LedTo(jrs, r, target)
  BY DEF Ts!ResolveImport
<1>6. Ts!LedTo(IRs, r, target) = Ts!LedTo(jrs, r, target)
  <2> DEFINE name == r.to.name
             found == Ts!Lookup(IRs, target, name)
             foundToo == Ts!Lookup(jrs, target, name)
             exported == {s \in IRs[target].symbols : s.kind # "module"}
             exportedToo == {s \in jrs[target].symbols : s.kind # "module"}
             led(irs) == IF target = NONE /\ spec \notin DOMAIN TsRelative THEN Ts!Led(r, {Ts!PackageOf(spec)})
                         ELSE IF target \notin DOMAIN irs THEN {r}
                         ELSE IF name = Ts!Star /\ r.kind = "ReExports" THEN Ts!Led(r, exported)
                         ELSE Ts!Led(r, {found} \ {NONE})
  <2> HIDE DEF target
  <2>1. Ts!LedTo(IRs, r, target) = led(IRs)
    BY DEF Ts!LedTo
  <2>2. target \in TsKnown => found = foundToo /\ exported = exportedToo
    BY <1>4
  <2>3. Ts!LedTo(jrs, r, target)
          = IF target = NONE /\ spec \notin DOMAIN TsRelative THEN Ts!Led(r, {Ts!PackageOf(spec)})
            ELSE IF target \notin DOMAIN jrs THEN {r}
            ELSE IF name = Ts!Star /\ r.kind = "ReExports" THEN Ts!Led(r, exportedToo)
            ELSE Ts!Led(r, {foundToo} \ {NONE})
    BY DEF Ts!LedTo
  <2> HIDE DEF name, found, foundToo, exported, exportedToo
  <2> QED
    BY <1>1, <2>1, <2>2, <2>3
<1> QED
  BY <1>5, <1>6

(* A file is resolved by what its imports lead to.                          *)
TsNamedIn(symbols, imports, name) ==
  LET declared == {s \in symbols : s.name = name}
  IN  IF Ts!BoundTo(imports, name) # NONE THEN Ts!BoundTo(imports, name)
      ELSE IF declared # {} THEN Ts!LeastSymbol(declared)
      ELSE Ts!TypeNamed(name)
ResolvedTs(ir, files, imports) ==
  LET rels == ir.relationships
      importLike == {r \in rels : Ts!IsImport(r.to)}
      named == {[r EXCEPT !.to = TsNamedIn(ir.symbols, imports, r.to.type)] : r \in rels \ importLike}
      isBarrel(r) == /\ r.kind = "ReExports" /\ r.to.name = Ts!Star
                     /\ Ts!Destination(r.to.import) \in files
      unbound == {r \in imports : Ts!IsImport(r.to) /\ ~isBarrel(r)}
      astray == {r \in unbound : /\ r.to.import \notin DOMAIN TsRelative
                                 /\ Ts!Destination(r.to.import) \notin files \union {NONE}}
      lost == {r \in named : Ts!IsTypeName(r.to)}
      dropped == {r \in lost : r.kind \in {"Calls", "Instantiates"}}
  IN  [ir EXCEPT
         !.relationships = imports \union (named \ dropped),
         !.diagnostics = {r.line : r \in unbound \ astray},
         !.unplaced = {Ts!MissingFile(Ts!Destination(r.to.import)) : r \in astray}
              \union {r.to : r \in {r \in lost \ dropped : r.to.type \notin TsBuiltin}}]
TsImportLike(ir) == {r \in ir.relationships : Ts!IsImport(r.to)}
TsLed(irs, f) == UNION {Ts!ResolveImport(irs, r) : r \in TsImportLike(irs[f])}

(* So a TypeScript file that names none of the others is resolved alike.    *)
LEMMA TsAlike ==
  ASSUME AdaptersInv, language = "typescript", NEW jrs, NEW S, Same(jrs, S), TsAreSymbols(jrs), NEW f \in S
  PROVE  Ts!ResolveTs(IRs, f) = Ts!ResolveTs(jrs, f)
<1>1. jrs[f] = IRs[f] /\ DOMAIN jrs = DOMAIN IRs
  BY DEF Same
<1>2. ASSUME NEW irs PROVE Ts!ResolveTs(irs, f) = ResolvedTs(irs[f], DOMAIN irs, TsLed(irs, f))
  BY DEF Ts!ResolveTs, ResolvedTs, TsLed, TsImportLike, Ts!NameInFile, TsNamedIn, Ts!IsEmptyBarrel, Ts!LeadsAstray
<1>3. TsLed(IRs, f) = TsLed(jrs, f)
  <2> DEFINE importLike == TsImportLike(IRs[f])
  <2>1. \A r \in importLike : Ts!ResolveImport(IRs, r) = Ts!ResolveImport(jrs, r)
    BY TsImportAlike DEF TsImportLike
  <2>2. /\ TsLed(IRs, f) = UNION {Ts!ResolveImport(IRs, r) : r \in importLike}
        /\ TsLed(jrs, f) = UNION {Ts!ResolveImport(jrs, r) : r \in importLike}
    BY <1>1 DEF TsLed
  <2> HIDE DEF importLike
  <2>3. {Ts!ResolveImport(IRs, r) : r \in importLike} = {Ts!ResolveImport(jrs, r) : r \in importLike}
    BY <2>1
  <2> QED
    BY <2>2, <2>3
<1> QED
  BY <1>1, <1>2, <1>3

(* What a longer sequence has.                                              *)
LEMMA LongerHas ==
  ASSUME NEW T, NEW q \in Seq(T), NEW e \in T, NEW p \in Seq(T)
  PROVE  /\ ToSet(Append(q, e)) = ToSet(q) \union {e}
         /\ Len(q \o p) = Len(q) + Len(p)
         /\ q # << >> => Len(q) \in Nat \ {0} /\ Len(Front(q)) = Len(q) - 1
<1>1. ToSet(Append(q, e)) = ToSet(q) \union {e}
  <2> DEFINE n == Len(q)
             l == Append(q, e)
  <2>1. n \in Nat /\ DOMAIN q = 1 .. n
    OBVIOUS
  <2>2. DOMAIN l = 1 .. n + 1 /\ l[n + 1] = e /\ \A i \in 1 .. n : l[i] = q[i]
    OBVIOUS
  <2>3. 1 .. n + 1 = (1 .. n) \union {n + 1}
    BY <2>1
  <2> HIDE DEF n, l
  <2>4. {l[i] : i \in 1 .. n + 1} = {q[i] : i \in 1 .. n} \union {e}
    BY <2>2, <2>3
  <2> QED
    BY <2>1, <2>2, <2>4 DEF ToSet, l
<1>2. Len(q \o p) = Len(q) + Len(p)
  OBVIOUS
<1>3. ASSUME q # << >> PROVE Len(q) \in Nat \ {0} /\ Len(Front(q)) = Len(q) - 1
  <2>1. Len(q) \in Nat \ {0}
    BY <1>3, EmptySeq
  <2>2. Len(SubSeq(q, 1, Len(q) - 1)) = Len(q) - 1
    BY <2>1
  <2> QED
    BY <2>1, <2>2 DEF Front
<1> QED
  BY <1>1, <1>2, <1>3

(* What is still to be put on the stack, and what is on it: a file is put   *)
(* there where it is included in one that is seen for the first time.       *)
CUnseen(includes, at) == COccurrences(includes, CFiles \ ToSet(at.seen))
CToCome(includes, at) == Len(at.stack) + Cardinality(CUnseen(includes, at))

(* It is one less after every turn, as long as something is on the stack.   *)
LEMMA CVisitTakes ==
  ASSUME NEW includes, \A f \in CFiles : includes[f] \in Seq(CFiles \union {NONE}),
         NEW at \in CStates(CFiles)
  PROVE  /\ CToCome(includes, at) \in Nat
         /\ at.stack = << >> => Visit(includes, at) = at
         /\ at.stack # << >> => CToCome(includes, Visit(includes, at)) = CToCome(includes, at) - 1
         /\ CToCome(includes, at) = 0 => at.stack = << >>
<1> DEFINE T == CFiles \union {NONE}
           f == Last(at.stack)
           Whole == COccurrences(includes, CFiles)
           A == CUnseen(includes, at)
<1>1. at.stack \in Seq(T) /\ at.seen \in Seq(CFiles) /\ at \in [stack : Seq(T), seen : Seq(CFiles)]
  BY DEF CStates
<1>2. IsFiniteSet(A)
  <2>1. A \subseteq Whole
    BY DEF CUnseen, COccurrences
  <2> HIDE DEF A, Whole
  <2>2. IsFiniteSet(Whole)
    BY COccurrencesAreFinite DEF Whole
  <2> QED
    BY <2>1, <2>2, FS_Subset
<1>3. Cardinality(A) \in Nat
  <2> HIDE DEF A
  <2> QED
    BY <1>2, FS_CardinalityType
<1>4. CToCome(includes, at) = Len(at.stack) + Cardinality(A)
  BY DEF CToCome
<1>5. Len(at.stack) \in Nat
  BY <1>1
<1> HIDE DEF A, Whole
<1>6. CToCome(includes, at) \in Nat
  BY <1>3, <1>4, <1>5
<1>7. at.stack = << >> => Visit(includes, at) = at
  BY DEF Visit
<1>8. ASSUME CToCome(includes, at) = 0 PROVE at.stack = << >>
  <2>1. Len(at.stack) = 0
    BY <1>3, <1>4, <1>5, <1>8
  <2> QED
    BY <1>1, <2>1
<1>9. ASSUME at.stack # << >>
      PROVE  CToCome(includes, Visit(includes, at)) = CToCome(includes, at) - 1
  <2> DEFINE rest == Front(at.stack)
  <2>1. Len(at.stack) \in Nat \ {0} /\ rest \in Seq(T) /\ f \in T /\ Len(rest) = Len(at.stack) - 1
    <3>1. rest \in Seq(T) /\ f \in T
      <4> HIDE DEF T
      <4> QED
        BY <1>1, <1>9, FrontIsSeq
    <3>2. Len(at.stack) \in Nat \ {0} /\ Len(rest) = Len(at.stack) - 1
      <4> HIDE DEF T
      <4> QED
        BY <1>1, <1>9, <3>1, LongerHas
    <3> QED
      BY <3>1, <3>2
  <2>2. CASE f = NONE \/ Contains(at.seen, f)
    <3>1. Visit(includes, at) = [at EXCEPT !.stack = rest]
      BY <1>9, <2>2 DEF Visit
    <3> DEFINE new == Visit(includes, at)
    <3>2. new.stack = rest /\ new.seen = at.seen
      BY <1>1, <3>1
    <3> HIDE DEF new, rest
    <3>3. CUnseen(includes, new) = A
      BY <3>2 DEF CUnseen, A
    <3>4. CToCome(includes, new) = Len(rest) + Cardinality(A)
      BY <3>2, <3>3 DEF CToCome
    <3> QED
      BY <1>3, <1>4, <2>1, <3>4 DEF new
  <2>3. CASE ~(f = NONE \/ Contains(at.seen, f))
    <3> DEFINE here == {f} \X DOMAIN includes[f]
               new == Visit(includes, at)
               B == CUnseen(includes, new)
               m == Len(includes[f])
    <3>1. new = [stack |-> rest \o includes[f], seen |-> Append(at.seen, f)]
      BY <1>9, <2>3 DEF Visit
    <3>2. new.stack = rest \o includes[f] /\ new.seen = Append(at.seen, f)
      <4> HIDE DEF rest, f
      <4> QED
        BY <3>1
    <3>3. f \in CFiles /\ includes[f] \in Seq(T) /\ m \in Nat /\ DOMAIN includes[f] = 1 .. m
      <4>1. f \in CFiles
        BY <2>1, <2>3
      <4> HIDE DEF f
      <4>2. includes[f] \in Seq(T)
        BY <4>1
      <4> HIDE DEF T
      <4> QED
        BY <4>1, <4>2
    <3>4. f \notin ToSet(at.seen) /\ ToSet(new.seen) = ToSet(at.seen) \union {f}
      <4>1. f \notin ToSet(at.seen)
        BY <1>1, <2>3 DEF Contains, ToSet
      <4> HIDE DEF new, f
      <4> QED
        BY <1>1, <3>2, <3>3, <4>1, LongerHas
    <3>5. A = B \union here /\ B \intersect here = {}
      <4> HIDE DEF new, f
      <4>1. CFiles \ ToSet(new.seen) = (CFiles \ ToSet(at.seen)) \ {f}
        BY <3>4
      <4> QED
        BY <3>3, <3>4, <4>1 DEF A, CUnseen, COccurrences
    <3>6. Cardinality(here) = m /\ IsFiniteSet(here)
      <4> DEFINE D == 1 .. m
                 E == {f}
      <4>1. IsFiniteSet(D) /\ Cardinality(D) = m
        <5> HIDE DEF m
        <5> QED
          BY <3>3, FS_Interval
      <4>2. IsFiniteSet(E) /\ Cardinality(E) = 1
        BY FS_Singleton
      <4> HIDE DEF D, E, m
      <4>3. IsFiniteSet(E \X D) /\ Cardinality(E \X D) = Cardinality(E) * Cardinality(D)
        BY <4>1, <4>2, FS_Product
      <4>4. Cardinality(E) * Cardinality(D) = m
        BY <3>3, <4>1, <4>2
      <4> QED
        BY <3>3, <4>3, <4>4 DEF D, E
    <3> HIDE DEF here, B
    <3>7. Cardinality(A) = Cardinality(B) + m /\ Cardinality(B) \in Nat
      <4>1. IsFiniteSet(B)
        BY <1>2, <3>5, FS_Subset
      <4>2. Cardinality(B \intersect here) = 0
        BY <3>5, FS_EmptySet
      <4>3. Cardinality(A) = Cardinality(B) + Cardinality(here) - Cardinality(B \intersect here)
        BY <3>5, <3>6, <4>1, FS_Union
      <4>4. Cardinality(B) \in Nat
        BY <4>1, FS_CardinalityType
      <4> QED
        BY <3>3, <3>6, <4>2, <4>3, <4>4
    <3>8. Len(new.stack) = Len(rest) + m
      <4> DEFINE more == includes[f]
      <4>1. more \in Seq(T) /\ rest \in Seq(T) /\ f \in T
        BY <2>1, <3>3
      <4>2. new.stack = rest \o more /\ m = Len(more)
        BY <3>2
      <4> HIDE DEF new, rest, f, T, more, m
      <4>3. Len(rest \o more) = Len(rest) + Len(more)
        BY <4>1, LongerHas
      <4> QED
        BY <4>2, <4>3
    <3>9. CToCome(includes, new) = Len(new.stack) + Cardinality(B)
      BY DEF CToCome, B
    <3> HIDE DEF new, rest, m, f
    <3>10. CToCome(includes, new) = CToCome(includes, at) - 1
      BY <1>3, <1>4, <2>1, <3>3, <3>7, <3>8, <3>9
    <3> QED
      BY <3>10 DEF new
  <2> QED
    BY <2>2, <2>3
<1> QED
  BY <1>6, <1>7, <1>8, <1>9

(* So there is nothing on it in the end.                                    *)
LEMMA CWalkEnds ==
  ASSUME NEW includes, \A f \in CFiles : includes[f] \in Seq(CFiles \union {NONE}), NEW file \in CFiles,
         NEW w, Walks(w, CTurns(includes), includes, file)
  PROVE  w[CTurns(includes)].stack = << >>
<1> DEFINE n == CTurns(includes)
           P == {k \in 0 .. n : w[k].stack = << >> \/ CToCome(includes, w[k]) = n - k}
<1>1. n \in Nat
  BY COccurrencesAreFinite
<1>2. \A k \in 0 .. n : w[k] \in CStates(CFiles)
  <2> HIDE DEF n
  <2> QED
    BY <1>1, CWalkStays DEF n
<1>3. 0 \in P
  <2>1. w[0] = CStart(file)
    BY DEF Walks
  <2>2. Len(w[0].stack) = 1 /\ w[0].seen = << >>
    BY <2>1 DEF CStart
  <2>3. CUnseen(includes, w[0]) = COccurrences(includes, CFiles)
    <3>1. ToSet(<< >>) = {}
      BY DEF ToSet
    <3>3. CFiles \ {} = CFiles
      OBVIOUS
    <3> QED
      BY <2>2, <3>1, <3>3 DEF CUnseen
  <2>4. CToCome(includes, w[0]) = 1 + Cardinality(COccurrences(includes, CFiles))
    BY <2>2, <2>3 DEF CToCome
  <2>5. Cardinality(COccurrences(includes, CFiles)) \in Nat
    BY COccurrencesAreFinite, FS_CardinalityType
  <2> QED
    BY <1>1, <2>4, <2>5 DEF CTurns
<1> HIDE DEF n
<1>4. ASSUME NEW k \in 1 .. n, k - 1 \in P PROVE k \in P
  <2> DEFINE at == w[k - 1]
  <2>1. /\ w[k] = Visit(includes, at) /\ k \in 0 .. n /\ k - 1 \in 0 .. n
        /\ at.stack = << >> \/ CToCome(includes, at) = n - (k - 1)
    BY <1>1, <1>4 DEF Walks, n
  <2>2. at \in CStates(CFiles)
    BY <1>2, <2>1
  <2> HIDE DEF at
  <2>3. CASE at.stack = << >>
    BY <2>1, <2>2, <2>3, CVisitTakes
  <2>4. CASE at.stack # << >>
    <3>1. CToCome(includes, w[k]) = CToCome(includes, at) - 1
      BY <2>1, <2>2, <2>4, CVisitTakes
    <3>3. CToCome(includes, w[k]) = n - k
      BY <1>1, <2>1, <2>4, <3>1
    <3> QED
      BY <2>1, <3>3
  <2> QED
    BY <2>3, <2>4
<1> HIDE DEF P
<1>5. \A k \in 0 .. n : k \in P
  BY <1>1, <1>3, <1>4, UpTo
<1>6. n \in 0 .. n /\ w[n] \in CStates(CFiles)
  BY <1>1, <1>2
<1>7. w[n].stack = << >> \/ CToCome(includes, w[n]) = n - n
  BY <1>5, <1>6 DEF P
<1>8. n - n = 0
  BY <1>1
<1> QED
  BY <1>6, <1>7, <1>8, CVisitTakes DEF n

(* Two readings of what files include that have some files in common, which *)
(* include no others.                                                       *)
IncludesAlike(a, b, S) == \A f \in S : a[f] = b[f] /\ a[f] \in Seq(S \union {NONE})

(* The one walk is as the other as long as neither ends, and stays where it *)
(* is after.                                                                *)
LEMMA CWalksAlike ==
  ASSUME NEW S \in SUBSET CFiles, NEW a, NEW b, IncludesAlike(a, b, S), NEW file \in S,
         NEW m \in Nat, NEW n \in Nat, m <= n, NEW v, Walks(v, m, a, file), NEW w, Walks(w, n, b, file),
         v[m].stack = << >>
  PROVE  v[m] = w[n]
<1>1. \A k \in 0 .. m : v[k] \in CStates(S)
  <2>1. \A f \in S : a[f] \in Seq(S \union {NONE})
    BY DEF IncludesAlike
  <2> QED
    BY <2>1, CWalkStays
<1>2. \A at \in CStates(S) : Visit(a, at) = Visit(b, at)
  <2>1. ASSUME NEW at \in CStates(S) PROVE Visit(a, at) = Visit(b, at)
    <3> DEFINE T == S \union {NONE}
               f == Last(at.stack)
    <3>1. at.stack \in Seq(T)
      BY DEF CStates
    <3> HIDE DEF T
    <3>2. at.stack # << >> => f \in T
      BY <3>1, FrontIsSeq
    <3> HIDE DEF f
    <3>3. f \in S => a[f] = b[f]
      BY DEF IncludesAlike
    <3> QED
      BY <3>2, <3>3 DEF Visit, T, f
  <2> QED
    BY <2>1
<1> DEFINE P == {k \in 0 .. m : v[k] = w[k]}
           Q == {k \in 0 .. n : k >= m => w[k] = v[m]}
<1>3. 0 \in P
  BY DEF Walks
<1>4. ASSUME NEW k \in 1 .. m, k - 1 \in P PROVE k \in P
  <2>1. v[k] = Visit(a, v[k - 1]) /\ w[k] = Visit(b, w[k - 1]) /\ k \in 0 .. m /\ v[k - 1] = w[k - 1]
    BY <1>4 DEF Walks
  <2>2. v[k - 1] \in CStates(S)
    BY <1>1
  <2>3. Visit(a, v[k - 1]) = Visit(b, v[k - 1])
    BY <1>2, <2>2
  <2> QED
    BY <2>1, <2>3
<1> HIDE DEF P
<1>5. v[m] = w[m]
  <2>1. \A k \in 0 .. m : k \in P
    BY <1>3, <1>4, UpTo
  <2>2. m \in 0 .. m
    OBVIOUS
  <2> QED
    BY <2>1, <2>2 DEF P
<1>6. 0 \in Q
  BY <1>5
<1>7. ASSUME NEW k \in 1 .. n, k - 1 \in Q PROVE k \in Q
  <2>1. CASE k <= m
    BY <1>5, <2>1
  <2>2. CASE k > m
    <3>1. w[k] = Visit(b, w[k - 1]) /\ w[k - 1] = v[m] /\ k \in 0 .. n
      BY <1>7, <2>2 DEF Walks
    <3>2. Visit(b, v[m]) = v[m]
      BY DEF Visit
    <3> QED
      BY <3>1, <3>2
  <2> QED
    BY <2>1, <2>2
<1> HIDE DEF Q
<1>8. \A k \in 0 .. n : k \in Q
  BY <1>6, <1>7, UpTo
<1>9. n \in Q
  BY <1>8
<1> QED
  BY <1>9 DEF Q

(* So the same files are looked into, whatever else is included elsewhere.  *)
LEMMA CLookedIntoAlike ==
  ASSUME NEW a, \A f \in CFiles : a[f] \in Seq(CFiles \union {NONE}),
         NEW b, \A f \in CFiles : b[f] \in Seq(CFiles \union {NONE}),
         NEW S \in SUBSET CFiles, IncludesAlike(a, b, S), NEW file \in S
  PROVE  LookedInto(a, file) = LookedInto(b, file) /\ LookedInto(a, file) \in Seq(S)
<1> DEFINE m == CTurns(a)
           n == CTurns(b)
<1>1. PICK v : Walks(v, m, a, file) /\ LookedInto(a, file) = v[m].seen
  BY CWalks
<1>2. PICK w : Walks(w, n, b, file) /\ LookedInto(b, file) = w[n].seen
  BY CWalks
<1>3. m \in Nat /\ n \in Nat
  BY COccurrencesAreFinite
<1>4. v[m].stack = << >> /\ w[n].stack = << >>
  BY <1>1, <1>2, CWalkEnds
<1>5. IncludesAlike(b, a, S)
  BY DEF IncludesAlike
<1> HIDE DEF m, n
<1>6. v[m] = w[n]
  <2>1. CASE m <= n
    BY <1>1, <1>2, <1>3, <1>4, <2>1, CWalksAlike
  <2>2. CASE n <= m
    BY <1>1, <1>2, <1>3, <1>4, <1>5, <2>2, CWalksAlike
  <2> QED
    BY <1>3, <2>1, <2>2
<1>7. v[m] \in CStates(S)
  <2>1. \A f \in S : a[f] \in Seq(S \union {NONE})
    BY DEF IncludesAlike
  <2>2. \A k \in 0 .. m : v[k] \in CStates(S)
    BY <1>1, <1>3, <2>1, CWalkStays
  <2> QED
    BY <1>3, <2>2
<1> QED
  BY <1>1, <1>2, <1>6, <1>7 DEF CStates

(* The headers that a file includes, and those they include, and so on.     *)
Climbs(w, n, includes, file) ==
  /\ w[0] = FilesIn(includes[file])
  /\ \A k \in 1 .. n : w[k] = w[k - 1] \union UNION {FilesIn(includes[f]) : f \in w[k - 1]}

(* They are reached turn by turn, as many as there are files.               *)
LEMMA CReachableClimbs ==
  ASSUME NEW includes, \A f \in CFiles : includes[f] \in Seq(CFiles \union {NONE}), NEW file \in CFiles,
         NEW n, n = Cardinality(CFiles)
  PROVE  n \in Nat /\ \E w : Climbs(w, n, includes, file) /\ Reachable(includes, file) = w[n]
<1> DEFINE b == FilesIn(includes[file])
           More(T) == T \union UNION {FilesIn(includes[f]) : f \in T}
           States == SUBSET CFiles
           step == [T \in States |-> More(T)]
           Solves(g) == g = [k \in 0 .. n |-> IF k = 0 THEN b
                                 ELSE LET nearer == g[k - 1]
                                      IN  nearer \union UNION {FilesIn(includes[f]) : f \in nearer}]
           within == CHOOSE g : Solves(g)
<1>1. Reachable(includes, file) = within[n]
  BY DEF Reachable
<1>2. n \in Nat
  BY FilesAssumption, FS_CardinalityType
<1>3. \A f \in CFiles : FilesIn(includes[f]) \in SUBSET CFiles
  <2>1. ASSUME NEW f \in CFiles PROVE FilesIn(includes[f]) \in SUBSET CFiles
    <3>1. includes[f] \in Seq(CFiles \union {NONE})
      OBVIOUS
    <3>2. \A i \in DOMAIN includes[f] : includes[f][i] \in CFiles \union {NONE}
      BY <3>1
    <3> QED
      BY <3>2 DEF FilesIn, ToSet
  <2> QED
    BY <2>1
<1>4. b \in States /\ \A T \in States : step[T] \in States /\ step[T] = More(T)
  BY <1>3
<1> HIDE DEF States, b
<1>5. PICK g : Turns(g, n, b, step) /\ \A k \in 0 .. n : g[k] \in States
  <2> HIDE DEF step
  <2> QED
    BY <1>2, <1>4, TurnsExist
<1>6. Solves(g)
  <2> DEFINE F(k) == IF k = 0 THEN b ELSE step[g[k - 1]]
             G(k) == IF k = 0 THEN b ELSE More(g[k - 1])
  <2>1. g = [k \in 0 .. n |-> F(k)]
    BY <1>5 DEF Turns
  <2>2. \A k \in 0 .. n : F(k) = G(k)
    <3>1. \A k \in 0 .. n : k # 0 => k - 1 \in 0 .. n
      BY <1>2
    <3>2. \A k \in 0 .. n : k # 0 => g[k - 1] \in States
      BY <1>5, <3>1
    <3> HIDE DEF More, step
    <3> QED
      BY <1>4, <3>2
  <2> HIDE DEF F, G
  <2>3. g = [k \in 0 .. n |-> G(k)]
    BY <2>1, <2>2
  <2> QED
    BY <2>3 DEF G
<1>7. Solves(within)
  <2> HIDE DEF Solves
  <2> QED
    BY <1>6
<1> HIDE DEF within
<1>8. within[0] = b /\ \A k \in 1 .. n : within[k] = More(within[k - 1])
  <2> DEFINE G(k) == IF k = 0 THEN b ELSE More(within[k - 1])
  <2>1. \A k \in 0 .. n : within[k] = G(k)
    <3>1. within = [k \in 0 .. n |-> G(k)]
      BY <1>7
    <3> HIDE DEF G
    <3> QED
      BY <3>1
  <2> HIDE DEF More
  <2> QED
    BY <1>2, <2>1
<1>9. Climbs(within, n, includes, file)
  BY <1>8 DEF Climbs, b
<1> QED
  BY <1>1, <1>2, <1>9

(* So the same headers are reached.                                         *)
LEMMA CReachableAlike ==
  ASSUME NEW a, \A f \in CFiles : a[f] \in Seq(CFiles \union {NONE}),
         NEW b, \A f \in CFiles : b[f] \in Seq(CFiles \union {NONE}),
         NEW S \in SUBSET CFiles, IncludesAlike(a, b, S), NEW file \in S
  PROVE  Reachable(a, file) = Reachable(b, file) /\ Reachable(a, file) \subseteq S
<1> DEFINE n == Cardinality(CFiles)
<1>1. PICK v : Climbs(v, n, a, file) /\ Reachable(a, file) = v[n]
  BY CReachableClimbs
<1>2. PICK w : Climbs(w, n, b, file) /\ Reachable(b, file) = w[n]
  BY CReachableClimbs
<1>3. n \in Nat
  BY CReachableClimbs
<1>4. ASSUME NEW f \in S PROVE FilesIn(a[f]) = FilesIn(b[f]) /\ FilesIn(a[f]) \subseteq S
  <2>1. a[f] = b[f] /\ a[f] \in Seq(S \union {NONE})
    BY DEF IncludesAlike
  <2>2. \A i \in DOMAIN a[f] : a[f][i] \in S \union {NONE}
    BY <2>1
  <2> QED
    BY <2>1, <2>2 DEF FilesIn, ToSet
<1> HIDE DEF n
<1> DEFINE P == {k \in 0 .. n : v[k] = w[k] /\ v[k] \subseteq S}
<1>5. 0 \in P
  BY <1>1, <1>2, <1>3, <1>4 DEF Climbs
<1>6. ASSUME NEW k \in 1 .. n, k - 1 \in P PROVE k \in P
  <2> DEFINE U == v[k - 1]
  <2>1. /\ v[k] = U \union UNION {FilesIn(a[f]) : f \in U} /\ U = w[k - 1] /\ U \subseteq S /\ k \in 0 .. n
        /\ w[k] = w[k - 1] \union UNION {FilesIn(b[f]) : f \in w[k - 1]}
    BY <1>1, <1>2, <1>6 DEF Climbs
  <2> HIDE DEF U
  <2>2. {FilesIn(a[f]) : f \in U} = {FilesIn(b[f]) : f \in U}
    BY <1>4, <2>1
  <2>3. UNION {FilesIn(a[f]) : f \in U} \subseteq S
    BY <1>4, <2>1
  <2> QED
    BY <2>1, <2>2, <2>3
<1> HIDE DEF P
<1>7. \A k \in 0 .. n : k \in P
  BY <1>3, <1>5, <1>6, UpTo
<1>8. n \in P
  BY <1>3, <1>7
<1> QED
  BY <1>1, <1>2, <1>8 DEF P

(* What each file includes are files; where one is written in, it includes  *)
(* what it did, and it may be more.                                         *)
CIncludesAreIn(irs) == \A f \in CFiles : CIncludesIn(irs)[f] \in Seq(CFiles \union {NONE})
CIncludesMore(irs, jrs) == \A f \in CFiles : ToSet(CIncludesIn(irs)[f]) \subseteq ToSet(CIncludesIn(jrs)[f])
CGrows(jrs) == CIncludesAreIn(jrs) /\ CIncludesMore(IRs, jrs)

(* What one of these files includes, and what includes it, is one of them.  *)
LEMMA CIncludesStay ==
  ASSUME AdaptersInv, language = "c", NEW jrs, NEW S, Same(jrs, S), CGrows(jrs)
  PROVE  /\ IncludesAlike(CIncludesIn(IRs), CIncludesIn(jrs), S)
         /\ \A h \in S : \A g \in CFiles :
              h \in ToSet(CIncludesIn(IRs)[g]) \/ h \in ToSet(CIncludesIn(jrs)[g]) => g \in S
<1> DEFINE a == CIncludesIn(IRs)
           b == CIncludesIn(jrs)
<1>1. DOMAIN IRs = CFiles /\ S \subseteq CFiles
  BY CShape DEF Same
<1>2. ASSUME NEW f \in S PROVE a[f] = b[f] /\ a[f] \in Seq(S \union {NONE})
  <2>1. /\ f \in CFiles /\ jrs[f] = IRs[f] /\ NamedBy(jrs, f) \intersect CFiles \subseteq S
        /\ b[f] = Includes(jrs, f) /\ a[f] = Includes(IRs, f)
    BY <1>1 DEF Same, CIncludesIn
  <2>2. Includes(IRs, f) = Includes(jrs, f)
    BY <2>1 DEF Includes
  <2>3. b[f] \in Seq(CFiles \union {NONE})
    BY <2>1 DEF CGrows, CIncludesAreIn
  <2>4. ToSet(b[f]) \intersect CFiles \subseteq NamedBy(jrs, f)
    BY <2>1 DEF NamedBy
  <2> HIDE DEF a, b
  <2>5. ToSet(b[f]) \subseteq S \union {NONE}
    <3>1. \A i \in DOMAIN b[f] : b[f][i] \in CFiles \union {NONE}
      BY <2>3
    <3> QED
      BY <2>1, <2>4, <3>1 DEF ToSet
  <2>6. b[f] \in Seq(S \union {NONE})
    <3> DEFINE q == b[f]
               T == S \union {NONE}
    <3>1. q = [i \in 1 .. Len(q) |-> q[i]] /\ Len(q) \in Nat /\ DOMAIN q = 1 .. Len(q)
      BY <2>3
    <3>2. \A i \in 1 .. Len(q) : q[i] \in T
      BY <2>5, <3>1 DEF ToSet
    <3> HIDE DEF q, T
    <3>3. q \in Seq(T)
      BY <3>1, <3>2
    <3> QED
      BY <3>3 DEF q, T
  <2> QED
    BY <2>1, <2>2, <2>6
<1>3. ASSUME NEW h \in S, NEW g \in CFiles, h \in ToSet(a[g]) \/ h \in ToSet(b[g])
      PROVE  g \in S
  <2>1. h \in ToSet(b[g])
    BY <1>3 DEF CGrows, CIncludesMore
  <2>2. b[g] = Includes(jrs, g)
    BY DEF CIncludesIn
  <2>3. g \in NamedBy(jrs, h)
    BY <1>3, <2>1, <2>2 DEF NamedBy
  <2> QED
    BY <1>1, <1>3, <2>3 DEF Same
<1>4. IncludesAlike(a, b, S)
  BY <1>2 DEF IncludesAlike
<1> QED
  BY <1>3, <1>4

(* What these files declare is the same in both, and so is what a name is   *)
(* that is visible in them.                                                 *)
LEMMA CVisibleAlike ==
  ASSUME AdaptersInv, language = "c", NEW jrs, NEW S, Same(jrs, S), NEW files \in Seq(S), NEW name
  PROVE  Visible(IRs, files, name) = Visible(jrs, files, name)
<1> DEFINE named(irs, i) == ByName(irs[files[i]].order, name)
           declaring(irs) == {i \in DOMAIN files : named(irs, i) # NONE}
           first(irs) == CHOOSE i \in declaring(irs) : \A j \in declaring(irs) : i <= j
<1>1. \A i \in DOMAIN files : jrs[files[i]] = IRs[files[i]]
  BY DEF Same
<1>2. \A i \in DOMAIN files : named(IRs, i) = named(jrs, i)
  BY <1>1
<1>3. ASSUME NEW irs
      PROVE  Visible(irs, files, name) = IF declaring(irs) = {} THEN NONE ELSE named(irs, first(irs))
  BY DEF Visible
<1> HIDE DEF named
<1>4. declaring(IRs) = declaring(jrs)
  BY <1>2
<1>5. CASE declaring(IRs) = {}
  <2> HIDE DEF declaring, first
  <2> QED
    BY <1>3, <1>4, <1>5
<1>6. CASE declaring(IRs) # {}
  <2> DEFINE D == declaring(IRs)
  <2>1. first(IRs) = first(jrs)
    BY <1>4
  <2>2. first(IRs) \in DOMAIN files
    <3>1. D \subseteq DOMAIN files /\ DOMAIN files = 1 .. Len(files) /\ Len(files) \in Nat
      OBVIOUS
    <3>2. first(IRs) = CHOOSE i \in D : \A j \in D : i <= j
      OBVIOUS
    <3> HIDE DEF D, first, declaring
    <3>3. IsFiniteSet(D) /\ D \subseteq Nat
      BY <3>1, Positions
    <3>4. \E i \in D : \A j \in D : i <= j
      BY <1>6, <3>3, LeastOfFinite DEF D
    <3> QED
      BY <3>1, <3>2, <3>4
  <2> HIDE DEF declaring, first, D
  <2> QED
    BY <1>2, <1>3, <1>4, <1>6, <2>1, <2>2
<1> QED
  BY <1>5, <1>6

(* So is what it is another name for.                                       *)
LEMMA CNameAlike ==
  ASSUME AdaptersInv, language = "c", NEW jrs, NEW S, Same(jrs, S), NEW files \in Seq(S), NEW f \in S, NEW name
  PROVE  CName(IRs, files, f, name) = CName(jrs, files, f, name)
<1>1. jrs[f] = IRs[f]
  BY DEF Same
<1>2. \A n : Visible(IRs, files, n) = Visible(jrs, files, n)
  BY CVisibleAlike
<1> QED
  BY <1>1, <1>2 DEF CName

(* A function that one of these headers declares is linked to the same.     *)
LEMMA CLinkAlike ==
  ASSUME AdaptersInv, language = "c", NEW jrs, NEW S, Same(jrs, S), CGrows(jrs), NEW h \in S, NEW name
  PROVE  Link(IRs, CIncludesIn(IRs), h, name) = Link(jrs, CIncludesIn(jrs), h, name)
<1> DEFINE a == CIncludesIn(IRs)
           b == CIncludesIn(jrs)
           D(irs, inc) == {s \in Definitions(irs, name) : h \in ToSet(inc[s[1]])}
           Is(irs, s) == LET d == irs[s[1]].order[s[2]] IN d # NONE /\ d.kind = "function" /\ d.name = name
<1>1. S \subseteq CFiles /\ \A f \in S : jrs[f] = IRs[f]
  BY CShape DEF Same
<1>2. IncludesAlike(a, b, S)
  BY CIncludesStay
<1>3. \A g \in CFiles : h \in ToSet(a[g]) \/ h \in ToSet(b[g]) => g \in S
  BY CIncludesStay
<1>4. ASSUME NEW irs, NEW s
      PROVE  s \in Definitions(irs, name) <=>
               Is(irs, s) /\ \E f \in CFiles : s \in {f} \X DOMAIN irs[f].order
  BY DEF Definitions
<1> HIDE DEF Is
<1>5. ASSUME NEW irs, NEW s \in Definitions(irs, name)
      PROVE  s[1] \in CFiles /\ s \in {s[1]} \X DOMAIN irs[s[1]].order
  <2>1. PICK f \in CFiles : s \in {f} \X DOMAIN irs[f].order
    BY <1>4, <1>5
  <2>2. s[1] = f
    BY <2>1
  <2> QED
    BY <2>1, <2>2
<1>6. ASSUME NEW s PROVE s[1] \in S => (Is(IRs, s) <=> Is(jrs, s))
  BY <1>1 DEF Is
<1>7. ASSUME NEW s \in D(IRs, a) PROVE s \in D(jrs, b) /\ s[1] \in S
  <2>1. s[1] \in S /\ h \in ToSet(a[s[1]]) /\ s \in {s[1]} \X DOMAIN IRs[s[1]].order /\ Is(IRs, s)
    BY <1>3, <1>4, <1>5, <1>7
  <2>2. h \in ToSet(b[s[1]]) /\ jrs[s[1]] = IRs[s[1]]
    BY <1>1, <1>2, <2>1 DEF IncludesAlike
  <2>3. s \in {s[1]} \X DOMAIN jrs[s[1]].order /\ Is(jrs, s)
    BY <1>6, <2>1, <2>2
  <2>4. s \in Definitions(jrs, name)
    BY <1>1, <1>4, <2>1, <2>3
  <2> QED
    BY <2>1, <2>2, <2>4
<1>8. ASSUME NEW s \in D(jrs, b) PROVE s \in D(IRs, a)
  <2>1. s[1] \in S /\ h \in ToSet(b[s[1]]) /\ s \in {s[1]} \X DOMAIN jrs[s[1]].order /\ Is(jrs, s)
    BY <1>3, <1>4, <1>5, <1>8
  <2>2. h \in ToSet(a[s[1]]) /\ jrs[s[1]] = IRs[s[1]]
    BY <1>1, <1>2, <2>1 DEF IncludesAlike
  <2>3. s \in {s[1]} \X DOMAIN IRs[s[1]].order /\ Is(IRs, s)
    BY <1>6, <2>1, <2>2
  <2>4. s \in Definitions(IRs, name)
    BY <1>1, <1>4, <2>1, <2>3
  <2> QED
    BY <2>2, <2>4
<1> DEFINE E == D(IRs, a)
<1>9. D(jrs, b) = E /\ \A s \in E : s[1] \in S
  BY <1>7, <1>8
<1>10. Link(IRs, a, h, name) = OnlyOne(IRs, D(IRs, a)) /\ Link(jrs, b, h, name) = OnlyOne(jrs, D(jrs, b))
  BY DEF Link
<1> HIDE DEF D, E, a, b
<1>11. OnlyOne(IRs, E) = OnlyOne(jrs, E)
  <2> DEFINE s == CHOOSE s \in E : TRUE
  <2>1. \A irs : OnlyOne(irs, E) = IF Cardinality(E) # 1 THEN NONE ELSE irs[s[1]].order[s[2]]
    BY DEF OnlyOne
  <2>2. E # {} => s \in E
    OBVIOUS
  <2>3. E = {} => Cardinality(E) # 1
    BY FS_EmptySet
  <2> HIDE DEF s
  <2>4. E # {} => jrs[s[1]] = IRs[s[1]]
    BY <1>1, <1>9, <2>2
  <2> QED
    BY <2>1, <2>3, <2>4
<1> QED
  BY <1>9, <1>10, <1>11 DEF E, a, b

(* So is a function that is called by its name in one of these files.       *)
LEMMA CPrototypeAlike ==
  ASSUME AdaptersInv, language = "c", NEW jrs, NEW S, Same(jrs, S), CGrows(jrs), NEW f \in S, NEW name
  PROVE  ViaPrototype(IRs, CIncludesIn(IRs), f, name) = ViaPrototype(jrs, CIncludesIn(jrs), f, name)
<1> DEFINE a == CIncludesIn(IRs)
           b == CIncludesIn(jrs)
           declares(irs, h) == \E r \in irs[h].relationships : IsPrototype(r) /\ r.to.prototype = name
           headers(irs, inc) == {h \in Reachable(inc, f) : declares(irs, h) /\ Link(irs, inc, h, name) # NONE}
           last(H) == CHOOSE h \in H : \A g \in H : g <= h
<1>1. S \subseteq CFiles /\ (\A g \in S : jrs[g] = IRs[g]) /\ IncludesAlike(a, b, S)
  BY CShape, CIncludesStay DEF Same
<1>2. Reachable(a, f) = Reachable(b, f) /\ Reachable(a, f) \subseteq S
  <2>1. \A g \in CFiles : a[g] \in Seq(CFiles \union {NONE})
    BY CIncludesAreFiles
  <2>2. \A g \in CFiles : b[g] \in Seq(CFiles \union {NONE})
    BY DEF CGrows, CIncludesAreIn
  <2> HIDE DEF a, b
  <2> QED
    BY <1>1, <2>1, <2>2, CReachableAlike
<1>3. ASSUME NEW h \in S PROVE Link(IRs, a, h, name) = Link(jrs, b, h, name)
  BY CLinkAlike
<1> HIDE DEF a, b
<1>4. ASSUME NEW irs, NEW inc
      PROVE  ViaPrototype(irs, inc, f, name)
               = IF headers(irs, inc) = {} THEN NONE ELSE Link(irs, inc, last(headers(irs, inc)), name)
  BY DEF ViaPrototype
<1> DEFINE H == headers(IRs, a)
<1>5. headers(jrs, b) = H /\ H \subseteq S
  BY <1>1, <1>2, <1>3
<1>6. H # {} => last(H) \in H
  <2>1. H \subseteq Nat /\ IsFiniteSet(H)
    <3> HIDE DEF H
    <3> QED
      BY <1>1, <1>5, FilesAssumption, FS_Subset
  <2> HIDE DEF H
  <2>2. H # {} => \E h \in H : \A g \in H : g <= h
    BY <2>1, GreatestOfFinite
  <2> QED
    BY <2>2
<1>7. /\ ViaPrototype(IRs, a, f, name) = IF H = {} THEN NONE ELSE Link(IRs, a, last(H), name)
      /\ ViaPrototype(jrs, b, f, name) = IF H = {} THEN NONE ELSE Link(jrs, b, last(H), name)
  <2>1. ViaPrototype(IRs, a, f, name) = IF headers(IRs, a) = {} THEN NONE ELSE Link(IRs, a, last(headers(IRs, a)), name)
    BY <1>4
  <2>2. ViaPrototype(jrs, b, f, name) = IF headers(jrs, b) = {} THEN NONE ELSE Link(jrs, b, last(headers(jrs, b)), name)
    BY <1>4
  <2> HIDE DEF headers, last
  <2> QED
    BY <1>5, <2>1, <2>2
<1> HIDE DEF H, last
<1>8. ViaPrototype(IRs, a, f, name) = ViaPrototype(jrs, b, f, name)
  BY <1>3, <1>5, <1>6, <1>7
<1> QED
  BY <1>8 DEF a, b

(* A file is resolved by what the names in it and its calls are.            *)
ResolvedC(ir, f, seen, linked) ==
  LET rels == ir.relationships
      included == {r \in rels : IsInclude(r)}
      named == {r \in rels : IsNamed(r.to)}
      isCall(r) == r.kind \in {"Calls", "Instantiates"}
      to(r) == IF isCall(r) THEN linked[r.to.named[1]] ELSE seen[r.to.named[1]]
      kept == {r \in named : to(r) # NONE}
      lost == {r \in named \ kept : ~isCall(r) /\ r.to.named \notin CBuiltin}
  IN  [ir EXCEPT
         !.relationships =
           {[r EXCEPT !.to = CIncludeTarget(f, r.to)] : r \in included}
             \union {[r EXCEPT !.to = to(r), !.kind = IF isCall(r) /\ to(r).kind = "class"
                                                         THEN "Instantiates" ELSE @] : r \in kept},
         !.diagnostics = {r.line : r \in lost}]
CSeen(irs, f) ==
  LET named == {r \in irs[f].relationships : IsNamed(r.to)}
  IN  [n \in {r.to.named[1] : r \in named} |-> CName(irs, LookedInto(CIncludesIn(irs), f), f, n)]
CLinked(irs, f, seen) ==
  LET named == {r \in irs[f].relationships : IsNamed(r.to)}
      isCall(r) == r.kind \in {"Calls", "Instantiates"}
  IN  [n \in {r.to.named[1] : r \in {r \in named : isCall(r)}} |->
         IF seen[n] # NONE THEN seen[n] ELSE ViaPrototype(irs, CIncludesIn(irs), f, n)]

(* So a C file from which none of the others are reached is resolved alike. *)
LEMMA CAlike ==
  ASSUME AdaptersInv, language = "c", NEW jrs, NEW S, Same(jrs, S), CGrows(jrs), NEW f \in S
  PROVE  ResolveC(IRs, f) = ResolveC(jrs, f)
<1>1. jrs[f] = IRs[f] /\ f \in CFiles /\ S \subseteq CFiles
  BY CShape DEF Same
<1>2. ASSUME NEW irs
      PROVE  ResolveC(irs, f) = ResolvedC(irs[f], f, CSeen(irs, f), CLinked(irs, f, CSeen(irs, f)))
  BY DEF ResolveC, ResolvedC, CSeen, CLinked, CIncludesIn
<1> DEFINE files == LookedInto(CIncludesIn(IRs), f)
<1>3. LookedInto(CIncludesIn(jrs), f) = files /\ files \in Seq(S)
  <2> DEFINE a == CIncludesIn(IRs)
             b == CIncludesIn(jrs)
  <2>1. \A g \in CFiles : a[g] \in Seq(CFiles \union {NONE})
    BY CIncludesAreFiles
  <2>2. \A g \in CFiles : b[g] \in Seq(CFiles \union {NONE})
    BY DEF CGrows, CIncludesAreIn
  <2>3. IncludesAlike(a, b, S)
    BY CIncludesStay
  <2> HIDE DEF a, b
  <2>4. LookedInto(a, f) = LookedInto(b, f) /\ LookedInto(a, f) \in Seq(S)
    BY <1>1, <2>1, <2>2, <2>3, CLookedIntoAlike
  <2> QED
    BY <2>4 DEF a, b
<1>4. CSeen(IRs, f) = CSeen(jrs, f)
  <2> DEFINE named == {r \in IRs[f].relationships : IsNamed(r.to)}
             names == {r.to.named[1] : r \in named}
  <2>1. /\ CSeen(IRs, f) = [n \in names |-> CName(IRs, files, f, n)]
        /\ CSeen(jrs, f) = [n \in names |-> CName(jrs, LookedInto(CIncludesIn(jrs), f), f, n)]
    BY <1>1 DEF CSeen
  <2> HIDE DEF names, files
  <2>2. \A n : CName(IRs, files, f, n) = CName(jrs, files, f, n)
    BY <1>3, CNameAlike
  <2> QED
    BY <1>3, <2>1, <2>2
<1>5. \A seen : CLinked(IRs, f, seen) = CLinked(jrs, f, seen)
  <2> DEFINE named == {r \in IRs[f].relationships : IsNamed(r.to)}
             names == {r.to.named[1] : r \in {r \in named : r.kind \in {"Calls", "Instantiates"}}}
             via(irs, n) == ViaPrototype(irs, CIncludesIn(irs), f, n)
  <2>1. ASSUME NEW seen
        PROVE  /\ CLinked(IRs, f, seen) = [n \in names |-> IF seen[n] # NONE THEN seen[n] ELSE via(IRs, n)]
               /\ CLinked(jrs, f, seen) = [n \in names |-> IF seen[n] # NONE THEN seen[n] ELSE via(jrs, n)]
    BY <1>1 DEF CLinked
  <2>2. \A n : via(IRs, n) = via(jrs, n)
    BY CPrototypeAlike
  <2> HIDE DEF names, via
  <2> QED
    BY <2>1, <2>2
<1> HIDE DEF files
<1> QED
  BY <1>1, <1>2, <1>4, <1>5

-----------------------------------------------------------------------------
(* What a C file includes, statement by statement.                          *)
CIncludedAt(f, s) ==
  IF s.is = "include" THEN IncludedFile(f, [include |-> s.path, isLocal |-> s.isLocal]) ELSE NONE
CIncludesAsRead == \A f \in CFiles : CIncludesIn(IRs)[f] = [i \in DOMAIN CRead(f) |-> CIncludedAt(f, CRead(f)[i])]

(* An include of it leads where the statement says, and nothing else is one.*)
LEMMA CIncludesAreRead ==
  ASSUME AdaptersInv, language = "c"
  PROVE  CIncludesAsRead
<1>1. ASSUME NEW f \in CFiles
      PROVE  CIncludesIn(IRs)[f] = [i \in DOMAIN CRead(f) |-> CIncludedAt(f, CRead(f)[i])]
  <2> DEFINE source == CRead(f)
             rels == IRs[f].relationships
             at(i) == {r \in rels : IsInclude(r) /\ r.line = i}
             to(i) == [include |-> source[i].path, isLocal |-> source[i].isLocal]
             one(i) == Rel(ModuleSymbol(f), to(i), "Imports", NONE, i)
             G(i) == IF at(i) = {} THEN NONE ELSE IncludedFile(f, (CHOOSE r \in at(i) : TRUE).to)
  <2>1. CIncludesIn(IRs)[f] = Includes(IRs, f)
    BY DEF CIncludesIn
  <2>2. Includes(IRs, f) = [i \in DOMAIN IRs[f].order |-> G(i)]
    BY DEF Includes
  <2>3. DOMAIN IRs[f].order = DOMAIN source
    <3>1. IRs[f].order = InOrder(f, source)
      BY CShape
    <3> QED
      BY <3>1 DEF InOrder
  <2>4. rels = CIncludes(f, source) \union Prototypes(f, source) \union Aliases(f, source)
                 \union Forwards(f, source) \union CBases(f, source)
                 \union CCalls(f, source) \union CAccesses(f, source)
    BY CShape
  <2> HIDE DEF source, rels
  <2>5. \A r \in CIncludes(f, source) : IsInclude(r) /\ r.line \in Statements(source, "include") /\ r = one(r.line)
    BY DEF CIncludes, Rel, IsInclude
  <2>6. \A i \in Statements(source, "include") : one(i) \in CIncludes(f, source) /\ one(i).line = i
    BY DEF CIncludes, Rel
  <2>7. ASSUME NEW r \in rels, IsInclude(r) PROVE r \in CIncludes(f, source)
    <3>1. \A q \in Prototypes(f, source) : ~IsInclude(q)
      BY DEF Prototypes, Rel, IsInclude
    <3>2. \A q \in Aliases(f, source) : ~IsInclude(q)
      BY DEF Aliases, Rel, IsInclude, Named
    <3>3. ASSUME NEW q \in Forwards(f, source) PROVE ~IsInclude(q)
      <4>1. PICK i : q = Rel(ModuleSymbol(f), Named(<<source[i].name>>), "UsesType", NONE, i)
        BY <3>3 DEF Forwards
      <4>2. q.to = Named(<<source[i].name>>)
        BY <4>1 DEF Rel
      <4> QED
        BY <4>2 DEF IsInclude, Named
    <3>4. \A q \in CBases(f, source) : ~IsInclude(q)
      BY DEF CBases, Rel, IsInclude, Named
    <3>5. \A q \in CCalls(f, source) : ~IsInclude(q)
      BY DEF CCalls, Rel, IsInclude, Named
    <3>6. ASSUME NEW q \in CAccesses(f, source) PROVE ~IsInclude(q)
      <4>1. PICK a : q = Rel(ModuleSymbol(f), Named(a[2]), "AccessesProperty", NONE, a[1])
        BY <3>6 DEF CAccesses
      <4>2. q.to = Named(a[2])
        BY <4>1 DEF Rel
      <4> QED
        BY <4>2 DEF IsInclude, Named
    <3> QED
      BY <2>4, <2>7, <3>1, <3>2, <3>3, <3>4, <3>5, <3>6
  <2>8. ASSUME NEW i \in DOMAIN source PROVE G(i) = CIncludedAt(f, source[i])
    <3>1. CASE source[i].is = "include"
      <4>1. i \in Statements(source, "include")
        BY <2>8, <3>1 DEF Statements
      <4>2. one(i) \in at(i)
        BY <2>4, <2>5, <2>6, <4>1
      <4>3. \A r \in at(i) : r = one(i)
        BY <2>5, <2>7
      <4> DEFINE first == CHOOSE r \in at(i) : TRUE
      <4>4. first = one(i)
        <5> HIDE DEF at, one
        <5> QED
          BY <4>2, <4>3
      <4>5. G(i) = IncludedFile(f, first.to)
        <5> HIDE DEF one
        <5> QED
          BY <4>2
      <4>6. one(i).to = to(i)
        BY DEF Rel
      <4> HIDE DEF G, first, one, at
      <4>7. G(i) = IncludedFile(f, to(i))
        BY <4>4, <4>5, <4>6
      <4> QED
        BY <3>1, <4>7 DEF CIncludedAt
    <3>2. CASE source[i].is # "include"
      <4>1. at(i) = {}
        BY <2>5, <2>7, <3>2 DEF Statements
      <4> QED
        BY <3>2, <4>1 DEF CIncludedAt
    <3> QED
      BY <3>1, <3>2
  <2> HIDE DEF G
  <2>9. [i \in DOMAIN source |-> G(i)] = [i \in DOMAIN source |-> CIncludedAt(f, source[i])]
    BY <2>8
  <2> QED
    BY <2>1, <2>2, <2>3, <2>9 DEF source
<1> QED
  BY <1>1 DEF CIncludesAsRead

(* What holds of an analysis whatever the statements are: it is of every    *)
(* file, imports lead to files, and symbols are of the file that declares   *)
(* them.                                                                    *)
IsAnalysed ==
  LET F == FilesOf(language)
  IN  /\ DOMAIN sources = F /\ DOMAIN IRs = F /\ DOMAIN index = F
      /\ \A x \in F : /\ sources[x] \in Seq(StatementsOf(language))
                      /\ IRs[x] = Extract(language, x, sources[x]) /\ index[x] = Resolve(language, IRs, x)
AnalysisLeads ==
  /\ IsAnalysed
  /\ language = "python" => ImportsLead(PyLeadsIn(IRs), PyFiles)
  /\ language = "rust" => ImportsLead(RsLeadsIn(IRs), RsFiles)
  /\ language = "typescript" => TsAreSymbols(IRs)
  /\ language = "c" => CIncludesAreIn(IRs) /\ CIncludesAsRead

(* So does every analysis.                                                  *)
LEMMA EveryAnalysisLeads ==
  ASSUME AdaptersInv
  PROVE  AnalysisLeads
<1>1. language = "typescript" => TsAreSymbols(IRs)
  BY TsSymbols DEF TsAreSymbols
<1>2. language = "c" => CIncludesAreIn(IRs) /\ CIncludesAsRead
  <2>1. ASSUME language = "c" PROVE CIncludesAreIn(IRs)
    <3>1. \A f \in CFiles : CIncludesIn(IRs)[f] \in Seq(CFiles \union {NONE})
      BY <2>1, CIncludesAreFiles
    <3> QED
      BY <3>1 DEF CIncludesAreIn
  <2> QED
    BY <2>1, CIncludesAreRead
<1>3. IsAnalysed
  BY Analysed DEF IsAnalysed
<1> QED
  BY <1>1, <1>2, <1>3, PyImportsLead, RsImportsLead DEF AnalysisLeads

(* So that a file is resolved alike in two analyses of which the files that *)
(* its imports lead to are the same.                                        *)
LEMMA ResolvedAlike ==
  ASSUME AdaptersInv, NEW jrs, NEW S, Same(jrs, S), NEW f \in S,
         language = "python" => ImportsLead(PyLeadsIn(jrs), PyFiles),
         language = "rust" => ImportsLead(RsLeadsIn(jrs), RsFiles),
         language = "typescript" => TsAreSymbols(jrs),
         language = "c" => CGrows(jrs)
  PROVE  Resolve(language, IRs, f) = Resolve(language, jrs, f)
<1>1. CASE language = "typescript"
  BY <1>1, TsAlike DEF Resolve
<1>2. CASE language = "python"
  BY <1>2, PyAlike DEF Resolve
<1>3. CASE language = "rust"
  BY <1>3, RsAlike DEF Resolve
<1>4. CASE language = "go"
  BY <1>4, GoAlike DEF Resolve
<1>5. CASE language = "c"
  BY <1>5, CAlike DEF Resolve
<1>6. language \in {"typescript", "python", "rust", "go", "c"}
  BY WritingAssumption DEF AdaptersInv
<1> QED
  BY <1>1, <1>2, <1>3, <1>4, <1>5, <1>6

(* What is written changes the IR of its file alone, which in C includes    *)
(* what it did.                                                             *)
LEMMA WrittenElsewhere ==
  ASSUME AnalysisLeads, AnalysisLeads', WriteStatement
  PROVE  /\ DOMAIN IRs' = DOMAIN IRs
         /\ \A x, y \in DOMAIN IRs : sources'[x] # sources[x] /\ x # y => IRs'[y] = IRs[y]
         /\ language = "c" => CGrows(IRs')
<1> DEFINE F == FilesOf(language)
<1>1. PICK w \in Writable[language] : sources' = [sources EXCEPT ![w[1]] = Append(@, w[2])]
  BY DEF WriteStatement
<1>2. language' = language
  BY DEF WriteStatement
<1>3. /\ DOMAIN sources = F /\ DOMAIN IRs = F
      /\ \A x \in F : IRs[x] = Extract(language, x, sources[x]) /\ sources[x] \in Seq(StatementsOf(language))
  BY DEF AnalysisLeads, IsAnalysed
<1>4. /\ DOMAIN sources' = F /\ DOMAIN IRs' = F
      /\ \A x \in F : IRs'[x] = Extract(language, x, sources'[x])
  BY <1>2 DEF AnalysisLeads, IsAnalysed
<1>5. ASSUME NEW x \in F, NEW y \in F, sources'[x] # sources[x], x # y PROVE IRs'[y] = IRs[y]
  <2>1. sources'[y] = sources[y]
    BY <1>1, <1>3, <1>5
  <2> QED
    BY <1>3, <1>4, <1>5, <2>1
<1>6. ASSUME language = "c" PROVE CGrows(IRs')
  <2>1. F = CFiles
    BY <1>6 DEF FilesOf
  <2>2. CIncludesAsRead /\ CIncludesAreIn(IRs')
    BY <1>2, <1>6 DEF AnalysisLeads
  <2>3. \A x \in CFiles : CIncludesIn(IRs')[x] = [i \in DOMAIN CRead(x)' |-> CIncludedAt(x, CRead(x)'[i])]
    <3>1. CIncludesAsRead'
      BY <1>2, <1>6 DEF AnalysisLeads
    <3> QED
      BY <3>1 DEF CIncludesAsRead
  <2>4. ASSUME NEW x \in CFiles PROVE ToSet(CIncludesIn(IRs)[x]) \subseteq ToSet(CIncludesIn(IRs')[x])
    <3> DEFINE old == CRead(x)
               new == CRead(x)'
    <3>1. \A i \in DOMAIN old : i \in DOMAIN new /\ new[i] = old[i]
      <4>1. sources[x] \in Seq(StatementsOf(language)) /\ x \in DOMAIN sources
        BY <1>3, <2>1
      <4>2. sources'[x] = sources[x] \/ sources'[x] = Append(sources[x], w[2])
        BY <1>1, <4>1
      <4>3. \A i \in DOMAIN sources[x] : i \in DOMAIN sources'[x] /\ sources'[x][i] = sources[x][i]
        BY <4>1, <4>2
      <4> QED
        BY <4>3 DEF CRead, Read
    <3>2. /\ CIncludesIn(IRs)[x] = [i \in DOMAIN old |-> CIncludedAt(x, old[i])]
          /\ CIncludesIn(IRs')[x] = [i \in DOMAIN new |-> CIncludedAt(x, new[i])]
      BY <2>2, <2>3 DEF CIncludesAsRead
    <3> HIDE DEF old, new
    <3> QED
      BY <3>1, <3>2 DEF ToSet
  <2> QED
    BY <2>2, <2>4 DEF CGrows, CIncludesMore
<1> QED
  BY <1>3, <1>4, <1>5, <1>6

(* A file that is resolved otherwise after something was written in another *)
(* is led to that one: if not, all the files it is led to are the same.     *)
LEMMA WritingIsLocal ==
  ASSUME AdaptersInv, AnalysisLeads, AnalysisLeads', WriteStatement
  PROVE  ChangesWhatReachesIt
<1> DEFINE F == FilesOf(language)
           jrs == Extracted(language, sources')
           named == [f \in DOMAIN jrs |-> NamedBy(jrs, f) \intersect DOMAIN jrs]
<1>1. language' = language /\ jrs = IRs'
  BY DEF WriteStatement, IRs
<1>2. /\ DOMAIN IRs = F /\ DOMAIN index = F /\ DOMAIN sources = F
      /\ \A x \in F : index[x] = Resolve(language, IRs, x)
  BY DEF AnalysisLeads, IsAnalysed
<1>3. DOMAIN jrs = F /\ \A x \in F : index'[x] = Resolve(language, jrs, x)
  BY <1>1 DEF AnalysisLeads, IsAnalysed
<1>4. /\ \A x, y \in F : sources'[x] # sources[x] /\ x # y => jrs[y] = IRs[y]
      /\ language = "c" => CGrows(jrs)
  BY <1>1, <1>2, WrittenElsewhere
<1>5. /\ language = "python" => ImportsLead(PyLeadsIn(jrs), PyFiles)
      /\ language = "rust" => ImportsLead(RsLeadsIn(jrs), RsFiles)
      /\ language = "typescript" => TsAreSymbols(jrs)
  BY <1>1 DEF AnalysisLeads
<1>6. IsFiniteSet(F)
  <2>1. language \in {"typescript", "python", "rust", "go", "c"}
    BY WritingAssumption DEF AdaptersInv
  <2> QED
    BY <2>1, FilesAssumption DEF FilesOf
<1> HIDE DEF jrs, F
<1>7. DOMAIN named = F /\ \A x \in F : named[x] = NamedBy(jrs, x) \intersect F
  BY <1>3
<1> HIDE DEF named
<1>8. ASSUME NEW g \in F, sources'[g] # sources[g], NEW f \in F, g \notin Reach(named, f)
      PROVE  index'[f] = index[f]
  <2> DEFINE S == Reach(named, f)
  <2>1. f \in S /\ S \subseteq F /\ \A x \in S : named[x] \subseteq S
    BY <1>6, <1>7, ReachIsClosed
  <2> HIDE DEF S
  <2>2. Same(jrs, S)
    <3>1. \A x \in S : jrs[x] = IRs[x]
      BY <1>4, <1>8, <2>1 DEF S
    <3> QED
      BY <1>2, <1>3, <1>7, <2>1, <3>1 DEF Same
  <2>3. Resolve(language, IRs, f) = Resolve(language, jrs, f)
    BY <1>4, <1>5, <2>1, <2>2, ResolvedAlike
  <2> QED
    BY <1>2, <1>3, <2>3
<1>9. \A g \in {g \in DOMAIN sources : sources'[g] # sources[g]}, f \in DOMAIN index :
        index'[f] # index[f] => g \in Reach(named, f)
  BY <1>2, <1>8
<1> QED
  BY <1>9 DEF ChangesWhatReachesIt, jrs, named

(* What is written in a file changes what another is resolved to only where *)
(* imports lead from that one to it.                                        *)
THEOREM ResolutionIsAlwaysLocal == AdaptersSpec => ResolutionIsLocal
<1>1. AdaptersInv => AnalysisLeads
  BY EveryAnalysisLeads
<1>2. AdaptersInv /\ AnalysisLeads /\ AnalysisLeads' /\ [WriteStatement]_adapters
        => [ChangesWhatReachesIt]_adapters
  BY WritingIsLocal
<1> QED
  BY <1>1, <1>2, AdaptersInvHolds, PTL DEF AdaptersSpec, ResolutionIsLocal
=============================================================================
