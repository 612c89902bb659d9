------------------------- MODULE RevisionStoreProofs -------------------------
(***************************************************************************)
(* Theorems about RevisionStore, for any number of revisions, layouts and   *)
(* retentions and any bound of the counter.                                 *)
(***************************************************************************)
EXTENDS RevisionStoreRefinement, FiniteSetTheorems, TLAPS

(* The steps between reading the layout stamp and dropping the store.       *)
Reconciled == {"ready", "saved", "numbered", "stored", "indexed", "pruning", "done"}

(* What a process knows at each step of a command.                          *)
SessionInv ==
  /\ pc # "closed" => binary \in Layouts
  /\ pc \in {"saved", "numbered", "stored", "indexed", "pruning", "done"} =>
       graph \in Graphs
  /\ pc \in {"numbered", "stored", "indexed", "pruning", "done"} =>
       target \in Revisions

TypeInv == TypeOK /\ SessionInv

(* A delete loop never forgets the revision it is in the middle of.         *)
LoopInv ==
  deleting # NONE => pc \in {"dropping", "pruning"} /\ deleting \in todo

(* The counter is ahead of the index, strictly so while a save holds a      *)
(* number it has not recorded yet, and is reset only when nothing is listed.*)
CounterInv ==
  /\ CounterCoversIndex
  /\ SequencesUnique
  /\ pc \in {"numbered", "stored", "indexed", "pruning", "done"} =>
       assigned = sequence /\ sequence > 0
  /\ pc \in {"numbered", "stored"} =>
       sequence = MaxSequence \/ \A r \in Revisions : index[r] < sequence
  /\ pc = "dropping" => Listed \subseteq todo
  /\ pc = "stamping" => Listed = {}

(* The stamp agrees with the process that writes, and an unstamped store    *)
(* lists nothing.                                                           *)
LayoutInv ==
  /\ ListedMatchLayout
  /\ pc \in Reconciled => layout = binary
  /\ layout = NONE => Listed = {}
  /\ pc = "stored" =>
       snapshots[target] = [graph |-> graph, layout |-> binary]

(* The command's graph is in both places it is written to, and the revision *)
(* it recorded is ahead of all others and out of the reach of retention.    *)
RecordInv ==
  /\ pc \in {"saved", "numbered", "stored", "indexed", "pruning", "done"} =>
       working = graph
  /\ pc = "indexed" =>
       snapshots[target] = [graph |-> graph, layout |-> binary]
  /\ pc \in {"indexed", "pruning", "done"} /\ sequence < MaxSequence =>
       \A r \in Revisions \ {target} : index[r] < sequence
  /\ pc = "indexed" => index[target] = sequence
  /\ pc \in {"pruning", "done"} /\ keep > 0 /\ sequence < MaxSequence =>
       /\ target \notin todo
       /\ index[target] = sequence
       /\ snapshots[target] = [graph |-> graph, layout |-> binary]

-----------------------------------------------------------------------------
(* TypeOK is not inductive alone: what PutSnapshot writes is a graph only   *)
(* because SaveGraph came before it.                                        *)
LEMMA TypeInvariant == Spec => []TypeInv
<1> USE RevisionsAssumption, KeepsAssumption, MaxSequenceAssumption, NoneAssumption
<1>1. Init => TypeInv
  BY DEF Init, TypeInv, TypeOK, SessionInv, Steps
<1>2. TypeInv /\ [Next]_vars => TypeInv'
  <2> SUFFICES ASSUME TypeInv, [Next]_vars
               PROVE  TypeInv'
    OBVIOUS
  <2> USE DEF TypeInv, TypeOK, SessionInv, Steps, disk
  <2>1. ASSUME NEW b \in Layouts, Open(b) PROVE TypeInv'
    BY <2>1 DEF Open
  <2>2. CASE AdoptLayout
    BY <2>2 DEF AdoptLayout
  <2>3. CASE BeginDrop
    BY <2>3 DEF BeginDrop, Listed
  <2>4. CASE DeleteSnapshot
    BY <2>4 DEF DeleteSnapshot
  <2>5. CASE DeleteIndex
    BY <2>5 DEF DeleteIndex
  <2>6. CASE ResetSequence
    BY <2>6 DEF ResetSequence
  <2>7. CASE StampLayout
    BY <2>7 DEF StampLayout
  <2>8. ASSUME NEW g \in Graphs, SaveGraph(g) PROVE TypeInv'
    BY <2>8 DEF SaveGraph
  <2>9. ASSUME NEW r \in Revisions, NextSequence(r) PROVE TypeInv'
    BY <2>9 DEF NextSequence, Successor
  <2>10. CASE PutSnapshot
    <3>1. [graph |-> graph, layout |-> binary] \in SnapshotRecord \union {NONE}
      BY <2>10 DEF PutSnapshot, SnapshotRecord
    <3>2. QED
      BY <2>10, <3>1 DEF PutSnapshot
  <2>11. CASE PutIndex
    BY <2>11 DEF PutIndex
  <2>12. ASSUME NEW k \in Keeps, BeginPrune(k) PROVE TypeInv'
    BY <2>12 DEF BeginPrune, Stale, Listed
  <2>13. CASE FinishPrune
    BY <2>13 DEF FinishPrune
  <2>14. CASE Close
    BY <2>14 DEF Close, Forget
  <2>15. CASE Interrupt
    BY <2>15 DEF Interrupt, Forget
  <2>16. CASE UNCHANGED vars
    BY <2>16 DEF vars, process
  <2>17. QED
    BY <2>1, <2>2, <2>3, <2>4, <2>5, <2>6, <2>7, <2>8, <2>9, <2>10, <2>11,
       <2>12, <2>13, <2>14, <2>15, <2>16 DEF Next
<1>3. QED
  BY <1>1, <1>2, PTL DEF Spec

(* The store and the process keep their types: in particular the counter    *)
(* and every index entry stay within u64, whatever is interrupted.          *)
THEOREM TypeCorrect == Spec => []TypeOK
BY TypeInvariant, PTL DEF TypeInv

(* Both delete loops, whoever runs them.                                    *)
LEMMA LoopInvariant == Spec => []LoopInv
<1> USE RevisionsAssumption, MaxSequenceAssumption, NoneAssumption
<1>1. Init => LoopInv
  BY DEF Init, LoopInv
<1>2. TypeInv /\ LoopInv /\ [Next]_vars => LoopInv'
  <2> SUFFICES ASSUME TypeInv, LoopInv, [Next]_vars
               PROVE  LoopInv'
    OBVIOUS
  <2> USE DEF LoopInv, TypeInv, TypeOK, SessionInv, Steps, disk
  <2>1. ASSUME NEW b \in Layouts, Open(b) PROVE LoopInv'
    BY <2>1 DEF Open
  <2>2. CASE AdoptLayout
    BY <2>2 DEF AdoptLayout
  <2>3. CASE BeginDrop
    BY <2>3 DEF BeginDrop
  <2>4. CASE DeleteSnapshot
    BY <2>4 DEF DeleteSnapshot, IsNextToDelete
  <2>5. CASE DeleteIndex
    BY <2>5 DEF DeleteIndex
  <2>6. CASE ResetSequence
    BY <2>6 DEF ResetSequence
  <2>7. CASE StampLayout
    BY <2>7 DEF StampLayout
  <2>8. ASSUME NEW g \in Graphs, SaveGraph(g) PROVE LoopInv'
    BY <2>8 DEF SaveGraph
  <2>9. ASSUME NEW r \in Revisions, NextSequence(r) PROVE LoopInv'
    BY <2>9 DEF NextSequence, Successor
  <2>10. CASE PutSnapshot
    BY <2>10 DEF PutSnapshot
  <2>11. CASE PutIndex
    BY <2>11 DEF PutIndex
  <2>12. ASSUME NEW k \in Keeps, BeginPrune(k) PROVE LoopInv'
    BY <2>12 DEF BeginPrune
  <2>13. CASE FinishPrune
    BY <2>13 DEF FinishPrune
  <2>14. CASE Close
    BY <2>14 DEF Close, Forget
  <2>15. CASE Interrupt
    BY <2>15 DEF Interrupt, Forget
  <2>16. CASE UNCHANGED vars
    BY <2>16 DEF vars, process
  <2>17. QED
    BY <2>1, <2>2, <2>3, <2>4, <2>5, <2>6, <2>7, <2>8, <2>9, <2>10, <2>11, <2>12, <2>13, <2>14, <2>15, <2>16 DEF Next
<1>3. QED
  BY <1>1, <1>2, TypeInvariant, PTL DEF Spec

(* The counter argument.                                                    *)
LEMMA CounterInvariant == Spec => []CounterInv
<1> USE RevisionsAssumption, MaxSequenceAssumption, NoneAssumption
<1>1. Init => CounterInv
  BY DEF Init, CounterInv, CounterCoversIndex, SequencesUnique, Listed
<1>2. TypeInv /\ LoopInv /\ CounterInv /\ [Next]_vars => CounterInv'
  <2> SUFFICES ASSUME TypeInv, LoopInv, CounterInv, [Next]_vars
               PROVE  CounterInv'
    OBVIOUS
  <2> USE DEF CounterInv, CounterCoversIndex, SequencesUnique, Listed, TypeInv, TypeOK, SessionInv, Steps, disk
  <2>1. ASSUME NEW b \in Layouts, Open(b) PROVE CounterInv'
    BY <2>1 DEF Open
  <2>2. CASE AdoptLayout
    BY <2>2 DEF AdoptLayout
  <2>3. CASE BeginDrop
    BY <2>3 DEF BeginDrop
  <2>4. CASE DeleteSnapshot
    BY <2>4 DEF DeleteSnapshot
  <2>5. CASE DeleteIndex
    BY <2>5 DEF DeleteIndex
  <2>6. CASE ResetSequence
    BY <2>6 DEF ResetSequence
  <2>7. CASE StampLayout
    BY <2>7 DEF StampLayout
  <2>8. ASSUME NEW g \in Graphs, SaveGraph(g) PROVE CounterInv'
    BY <2>8 DEF SaveGraph
  <2>9. ASSUME NEW r \in Revisions, NextSequence(r) PROVE CounterInv'
    BY <2>9 DEF NextSequence, Successor
  <2>10. CASE PutSnapshot
    BY <2>10 DEF PutSnapshot
  <2>11. CASE PutIndex
    BY <2>11 DEF PutIndex
  <2>12. ASSUME NEW k \in Keeps, BeginPrune(k) PROVE CounterInv'
    BY <2>12 DEF BeginPrune
  <2>13. CASE FinishPrune
    BY <2>13 DEF FinishPrune
  <2>14. CASE Close
    BY <2>14 DEF Close, Forget
  <2>15. CASE Interrupt
    BY <2>15 DEF Interrupt, Forget
  <2>16. CASE UNCHANGED vars
    BY <2>16 DEF vars, process
  <2>17. QED
    BY <2>1, <2>2, <2>3, <2>4, <2>5, <2>6, <2>7, <2>8, <2>9, <2>10, <2>11, <2>12, <2>13, <2>14, <2>15, <2>16 DEF Next
<1>3. QED
  BY <1>1, <1>2, TypeInvariant, LoopInvariant, PTL DEF Spec

(* The stamp argument.                                                      *)
LEMMA LayoutInvariant == Spec => []LayoutInv
<1> USE RevisionsAssumption, MaxSequenceAssumption, NoneAssumption
<1>1. Init => LayoutInv
  BY DEF Init, LayoutInv, ListedMatchLayout, Listed, Reconciled
<1>2. TypeInv /\ LoopInv /\ CounterInv /\ LayoutInv /\ [Next]_vars => LayoutInv'
  <2> SUFFICES ASSUME TypeInv, LoopInv, CounterInv, LayoutInv, [Next]_vars
               PROVE  LayoutInv'
    OBVIOUS
  <2> USE DEF LayoutInv, ListedMatchLayout, Listed, Reconciled, TypeInv, TypeOK, SessionInv, Steps, disk
  <2>1. ASSUME NEW b \in Layouts, Open(b) PROVE LayoutInv'
    BY <2>1 DEF Open
  <2>2. CASE AdoptLayout
    BY <2>2 DEF AdoptLayout
  <2>3. CASE BeginDrop
    BY <2>3 DEF BeginDrop
  <2>4. CASE DeleteSnapshot
    BY <2>4 DEF DeleteSnapshot
  <2>5. CASE DeleteIndex
    BY <2>5 DEF DeleteIndex
  <2>6. CASE ResetSequence
    BY <2>6 DEF ResetSequence
  <2>7. CASE StampLayout
    BY <2>7 DEF StampLayout, CounterInv
  <2>8. ASSUME NEW g \in Graphs, SaveGraph(g) PROVE LayoutInv'
    BY <2>8 DEF SaveGraph
  <2>9. ASSUME NEW r \in Revisions, NextSequence(r) PROVE LayoutInv'
    BY <2>9 DEF NextSequence, Successor
  <2>10. CASE PutSnapshot
    BY <2>10 DEF PutSnapshot
  <2>11. CASE PutIndex
    BY <2>11 DEF PutIndex
  <2>12. ASSUME NEW k \in Keeps, BeginPrune(k) PROVE LayoutInv'
    BY <2>12 DEF BeginPrune
  <2>13. CASE FinishPrune
    BY <2>13 DEF FinishPrune
  <2>14. CASE Close
    BY <2>14 DEF Close, Forget
  <2>15. CASE Interrupt
    BY <2>15 DEF Interrupt, Forget
  <2>16. CASE UNCHANGED vars
    BY <2>16 DEF vars, process
  <2>17. QED
    BY <2>1, <2>2, <2>3, <2>4, <2>5, <2>6, <2>7, <2>8, <2>9, <2>10, <2>11, <2>12, <2>13, <2>14, <2>15, <2>16 DEF Next
<1>3. QED
  BY <1>1, <1>2, TypeInvariant, LoopInvariant, CounterInvariant, PTL DEF Spec

(* The argument for what a finished command leaves.                         *)
LEMMA RecordInvariant == Spec => []RecordInv
<1> USE RevisionsAssumption, MaxSequenceAssumption, NoneAssumption
<1>1. Init => RecordInv
  BY DEF Init, RecordInv
<1>2. TypeInv /\ LoopInv /\ CounterInv /\ LayoutInv /\ RecordInv /\ [Next]_vars => RecordInv'
  <2> SUFFICES ASSUME TypeInv, LoopInv, CounterInv, LayoutInv, RecordInv, [Next]_vars
               PROVE  RecordInv'
    OBVIOUS
  <2> USE DEF RecordInv, TypeInv, TypeOK, SessionInv, Steps, disk
  <2>1. ASSUME NEW b \in Layouts, Open(b) PROVE RecordInv'
    BY <2>1 DEF Open
  <2>2. CASE AdoptLayout
    BY <2>2 DEF AdoptLayout
  <2>3. CASE BeginDrop
    BY <2>3 DEF BeginDrop
  <2>4. CASE DeleteSnapshot
    BY <2>4 DEF DeleteSnapshot, IsNextToDelete
  <2>5. CASE DeleteIndex
    BY <2>5 DEF DeleteIndex, LoopInv
  <2>6. CASE ResetSequence
    BY <2>6 DEF ResetSequence
  <2>7. CASE StampLayout
    BY <2>7 DEF StampLayout
  <2>8. ASSUME NEW g \in Graphs, SaveGraph(g) PROVE RecordInv'
    BY <2>8 DEF SaveGraph
  <2>9. ASSUME NEW r \in Revisions, NextSequence(r) PROVE RecordInv'
    BY <2>9 DEF NextSequence, Successor
  <2>10. CASE PutSnapshot
    BY <2>10 DEF PutSnapshot
  <2>11. CASE PutIndex
    BY <2>11 DEF PutIndex, CounterInv, LayoutInv
  <2>12. ASSUME NEW k \in Keeps, BeginPrune(k) PROVE RecordInv'
    <3>1. CASE k > 0 /\ sequence < MaxSequence
      <4>1. /\ target \in Nat /\ index[target] = sequence /\ sequence \in Nat
            /\ \A q \in Revisions \ {target} : index[q] < sequence
            /\ \A q \in Revisions : index[q] \in Nat
        <5>1. pc = "indexed" /\ target \in Revisions
          BY <2>12 DEF BeginPrune
        <5>2. index[target] = sequence
          BY <5>1
        <5>3. \A q \in Revisions \ {target} : index[q] < sequence
          BY <3>1, <5>1
        <5>4. sequence \in Nat /\ \A q \in Revisions : index[q] \in Nat
          OBVIOUS
        <5>5. QED
          BY <5>1, <5>2, <5>3, <5>4
      <4>2. \A q \in Listed : ~Newer(q, target)
        <5>1. ~Newer(target, target)
          BY <4>1 DEF Newer
        <5>2. \A q \in Revisions \ {target} : ~Newer(q, target)
          BY <4>1 DEF Newer
        <5>3. QED
          BY <5>1, <5>2 DEF Listed
      <4>3. Cardinality({q \in Listed : Newer(q, target)}) = 0
        <5>1. {q \in Listed : Newer(q, target)} = {}
          BY <4>2
        <5>2. QED
          BY <5>1, FS_EmptySet
      <4>4. target \notin Stale(k)
        BY <3>1, <4>3, KeepsAssumption DEF Stale
      <4>5. QED
        BY <2>12, <3>1, <4>1, <4>4 DEF BeginPrune
    <3>2. CASE ~(k > 0 /\ sequence < MaxSequence)
      BY <2>12, <3>2, KeepsAssumption DEF BeginPrune
    <3>3. QED
      BY <3>1, <3>2
  <2>13. CASE FinishPrune
    BY <2>13 DEF FinishPrune
  <2>14. CASE Close
    BY <2>14 DEF Close, Forget
  <2>15. CASE Interrupt
    BY <2>15 DEF Interrupt, Forget
  <2>16. CASE UNCHANGED vars
    BY <2>16 DEF vars, process
  <2>17. QED
    BY <2>1, <2>2, <2>3, <2>4, <2>5, <2>6, <2>7, <2>8, <2>9, <2>10, <2>11, <2>12, <2>13, <2>14, <2>15, <2>16 DEF Next
<1>3. QED
  BY <1>1, <1>2, TypeInvariant, LoopInvariant, CounterInvariant, LayoutInvariant, PTL DEF Spec

(* Every index entry is bounded by the counter, and two listed revisions    *)
(* never share a sequence short of u64::MAX: a revision saved next is       *)
(* listed first and retention has a total order to work with, across any    *)
(* interleaving of crashes, layout changes and saves.                       *)
THEOREM CounterSafe == Spec => [](CounterCoversIndex /\ SequencesUnique)
<1>1. CounterInv => CounterCoversIndex /\ SequencesUnique
  BY DEF CounterInv
<1>2. QED
  BY <1>1, CounterInvariant, PTL

(* No crash between the writes of a layout change makes a listed revision   *)
(* load under a layout other than the one that wrote it.                    *)
THEOREM LayoutSafe == Spec => []ListedMatchLayout
<1>1. LayoutInv => ListedMatchLayout
  BY DEF LayoutInv
<1>2. QED
  BY <1>1, LayoutInvariant, PTL

(* A command that recorded a revision and finished left it loadable, first  *)
(* in the listing and equal to the working graph; retention of at least one *)
(* never deletes what was just recorded.                                    *)
THEOREM RecordSafe == Spec => []RecordedRevisionLoads
<1>1. TypeInv /\ CounterInv /\ LayoutInv /\ RecordInv => RecordedRevisionLoads
  <2> SUFFICES ASSUME TypeInv, CounterInv, LayoutInv, RecordInv,
                      pc = "done", keep > 0, sequence < MaxSequence
               PROVE  /\ snapshots[target] = [graph |-> graph, layout |-> layout]
                      /\ working = graph
                      /\ \A r \in Revisions \ {target} : index[r] < index[target]
    BY DEF RecordedRevisionLoads
  <2>1. layout = binary /\ working = graph
    BY DEF LayoutInv, Reconciled, RecordInv
  <2>2. /\ snapshots[target] = [graph |-> graph, layout |-> binary]
        /\ index[target] = sequence
        /\ \A r \in Revisions \ {target} : index[r] < sequence
    BY DEF RecordInv
  <2>3. QED
    BY <2>1, <2>2
<1>2. QED
  BY <1>1, TypeInvariant, CounterInvariant, LayoutInvariant, RecordInvariant, PTL

-----------------------------------------------------------------------------
(* What retention leaves. The listed revisions that come before r:          *)
Ahead(r) == {q \in Listed : Newer(q, r)}

(* The listing order is a strict total order.                               *)
LEMMA NewerIsTotalOrder ==
  ASSUME TypeOK, NEW q \in Revisions, NEW r \in Revisions, NEW s \in Revisions
  PROVE  /\ ~Newer(r, r)
         /\ Newer(q, r) /\ Newer(r, s) => Newer(q, s)
         /\ Newer(q, r) => ~Newer(r, q)
         /\ q # r => Newer(q, r) \/ Newer(r, q)
<1>1. {q, r, s} \subseteq Nat /\ {index[q], index[r], index[s]} \subseteq Nat
  BY RevisionsAssumption, MaxSequenceAssumption DEF TypeOK
<1>2. QED
  BY <1>1 DEF Newer

(* A revision listed later has more revisions before it.                    *)
LEMMA AheadGrows ==
  ASSUME TypeOK, IsFiniteSet(Listed), NEW q \in Listed, NEW r \in Listed, Newer(q, r)
  PROVE  Cardinality(Ahead(q)) < Cardinality(Ahead(r))
<1>1. q \in Revisions /\ r \in Revisions
  BY DEF Listed
<1>2. IsFiniteSet(Ahead(q)) /\ IsFiniteSet(Ahead(r))
  BY FS_Subset DEF Ahead
<1>3. q \notin Ahead(q)
  BY <1>1, NewerIsTotalOrder DEF Ahead
<1>4. Ahead(q) \union {q} \subseteq Ahead(r)
  BY <1>1, NewerIsTotalOrder DEF Ahead, Listed
<1>5. Cardinality(Ahead(q) \union {q}) = Cardinality(Ahead(q)) + 1
  BY <1>2, <1>3, FS_AddElement
<1>6. Cardinality(Ahead(q) \union {q}) <= Cardinality(Ahead(r))
  BY <1>2, <1>4, FS_Subset
<1>7. Cardinality(Ahead(q)) \in Nat /\ Cardinality(Ahead(r)) \in Nat
  BY <1>2, FS_CardinalityType
<1>8. QED
  BY <1>5, <1>6, <1>7

(* What prune_revisions keeps is at most k revisions: their numbers of      *)
(* revisions before them differ and are below k.                            *)
LEMMA KeptAreFew ==
  ASSUME TypeOK, IsFiniteSet(Listed), NEW k \in Nat
  PROVE  Cardinality(Listed \ Stale(k)) <= k
<1> DEFINE Kept == Listed \ Stale(k)
           place == [r \in Kept |-> Cardinality(Ahead(r))]
<1>1. \A r \in Kept : Cardinality(Ahead(r)) \in 0 .. k - 1
  <2> SUFFICES ASSUME NEW r \in Kept PROVE Cardinality(Ahead(r)) \in 0 .. k - 1
    OBVIOUS
  <2>1. Cardinality(Ahead(r)) \in Nat
    BY FS_Subset, FS_CardinalityType DEF Ahead
  <2>2. ~(Cardinality(Ahead(r)) >= k)
    BY DEF Stale, Ahead
  <2>3. QED
    BY <2>1, <2>2
<1>2. ASSUME NEW q \in Kept, NEW r \in Kept, q # r PROVE place[q] # place[r]
  <2>1. Newer(q, r) \/ Newer(r, q)
    BY <1>2, NewerIsTotalOrder DEF Listed
  <2>2. \/ Cardinality(Ahead(q)) < Cardinality(Ahead(r))
        \/ Cardinality(Ahead(r)) < Cardinality(Ahead(q))
    BY <2>1, AheadGrows
  <2>3. Cardinality(Ahead(q)) \in Nat /\ Cardinality(Ahead(r)) \in Nat
    BY <1>1
  <2>4. QED
    BY <2>2, <2>3
<1>3. place \in Injection(Kept, 0 .. k - 1)
  BY <1>1, <1>2 DEF Injection, IsInjective
<1>4. IsFiniteSet(0 .. k - 1) /\ Cardinality(0 .. k - 1) = k
  BY FS_Interval
<1>5. QED
  BY <1>3, <1>4, FS_Injection

(* It deletes a revision only if at least k are kept, none of them older.   *)
LEMMA KeptAreNewest ==
  ASSUME TypeOK, IsFiniteSet(Listed), NEW k \in Nat, NEW r \in Stale(k)
  PROVE  /\ Cardinality(Listed \ Stale(k)) >= k
         /\ \A q \in Listed \ Stale(k) : index[q] >= index[r]
<1>1. \A q \in Listed : Cardinality(Ahead(q)) \in Nat
  BY FS_Subset, FS_CardinalityType DEF Ahead
<1>2. \A q \in Listed : q \in Stale(k) <=> Cardinality(Ahead(q)) >= k
  BY DEF Stale, Ahead
<1>3. Stale(k) \subseteq Listed
  BY DEF Stale
<1>4. PICK first \in Stale(k) :
        \A q \in Stale(k) : ~(Ahead(q) \subseteq Ahead(first) /\ Ahead(q) # Ahead(first))
  <2> DEFINE Fronts == {Ahead(q) : q \in Stale(k)}
  <2>1. Fronts \subseteq FiniteSubsetsOf(Listed) /\ Fronts # {}
    <3>1. FiniteSubsetsOf(Listed) = SUBSET Listed
      BY FS_FiniteSubsetsOfFinite
    <3>2. \A q \in Stale(k) : Ahead(q) \subseteq Listed
      BY DEF Ahead
    <3>3. QED
      BY <3>1, <3>2
  <2>2. PICK F \in Fronts : \A G \in Fronts : <<G, F>> \notin StrictSubsetOrdering(Listed)
    <3>1. IsWellFoundedOn(StrictSubsetOrdering(Listed), FiniteSubsetsOf(Listed))
      BY FS_StrictSubsetOrderingWellFounded
    <3>2. QED
      BY <2>1, <3>1, WFMin
  <2>3. PICK q \in Stale(k) : F = Ahead(q)
    BY <2>2
  <2>4. \A p \in Stale(k) : ~(Ahead(p) \subseteq Ahead(q) /\ Ahead(p) # Ahead(q))
    <3>1. \A p \in Stale(k) : <<Ahead(p), Ahead(q)>> \notin StrictSubsetOrdering(Listed)
      BY <2>2, <2>3
    <3>2. \A p \in Stale(k) : <<Ahead(p), Ahead(q)>> \in (SUBSET Listed) \X (SUBSET Listed)
      BY DEF Ahead
    <3>3. QED
      BY <3>1, <3>2 DEF StrictSubsetOrdering
  <2>5. QED
    BY <2>4
<1>5. Ahead(first) \subseteq Listed \ Stale(k)
  <2> SUFFICES ASSUME NEW q \in Ahead(first) PROVE q \notin Stale(k)
    BY DEF Ahead
  <2>1. q \in Listed /\ first \in Listed /\ Newer(q, first)
    BY <1>3 DEF Ahead
  <2>2. Ahead(q) \subseteq Ahead(first)
    BY <2>1, NewerIsTotalOrder DEF Ahead, Listed
  <2>3. q \notin Ahead(q)
    BY <2>1, NewerIsTotalOrder DEF Ahead, Listed
  <2>4. QED
    BY <1>4, <2>2, <2>3
<1>6. Cardinality(Listed \ Stale(k)) >= k
  <2>1. IsFiniteSet(Listed \ Stale(k))
    BY FS_Subset
  <2>2. Cardinality(Ahead(first)) <= Cardinality(Listed \ Stale(k))
    BY <1>5, <2>1, FS_Subset
  <2>3. Cardinality(Listed \ Stale(k)) \in Nat
    BY <2>1, FS_CardinalityType
  <2>4. QED
    BY <1>1, <1>2, <1>3, <2>2, <2>3
<1>7. ASSUME NEW q \in Listed \ Stale(k) PROVE index[q] >= index[r]
  <2>1. Cardinality(Ahead(q)) < Cardinality(Ahead(r))
    BY <1>1, <1>2, <1>3
  <2>2. ~Newer(r, q)
    BY <1>1, <1>3, <2>1, AheadGrows
  <2>3. Newer(q, r)
    BY <1>2, <1>3, <2>2, NewerIsTotalOrder DEF Listed
  <2>4. index[q] \in Nat /\ index[r] \in Nat
    BY <1>3, MaxSequenceAssumption DEF Listed, TypeOK
  <2>5. QED
    BY <2>3, <2>4 DEF Newer
<1>8. QED
  BY <1>6, <1>7

(* Retention works on a finite listing; what it has not set out to delete   *)
(* is within its bound, and is that much and no older while it deletes.     *)
RetainInv ==
  /\ IsFiniteSet(Listed)
  /\ pc \in {"pruning", "done"} => Cardinality(Listed \ todo) <= keep
  /\ pc = "pruning" => \A r \in todo :
       /\ Cardinality(Listed \ todo) >= keep
       /\ \A q \in Listed \ todo : index[q] >= index[r]
  /\ pc = "done" => todo = {}

(* The argument for retention.                                              *)
LEMMA RetainInvariant == Spec => []RetainInv
<1> USE RevisionsAssumption, MaxSequenceAssumption, NoneAssumption
<1>1. Init => RetainInv
  <2> SUFFICES ASSUME Init PROVE RetainInv
    OBVIOUS
  <2>1. Listed = {} /\ pc = "closed"
    BY DEF Init, Listed
  <2>2. QED
    BY <2>1, FS_EmptySet DEF RetainInv
<1>2. TypeInv /\ LoopInv /\ RetainInv /\ [Next]_vars => RetainInv'
  <2> SUFFICES ASSUME TypeInv, LoopInv, RetainInv, [Next]_vars
               PROVE  RetainInv'
    OBVIOUS
  <2> USE DEF TypeInv, disk
  <2>1. CASE index' = index /\ pc' \notin {"pruning", "done"}
    BY <2>1 DEF RetainInv, Listed
  <2>2. CASE UNCHANGED <<index, todo, keep, pc>>
    BY <2>2 DEF RetainInv, Listed
  <2>3. CASE PutIndex
    <3>1. target \in Revisions /\ pc' = "indexed" /\ index' = [index EXCEPT ![target] = assigned]
      BY <2>3 DEF PutIndex, SessionInv
    <3>2. Listed' \subseteq Listed \union {target}
      BY <3>1 DEF Listed, TypeOK
    <3>3. IsFiniteSet(Listed')
      BY <3>2, FS_AddElement, FS_Subset DEF RetainInv
    <3>4. QED
      BY <3>1, <3>3 DEF RetainInv
  <2>4. CASE DeleteIndex
    <3>1. /\ deleting \in todo /\ deleting \in Revisions /\ pc' = pc /\ keep' = keep
          /\ todo' = todo \ {deleting} /\ index' = [index EXCEPT ![deleting] = 0]
      BY <2>4 DEF DeleteIndex, LoopInv, TypeOK
    <3>2. Listed' = Listed \ {deleting} /\ Listed' \ todo' = Listed \ todo
      BY <3>1 DEF Listed, TypeOK
    <3>3. IsFiniteSet(Listed')
      BY <3>2, FS_Subset DEF RetainInv
    <3>4. \A r \in todo' \union (Listed' \ todo') : r \in Revisions => index'[r] = index[r]
      BY <3>1, <3>2 DEF TypeOK
    <3>5. todo \subseteq Revisions /\ Listed \subseteq Revisions
      BY DEF TypeOK, Listed
    <3>6. pc \in {"dropping", "pruning"}
      BY <2>4 DEF DeleteIndex
    <3>7. pc = "pruning" => \A r \in todo' :
            /\ Cardinality(Listed' \ todo') >= keep'
            /\ \A q \in Listed' \ todo' : index'[q] >= index'[r]
      BY <3>1, <3>2, <3>4, <3>5 DEF RetainInv
    <3>8. QED
      BY <3>1, <3>2, <3>3, <3>6, <3>7 DEF RetainInv
  <2>5. ASSUME NEW k \in Keeps, BeginPrune(k) PROVE RetainInv'
    <3>1. /\ k \in Nat /\ pc' = "pruning" /\ keep' = k /\ todo' = Stale(k)
          /\ index' = index /\ Listed' = Listed /\ IsFiniteSet(Listed)
      BY <2>5, KeepsAssumption DEF BeginPrune, Listed, RetainInv
    <3>2. Cardinality(Listed' \ todo') <= keep'
      BY <3>1, KeptAreFew
    <3>3. \A r \in todo' : /\ Cardinality(Listed' \ todo') >= keep'
                           /\ \A q \in Listed' \ todo' : index'[q] >= index'[r]
      BY <3>1, KeptAreNewest
    <3>4. QED
      BY <3>1, <3>2, <3>3 DEF RetainInv
  <2>6. CASE FinishPrune
    BY <2>6 DEF FinishPrune, RetainInv, Listed
  <2>7. QED
    BY <2>1, <2>2, <2>3, <2>4, <2>5, <2>6
       DEF Next, Open, AdoptLayout, BeginDrop, DeleteSnapshot, ResetSequence, StampLayout,
           SaveGraph, NextSequence, PutSnapshot, Close, Interrupt, Forget, vars, process
<1>3. QED
  BY <1>1, <1>2, TypeInvariant, LoopInvariant, PTL DEF Spec

(* When `analyze --snapshot` has ended, no more revisions are listed than   *)
(* --keep-snapshots allows, whatever an earlier interrupted run left.       *)
THEOREM RetentionSafe == Spec => []RetentionBounds
<1>1. TypeInv /\ RetainInv => RetentionBounds
  <2> SUFFICES ASSUME RetainInv, pc = "done" PROVE Cardinality(Listed) <= keep
    BY DEF RetentionBounds
  <2>1. Listed \ todo = Listed
    BY DEF RetainInv
  <2>2. QED
    BY <2>1 DEF RetainInv
<1>2. QED
  BY <1>1, TypeInvariant, RetainInvariant, PTL

(* Retention never deletes a revision unless as many as it is to keep, none *)
(* of them older, stay listed - at the moment of every single deletion, so  *)
(* that a run cut short in between has not deleted too much either.         *)
THEOREM RetentionDropsOldest == Spec => RetentionKeepsNewest
<1> DEFINE Covered == \A r \in Listed \ Listed' :
                        pc = "pruning" =>
                          Cardinality({q \in Listed' : index[q] >= index[r]}) >= keep
<1>1. TypeInv /\ LoopInv /\ RetainInv /\ [Next]_vars => [Covered]_vars
  <2> SUFFICES ASSUME TypeInv, LoopInv, RetainInv, [Next]_vars,
                      NEW r \in Listed \ Listed', pc = "pruning"
               PROVE  Cardinality({q \in Listed' : index[q] >= index[r]}) >= keep
    OBVIOUS
  <2> DEFINE Left == {q \in Listed' : index[q] >= index[r]}
  <2>1. DeleteIndex
    BY RevisionsAssumption
       DEF Listed, Next, Open, AdoptLayout, BeginDrop, DeleteSnapshot, ResetSequence, StampLayout,
           SaveGraph, NextSequence, PutSnapshot, PutIndex, BeginPrune, FinishPrune, Close,
           Interrupt, vars, disk
  <2>2. /\ deleting \in todo /\ deleting \in Revisions
        /\ todo' = todo \ {deleting} /\ index' = [index EXCEPT ![deleting] = 0]
    BY <2>1 DEF DeleteIndex, LoopInv, TypeInv, TypeOK
  <2>3. r = deleting /\ Listed' = Listed \ {deleting}
    BY <2>2 DEF Listed, TypeInv, TypeOK
  <2>4. Listed \ todo \subseteq Left
    BY <2>2, <2>3 DEF RetainInv
  <2>5. IsFiniteSet(Left)
    BY <2>3, FS_Subset DEF RetainInv
  <2>6. Cardinality(Listed \ todo) <= Cardinality(Left)
    BY <2>4, <2>5, FS_Subset
  <2>7. Cardinality(Listed \ todo) \in Nat /\ Cardinality(Left) \in Nat /\ keep \in Nat
    BY <2>4, <2>5, FS_Subset, FS_CardinalityType, KeepsAssumption DEF TypeInv, TypeOK
  <2>8. Cardinality(Listed \ todo) >= keep
    BY <2>2, <2>3 DEF RetainInv
  <2>9. QED
    BY <2>6, <2>7, <2>8
<1>2. QED
  BY <1>1, TypeInvariant, LoopInvariant, RetainInvariant, PTL DEF Spec, RetentionKeepsNewest

-----------------------------------------------------------------------------
(* The refinement. A delete loop deletes what is listed, and takes the      *)
(* snapshot before the index entry.                                         *)
DeleteInv ==
  /\ pc \in {"dropping", "pruning"} => todo \subseteq Listed
  /\ deleting # NONE => snapshots[deleting] = NONE

(* The argument for the delete loops.                                       *)
LEMMA DeleteInvariant == Spec => []DeleteInv
<1>1. Init => DeleteInv
  BY DEF Init, DeleteInv
<1>2. TypeInv /\ LoopInv /\ DeleteInv /\ [Next]_vars => DeleteInv'
  <2> SUFFICES ASSUME TypeInv, LoopInv, DeleteInv, [Next]_vars
               PROVE  DeleteInv'
    OBVIOUS
  <2> USE DEF TypeInv, disk
  <2>1. CASE UNCHANGED <<snapshots, index, deleting, todo>> /\
             (pc' = pc \/ pc' \notin {"dropping", "pruning"})
    BY <2>1 DEF DeleteInv, Listed
  <2>2. CASE deleting' = NONE /\ pc' = "closed"
    BY <2>2 DEF DeleteInv
  <2>3. CASE BeginDrop
    BY <2>3 DEF BeginDrop, DeleteInv, Listed
  <2>4. CASE DeleteSnapshot
    BY <2>4 DEF DeleteSnapshot, DeleteInv, Listed, TypeOK
  <2>5. CASE DeleteIndex
    BY <2>5 DEF DeleteIndex, DeleteInv, Listed, TypeOK
  <2>6. CASE PutSnapshot \/ PutIndex
    BY <2>6 DEF PutSnapshot, PutIndex, DeleteInv, LoopInv
  <2>7. ASSUME NEW k \in Keeps, BeginPrune(k) PROVE DeleteInv'
    BY <2>7 DEF BeginPrune, Stale, DeleteInv, Listed
  <2>8. QED
    BY <2>1, <2>2, <2>3, <2>4, <2>5, <2>6, <2>7
       DEF Next, Open, AdoptLayout, ResetSequence, StampLayout, SaveGraph, NextSequence,
           FinishPrune, Close, Interrupt, Forget, vars, process
<1>3. QED
  BY <1>1, <1>2, TypeInvariant, LoopInvariant, PTL DEF Spec

(* A snapshot is never taken for an absent key, so a revision has content   *)
(* exactly when it has a snapshot.                                          *)
LEMMA SnapshotIsContent ==
  ASSUME TypeInv, NEW r \in Revisions
  PROVE  Content[r] = NONE <=> snapshots[r] = NONE
<1>1. Content[r] = IF snapshots[r] = NONE THEN NONE ELSE snapshots[r].graph
  BY DEF Content
<1>2. snapshots[r] # NONE => snapshots[r].graph \in Graphs
  BY DEF TypeInv, TypeOK, SnapshotRecord
<1>3. QED
  BY <1>1, <1>2, NoneAssumption

(* save_revision's second write replaces the content of one revision.       *)
LEMMA PutSnapshotRecords ==
  ASSUME TypeInv, PutSnapshot
  PROVE  History!Next
<1>1. /\ target \in Revisions /\ graph \in Graphs /\ binary \in Layouts
      /\ snapshots' = [snapshots EXCEPT ![target] = [graph |-> graph, layout |-> binary]]
      /\ index' = index
  BY DEF PutSnapshot, TypeInv, SessionInv
<1>2. [graph |-> graph, layout |-> binary] # NONE
  BY <1>1, NoneAssumption
<1>3. Content' = [Content EXCEPT ![target] = graph]
  BY <1>1, <1>2 DEF Content, TypeInv, TypeOK
<1>4. Listed' = Listed /\ Listing' = Listing
  BY <1>1 DEF Listed, Listing, Newer
<1>5. History!Record(target, graph)
  BY <1>3, <1>4 DEF History!Record
<1>6. QED
  BY <1>1, <1>5 DEF History!Next

(* Its third write makes the revision the first of the listing, while the   *)
(* counter counts.                                                          *)
LEMMA PutIndexPromotes ==
  ASSUME TypeInv, CounterInv, LayoutInv, PutIndex
  PROVE  History!Next \/ sequence' = MaxSequence
<1>1. /\ target \in Revisions /\ sequence' = sequence /\ sequence > 0 /\ snapshots' = snapshots
      /\ index' = [index EXCEPT ![target] = sequence]
  BY DEF PutIndex, TypeInv, SessionInv, CounterInv
<1> SUFFICES ASSUME sequence # MaxSequence PROVE History!Promote(target)
  BY <1>1 DEF History!Next
<1>2. \A r \in Revisions : index[r] < sequence
  BY DEF PutIndex, CounterInv
<1>3. /\ index'[target] = sequence
      /\ \A r \in Revisions : r # target => index'[r] = index[r]
      /\ \A r \in Revisions : index[r] \in Nat
      /\ sequence \in Nat
  BY <1>1, MaxSequenceAssumption DEF TypeInv, TypeOK
<1>4. Listed' = Listed \union {target}
  BY <1>1, <1>3 DEF Listed
<1>5. Listing' = History!Among(Listed \ {target}) \union ({target} \X (Listed \ {target}))
  <2>1. ASSUME NEW q \in Listed', NEW r \in Listed'
        PROVE  Newer(q, r)' <=> \/ q # target /\ r # target /\ Newer(q, r)
                                \/ q = target /\ r # target
    <3>1. q \in Revisions /\ r \in Revisions /\ q \in Nat /\ r \in Nat
      BY RevisionsAssumption DEF Listed
    <3>2. CASE q # target /\ r # target
      BY <1>3, <3>1, <3>2 DEF Newer
    <3>3. CASE q = target /\ r # target
      BY <1>2, <1>3, <3>1, <3>3 DEF Newer
    <3>4. CASE r = target
      BY <1>2, <1>3, <3>1, <3>4 DEF Newer
    <3>5. QED
      BY <3>2, <3>3, <3>4
  <2>2. Listing' = {p \in Listed' \X Listed' : Newer(p[1], p[2])'}
    BY DEF Listing, Newer
  <2>3. QED
    BY <1>4, <2>1, <2>2 DEF History!Among, Listing
<1>6. Content[target] # NONE /\ Content' = Content
  <2>1. snapshots[target] = [graph |-> graph, layout |-> binary]
    BY DEF PutIndex, LayoutInv
  <2>2. [graph |-> graph, layout |-> binary] \in [graph : Graphs, layout : Layouts]
    BY DEF PutIndex, TypeInv, SessionInv
  <2>3. QED
    BY <1>1, <2>1, <2>2, NoneAssumption, SnapshotIsContent DEF Content
<1>7. QED
  BY <1>4, <1>5, <1>6 DEF History!Promote

(* A delete loop's first write takes the content of a listed revision.      *)
LEMMA DeleteSnapshotErases ==
  ASSUME TypeInv, DeleteInv, DeleteSnapshot
  PROVE  History!Next
<1>1. PICK r \in Revisions : r \in todo /\ snapshots' = [snapshots EXCEPT ![r] = NONE]
  BY DEF DeleteSnapshot, IsNextToDelete
<1>2. r \in Listed
  BY <1>1 DEF DeleteSnapshot, DeleteInv
<1>3. Content' = [Content EXCEPT ![r] = NONE]
  BY <1>1 DEF Content, TypeInv, TypeOK
<1>4. Listed' = Listed /\ Listing' = Listing
  BY DEF DeleteSnapshot, Listed, Listing, Newer
<1>5. History!Erase(r)
  BY <1>2, <1>3, <1>4 DEF History!Erase
<1>6. QED
  BY <1>5 DEF History!Next

(* Its second write takes that revision out of the listing.                 *)
LEMMA DeleteIndexDrops ==
  ASSUME TypeInv, LoopInv, DeleteInv, DeleteIndex
  PROVE  History!Next
<1>1. /\ deleting \in Listed /\ deleting \in Revisions /\ snapshots' = snapshots
      /\ index' = [index EXCEPT ![deleting] = 0]
  BY DEF DeleteIndex, LoopInv, DeleteInv, TypeInv, TypeOK
<1>2. Content[deleting] = NONE /\ Content' = Content
  BY <1>1, SnapshotIsContent DEF DeleteIndex, DeleteInv, Content
<1>3. Listed' = Listed \ {deleting}
  BY <1>1 DEF Listed, TypeInv, TypeOK
<1>4. \A r \in Listed' : index'[r] = index[r]
  BY <1>1, <1>3 DEF Listed, TypeInv, TypeOK
<1>5. Listing' = History!Among(Listed \ {deleting})
  <2>1. \A q \in Listed', r \in Listed' : Newer(q, r)' <=> Newer(q, r)
    BY <1>4 DEF Newer
  <2>2. Listing' = {p \in Listed' \X Listed' : Newer(p[1], p[2])'}
    BY DEF Listing, Newer
  <2>3. QED
    BY <1>3, <2>1, <2>2 DEF History!Among, Listing
<1>6. History!Drop(deleting)
  BY <1>1, <1>2, <1>3, <1>5 DEF History!Drop
<1>7. QED
  BY <1>1, <1>6 DEF History!Next

(* The store implements the history: whatever crashes, and whichever        *)
(* binaries of whichever layouts take turns, a revision that becomes listed *)
(* has content and comes first, recording one does not reorder the others,  *)
(* and none leaves the listing but after its content.                       *)
THEOREM StoreImplementsHistory == Spec => ImplementsHistory
<1> DEFINE Mapped == History!Next \/ sequence' = MaxSequence
<1>1. Init => History!Init
  <2> SUFFICES ASSUME Init PROVE History!Init
    OBVIOUS
  <2>1. Listed = {}
    BY DEF Init, Listed
  <2>2. Listing = {}
    BY <2>1 DEF Listing
  <2>3. Content = [r \in Revisions |-> NONE]
    BY DEF Init, Content
  <2>4. QED
    BY <2>1, <2>2, <2>3 DEF History!Init
<1>2. TypeInv /\ LoopInv /\ CounterInv /\ LayoutInv /\ DeleteInv /\ [Next]_vars
        => [Mapped]_(History!vars)
  <2> SUFFICES ASSUME TypeInv, LoopInv, CounterInv, LayoutInv, DeleteInv, [Next]_vars
               PROVE  Mapped \/ UNCHANGED History!vars
    OBVIOUS
  <2>1. CASE UNCHANGED <<snapshots, index>>
    BY <2>1 DEF History!vars, Content, Listed, Listing, Newer
  <2>2. QED
    BY <2>1, PutSnapshotRecords, PutIndexPromotes, DeleteSnapshotErases, DeleteIndexDrops
       DEF Next, Open, AdoptLayout, BeginDrop, ResetSequence, StampLayout, SaveGraph,
           NextSequence, BeginPrune, FinishPrune, Close, Interrupt, vars, disk
<1>3. QED
  BY <1>1, <1>2, TypeInvariant, LoopInvariant, CounterInvariant, LayoutInvariant,
     DeleteInvariant, PTL DEF Spec, ImplementsHistory

=============================================================================
