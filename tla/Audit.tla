-------------------------------- MODULE Audit --------------------------------
(***************************************************************************)
(* The audit of a change (core audit/): three detectors over the two graphs *)
(* and their delta, and the file of findings to be suppressed. A finding's  *)
(* id is a hash of its detector and of the set of its subjects, in which it *)
(* is not told whom the finding is about; it is modelled as the pair        *)
(* itself, so that a collision of hashes is left out.                       *)
(***************************************************************************)
EXTENDS Delta

FindingId(detector, subjects) == <<detector, subjects>>

Accusation(detector, of, others) ==
  [id |-> FindingId(detector, {of} \union others), of |-> of, file |-> of[1]]

(* Every id the change touched, the sources of changed edges included.      *)
ChangedIds(delta) ==
  {IdOf(s) : s \in Edited(delta)}
    \union {e.from : e \in delta.addedEdges \union delta.removedEdges}

TestEdges(g) == {<<e.from, e.to>> : e \in {e \in g.edges : e.kind = "Tests"}}

(* A test stopped covering what is still there and changed.                 *)
TestTampering(g, h, delta) ==
  {Accusation("test-tampering", p[1], {p[2]}) :
     p \in {p \in TestEdges(g) \ TestEdges(h) :
              p[2] \in SymbolIds(h) /\ p[2] \in ChangedIds(delta)}}

(* A plausible slip: who referred to it and is gone, too, counts as well.   *)
SurvivorsAndGone(g, h, id) ==
  {e.from : e \in {e \in Inbound(g, id) : e.resolution = Resolved /\ e.kind # "Tests"}}

(* Who referred to a removed symbol, on resolved evidence and not as a      *)
(* test, and is still there.                                                *)
Survivors(g, h, id) ==
  {e.from : e \in {e \in Inbound(g, id) : /\ e.resolution = Resolved
                                          /\ e.kind # "Tests"
                                          /\ e.from \in SymbolIds(h)}}

ContractErosion(g, h, delta) ==
  {Accusation("contract-erosion", IdOf(s), Survivors(g, h, IdOf(s))) :
     s \in {s \in delta.removed : Survivors(g, h, IdOf(s)) # {}}}

(* A new symbol to which nothing refers but tests that cover it.            *)
CoveringTests(h, id) == {p[1] : p \in {p \in TestEdges(h) : p[2] = id}}

DeadOnArrival(g, h, delta) ==
  {Accusation("dead-on-arrival", IdOf(s), CoveringTests(h, IdOf(s))) :
     s \in {s \in delta.added :
              /\ CoveringTests(h, IdOf(s)) # {}
              /\ \A e \in Inbound(h, IdOf(s)) : e.from \in CoveringTests(h, IdOf(s))}}

(* tier_one_files of audit.rs: files either graph knows, of languages whose *)
(* imports are resolved.                                                    *)
TierOneFiles(g, h) ==
  {s.file : s \in g.symbols \union h.symbols} \ (StructuralFiles \union {0})

(* What the detectors say of files in scope.                                *)
Raw(g, h, delta) ==
  {f \in TestTampering(g, h, delta) \union ContractErosion(g, h, delta)
           \union DeadOnArrival(g, h, delta) :
     f.file \in TierOneFiles(g, h)}

(* run: of those that share an id one is kept (dedup_by), what the ignore   *)
(* file names is set apart, and what it names in vain is reported.          *)
Report(raw, ignored) ==
  LET kept == {CHOOSE f \in raw : f.id = id : id \in {f.id : f \in raw}}
      suppressed == {f \in kept : f.id \in ignored}
  IN  [findings |-> kept \ suppressed, suppressed |-> suppressed,
       stale |-> ignored \ {f.id : f \in suppressed}]
=============================================================================
