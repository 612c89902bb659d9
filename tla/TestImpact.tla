----------------------------- MODULE TestImpact -----------------------------
(***************************************************************************)
(* Test selection (core test_impact.rs): the tests that cover a change, and *)
(* whether they may be run instead of the suite. The change is propagated   *)
(* to callers level by level; one step is one level of reverse_reachable.   *)
(***************************************************************************)
EXTENDS References, SequencesExt

CONSTANT
  MaxChanged  \* model bound: symbols changed

VARIABLES
  step,      \* "idle", "walk" or "selected"
  changed,
  depth,     \* asked for by --depth
  floor,     \* the resolution an edge must meet to be walked
  levels,    \* iterations of the walk so far
  origins,   \* for each symbol the changed symbols it is known to reach
  frontier

walk == <<levels, origins, frontier>>
selecting == <<step, changed, depth, floor, walk>>

Idle ==
  /\ step = "idle"
  /\ changed = {}
  /\ depth = 0
  /\ floor = Resolved
  /\ levels = 0
  /\ origins = [s \in Symbols |-> {}]
  /\ frontier = {}

(* select, with the roots reverse_reachable starts from.                    *)
Select ==
  /\ step = "idle"
  /\ \E n \in 1 .. MaxChanged :
       changed' \in {S \in SUBSET Symbols : Cardinality(S) = n}
  /\ depth' \in Depths
  /\ floor' \in {Structural, Resolved}
  /\ levels' = 0
  /\ origins' = [s \in Symbols |-> IF s \in changed' THEN {s} ELSE {}]
  /\ frontier' = changed'
  /\ step' = "walk"

(* What the callers of a symbol learn. Edges of kind Tests are not walked.  *)
Learn(known, id) ==
  LET callers == Callers({id}, floor)
  IN  [s \in Symbols |-> IF s \in callers THEN known[s] \union known[id] ELSE known[s]]

(* The frontier is sorted, and a symbol of it may have learned something    *)
(* from one before it.                                                      *)
AfterLevel ==
  MapThenFoldSet(LAMBDA id, known : Learn(known, id), origins, LAMBDA id : id, Max, frontier)

(* A plausible slip: only symbols met for the first time are walked from.   *)
LevelOfNew ==
  /\ step = "walk"
  /\ levels < depth
  /\ frontier # {}
  /\ origins' = AfterLevel
  /\ frontier' = {s \in Symbols : origins[s] = {} /\ origins'[s] # {}}
  /\ levels' = levels + 1
  /\ UNCHANGED <<step, changed, depth, floor>>

(* Whoever learned something is in the next frontier.                       *)
Level ==
  /\ step = "walk"
  /\ levels < depth
  /\ frontier # {}
  /\ origins' = AfterLevel
  /\ frontier' = {s \in Symbols : origins'[s] # origins[s]}
  /\ levels' = levels + 1
  /\ UNCHANGED <<step, changed, depth, floor>>

Finish ==
  /\ step = "walk"
  /\ levels = depth \/ frontier = {}
  /\ step' = "selected"
  /\ UNCHANGED <<changed, depth, floor, walk>>

(* The answer is printed and forgotten.                                     *)
Report ==
  /\ step = "selected"
  /\ step' = "idle"
  /\ changed' = {}
  /\ depth' = 0
  /\ floor' = Resolved
  /\ levels' = 0
  /\ origins' = [s \in Symbols |-> {}]
  /\ frontier' = {}

Turn == Select \/ Level \/ Finish \/ Report

-----------------------------------------------------------------------------
(* The rest of select, once `origins` is known.                             *)

(* The edges of kind Tests by which a symbol is a covering test.            *)
Evidence(t) == {e \in graph : e.kind = "Tests" /\ e.from = t /\ origins[e.to] # {}}
Covers(t) == UNION {origins[e.to] : e \in Evidence(t)}
GateSafe(t) == \A e \in Evidence(t) : Resolution(e) = Resolved

Covering == {t \in Symbols : Evidence(t) # {}}
tests == Covering \ changed
modified_tests == Covering \cap changed

(* A plausible slip: a modified test vouches for what it covers.            *)
UncoveredByAny == changed \ UNION {Covers(t) : t \in Covering}

uncovered == (changed \ UNION {Covers(t) : t \in tests}) \ modified_tests

(* gaps is empty.                                                           *)
IsTrustworthy ==
  /\ StructuralFiles = {}
  /\ uncovered = {}
  /\ \A t \in tests : GateSafe(t)

TestsToRun == {FileOf[t] : t \in tests}

-----------------------------------------------------------------------------
(* A test covers every changed symbol that what it exercises reaches within *)
(* the depth asked for, whichever changed symbol the walk met it by first,  *)
(* and none that what it exercises does not reach at all.                   *)
CoverageIsExact ==
  step = "selected" =>
    \A c \in changed :
      LET upstream == Upstream({c}, floor) IN
      \A e \in Of("Tests", Exercises) :
        /\ e.to \in upstream[depth] => c \in Covers(e.from)
        /\ origins[e.to] \subseteq {d \in changed : e.to \in Upstream({d}, floor)[Cardinality(Symbols)]}

(* When the selection may be run in place of the suite, every changed       *)
(* symbol is a test the change modified or is reached, by resolved          *)
(* references alone, from a test that it did not modify.                    *)
TrustIsEarned ==
  step = "selected" /\ IsTrustworthy =>
    \A c \in changed \ modified_tests :
      \E t \in Upstream({c}, Resolved)[Cardinality(Symbols)] \ changed :
        FileOf[t] \in TestFiles \cap TestsToRun

(* is_trustworthy: "Whether the selection is complete enough to run instead *)
(* of the suite. False whenever anything could be missing." No test file    *)
(* from which the change is reached is left out.                            *)
NothingIsMissing ==
  step = "selected" /\ IsTrustworthy =>
    \A t \in Upstream(changed, Structural)[Cardinality(Symbols)] \ changed :
      FileOf[t] \in TestFiles => FileOf[t] \in TestsToRun
=============================================================================
