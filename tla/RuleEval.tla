------------------------------ MODULE RuleEval ------------------------------
(***************************************************************************)
(* Rules and their verdicts (core rules.rs, rule_eval.rs). A glob is the    *)
(* set of paths, or of symbol names, that it matches; a file's path is its  *)
(* number, and the empty path of a package's symbol is 0.                   *)
(***************************************************************************)
EXTENDS Delta

CONSTANTS
  Globs,       \* sets of paths and packages
  Thresholds,  \* values of max-fan-in
  NONE         \* no delta

(* What parse lets through: an unknown kind, a missing field or a threshold *)
(* of zero is an error of the whole file.                                   *)
Severities == {"error", "warn"}
ScopeRules == [kind : {"forbid-dependency", "forbid-reference"}, from : Globs, to : Globs]
FanInRules == [kind : {"max-fan-in"}, threshold : Thresholds \ {0}]
FieldRules == [kind : {"no-field-removal"}, symbol : Globs]

-----------------------------------------------------------------------------
(* The path a scope is matched against. A package has a symbol, whose file  *)
(* is empty, as soon as an edge leads to it.                                *)
ScopePath(g, id) == IF id \in SymbolIds(g) THEN id[1] ELSE id[2]

IsExternalPackage(id) == id[3] = "package"
IsDependency(e) == e.kind \in {"Imports", "ReExports"}

(* What a rule has found: the resolved edges or the fields that break it,   *)
(* and the weak edges behind which a breach may hide.                       *)
Evidence(violations, uncertain) == [violations |-> violations, uncertain |-> uncertain]

(* A plausible slip: a weak edge is uncertain only if it is recorded as     *)
(* leading to what is forbidden.                                            *)
ForbidEdgesAsRecorded(g, rule) ==
  LET in == {e \in g.edges : /\ rule.kind = "forbid-dependency" => IsDependency(e)
                             /\ ScopePath(g, e.from) \in rule.from
                             /\ ScopePath(g, e.to) \in rule.to}
  IN  Evidence({e \in in : e.resolution = Resolved}, {e \in in : e.resolution # Resolved})

ForbidEdges(g, rule) ==
  LET in == {e \in g.edges : /\ rule.kind = "forbid-dependency" => IsDependency(e)
                             /\ ScopePath(g, e.from) \in rule.from}
  IN  Evidence({e \in in : e.resolution = Resolved /\ ScopePath(g, e.to) \in rule.to},
               {e \in in : e.resolution # Resolved})

FanIn(g, id, resolution) == {e \in Inbound(g, id) : e.resolution = resolution}

MaxFanIn(g, rule) ==
  LET targets == {e.to : e \in {e \in g.edges : ~IsExternalPackage(e.to)}}
      strong(id) == Cardinality(FanIn(g, id, Resolved))
      all(id) == Cardinality(Inbound(g, id))
      over == {id \in targets : strong(id) > rule.threshold}
  IN  Evidence(over,
               UNION {FanIn(g, id, Structural) :
                        id \in {id \in targets \ over : all(id) > rule.threshold}})

-----------------------------------------------------------------------------
(* no-field-removal: who a removed field belonged to is told by position.   *)
CanOwnFields(s) == s.kind \notin {"property", "module"}

Innermost(containers) ==
  CHOOSE c \in containers : \A d \in containers :
    \/ c = d
    \/ d.line < c.line
    \/ d.line = c.line /\ IdPrecedes(IdOf(d), IdOf(c))

OwnersOf(containers, field) ==
  LET enclosing == {c \in containers : /\ c.end > c.line
                                       /\ c.line <= field.line
                                       /\ field.end <= c.end}
      above == {c \in containers : c.line <= field.line}
  IN  IF enclosing # {} THEN {Innermost(enclosing)}
      ELSE IF above # {} THEN {Innermost(above)}
      ELSE {}

NoFieldRemoval(g, delta, rule) ==
  LET containers(file) ==
        {s \in g.symbols : s.file = file /\ CanOwnFields(s) /\ s \notin delta.removed}
      lost == {s \in delta.removed : s.kind = "property"}
  IN  {v \in UNION {{[field |-> s, owner |-> c] : c \in OwnersOf(containers(s.file), s)} : s \in lost} :
         v.owner.name \in rule.symbol}

-----------------------------------------------------------------------------
(* evaluate_one, with a delta or without.                                   *)
Judge(evidence) ==
  IF evidence.violations # {} THEN "violated"
  ELSE IF evidence.uncertain # {} THEN "inconclusive"
  ELSE "satisfied"

Verdict(rule, g, delta) ==
  CASE rule.kind \in {"forbid-dependency", "forbid-reference"} -> Judge(ForbidEdges(g, rule))
    [] rule.kind = "max-fan-in" -> Judge(MaxFanIn(g, rule))
    [] rule.kind = "no-field-removal" ->
         IF delta = NONE THEN "skipped"
         ELSE Judge(Evidence(NoFieldRemoval(g, delta, rule), {}))

(* should_fail: what makes `graphyn check` exit with 1.                     *)
ShouldFail(verdicts) == \E v \in verdicts : v.verdict = "violated" /\ v.severity = "error"

(* check.rs, report: the line that closes it.                               *)
ClosingLine(verdicts) ==
  LET has(verdict) == \E v \in verdicts : v.verdict = verdict
  IN  IF ShouldFail(verdicts) THEN "failed"
      ELSE IF has("violated") THEN "advisory"
      ELSE IF ~has("inconclusive") /\ ~has("skipped") /\ has("satisfied") THEN "all satisfied"
      ELSE "undecided"
=============================================================================
