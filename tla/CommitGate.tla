----------------------------- MODULE CommitGate -----------------------------
(***************************************************************************)
(* The gate at the commit boundary: the git hooks pre-commit and            *)
(* post-commit around `graphyn analyze --snapshot`, `graphyn check          *)
(* --diff-only` and `graphyn audit --base HEAD --head worktree`.            *)
(*                                                                          *)
(* A source tree is a value; what the rules and the detectors make of trees *)
(* is given by the constants. Between any two steps of the hooks somebody   *)
(* may edit the tree, commit without the hooks, or hold the store open.     *)
(* Retention keeps more revisions than a behaviour here records; it is the  *)
(* subject of RevisionStore.                                                *)
(***************************************************************************)
EXTENDS Naturals, Sequences

CONSTANTS
  Trees,      \* contents of a source tree
  Empty,      \* the tree without a source file
  Breaking,   \* trees that break a rule about one graph (forbid-*, max-fan-in)
  FieldLoss,  \* pairs <<before, after>> that break no-field-removal
  Tampered,   \* pairs with an audit finding of error severity
  NONE,       \* nothing recorded, nothing compared
  MaxCommits, \* model bound: commits in one behaviour
  MaxStray    \* model bound: commits when somebody was not careful

ASSUME EmptyAssumption == Empty \in Trees /\ Empty \notin Breaking
ASSUME NoneAssumption == NONE \notin Trees \union (Trees \X Trees)
ASSUME CommitsAssumption == MaxCommits \in Nat \ {0} /\ MaxStray \in 1 .. MaxCommits

VARIABLES
  worktree, index, commits,  \* git; HEAD is the last commit
  calm,      \* whether every commit had all edits staged and everybody kept
             \* off the repository while a hook ran (history)
  exists,    \* whether there is a .graphyn/db
  graph,     \* what `main` in the store holds
  snapshot,  \* the recorded revisions: commits by number, Worktree
  held,      \* whether another process has the store open
  pc,        \* where the running hook is
  analysed,  \* the tree the running analyze has read
  pair,      \* the graphs check evaluated, or NONE
  status,    \* exit status of check
  audit,     \* exit status of audit
  said,      \* whether the hook reported that rules were not checked
  verdict    \* of the last run of pre-commit

git == <<worktree, index, commits, calm>>
store == <<exists, graph, snapshot>>
hook == <<pc, analysed, pair, status, audit, said, verdict>>
vars == <<git, store, held, hook>>

Worktree == 0
HEAD == Len(commits)
Revisions == 0 .. MaxCommits

(* Exit statuses; 124 is timeout(1)'s.                                      *)
Ok == 0
Broken == 1
Unable == 2
TimedOut == 124
Statuses == {Ok, Broken, Unable, TimedOut}

Init ==
  /\ worktree \in Trees
  /\ index = worktree
  /\ commits = <<worktree>>
  /\ calm = TRUE
  /\ \E recorded \in {NONE, worktree} \ {Empty} :
       /\ exists = (recorded # NONE)
       /\ graph = recorded
       /\ snapshot = [r \in Revisions |-> IF r = 1 THEN recorded ELSE NONE]
  /\ held = FALSE
  /\ pc = "idle"
  /\ analysed = NONE
  /\ pair = NONE
  /\ status = Unable
  /\ audit = Unable
  /\ said = FALSE
  /\ verdict = "none"

-----------------------------------------------------------------------------
(* The people and programs around the hooks.                                *)

(* There is something to commit, and the bounds admit it.                   *)
CanCommit ==
  /\ Len(commits) < (IF calm THEN MaxCommits ELSE MaxStray)
  /\ index # commits[HEAD]

(* Whoever touches the repository while a hook runs disturbs it.            *)
Disturb ==
  /\ calm' = (calm /\ pc = "idle")
  /\ calm' \/ Len(commits) <= MaxStray

Edit(t) ==
  /\ Disturb
  /\ worktree' = t
  /\ UNCHANGED <<index, commits, store, held, hook>>

(* git add                                                                  *)
Stage ==
  /\ Disturb
  /\ index' = worktree
  /\ UNCHANGED <<worktree, commits, store, held, hook>>

(* A commit with GRAPHYN_SKIP set, or from a clone without the hooks. No    *)
(* snapshot of it is recorded.                                              *)
CommitUnhooked ==
  /\ CanCommit
  /\ calm' = (calm /\ pc = "idle" /\ index = worktree)
  /\ commits' = Append(commits, index)
  /\ UNCHANGED <<worktree, index, store, held, hook>>

(* `graphyn watch`, a refresh of the MCP server, another hook.              *)
HoldStore ==
  /\ ~held
  /\ held' = TRUE
  /\ UNCHANGED <<git, store, hook>>

ReleaseStore ==
  /\ held
  /\ held' = FALSE
  /\ UNCHANGED <<git, store, hook>>

-----------------------------------------------------------------------------
(* The hook has ended, and what it computed with it.                        *)
Forget ==
  /\ pc' = "idle"
  /\ analysed' = NONE
  /\ pair' = NONE
  /\ status' = Unable
  /\ audit' = Unable

(* graphyn analyze --snapshot: cli commands/analyze.rs, run, under          *)
(* graphyn_with_timeout. The hook is at `from`; afterwards it is at `to`,   *)
(* whatever came of it.                                                     *)

EndAnalyze(to) ==
  IF to = "idle" THEN Forget
  ELSE pc' = to /\ analysed' = NONE /\ UNCHANGED <<pair, status, audit>>

AnalyzeTimesOut(from, to) ==
  /\ pc = from
  /\ EndAnalyze(to)
  /\ UNCHANGED <<git, store, held, said, verdict>>

(* Without a source file the command reports success and saves nothing.     *)
Scan(from, persist, to) ==
  /\ pc = from
  /\ IF worktree = Empty THEN EndAnalyze(to)
     ELSE /\ analysed' = worktree
          /\ pc' = persist
          /\ UNCHANGED <<pair, status, audit>>
  /\ UNCHANGED <<git, store, held, said, verdict>>

(* The name is resolved when the graph is already built.                    *)
Resolved(label) == IF label = "worktree" THEN Worktree ELSE HEAD

(* How far a save gets: not to the store, past its creation, past main,     *)
(* past the revision. Only an interrupted save stops half-way.              *)
Persist(label, from, to) ==
  /\ pc = from
  /\ \E progress \in 0 .. 3 :
       /\ progress > 0 => ~held
       /\ exists' = (exists \/ progress > 0)
       /\ graph' = IF progress > 1 THEN analysed ELSE graph
       /\ snapshot' = IF progress = 3
                        THEN [snapshot EXCEPT ![Resolved(label)] = analysed]
                        ELSE snapshot
  /\ EndAnalyze(to)
  /\ UNCHANGED <<git, held, said, verdict>>

-----------------------------------------------------------------------------
(* git/pre-commit                                                           *)

(* git commit starts the hook. Without a store there is nothing to judge by.*)
BeginCommit ==
  /\ pc = "idle"
  /\ CanCommit
  /\ calm' = (calm /\ index = worktree)
  /\ IF exists
       THEN pc' = "scan" /\ said' = FALSE /\ verdict' = "none"
       ELSE pc' = "commit" /\ said' = TRUE /\ verdict' = "allowed"
  /\ UNCHANGED <<worktree, index, commits, store, held, analysed, pair, status, audit>>

(* A plausible slip: what was just analysed is recorded as the baseline.    *)
AnalyzeForHead ==
  \/ Scan("scan", "persist", "check")
  \/ Persist("HEAD", "persist", "check")
  \/ AnalyzeTimesOut("scan", "check")

(* pre-commit:61: neither the status nor the output of analyze is looked at. *)
AnalyzeForCheck ==
  \/ Scan("scan", "persist", "check")
  \/ Persist("worktree", "persist", "check")
  \/ AnalyzeTimesOut("scan", "check")

CheckFails(with) ==
  /\ status' = with
  /\ pc' = "audit"
  /\ UNCHANGED <<git, store, held, analysed, pair, audit, said, verdict>>

CheckTimesOut ==
  /\ pc \in {"check", "pair"}
  /\ CheckFails(TimedOut)

(* check.rs, run: the store is opened for `main` first ...                  *)
CheckLoadsGraph ==
  /\ pc = "check"
  /\ IF held \/ graph = NONE THEN CheckFails(Unable)
     ELSE /\ pc' = "pair"
          /\ UNCHANGED <<git, store, held, analysed, pair, status, audit, said, verdict>>

(* A plausible slip: rules about one graph are evaluated against the head.  *)
ShouldFailOfHead(before, after) == after \in Breaking \/ <<before, after>> \in FieldLoss

(* Whether a rule of error severity is violated: rules about one graph are  *)
(* evaluated against the base (evaluated_against), no-field-removal against *)
(* the delta.                                                               *)
ShouldFail(before, after) == before \in Breaking \/ <<before, after>> \in FieldLoss

(* ... and a second time for the two revisions.                             *)
CheckComparesPair ==
  /\ pc = "pair"
  /\ IF held \/ NONE \in {snapshot[HEAD], snapshot[Worktree]} THEN CheckFails(Unable)
     ELSE /\ pair' = <<snapshot[HEAD], snapshot[Worktree]>>
          /\ status' = IF ShouldFail(snapshot[HEAD], snapshot[Worktree]) THEN Broken ELSE Ok
          /\ pc' = "audit"
          /\ UNCHANGED <<git, store, held, analysed, audit, said, verdict>>

(* A plausible slip: the audit waits for the store, and without a limit.    *)
AuditInsists ==
  /\ pc = "audit"
  /\ ~held
  /\ audit' = IF NONE \in {snapshot[HEAD], snapshot[Worktree]} THEN Unable
              ELSE IF <<snapshot[HEAD], snapshot[Worktree]>> \in Tampered THEN Broken ELSE Ok
  /\ pc' = "conclude"
  /\ UNCHANGED <<git, store, held, analysed, pair, status, said, verdict>>

(* audit.rs, run: both revisions, read in one opening of the store.         *)
Audit ==
  /\ pc = "audit"
  /\ LET compared == <<snapshot[HEAD], snapshot[Worktree]>>
         readable == ~held /\ NONE \notin {snapshot[HEAD], snapshot[Worktree]}
     IN  \/ audit' = TimedOut
         \/ ~readable /\ audit' = Unable
         \/ readable /\ audit' = IF compared \in Tampered THEN Broken ELSE Ok
  /\ pc' = "conclude"
  /\ UNCHANGED <<git, store, held, analysed, pair, status, said, verdict>>

(* pre-commit:71-100, with `blocks` the statuses of check that stop the commit *)
(* and `reports` those after which the hook says that rules were not        *)
(* checked.                                                                 *)
ConcludeWith(blocks, reports) ==
  /\ pc = "conclude"
  /\ IF audit = Broken \/ status \in blocks
       THEN /\ verdict' = "blocked"
            /\ said' = FALSE
            /\ Forget
            /\ UNCHANGED <<git, store, held>>
       ELSE /\ verdict' = "allowed"
            /\ said' = (status \in reports)
            /\ pc' = "commit"
            /\ UNCHANGED <<git, store, held, analysed, pair, status, audit>>

(* A plausible slip: only the timeout is reported.                          *)
ConcludeQuietly == ConcludeWith({Broken}, {TimedOut})

Conclude == ConcludeWith({Broken}, {Unable, TimedOut})

(* git makes the commit out of the index.                                   *)
Commit ==
  /\ pc = "commit"
  /\ CanCommit
  /\ commits' = Append(commits, index)
  /\ pc' = "rescan"
  /\ UNCHANGED <<worktree, index, calm, store, held,
                 analysed, pair, status, audit, said, verdict>>

(* git refuses: meanwhile somebody else committed the same.                 *)
CommitRefused ==
  /\ pc = "commit"
  /\ ~CanCommit
  /\ Forget
  /\ UNCHANGED <<git, store, held, said, verdict>>

-----------------------------------------------------------------------------
(* git/post-commit                                                          *)

AnalyzeForBaseline ==
  \/ Scan("rescan", "repersist", "idle")
  \/ Persist("HEAD", "repersist", "idle")
  \/ AnalyzeTimesOut("rescan", "idle")

Hook ==
  \/ AnalyzeForCheck
  \/ CheckTimesOut
  \/ CheckLoadsGraph
  \/ CheckComparesPair
  \/ Audit
  \/ Conclude
  \/ Commit
  \/ CommitRefused
  \/ AnalyzeForBaseline

Next ==
  \/ \E t \in Trees : Edit(t)
  \/ Stage
  \/ CommitUnhooked
  \/ HoldStore
  \/ ReleaseStore
  \/ BeginCommit
  \/ Hook

(* The hooks are straight-line scripts every call of which is under a       *)
(* timeout; nobody is obliged to edit, commit or release the store.         *)
Spec == Init /\ [][Next]_vars /\ WF_vars(Hook)

-----------------------------------------------------------------------------
(* hooks/README.md, "Never block on a tool problem": whatever times out or  *)
(* holds the store, a commit is only refused for what the last commit's own *)
(* tree breaks, or the change from it to the tree recorded as the working   *)
(* one - and that of a repository nobody works in while a hook runs. (The   *)
(* recorded tree may be that of an earlier attempt: JudgesPresentTree.)     *)
BlockedOnEvidence ==
  [][calm /\ verdict' = "blocked" /\ verdict # "blocked" =>
       \/ commits[HEAD] \in Breaking
       \/ <<commits[HEAD], snapshot[Worktree]>> \in FieldLoss \union Tampered]_vars

(* "Never claim a check that did not happen": a commit let through without  *)
(* a word was compared with the tree of the very commit it is made on, and  *)
(* nothing was found.                                                       *)
SilenceMeansChecked ==
  pc = "commit" /\ ~said =>
    /\ pair # NONE
    /\ calm => pair[1] = commits[HEAD]
    /\ ~ShouldFail(pair[1], pair[2])

(* git/post-commit: analysing the tree and labelling it HEAD "records       *)
(* exactly the commit that was just made". As long as people stage what     *)
(* they edited and wait for the hooks, no baseline is another commit's tree.*)
BaselineIsCommit ==
  calm => \A c \in 1 .. Len(commits) : snapshot[c] \in {NONE, commits[c]}

(* "Never hang": a commit that was begun comes to an end, though the store  *)
(* may be held elsewhere for ever and people go on working.                 *)
HookReturns == pc # "idle" ~> pc = "idle"

(* git/pre-commit on its call of analyze: "Record the tree being committed  *)
(* so `check` compares snapshots". Even when everybody stages everything    *)
(* and keeps still, the tree judged is the tree recorded by this hook.      *)
JudgesPresentTree ==
  calm /\ pc = "conclude" /\ pair # NONE => pair[2] = worktree
=============================================================================
