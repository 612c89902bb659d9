-------------------------- MODULE CommitGateProofs --------------------------
(***************************************************************************)
(* What the hooks promise, for any trees, any rules and any number of       *)
(* commits: they block on evidence, are silent only after a check, and      *)
(* record no baseline that is another commit's tree.                        *)
(***************************************************************************)
EXTENDS CommitGate, TLAPS

Points == {"idle", "scan", "persist", "check", "pair", "audit", "conclude",
           "commit", "rescan", "repersist"}

TypeOK ==
  /\ worktree \in Trees
  /\ index \in Trees
  /\ commits \in Seq(Trees)
  /\ HEAD \in 1 .. MaxCommits
  /\ calm \in BOOLEAN
  /\ exists \in BOOLEAN
  /\ graph \in Trees \union {NONE}
  /\ snapshot \in [Revisions -> Trees \union {NONE}]
  /\ held \in BOOLEAN
  /\ pc \in Points
  /\ analysed \in Trees \union {NONE}
  /\ pair \in (Trees \X Trees) \union {NONE}
  /\ status \in Statuses
  /\ audit \in Statuses
  /\ said \in BOOLEAN
  /\ verdict \in {"none", "allowed", "blocked"}

(* While a hook runs undisturbed the tree is the one that is committed, and *)
(* after the commit it is the commit's.                                     *)
Still ==
  calm =>
    /\ pc # "idle" => index = worktree
    /\ pc \in {"rescan", "repersist"} => worktree = commits[HEAD]
    /\ pc = "repersist" => analysed = commits[HEAD]

(* A running analyze that has read a tree has read one with sources.        *)
Reading == pc \in {"persist", "repersist"} => analysed \in Trees

(* No revision is recorded under a commit that is not made yet.             *)
NoneAhead == \A c \in Revisions : c > HEAD => snapshot[c] = NONE

(* The status of check speaks of the pair, and the pair is of the last      *)
(* commit and what is recorded of the working tree.                         *)
Evidence ==
  /\ status = Ok => pair # NONE /\ ~ShouldFail(pair[1], pair[2])
  /\ status = Broken => pair # NONE /\ ShouldFail(pair[1], pair[2])
  /\ calm /\ pc \in {"audit", "conclude", "commit"} /\ pair # NONE =>
       pair = <<commits[HEAD], snapshot[Worktree]>>
  /\ pc \in {"idle", "scan", "persist", "check", "pair"} => pair = NONE

(* What the audit found is in the same change.                              *)
Found ==
  calm /\ pc = "conclude" /\ audit = Broken =>
    <<commits[HEAD], snapshot[Worktree]>> \in Tampered

(* The hook that goes on without a word does so on a check that passed.     *)
Quiet == pc = "commit" /\ ~said => status = Ok

Inv ==
  /\ TypeOK
  /\ Still
  /\ Reading
  /\ NoneAhead
  /\ BaselineIsCommit
  /\ Evidence
  /\ Found
  /\ Quiet

(* The model starts with the invariant.                                     *)
LEMMA InitInv == Init => Inv
<1> SUFFICES ASSUME Init PROVE Inv
  OBVIOUS
<1> USE DEF Init, HEAD, Revisions
<1>1. PICK recorded \in {NONE, worktree} \ {Empty} :
        /\ exists = (recorded # NONE)
        /\ graph = recorded
        /\ snapshot = [r \in Revisions |-> IF r = 1 THEN recorded ELSE NONE]
  OBVIOUS
<1>2. worktree \in Trees /\ index \in Trees /\ commits \in Seq(Trees) /\ Len(commits) = 1
  OBVIOUS
<1>3. TypeOK
  <2>1. HEAD \in 1 .. MaxCommits
    BY <1>2, CommitsAssumption
  <2>2. graph \in Trees \union {NONE} /\ snapshot \in [Revisions -> Trees \union {NONE}]
    BY <1>1, <1>2
  <2>3. calm \in BOOLEAN /\ exists \in BOOLEAN /\ held \in BOOLEAN /\ said \in BOOLEAN
    BY <1>1
  <2>4. QED
    BY <1>2, <2>1, <2>2, <2>3 DEF TypeOK, Points, Statuses, Ok, Broken, Unable
<1>4. NoneAhead /\ BaselineIsCommit
  <2>1. \A r \in Revisions : snapshot[r] = IF r = 1 THEN recorded ELSE NONE
    BY <1>1
  <2>2. commits[1] = worktree /\ 1 .. Len(commits) \subseteq Revisions
    BY <1>2, CommitsAssumption
  <2>3. QED
    BY <1>2, <2>1, <2>2 DEF NoneAhead, BaselineIsCommit
<1>5. Still /\ Reading /\ Evidence /\ Found /\ Quiet
  BY DEF Still, Reading, Evidence, Found, Quiet, Ok, Broken, Unable
<1>6. QED
  BY <1>3, <1>4, <1>5 DEF Inv

(* A commit becomes HEAD and leaves the earlier ones as they are; none of   *)
(* its own revisions is recorded yet.                                       *)
LEMMA CommitAdds ==
  ASSUME Inv, CanCommit, commits' = Append(commits, index), snapshot' = snapshot
  PROVE  /\ commits' \in Seq(Trees)
         /\ HEAD' = HEAD + 1 /\ HEAD' \in 1 .. MaxCommits
         /\ commits'[HEAD'] = index
         /\ NoneAhead'
         /\ BaselineIsCommit \/ ~calm
         /\ calm => \A c \in 1 .. Len(commits') : snapshot'[c] \in {NONE, commits'[c]}
<1> USE DEF Inv, TypeOK, HEAD
<1>1. /\ commits' \in Seq(Trees) /\ Len(commits') = Len(commits) + 1
      /\ commits'[Len(commits')] = index
      /\ \A c \in 1 .. Len(commits) : commits'[c] = commits[c]
  OBVIOUS
<1>2. Len(commits') \in 1 .. MaxCommits
  BY <1>1, CommitsAssumption DEF CanCommit
<1>3. NoneAhead'
  BY <1>1 DEF NoneAhead, Revisions
<1>4. snapshot[Len(commits')] = NONE
  BY <1>1, <1>2 DEF NoneAhead, Revisions
<1>5. ASSUME calm, NEW c \in 1 .. Len(commits') PROVE snapshot'[c] \in {NONE, commits'[c]}
  <2>1. CASE c = Len(commits')
    BY <1>4, <2>1
  <2>2. CASE c \in 1 .. Len(commits)
    BY <1>1, <1>5, <2>2 DEF BaselineIsCommit
  <2>3. QED
    BY <1>1, <2>1, <2>2
<1>6. QED
  BY <1>1, <1>2, <1>3, <1>5

(* Whoever works around the hooks keeps the invariant, and so does git when *)
(* it starts one.                                                           *)
LEMMA PeopleKeepInv ==
  ASSUME Inv,
         \/ \E t \in Trees : Edit(t)
         \/ Stage
         \/ CommitUnhooked
         \/ HoldStore
         \/ ReleaseStore
         \/ BeginCommit
  PROVE  Inv'
<1> USE DEF Inv, TypeOK, git, store, hook
<1>1. ASSUME NEW t \in Trees, Edit(t) PROVE Inv'
  <2>1. calm' = (calm /\ pc = "idle")
    BY <1>1 DEF Edit, Disturb
  <2> USE <1>1, <2>1 DEF Edit, HEAD
  <2>2. TypeOK' /\ Reading' /\ NoneAhead' /\ Quiet'
    BY DEF Reading, NoneAhead, Quiet
  <2>3. Still' /\ BaselineIsCommit' /\ Evidence' /\ Found'
    BY DEF Still, BaselineIsCommit, Evidence, Found, ShouldFail
  <2>4. QED
    BY <2>2, <2>3
<1>2. CASE Stage
  <2>1. calm' = (calm /\ pc = "idle")
    BY <1>2 DEF Stage, Disturb
  <2> USE <1>2, <2>1 DEF Stage, HEAD
  <2>2. TypeOK' /\ Reading' /\ NoneAhead' /\ Quiet'
    BY DEF Reading, NoneAhead, Quiet
  <2>3. Still' /\ BaselineIsCommit' /\ Evidence' /\ Found'
    BY DEF Still, BaselineIsCommit, Evidence, Found, ShouldFail
  <2>4. QED
    BY <2>2, <2>3
<1>3. CASE CommitUnhooked
  <2>1. /\ CanCommit /\ commits' = Append(commits, index) /\ snapshot' = snapshot
        /\ calm' = (calm /\ pc = "idle" /\ index = worktree)
    BY <1>3 DEF CommitUnhooked
  <2>2. /\ commits' \in Seq(Trees) /\ HEAD' \in 1 .. MaxCommits
        /\ NoneAhead' /\ BaselineIsCommit'
    BY <2>1, CommitAdds DEF BaselineIsCommit
  <2>3. TypeOK' /\ Reading' /\ Quiet'
    BY <1>3, <2>1, <2>2 DEF CommitUnhooked, Reading, Quiet
  <2>4. Still' /\ Evidence' /\ Found'
    BY <1>3, <2>1 DEF CommitUnhooked, Still, Evidence, Found, ShouldFail
  <2>5. QED
    BY <2>2, <2>3, <2>4
<1>4. CASE HoldStore \/ ReleaseStore
  <2>1. held' \in BOOLEAN /\ UNCHANGED <<git, store, hook>>
    BY <1>4 DEF HoldStore, ReleaseStore
  <2>2. TypeOK' /\ Still' /\ Reading' /\ NoneAhead' /\ BaselineIsCommit'
    BY <2>1 DEF HEAD, Still, Reading, NoneAhead, BaselineIsCommit
  <2>3. Evidence' /\ Found' /\ Quiet'
    BY <2>1 DEF HEAD, Evidence, Found, Quiet, ShouldFail
  <2>4. QED
    BY <2>2, <2>3
<1>5. CASE BeginCommit
  <2>1. /\ pc = "idle" /\ calm' = (calm /\ index = worktree)
        /\ UNCHANGED <<worktree, index, commits, store, held, analysed, pair, status, audit>>
    BY <1>5 DEF BeginCommit
  <2>2. /\ said' \in BOOLEAN /\ verdict' \in {"none", "allowed"}
        /\ pc' = "scan" \/ (pc' = "commit" /\ said')
    BY <1>5 DEF BeginCommit
  <2>3. TypeOK' /\ Still' /\ Reading' /\ NoneAhead' /\ BaselineIsCommit'
    BY <2>1, <2>2 DEF Points, HEAD, Still, Reading, NoneAhead, BaselineIsCommit
  <2>4. Evidence' /\ Found' /\ Quiet'
    BY <2>1, <2>2 DEF HEAD, Evidence, Found, Quiet, ShouldFail
  <2>5. QED
    BY <2>3, <2>4
<1>6. QED
  BY <1>1, <1>2, <1>3, <1>4, <1>5

(* An end of a hook keeps what it leaves behind.                            *)
LEMMA ForgetKeepsInv ==
  ASSUME Inv, Forget, UNCHANGED <<git, held>>,
         exists' \in BOOLEAN, graph' \in Trees \union {NONE},
         snapshot' \in [Revisions -> Trees \union {NONE}],
         NoneAhead', BaselineIsCommit',
         said' \in BOOLEAN, verdict' \in {"none", "allowed", "blocked"}
  PROVE  Inv'
<1> USE DEF Inv, git, Forget
<1>1. TypeOK'
  BY DEF TypeOK, HEAD, Points, Statuses, Unable
<1>2. Still' /\ Reading' /\ Quiet'
  BY DEF Still, Reading, Quiet, HEAD
<1>3. Evidence' /\ Found'
  BY DEF Evidence, Found, ShouldFail, HEAD, Ok, Broken, Unable
<1>4. QED
  BY <1>1, <1>2, <1>3

(* An analyze that has its tree, and one that ends, on the way to check.    *)
LEMMA AnalyzeForCheckKeepsInv ==
  ASSUME Inv, AnalyzeForCheck
  PROVE  Inv'
<1> USE DEF Inv, TypeOK, git, store
<1>1. CASE pc = "scan" /\ pc' \in {"persist", "check"} /\ (pc' = "persist" => analysed' \in Trees)
           /\ analysed' \in Trees \union {NONE}
           /\ UNCHANGED <<git, store, held, pair, status, audit, said, verdict>>
  <2>1. TypeOK' /\ NoneAhead' /\ BaselineIsCommit' /\ Reading'
    BY <1>1 DEF Points, HEAD, NoneAhead, BaselineIsCommit, Reading
  <2>2. Still' /\ Evidence' /\ Found' /\ Quiet'
    BY <1>1 DEF HEAD, Still, Evidence, Found, Quiet, ShouldFail
  <2>3. QED
    BY <2>1, <2>2
<1>2. CASE Persist("worktree", "persist", "check")
  <2>1. /\ pc = "persist" /\ pc' = "check" /\ analysed' = NONE
        /\ UNCHANGED <<git, held, pair, status, audit, said, verdict>>
    BY <1>2 DEF Persist, EndAnalyze
  <2>2. PICK progress \in 0 .. 3 :
          /\ exists' = (exists \/ progress > 0)
          /\ graph' = IF progress > 1 THEN analysed ELSE graph
          /\ snapshot' = IF progress = 3 THEN [snapshot EXCEPT ![Worktree] = analysed] ELSE snapshot
    BY <1>2 DEF Persist, Resolved
  <2>3. /\ snapshot' \in [Revisions -> Trees \union {NONE}]
        /\ \A c \in Revisions : c # Worktree => snapshot'[c] = snapshot[c]
    BY <2>2
  <2>4. exists' \in BOOLEAN /\ graph' \in Trees \union {NONE}
    BY <2>2
  <2>5. 1 .. HEAD \subseteq Revisions /\ Worktree \notin 1 .. HEAD /\ HEAD > Worktree
    BY CommitsAssumption DEF Revisions, Worktree
  <2>6. TypeOK'
    BY <2>1, <2>3, <2>4 DEF Points, HEAD
  <2>7. NoneAhead'
    <3>1. HEAD' = HEAD
      BY <2>1 DEF HEAD
    <3>2. ASSUME NEW c \in Revisions, c > HEAD PROVE snapshot'[c] = NONE
      <4>1. c # Worktree
        BY <2>5, <3>2 DEF Worktree
      <4>2. QED
        BY <2>3, <3>2, <4>1 DEF NoneAhead
    <3>3. QED
      BY <3>1, <3>2 DEF NoneAhead
  <2>8. BaselineIsCommit'
    BY <2>1, <2>3, <2>5 DEF BaselineIsCommit, HEAD
  <2>9. Still' /\ Reading' /\ Evidence' /\ Found' /\ Quiet'
    BY <2>1 DEF HEAD, Still, Reading, Evidence, Found, Quiet, ShouldFail
  <2>10. QED
    BY <2>6, <2>7, <2>8, <2>9
<1>3. QED
  BY <1>1, <1>2 DEF AnalyzeForCheck, Scan, AnalyzeTimesOut, EndAnalyze

(* check and audit change only what they found, and say it of the revisions *)
(* they read.                                                               *)
LEMMA JudgingKeepsInv ==
  ASSUME Inv, CheckTimesOut \/ CheckLoadsGraph \/ CheckComparesPair \/ Audit
  PROVE  Inv'
<1> USE DEF Inv, TypeOK, git, store
<1>1. HEAD \in Revisions /\ Worktree \in Revisions /\ HEAD \in 1 .. Len(commits)
  BY CommitsAssumption DEF Revisions, Worktree, HEAD
<1>2. ASSUME NEW with \in {Unable, TimedOut}, pc \in {"check", "pair"}, CheckFails(with) PROVE Inv'
  <2>1. TypeOK' /\ NoneAhead' /\ BaselineIsCommit' /\ Reading' /\ Still'
    BY <1>2 DEF CheckFails, Points, Statuses, HEAD, NoneAhead, BaselineIsCommit, Reading, Still
  <2>2. Evidence' /\ Found' /\ Quiet'
    BY <1>2 DEF CheckFails, HEAD, Evidence, Found, Quiet, ShouldFail, Ok, Broken, Unable, TimedOut
  <2>3. QED
    BY <2>1, <2>2
<1>3. CASE /\ pc = "check" /\ pc' = "pair"
           /\ UNCHANGED <<git, store, held, analysed, pair, status, audit, said, verdict>>
  <2>1. TypeOK' /\ NoneAhead' /\ BaselineIsCommit' /\ Reading' /\ Still'
    BY <1>3 DEF Points, HEAD, NoneAhead, BaselineIsCommit, Reading, Still
  <2>2. Evidence' /\ Found' /\ Quiet'
    BY <1>3 DEF HEAD, Evidence, Found, Quiet, ShouldFail
  <2>3. QED
    BY <2>1, <2>2
<1>4. CASE /\ pc = "pair"
           /\ NONE \notin {snapshot[HEAD], snapshot[Worktree]}
           /\ pair' = <<snapshot[HEAD], snapshot[Worktree]>>
           /\ status' = IF ShouldFail(snapshot[HEAD], snapshot[Worktree]) THEN Broken ELSE Ok
           /\ pc' = "audit"
           /\ UNCHANGED <<git, store, held, analysed, audit, said, verdict>>
  <2>1. snapshot[HEAD] \in Trees /\ snapshot[Worktree] \in Trees
    BY <1>1, <1>4
  <2>2. pair' \in Trees \X Trees /\ pair' # NONE
    BY <1>4, <2>1, NoneAssumption
  <2>3. calm => snapshot[HEAD] = commits[HEAD]
    BY <1>1, <2>1, NoneAssumption DEF BaselineIsCommit
  <2>4. TypeOK' /\ NoneAhead' /\ BaselineIsCommit' /\ Reading' /\ Still'
    BY <1>4, <2>2 DEF Points, Statuses, HEAD, NoneAhead, BaselineIsCommit, Reading, Still
  <2>5. Evidence'
    <3>1. pair'[1] = snapshot[HEAD] /\ pair'[2] = snapshot[Worktree]
      BY <1>4
    <3>2. (status' = Broken <=> ShouldFail(pair'[1], pair'[2])) /\ status' \in {Ok, Broken}
      BY <1>4, <3>1 DEF Ok, Broken
    <3>3. QED
      BY <1>4, <2>2, <2>3, <3>1, <3>2 DEF Evidence, ShouldFail, HEAD, Ok, Broken
  <2>6. Found' /\ Quiet'
    BY <1>4 DEF Found, Quiet
  <2>7. QED
    BY <2>4, <2>5, <2>6
<1>5. CASE Audit
  <2>1. /\ pc = "audit" /\ pc' = "conclude"
        /\ UNCHANGED <<git, store, held, analysed, pair, status, said, verdict>>
    BY <1>5 DEF Audit
  <2>2. /\ audit' \in Statuses
        /\ audit' = Broken => /\ NONE \notin {snapshot[HEAD], snapshot[Worktree]}
                              /\ <<snapshot[HEAD], snapshot[Worktree]>> \in Tampered
    BY <1>5 DEF Audit, Statuses, Ok, Broken, Unable, TimedOut
  <2>3. TypeOK' /\ NoneAhead' /\ BaselineIsCommit' /\ Reading' /\ Still'
    BY <2>1, <2>2 DEF Points, HEAD, NoneAhead, BaselineIsCommit, Reading, Still
  <2>4. Evidence' /\ Quiet'
    BY <2>1 DEF HEAD, Evidence, Quiet, ShouldFail
  <2>5. Found'
    <3>1. ASSUME calm, audit' = Broken
          PROVE  snapshot[HEAD] = commits[HEAD] /\ snapshot[Worktree] \in Trees
      BY <1>1, <2>2, <3>1 DEF BaselineIsCommit
    <3>2. QED
      BY <2>1, <2>2, <3>1 DEF Found, HEAD
  <2>6. QED
    BY <2>3, <2>4, <2>5
<1>6. QED
  BY <1>2, <1>3, <1>4, <1>5 DEF CheckTimesOut, CheckLoadsGraph, CheckComparesPair

(* pre-commit's conclusion, the commit, and the baseline recorded after it. *)
LEMMA FinishingKeepsInv ==
  ASSUME Inv, Conclude \/ Commit \/ CommitRefused \/ AnalyzeForBaseline
  PROVE  Inv'
<1> USE DEF git, store
<1>1. Inv => TypeOK /\ NoneAhead /\ BaselineIsCommit
  BY DEF Inv
<1>2. ASSUME Forget, UNCHANGED <<git, store, held>>,
             said' \in BOOLEAN, verdict' \in {"none", "allowed", "blocked"}
      PROVE  Inv'
  <2>1. NoneAhead' /\ BaselineIsCommit'
    BY <1>1, <1>2 DEF NoneAhead, BaselineIsCommit, HEAD
  <2>2. QED
    BY <1>1, <1>2, <2>1, ForgetKeepsInv DEF TypeOK
<1>3. CASE Conclude
  <2>1. pc = "conclude"
    BY <1>3 DEF Conclude, ConcludeWith
  <2>2. CASE audit = Broken \/ status = Broken
    BY <1>2, <1>3, <2>2 DEF Conclude, ConcludeWith
  <2>3. CASE ~(audit = Broken \/ status = Broken)
    <3>1. /\ said' = (status \in {Unable, TimedOut}) /\ verdict' = "allowed" /\ pc' = "commit"
          /\ UNCHANGED <<git, store, held, analysed, pair, status, audit>>
      BY <1>3, <2>3 DEF Conclude, ConcludeWith
    <3>2. Quiet'
      BY <2>3, <3>1 DEF Inv, TypeOK, Quiet, Statuses
    <3>3. TypeOK' /\ NoneAhead' /\ BaselineIsCommit' /\ Reading' /\ Still'
      BY <2>1, <3>1 DEF Inv, TypeOK, Points, HEAD, NoneAhead, BaselineIsCommit, Reading, Still
    <3>4. Evidence' /\ Found'
      BY <2>1, <3>1 DEF Inv, HEAD, Evidence, Found, ShouldFail
    <3>5. QED
      BY <3>2, <3>3, <3>4 DEF Inv
  <2>4. QED
    BY <2>2, <2>3
<1>4. CASE Commit
  <2>1. /\ pc = "commit" /\ pc' = "rescan" /\ CanCommit /\ commits' = Append(commits, index)
        /\ UNCHANGED <<worktree, index, calm, store, held,
                       analysed, pair, status, audit, said, verdict>>
    BY <1>4 DEF Commit
  <2>2. /\ commits' \in Seq(Trees) /\ HEAD' \in 1 .. MaxCommits /\ commits'[HEAD'] = index
        /\ NoneAhead' /\ BaselineIsCommit'
    BY <2>1, CommitAdds DEF BaselineIsCommit
  <2>3. TypeOK' /\ Reading' /\ Still'
    BY <2>1, <2>2 DEF Inv, TypeOK, Points, Reading, Still
  <2>4. Evidence' /\ Found' /\ Quiet'
    BY <2>1 DEF Inv, Evidence, Found, Quiet, ShouldFail
  <2>5. QED
    BY <2>2, <2>3, <2>4 DEF Inv
<1>5. CASE CommitRefused
  BY <1>1, <1>2, <1>5 DEF CommitRefused, TypeOK
<1>6. CASE pc = "rescan" /\ pc' = "repersist" /\ analysed' = worktree
           /\ UNCHANGED <<git, store, held, pair, status, audit, said, verdict>>
  <2>1. TypeOK' /\ NoneAhead' /\ BaselineIsCommit' /\ Reading' /\ Still'
    BY <1>6 DEF Inv, TypeOK, Points, HEAD, NoneAhead, BaselineIsCommit, Reading, Still
  <2>2. Evidence' /\ Found' /\ Quiet'
    BY <1>6 DEF Inv, HEAD, Evidence, Found, Quiet, ShouldFail
  <2>3. QED
    BY <2>1, <2>2 DEF Inv
<1>7. CASE Persist("HEAD", "repersist", "idle")
  <2>1. /\ pc = "repersist" /\ Forget /\ UNCHANGED <<git, held, said, verdict>>
    BY <1>7 DEF Persist, EndAnalyze
  <2>2. PICK progress \in 0 .. 3 :
          /\ exists' = (exists \/ progress > 0)
          /\ graph' = IF progress > 1 THEN analysed ELSE graph
          /\ snapshot' = IF progress = 3 THEN [snapshot EXCEPT ![HEAD] = analysed] ELSE snapshot
    BY <1>7 DEF Persist, Resolved
  <2>3. HEAD \in Revisions /\ 1 .. HEAD \subseteq Revisions /\ HEAD' = HEAD /\ HEAD = Len(commits)
    BY <1>1, <2>1, CommitsAssumption DEF TypeOK, Revisions, HEAD
  <2>4. analysed \in Trees /\ (calm => analysed = commits[HEAD])
    BY <2>1 DEF Inv, Reading, Still
  <2>5. exists' \in BOOLEAN /\ graph' \in Trees \union {NONE}
    BY <1>1, <2>2 DEF TypeOK
  <2>6. /\ snapshot' \in [Revisions -> Trees \union {NONE}]
        /\ \A c \in Revisions : c # HEAD => snapshot'[c] = snapshot[c]
        /\ snapshot'[HEAD] \in {snapshot[HEAD], analysed}
    BY <1>1, <2>2, <2>3, <2>4 DEF TypeOK
  <2>7. NoneAhead'
    <3>1. ASSUME NEW c \in Revisions, c > HEAD PROVE snapshot'[c] = NONE
      <4>1. c # HEAD
        BY <1>1, <3>1 DEF TypeOK, Revisions
      <4>2. QED
        BY <1>1, <2>6, <3>1, <4>1 DEF NoneAhead
    <3>2. QED
      BY <2>3, <3>1 DEF NoneAhead
  <2>8. BaselineIsCommit'
    <3>1. ASSUME calm, NEW c \in 1 .. Len(commits) PROVE snapshot'[c] \in {NONE, commits[c]}
      <4>1. c \in Revisions /\ snapshot[c] \in {NONE, commits[c]}
        BY <1>1, <2>3, <3>1 DEF BaselineIsCommit
      <4>2. QED
        BY <2>4, <2>6, <3>1, <4>1
    <3>2. QED
      BY <2>1, <3>1 DEF BaselineIsCommit
  <2>9. QED
    BY <1>1, <2>1, <2>5, <2>6, <2>7, <2>8, ForgetKeepsInv DEF TypeOK
<1>8. QED
  <2>1. CASE AnalyzeForBaseline
    BY <1>1, <1>2, <1>6, <1>7, <2>1
       DEF AnalyzeForBaseline, Scan, AnalyzeTimesOut, EndAnalyze, TypeOK
  <2>2. QED
    BY <1>3, <1>4, <1>5, <2>1

(* The invariant holds of every behaviour.                                  *)
THEOREM HooksKeepInv == Spec => []Inv
<1>1. Inv /\ [Next]_vars => Inv'
  <2> SUFFICES ASSUME Inv, [Next]_vars PROVE Inv'
    OBVIOUS
  <2>1. CASE Hook
    BY <2>1, AnalyzeForCheckKeepsInv, JudgingKeepsInv, FinishingKeepsInv DEF Hook
  <2>2. CASE UNCHANGED vars
    <3>1. TypeOK' /\ Still' /\ Reading' /\ NoneAhead' /\ BaselineIsCommit'
      BY <2>2 DEF vars, git, store, hook, Inv, TypeOK, HEAD, Still, Reading, NoneAhead,
                  BaselineIsCommit
    <3>2. Evidence' /\ Found' /\ Quiet'
      BY <2>2 DEF vars, git, store, hook, Inv, HEAD, Evidence, Found, Quiet, ShouldFail
    <3>3. QED
      BY <3>1, <3>2 DEF Inv
  <2>3. QED
    BY <2>1, <2>2, PeopleKeepInv DEF Next
<1>2. QED
  BY InitInv, <1>1, PTL DEF Spec

(* The types of the variables.                                              *)
THEOREM TypeCorrect == Spec => []TypeOK
<1>1. Inv => TypeOK
  BY DEF Inv
<1>2. QED
  BY HooksKeepInv, <1>1, PTL

(* git/post-commit "records exactly the commit that was just made", as long *)
(* as everybody stages what he edits and keeps still while a hook runs:     *)
(* under a commit there is its own tree's revision or none.                 *)
THEOREM BaselineSafe == Spec => []BaselineIsCommit
<1>1. Inv => BaselineIsCommit
  BY DEF Inv
<1>2. QED
  BY HooksKeepInv, <1>1, PTL

(* "Never claim a check that did not happen": pre-commit lets a commit pass *)
(* without a word only when check compared two recorded graphs, the first   *)
(* the tree of the commit it is made on, and found no rule broken.          *)
THEOREM SilenceSafe == Spec => []SilenceMeansChecked
<1>1. Inv => SilenceMeansChecked
  BY DEF Inv, Quiet, Evidence, SilenceMeansChecked
<1>2. QED
  BY HooksKeepInv, <1>1, PTL

(* "Never block on a tool problem": whatever times out, whoever holds the   *)
(* store and however far a save came, pre-commit refuses a commit only for  *)
(* what a rule has against the last commit's tree, or a rule or the audit   *)
(* against the change from it to the recorded working tree.                 *)
THEOREM BlocksOnEvidence == Spec => BlockedOnEvidence
<1> DEFINE Evident == \/ commits[HEAD] \in Breaking
                      \/ <<commits[HEAD], snapshot[Worktree]>> \in FieldLoss \union Tampered
           Blocking == calm /\ verdict' = "blocked" /\ verdict # "blocked"
<1>1. Inv /\ [Next]_vars => [Blocking => Evident]_vars
  <2> SUFFICES ASSUME Inv, [Next]_vars, Blocking PROVE Evident
    OBVIOUS
  <2>1. Conclude
    BY DEF Next, Edit, Stage, CommitUnhooked, HoldStore, ReleaseStore, BeginCommit, Hook,
           AnalyzeForCheck, Scan, Persist, AnalyzeTimesOut, CheckTimesOut, CheckLoadsGraph,
           CheckComparesPair, CheckFails, Audit, Commit, CommitRefused, AnalyzeForBaseline,
           vars, hook
  <2>2. pc = "conclude" /\ (audit = Broken \/ status = Broken)
    BY <2>1 DEF Conclude, ConcludeWith
  <2>3. CASE audit = Broken
    BY <2>2, <2>3 DEF Inv, Found
  <2>4. CASE status = Broken
    <3>1. pair # NONE /\ ShouldFail(pair[1], pair[2])
          /\ pair = <<commits[HEAD], snapshot[Worktree]>>
      BY <2>2, <2>4 DEF Inv, Evidence
    <3>2. ShouldFail(commits[HEAD], snapshot[Worktree])
      BY <3>1
    <3>3. QED
      BY <3>2 DEF ShouldFail
  <2>5. QED
    BY <2>2, <2>3, <2>4
<1>2. QED
  BY HooksKeepInv, <1>1, PTL DEF Spec, BlockedOnEvidence

=============================================================================
