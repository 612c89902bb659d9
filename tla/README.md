# Graphyn in TLA+

Graphyn turns a repository into a graph of its symbols and answers questions
about it: who uses this, what does this change break, is this commit allowed.
The answers are only as good as the graph behind them, and that graph travels:
it is built file by file, saved, labelled, pruned, reloaded, replaced in a
running server and compared with itself at an earlier commit, by processes that
come and go, are killed by timeouts and share one database. This directory models
that journey, from the statements of a file to the verdict on a commit. Paths below
are relative to the repository; `core`, `store`, `cli`, `mcp` and `lang` stand for the
crates `crates/graphyn-*`.

 1. [The system](#1-the-system)
 2. [The modules](#2-the-modules)
 3. [The runs](#3-the-runs)
 4. [Fairness and other assumptions](#4-fairness-and-other-assumptions)
 5. [The proofs](#5-the-proofs)
 6. [Where code and documents disagree](#6-where-code-and-documents-disagree)
 7. [What is not modelled](#7-what-is-not-modelled)
 8. [Plan](#8-plan)

## 1. The system

| Component | State it keeps | Operations | Talks to |
|---|---|---|---|
| Source scan (`core/scan.rs`) | none | walk, ignore rules, read | language dispatch |
| Language dispatch (`lang/dispatch.rs`) | none | group files by adapter, run the adapters in parallel, stamp resolutions, derive test edges | `RepoIR` to graph construction |
| Adapters (`lang/lang/{typescript,python,rust,go,c}`) | none | extract each file by itself, then resolve each with all in sight: imports, re-exports, crates, packages, includes, members | language dispatch |
| In-memory graph (`core/graph.rs`, `index.rs`, `symbol_id.rs`) | petgraph nodes and edges *by position*, symbol table, `node_index`, `name_index`, `file_index`, alias chains | add and remove a symbol, a relationship, a file; `find_symbol_id` | everything |
| Alias resolver (`core/resolver.rs`) | alias chains | `ingest_relationships` | in-memory graph |
| Incremental update (`core/incremental.rs`) | none | `replace_file_ir` | in-memory graph |
| Revision store (`store/rocksdb.rs`) | RocksDB column families: `main`, snapshots, index, write counter, layout stamp; the LOCK | open, `save_graph`, `save_revision`, `delete_revision`, `prune_revisions`, list, load | every command |
| Revision names (`store/revision.rs`) | none | resolve `worktree`, `HEAD`, a commit | git |
| Query cache (`store/cache.rs`) | an LRU table and an atomic tick | get, put | nobody yet |
| Queries (`core/query.rs`, `context.rs`, `coverage.rs`) | none | bounded traversal, deduplication, ranking | CLI, MCP |
| Delta and findings (`core/delta.rs`, `findings.rs`) | none | pair removed with added symbols, report breakage | check, diff, audit |
| Rules (`core/rules.rs`, `rule_eval.rs`) | none | evaluate a rule on a graph or a delta | check |
| Test selection (`core/test_impact.rs`) | none | walk from changed symbols to tests | CLI |
| Audit (`core/audit`) | none | detectors, suppressions | hooks |
| Commands (`cli/commands`) | none between runs | `analyze`, `check`, `audit`, read-only queries | store |
| Git hooks (`agent-configs/hooks/git`) | shell variables | `pre-commit`, `post-commit`, each call under a timeout | commands, git |
| Claude hooks, CI action | shell variables | stop check, audit, report | commands |
| Watch (`cli/commands/watch.rs`) | an open store, a channel of events, pending files, debounce | initial analysis, event loop, `handle_change` | file system, store |
| MCP server (`mcp/server.rs`, `mcp/tools`) | the graph, behind a read-write lock | refresh, rules, diff, queries | store, agents |

**What makes it hard.**

* *Crashes.* The hooks run every command under `timeout`, so a process may be
  killed between any two writes. `save_revision` is three writes, a layout change
  a loop of them, `analyze --snapshot` a sequence of saves, and nothing is a transaction.
* *One opener.* RocksDB's LOCK admits one process. A watcher holds it for as long
  as it lives; the others must fail at once and change nothing.
* *Time of check, time of use.* A hook analyses, checks and audits in separate
  processes, resolves `HEAD` when it is done and not when it began, and people edit
  meanwhile. The server scans, saves and installs a graph in three steps.
* *Positions.* petgraph moves the last node or edge into the place of a removed
  one; code that collects positions first and removes afterwards works on stale ones.
* *Names.* A name is imported twice, passed on under another name, declared again,
  found through a chain of `__init__`s, barrels, `pub use`s, crates or headers. Which
  statement wins is decided by maps filled in some order, language by language.
* *Weak evidence.* Half of the languages are matched by name within a file. What is
  said on such an edge must not be said as if it were known.
* *Order.* Edges whose ends are unknown are dropped, so symbols of every file come
  before relationships of any, and a reloaded graph has other positions than the
  one that was saved.

**What makes each part correct.**

* Store: the listing is the order of recording, whatever was interrupted; a listed
  revision is of the stamped layout; a command that ends without an error recorded
  what it analysed; retention keeps the newest.
* Adapters: what a file takes from another leaves an edge or a word about why not; a use
  leads where the import does; nothing is found by looking everywhere.
* Graph: it holds what the files declare, each lookup path finds the same symbols,
  and it says the same after a reload, in any file order and after any update.
* Commit gate: a commit is refused on evidence only; a commit let through in silence
  was checked against the right baseline; every hook ends.
* Server: one user of the store at a time, calls return, and a finished refresh leaves
  disk and memory at the repository as it was.
* Watch: no edit it is told of is forgotten and the stored graph catches up.
* Queries, test selection: each agrees with its declarative meaning, at bounds and on
  ties as well.
* Comparison: every symbol is accounted for once, a refactoring is told as one, a reference
  left behind is reported, and rules and audit say what no unresolved edge could change.

Every hazard we found while reading is listed, at its line, in `PROJECT.json`.

## 2. The modules

```
 RevisionHistory  <--refines--  RevisionStore  --- RevisionStoreProofs
                   RevisionStoreRefinement (EXTENDS RevisionStore, INSTANCE RevisionHistory)

 Sources --- Python -----------\
        \--- RustCrates - Rust --\
         \-- Go ------------------ Adapters --- MCAdapters   (a repository of each)
          \- C -----------------/          \--- AdaptersProofs --- LocalityProofs
             TypeScript (INSTANCE)

 CodeGraph  --- GraphBuild -----------\   (a repository built, saved, reloaded)
           \--- IncrementalUpdate ----- GraphLife --- MCGraphLife   (its names)
                   |                            \--- GraphProofs
                   \--- MCIncrementalUpdate   (the same graph, files replaced)

 References --- Traversal ---\
           \--- TestImpact --- GraphAnswers --- MCGraphAnswers (its files) --\
                                        \------- Questions ------------------- MCQuestions
                                                   |  \--- QuestionsProofs
 Delta --- RuleEval ---\                           | INSTANCE
      \--- Audit -------- Comparison --------------/

 CommitGate --- MCCommitGate          (its trees)
           \--- CommitGateProofs

 SharedStore --- Watch ------\
            \--- McpServer --- Session --- SessionProofs   (watcher and server on one store)

 FiniteOrders     (facts about finite sets, for GraphProofs, QuestionsProofs, AdaptersProofs)
```

They follow the data: an adapter's `FileIR` is what `GraphBuild` starts from, a built
graph is what `References` and `Comparison` ask about, two of them are what a hook
compares (`CommitGate`), and the store keeps them. Each takes from the one before it
what its own properties tell apart and no more: to `CommitGate` a tree is a value.

**RevisionStore** is the database and the process that has it open. `snapshots`,
`index`, `sequence`, `layout` and `working` are the column families; the rest is the
process: `pc` is where it is, `target`, `assigned`, `keep`, `todo`, `deleting` are
locals of `save_revision`, `prune_revisions` and `delete_revision`. One action is one
RocksDB write (`DeleteSnapshot`, `DeleteIndex`, `NextSequence`, `PutSnapshot`,
`PutIndex`, ...); `Interrupt` ends the process between any two and also stands for a
write that fails. Two binaries of different layouts share the store (`Layouts`), so
a drop for a new layout that was cut short may be taken up again, by either.
A graph is a value. The index entry also has a time and a graph summary: nothing
orders by them.

**RevisionHistory** is what a store promises: revisions recorded one after the other,
some forgotten, the latest recording of a name counting. **RevisionStoreRefinement**
maps the index and the counter to it and checks that each write is a step of the
history or none. With a saturated counter the promise is over, and the mapping says so.

**CodeGraph** is `core/graph.rs` as operators on a record `g`: positions, the index maps
and petgraph's swap on removal (`SwapRemove`) are all there, because that is where the
code can go wrong. The id of a symbol, `file::name::kind`, is a file and a *label*, which
stands for name and kind; `Naming` gives the name in it, so that a file may declare one
name under two kinds and a package may bear the name of a symbol. **GraphBuild** chooses a
repository (`Init`: declarations, overloads, relationships to symbols, packages and
placeholders, in any file order), runs `build_graph` pass by pass and takes the result
through a `GraphSnapshot`. **IncrementalUpdate** starts from a built graph and replaces
files with `replace_file_ir`, any file by any new content. **GraphLife** is both on the
same constants, a graph being built or followed from the start; it adds nothing but the
sum. **MCGraphLife** and **MCIncrementalUpdate** give them their labels.

**CommitGate** is one repository with both hooks installed. A tree is a value and the
rules are what the constants say of trees (`Breaking`, `FieldLoss`, `Tampered`); the
model is about *which* trees are compared, with what status, and what is said. `pc` runs
through `pre-commit` (`scan`, `persist`, `check`, `pair`, `audit`, `conclude`), git
(`commit`) and `post-commit` (`rescan`, `repersist`). Around it people edit, stage,
commit without hooks, and other processes hold the store. `calm` is a history
variable: nobody has touched the repository during a hook and all was staged.
**MCCommitGate** gives it four trees, one per thing a tree can do.

**SharedStore** is what the processes on one repository have in common: the tree they scan
(the number of edits it has had, so that "older" is `<`), what each directory's store has,
and who has it open (`holder[r]`, the LOCK of RocksDB).

**McpServer** is a server with concurrent calls: `call[c]` is where call `c` is,
`built[c]` the tree it scanned, `memory` the graph behind the read-write lock. Refreshes
of a subdirectory have their own store but replace the same graph. `failed`, `alone` and
`synced` are history variables.

**Watch** is `watch.rs`: initial scan and save, start of the file watcher, then the
loop, with the channel and the pending set kept apart, a window that has run out or
not, and an analysis during which edits go on. An edit is of anything an analysis reads;
whether `is_watchable` lets the event about it through is open, since it looks at the
extension: a `tsconfig.json`, a `Cargo.toml`, a `go.mod`, a `.gitignore` or a directory
that is moved changes the graph and passes for noise. `missed` is a history variable: the last
edit that came before the watcher listened, or was filtered, or whose handling failed.

**Session** puts both on one repository, as `docs/agent-guide.md` recommends: their
edits are the same edits, the store's LOCK is the same lock.

**References** is the graph as queries see it: symbols in files, references with the
resolution `run_adapter` stamps on them, and the edges of kind `tests` that
`add_test_edges` derives from the references of test files. **Traversal** is
`core/query.rs`: `blast_radius` and `dependencies` walk from a symbol, `file_impact`
from each symbol of a file in turn. `queue`, `visited` and `rows` are `traverse`'s
locals and a step is a turn of its loop (`Visit`); in which order petgraph lists a
node's edges is left open. `Collapse` is `dedupe_edges` and, for a file, the second
collapsing of rows between walks. **TestImpact** is `core/test_impact.rs`: `Level` is an
iteration of `reverse_reachable`, symbols in the order of their ids, each reading what
those before it have just learned; the selection itself (`tests`, `modified_tests`,
`uncovered`, `IsTrustworthy`) is what `select` makes of the result. **GraphAnswers** asks
all of them of every graph that can be written, reference by reference; the answers
are compared with reachability as `Away` and `Upstream` define it.
**MCGraphAnswers** gives it its files.

**Delta**, **RuleEval** and **Audit** are operators on two graphs, as `core/delta.rs` and
`findings.rs`, `rules.rs` and `rule_eval.rs`, and `core/audit` are functions of them. A
symbol has a file, a name, a kind, a signature (a sequence of words, in which the name,
and those of others, may occur) and lines; an edge has a line; a glob is the set it
matches. `PairUp` is the greedy pairing: candidates sorted by rank and ids, each taken if
both ends are free. **Comparison** is the repository around them. Programmers delete
(leaving references behind or not), rename, move, reword, add, drop, refer and shift
references to other lines; a rename reaches the references and whichever signatures
mention the name. `origin` and `deeds` remember what they did, `before` and `after` are
the sources, and `Compare` builds both graphs and runs everything a comparison is made of.
So a property can measure what was *said* of the change by what was *done*. **Questions**
puts it beside `GraphAnswers`, as the commands and tools that only read: each is a process
that asks one thing and forgets. **MCQuestions** has the baselines: functions that call
each other from a source file, a test and their own file, the same in a structural
language, classes with fields, and a class and a function over it. The audit is what its
detectors say and what an ignore file hides of it.

**Sources** is what four of the adapters share: a file is the sequence of its statements
in the order of the walk, an IR has symbols, relationships to be resolved and diagnostics,
and a member is charged to the type a variable is bound to in the functions around it
(`BoundType`, `Around`, `MemberTypes`: the scope analyzers differ in the syntax they
recognise and not in this). A name is a number and a path a sequence of them.
**Python**, **Rust**, **Go** and **C** each have `Extract...`, the IR of a file by itself
(`extractor.rs`), and `Resolve...`, what becomes of its relationships when all files are in
sight (`import_resolver.rs`, `include_resolver.rs`): `absolutize`, `file_to_module` and
lookup through `__init__`; the module tree and `pub use`; packages by directory and the
structural `Implements` of `interface_detector.rs`; includes, visible headers, and
prototypes linked to the one definition that sees them. **RustCrates** is `crate_set.rs`:
which file begins a crate, what each file's module path is and what a crate's name means
elsewhere. **TypeScript** is the adapter that does it differently: several imports in a
statement, `export *`, barrels, `tsconfig.json` with its chain of `extends`, types by name
in a file, and diagnostics some of which have no line and say only what they are about
(`unplaced`). Files have an order, the one the repository walk delivers, because maps keep
the first or the last of a name. **Adapters** writes a repository of one language statement
by statement and analyses it after each; **MCAdapters** is a small one of each language with
the statements worth writing.

`PROJECT.json` (`map`) gives for each definition the lines it stands for.
Definitions called `Faulty...`, or otherwise described as a slip, are wrong on
purpose. No specification uses them; each stands beside the definition it distorts,
and `mutants` names the property that tells the two apart.

## 3. The runs

Run with `tlc -config X.cfg M`.

| Run | Module / cfg | Asks |
|---|---|---|
| `revision_store` | `RevisionStoreRefinement` / `RevisionStore.cfg` | Do counter, listing, layout and retention stay consistent under any interruption, and do they implement a history? |
| `graph_life` | `MCGraphLife` / `GraphLife.cfg` | Is a built or reloaded graph what the files declare, in every file order, and are lookups exact? What survives two replacements of files? |
| `incremental_edges_declared` | `MCIncrementalUpdate` / `IncrementalEdgesAreDeclared.cfg` | violated: does an update remove all edges of the file? |
| `commit_gate` | `MCCommitGate` / `CommitGate.cfg` | Are commits refused only for what is broken in the base or by the change, is silence only after a check, baselines the commits', and do hooks end? |
| `commit_gate_present` | `MCCommitGate` / `CommitGatePresent.cfg` | violated: is the tree judged the one that was just recorded? |
| `mcp_server` | `McpServer` | With two calls side by side, is the store used by one, does each call return unless readers starve a refresh that has saved, and is a refresh that is alone a sync point? |
| `mcp_server_concurrent` | `McpServer` / `McpServerConcurrent.cfg` | violated: is *every* refresh a sync point? |
| `session` | `Session` | Does the watcher forget nothing it is told of and catch up beside a server, does its store only get newer, do calls return? |
| `watch_in_sync` | `Watch` / `WatchInSync.cfg` | violated: does the watcher keep the graph in sync? |
| `graph_answers` | `MCQuestions` / `Questions.cfg` | Do queries answer what is within their depth, does a file's impact name every dependent, is coverage exact and trust earned? Is every symbol of a comparison accounted for once, a refactoring told as one, a reference left behind reported, a verdict certain, and does an ignore entry hide one finding? |
| `test_selection_complete` | `MCGraphAnswers` / `TestSelectionComplete.cfg` | violated: is nothing missing from a selection that is trusted? |
| `adapters` | `MCAdapters` / `Adapters.cfg` | Is nothing lost without a word, do uses follow imports through shadowing and re-exports, is a crate one namespace inside and out, are members of their type, and does a file only change those that name it? |

A *violated* run checks one statement of the repository's own documentation or tests,
and its counterexample is the disagreement described in section 6.

**Bounds.** Each bound is a constant of the module.

* `RevisionStore`: three revisions, so that retention of 0, 1 or 2 has something to
  drop and to keep; two layouts, so that a change can be undone half-way; `MaxSequence`
  (the code's `u64::MAX`) 4 and `SaveBound` 4, so that the counter saturates and is
  used further.
* `GraphLife`, while it builds: two files with three labels (the module and two kinds of one
  name, which a package bears, too), two declarations (an overload, the same name in both
  files, or one name under two kinds) and two relationships (a forward reference, a
  duplicate, one of each kind of target).
* `GraphLife`, while it follows: two replacements (`MaxEdits`): the first leaves the ghosts, the
  second works on them. One declared label beside the module (`FollowedLabels`) is enough
  for positions to go stale.
* `CommitGate`: `MaxCommits` 3 commits give each an earlier and a later neighbour. Once
  somebody was careless `MaxStray` 2 remain: a stray change and a commit judged by it. Of
  the four trees one breaks nothing, so that a commit on top of it is refused only for the
  change.
* `McpServer`: two calls and two edits give an older and a newer refresh in either
  order; a third call adds a copy of one of them.
* `Session`, `Watch`: an edit before the scan, one during it, one pending and one during
  the analysis make four (`MaxEdits`); `MaxNoise` 1 ignored event between them.
* `GraphAnswers`: two source and two test files, one of them with two symbols, so that
  a file has two walks, a reference inside it and one from a test into each half. Three
  references (`MaxReferences`) make a cycle, a diamond's two paths of different length, or a
  chain one longer than the depth asked for; `Depths` 0 and 2 are the empty query and the
  boundary inside such a chain; `MaxChanged` 2 symbols give one caller two origins.
  A graph with more references has more of the same: each row is decided by one path.
* `Comparison`: `MaxEdits` 3. A rename that frees an id, another symbol that takes it and a
  reference that is forgotten are three; two removals and two additions that compete
  for partners are two renames with a reworded signature. Each baseline has a symbol with
  a caller in a source file, in its own file or in a test. Two lines (`ComparedLines`) tell two
  references from one symbol to another apart.
* `Adapters`: `MaxWrites` 3 statements on top of a beginning that has the declarations: an
  import, what it leads through and its use; or two imports of one name and a use. A chain is
  followed through 1 (`MaxReexports`, `MaxInits`) or 2 (`MaxPubUses`) names, where the code
  follows 10, 8 and 8, so that there are both chains that are followed to their end and
  chains that are cut short. `ReexportsAreTransparent` is about the former, and names
  them by what a name can come to (`IsShort`), not by a bound on all files: a repository
  may have long chains elsewhere. Each repository has what its language makes difficult: a
  barrel, an ignored file and a bundle, each to be had by a relative path and through
  `tsconfig.json`; a package without `__init__`; two crates, one in
  a root without a directory, and its tests; two packages of two files; two headers of one name.

**Deadlock** is checked except in `GraphLife`, `IncrementalUpdate` and `Adapters`, which model
functions that return: a graph is built, or its files are no longer edited.

## 4. Fairness and other assumptions

* `Watch`: weak fairness of `Loop`, a thread that does nothing else, and of `Settle`, the
  passing of the debounce window when no event arrives. Nothing makes events stop:
  `MaxNoise` bounds those of ignored files, see the hazard at `watch.rs:105`.
* `McpServer`: weak fairness of each call's `Proceed`: a call that can go on, and stays able
  to, does. No more is assumed of the lock on the graph. It is `std::sync::RwLock`
  (`server.rs:8`, `:24`), which promises a waiting writer nothing, so a refresh may be kept from
  installing by readers who come and go for ever; `CallsReturn` says that this is the only
  way not to return, and that such a refresh has saved its graph and left the store.
  Nobody is obliged to make a call.
* `CommitGate`: weak fairness of `Hook`. The scripts are straight lines and each
  command is under a timeout. People, and whoever holds the store, are obliged to nothing.
* `RevisionStore`, the graph modules, `Questions` and `Adapters` have safety properties only:
  their functions are sequential and end.
* External behaviour taken as given: RocksDB's single writes are atomic and its LOCK
  exclusive and released with the process; `notify` delivers an event for each change once
  it watches, whether or not `is_watchable` then lets it through; petgraph's `remove_node`
  and `remove_edge` move the last element into the gap and its iterators go newest edge
  first.
* `CommitGate` leaves retention to `RevisionStore`: its behaviours record fewer revisions
  than the 20 the default keeps.

## 5. The proofs

`tlapm` checks eight modules of theorems. They hold for any values of the constants that
satisfy the named assumptions, which say of what kind a constant is and no more:

* `RevisionStore`: revisions and retentions are numbers, the counter's largest value is at
  least 1, `NONE` is none of the values it stands beside.
* `CommitGate`: the empty tree is a tree and breaks no rule, `NONE` is no tree and no pair of
  trees, the bounds are numbers.
* `SharedStore`, `Watch`: the root is a directory, processes differ from each other, the
  bounds are numbers.
* `CodeGraph`: files and labels are numbered, in the order the code sorts them; the files are
  finitely many; `module::module` is a label (every file has its module symbol); an external
  id is not one of a file (`ext::` is no path). Which labels and packages share a name is open.
* `GraphAnswers`, `Questions`, `Comparison`: symbols, lines and depths are numbers, each symbol
  has a file, `NONE` is no file, the baselines are graphs a parse can give.
* `Adapters`: files are numbered, in the order the code sorts them, and finitely many;
  `NONE` is no name, path, symbol, package or import; a directory is a path; what a
  relative specifier may stand for is a list of files; the depths to which re-exports are
  followed are numbers; the beginnings are repositories and what may be written is a
  statement of the language, a base only where the class is.

No theorem needs an instance to be small. An abstraction stays one: the theorems are
about the models, whose bounds on counters (`MaxSequence`, `MaxEdits`, ...) are constants.

**RevisionStoreProofs.** `TypeCorrect`, `CounterSafe`, `LayoutSafe`, `RecordSafe`,
`RetentionSafe`, `RetentionDropsOldest`, `StoreImplementsHistory`. None of the invariants is
inductive: what is on disk is right only together with what the process still intends to
do. So each has a part about the process:

* `SessionInv`: which locals are set where.
* `LoopInv`: while a delete loop runs, what it still has to delete is listed, and while a
  layout is dropped everything listed is still to be deleted. This is why the counter may
  be reset: nothing is listed any more.
* `CounterInv`: the counter covers the index, and the sequence in hand is above every
  recorded one - unless the counter has saturated.
* `LayoutInv`: from `ready` on the stamp is the binary's, so what is written then is of it.
* `RecordInv`: after each of the writes of `save_revision`, what is already there.
* `RetainInv`: what retention has not set out to delete is within its bound, and is at
  least that much and no older while it deletes. It rests on the listing being a strict total
  order (`NewerIsTotalOrder`) on a finite set, so that "fewer than k before it" selects k.
* `DeleteInv`: a delete loop takes the snapshot before the index entry.

Each is proved with the ones before it as lemma, and `Interrupt` is the case to look at:
it forgets the process and so must be harmless at every step. `StoreImplementsHistory` goes
through the writes: `PutSnapshot` changes the content of one revision, `PutIndex` makes it
the first of the listing, the deletes forget one, and every other write maps to a stutter.

**CommitGateProofs.** `BaselineSafe`, `SilenceSafe` and `BlocksOnEvidence`, from one
inductive invariant (`HooksKeepInv`). `Still` says that while a hook runs undisturbed the
tree is the one that gets committed; `NoneAhead` that nothing is recorded under a commit
not made yet, so that a new commit starts without a baseline; `Evidence` and `Found` of
which pair of trees the statuses in the shell's variables speak; `Quiet` that a hook which
goes on without a word had a check that passed. `BlocksOnEvidence` names the trees: what
is broken is the tree of the last commit, or the change from it to the tree that is
recorded as the working one. An action that ends a hook, at whatever point, keeps what it
leaves behind (`ForgetKeepsInv`).

**SessionProofs.** First the watcher alone: `EditsReachTheStore`. The invariant says of
the last edit, if the stored graph lacks it and it was not missed, where it is waiting:
the channel, the pending set, or ahead of the scan that runs. An earlier one that was
missed comes in with it, for each analysis is of the whole tree. Then the server alone:
`StoresAreHeld` (the lock of a store names the call that uses it, and that call is at a
step that uses it), `SerialRefreshSyncs` and `MemoryIsStored`, whose invariant `InOrder`
says that of refreshes one at a time the one that runs has scanned nothing older than what
is stored and in memory. Then both: `WatcherUndisturbed` and `StoreOnlyAdvances`. While
the watcher is there no call has the store, hence no step of the server changes it
(`ServerKeepsOff`) and the invariant of `Watch` carries over; and what the watcher has
scanned is never older than what it stored before.

**FiniteOrders.** What the library's theorems do not give and the proofs of graphs, questions
and adapters need: images of finite sets, the last element of a finite order, selections in
the order of a relation (what a greedy pass keeps is maximal), and recursions over the
subsets of a finite set. A
fold of the community modules is the value, at the whole set, of a function *chosen* by its
recursion equation; that such a function exists is a theorem here (`Recursion`), by the
smallest subset on which it would not. With it a loop of the code becomes the sequence of
the values it goes through (`LoopStages`), along which `UpTo` carries what one turn keeps.

**GraphProofs.** `GraphIsCoherent`, `BuiltGraphHoldsTheFiles`, `NamesAreFound`: for any files,
names and relationships. From below: one turn of a loop (`AddSymbolKeeps`,
`AddRelationshipKeeps`, `IngestKeeps`) keeps a graph coherent and adds what it should; a file
is a list of turns (`FileSymbolsAdded`, `FileRelationshipsAdded`); a reload is the same turns
from an empty graph, in another order (`ReloadKeeps`). `NamesAreFound` follows: the name index
of a coherent graph holds all symbols and packages of the name, and only one of them makes an
answer. `BuildInv` says how far the files have
come: in the first pass the graph has the symbols of the files done and no edge, in the second
all symbols and the edges, packages and aliases of the files done. Counting edges needs the
stronger half: each position of a relationship that has a target adds one edge, so an edge
is there exactly as often as it is declared.

And after updates: `FollowedGraphIsAddressable`, `DeclaredSymbolsArePresent`, `NeighboursSurvive`
are of the same graph after any replacements. It is not coherent any more, ghosts of removed
symbols stay in it (section 6), so the invariant is weaker (`Sound`: positions and
indexes right, each symbol has a node) and `FollowInv` adds that every declared symbol is
there. The work is in the removals. *Edges* are removed at positions collected before
(`RelationshipsRemoved`): a position still to come holds an edge of the same file or is past
the end, as ascending removals move only the last edge, downwards; so no edge of another
file goes, though one of this file may stay. *Nodes* are removed by an index that is not
updated meanwhile (`Shedding`, `SymbolShed`): the node that was moved has its old position,
which is past the end from then on (`StaleIsPastTheEnd`), so a stale position finds nothing,
and never a neighbour. Petgraph's `remove_node` takes the edges of the node one by one, each
removal moving another edge (`EdgesOfRemoved`), and afterwards none is left that would lead
out of the arena (`NodeRemoved`).

**QuestionsProofs.** About comparisons, for any number of edits away from any baseline:
`EntriesHideOne`, since of a finding's subjects its detector allows but one to be whom it
is about (`SubjectsTell`: no test is tested, nothing removed survives, what is new and
tested is no test); `VerdictsAreCertain`, where a rule on edges that is said to hold, or
to fail, does so on every graph in which the unresolved references lead elsewhere, and so
does a limit on referrers that is said to be broken (`ForbidIsCertain`, `FanInIsCertain`;
that it is kept is true of fewer graphs, section 6); `StaleReferencesAreReported`; and
`SymbolsAreAccountedFor`. The last is about a greedy algorithm: the candidates are
strictly ordered by rank and ids (`CandidatesAreOrdered`), and what the pass keeps is a
matching with no candidate left both of whose ends are free (`PairingParts`).
`ComparisonInv` under all of them is that edits leave a source which a parse can give, and
that what is judged is the graphs of the two sources.

And about queries, for any graph, filter and depth: `AnswersAreNeighbourhoods` and
`ImpactIsComplete`. A distance is a level (`IsLevels`): what at most k edges lead to. The
invariant of a walk (`WalkInv`) says four things. What is queued is visited, at its own
distance, in the order of the distances, which are those of two adjacent levels; the nearer
of these levels is visited as a whole; rows are of edges at their distance; and a visited
symbol is in the queue or all its edges within the depth are rows. The second is what makes
a first visit a shortest one: when the head of the queue is of the next level, everybody on
the level before has been taken off and looked at (`WalkGoesOn`). At the end every symbol
within the depth was visited (`WalkEnds`). `dedupe_edges` keeps one row of every fact, since
its order is total on the rows of one fact (`DedupeParts`); collapsing within a walk and
between walks loses no file, since what is left of two rows has the file of both
(`DedupeKeepsFiles`, `OutsideKeepsFiles`); and a symbol is within reach of a file when it is
within reach of one of its symbols (`LevelsOfUnion`). `AwayAgrees` ties all of it to `Away`,
the reference definition the runs evaluate.

About test selections, for any graph, change and depth: `CoverageExact` and `TrustEarned`. The
walk of `reverse_reachable` is a propagation: a symbol knows changed symbols and tells its
callers, level by level, and within a level those before it in the order of ids may already
have been told. So what is known after n levels lies between two bounds (`SelectionInv`):
everything that is n references away, and nothing that cannot be reached at all; and whoever
is not in the frontier has told its callers all it knows. That what is told never exceeds
what can be reached needs reachability to be a level itself: in a finite graph no level
after the one numbered by its size is larger (`LevelsSaturate`, a pigeonhole). Trust is then
a matter of the floor: what the resolved references alone reach.

And about histories: `NothingIsLost`. `HistoryInv` follows every symbol through any number of
edits: as long as only renames, moves and shifts were made, each symbol of the present source
remains of the one in `origin`, no two of the same, every old symbol has such an heir and
every reference has followed its target. The comparison does not know of `origin`, so the
rest is about the pairing. A removed symbol and its heir mostly read alike but for the name
and may be paired. A greedy pass need not pair these two, but pairs that read alike precede
all others (`RespelledComeFirst`), and reading alike falls into blocks within which everybody
may be paired with everybody (`RespelledAlike`), with as many on either side. So a pass that
leaves no such pair free leaves none of them out (`PairingIsTotal`, `PairingIsOnto`). A symbol
that mentions a renamed one has another signature and does not read like its heir; by
`KeepsItsLikeness` it has kept its name, and nobody on the other side reads like either of
them (`LikenessKept`). So the pass that pairs the former leaves these all free, and what is
left pairs by name, each with its like (`LeftOverIsPaired`). Nothing is left as removed or
added, and nothing is orphaned (`NoneIsOrphaned`).

**AdaptersProofs.** `NothingIsEverLostSilently`, `MembersAreAlwaysOfTheirType`,
`UsesAlwaysFollowImports` and `ReexportsAreAlwaysTransparent`, for a repository of any files
in any of the five languages, after any number of statements. The invariant
(`AdaptersInvHolds`) is small: what is written is a repository that has grown from one of its
beginnings, and the index is what the last analysis makes of it. The argument is about one
analysis, and the same for each language. `Shape` and `Relationships` lemmas say of what kind
the symbols and unresolved relationships of a file are and from which statement each comes.
`Resolution` follows them through the second pass: each ends as an edge to a symbol that some
file declares, as one to a package, or as a diagnostic: at its line, or by the name of the
file or type where the code gives no line. `Fates` joins the two, and
`LosesNothing` goes through the kinds of statement. For members, `MemberIsCharged` and
`ChargedIsMember` take the reading of a variable apart once for the four languages that share
it: the scopes around a line (`PathsAround`), and that a variable with one type in the file is
bound to it in all of them (`BoundWhereSaid`); TypeScript has its own (`AccessIsCharged`).
For uses, each of the three languages that name what they import is followed backwards: an
edge at the line of the last import comes from one relationship, of that statement
(`PyLineOf`, `RsLineOf`, `TsLineOf`); that relationship is known in the file by the name
used, and none that is known by it is later (`PyImportsOf`, `RsNameIsImport`, `TsKnownAs`); so
it is what the name is bound to. In TypeScript an import without an alias is known by the name
of what it was resolved to, and that this is the name imported has to be carried along the
chain of re-exports (`KnownBy` in `FollowIsSymbol`).

What a chain of re-exports ends at is a recursive function of a place: a file and the files
visited, or the depth left. Such a function is what its equation says only if it exists, so
each is shown to descend (`EndsExist`: places with a rank below which a step leads), and what
it comes to is then a symbol or nothing, as every stop is (`EndsAreValues`). The worklist of C
is a function of the turn, each turn computed from the one before it (`TurnsExist`).

Which symbol a chain ends at is what `ReexportsAreAlwaysTransparent` needs: the same one when
it is entered a step later. One step less is one more of the limit, and one file less among
those visited, and either may change the answer. It does not where chains are short. If few
enough names lead on from a place, a chain longer than there are names comes to one of
them twice and so to no end at all, and what it comes to at any smaller depth it comes to at
this one too (`Within`, `OneStepLess`, `ImportedOnceMore`; Python and Rust count depth). In
TypeScript a chain also stops at a file it has visited: one that ends somewhere with the
first file unvisited has not come through it, for what comes next is visited by then, and so
it ends there too with that file visited
(`Visits`, `FoundWithoutIt`, `OneFileMore`). `ShortChains` gets from the premise, `IsShort`, the
few names that these speak of. The rest is that the names a file passes on, as read from
its statements, are the ones its relationships say (`PyNextName`, `RsNextName`, `TsPassedFrom`).

Some things came up that a small instance had not shown, and the model says them now.
`NONE` must be no file, path, symbol, package or import, and a specifier must list files
of the repository. `UsesFollowImports` had been stated of TypeScript packages too, for
which it is false (section 6), and the run had no such import; it has one now. And where
only some names of a Rust `use` are found, the edges at its line do not tell which, so it
is stated of those found as a whole. `ReexportsAreTransparent` had been stated for
repositories with no more files than the limit; it is stated now for every chain that is
short itself, whatever else there is. And two Go modules may be of one path: their
packages of one import path are one to the resolver, so `NamedBy` in `ResolutionIsLocal`
counts the files of all of them.

**LocalityProofs.** `ResolutionIsAlwaysLocal`: a statement written in one file changes what is
said of another only where imports lead from that one to it. Let S be what is reached from a
file, and the written one not in it. S is closed under naming (`ReachIsClosed`), and its own
files are as they were (`WrittenElsewhere`), so the analyses before and after agree on S and
name no other file in it (`Same`). The rest is one statement per language (`PyAlike`,
`RsAlike`, `GoAlike`, `TsAlike`, `CAlike`): two analyses of which that is so resolve every
file of S alike. It goes along what the resolution looks at. A chain of re-exports that
starts in S stays there, so it is the same chain (`FollowAlike`, `ImportedAlike`); a Go
package is in S as a whole (`GoImplementationsAlike`). In C the files that are looked into
are those that a walk over the includes comes to. That two walks take the same turns is not
enough, for each is given as many turns as its own repository could need. What is left to
do, on the stack and behind what is not seen yet, is one less after every turn (`CToCome`,
`CVisitTakes`), so either walk has emptied its stack by its end (`CWalkEnds`) and the longer
one does nothing more (`CWalksAlike`). A prototype is linked to a definition in a file that
*includes* the header, so S must be closed in that direction too (`CIncludesStay`,
`CPrototypeAlike`); this is the clause about headers in `NamedBy`.

Only model-checked:

* Liveness (`HookReturns`, `CallsReturn`, `CatchesUp`): `ENABLED` and fairness are beyond the
  provers.
* `CrateNamesAgree`, of `Adapters`. It finds a file's crate by the nearest manifest
  (`InLibrary`), as the layout the run checks allows; the code takes the nearest root. The two
  are the same there and not for every set of manifests: a binary with a stated path inside
  the library's directory, or a second root nested in it, has a crate of its own. For all
  constants the property has to be stated over `Roots` first.

## 6. Where code and documents disagree

Shown by a run:

* *Update leaves ghosts* (`incremental_edges_declared`). `remove_file` (`core/graph.rs:211`)
  removes a file's nodes by positions that were read before. petgraph moves the last node
  into the first gap, so a later position may lead past the end, and the node that was
  moved stays, with its edges. (Another file's node is never hit: `NeighboursSurvive`.)
  `docs/architecture.md:167` promises all nodes and edges of the file are removed.
* *A stale snapshot is judged* (`commit_gate_present`). `pre-commit:61` drops `analyze`'s
  status. If it failed, timed out or found no source file, `check` compares the snapshot
  of an earlier attempt, and silence follows. `pre-commit:58` says the tree being committed is.
* *Refreshes out of order* (`mcp_server_concurrent`). Two refreshes at once may save and
  install in the other order than they scanned, against `docs/mcp-tools.md:54` and `:70`.
* *The watcher misses edits* (`watch_in_sync`). It starts listening after the initial scan
  and save, and drains pending files before an analysis that may fail (`watch.rs:78`,
  `:106`). And it tells what matters by the extension of a path (`:161-182`), so that a
  change of a `tsconfig.json`, `Cargo.toml`, `go.mod` or `.gitignore`, which changes the
  graph, or a directory that is moved starts nothing. `README.md:118`: "keep graph in sync
  on file changes".
* *A trusted selection leaves tests out* (`test_selection_complete`). `add_test_edges`
  (`lang/dispatch.rs:327`) derives no edge between test files, and `select`
  (`core/test_impact.rs:139`) takes for tests only what has such an edge. A test that
  reaches the change through a helper in another test file is not selected, and as the
  helper is, no gap is reported: `is_trustworthy` (`:104-106`) is "False whenever anything
  could be missing". The same happens to a test further away than the depth.

Met while modelling, and modelled as the code has it:

* After a replacement a ghost (above) is filed in `node_index` by `rebuild_node_index`;
  `add_symbol` (`core/graph.rs:66`) then takes the symbol as known and files it under neither
  name nor file, against the name of `test_incremental_replace_file_preserves_indexes`
  (`tests/blast_radius.rs:163`). No command of this version calls the incremental update.
* A test that was changed and reaches nothing else that was changed is reported as
  uncovered (`core/test_impact.rs:200`), where the comment says a changed test needs no cover.
* A symbol may learn from one before it in the same level (`core/test_impact.rs:255`), so a
  selection reaches further than its depth when ids are in that order; the comment at
  `:116-118` says depth bounds how far.
* A layout change deletes what is *listed* (`rocksdb.rs:126`), so a snapshot whose index
  entry was never written stays, in the old layout; the comment at `:109` says revisions
  are dropped. Retention passes it over as well (`:269`, comment at `:263`).
* Alias chains of placeholder targets are ingested (`resolver.rs:39`) and saved;
  `symbol_id.rs:17` says such ids are never persisted.
* A replacement does not rebuild alias chains (`incremental.rs:24`), and the edges that other
  files have to the file's symbols go with the nodes (`graph.rs:212`) and do not come back:
  `docs/architecture.md:170`, `:173` say otherwise. `NeighboursKept` leaves those edges out.
* `pre-commit` judges the working tree, not what is staged (`pre-commit:61`, header
  `:5-6`); `post-commit:44` records the working tree, unstaged edits included, as the
  commit (`:42-43`). `BaselineIsCommit` therefore assumes that everything is staged.
* Rules about one graph are judged on the *base* of the comparison (`check.rs:102`), so a
  commit that breaks one passes and the next is blocked; the comment at `:23` describes the head.
* An audit that times out says nothing (`pre-commit:71`); `hooks/README.md:94-95` promises a
  word. `SilenceMeansChecked` speaks of `check` alone.
* A refresh of a subdirectory replaces the server's whole graph (`refresh_graph.rs:62`)
  and writes another store than the repository's (`docs/mcp-tools.md:54`).
* The server's lock is the standard library's (`server.rs:8`, `:24`), under which readers who
  keep coming may starve the writer: `refresh_graph_index` then has saved its graph and never
  installs it, nor returns. `CallsReturn` has this as its one exception.
* `find_symbol_id` answers "ambiguous" with a single file as candidate where that file declares
  a name under two kinds (`index.rs:27-43`), and the file, by which it asks to be told, does
  not tell them apart: the first of them is found.
* `docs/agent-guide.md:58` recommends refreshes beside `graphyn watch`; the watcher's LOCK
  (`watch.rs:60`) refuses them all. `CallsReturn` of `session` shows that at least none hangs.
* `docs/architecture.md:281` describes an LRU cache in front of queries; no command uses it.

Of comparisons, where `Delta`, `RuleEval` and `Audit` do as the code does:

* Contract erosion looks at the edges of the old graph and asks only whether the referrer
  still exists (`audit/detectors.rs:251-281`), so a caller that was corrected in the same
  change is accused; `README.md:313` speaks of a surviving caller that "still referred to it".
* A finding's id is a hash of its detector and its *sorted* subjects (`audit/mod.rs:74-93`), so
  that A was removed while B refers to it and the reverse, in two changes, share an id, and
  an entry written for the one hides the other, against "this is the finding you already
  looked at" (`:20-24`). Within an audit no two findings do (`AnEntryHidesOneFinding`), so the
  `dedup_by` of `:270` drops none.
* `rule_eval.rs:16-22` has a rule satisfied only when every edge in its scope was resolved.
  For `max-fan-in` the code (`:299-355`) asks this of the edges recorded as leading to a
  symbol and not of the unresolved ones recorded elsewhere, each of which may be one more
  referrer. `VerdictIsCertain` claims for "satisfied" what the code makes true, and for
  "broken" all of it.
* A rename is found by replacing text in the signature (`delta.rs:150`, `:170`), also inside
  other words, so a symbol whose name is part of another word there is not seen as renamed.
  `RefactoringLosesNothing` leaves such names out (`Occurs`, empty in the run). And the text
  cannot tell the new name from a word that was there before: `fn f(g)` renamed to `g` reads
  `fn g(g)`, as `fn f(f)` does. Candidates then no longer fall into blocks, a
  greedy choice may leave a removal and an addition over, and `IsRefactoring` leaves out a
  change in which some symbol reads so. The proof of `NothingIsLost` needed that; three edits
  do not reach it.
* A rename is seen if the signature is otherwise as it was, "the honest answer"
  (`delta.rs:159-161`). A rename elsewhere is such a difference, too: of a class and a
  function that mentions it, both renamed, the function's old signature with its new name
  still has the class's old one (`:162-170`), so it is reported as removed and another as
  added. `KeepsItsLikeness` leaves this out.
* A broken edge is not reported when anything declared in the caller's file was edited, as
  `findings.rs:266-268` says itself. `StaleReferenceIsReported` has this as a condition.
* Once an edge leads to a package, the package has a symbol whose file is empty, and a
  rule's glob is matched against that (`rule_eval.rs:138-147`); the comment above it says that
  it "matches on its package name".
* A field that went with its class is held against the class above it
  (`rule_eval.rs:404-470`; `tests/rule_evaluation.rs:390` expects so).
* A test that was renamed is reported as tampered with: its old edges are gone.

Of adapters:

* `export *` is not followed by a re-export chain, which starts at a name, against
  `docs/architecture.md:219`; a chain goes on under the name it began with, so one
  that an alias renames in the middle ends there: the name that is kept of a re-export is
  the one imported (`typescript/extractor.rs:342-345`, `import_resolver.rs:513`). And it goes
  on only from a relative specifier (`import_resolver.rs:549`), though an import by a path of
  `tsconfig.json` is resolved. `PassesOn` in `ReexportsAreTransparent` leaves both out.
* `export *` from a file that declares nothing leaves the placeholder it began as and no
  diagnostic when it is had by a path of `tsconfig.json` (`import_resolver.rs:299-309`,
  `:363-377`), as it does by a relative one. `ExportsNothing` in `NothingIsLostSilently` is this.
  Of a file that is mapped and not analysed (`:353-361`), and of a type that is nowhere
  (`:196-205`), the diagnostic has no line; which statement it is about is told by its text.
  Those of a chain that is cyclic or too long (`:449`, `:471`) are left out: they come on
  top of the one of the import.
* Python and Rust: a file that imports a name from itself passes nothing on.
* TypeScript: what is imported from a package without an alias is known in its file by the
  name of the *package* (`typescript/import_resolver.rs:142-146`), so the name imported is
  not bound and a use of it leads to a symbol of that name in the file, a method perhaps, or
  to an earlier import. The comment at `:165-170` has such a call dropped, as one to elsewhere.
  `IsMisnamed` in `UsesFollowImports` is this. Found by the proof.
* Python invents a package for `from . import x` where there is no `__init__.py`
  (`python/import_resolver.rs:123-148`), which the head of the file says it does not (`:5-12`).
* Python and Rust bind a bare call to a method of that name in the file
  (`rust/import_resolver.rs:62-67`).
* Rust: a module whose name begins with `super` is read as `super` (`module_tree.rs:171`); an
  `impl` for an enum is recorded as a struct's and dropped from the graph; `Bar::new()`
  with `use foo::Foo as Bar` is dropped, for the method is looked up as `Bar::new`
  (`import_resolver.rs:285`).
* Go: an interface that embeds another asks for its own methods alone
  (`interface_detector.rs:78`), so more types implement it than do; `_` and `.` imports bind a
  name (`extractor.rs:103-104`).
* C: a type alias in a header is not visible where the header is included
  (`include_resolver.rs:11-14`).
* What a type's members are charged to may vanish without a word of its own. In TypeScript a
  name that is imported under an alias from where nothing is found is known, as the
  unresolved import, so an access through it is neither kept nor reported
  (`typescript/import_resolver.rs:182`); the import itself is reported. In Go the types of a
  package from elsewhere are not in the graph, and nothing is said. `IsElsewhere` in
  `MembersAreOfTheirType` is these two.

## 7. What is not modelled

* *Taking text apart.* The walk of a source tree (ignore patterns, sizes, links), the
  grammars, and what an adapter does to recognise a statement. `Adapters` starts from the
  statements. A `Cargo.toml` and a `go.mod` are given as what was read from them, a
  `tsconfig.json` as its three fields.
* *Dispatch.* An adapter sees only its own files, so a repository of several languages is one
  of each. That they run in parallel, are merged in a fixed order and that one error ends all
  is left out: their results share nothing. `add_test_edges` and the resolution are modelled.
* *What no property tells apart.* The snapshot's byte codec, times, contexts and notes;
  signatures in the graph itself (`Delta` has them); the ranking of contexts and
  `symbol_usages`, which count lines.
* *The audit's severities and confidences*, and the exit status `audit` takes from them
  (`CommitGate` has what that status does to a commit).
* *Rendering*: markdown, JSON, text, and the read-only commands around what they ask.
* *The query cache*, which no command uses, and the resolver's own table.
* *The Claude hooks*: scripts that run the modelled commands under the modelled timeout.
  *The CI action*: a sequential script on a fresh checkout.
* `CommitGate`: a missing binary, library or rules file ends a hook at once.

`PROJECT.json` (`components`) lists every part with its status.

## 8. Plan

Done: the store, the graph and its updates, the gate, the server, the watcher, the session of
both; queries, test selection, comparisons, rules and audits; the five adapters; the
theorems of section 5. Left, in this order:

1. `Adapters`: `CrateNamesAgree` with its premise over `Roots` (section 5), and its proof.
2. The stop hook as a second client of `CommitGate`'s store, and the cache, if a command
   comes to use it.
