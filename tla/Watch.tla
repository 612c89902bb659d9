-------------------------------- MODULE Watch --------------------------------
(***************************************************************************)
(* `graphyn watch` (cli commands/watch.rs): analyse, store, and then do it  *)
(* again when source files changed and have been quiet for a while. The     *)
(* repository is that of Root, and the calls of a server are the others     *)
(* that open its store (SharedStore).                                       *)
(***************************************************************************)
EXTENDS SharedStore, Sequences

CONSTANTS
  Watcher,    \* this process, as the holder of a store's LOCK
  MaxNoise    \* model bound: events about files that are not watched

ASSUME ProcessAssumption == Watcher \notin Calls \union {Nobody}
ASSUME NoiseAssumption == MaxNoise \in Nat

VARIABLES
  step,     \* "off", "scanned", "saved", "loop", "handle", "save"
  events,   \* the channel from the file watcher
  noise,    \* irrelevant events so far
  pending,  \* whether a changed file waits to be handled
  settled,  \* whether DEBOUNCE has passed since the last event about one
  seen,     \* the graph just built
  missed    \* the last edit nothing told of, or whose handling failed (history)

own == <<step, events, noise, pending, settled, seen, missed>>
vars == <<shared, own>>

Watching == step \in {"loop", "handle", "save"}

Init ==
  /\ SharedInit
  /\ step = "off"
  /\ events = << >>
  /\ noise = 0
  /\ pending = FALSE
  /\ settled = FALSE
  /\ seen = 0
  /\ missed = 0

-----------------------------------------------------------------------------
(* Something changes that an analysis reads. Once the watcher is started an *)
(* event is sent, and is_watchable lets it through if it names a source     *)
(* file that is scanned. It does not if a directory was moved, if the file  *)
(* is a tsconfig.json, Cargo.toml, go.mod or .gitignore, or if a .gitignore *)
(* changed since the command was started.                                   *)
EditSource(watchable) ==
  /\ tree < MaxEdits
  /\ tree' = tree + 1
  /\ events' = IF ~Watching THEN events
               ELSE Append(events, IF watchable THEN "source" ELSE "other")
  /\ missed' = IF step \in {"scanned", "saved"} \/ (Watching /\ ~watchable) THEN tree' ELSE missed
  /\ UNCHANGED <<stored, holder, step, noise, pending, settled, seen>>

Edit == \E watchable \in BOOLEAN : EditSource(watchable)

(* Other files change: build output, .git, the store itself.                *)
Rustle ==
  /\ Watching
  /\ noise < MaxNoise
  /\ noise' = noise + 1
  /\ events' = Append(events, "other")
  /\ UNCHANGED <<shared, step, pending, settled, seen, missed>>

(* The initial scan and analysis. A failure ends the command.               *)
Start ==
  /\ step = "off"
  /\ step' = "scanned"
  /\ seen' = tree
  /\ UNCHANGED <<shared, events, noise, pending, settled, missed>>

(* The store is opened and stays open as long as the process lives.         *)
FirstSave ==
  /\ step = "scanned"
  /\ IF holder[Root] = Nobody
       THEN /\ holder' = [holder EXCEPT ![Root] = Watcher]
            /\ stored' = [stored EXCEPT ![Root] = seen]
            /\ step' = "saved" /\ UNCHANGED <<seen, missed>>
       ELSE step' = "off" /\ seen' = 0 /\ missed' = 0 /\ UNCHANGED <<stored, holder>>
  /\ UNCHANGED <<tree, events, noise, pending, settled>>

StartWatcher ==
  /\ step = "saved"
  /\ step' = "loop"
  /\ UNCHANGED <<shared, events, noise, pending, settled, seen, missed>>

(* recv_timeout finds an event.                                             *)
Receive ==
  /\ step = "loop"
  /\ events # << >>
  /\ events' = Tail(events)
  /\ IF Head(events) = "source"
       THEN pending' = TRUE /\ settled' = FALSE
       ELSE UNCHANGED <<pending, settled>>
  /\ UNCHANGED <<shared, step, noise, seen, missed>>

(* last_event.elapsed() reaches DEBOUNCE.                                   *)
Settle ==
  /\ step = "loop"
  /\ pending
  /\ ~settled
  /\ settled' = TRUE
  /\ UNCHANGED <<shared, step, events, noise, pending, seen, missed>>

(* recv_timeout finds none for 100 ms, the only branch that looks at the    *)
(* debounce window; pending is drained before anything is done about it.    *)
Timeout ==
  /\ step = "loop"
  /\ events = << >>
  /\ pending /\ settled
  /\ pending' = FALSE
  /\ step' = "handle"
  /\ UNCHANGED <<shared, events, noise, settled, seen, missed>>

(* handle_change: the whole tree is scanned and analysed again ...          *)
HandleScan ==
  /\ step = "handle"
  /\ \/ seen' = tree /\ step' = "save" /\ UNCHANGED missed
     \/ step' = "loop" /\ missed' = tree /\ UNCHANGED seen
  /\ UNCHANGED <<shared, events, noise, pending, settled>>

(* A plausible slip: the initial graph is saved once more.                  *)
HandleSaveStale ==
  /\ step = "save"
  /\ step' = "loop"
  /\ UNCHANGED <<shared, events, noise, pending, settled, seen, missed>>

(* A plausible slip: the events that came meanwhile are taken as handled.   *)
HandleSaveClearing ==
  /\ step = "save"
  /\ stored' = [stored EXCEPT ![Root] = seen]
  /\ events' = << >>
  /\ step' = "loop"
  /\ UNCHANGED <<tree, holder, noise, pending, settled, seen, missed>>

(* ... and saved. A failure is printed and forgotten.                       *)
HandleSave ==
  /\ step = "save"
  /\ \/ stored' = [stored EXCEPT ![Root] = seen] /\ UNCHANGED missed
     \/ missed' = Greater(missed, seen) /\ UNCHANGED stored
  /\ step' = "loop"
  /\ UNCHANGED <<tree, holder, events, noise, pending, settled, seen>>

(* Ctrl+C, at any time.                                                     *)
Stop ==
  /\ step # "off"
  /\ step' = "off"
  /\ holder' = [holder EXCEPT ![Root] = IF @ = Watcher THEN Nobody ELSE @]
  /\ events' = << >>
  /\ pending' = FALSE
  /\ settled' = FALSE
  /\ seen' = 0
  /\ missed' = 0
  /\ UNCHANGED <<tree, stored, noise>>

Loop == FirstSave \/ StartWatcher \/ Receive \/ Timeout \/ HandleScan \/ HandleSave

Next == Edit \/ Rustle \/ Start \/ Settle \/ Stop \/ Loop

(* The loop never waits for anything but its channel, and time passes. An   *)
(* edit, other events, a start and a stop may come or not.                  *)
Fairness == WF_vars(Loop) /\ WF_vars(Settle)

Spec == Init /\ [][Next]_vars /\ Fairness

-----------------------------------------------------------------------------
(* Type of the state.                                                       *)
TypeOK ==
  /\ tree \in 1 .. MaxEdits + 1
  /\ stored \in [Roots -> 0 .. MaxEdits + 1]
  /\ holder \in [Roots -> Calls \union {Watcher, Nobody}]
  /\ step \in {"off", "scanned", "saved", "loop", "handle", "save"}
  /\ events \in Seq({"source", "other"})
  /\ noise \in 0 .. MaxNoise
  /\ pending \in BOOLEAN /\ settled \in BOOLEAN
  /\ seen \in 0 .. MaxEdits + 1
  /\ missed \in 0 .. MaxEdits + 1

(* The store is the watcher's own from the first save until it stops: no    *)
(* other process can write in between.                                      *)
StoreIsHeld == step \in {"saved", "loop", "handle", "save"} => holder[Root] = Watcher

(* A last edit the stored graph may lack is never forgotten, unless it came *)
(* before the files were watched, is of a kind is_watchable lets not        *)
(* through, or its handling failed: an event about it is in the channel, or *)
(* a change is pending, or is being handled by a scan that began after the  *)
(* edit or has still to begin. So the edits missed before it are made good  *)
(* with the first change that is handled.                                   *)
NoEditForgotten ==
  Watching /\ stored[Root] # tree /\ missed # tree =>
    \/ \E i \in DOMAIN events : events[i] = "source"
    \/ pending
    \/ step = "handle"
    \/ step = "save" /\ seen = tree

(* While it runs the stored graph catches up with the last edit, whatever   *)
(* was missed before, unless that one is missed itself.                     *)
CatchesUp ==
  Watching /\ stored[Root] # tree ~> stored[Root] = tree \/ ~Watching \/ missed = tree

(* README.md: `graphyn watch` is to "keep graph in sync on file changes":   *)
(* while it runs the stored graph catches up with the last edit, always.    *)
KeepsInSync == Watching /\ stored[Root] # tree ~> stored[Root] = tree \/ ~Watching
=============================================================================
