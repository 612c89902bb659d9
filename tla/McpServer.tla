------------------------------ MODULE McpServer ------------------------------
(***************************************************************************)
(* `graphyn serve` (graphyn-mcp server.rs and the tools that touch the      *)
(* store): one graph in memory behind a readers-writer lock, loaded once,   *)
(* replaced by refresh_graph_index. The runtime runs the calls of a client  *)
(* side by side.                                                            *)
(*                                                                          *)
(* A graph is the last edit before its scan began, as in SharedStore, with  *)
(* the directory that was scanned. The queries that only read the graph in  *)
(* memory take no step here.                                                *)
(***************************************************************************)
EXTENDS SharedStore

VARIABLES
  up,      \* whether the server runs
  memory,  \* its graph
  call,    \* where each call is
  root,    \* the directory of each call
  built,   \* the graph each refresh has built
  synced,  \* the greatest edit a successful refresh has scanned
  failed,  \* whether the last refresh to end was turned away by the store
  alone    \* whether every refresh of this process was for Root and came when
           \* no other was under way (history)

server == <<up, memory, call, root, built, synced, failed, alone>>
serving == <<shared, server>>

Steps == {"idle", "built", "saved", "closed", "wanted", "reading"}
Idle == [c \in Calls |-> "idle"]

ServerInit ==
  /\ SharedInit
  /\ up = FALSE
  /\ memory = [root |-> Root, upTo |-> 0]
  /\ call = Idle
  /\ root = [c \in Calls |-> Root]
  /\ built = [c \in Calls |-> 0]
  /\ synced = 0
  /\ failed = FALSE
  /\ alone = TRUE

-----------------------------------------------------------------------------
ServerEdit ==
  /\ tree < MaxEdits
  /\ tree' = tree + 1
  /\ UNCHANGED <<stored, holder, server>>

(* GraphynMcpServer::new: what the store has, an empty graph if there is no *)
(* store, and no server if it is held.                                      *)
ServerStart ==
  /\ ~up
  /\ holder[Root] = Nobody
  /\ up' = TRUE
  /\ memory' = [root |-> Root, upTo |-> stored[Root]]
  /\ UNCHANGED <<shared, call, root, built, synced, failed, alone>>

(* The client disconnects; the process ends and its calls with it.          *)
ServerStop ==
  /\ up
  /\ up' = FALSE
  /\ memory' = [root |-> Root, upTo |-> 0]
  /\ call' = Idle
  /\ root' = [c \in Calls |-> Root]
  /\ built' = [c \in Calls |-> 0]
  /\ synced' = 0
  /\ failed' = FALSE
  /\ alone' = TRUE
  /\ holder' = [r \in Roots |-> IF holder[r] \in Calls THEN Nobody ELSE holder[r]]
  /\ UNCHANGED <<tree, stored>>

(* What a call knew is gone when it returns.                                *)
Return(c) ==
  /\ call' = [call EXCEPT ![c] = "idle"]
  /\ root' = [root EXCEPT ![c] = Root]
  /\ built' = [built EXCEPT ![c] = 0]

-----------------------------------------------------------------------------
(* refresh_graph_index: tools/refresh_graph.rs, execute                     *)

Refreshing(c) == call[c] \in {"built", "saved", "closed"}

(* Scan, analysis and build_graph, under no lock at all.                    *)
Refresh(c, r) ==
  /\ up
  /\ call[c] = "idle"
  /\ call' = [call EXCEPT ![c] = "built"]
  /\ root' = [root EXCEPT ![c] = r]
  /\ built' = [built EXCEPT ![c] = tree]
  /\ alone' = (alone /\ r = Root /\ \A d \in Calls : ~Refreshing(d))
  /\ UNCHANGED <<shared, up, memory, synced, failed>>

(* A plausible slip: the graph is not written back.                         *)
SaveNothing(c) ==
  /\ call[c] = "built"
  /\ holder[root[c]] = Nobody
  /\ holder' = [holder EXCEPT ![root[c]] = c]
  /\ call' = [call EXCEPT ![c] = "saved"]
  /\ UNCHANGED <<tree, stored, up, memory, root, built, synced, failed, alone>>

(* A plausible slip: the store is written whoever has it open.              *)
SaveRegardless(c) ==
  /\ call[c] = "built"
  /\ stored' = [stored EXCEPT ![root[c]] = built[c]]
  /\ call' = [call EXCEPT ![c] = "saved"]
  /\ UNCHANGED <<tree, holder, up, memory, root, built, synced, failed, alone>>

(* The store of the directory is opened and written.                        *)
Save(c) ==
  /\ call[c] = "built"
  /\ IF holder[root[c]] = Nobody
       THEN /\ holder' = [holder EXCEPT ![root[c]] = c]
            /\ stored' = [stored EXCEPT ![root[c]] = built[c]]
            /\ call' = [call EXCEPT ![c] = "saved"]
            /\ UNCHANGED <<root, built, failed>>
       ELSE /\ Return(c)
            /\ failed' = TRUE
            /\ UNCHANGED <<stored, holder>>
  /\ UNCHANGED <<tree, up, memory, synced, alone>>

(* The end of execute drops the store ...                                   *)
Close(c) ==
  /\ call[c] = "saved"
  /\ holder' = [holder EXCEPT ![root[c]] = Nobody]
  /\ call' = [call EXCEPT ![c] = "closed"]
  /\ UNCHANGED <<tree, stored, up, memory, root, built, synced, failed, alone>>

(* A plausible slip: the new graph is dropped with the call.                *)
InstallNothing(c) ==
  /\ call[c] = "closed"
  /\ \A d \in Calls : call[d] \notin {"wanted", "reading"}
  /\ synced' = Greater(synced, built[c])
  /\ failed' = FALSE
  /\ Return(c)
  /\ UNCHANGED <<shared, up, memory, alone>>

(* A plausible slip: a refresh holds the read lock from its start, and      *)
(* trades it for the write lock.                                            *)
InstallUpgrading(c) ==
  /\ call[c] = "closed"
  /\ \A d \in Calls \ {c} : call[d] = "idle"
  /\ memory' = [root |-> root[c], upTo |-> built[c]]
  /\ synced' = Greater(synced, built[c])
  /\ failed' = FALSE
  /\ Return(c)
  /\ UNCHANGED <<shared, up, alone>>

(* ... before the write lock is taken: it waits for the calls that hold the *)
(* read lock.                                                               *)
Install(c) ==
  /\ call[c] = "closed"
  /\ \A d \in Calls : call[d] \notin {"wanted", "reading"}
  /\ memory' = [root |-> root[c], upTo |-> built[c]]
  /\ synced' = Greater(synced, built[c])
  /\ failed' = FALSE
  /\ Return(c)
  /\ UNCHANGED <<shared, up, alone>>

-----------------------------------------------------------------------------
(* check_rules with base and head: the read lock is held while the store is *)
(* open. graph_diff opens it in the same way without the lock.              *)

Check(c) ==
  /\ up
  /\ call[c] = "idle"
  /\ call' = [call EXCEPT ![c] = "wanted"]
  /\ UNCHANGED <<shared, up, memory, root, built, synced, failed, alone>>

(* A plausible slip: the store is awaited with the read lock held ...       *)
AwaitRevisions(c) ==
  /\ call[c] = "wanted"
  /\ holder[Root] = Nobody
  /\ holder' = [holder EXCEPT ![Root] = c]
  /\ call' = [call EXCEPT ![c] = "reading"]
  /\ UNCHANGED <<tree, stored, up, memory, root, built, synced, failed, alone>>

OpenRevisions(c) ==
  /\ call[c] = "wanted"
  /\ IF holder[Root] = Nobody
       THEN /\ holder' = [holder EXCEPT ![Root] = c]
            /\ call' = [call EXCEPT ![c] = "reading"]
            /\ UNCHANGED <<root, built>>
       ELSE /\ Return(c)
            /\ UNCHANGED holder
  /\ UNCHANGED <<tree, stored, up, memory, synced, failed, alone>>

(* A plausible slip: the store stays open behind the answer.                *)
AnswerLeaking(c) ==
  /\ call[c] = "reading"
  /\ Return(c)
  /\ UNCHANGED <<shared, up, memory, synced, failed, alone>>

Answer(c) ==
  /\ call[c] = "reading"
  /\ holder' = [holder EXCEPT ![Root] = Nobody]
  /\ Return(c)
  /\ UNCHANGED <<tree, stored, up, memory, synced, failed, alone>>

Proceed(c) == Save(c) \/ Close(c) \/ Install(c) \/ OpenRevisions(c) \/ Answer(c)

Serve ==
  \/ ServerStart
  \/ ServerStop
  \/ \E c \in Calls :
       \/ \E r \in Roots : Refresh(c, r)
       \/ Check(c)
       \/ Proceed(c)

ServerNext == ServerEdit \/ Serve

(* A call that can go on and stays able to does. The lock is the standard   *)
(* library's, which promises a waiting writer nothing: a refresh may find   *)
(* it free again and again and not get it. Clients, editors and starts are  *)
(* free.                                                                    *)
CallsProceed == \A c \in Calls : WF_serving(Proceed(c))

ServerSpec == ServerInit /\ [][ServerNext]_serving /\ CallsProceed

-----------------------------------------------------------------------------
(* Type of the state.                                                       *)
ServerTypeOK ==
  /\ tree \in 1 .. MaxEdits + 1
  /\ stored \in [Roots -> 0 .. MaxEdits + 1]
  /\ holder \in [Roots -> Calls \union {Nobody}]
  /\ up \in BOOLEAN
  /\ memory \in [root : Roots, upTo : 0 .. MaxEdits + 1]
  /\ call \in [Calls -> Steps]
  /\ root \in [Calls -> Roots]
  /\ built \in [Calls -> 0 .. MaxEdits + 1]
  /\ synced \in 0 .. MaxEdits + 1
  /\ failed \in BOOLEAN
  /\ alone \in BOOLEAN

(* A store is open exactly while the call that opened it uses it, so that   *)
(* the graph a refresh saved is its own until it closes the store.          *)
CallsHoldStores ==
  /\ \A r \in Roots : holder[r] \in Calls =>
       \/ call[holder[r]] = "saved" /\ root[holder[r]] = r /\ stored[r] = built[holder[r]]
       \/ call[holder[r]] = "reading" /\ r = Root
  /\ \A c \in Calls :
       /\ call[c] = "saved" => holder[root[c]] = c
       /\ call[c] = "reading" => holder[Root] = c

(* docs/mcp-tools.md: a refresh "updates both on-disk snapshot and          *)
(* in-memory MCP server graph" and is used after edits "to keep follow-up   *)
(* queries accurate": once one has succeeded, neither goes back behind what *)
(* it has seen.                                                             *)
RefreshIsSyncPoint == up => memory.upTo >= synced /\ stored[Root] >= synced

(* It is one as long as refreshes come one at a time, for the server's own  *)
(* directory, whatever other calls run beside them.                         *)
SerialRefreshIsSyncPoint == alone => RefreshIsSyncPoint

(* And with no call running the graph in memory is then the one a restart   *)
(* would load.                                                              *)
MemoryMatchesStore ==
  up /\ alone /\ call = Idle => memory = [root |-> Root, upTo |-> stored[Root]]

(* Every call returns, though all of them compete for the store and some    *)
(* open it with the lock held: none waits for another that waits. The one   *)
(* exception is a refresh that new readers keep from the write lock for     *)
(* ever, and by then it has saved its graph and left the store.             *)
CallsReturn ==
  \A c \in Calls :
    \/ []<>(call[c] = "idle")
    \/ /\ <>[](call[c] = "closed")
       /\ []<>(\E d \in Calls : call[d] \in {"wanted", "reading"})
=============================================================================
