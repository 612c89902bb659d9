------------------------------- MODULE Session -------------------------------
(***************************************************************************)
(* An agent's working session: `graphyn watch` and the MCP server on one    *)
(* repository, as docs/agent-guide.md recommends. They meet in the tree     *)
(* they scan and in the LOCK of the store they both write.                  *)
(***************************************************************************)
EXTENDS Watch, McpServer

session == <<shared, own, server>>

SessionInit == Init /\ ServerInit

(* An edit is one to both; the watcher is told of it.                       *)
EditTree == Edit /\ UNCHANGED server

WatchTurn ==
  /\ Rustle \/ Start \/ Settle \/ Stop \/ Loop
  /\ UNCHANGED server

ServerTurn == Serve /\ UNCHANGED own

SessionNext == EditTree \/ WatchTurn \/ ServerTurn

(* Each process has the fairness it has by itself.                          *)
SessionSpec ==
  /\ SessionInit /\ [][SessionNext]_session
  /\ WF_session(Loop /\ UNCHANGED server)
  /\ WF_session(Settle /\ UNCHANGED server)
  /\ \A c \in Calls : WF_session(Proceed(c) /\ UNCHANGED own)

-----------------------------------------------------------------------------
(* While the watcher runs the store is its own, and what is stored only     *)
(* gets newer: no refresh of the server puts an older graph in its place.   *)
StoreAdvances ==
  [][Watching /\ Watching' => stored'[Root] >= stored[Root]]_session
=============================================================================
