------------------------------ MODULE GraphLife ------------------------------
(***************************************************************************)
(* The two ways a graph comes to be what its files declare: it is built,    *)
(* saved and read back (GraphBuild), or it follows its files one by one     *)
(* (IncrementalUpdate). No command mixes them; a graph is the one or the    *)
(* other from the start, and the other's state is idle.                     *)
(***************************************************************************)
EXTENDS GraphBuild, IncrementalUpdate

life == <<vars, followed>>

NotFollowed ==
  /\ source = [f \in Files |-> [symbols |-> << >>, relationships |-> << >>]]
  /\ kept = EmptyGraph
  /\ edits = MaxEdits

NotBuilt == repo = << >> /\ phase = "none" /\ pending = {} /\ graph = EmptyGraph

LifeInit == (Init /\ NotFollowed) \/ (NotBuilt /\ FollowInit)

BuildIt == Next /\ UNCHANGED followed
FollowIt == FollowNext /\ UNCHANGED vars

LifeSpec == LifeInit /\ [][BuildIt \/ FollowIt]_life
=============================================================================
