---------------------------- MODULE SessionProofs ----------------------------
(***************************************************************************)
(* No edit is forgotten by the watch loop, whatever the bounds and whatever *)
(* fails, but for a last one it is known to have missed. For any number of  *)
(* calls and directories a server's store is open exactly while one call    *)
(* uses it; and as long as refreshes come one at a time a refresh is a sync *)
(* point, and the graph in memory the one that is stored. With a server beside it *)
(* the watcher keeps what it promises by itself: the server's steps cannot  *)
(* reach the store while the watcher holds it.                              *)
(***************************************************************************)
EXTENDS Session, TLAPS

-----------------------------------------------------------------------------
(* The watcher alone (Watch).                                               *)

(* What NoEditForgotten rests on: before the loop the graph that is about   *)
(* to be stored, or has been, is the tree's unless the last edit was        *)
(* missed; and in the loop, a last edit that the graph about to be stored   *)
(* lacks is still to be handled, or missed, whatever was missed before it.  *)
Faithful ==
  /\ seen <= tree /\ missed <= tree
  /\ step = "scanned" /\ missed # tree => seen = tree
  /\ step = "saved" /\ missed # tree => stored[Root] = tree
  /\ step = "save" /\ seen # tree /\ missed # tree =>
       pending \/ \E i \in DOMAIN events : events[i] = "source"

Inv == TypeOK /\ Faithful /\ StoreIsHeld /\ NoEditForgotten

(* The model starts with the invariant.                                     *)
LEMMA InitInv == Init => Inv
<1>1. ASSUME Init PROVE TypeOK
  <2>1. stored \in [Roots -> 0 .. MaxEdits + 1]
    <3>1. {0, 1} \subseteq 0 .. MaxEdits + 1
      BY EditsAssumption
    <3>2. QED
      BY <1>1, <3>1 DEF Init, SharedInit
  <2>2. tree \in 1 .. MaxEdits + 1 /\ seen \in 0 .. MaxEdits + 1 /\ noise \in 0 .. MaxNoise
    BY <1>1, EditsAssumption, NoiseAssumption DEF Init, SharedInit
  <2>3. holder \in [Roots -> Calls \union {Watcher, Nobody}] /\ events \in Seq({"source", "other"})
    BY <1>1 DEF Init, SharedInit
  <2>4. pending \in BOOLEAN /\ settled \in BOOLEAN
    BY <1>1, Zenon DEF Init
  <2>5. missed \in 0 .. MaxEdits + 1
    BY <1>1, EditsAssumption DEF Init
  <2>6. QED
    BY <1>1, <2>1, <2>2, <2>3, <2>4, <2>5 DEF Init, TypeOK
<1>2. Init => Faithful /\ StoreIsHeld /\ NoEditForgotten
  BY DEF Init, SharedInit, Faithful, StoreIsHeld, NoEditForgotten, Watching
<1>3. QED
  BY <1>1, <1>2 DEF Inv

(* What Receive needs of sequences: an event stays in the channel or is the *)
(* one received.                                                            *)
LEMMA HeadOrTail ==
  ASSUME NEW q \in Seq({"source", "other"}), q # << >>
  PROVE  /\ Tail(q) \in Seq({"source", "other"})
         /\ (\E i \in DOMAIN q : q[i] = "source") =>
              Head(q) = "source" \/ \E i \in DOMAIN Tail(q) : Tail(q)[i] = "source"
<1>1. Tail(q) \in Seq({"source", "other"})
  OBVIOUS
<1>2. ASSUME NEW i \in DOMAIN q, q[i] = "source", Head(q) # "source"
      PROVE  \E j \in DOMAIN Tail(q) : Tail(q)[j] = "source"
  <2>1. i # 1 /\ i \in 1 .. Len(q)
    BY <1>2
  <2>2. i - 1 \in DOMAIN Tail(q) /\ Tail(q)[i - 1] = q[i]
    BY <2>1
  <2>3. QED
    BY <2>2, <1>2
<1>3. QED
  BY <1>1, <1>2

(* An event appended is in the channel, and so are those that were.         *)
LEMMA Appended ==
  ASSUME NEW q \in Seq({"source", "other"}), NEW e \in {"source", "other"}
  PROVE  /\ Append(q, e) \in Seq({"source", "other"})
         /\ e = "source" \/ (\E i \in DOMAIN q : q[i] = "source") =>
              \E i \in DOMAIN Append(q, e) : Append(q, e)[i] = "source"
<1>1. Append(q, e) \in Seq({"source", "other"})
  OBVIOUS
<1>2. Len(q) + 1 \in DOMAIN Append(q, e) /\ Append(q, e)[Len(q) + 1] = e
  OBVIOUS
<1>3. \A i \in DOMAIN q : i \in DOMAIN Append(q, e) /\ Append(q, e)[i] = q[i]
  OBVIOUS
<1>4. QED
  BY <1>1, <1>2, <1>3

(* Every step keeps it.                                                     *)
LEMMA StepInv ==
  ASSUME Inv, [Next]_vars
  PROVE  Inv'
<1> USE RootAssumption, CallsAssumption, ProcessAssumption, EditsAssumption, NoiseAssumption
        DEF Inv, TypeOK, Faithful, StoreIsHeld, NoEditForgotten, Watching, shared, own
<1>1. CASE Edit
  <2> PICK watchable \in BOOLEAN : EditSource(watchable)
    BY <1>1 DEF Edit
  <2>1. /\ tree' = tree + 1 /\ tree' \in 1 .. MaxEdits + 1
        /\ stored' = stored /\ holder' = holder /\ step' = step /\ noise' = noise
        /\ pending' = pending /\ settled' = settled /\ seen' = seen
    BY DEF EditSource
  <2>2. missed' \in 0 .. MaxEdits + 1 /\ missed' <= tree' /\ seen' <= tree'
    BY <2>1 DEF EditSource
  <2>3. CASE Watching /\ watchable
    <3>1. events' = Append(events, "source")
      BY <2>3 DEF EditSource
    <3>2. events' \in Seq({"source", "other"}) /\ \E i \in DOMAIN events' : events'[i] = "source"
      BY <3>1, Appended
    <3>3. QED
      BY <2>1, <2>2, <2>3, <3>2
  <2>4. CASE Watching /\ ~watchable
    <3>1. events' = Append(events, "other") /\ missed' = tree'
      BY <2>4 DEF EditSource
    <3>2. events' \in Seq({"source", "other"})
      BY <3>1, Appended
    <3>3. QED
      BY <2>1, <2>2, <2>4, <3>1, <3>2
  <2>5. CASE ~Watching
    <3>1. events' = events /\ (step \in {"scanned", "saved"} => missed' = tree')
      BY <2>5 DEF EditSource
    <3>2. QED
      BY <2>1, <2>2, <2>5, <3>1
  <2>6. QED
    BY <2>3, <2>4, <2>5
<1>2. CASE Rustle
  BY <1>2, Appended DEF Rustle
<1>3. CASE Start
  BY <1>3 DEF Start
<1>4. CASE Settle
  BY <1>4 DEF Settle
<1>5. CASE Stop
  <2>1. holder' \in [Roots -> Calls \union {Watcher, Nobody}] /\ events' \in Seq({"source", "other"})
    BY <1>5 DEF Stop
  <2>2. pending' \in BOOLEAN /\ settled' \in BOOLEAN
    BY <1>5, Zenon DEF Stop
  <2>3. step' = "off" /\ tree' = tree /\ stored' = stored /\ noise' = noise
        /\ seen' = 0 /\ missed' = 0
    BY <1>5, Zenon DEF Stop
  <2>4. seen' \in 0 .. MaxEdits + 1 /\ missed' \in 0 .. MaxEdits + 1
    BY <2>3
  <2>5. tree' \in 1 .. MaxEdits + 1 /\ stored' \in [Roots -> 0 .. MaxEdits + 1]
        /\ noise' \in 0 .. MaxNoise
    BY <2>3
  <2>6. TypeOK'
    BY <2>1, <2>2, <2>3, <2>4, <2>5, Zenon
  <2>7. (Faithful /\ StoreIsHeld /\ NoEditForgotten)'
    BY <2>3
  <2>8. QED
    BY <2>6, <2>7
<1>6. CASE FirstSave
  <2>1. step = "scanned" /\ UNCHANGED <<tree, events, noise, pending, settled>>
    BY <1>6, Zenon DEF FirstSave
  <2>2. CASE holder[Root] = Nobody
    <3>1. holder' = [holder EXCEPT ![Root] = Watcher] /\ stored' = [stored EXCEPT ![Root] = seen]
      BY <1>6, <2>2, Zenon DEF FirstSave
    <3>2. step' = "saved" /\ UNCHANGED <<seen, missed>>
      BY <1>6, <2>2, Zenon DEF FirstSave
    <3>3. QED
      BY <2>1, <3>1, <3>2
  <2>3. CASE holder[Root] # Nobody
    <3>1. step' = "off" /\ seen' = 0 /\ missed' = 0 /\ UNCHANGED <<stored, holder>>
      BY <1>6, <2>3, Zenon DEF FirstSave
    <3>2. seen' \in 0 .. MaxEdits + 1 /\ missed' \in 0 .. MaxEdits + 1
      BY <3>1
    <3>3. TypeOK'
      BY <2>1, <3>1, <3>2, Zenon
    <3>4. (Faithful /\ StoreIsHeld /\ NoEditForgotten)'
      BY <2>1, <3>1
    <3>5. QED
      BY <3>3, <3>4
  <2>4. QED
    BY <2>2, <2>3
<1>7. CASE StartWatcher
  BY <1>7 DEF StartWatcher
<1>8. CASE Receive
  BY <1>8, HeadOrTail DEF Receive
<1>9. CASE Timeout
  BY <1>9 DEF Timeout
<1>10. CASE HandleScan
  <2>1. CASE seen' = tree /\ step' = "save" /\ UNCHANGED missed
    BY <1>10, <2>1 DEF HandleScan
  <2>2. CASE step' = "loop" /\ missed' = tree /\ UNCHANGED seen
    BY <1>10, <2>2 DEF HandleScan
  <2>3. QED
    BY <1>10, <2>1, <2>2, Zenon DEF HandleScan
<1>11. CASE HandleSave
  <2>1. step = "save" /\ step' = "loop" /\ tree' = tree /\ holder' = holder /\ noise' = noise
    BY <1>11, Zenon DEF HandleSave
  <2>2. events' = events /\ pending' = pending /\ settled' = settled /\ seen' = seen
    BY <1>11, Zenon DEF HandleSave
  <2>3. CASE stored' = [stored EXCEPT ![Root] = seen] /\ UNCHANGED missed
    <3>1. stored' \in [Roots -> 0 .. MaxEdits + 1] /\ stored'[Root] = seen
      BY <2>3
    <3>2. QED
      BY <2>1, <2>2, <2>3, <3>1
  <2>4. CASE missed' = Greater(missed, seen) /\ UNCHANGED stored
    <3>1. /\ missed' \in 0 .. MaxEdits + 1 /\ missed' <= tree
          /\ missed' # tree => missed # tree /\ seen # tree
      BY <2>4 DEF Greater
    <3>2. QED
      BY <2>1, <2>2, <2>4, <3>1
  <2>5. QED
    BY <1>11, <2>3, <2>4, Zenon DEF HandleSave
<1>12. CASE UNCHANGED vars
  BY <1>12 DEF vars
<1>13. QED
  BY <1>1, <1>2, <1>3, <1>4, <1>5, <1>6, <1>7, <1>8, <1>9, <1>10, <1>11, <1>12
     DEF Next, Loop

(* Every edit that the stored graph may lack is on its way into it: in the  *)
(* channel, pending, or ahead of the scan that is running.                  *)
THEOREM EditsReachTheStore == Spec => [](NoEditForgotten /\ StoreIsHeld)
<1>1. Init => Inv
  BY InitInv
<1>2. Inv /\ [Next]_vars => Inv'
  BY StepInv
<1>3. Inv => NoEditForgotten /\ StoreIsHeld
  BY DEF Inv
<1>4. QED
  BY <1>1, <1>2, <1>3, PTL DEF Spec

-----------------------------------------------------------------------------
(* The server alone (McpServer).                                            *)

Held == ServerTypeOK /\ CallsHoldStores

(* The model starts with well-typed state.                                  *)
LEMMA InitHeld == ServerInit => Held
<1> SUFFICES ASSUME ServerInit PROVE Held
  OBVIOUS
<1>1. stored \in [Roots -> 0 .. MaxEdits + 1]
  <2>1. {0, 1} \subseteq 0 .. MaxEdits + 1
    BY EditsAssumption
  <2>2. QED
    BY <2>1 DEF ServerInit, SharedInit
<1>2. memory \in [root : Roots, upTo : 0 .. MaxEdits + 1]
  BY RootAssumption, EditsAssumption DEF ServerInit, SharedInit
<1>3. holder \in [Roots -> Calls \union {Nobody}] /\ call \in [Calls -> Steps]
  BY DEF ServerInit, SharedInit, Idle, Steps
<1>4. root \in [Calls -> Roots] /\ built \in [Calls -> 0 .. MaxEdits + 1]
  BY RootAssumption, EditsAssumption DEF ServerInit, SharedInit
<1>5. tree \in 1 .. MaxEdits + 1 /\ synced \in 0 .. MaxEdits + 1
  BY EditsAssumption DEF ServerInit, SharedInit
<1>6. up \in BOOLEAN /\ failed \in BOOLEAN /\ alone \in BOOLEAN
  BY Zenon DEF ServerInit
<1>7. CallsHoldStores
  BY CallsAssumption DEF ServerInit, SharedInit, Idle, CallsHoldStores
<1>8. QED
  BY <1>1, <1>2, <1>3, <1>4, <1>5, <1>6, <1>7 DEF Held, ServerTypeOK

(* Every step keeps it.                                                     *)
LEMMA StepHeld == Held /\ [ServerNext]_serving => Held'
<1> SUFFICES ASSUME Held, [ServerNext]_serving PROVE Held'
  OBVIOUS
<1> USE RootAssumption, CallsAssumption, EditsAssumption
        DEF Held, ServerTypeOK, CallsHoldStores, Steps
<1>1. CASE ServerEdit
  BY <1>1 DEF ServerEdit, server
<1>2. CASE ServerStart
  BY <1>2 DEF ServerStart, shared
<1>3. CASE ServerStop
  <2>1. holder' \in [Roots -> Calls \union {Nobody}] /\ \A r \in Roots : holder'[r] \notin Calls
    BY <1>3 DEF ServerStop
  <2>2. call' \in [Calls -> Steps] /\ \A c \in Calls : call'[c] = "idle"
    BY <1>3 DEF ServerStop, Idle
  <2>3. root' \in [Calls -> Roots] /\ built' \in [Calls -> 0 .. MaxEdits + 1]
    BY <1>3 DEF ServerStop
  <2>4. memory' \in [root : Roots, upTo : 0 .. MaxEdits + 1] /\ synced' \in 0 .. MaxEdits + 1
    BY <1>3 DEF ServerStop
  <2>5. up' \in BOOLEAN /\ failed' \in BOOLEAN /\ alone' \in BOOLEAN
    BY <1>3, Zenon DEF ServerStop
  <2>6. tree' = tree /\ stored' = stored
    BY <1>3 DEF ServerStop
  <2>7. QED
    BY <2>1, <2>2, <2>3, <2>4, <2>5, <2>6
<1>4. ASSUME NEW c \in Calls, NEW r \in Roots, Refresh(c, r) PROVE Held'
  BY <1>4 DEF Refresh, shared
<1>5. ASSUME NEW c \in Calls, Check(c) PROVE Held'
  BY <1>5 DEF Check, shared
<1>6. ASSUME NEW c \in Calls, Save(c) PROVE Held'
  <2>1. CASE holder[root[c]] = Nobody
    <3>1. /\ holder' = [holder EXCEPT ![root[c]] = c]
          /\ stored' = [stored EXCEPT ![root[c]] = built[c]]
          /\ call' = [call EXCEPT ![c] = "saved"]
          /\ root' = root /\ built' = built
      BY <1>6, <2>1 DEF Save
    <3>2. /\ tree' = tree /\ memory' = memory /\ synced' = synced /\ up' = up /\ failed' = failed
          /\ alone' = alone
      BY <1>6, <2>1, Zenon DEF Save
    <3>3. ServerTypeOK'
      BY <3>1, <3>2
    <3>4. CallsHoldStores'
      <4>1. call[c] = "built" /\ root[c] \in Roots
        BY <1>6 DEF Save
      <4>2. ASSUME NEW r \in Roots, holder'[r] \in Calls
            PROVE  \/ /\ call'[holder'[r]] = "saved" /\ root'[holder'[r]] = r
                      /\ stored'[r] = built'[holder'[r]]
                   \/ call'[holder'[r]] = "reading" /\ r = Root
        <5>1. CASE r = root[c]
          BY <3>1, <5>1
        <5>2. CASE r # root[c]
          <6>1. holder'[r] = holder[r] /\ stored'[r] = stored[r] /\ holder[r] # c
            BY <4>1, <4>2, <3>1, <5>2
          <6>2. call'[holder[r]] = call[holder[r]]
            BY <4>2, <3>1, <6>1
          <6>3. QED
            BY <4>2, <3>1, <6>1, <6>2
        <5>3. QED
          BY <5>1, <5>2
      <4>3. ASSUME NEW d \in Calls
            PROVE  /\ call'[d] = "saved" => holder'[root'[d]] = d
                   /\ call'[d] = "reading" => holder'[Root] = d
        BY <2>1, <3>1, <4>1
      <4>4. QED
        BY <4>2, <4>3
    <3>5. QED
      BY <3>3, <3>4
  <2>2. CASE holder[root[c]] # Nobody
    <3>1. call[c] = "built" /\ holder' = holder /\ stored' = stored /\ Return(c)
      BY <1>6, <2>2 DEF Save
    <3>2. tree' = tree /\ memory' = memory /\ synced' = synced /\ up' = up /\ alone' = alone
      BY <1>6, Zenon DEF Save
    <3>3. failed' \in BOOLEAN
      BY <1>6, <2>2, Zenon DEF Save
    <3>4. ServerTypeOK'
      BY <3>1, <3>2, <3>3 DEF Return
    <3>5. CallsHoldStores'
      BY <3>1 DEF Return
    <3>6. QED
      BY <3>4, <3>5
  <2>3. QED
    BY <2>1, <2>2
<1>7. ASSUME NEW c \in Calls, Close(c) PROVE Held'
  BY <1>7 DEF Close
<1>8. ASSUME NEW c \in Calls, Install(c) PROVE Held'
  <2>1. synced' \in 0 .. MaxEdits + 1
    BY <1>8 DEF Install, Greater
  <2>2. memory' \in [root : Roots, upTo : 0 .. MaxEdits + 1]
    BY <1>8 DEF Install
  <2>3. failed' \in BOOLEAN /\ up' = up /\ alone' = alone
    BY <1>8, Zenon DEF Install
  <2>4. call[c] = "closed" /\ Return(c) /\ UNCHANGED <<tree, stored, holder>>
    BY <1>8 DEF Install, shared
  <2>5. ServerTypeOK'
    BY <2>1, <2>2, <2>3, <2>4 DEF Return
  <2>6. CallsHoldStores'
    BY <2>4 DEF Return
  <2>7. QED
    BY <2>5, <2>6
<1>9. ASSUME NEW c \in Calls, OpenRevisions(c) PROVE Held'
  BY <1>9 DEF OpenRevisions, Return
<1>10. ASSUME NEW c \in Calls, Answer(c) PROVE Held'
  BY <1>10 DEF Answer, Return
<1>11. CASE UNCHANGED serving
  BY <1>11 DEF serving, shared, server
<1>12. QED
  BY <1>1, <1>2, <1>3, <1>4, <1>5, <1>6, <1>7, <1>8, <1>9, <1>10, <1>11
     DEF ServerNext, Serve, Proceed

(* A store is open exactly while the call that opened it uses it.           *)
THEOREM StoresAreHeld == ServerSpec => []CallsHoldStores
<1>1. Held => CallsHoldStores
  BY DEF Held
<1>2. QED
  BY InitHeld, StepHeld, <1>1, PTL DEF ServerSpec

-----------------------------------------------------------------------------
(* What a refresh has scanned is an edit that happened. While refreshes come *)
(* one at a time, it is at least what the last one had, and is in the store *)
(* from the save on; and before the save, memory and store agree.           *)
InOrder ==
  /\ ~up => synced = 0
  /\ synced <= tree
  /\ \A c \in Calls : built[c] <= tree /\ (Refreshing(c) => up)
  /\ alone =>
       /\ \A c, d \in Calls : Refreshing(c) /\ Refreshing(d) => c = d
       /\ \A c \in Calls : Refreshing(c) => root[c] = Root /\ synced <= built[c]
       /\ \A c \in Calls : call[c] \in {"saved", "closed"} => stored[Root] = built[c]
       /\ up => memory.upTo >= synced /\ stored[Root] >= synced
       /\ up /\ (\A c \in Calls : call[c] \notin {"saved", "closed"}) =>
            memory = [root |-> Root, upTo |-> stored[Root]]

Synced == Held /\ InOrder

(* The model starts with no call and nothing promised.                      *)
LEMMA InitSynced == ServerInit => Synced
BY InitHeld, RootAssumption DEF ServerInit, SharedInit, Synced, InOrder, Refreshing, Idle

(* Every step keeps it.                                                     *)
LEMMA StepSynced == Synced /\ [ServerNext]_serving => Synced'
<1> SUFFICES ASSUME Synced, [ServerNext]_serving PROVE InOrder'
  BY StepHeld DEF Synced
<1> USE RootAssumption, CallsAssumption, EditsAssumption
        DEF Synced, InOrder, Refreshing, Held, ServerTypeOK, Steps
<1>1. CASE ServerEdit
  BY <1>1 DEF ServerEdit, server
<1>2. CASE ServerStart
  BY <1>2 DEF ServerStart, shared
<1>3. CASE ServerStop
  BY <1>3 DEF ServerStop, Idle
<1>4. ASSUME NEW c \in Calls, NEW r \in Roots, Refresh(c, r) PROVE InOrder'
  <2>1. /\ up /\ call[c] = "idle" /\ UNCHANGED <<tree, stored, up, memory, synced>>
        /\ call' = [call EXCEPT ![c] = "built"]
        /\ root' = [root EXCEPT ![c] = r]
        /\ built' = [built EXCEPT ![c] = tree]
    BY <1>4 DEF Refresh, shared
  <2>2. alone' <=> alone /\ r = Root /\ \A d \in Calls : ~Refreshing(d)
    BY <1>4, Zenon DEF Refresh
  <2>3. \A d \in Calls : built'[d] <= tree' /\ (Refreshing(d)' => up')
    BY <2>1
  <2>4. CASE alone'
    <3>1. alone /\ r = Root /\ \A d \in Calls : ~Refreshing(d)
      BY <2>2, <2>4, Zenon
    <3>2. \A d \in Calls : Refreshing(d)' => d = c
      BY <2>1, <3>1
    <3>3. QED
      BY <2>1, <2>3, <3>1, <3>2
  <2>5. QED
    BY <2>1, <2>3, <2>4
<1>5. ASSUME NEW c \in Calls, Check(c) PROVE InOrder'
  BY <1>5 DEF Check, shared
<1>6. ASSUME NEW c \in Calls, Save(c) PROVE InOrder'
  BY <1>6 DEF Save, Return
<1>7. ASSUME NEW c \in Calls, Close(c) PROVE InOrder'
  BY <1>7 DEF Close
<1>8. ASSUME NEW c \in Calls, Install(c) PROVE InOrder'
  BY <1>8 DEF Install, Return, Greater, shared
<1>9. ASSUME NEW c \in Calls, OpenRevisions(c) PROVE InOrder'
  BY <1>9 DEF OpenRevisions, Return
<1>10. ASSUME NEW c \in Calls, Answer(c) PROVE InOrder'
  BY <1>10 DEF Answer, Return
<1>11. CASE UNCHANGED serving
  BY <1>11 DEF serving, shared, server
<1>12. QED
  BY <1>1, <1>2, <1>3, <1>4, <1>5, <1>6, <1>7, <1>8, <1>9, <1>10, <1>11
     DEF ServerNext, Serve, Proceed

(* As long as refreshes come one at a time, for the server's own directory, *)
(* one is the sync point that the documentation calls it: neither the graph *)
(* in memory nor the stored one goes back behind what a refresh has seen.   *)
THEOREM SerialRefreshSyncs == ServerSpec => []SerialRefreshIsSyncPoint
<1>1. Synced => SerialRefreshIsSyncPoint
  BY DEF Synced, InOrder, SerialRefreshIsSyncPoint, RefreshIsSyncPoint
<1>2. QED
  BY InitSynced, StepSynced, <1>1, PTL DEF ServerSpec

(* And between calls the graph in memory is the one that is stored, so that *)
(* a restart of the server changes no answer.                               *)
THEOREM MemoryIsStored == ServerSpec => []MemoryMatchesStore
<1>1. Synced => MemoryMatchesStore
  BY DEF Synced, InOrder, MemoryMatchesStore, Idle
<1>2. QED
  BY InitSynced, StepSynced, <1>1, PTL DEF ServerSpec

-----------------------------------------------------------------------------
(* The watcher and the server.                                              *)

(* Where the server's calls are, and that a call writes, reads and closes   *)
(* only a store that it opened.                                             *)
CallsHold ==
  /\ call \in [Calls -> Steps]
  /\ root \in [Calls -> Roots]
  /\ built \in [Calls -> 0 .. MaxEdits + 1]
  /\ \A c \in Calls :
       /\ call[c] = "saved" => holder[root[c]] = c
       /\ call[c] = "reading" => holder[Root] = c

(* No graph is ahead of the tree, and the one about to be stored is not     *)
(* behind the one it replaces.                                              *)
NotAhead ==
  /\ \A r \in Roots : stored[r] <= tree
  /\ seen <= tree
  /\ \A c \in Calls : built[c] <= tree
  /\ step = "save" => stored[Root] <= seen

Together == Inv /\ CallsHold /\ NotAhead

(* The model starts so.                                                     *)
LEMMA InitTogether == SessionInit => Together
<1> SUFFICES ASSUME SessionInit PROVE Together
  OBVIOUS
<1>1. Inv
  BY InitInv DEF SessionInit
<1>2. CallsHold
  BY RootAssumption, EditsAssumption DEF SessionInit, ServerInit, SharedInit, Idle, Steps, CallsHold
<1>3. NotAhead
  <2>1. tree = 1 /\ seen = 0 /\ step = "off" /\ \A r \in Roots : stored[r] \in {0, 1}
    BY DEF SessionInit, Init, SharedInit
  <2>2. \A c \in Calls : built[c] = 0
    BY DEF SessionInit, ServerInit
  <2>3. QED
    BY <2>1, <2>2 DEF NotAhead
<1>4. QED
  BY <1>1, <1>2, <1>3 DEF Together

(* What a step of the server leaves to the watcher: the tree, and its store *)
(* while it holds it.                                                       *)
KeepsOff ==
  /\ tree' = tree
  /\ stored' \in [Roots -> 0 .. MaxEdits + 1]
  /\ holder' \in [Roots -> Calls \union {Watcher, Nobody}]
  /\ holder[Root] = Watcher => holder'[Root] = Watcher /\ stored'[Root] = stored[Root]
  /\ \A r \in Roots : stored'[r] <= tree
  /\ \A c \in Calls : built'[c] <= tree
  /\ CallsHold'

(* Every step of the server does.                                           *)
LEMMA ServerKeepsOff == Together /\ Serve => KeepsOff
<1> SUFFICES ASSUME Together, Serve PROVE KeepsOff
  OBVIOUS
<1> USE RootAssumption, CallsAssumption, ProcessAssumption, EditsAssumption
        DEF Together, Inv, TypeOK, CallsHold, NotAhead, KeepsOff, Steps
<1>1. CASE ServerStart
  BY <1>1 DEF ServerStart, shared
<1>2. CASE ServerStop
  <2>1. tree' = tree /\ stored' = stored
    BY <1>2 DEF ServerStop
  <2>2. /\ holder' \in [Roots -> Calls \union {Watcher, Nobody}]
        /\ holder[Root] = Watcher => holder'[Root] = Watcher
    BY <1>2 DEF ServerStop
  <2>3. call' \in [Calls -> Steps] /\ \A c \in Calls : call'[c] = "idle"
    BY <1>2 DEF ServerStop, Idle
  <2>4. root' \in [Calls -> Roots]
    BY <1>2 DEF ServerStop
  <2>5. built' \in [Calls -> 0 .. MaxEdits + 1] /\ \A c \in Calls : built'[c] = 0
    BY <1>2 DEF ServerStop
  <2>6. QED
    BY <2>1, <2>2, <2>3, <2>4, <2>5
<1>3. ASSUME NEW c \in Calls, NEW r \in Roots, Refresh(c, r) PROVE KeepsOff
  BY <1>3 DEF Refresh, shared
<1>4. ASSUME NEW c \in Calls, Check(c) PROVE KeepsOff
  BY <1>4 DEF Check, shared
<1>5. ASSUME NEW c \in Calls, Save(c) PROVE KeepsOff
  <2>1. call[c] = "built" /\ tree' = tree
    BY <1>5 DEF Save
  <2>2. CASE holder[root[c]] = Nobody
    <3>1. /\ holder' = [holder EXCEPT ![root[c]] = c]
          /\ stored' = [stored EXCEPT ![root[c]] = built[c]]
          /\ call' = [call EXCEPT ![c] = "saved"]
          /\ root' = root /\ built' = built
      BY <1>5, <2>2 DEF Save
    <3>2. CallsHold'
      <4>1. /\ call' \in [Calls -> Steps] /\ root' \in [Calls -> Roots]
            /\ built' \in [Calls -> 0 .. MaxEdits + 1]
        BY <3>1
      <4>2. ASSUME NEW d \in Calls
            PROVE  /\ call'[d] = "saved" => holder'[root'[d]] = d
                   /\ call'[d] = "reading" => holder'[Root] = d
        BY <2>1, <2>2, <3>1
      <4>3. QED
        BY <4>1, <4>2
    <3>3. QED
      BY <2>1, <2>2, <3>1, <3>2
  <2>3. CASE holder[root[c]] # Nobody
    <3>1. holder' = holder /\ stored' = stored /\ Return(c)
      BY <1>5, <2>3 DEF Save
    <3>2. QED
      BY <2>1, <3>1 DEF Return
  <2>4. QED
    BY <2>2, <2>3
<1>6. ASSUME NEW c \in Calls, Close(c) PROVE KeepsOff
  BY <1>6 DEF Close
<1>7. ASSUME NEW c \in Calls, Install(c) PROVE KeepsOff
  BY <1>7 DEF Install, Return, shared
<1>8. ASSUME NEW c \in Calls, OpenRevisions(c) PROVE KeepsOff
  <2>1. call[c] = "wanted" /\ tree' = tree /\ stored' = stored
    BY <1>8 DEF OpenRevisions
  <2>2. CASE holder[Root] = Nobody
    <3>1. /\ holder' = [holder EXCEPT ![Root] = c]
          /\ call' = [call EXCEPT ![c] = "reading"]
          /\ root' = root /\ built' = built
      BY <1>8, <2>2 DEF OpenRevisions
    <3>2. QED
      BY <2>1, <2>2, <3>1
  <2>3. CASE holder[Root] # Nobody
    <3>1. holder' = holder /\ Return(c)
      BY <1>8, <2>3 DEF OpenRevisions
    <3>2. QED
      BY <2>1, <3>1 DEF Return
  <2>4. QED
    BY <2>2, <2>3
<1>9. ASSUME NEW c \in Calls, Answer(c) PROVE KeepsOff
  BY <1>9 DEF Answer, Return
<1>10. QED
  BY <1>1, <1>2, <1>3, <1>4, <1>5, <1>6, <1>7, <1>8, <1>9 DEF Serve, Proceed

(* A step of the watcher or an edit leaves the calls' stores to them, and   *)
(* takes no graph ahead of the tree.                                        *)
LEMMA WatcherKeepsOff ==
  Together /\ Next /\ UNCHANGED server => CallsHold' /\ NotAhead'
<1> SUFFICES ASSUME Together, Next, UNCHANGED server PROVE CallsHold' /\ NotAhead'
  OBVIOUS
<1> USE RootAssumption, CallsAssumption, ProcessAssumption, EditsAssumption
        DEF Together, Inv, TypeOK, StoreIsHeld, CallsHold, NotAhead, server, shared, own
<1>1. CASE Edit
  BY <1>1 DEF Edit, EditSource
<1>2. CASE Rustle
  BY <1>2 DEF Rustle
<1>3. CASE Start
  BY <1>3 DEF Start
<1>4. CASE Settle
  BY <1>4 DEF Settle
<1>5. CASE Stop
  BY <1>5 DEF Stop
<1>6. CASE FirstSave
  <2>1. step' # "save" /\ tree' = tree /\ seen' \in {seen, 0}
    BY <1>6, Zenon DEF FirstSave
  <2>2. CASE holder[Root] = Nobody
    <3>1. holder' = [holder EXCEPT ![Root] = Watcher] /\ stored' = [stored EXCEPT ![Root] = seen]
      BY <1>6, <2>2, Zenon DEF FirstSave
    <3>2. QED
      BY <2>1, <2>2, <3>1
  <2>3. CASE holder[Root] # Nobody
    <3>1. holder' = holder /\ stored' = stored
      BY <1>6, <2>3, Zenon DEF FirstSave
    <3>2. QED
      BY <2>1, <3>1
  <2>4. QED
    BY <2>2, <2>3
<1>7. CASE StartWatcher
  BY <1>7 DEF StartWatcher
<1>8. CASE Receive
  BY <1>8 DEF Receive
<1>9. CASE Timeout
  BY <1>9 DEF Timeout
<1>10. CASE HandleScan
  BY <1>10 DEF HandleScan
<1>11. CASE HandleSave
  BY <1>11 DEF HandleSave
<1>12. QED
  BY <1>1, <1>2, <1>3, <1>4, <1>5, <1>6, <1>7, <1>8, <1>9, <1>10, <1>11 DEF Next, Loop

(* Every step of the session keeps all of it.                               *)
LEMMA StepTogether == Together /\ [SessionNext]_session => Together'
<1> SUFFICES ASSUME Together, [SessionNext]_session PROVE Together'
  OBVIOUS
<1>1. CASE EditTree \/ WatchTurn
  <2>1. Next /\ UNCHANGED server
    BY <1>1 DEF EditTree, WatchTurn, Next
  <2>2. Inv'
    BY <2>1, StepInv DEF Together
  <2>3. QED
    BY <2>1, <2>2, WatcherKeepsOff DEF Together
<1>2. CASE ServerTurn
  <2>1. KeepsOff /\ UNCHANGED own
    BY <1>2, ServerKeepsOff DEF ServerTurn
  <2>2. Inv'
    BY <2>1 DEF KeepsOff, Together, Inv, TypeOK, Faithful, StoreIsHeld, NoEditForgotten,
                Watching, own
  <2>3. NotAhead'
    BY <2>1 DEF KeepsOff, Together, Inv, StoreIsHeld, NotAhead, own
  <2>4. QED
    BY <2>1, <2>2, <2>3 DEF KeepsOff, Together
<1>3. CASE UNCHANGED session
  <2>1. UNCHANGED vars /\ UNCHANGED server
    BY <1>3 DEF session, vars
  <2>2. Inv'
    BY <2>1, StepInv DEF Together
  <2>3. CallsHold' /\ NotAhead'
    BY <2>1 DEF Together, CallsHold, NotAhead, vars, shared, own, server
  <2>4. QED
    BY <2>2, <2>3 DEF Together
<1>4. QED
  BY <1>1, <1>2, <1>3 DEF SessionNext

(* No step takes an older graph into the store that is being watched.       *)
LEMMA StepAdvances ==
  Together /\ [SessionNext]_session /\ Watching /\ Watching' => stored'[Root] >= stored[Root]
<1> SUFFICES ASSUME Together, [SessionNext]_session, Watching, Watching'
             PROVE  stored'[Root] >= stored[Root]
  OBVIOUS
<1> USE RootAssumption, EditsAssumption
        DEF Together, Inv, TypeOK, NotAhead, Watching, shared, own
<1>1. CASE HandleSave
  BY <1>1 DEF HandleSave
<1>2. CASE ServerTurn
  BY <1>2, ServerKeepsOff DEF ServerTurn, KeepsOff, StoreIsHeld
<1>3. CASE Edit \/ Rustle \/ Start \/ Settle \/ Stop \/ StartWatcher \/ Receive \/ Timeout
           \/ HandleScan
  <2>1. stored' = stored
    BY <1>3 DEF Edit, EditSource, Rustle, Start, Settle, Stop, StartWatcher, Receive, Timeout, HandleScan
  <2>2. QED
    BY <2>1
<1>4. CASE FirstSave
  BY <1>4 DEF FirstSave
<1>5. CASE UNCHANGED session
  BY <1>5 DEF session
<1>6. QED
  BY <1>1, <1>2, <1>3, <1>4, <1>5 DEF SessionNext, EditTree, WatchTurn, Loop

(* With a server beside it, for any number of its calls, the watcher still  *)
(* forgets no edit and has the store to itself.                             *)
THEOREM WatcherUndisturbed == SessionSpec => [](NoEditForgotten /\ StoreIsHeld)
<1>1. Together => NoEditForgotten /\ StoreIsHeld
  BY DEF Together, Inv
<1>2. QED
  BY InitTogether, StepTogether, <1>1, PTL DEF SessionSpec

(* While the watcher runs what is stored only gets newer.                   *)
THEOREM StoreOnlyAdvances == SessionSpec => StoreAdvances
<1>1. Together /\ [SessionNext]_session =>
        [Watching /\ Watching' => stored'[Root] >= stored[Root]]_session
  BY StepAdvances
<1>2. QED
  BY InitTogether, StepTogether, <1>1, PTL DEF SessionSpec, StoreAdvances
=============================================================================
