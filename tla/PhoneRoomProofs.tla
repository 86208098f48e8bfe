-------------------------- MODULE PhoneRoomProofs --------------------------
(***************************************************************************)
(* Proofs about PhoneRoom: that a room coheres and is never torn down      *)
(* under the people in it, and that neither a session nor an abandoned leg *)
(* is forgotten, for any people, connections and capacity.                 *)
(***************************************************************************)
EXTENDS PhoneRoom, FiniteSetTheorems, TLAPS

(* The room of the call exists once or not at all. *)
OneSession == session = {} \/ \E s \in 1 .. sessions : session = {s}

PeersInv ==
  /\ IsFiniteSet(peers) /\ Cardinality(peers) <= MAX_PEERS
  /\ \A p, q \in peers : p.id = q.id => p = q
  /\ session = {} => peers = {}
  /\ PhoneEntry \in peers => session = {1}

(* Whoever is about to end a session has seen its room go, and a session   *)
(* never gets its room back; a grace task outlives its handler.            *)
OwesInv ==
  \A c \in Conns :
    /\ grace[c] # "none" => state[c] = "gone" /\ owed[c] # 0
    /\ state[c] = "orphaning" => owed[c] # 0
    /\ \/ state[c] \in {"finalize", "hangup"}
       \/ grace[c] \in {"hangup", "finalize"}
       => owed[c] \notin session /\ owed[c] # 0

CohInv ==
  /\ TypeOK /\ OneSession /\ PeersInv /\ OwesInv
  /\ session \cap finalized = {}

(* A single session counts as one. *)
LEMMA OneIsFew ==
  ASSUME OneSession PROVE Cardinality(session) <= 1
<1>1. CASE session = {}
  BY <1>1, FS_EmptySet
<1>2. CASE \E s \in 1 .. sessions : session = {s}
  BY <1>2, FS_Singleton
<1>. QED
  BY <1>1, <1>2 DEF OneSession

(* The room of dial and admit coheres. *)
LEMMA CohInit ==
  ASSUME Init PROVE CohInv
<1>1. OneSession /\ Cardinality(session) <= 1
  <2>1. OneSession
    BY DEF Init, OneSession
  <2>. QED
    BY <2>1, OneIsFew
<1>2. PeersInv
  <2>1. peers = {PhoneEntry} /\ session = {1} /\ MAX_PEERS \in Nat \ {0}
    BY RoomAssumption DEF Init
  <2>2. IsFiniteSet(peers) /\ Cardinality(peers) = 1
    BY <2>1, FS_Singleton
  <2>. QED
    BY <2>1, <2>2 DEF PeersInv
<1>3. OwesInv
  BY DEF Init, OwesInv
<1>4. /\ {dropping, live, hook, visited, unseen, uncut} \subseteq BOOLEAN
      /\ bridge \in BridgeStates /\ leg \in {"up", "gone", "cut"}
  BY DEF Init, BridgeStates
<1>5. state \in [Conns -> HandlerStates] /\ grace \in [Conns -> GraceStates]
        /\ owed \in [Conns -> 0 .. sessions]
  BY DEF Init, HandlerStates, GraceStates
<1>6. sessions \in Nat \ {0} /\ session \subseteq 1 .. sessions
        /\ peers \subseteq Entries
        /\ finalized \cup lost \cup silent \cup pruned \subseteq 1 .. sessions
        /\ deaf \subseteq Conns \cup {Phone}
  BY DEF Init, Entries
<1>7. TypeOK
  BY <1>1, <1>4, <1>5, <1>6 DEF Init, TypeOK
<1>. QED
  BY <1>1, <1>2, <1>3, <1>7 DEF Init, CohInv

-----------------------------------------------------------------------------
(* What the steps other than a join do to the room. *)
Joining == \E h \in Humans, c \in Conns : Join(h, c)

(* Only a join adds to the room; any other step keeps it or takes it away. *)
LEMMA RoomMoves ==
  ASSUME [Next]_vars, ~Joining
  PROVE  /\ sessions' = sessions /\ peers' \subseteq peers
         /\ session' = session \/ (session' = {} /\ peers' = {})
<1>1. CASE \E h \in Humans, c \in Conns : JoinFull(h, c)
  BY <1>1 DEF JoinFull, Others
<1>2. CASE \E c \in Conns : SocketFails(c) \/ Close(c) \/ Superseded(c)
                               \/ Retain(c) \/ LeftOthers(c) \/ LeftLast(c)
  BY <1>2 DEF SocketFails, Close, Superseded, Retain, LeftOthers, LeftLast,
              roomVars
<1>3. CASE \E c \in Conns : LeftPhoneOnly(c) \/ Tell(c) \/ Finalize(c)
                               \/ LastHangsUp(c)
  BY <1>3 DEF LeftPhoneOnly, Tell, Finalize, LastHangsUp, Broadcast, Heard,
              roomVars
<1>4. CASE \E c \in Conns : Waiting(c)
  BY <1>4 DEF Waiting, GraceReturns, GraceElapses, GraceHangsUp,
              GraceFinalizes, roomVars
<1>5. CASE Prune \/ Talk \/ PhoneTells
  BY <1>5 DEF Prune, Talk, PhoneTells, Broadcast, Heard
<1>6. CASE \/ MediaSocketOpens \/ FarEndHangsUp \/ StreamRefused
           \/ HangupWebhook \/ PumpEnds \/ NoEngine \/ EndCall
           \/ UNCHANGED vars
  BY <1>6 DEF MediaSocketOpens, FarEndHangsUp, StreamRefused, HangupWebhook,
              PumpEnds, NoEngine, EndCall, vars, roomVars
<1>7. CASE PhoneRetain \/ PhoneDrops
  BY <1>7 DEF PhoneRetain, PhoneDrops
<1>. QED
  BY <1>1, <1>2, <1>3, <1>4, <1>5, <1>6, <1>7
     DEF Next, Handling, PhoneLeaving, Joining

(* A join evicts the entry of the same id before it enters its own. *)
LEMMA JoinKeepsRoom ==
  ASSUME CohInv, NEW h \in Humans, NEW c \in Conns, Join(h, c)
  PROVE  OneSession' /\ PeersInv'
<1>. DEFINE mine == [id |-> h, conn |-> c]
<1>1. /\ OneSession /\ PeersInv /\ sessions \in Nat \ {0}
      /\ Cardinality(Others(h)) < MAX_PEERS /\ MAX_PEERS \in Nat
      /\ peers' = Others(h) \cup {mine}
  BY RoomAssumption DEF CohInv, TypeOK, Join
<1>2. CASE session = {}
  <2>1. session' = {sessions + 1} /\ sessions' = sessions + 1 /\ Others(h) = {}
    BY <1>1, <1>2 DEF Join, PeersInv, Others
  <2>2. peers' = {mine}
    BY <1>1, <2>1
  <2>3. IsFiniteSet(peers') /\ Cardinality(peers') = 1
    BY <2>2, FS_Singleton
  <2>4. PhoneEntry \notin peers'
    BY <2>2, RoomAssumption DEF PhoneEntry
  <2>. QED
    <3>1. OneSession'
      BY <1>1, <2>1 DEF OneSession
    <3>2. MAX_PEERS \in Nat \ {0} /\ session' # {}
      BY <2>1, RoomAssumption
    <3>. HIDE DEF mine
    <3>3. \A p, q \in peers' : p = q
      BY <2>2
    <3>. QED
      BY <2>3, <2>4, <3>1, <3>2, <3>3 DEF PeersInv
<1>3. CASE session # {}
  <2>1. session' = session /\ sessions' = sessions
    BY <1>3 DEF Join
  <2>2. IsFiniteSet(Others(h)) /\ Cardinality(Others(h)) \in Nat
    BY <1>1, FS_Subset, FS_CardinalityType DEF PeersInv, Others
  <2>3. IsFiniteSet(peers') /\ Cardinality(peers') <= MAX_PEERS
    <3>. HIDE DEF mine
    <3>1. /\ IsFiniteSet(Others(h) \cup {mine})
          /\ Cardinality(Others(h) \cup {mine}) \in
               {Cardinality(Others(h)), Cardinality(Others(h)) + 1}
      BY <2>2, FS_AddElement
    <3>. QED
      BY <1>1, <2>2, <3>1
  <2>4. \A p, q \in peers' : p.id = q.id => p = q
    BY <1>1 DEF PeersInv, Others
  <2>5. PhoneEntry \in peers' => session = {1}
    BY <1>1, RoomAssumption DEF PeersInv, Others, PhoneEntry
  <2>. QED
    BY <1>1, <1>3, <2>1, <2>3, <2>4, <2>5 DEF OneSession, PeersInv
<1>. QED
  BY <1>2, <1>3

(* Every step keeps one session, an entry per person and the room's size. *)
LEMMA RoomKeeps ==
  ASSUME CohInv, [Next]_vars PROVE OneSession' /\ PeersInv'
<1>1. CASE Joining
  BY <1>1, JoinKeepsRoom DEF Joining
<1>2. CASE ~Joining
  <2>1. /\ sessions' = sessions /\ peers' \subseteq peers
        /\ session' = session \/ (session' = {} /\ peers' = {})
    BY <1>2, RoomMoves
  <2>2. IsFiniteSet(peers') /\ Cardinality(peers') <= Cardinality(peers)
          /\ Cardinality(peers) \in Nat /\ Cardinality(peers') \in Nat
    BY <2>1, FS_Subset, FS_CardinalityType DEF CohInv, PeersInv
  <2>3. Cardinality(peers') <= MAX_PEERS
    BY <2>2, RoomAssumption DEF CohInv, PeersInv
  <2>. QED
    BY <2>1, <2>2, <2>3 DEF CohInv, PeersInv, OneSession
<1>. QED
  BY <1>1, <1>2

-----------------------------------------------------------------------------
(* A room has one session, which is the one a departure picks. *)
LEMMA TheSession ==
  ASSUME CohInv, session # {}
  PROVE  \E mine \in 1 .. sessions :
           session = {mine} /\ mine = (CHOOSE s \in session : TRUE)
  BY DEF CohInv, OneSession

(* What a departure finds under its first lock. *)
LEMMA RetainMoves ==
  ASSUME CohInv, NEW c \in Conns, Retain(c)
  PROVE  \E mine \in 1 .. sessions :
           /\ session = {mine}
           /\ \/ /\ PhoneOnly(peers \ EntryOf(c))
                 /\ state' = [state EXCEPT ![c] = "orphaning"]
                 /\ owed' = [owed EXCEPT ![c] = mine]
              \/ /\ ~PhoneOnly(peers \ EntryOf(c))
                 /\ state' = [state EXCEPT ![c] = "dropping"]
                 /\ owed' = owed
<1>1. session # {}
  BY DEF CohInv, PeersInv, Retain, EntryOf
<1>. QED
  BY <1>1, TheSession DEF Retain

(* And the last one under its second. *)
LEMMA LastMoves ==
  ASSUME CohInv, NEW c \in Conns, LeftLast(c)
  PROVE  \E mine \in 1 .. sessions :
           session = {mine} /\ owed' = [owed EXCEPT ![c] = mine]
  BY TheSession DEF LeftLast

(* Who joins keeps the types, whether the room was there or not. *)
LEMMA JoinTyped ==
  ASSUME CohInv, NEW h \in Humans, NEW c \in Conns, Join(h, c)
  PROVE  /\ sessions' \in Nat \ {0} /\ peers' \subseteq Entries
         /\ state' \in [Conns -> HandlerStates]
         /\ owed' \in [Conns -> 0 .. sessions'] /\ visited' \in BOOLEAN
         /\ unseen' \in BOOLEAN
         /\ (finalized \cup lost \cup silent \cup pruned)'
              \subseteq 1 .. sessions'
<1>. USE DEF CohInv, TypeOK
<1>1. sessions' \in Nat \ {0} /\ sessions' >= sessions
  BY DEF Join
<1>2. peers' \subseteq Entries
  BY DEF Join, Others, Entries
<1>3. state' \in [Conns -> HandlerStates]
  BY DEF Join, HandlerStates
<1>4. /\ 0 .. sessions \subseteq 0 .. sessions'
      /\ 1 .. sessions \subseteq 1 .. sessions'
  BY <1>1
<1>5. UNCHANGED <<owed, finalized, lost, silent, pruned>>
  BY DEF Join, endVars
<1>6. owed' \in [Conns -> 0 .. sessions']
        /\ (finalized \cup lost \cup silent \cup pruned)'
             \subseteq 1 .. sessions'
  BY <1>4, <1>5
<1>7. visited' \in BOOLEAN
  BY DEF Join
<1>8. unseen' \in BOOLEAN
  BY DEF Join
<1>. QED
  BY <1>1, <1>2, <1>3, <1>6, <1>7, <1>8

(* Every step but a join leaves the handlers and the grace tasks where     *)
(* they may be.                                                            *)
LEMMA HandlersTyped ==
  ASSUME CohInv, [Next]_vars, ~Joining
  PROVE  /\ state' \in [Conns -> HandlerStates]
         /\ grace' \in [Conns -> GraceStates]
         /\ owed' \in [Conns -> 0 .. sessions]
         /\ deaf' \subseteq Conns \cup {Phone}
<1>. USE DEF CohInv, TypeOK, HandlerStates, GraceStates
<1>1. CASE \E h \in Humans, c \in Conns : JoinFull(h, c)
  BY <1>1 DEF JoinFull
<1>2. CASE \E c \in Conns : SocketFails(c) \/ Close(c) \/ Superseded(c)
                               \/ LeftOthers(c) \/ Finalize(c)
                               \/ LastHangsUp(c)
  BY <1>2 DEF SocketFails, Close, Superseded, LeftOthers, Finalize, LastHangsUp
<1>3. CASE \E c \in Conns : LeftPhoneOnly(c) \/ Tell(c)
  BY <1>3 DEF LeftPhoneOnly, Tell
<1>4. ASSUME NEW c \in Conns, Retain(c)
      PROVE  /\ state' \in [Conns -> HandlerStates]
             /\ owed' \in [Conns -> 0 .. sessions]
             /\ UNCHANGED grace /\ deaf' \subseteq Conns \cup {Phone}
  <2>1. UNCHANGED grace /\ deaf' \subseteq Conns \cup {Phone}
    BY <1>4 DEF Retain
  <2>2. PICK mine \in 1 .. sessions :
          \/ /\ state' = [state EXCEPT ![c] = "orphaning"]
             /\ owed' = [owed EXCEPT ![c] = mine]
          \/ state' = [state EXCEPT ![c] = "dropping"] /\ owed' = owed
    BY <1>4, RetainMoves
  <2>. QED
    BY <2>1, <2>2
<1>5. ASSUME NEW c \in Conns, LeftLast(c)
      PROVE  /\ state' \in [Conns -> HandlerStates]
             /\ owed' \in [Conns -> 0 .. sessions]
             /\ UNCHANGED <<grace, deaf>>
  <2>1. PICK mine \in 1 .. sessions : owed' = [owed EXCEPT ![c] = mine]
    BY <1>5, LastMoves
  <2>2. /\ state' = [state EXCEPT ![c] = "finalize"]
        /\ UNCHANGED <<grace, deaf>>
    BY <1>5 DEF LeftLast
  <2>. QED
    BY <2>1, <2>2
<1>6. CASE \E c \in Conns : Waiting(c)
  BY <1>6 DEF Waiting, GraceReturns, GraceElapses, GraceHangsUp, GraceFinalizes
<1>7. CASE PumpEnds
  BY <1>7 DEF PumpEnds
<1>8. CASE \/ Prune \/ Talk \/ MediaSocketOpens \/ FarEndHangsUp
           \/ StreamRefused \/ HangupWebhook \/ NoEngine \/ PhoneLeaving
           \/ UNCHANGED vars
  <2>1. UNCHANGED handlerVars
    BY <1>8 DEF Prune, Talk, MediaSocketOpens, FarEndHangsUp, StreamRefused,
       HangupWebhook, NoEngine, PhoneLeaving, PhoneRetain, PhoneDrops,
       PhoneTells, EndCall, vars
  <2>. QED
    BY <2>1 DEF handlerVars
<1>. QED
  BY <1>1, <1>2, <1>3, <1>4, <1>5, <1>6, <1>7, <1>8
     DEF Next, Handling, Joining

(* And so with the telephone. *)
LEMMA PhoneTyped ==
  ASSUME TypeOK, [Next]_vars, ~Joining
  PROVE  /\ bridge' \in BridgeStates /\ leg' \in {"up", "gone", "cut"}
         /\ dropping' \in BOOLEAN /\ live' \in BOOLEAN /\ hook' \in BOOLEAN
         /\ uncut' \in BOOLEAN
<1>. USE DEF TypeOK, BridgeStates
<1>1. CASE \/ \E h \in Humans, c \in Conns : JoinFull(h, c)
           \/ \E c \in Conns :
                \/ SocketFails(c) \/ Close(c) \/ Superseded(c) \/ Retain(c)
                \/ LeftPhoneOnly(c) \/ LeftLast(c) \/ LeftOthers(c)
                \/ Finalize(c) \/ Tell(c)
                \/ GraceReturns(c) \/ GraceElapses(c) \/ GraceFinalizes(c)
           \/ Prune \/ Talk \/ UNCHANGED vars
  <2>1. UNCHANGED <<bridgeVars, legVars>>
    BY <1>1 DEF JoinFull, SocketFails, Close, Superseded, Retain,
       LeftPhoneOnly, LeftLast, LeftOthers, Finalize, Tell, GraceReturns,
       GraceElapses, GraceFinalizes, Prune, Talk, vars
  <2>. QED
    BY <2>1 DEF bridgeVars, legVars
<1>2. ASSUME NEW c \in Conns, LastHangsUp(c) \/ GraceHangsUp(c)
      PROVE  /\ leg' \in {"up", "gone", "cut"}
             /\ hook' \in BOOLEAN /\ uncut' \in BOOLEAN
             /\ UNCHANGED <<bridge, dropping, live>>
  BY <1>2 DEF LastHangsUp, GraceHangsUp, HangupOrphanedLeg, RequestHangup,
     bridgeVars
<1>3. CASE MediaSocketOpens \/ StreamRefused \/ PumpEnds \/ NoEngine
  BY <1>3 DEF MediaSocketOpens, StreamRefused, PumpEnds, NoEngine, legVars
<1>4. CASE FarEndHangsUp \/ HangupWebhook
  BY <1>4 DEF FarEndHangsUp, HangupWebhook, bridgeVars
<1>5. CASE PhoneRetain \/ PhoneDrops \/ PhoneTells
  BY <1>5 DEF PhoneRetain, PhoneDrops, PhoneTells, AfterRemove, legVars
<1>6. CASE EndCall
  <2>1. live' \in BOOLEAN
    BY <1>6 DEF EndCall
  <2>2. /\ leg' \in {"up", "gone", "cut"}
        /\ hook' \in BOOLEAN /\ uncut' \in BOOLEAN
    BY <1>6 DEF EndCall, RequestHangup
  <2>3. bridge' \in BridgeStates /\ UNCHANGED dropping
    BY <1>6 DEF EndCall
  <2>. QED
    BY <2>1, <2>2, <2>3
<1>. QED
  BY <1>1, <1>2, <1>3, <1>4, <1>5, <1>6
     DEF Next, Handling, Waiting, PhoneLeaving, Joining

(* And so with what has become of the sessions. *)
LEMMA EndsTyped ==
  ASSUME CohInv, [Next]_vars, ~Joining
  PROVE  /\ (finalized \cup lost \cup silent \cup pruned)'
              \subseteq 1 .. sessions
         /\ visited' \in BOOLEAN /\ unseen' \in BOOLEAN
<1>. USE DEF CohInv, TypeOK
<1>1. CASE \E c \in Conns : Finalize(c) \/ GraceFinalizes(c)
  <2>1. PICK c \in Conns : Finalize(c) \/ GraceFinalizes(c)
    BY <1>1
  <2>2. owed[c] \in 1 .. sessions
    BY <2>1 DEF Finalize, GraceFinalizes, OwesInv
  <2>. QED
    BY <2>1, <2>2 DEF Finalize, GraceFinalizes, EndSessions, historyVars
<1>2. CASE \E c \in Conns : LeftPhoneOnly(c) \/ Tell(c)
  BY <1>2 DEF LeftPhoneOnly, Tell, Broadcast, endVars, historyVars
<1>3. CASE Talk \/ PhoneTells
  BY <1>3 DEF Talk, PhoneTells, Broadcast, endVars, historyVars
<1>4. CASE Prune
  <2>1. unseen' \in BOOLEAN
    BY <1>4 DEF Prune, Broadcast
  <2>. QED
    BY <1>4, <2>1 DEF Prune, EndSessions, endVars
<1>5. CASE PhoneDrops
  BY <1>5 DEF PhoneDrops, endVars
<1>6. CASE \/ \E h \in Humans, c \in Conns : JoinFull(h, c)
           \/ \E c \in Conns :
                \/ SocketFails(c) \/ Close(c) \/ Superseded(c) \/ Retain(c)
                \/ LeftLast(c) \/ LeftOthers(c) \/ LastHangsUp(c)
                \/ GraceReturns(c) \/ GraceElapses(c) \/ GraceHangsUp(c)
           \/ MediaSocketOpens \/ FarEndHangsUp \/ StreamRefused
           \/ HangupWebhook \/ PumpEnds \/ NoEngine \/ PhoneRetain \/ EndCall
           \/ UNCHANGED vars
  <2>1. UNCHANGED <<endVars, historyVars, unseen>>
    BY <1>6 DEF JoinFull, SocketFails, Close, Superseded, Retain, LeftLast,
       LeftOthers, LastHangsUp, GraceReturns, GraceElapses, GraceHangsUp,
       MediaSocketOpens, FarEndHangsUp, StreamRefused, HangupWebhook,
       PumpEnds, NoEngine, PhoneRetain, EndCall, vars
  <2>. QED
    BY <2>1 DEF endVars, historyVars
<1>. QED
  BY <1>1, <1>2, <1>3, <1>4, <1>5, <1>6
     DEF Next, Handling, Waiting, PhoneLeaving, Joining

(* Every step keeps the types. *)
LEMMA TypeKeeps ==
  ASSUME CohInv, [Next]_vars PROVE TypeOK'
<1>. USE DEF CohInv
<1>1. Cardinality(session') <= 1 /\ session' \subseteq 1 .. sessions'
  <2>1. session' = {} \/ \E s \in 1 .. sessions' : session' = {s}
    BY RoomKeeps DEF OneSession
  <2>2. CASE session' = {}
    BY <2>2, FS_EmptySet
  <2>3. CASE \E s \in 1 .. sessions' : session' = {s}
    <3>1. PICK s \in 1 .. sessions' : session' = {s}
      BY <2>3
    <3>2. Cardinality({s}) = 1
      BY FS_Singleton
    <3>. QED
      BY <3>1, <3>2
  <2>. QED
    BY <2>1, <2>2, <2>3
<1>2. CASE Joining
  <2>1. PICK h \in Humans, c \in Conns : Join(h, c)
    BY <1>2 DEF Joining
  <2>2. UNCHANGED <<deaf, grace, bridge, dropping, leg, live, hook, uncut>>
    BY <2>1 DEF Join, bridgeVars, legVars
  <2>. QED
    BY <1>1, <2>1, <2>2, JoinTyped DEF TypeOK
<1>3. CASE ~Joining
  <2>1. /\ sessions' = sessions /\ sessions \in Nat \ {0}
        /\ peers' \subseteq Entries
    BY <1>3, RoomMoves DEF TypeOK
  <2>. QED
    BY <1>1, <1>3, <2>1, HandlersTyped, PhoneTyped, EndsTyped DEF TypeOK
<1>. QED
  BY <1>2, <1>3

-----------------------------------------------------------------------------
(* A join touches nobody's debt, and a session it opens is a new one. *)
LEMMA JoinOwes ==
  ASSUME CohInv, Joining PROVE OwesInv' /\ session' \cap finalized' = {}
<1>1. PICK h \in Humans, c \in Conns : Join(h, c)
  BY DEF Joining
<1>2. sessions \in Nat /\ owed \in [Conns -> 0 .. sessions]
        /\ finalized \subseteq 1 .. sessions
  BY DEF CohInv, TypeOK
<1>3. UNCHANGED <<grace, owed, finalized>>
        /\ (session' = session \/ session' = {sessions + 1})
  BY <1>1 DEF Join, endVars
<1>4. session' \cap finalized' = {}
  BY <1>2, <1>3 DEF CohInv
<1>5. ASSUME NEW d \in Conns
      PROVE  /\ state[d] = "gone" => state'[d] = "gone"
             /\ \A x \in {"orphaning", "finalize", "hangup"} :
                  state'[d] = x => state[d] = x
  BY <1>1 DEF Join, NextConn
<1>6. ASSUME NEW d \in Conns, owed[d] \notin session
      PROVE  owed[d] \notin session'
  BY <1>2, <1>3, <1>6
<1>. QED
  BY <1>3, <1>4, <1>5, <1>6 DEF CohInv, OwesInv

(* The last to leave, and a grace window that elapses, owe a session whose *)
(* room they have just taken away.                                         *)
LEMMA ConnOwes ==
  ASSUME CohInv, NEW c \in Conns,
         SocketFails(c) \/ Close(c) \/ Handling(c) \/ Waiting(c)
  PROVE  OwesInv' /\ session' \cap finalized' = {}
<1>. USE DEF CohInv, TypeOK, OwesInv
<1>1. CASE SocketFails(c) \/ Close(c) \/ Superseded(c) \/ LeftOthers(c)
  BY <1>1 DEF SocketFails, Close, Superseded, LeftOthers, roomVars, endVars
<1>2. CASE LeftPhoneOnly(c) \/ Tell(c)
  BY <1>2 DEF LeftPhoneOnly, Tell, endVars
<1>3. CASE LastHangsUp(c) \/ GraceReturns(c) \/ GraceHangsUp(c)
  BY <1>3 DEF LastHangsUp, GraceReturns, GraceHangsUp, roomVars, endVars
<1>4. CASE Retain(c)
  <2>1. UNCHANGED <<session, grace, finalized>> /\ grace[c] = "none"
    BY <1>4 DEF Retain, endVars
  <2>2. PICK mine \in 1 .. sessions :
          \/ /\ state' = [state EXCEPT ![c] = "orphaning"]
             /\ owed' = [owed EXCEPT ![c] = mine]
          \/ state' = [state EXCEPT ![c] = "dropping"] /\ owed' = owed
    BY <1>4, RetainMoves
  <2>. QED
    BY <2>1, <2>2
<1>5. CASE LeftLast(c)
  <2>1. session' = {} /\ UNCHANGED <<grace, finalized>> /\ grace[c] = "none"
    BY <1>5 DEF LeftLast, endVars
  <2>2. PICK mine \in 1 .. sessions : owed' = [owed EXCEPT ![c] = mine]
    BY <1>5, LastMoves
  <2>3. state' = [state EXCEPT ![c] = "finalize"]
    BY <1>5 DEF LeftLast
  <2>. QED
    BY <2>1, <2>2, <2>3
<1>6. CASE Finalize(c) \/ GraceFinalizes(c)
  <2>1. UNCHANGED session /\ finalized' \subseteq finalized \cup {owed[c]}
    BY <1>6 DEF Finalize, GraceFinalizes, EndSessions, roomVars
  <2>2. owed[c] \notin session
    BY <1>6 DEF Finalize, GraceFinalizes
  <2>3. OwesInv'
    BY <1>6, <2>1 DEF Finalize, GraceFinalizes
  <2>. QED
    BY <2>1, <2>2, <2>3
<1>7. CASE GraceElapses(c)
  BY <1>7 DEF GraceElapses, StillOrphaned, endVars
<1>. QED
  BY <1>1, <1>2, <1>3, <1>4, <1>5, <1>6, <1>7 DEF Handling, Waiting

(* The rest ends no session but those of the rooms it prunes. *)
LEMMA OthersOwe ==
  ASSUME CohInv,
         \/ \E h \in Humans, c \in Conns : JoinFull(h, c)
         \/ Prune \/ Talk \/ MediaSocketOpens \/ FarEndHangsUp \/ StreamRefused
         \/ HangupWebhook \/ PumpEnds \/ NoEngine \/ PhoneLeaving
         \/ UNCHANGED vars
  PROVE  OwesInv' /\ session' \cap finalized' = {}
<1>. USE DEF CohInv
<1>1. CASE \E h \in Humans, c \in Conns : JoinFull(h, c)
  BY <1>1 DEF JoinFull, NextConn, OwesInv, TypeOK, endVars
<1>2. CASE Prune
  BY <1>2 DEF Prune, EndSessions, OwesInv, handlerVars, endVars
<1>3. CASE PhoneDrops
  BY <1>3 DEF PhoneDrops, OwesInv, handlerVars, endVars
<1>4. CASE \/ Talk \/ MediaSocketOpens \/ FarEndHangsUp \/ StreamRefused
           \/ HangupWebhook \/ PumpEnds \/ NoEngine \/ PhoneRetain
           \/ PhoneTells \/ EndCall \/ UNCHANGED vars
  <2>1. UNCHANGED <<session, state, grace, owed, finalized>>
    BY <1>4 DEF Talk, MediaSocketOpens, FarEndHangsUp, StreamRefused,
       HangupWebhook, PumpEnds, NoEngine, PhoneRetain, PhoneTells, EndCall,
       vars, roomVars, handlerVars, endVars
  <2>. QED
    BY <2>1 DEF OwesInv
<1>. QED
  BY <1>1, <1>2, <1>3, <1>4 DEF PhoneLeaving

(* Every step keeps the room coherent. *)
LEMMA CohStep ==
  ASSUME CohInv, [Next]_vars PROVE CohInv'
  BY TypeKeeps, RoomKeeps, JoinOwes, ConnOwes, OthersOwe
     DEF CohInv, Next, Joining

(* One live entry per person, never more than the room holds, the phone    *)
(* only in the room of its own session, and no session ended while its     *)
(* room stands (rooms.rs `join`, `remove`, `prune`, `finish` of both kinds *)
(* of leaving).                                                            *)
THEOREM RoomAlwaysCoheres == Spec => []RoomCoheres
<1>1. Init => CohInv
  BY CohInit
<1>2. CohInv /\ [Next]_vars => CohInv'
  BY CohStep
<1>3. CohInv => RoomCoheres
  BY DEF CohInv, PeersInv, RoomCoheres
<1>. QED
  BY <1>1, <1>2, <1>3, PTL DEF Spec

-----------------------------------------------------------------------------
(* The telephone leaves its room once.                                     *)

(* The bridge has taken the phone out of its room, or found it gone. *)
Departed == {"telling", "ending", "over"}

PhoneInv ==
  /\ dropping => bridge \in {"leaving", "failing", "taken"}
  /\ dropping \/ bridge \in Departed => PhoneEntry \notin peers
  /\ bridge \in {"parked", "claimed", "taken"} => Phone \notin deaf
  /\ bridge \in {"parked", "claimed"} /\ session = {1} => PhoneEntry \in peers
  /\ uncut => session # {1} \/ bridge = "over"
  /\ silent # {} => bridge \in Departed
  /\ \A s, t \in silent : s = t

(* What a step has to show that leaves the bridge where it is. *)
LEMMA StaysWithPhone ==
  ASSUME PhoneInv, UNCHANGED <<bridge, dropping, uncut, silent>>,
         Phone \in deaf' => Phone \in deaf,
         session' = {1} => session = {1},
         PhoneEntry \in peers' => PhoneEntry \in peers,
         session' = {1} /\ PhoneEntry \in peers /\ Phone \notin deaf =>
           PhoneEntry \in peers'
  PROVE  PhoneInv'
  BY DEF PhoneInv

(* A broadcast keeps a phone that listens. *)
LEMMA BroadcastKeepsPhone ==
  ASSUME Broadcast
  PROVE  /\ PhoneEntry \in peers' => PhoneEntry \in peers
         /\ PhoneEntry \in peers /\ Phone \notin deaf => PhoneEntry \in peers'
  BY DEF Broadcast, Heard, PhoneEntry

(* Nobody's join evicts the phone or makes its room again. *)
LEMMA JoinKeepsPhone ==
  ASSUME CohInv, PhoneInv, NEW h \in Humans, NEW c \in Conns,
         Join(h, c) \/ JoinFull(h, c)
  PROVE  PhoneInv'
<1>1. PhoneEntry \in peers' <=> PhoneEntry \in peers
  BY RoomAssumption DEF Join, JoinFull, Others, PhoneEntry
<1>2. session' = {1} => session = {1}
  BY DEF Join, JoinFull, CohInv, TypeOK
<1>3. UNCHANGED <<bridge, dropping, uncut, silent, deaf>>
  BY DEF Join, JoinFull, bridgeVars, legVars, historyVars
<1>. QED
  BY <1>1, <1>2, <1>3, StaysWithPhone

(* The phone has no connection of its own, and nobody hangs up for a room  *)
(* that stands.                                                            *)
LEMMA ConnKeepsPhone ==
  ASSUME CohInv, PhoneInv, NEW c \in Conns,
         SocketFails(c) \/ Close(c) \/ Handling(c) \/ Waiting(c)
  PROVE  PhoneInv'
<1>. USE DEF CohInv
<1>1. CASE \/ SocketFails(c) \/ Close(c) \/ Superseded(c) \/ Retain(c)
           \/ LeftOthers(c) \/ Finalize(c) \/ GraceReturns(c)
           \/ GraceFinalizes(c)
  <2>1. UNCHANGED <<session, bridge, dropping, uncut, silent>>
    BY <1>1 DEF SocketFails, Close, Superseded, Retain, LeftOthers, Finalize,
       GraceReturns, GraceFinalizes, roomVars, bridgeVars, legVars, historyVars
  <2>2. /\ Phone \in deaf' => Phone \in deaf
        /\ PhoneEntry \in peers' <=> PhoneEntry \in peers
    BY <1>1, RoomAssumption DEF SocketFails, Close, Superseded, Retain,
       LeftOthers, Finalize, GraceReturns, GraceFinalizes, roomVars, EntryOf,
       PhoneEntry
  <2>. QED
    BY <2>1, <2>2, StaysWithPhone
<1>2. CASE LeftPhoneOnly(c) \/ Tell(c)
  <2>1. /\ UNCHANGED <<session, deaf, bridge, dropping, uncut, silent>>
        /\ Broadcast
    BY <1>2 DEF LeftPhoneOnly, Tell, bridgeVars, legVars, historyVars
  <2>. QED
    BY <2>1, BroadcastKeepsPhone, StaysWithPhone
<1>3. CASE LeftLast(c) \/ GraceElapses(c)
  <2>1. /\ UNCHANGED <<deaf, bridge, dropping, uncut, silent>>
        /\ session' = {} \/ UNCHANGED <<session, peers>>
        /\ peers' \subseteq peers
    BY <1>3 DEF LeftLast, GraceElapses, bridgeVars, legVars, historyVars
  <2>. QED
    BY <2>1, StaysWithPhone
<1>4. CASE LastHangsUp(c) \/ GraceHangsUp(c)
  <2>1. /\ UNCHANGED <<session, peers, deaf, bridge, dropping, silent>>
        /\ uncut' = uncut \/ owed[c] = 1
    BY <1>4 DEF LastHangsUp, GraceHangsUp, HangupOrphanedLeg, RequestHangup,
       roomVars, bridgeVars, historyVars
  <2>2. owed[c] \notin session
    BY <1>4 DEF LastHangsUp, GraceHangsUp, OwesInv
  <2>. QED
    BY <2>1, <2>2 DEF PhoneInv
<1>. QED
  BY <1>1, <1>2, <1>3, <1>4 DEF Handling, Waiting

(* The steps of the telephone, of a broadcast and of the pruning loop. *)
LEMMA OthersKeepPhone ==
  ASSUME CohInv, PhoneInv,
         \/ Prune \/ Talk \/ MediaSocketOpens \/ FarEndHangsUp \/ StreamRefused
         \/ HangupWebhook \/ PumpEnds \/ NoEngine \/ PhoneLeaving
         \/ UNCHANGED vars
  PROVE  PhoneInv'
<1>1. CASE Prune \/ Talk
  <2>1. /\ UNCHANGED <<deaf, bridge, dropping, uncut, silent>> /\ Broadcast
        /\ session' = session \/ session' = {}
    BY <1>1 DEF Prune, Talk, handlerVars, bridgeVars, legVars, historyVars
  <2>. QED
    BY <2>1, BroadcastKeepsPhone, StaysWithPhone
<1>2. CASE FarEndHangsUp \/ UNCHANGED vars
  <2>1. UNCHANGED <<roomVars, deaf, bridge, dropping, uncut, silent>>
    BY <1>2 DEF FarEndHangsUp, vars, handlerVars, bridgeVars, legVars,
       historyVars
  <2>. QED
    BY <2>1, StaysWithPhone DEF roomVars
<1>3. CASE MediaSocketOpens \/ StreamRefused \/ HangupWebhook \/ NoEngine
  <2>1. /\ UNCHANGED <<roomVars, deaf, dropping, uncut, silent>>
        /\ \/ bridge' = bridge
           \/ bridge = "parked" /\ bridge' \in {"claimed", "taken"}
           \/ bridge = "claimed" /\ bridge' = "failing"
    BY <1>3 DEF MediaSocketOpens, StreamRefused, HangupWebhook, NoEngine,
       handlerVars, legVars, historyVars
  <2>. QED
    BY <2>1 DEF PhoneInv, Departed, roomVars
<1>4. CASE PumpEnds
  <2>1. /\ UNCHANGED <<roomVars, dropping, uncut, silent>>
        /\ bridge = "claimed" /\ bridge' = "leaving"
    BY <1>4 DEF PumpEnds, legVars, historyVars
  <2>. QED
    BY <2>1 DEF PhoneInv, Departed, roomVars
<1>5. CASE PhoneRetain
  <2>1. /\ UNCHANGED <<session, deaf, uncut, silent>>
        /\ PhoneEntry \notin peers' /\ ~dropping
        /\ bridge \in {"leaving", "failing", "taken"}
        /\ \/ dropping' /\ bridge' = bridge
           \/ ~dropping' /\ bridge' \in {"ending", "over"}
    BY <1>5 DEF PhoneRetain, AfterRemove, handlerVars, legVars, historyVars
  <2>. QED
    BY <2>1 DEF PhoneInv, Departed
<1>6. CASE PhoneDrops
  <2>1. /\ UNCHANGED <<peers, deaf, uncut>> /\ dropping /\ ~dropping'
        /\ session' = session \/ session' = {}
        /\ silent' \subseteq silent \cup session
        /\ bridge' \in Departed
    BY <1>6 DEF PhoneDrops, AfterRemove, handlerVars, legVars, Departed
  <2>2. silent = {} /\ \A s, t \in session : s = t
    BY <2>1 DEF PhoneInv, CohInv, OneSession, Departed
  <2>. QED
    BY <2>1, <2>2 DEF PhoneInv, Departed
<1>7. CASE PhoneTells
  <2>1. /\ UNCHANGED <<session, deaf, dropping, uncut, silent>> /\ Broadcast
        /\ bridge = "telling" /\ bridge' = "ending"
    BY <1>7 DEF PhoneTells, handlerVars, legVars, historyVars
  <2>. QED
    BY <2>1, BroadcastKeepsPhone DEF PhoneInv, Departed
<1>8. CASE EndCall
  <2>1. /\ UNCHANGED <<session, peers, deaf, dropping, silent>>
        /\ bridge = "ending" /\ bridge' = "over"
    BY <1>8 DEF EndCall, handlerVars, roomVars, historyVars
  <2>. QED
    BY <2>1 DEF PhoneInv, Departed
<1>. QED
  BY <1>1, <1>2, <1>3, <1>4, <1>5, <1>6, <1>7, <1>8 DEF PhoneLeaving

(* The phone starts parked, in its room. *)
LEMMA PhoneInit ==
  ASSUME Init PROVE PhoneInv
  BY DEF Init, PhoneInv, Departed

(* Every step keeps the phone's leaving in order. *)
LEMMA PhoneStep ==
  ASSUME CohInv, PhoneInv, [Next]_vars PROVE PhoneInv'
  BY JoinKeepsPhone, ConnKeepsPhone, OthersKeepPhone DEF Next

-----------------------------------------------------------------------------
(* Somebody whose connection works keeps a room from being taken away. *)
LEMMA AttendedStays ==
  ASSUME CohInv, Attended, [Next]_vars PROVE session' = session
<1>1. PICK p \in peers :
        p.id # Phone /\ state[p.conn] = "open" /\ p.conn \notin deaf
  BY DEF Attended, IsPhone
<1>2. peers # {} /\ session # {}
  BY <1>1 DEF CohInv, PeersInv
<1>3. CASE \E h \in Humans, c \in Conns : Join(h, c) \/ JoinFull(h, c)
  BY <1>2, <1>3 DEF Join, JoinFull
<1>4. CASE \E c \in Conns : LeftLast(c)
  BY <1>2, <1>4 DEF LeftLast
<1>5. CASE \E c \in Conns : GraceElapses(c)
  BY <1>1, <1>5 DEF GraceElapses, StillOrphaned, has_human_peer, IsPhone
<1>6. CASE Prune
  <2>1. Heard # {}
    BY <1>1 DEF Heard
  <2>. QED
    BY <1>6, <2>1 DEF Prune
<1>7. CASE PhoneDrops
  BY <1>2, <1>7 DEF PhoneDrops
<1>8. CASE \E c \in Conns :
             \/ SocketFails(c) \/ Close(c) \/ Superseded(c) \/ Retain(c)
             \/ LeftPhoneOnly(c) \/ LeftOthers(c) \/ Finalize(c)
             \/ LastHangsUp(c) \/ Tell(c)
             \/ GraceReturns(c) \/ GraceHangsUp(c) \/ GraceFinalizes(c)
  BY <1>8 DEF SocketFails, Close, Superseded, Retain, LeftPhoneOnly,
              LeftOthers, Finalize, LastHangsUp, Tell, GraceReturns,
              GraceHangsUp, GraceFinalizes, roomVars
<1>9. CASE \/ Talk \/ MediaSocketOpens \/ FarEndHangsUp \/ StreamRefused
           \/ HangupWebhook \/ PumpEnds \/ NoEngine \/ PhoneRetain
           \/ PhoneTells \/ EndCall \/ UNCHANGED vars
  BY <1>9 DEF Talk, MediaSocketOpens, FarEndHangsUp, StreamRefused,
              HangupWebhook, PumpEnds, NoEngine, PhoneRetain, PhoneTells,
              EndCall, vars, roomVars
<1>. QED
  BY <1>3, <1>4, <1>5, <1>6, <1>7, <1>8, <1>9
     DEF Next, Handling, Waiting, PhoneLeaving

(* A room is never torn down, nor given another session, under a person    *)
(* who is in it (session.rs, finish_after_phone_orphan; rooms.rs,          *)
(* end_orphaned_phone_room).                                               *)
THEOREM RoomStaysForItsPeople == Spec => RoomOutlivesItsPeople
<1>1. Init => CohInv
  BY CohInit
<1>2. CohInv /\ [Next]_vars => CohInv'
  BY CohStep
<1>3. CohInv /\ [Next]_vars => [Attended => session' = session]_vars
  BY AttendedStays
<1>. QED
  BY <1>1, <1>2, <1>3, PTL DEF Spec, RoomOutlivesItsPeople

-----------------------------------------------------------------------------
(* No session is lost: the safety half of EverySessionIsFinalized.         *)

(* A handler or a grace task has still to end the session. *)
Owing(s) ==
  \E c \in Conns :
    /\ owed[c] = s
    /\ state[c] = "finalize" \/ grace[c] \in {"hangup", "finalize"}

(* A session has its room, or is ended, or somebody is about to end it, or *)
(* its room went with the phone, or its end could not be written.          *)
SessionsKept ==
  \A s \in 1 .. sessions :
    s \in session \cup finalized \cup silent \cup lost \/ Owing(s)

(* What a step has to show that opens no room. *)
LEMMA StaysKept ==
  ASSUME SessionsKept, sessions' = sessions,
         session \cup finalized \cup silent \cup lost \subseteq
           (session \cup finalized \cup silent \cup lost)',
         \A s \in 1 .. sessions :
           Owing(s) => Owing(s)' \/ s \in finalized' \cup lost'
  PROVE  SessionsKept'
  BY DEF SessionsKept

(* A session that is ended, or could not be, is no longer owed. *)
LEMMA EndingKeepsSessions ==
  ASSUME CohInv, SessionsKept, NEW c \in Conns,
         Finalize(c) \/ GraceFinalizes(c)
  PROVE  SessionsKept'
<1>. USE DEF CohInv, TypeOK
<1>1. UNCHANGED <<session, sessions, silent>>
  BY DEF Finalize, GraceFinalizes, roomVars, historyVars
<1>2. /\ finalized \cup lost \subseteq finalized' \cup lost'
      /\ owed[c] \in finalized' \cup lost'
  BY DEF Finalize, GraceFinalizes, EndSessions
<1>3. \A d \in Conns \ {c} : UNCHANGED <<state[d], grace[d], owed[d]>>
  BY DEF Finalize, GraceFinalizes
<1>4. \A s \in 1 .. sessions :
        Owing(s) => Owing(s)' \/ s \in finalized' \cup lost'
  BY <1>2, <1>3 DEF Owing
<1>. QED
  BY <1>1, <1>2, <1>4, StaysKept

(* The steps of a connection: who takes the room away owes its session. *)
LEMMA ConnKeepsSessions ==
  ASSUME CohInv, SessionsKept, NEW c \in Conns,
         SocketFails(c) \/ Close(c) \/ Handling(c) \/ Waiting(c)
  PROVE  SessionsKept'
<1>. USE DEF CohInv, TypeOK
<1>1. CASE \/ SocketFails(c) \/ Close(c) \/ Superseded(c) \/ Retain(c)
           \/ LeftPhoneOnly(c) \/ LeftOthers(c) \/ Tell(c)
  <2>1. UNCHANGED <<session, sessions, endVars, silent>>
    BY <1>1 DEF SocketFails, Close, Superseded, Retain, LeftPhoneOnly,
       LeftOthers, Tell, roomVars, historyVars
  <2>2. state[c] # "finalize" /\ grace[c] \in {"none", "waiting"}
    BY <1>1 DEF SocketFails, Close, Superseded, Retain, LeftPhoneOnly,
       LeftOthers, Tell, OwesInv, GraceStates
  <2>3. \A d \in Conns \ {c} : UNCHANGED <<state[d], grace[d], owed[d]>>
    <3>1. CASE Retain(c)
      BY <3>1, RetainMoves DEF Retain
    <3>2. CASE \/ SocketFails(c) \/ Close(c) \/ Superseded(c)
               \/ LeftPhoneOnly(c) \/ LeftOthers(c) \/ Tell(c)
      BY <3>2 DEF SocketFails, Close, Superseded, LeftPhoneOnly, LeftOthers,
                  Tell
    <3>. QED
      BY <1>1, <3>1, <3>2
  <2>4. \A s \in 1 .. sessions : Owing(s) => Owing(s)'
    BY <2>2, <2>3 DEF Owing
  <2>. QED
    BY <2>1, <2>4, StaysKept DEF endVars
<1>2. CASE LastHangsUp(c) \/ GraceReturns(c) \/ GraceHangsUp(c)
  <2>1. UNCHANGED <<session, sessions, endVars, silent>>
    BY <1>2 DEF LastHangsUp, GraceReturns, GraceHangsUp, roomVars, historyVars
  <2>2. \/ state[c] # "finalize" /\ grace[c] \in {"none", "waiting"}
        \/ owed'[c] = owed[c] /\ grace'[c] = "finalize"
    BY <1>2 DEF LastHangsUp, GraceReturns, GraceHangsUp, OwesInv, GraceStates
  <2>3. \A d \in Conns \ {c} : UNCHANGED <<state[d], grace[d], owed[d]>>
    BY <1>2 DEF LastHangsUp, GraceReturns, GraceHangsUp
  <2>4. \A s \in 1 .. sessions : Owing(s) => Owing(s)'
    BY <2>2, <2>3 DEF Owing
  <2>. QED
    BY <2>1, <2>4, StaysKept DEF endVars
<1>3. CASE LeftLast(c)
  <2>1. PICK mine \in 1 .. sessions :
          session = {mine} /\ owed' = [owed EXCEPT ![c] = mine]
    BY <1>3, LastMoves
  <2>2. state[c] # "finalize" /\ grace[c] = "none" /\ state'[c] = "finalize"
    BY <1>3 DEF LeftLast, OwesInv
  <2>3. UNCHANGED <<sessions, finalized, lost, silent>>
    BY <1>3 DEF LeftLast, endVars, historyVars
  <2>4. \A d \in Conns \ {c} : UNCHANGED <<state[d], grace[d], owed[d]>>
    BY <1>3, <2>1 DEF LeftLast
  <2>5. Owing(mine)'
    BY <2>1, <2>2 DEF Owing
  <2>6. \A s \in 1 .. sessions : Owing(s) => Owing(s)'
    BY <2>2, <2>4 DEF Owing
  <2>. QED
    BY <2>1, <2>3, <2>5, <2>6 DEF SessionsKept
<1>4. CASE GraceElapses(c)
  <2>1. UNCHANGED <<sessions, state, finalized, lost, silent>>
    BY <1>4 DEF GraceElapses, endVars, historyVars
  <2>2. \A d \in Conns \ {c} : UNCHANGED <<grace[d], owed[d]>>
    BY <1>4 DEF GraceElapses
  <2>3. \A s \in 1 .. sessions : Owing(s) => Owing(s)'
    <3>1. grace[c] = "waiting" /\ state[c] = "gone"
      BY <1>4 DEF GraceElapses, OwesInv
    <3>. QED
      BY <2>1, <2>2, <3>1 DEF Owing
  <2>4. CASE StillOrphaned(owed[c])
    <3>1. session = {owed[c]} /\ grace'[c] = "hangup" /\ owed'[c] = owed[c]
      BY <1>4, <2>4 DEF GraceElapses, StillOrphaned
    <3>2. Owing(owed[c])'
      BY <3>1 DEF Owing
    <3>. QED
      BY <2>1, <2>3, <3>1, <3>2 DEF SessionsKept
  <2>5. CASE ~StillOrphaned(owed[c])
    <3>1. session' = session
      BY <1>4, <2>5 DEF GraceElapses
    <3>. QED
      BY <2>1, <2>3, <3>1, StaysKept
  <2>. QED
    BY <2>4, <2>5
<1>. QED
  BY <1>1, <1>2, <1>3, <1>4, EndingKeepsSessions DEF Handling, Waiting

(* A join opens a room at most. *)
LEMMA JoinKeepsSessions ==
  ASSUME CohInv, SessionsKept, NEW h \in Humans, NEW c \in Conns, Join(h, c)
  PROVE  SessionsKept'
<1>1. sessions \in Nat /\ UNCHANGED <<grace, owed, finalized, lost, silent>>
  BY DEF CohInv, TypeOK, Join, endVars
<1>2. \A d \in Conns : state[d] = "finalize" => state'[d] = "finalize"
  BY DEF Join, NextConn
<1>3. \A s \in 1 .. sessions : Owing(s) => Owing(s)'
  BY <1>1, <1>2 DEF Owing
<1>4. CASE session = {}
  <2>1. session' = {sessions + 1} /\ sessions' = sessions + 1
    BY <1>4 DEF Join
  <2>. QED
    BY <1>1, <1>3, <1>4, <2>1 DEF SessionsKept
<1>5. CASE session # {}
  <2>1. UNCHANGED <<session, sessions>>
    BY <1>5 DEF Join
  <2>. QED
    BY <1>1, <1>3, <2>1, StaysKept
<1>. QED
  BY <1>4, <1>5

(* A room that is pruned is ended, and one the phone leaves is silent. *)
LEMMA OthersKeepSessions ==
  ASSUME CohInv, SessionsKept,
         \/ \E h \in Humans, c \in Conns : JoinFull(h, c)
         \/ Prune \/ Talk \/ MediaSocketOpens \/ FarEndHangsUp \/ StreamRefused
         \/ HangupWebhook \/ PumpEnds \/ NoEngine \/ PhoneLeaving
         \/ UNCHANGED vars
  PROVE  SessionsKept'
<1>1. CASE \E h \in Humans, c \in Conns : JoinFull(h, c)
  <2>1. /\ UNCHANGED <<session, sessions, grace, owed, endVars, silent>>
        /\ \A d \in Conns : state[d] = "finalize" => state'[d] = "finalize"
    BY <1>1 DEF JoinFull, NextConn, historyVars, CohInv, TypeOK
  <2>2. \A s \in 1 .. sessions : Owing(s) => Owing(s)'
    BY <2>1 DEF Owing
  <2>. QED
    BY <2>1, <2>2, StaysKept DEF endVars
<1>2. CASE Prune \/ PhoneDrops
  <2>1. /\ UNCHANGED <<sessions, handlerVars>>
        /\ session \cup finalized \cup silent \cup lost \subseteq
             (session \cup finalized \cup silent \cup lost)'
    BY <1>2 DEF Prune, PhoneDrops, EndSessions, endVars
  <2>2. \A s \in 1 .. sessions : Owing(s) => Owing(s)'
    BY <2>1 DEF Owing, handlerVars
  <2>. QED
    BY <2>1, <2>2, StaysKept
<1>3. CASE \/ Talk \/ MediaSocketOpens \/ FarEndHangsUp \/ StreamRefused
           \/ HangupWebhook \/ PumpEnds \/ NoEngine \/ PhoneRetain
           \/ PhoneTells \/ EndCall \/ UNCHANGED vars
  <2>1. UNCHANGED <<session, sessions, state, grace, owed, finalized, lost,
                    silent>>
    BY <1>3 DEF Talk, MediaSocketOpens, FarEndHangsUp, StreamRefused,
       HangupWebhook, PumpEnds, NoEngine, PhoneRetain, PhoneTells, EndCall,
       vars, roomVars, handlerVars, endVars, historyVars
  <2>2. \A s \in 1 .. sessions : Owing(s) => Owing(s)'
    BY <2>1 DEF Owing
  <2>. QED
    BY <2>1, <2>2, StaysKept
<1>. QED
  BY <1>1, <1>2, <1>3 DEF PhoneLeaving

(* Every session a room has ever had still has its room, is ended, is owed *)
(* an end by the handler or the grace task that took the room away, lost   *)
(* its room to the phone, or could not be written, and the phone takes one *)
(* room at most: reconnects, departures that pass between each other's two *)
(* locks, and grace windows that overlap forget no other (rooms.rs,        *)
(* lib.rs, session.rs).                                                    *)
THEOREM NoSessionIsForgotten ==
  Spec => [](SessionsKept /\ \A s, t \in silent : s = t)
<1>1. ASSUME Init PROVE CohInv /\ PhoneInv /\ SessionsKept
  <2>1. session = {1} /\ sessions = 1
    BY <1>1 DEF Init
  <2>. QED
    BY <1>1, <2>1, CohInit, PhoneInit DEF SessionsKept
<1>2. CohInv /\ PhoneInv /\ SessionsKept /\ [Next]_vars
        => CohInv' /\ PhoneInv' /\ SessionsKept'
  BY CohStep, PhoneStep, ConnKeepsSessions, JoinKeepsSessions,
     OthersKeepSessions DEF Next
<1>3. PhoneInv => \A s, t \in silent : s = t
  BY DEF PhoneInv
<1>. QED
  BY <1>1, <1>2, <1>3, PTL DEF Spec

-----------------------------------------------------------------------------
(* No leg is left alone: the safety half of AbandonedLegIsHungUp.          *)

(* A handler has found only the phone left, or its grace task waits for    *)
(* somebody to come back.                                                  *)
WaitedFor ==
  \E c \in Conns :
    owed[c] = 1 /\ (state[c] = "orphaning" \/ grace[c] = "waiting")

(* Somebody has taken the room of the call away and hangs up next. *)
HangingUp ==
  \E c \in Conns :
    owed[c] = 1 /\ (state[c] \in {"finalize", "hangup"} \/ grace[c] = "hangup")

(* A departure has yet to look at the room a second time. *)
LookedAfter == dropping \/ \E c \in Conns : state[c] = "dropping"

(* The bridge is on its way to end_call. *)
Bridged == bridge \in {"leaving", "telling", "failing", "ending"}

(* What has become of the leg when nobody will hang up. *)
GivenUp ==
  \/ bridge \in {"parked", "taken", "over"} /\ uncut
  \/ bridge \in {"taken", "over"} /\ 1 \in silent \cup pruned

(* A leg that is up has its row, but for one whose bridge ended the call   *)
(* without reaching the carrier.                                           *)
Known == ~hook /\ (live \/ (bridge = "over" /\ uncut))

(* A phone whose room is gone. *)
GoneInHand ==
  session # {1} => Bridged \/ bridge = "claimed" \/ HangingUp \/ GivenUp

(* A phone whose people have left, one handler after the other. *)
LeftInHand ==
  session = {1} /\ visited /\ ~has_human_peer /\ ~unseen /\ ~GivenUp =>
    IF PhoneEntry \in peers THEN WaitedFor ELSE Bridged \/ LookedAfter

LegInv == leg = "up" => Known /\ GoneInHand /\ LeftInHand

(* Without people there is at most the phone in a room. *)
LEMMA OnlyPhone ==
  ASSUME CohInv, ~has_human_peer PROVE peers \subseteq {PhoneEntry}
  BY RoomAssumption DEF CohInv, TypeOK, Entries, has_human_peer, IsPhone,
     PhoneEntry

(* Whom a broadcast drops, it drops unseen, and not a phone that listens. *)
LEMMA BroadcastKeepsLeg ==
  ASSUME CohInv, PhoneInv, LeftInHand, session' = session, Broadcast,
         UNCHANGED <<bridge, dropping, uncut, visited, silent, pruned>>,
         WaitedFor => WaitedFor', LookedAfter => LookedAfter'
  PROVE  LeftInHand'
<1>. SUFFICES ASSUME session' = {1}, visited', ~has_human_peer', ~unseen',
                     ~GivenUp'
              PROVE  IF PhoneEntry \in peers' THEN WaitedFor'
                     ELSE Bridged' \/ LookedAfter'
  BY DEF LeftInHand
<1>1. session = {1} /\ visited /\ ~GivenUp
  BY DEF GivenUp
<1>2. ~has_human_peer /\ ~unseen
  BY <1>1 DEF Broadcast, Accompanied, has_human_peer, Heard
<1>3. IF PhoneEntry \in peers THEN WaitedFor ELSE Bridged \/ LookedAfter
  BY <1>1, <1>2 DEF LeftInHand
<1>4. bridge \in BridgeStates
  BY DEF CohInv, TypeOK
<1>5. PhoneEntry \in peers /\ PhoneEntry \notin peers' => Bridged
  BY <1>4, BroadcastKeepsPhone DEF PhoneInv, Departed, Bridged, BridgeStates
<1>6. PhoneEntry \in peers' => PhoneEntry \in peers
  BY BroadcastKeepsPhone
<1>7. Bridged => Bridged'
  BY DEF Bridged
<1>. QED
  BY <1>3, <1>5, <1>6, <1>7

(* A full room evicts nobody. *)
LEMMA FullStays ==
  ASSUME CohInv, NEW h \in Humans, NEW c \in Conns, JoinFull(h, c)
  PROVE  peers' = peers
<1>1. /\ IsFiniteSet(peers) /\ Cardinality(peers) <= MAX_PEERS
      /\ Cardinality(Others(h)) >= MAX_PEERS /\ Others(h) \in SUBSET peers
      /\ MAX_PEERS \in Nat /\ peers' = Others(h)
  BY RoomAssumption DEF CohInv, PeersInv, JoinFull, Others
<1>2. IsFiniteSet(Others(h)) /\ Cardinality(Others(h)) <= Cardinality(peers)
  BY <1>1, FS_Subset
<1>3. Cardinality(Others(h)) \in Nat /\ Cardinality(peers) \in Nat
  BY <1>1, <1>2, FS_CardinalityType
<1>4. Cardinality(Others(h)) = Cardinality(peers)
  BY <1>1, <1>2, <1>3
<1>. QED
  BY <1>1, <1>4, FS_Subset

(* What a step has to show that leaves the leg and its bridge where they   *)
(* are.                                                                    *)
LEMMA StaysWithLeg ==
  ASSUME LegInv, UNCHANGED <<bridgeVars, legVars, historyVars>>,
         HangingUp => HangingUp',
         session = {1} => session' = session \/ HangingUp',
         LeftInHand => LeftInHand'
  PROVE  LegInv'
<1>1. (Known => Known') /\ (GivenUp => GivenUp') /\ (Bridged => Bridged')
        /\ leg' = leg /\ bridge' = bridge
  BY DEF Known, GivenUp, Bridged, bridgeVars, legVars, historyVars
<1>2. GoneInHand => GoneInHand'
  BY <1>1 DEF GoneInHand
<1>. QED
  BY <1>1, <1>2 DEF LegInv

(* And in the room as well. *)
LEMMA StaysInHand ==
  ASSUME UNCHANGED <<session, peers, bridgeVars, legVars, historyVars,
                     unseen>>,
         session = {1} /\ ~has_human_peer /\ WaitedFor => WaitedFor',
         session = {1} /\ peers = {} /\ LookedAfter => LookedAfter',
         CohInv
  PROVE  LeftInHand => LeftInHand'
<1>1. ~has_human_peer /\ PhoneEntry \notin peers => peers = {}
  BY OnlyPhone
<1>2. /\ GivenUp' <=> GivenUp
      /\ Bridged' <=> Bridged
      /\ has_human_peer' <=> has_human_peer
  BY DEF GivenUp, Bridged, has_human_peer, bridgeVars, legVars, historyVars
<1>. QED
  BY <1>1, <1>2 DEF LeftInHand, historyVars

(* A join brings somebody back, or opens a room that is not the call's. *)
LEMMA JoinKeepsLeg ==
  ASSUME CohInv, LegInv, NEW h \in Humans, NEW c \in Conns, Join(h, c)
  PROVE  LegInv'
<1>1. has_human_peer'
  <2>1. [id |-> h, conn |-> c] \in peers' /\ h # Phone
    BY RoomAssumption DEF Join
  <2>. QED
    BY <2>1 DEF has_human_peer, IsPhone
<1>2. session = {1} => session' = {1}
  BY DEF Join
<1>3. \A d \in Conns : \A x \in {"finalize", "hangup"} :
        state[d] = x => state'[d] = x
  BY DEF Join, NextConn
<1>4. UNCHANGED <<grace, owed, bridge, dropping, leg, live, hook, uncut,
                  silent, pruned>>
  BY DEF Join, bridgeVars, legVars
<1>5. /\ (HangingUp => HangingUp') /\ (GivenUp => GivenUp')
      /\ (Bridged => Bridged') /\ (Known => Known')
  BY <1>3, <1>4 DEF HangingUp, GivenUp, Bridged, Known
<1>6. GoneInHand => GoneInHand'
  BY <1>2, <1>4, <1>5 DEF GoneInHand
<1>7. LeftInHand'
  BY <1>1 DEF LeftInHand
<1>. QED
  BY <1>4, <1>5, <1>6, <1>7 DEF LegInv

(* A connection that fails, is replaced or leaves others behind. *)
LEMMA LeavingKeepsLeg ==
  ASSUME CohInv, LegInv, NEW c \in Conns,
         \/ SocketFails(c) \/ Close(c) \/ Superseded(c) \/ LeftOthers(c)
         \/ Finalize(c)
  PROVE  LegInv'
<1>. USE DEF CohInv, TypeOK
<1>1. /\ UNCHANGED <<roomVars, grace, owed, bridgeVars, legVars, historyVars,
                     unseen>>
      /\ \A d \in Conns \ {c} : state'[d] = state[d]
  BY DEF SocketFails, Close, Superseded, LeftOthers, Finalize
<1>2. /\ state[c] # "orphaning" /\ state[c] # "hangup"
      /\ state[c] = "finalize" => state'[c] = "hangup"
      /\ state[c] = "dropping" => session = {} \/ peers # {}
  BY DEF SocketFails, Close, Superseded, LeftOthers, Finalize
<1>3. HangingUp => HangingUp'
  BY <1>1, <1>2 DEF HangingUp
<1>4. (WaitedFor => WaitedFor')
        /\ (session = {1} /\ peers = {} /\ LookedAfter => LookedAfter')
  BY <1>1, <1>2 DEF WaitedFor, LookedAfter, bridgeVars
<1>. QED
  BY <1>1, <1>3, <1>4, StaysWithLeg, StaysInHand DEF roomVars

(* A departure that finds only the phone left waits, one that finds nobody *)
(* looks again.                                                            *)
LEMMA RetainKeepsLeg ==
  ASSUME CohInv, PhoneInv, LegInv, NEW c \in Conns, Retain(c)
  PROVE  LegInv'
<1>1. /\ UNCHANGED <<session, grace, bridgeVars, legVars, historyVars, unseen>>
      /\ state[c] = "closing" /\ grace[c] = "none"
      /\ peers' = peers \ EntryOf(c)
  BY DEF Retain, CohInv, OwesInv
<1>2. PICK mine \in 1 .. sessions :
        /\ session = {mine}
        /\ \/ /\ PhoneOnly(peers \ EntryOf(c))
              /\ state' = [state EXCEPT ![c] = "orphaning"]
              /\ owed' = [owed EXCEPT ![c] = mine]
           \/ /\ ~PhoneOnly(peers \ EntryOf(c))
              /\ state' = [state EXCEPT ![c] = "dropping"]
              /\ owed' = owed
  BY RetainMoves
<1>3. state \in [Conns -> HandlerStates] /\ owed \in [Conns -> 0 .. sessions]
  BY DEF CohInv, TypeOK
<1>4. HangingUp => HangingUp'
  BY <1>1, <1>2, <1>3 DEF HangingUp
<1>5. LeftInHand'
  <2>. SUFFICES ASSUME session' = {1}, ~has_human_peer'
                PROVE  IF PhoneEntry \in peers' THEN WaitedFor'
                       ELSE LookedAfter'
    BY DEF LeftInHand
  <2>1. mine = 1
    BY <1>1, <1>2
  <2>2. \A p \in peers' : IsPhone(p)
    BY DEF has_human_peer
  <2>3. CASE peers' = {}
    <3>1. state'[c] = "dropping"
      BY <1>1, <1>2, <1>3, <2>3 DEF PhoneOnly
    <3>. QED
      BY <2>3, <3>1 DEF LookedAfter
  <2>4. CASE peers' # {}
    <3>1. state'[c] = "orphaning" /\ owed'[c] = 1
      BY <1>1, <1>2, <1>3, <2>1, <2>2, <2>4 DEF PhoneOnly
    <3>2. PhoneEntry \in peers'
      <4>1. PICK p \in peers' : IsPhone(p)
        BY <2>2, <2>4
      <4>2. p = PhoneEntry
        BY <1>1, <4>1, RoomAssumption
           DEF CohInv, TypeOK, Entries, IsPhone, PhoneEntry
      <4>. QED
        BY <4>1, <4>2
    <3>. QED
      BY <3>1, <3>2 DEF WaitedFor
  <2>. QED
    BY <2>3, <2>4
<1>. QED
  BY <1>1, <1>4, <1>5, StaysWithLeg

(* PeerLeft, said before the waiting starts or as the last thing. *)
LEMMA TellingKeepsLeg ==
  ASSUME CohInv, PhoneInv, LegInv, NEW c \in Conns, LeftPhoneOnly(c) \/ Tell(c)
  PROVE  LegInv'
<1>. USE DEF CohInv, TypeOK
<1>1. /\ UNCHANGED <<session, owed, bridgeVars, legVars, historyVars>>
      /\ Broadcast
  BY DEF LeftPhoneOnly, Tell
<1>2. /\ \A d \in Conns \ {c} : UNCHANGED <<state[d], grace[d]>>
      /\ grace[c] = "none"
      /\ \/ state[c] = "telling"
         \/ state[c] = "orphaning" /\ grace'[c] = "waiting"
  BY DEF LeftPhoneOnly, Tell, OwesInv
<1>3. HangingUp => HangingUp'
  BY <1>1, <1>2 DEF HangingUp
<1>4. (WaitedFor => WaitedFor') /\ (LookedAfter => LookedAfter')
  BY <1>1, <1>2 DEF WaitedFor, LookedAfter, bridgeVars
<1>5. UNCHANGED <<bridge, dropping, uncut, visited, silent, pruned>>
  BY <1>1 DEF bridgeVars, legVars, historyVars
<1>6. LeftInHand => LeftInHand'
  BY <1>1, <1>4, <1>5, BroadcastKeepsLeg
<1>. QED
  BY <1>1, <1>3, <1>6, StaysWithLeg

(* Who takes the room of the call away hangs up next. *)
LEMMA LastKeepsLeg ==
  ASSUME CohInv, LegInv, NEW c \in Conns, LeftLast(c)
  PROVE  LegInv'
<1>1. PICK mine \in 1 .. sessions :
        session = {mine} /\ owed' = [owed EXCEPT ![c] = mine]
  BY LastMoves
<1>2. /\ UNCHANGED <<grace, bridgeVars, legVars, historyVars>>
      /\ session' = {} /\ state[c] = "dropping" /\ grace[c] = "none"
      /\ state' = [state EXCEPT ![c] = "finalize"]
  BY DEF LeftLast, CohInv, OwesInv
<1>3. state \in [Conns -> HandlerStates] /\ owed \in [Conns -> 0 .. sessions]
  BY DEF CohInv, TypeOK
<1>4. HangingUp => HangingUp'
  BY <1>1, <1>2, <1>3 DEF HangingUp
<1>5. session = {1} => HangingUp'
  BY <1>1, <1>2, <1>3 DEF HangingUp
<1>6. LeftInHand'
  BY <1>2 DEF LeftInHand
<1>. QED
  BY <1>2, <1>4, <1>5, <1>6, StaysWithLeg

(* A hangup reaches the carrier, or fails: then a bridge that has the leg  *)
(* will end the call, and a leg without one is given up.                   *)
LEMMA HangupKeepsLeg ==
  ASSUME CohInv, PhoneInv, LegInv, NEW c \in Conns,
         LastHangsUp(c) \/ GraceHangsUp(c)
  PROVE  LegInv'
<1>. USE DEF CohInv, TypeOK
<1>1. /\ UNCHANGED <<roomVars, bridgeVars, live, historyVars, unseen>>
      /\ HangupOrphanedLeg(owed[c])
      /\ state[c] = "hangup" \/ grace[c] = "hangup"
      /\ state[c] \notin {"orphaning", "dropping"} /\ grace[c] # "waiting"
      /\ \A d \in Conns \ {c} : UNCHANGED <<state[d], grace[d], owed[d]>>
  BY DEF LastHangsUp, GraceHangsUp, OwesInv
<1>. SUFFICES ASSUME leg' = "up" PROVE Known' /\ GoneInHand' /\ LeftInHand'
  BY DEF LegInv
<1>2. leg = "up" /\ hook' = hook /\ (uncut => uncut')
        /\ (owed[c] = 1 /\ live => uncut')
  BY <1>1 DEF HangupOrphanedLeg, RequestHangup
<1>3. Known /\ GoneInHand /\ LeftInHand
  BY <1>2 DEF LegInv
<1>4. Known'
  BY <1>1, <1>2, <1>3 DEF Known, bridgeVars
<1>5. owed[c] = 1 => uncut' /\ session # {1}
  BY <1>1, <1>2, <1>3 DEF Known, OwesInv
<1>6. owed[c] # 1 => uncut' = uncut
  BY <1>1 DEF HangupOrphanedLeg
<1>7. (GivenUp => GivenUp') /\ (Bridged <=> Bridged') /\ bridge' = bridge
  BY <1>1, <1>2 DEF GivenUp, Bridged, bridgeVars, historyVars
<1>8. GoneInHand'
  <2>1. CASE owed[c] = 1
    <3>1. Bridged \/ bridge \in {"claimed", "parked", "taken", "over"}
      BY DEF Bridged, BridgeStates
    <3>. QED
      BY <1>5, <1>7, <2>1, <3>1 DEF GoneInHand, GivenUp
  <2>2. CASE owed[c] # 1
    <3>1. HangingUp => HangingUp'
      BY <1>1, <2>2 DEF HangingUp
    <3>. QED
      BY <1>1, <1>3, <1>7, <3>1 DEF GoneInHand, roomVars
  <2>. QED
    BY <2>1, <2>2
<1>9. LeftInHand'
  <2>1. (WaitedFor => WaitedFor') /\ (LookedAfter => LookedAfter')
    BY <1>1 DEF WaitedFor, LookedAfter, bridgeVars
  <2>2. has_human_peer' <=> has_human_peer
    BY <1>1 DEF has_human_peer, roomVars
  <2>. QED
    BY <1>1, <1>3, <1>7, <2>1, <2>2 DEF LeftInHand, roomVars, historyVars
<1>. QED
  BY <1>4, <1>8, <1>9

(* A grace task lets go only of a call that it hangs up, or that is no     *)
(* longer its own.                                                         *)
LEMMA GraceKeepsLeg ==
  ASSUME CohInv, LegInv, NEW c \in Conns,
         GraceReturns(c) \/ GraceElapses(c) \/ GraceFinalizes(c)
  PROVE  LegInv'
<1>. USE DEF CohInv, TypeOK
<1>1. /\ UNCHANGED <<state, bridgeVars, legVars, historyVars, unseen>>
      /\ grace[c] \in {"waiting", "finalize"} /\ state[c] = "gone"
      /\ \A d \in Conns \ {c} : UNCHANGED <<grace[d], owed[d]>>
  BY DEF GraceReturns, GraceElapses, GraceFinalizes, OwesInv
<1>2. HangingUp => HangingUp'
  BY <1>1 DEF HangingUp
<1>3. CASE GraceReturns(c) \/ GraceFinalizes(c)
  <2>1. UNCHANGED <<session, peers>>
    BY <1>3 DEF GraceReturns, GraceFinalizes, roomVars
  <2>2. grace[c] = "waiting" => has_human_peer
    BY <1>3 DEF GraceReturns, GraceFinalizes
  <2>3. ~has_human_peer /\ WaitedFor => WaitedFor'
    BY <1>1, <2>2 DEF WaitedFor
  <2>4. LookedAfter => LookedAfter'
    BY <1>1 DEF LookedAfter, bridgeVars
  <2>5. LeftInHand => LeftInHand'
    BY <1>1, <2>1, <2>3, <2>4, StaysInHand
  <2>. QED
    BY <1>1, <1>2, <2>1, <2>5, StaysWithLeg
<1>4. CASE GraceElapses(c) /\ StillOrphaned(owed[c])
  <2>1. /\ session' = {} /\ session = {owed[c]}
        /\ grace'[c] = "hangup" /\ owed' = owed
    BY <1>4 DEF GraceElapses, StillOrphaned
  <2>2. session = {1} => HangingUp'
    BY <2>1 DEF HangingUp
  <2>3. LeftInHand'
    BY <2>1 DEF LeftInHand
  <2>. QED
    BY <1>1, <1>2, <2>2, <2>3, StaysWithLeg
<1>5. CASE GraceElapses(c) /\ ~StillOrphaned(owed[c])
  <2>1. UNCHANGED <<session, peers>>
    BY <1>5 DEF GraceElapses
  <2>2. session = {1} /\ ~has_human_peer => owed[c] # 1
    BY <1>5 DEF StillOrphaned
  <2>3. session = {1} /\ ~has_human_peer /\ WaitedFor => WaitedFor'
    BY <1>1, <2>2 DEF WaitedFor
  <2>4. LookedAfter => LookedAfter'
    BY <1>1 DEF LookedAfter, bridgeVars
  <2>5. LeftInHand => LeftInHand'
    BY <1>1, <2>1, <2>3, <2>4, StaysInHand
  <2>. QED
    BY <1>1, <1>2, <2>1, <2>5, StaysWithLeg
<1>. QED
  BY <1>3, <1>4, <1>5

(* A room that is full, that is pruned or that talks. *)
LEMMA RoomKeepsLeg ==
  ASSUME CohInv, PhoneInv, LegInv,
         (\E h \in Humans, c \in Conns : JoinFull(h, c)) \/ Prune \/ Talk
  PROVE  LegInv'
<1>1. CASE \E h \in Humans, c \in Conns : JoinFull(h, c)
  <2>1. PICK h \in Humans, c \in Conns : JoinFull(h, c)
    BY <1>1
  <2>2. UNCHANGED <<session, peers, grace, owed, bridgeVars, legVars,
                    historyVars, unseen>>
    BY <2>1, FullStays DEF JoinFull
  <2>3. \A d \in Conns :
          \A x \in {"orphaning", "dropping", "finalize", "hangup"} :
            state[d] = x => state'[d] = x
    BY <2>1 DEF JoinFull, NextConn, CohInv, TypeOK
  <2>4. /\ (HangingUp => HangingUp') /\ (WaitedFor => WaitedFor')
        /\ (LookedAfter => LookedAfter')
    BY <2>2, <2>3 DEF HangingUp, WaitedFor, LookedAfter, bridgeVars
  <2>5. LeftInHand => LeftInHand'
    BY <2>2, <2>4, StaysInHand
  <2>. QED
    BY <2>2, <2>4, <2>5, StaysWithLeg
<1>2. ASSUME UNCHANGED <<session, handlerVars, bridgeVars, legVars,
                        historyVars>>,
             Broadcast
      PROVE  LegInv'
  <2>1. /\ (HangingUp => HangingUp') /\ (WaitedFor => WaitedFor')
        /\ (LookedAfter => LookedAfter')
    BY <1>2 DEF HangingUp, WaitedFor, LookedAfter, handlerVars, bridgeVars
  <2>2. UNCHANGED <<bridge, dropping, uncut, visited, silent, pruned>>
    BY <1>2 DEF bridgeVars, legVars, historyVars
  <2>3. LeftInHand => LeftInHand'
    BY <1>2, <2>1, <2>2, BroadcastKeepsLeg
  <2>. QED
    BY <1>2, <2>1, <2>3, StaysWithLeg
<1>3. CASE Talk \/ (Prune /\ Heard # {})
  BY <1>2, <1>3 DEF Talk, Prune, historyVars
<1>4. CASE Prune /\ Heard = {}
  <2>1. /\ UNCHANGED <<handlerVars, bridgeVars, legVars, silent>>
        /\ session' = {} /\ pruned' = pruned \cup session
        /\ PhoneEntry \in peers => Phone \in deaf
    BY <1>4 DEF Prune, Heard, PhoneEntry
  <2>2. /\ (HangingUp => HangingUp') /\ (GivenUp => GivenUp')
        /\ (Bridged => Bridged') /\ (Known => Known')
    BY <2>1 DEF HangingUp, GivenUp, Bridged, Known, handlerVars, bridgeVars,
       legVars
  <2>3. session = {1} => Bridged \/ GivenUp'
    <3>1. bridge \in BridgeStates
      BY DEF CohInv, TypeOK
    <3>2. session = {1} => bridge \notin {"parked", "claimed"}
      BY <2>1 DEF PhoneInv
    <3>3. session = {1} /\ bridge \in {"taken", "over"} => GivenUp'
      BY <2>1 DEF GivenUp, bridgeVars
    <3>. QED
      BY <3>1, <3>2, <3>3 DEF Bridged, BridgeStates
  <2>4. GoneInHand => GoneInHand'
    BY <2>1, <2>2, <2>3 DEF GoneInHand, bridgeVars
  <2>5. LeftInHand'
    BY <2>1 DEF LeftInHand
  <2>. QED
    BY <2>1, <2>2, <2>4, <2>5 DEF LegInv, legVars
<1>. QED
  BY <1>1, <1>3, <1>4

(* The bridge before it takes the phone out of the room. *)
LEMMA BridgeKeepsLeg ==
  ASSUME CohInv, PhoneInv, LegInv,
         MediaSocketOpens \/ StreamRefused \/ PumpEnds \/ NoEngine
  PROVE  LegInv'
<1>1. /\ UNCHANGED <<roomVars, state, grace, owed, dropping, legVars,
                     historyVars, unseen>>
      /\ \/ bridge = "parked" /\ bridge' = "claimed"
         \/ bridge = "parked" /\ bridge' = "taken"
         \/ bridge = "claimed" /\ bridge' \in {"leaving", "failing"}
  BY DEF MediaSocketOpens, StreamRefused, PumpEnds, NoEngine, handlerVars
<1>2. Known => Known'
  BY <1>1 DEF Known, legVars
<1>3. (HangingUp => HangingUp') /\ (WaitedFor => WaitedFor')
  BY <1>1 DEF HangingUp, WaitedFor
<1>4. GoneInHand => GoneInHand'
  BY <1>1, <1>3 DEF GoneInHand, GivenUp, Bridged, roomVars, legVars
<1>5. LeftInHand => LeftInHand'
  <2>1. session = {1} => PhoneEntry \in peers /\ ~uncut
    BY <1>1 DEF PhoneInv
  <2>2. session = {1} => ~GivenUp
    BY <1>1, <2>1 DEF GivenUp
  <2>3. has_human_peer' <=> has_human_peer
    BY <1>1 DEF has_human_peer, roomVars
  <2>. QED
    BY <1>1, <1>3, <2>1, <2>2, <2>3 DEF LeftInHand, roomVars, historyVars
<1>. QED
  BY <1>1, <1>2, <1>4, <1>5 DEF LegInv, legVars

(* The phone takes its entry out, and the room with it when that is empty. *)
LEMMA PhoneLeavingKeepsLeg ==
  ASSUME CohInv, PhoneInv, LegInv, PhoneRetain \/ PhoneDrops
  PROVE  LegInv'
<1>1. /\ UNCHANGED <<state, grace, owed, legVars, visited, pruned, unseen>>
      /\ bridge \in {"leaving", "failing", "taken"}
      /\ Bridged => bridge' \in {bridge, "telling", "ending"}
      /\ bridge = "taken" => bridge' \in {"taken", "over"}
      /\ PhoneEntry \notin peers'
      /\ silent \subseteq silent'
  BY DEF PhoneRetain, PhoneDrops, AfterRemove, PhoneInv, handlerVars,
     historyVars, Bridged
<1>2. /\ Known => Known'
      /\ Bridged => Bridged'
      /\ GivenUp => GivenUp'
  BY <1>1 DEF Known, Bridged, GivenUp, legVars
<1>3. HangingUp => HangingUp'
  BY <1>1 DEF HangingUp
<1>4. CASE PhoneRetain
  <2>1. /\ UNCHANGED <<session, silent>> /\ peers' = peers \ {PhoneEntry}
        /\ \/ dropping'
           \/ PhoneEntry \notin peers /\ UNCHANGED <<peers, dropping>>
    BY <1>4 DEF PhoneRetain, historyVars
  <2>2. GoneInHand => GoneInHand'
    BY <1>1, <1>2, <1>3, <2>1 DEF GoneInHand
  <2>3. has_human_peer' <=> has_human_peer
    BY <2>1 DEF has_human_peer, IsPhone, PhoneEntry
  <2>4. LookedAfter => LookedAfter'
    BY <1>1, <2>1 DEF LookedAfter
  <2>5. dropping' => LookedAfter'
    BY DEF LookedAfter
  <2>6. LeftInHand => LeftInHand'
    BY <1>1, <1>2, <2>1, <2>3, <2>4, <2>5 DEF LeftInHand
  <2>. QED
    BY <1>1, <1>2, <2>2, <2>6 DEF LegInv, legVars
<1>5. CASE PhoneDrops
  <2>1. /\ peers' = peers /\ dropping
        /\ \/ /\ peers = {} /\ session' = {}
              /\ silent' = silent \cup session
           \/ peers # {} /\ UNCHANGED <<session, silent>>
        /\ bridge' # "taken"
    BY <1>5 DEF PhoneDrops, AfterRemove
  <2>2. session = {1} /\ session' # {1} => Bridged' \/ GivenUp'
    BY <1>1, <2>1 DEF GivenUp, Bridged
  <2>3. GoneInHand => GoneInHand'
    BY <1>1, <1>2, <1>3, <2>2 DEF GoneInHand
  <2>4. session' = {1} => has_human_peer'
    <3>1. PhoneEntry \notin peers
      BY <2>1 DEF PhoneInv
    <3>2. session' = {1} => peers # {}
      BY <2>1
    <3>3. peers # {} => has_human_peer
      BY <3>1, OnlyPhone
    <3>. QED
      BY <2>1, <3>2, <3>3 DEF has_human_peer
  <2>5. LeftInHand'
    BY <2>4 DEF LeftInHand
  <2>. QED
    BY <1>1, <1>2, <2>3, <2>5 DEF LegInv, legVars
<1>. QED
  BY <1>4, <1>5

(* What the bridge says, and how it ends the call. *)
LEMMA EndingKeepsLeg ==
  ASSUME CohInv, PhoneInv, LegInv, PhoneTells \/ EndCall
  PROVE  LegInv'
<1>1. CASE PhoneTells
  <2>1. /\ UNCHANGED <<session, handlerVars, dropping, legVars, historyVars>>
        /\ Broadcast /\ Bridged' /\ PhoneEntry \notin peers
    BY <1>1 DEF PhoneTells, Bridged, PhoneInv, Departed
  <2>2. Known => Known'
    BY <1>1, <2>1 DEF PhoneTells, Known, legVars
  <2>3. PhoneEntry \notin peers'
    BY <2>1, BroadcastKeepsPhone
  <2>. QED
    BY <2>1, <2>2, <2>3 DEF LegInv, GoneInHand, LeftInHand, legVars
<1>2. CASE EndCall
  <2>. SUFFICES ASSUME leg' = "up" PROVE Known' /\ GoneInHand' /\ LeftInHand'
    BY DEF LegInv
  <2>1. bridge = "ending" /\ bridge' = "over"
          /\ (leg = "up" /\ live => uncut')
          /\ (leg = "up" /\ hook' = hook)
    BY <1>2 DEF EndCall, RequestHangup
  <2>2. Known /\ uncut'
    BY <2>1 DEF LegInv, Known
  <2>. QED
    BY <2>1, <2>2 DEF Known, GoneInHand, LeftInHand, GivenUp
<1>. QED
  BY <1>1, <1>2

(* The leg starts with nobody having seen it. *)
LEMMA LegInit ==
  ASSUME Init PROVE LegInv
  BY DEF Init, LegInv, Known, GoneInHand, LeftInHand

(* Every step keeps a leg that is up in somebody's hand. *)
LEMMA LegStep ==
  ASSUME CohInv, PhoneInv, LegInv, [Next]_vars PROVE LegInv'
<1>1. CASE FarEndHangsUp \/ HangupWebhook
  BY <1>1 DEF FarEndHangsUp, HangupWebhook, LegInv, Known
<1>2. CASE UNCHANGED vars
  <2>1. /\ UNCHANGED <<session, peers, bridgeVars, legVars, historyVars,
                       unseen>>
        /\ UNCHANGED <<state, grace, owed>>
    BY <1>2 DEF vars, roomVars, handlerVars
  <2>2. /\ (HangingUp => HangingUp') /\ (WaitedFor => WaitedFor')
        /\ (LookedAfter => LookedAfter')
    BY <2>1 DEF HangingUp, WaitedFor, LookedAfter, bridgeVars
  <2>3. LeftInHand => LeftInHand'
    BY <2>1, <2>2, StaysInHand
  <2>. QED
    BY <2>1, <2>2, <2>3, StaysWithLeg
<1>. QED
  BY <1>1, <1>2, JoinKeepsLeg, LeavingKeepsLeg, RetainKeepsLeg,
     TellingKeepsLeg, LastKeepsLeg, HangupKeepsLeg, GraceKeepsLeg,
     RoomKeepsLeg, BridgeKeepsLeg, PhoneLeavingKeepsLeg, EndingKeepsLeg
     DEF Next, Handling, Waiting, PhoneLeaving

(* The people of the call have all left, and the leg is not in one of the  *)
(* states in which the code leaves it to itself.                           *)
Abandoned == visited /\ leg = "up" /\ ~Accompanied /\ ~Unattended

(* The bridge is ending the call, or will notice that the phone is out of  *)
(* the room; or a departure has yet to look at the emptied room; or a task *)
(* waits for somebody to come back; or the room is gone and its taker      *)
(* hangs up next.                                                          *)
InHand ==
  \/ Bridged
  \/ bridge = "claimed" /\ PhoneEntry \notin peers
  \/ session = {1} /\ peers = {} /\ LookedAfter
  \/ WaitedFor
  \/ HangingUp

(* A leg whose people have left is never left to itself, but in the three  *)
(* ways `Unattended` names: not by departures that pass between each       *)
(* other's two locks, by requests that fail while the bridge still has     *)
(* the leg, by grace windows that overlap (rooms.rs `remove`; session.rs   *)
(* `finish_after_phone_orphan`, `hangup_orphaned_leg`, `end_call`).        *)
THEOREM AbandonedLegIsInHand == Spec => [](Abandoned => InHand)
<1>1. ASSUME Init PROVE CohInv /\ PhoneInv /\ LegInv
  BY <1>1, CohInit, PhoneInit, LegInit
<1>2. CohInv /\ PhoneInv /\ LegInv /\ [Next]_vars
        => CohInv' /\ PhoneInv' /\ LegInv'
  BY CohStep, PhoneStep, LegStep
<1>3. CohInv /\ PhoneInv /\ LegInv => (Abandoned => InHand)
  <2>. SUFFICES ASSUME CohInv, LegInv, Abandoned PROVE InHand
    OBVIOUS
  <2>1. GoneInHand /\ LeftInHand /\ visited /\ ~unseen /\ ~GivenUp
    BY DEF LegInv, Abandoned, Unattended, GivenUp
  <2>2. CASE session # {1}
    <3>1. PhoneEntry \notin peers
      BY <2>2 DEF CohInv, PeersInv
    <3>. QED
      BY <2>1, <2>2, <3>1 DEF GoneInHand, InHand
  <2>3. CASE session = {1}
    <3>1. ~has_human_peer
      BY <2>3 DEF Abandoned, Accompanied
    <3>2. PhoneEntry \notin peers => peers = {}
      BY <3>1, OnlyPhone
    <3>. QED
      BY <2>1, <2>3, <3>1, <3>2 DEF LeftInHand, InHand
  <2>. QED
    BY <2>2, <2>3
<1>. QED
  BY <1>1, <1>2, <1>3, PTL DEF Spec
=============================================================================
