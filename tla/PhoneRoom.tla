----------------------------- MODULE PhoneRoom -----------------------------
(***************************************************************************)
(* The room of a telephone call: server/src/rooms.rs, the websocket        *)
(* handler's joining and leaving (lib.rs), the phone's bridge and the      *)
(* grace window of a room only the phone is left in (voip/session.rs), and *)
(* the end of the call session they share (transcripts.rs).                *)
(*                                                                         *)
(* A person reconnects under the same peer id with a new connection, so a  *)
(* room holds pairs of both and a stale connection's teardown must find    *)
(* nothing.  What the room map does under one lock is one step, and        *)
(* `remove` locks it twice: a departure first takes its entry out, then    *)
(* looks again whether the room is empty.  Every handler, the bridge, the  *)
(* grace tasks and the pruning loop interleave between steps.  What the    *)
(* code only logs, a session that is not ended or a hangup that is not     *)
(* done, may fail each time it is tried.                                   *)
(***************************************************************************)
EXTENDS Naturals, FiniteSets

CONSTANTS
  Humans,    (* peer ids of people *)
  Phone,     (* the peer id of the telephone, the one with the phone- prefix *)
  Conns,     (* the connections people open, numbered as they join *)
  MAX_PEERS

ASSUME RoomAssumption ==
  /\ Phone \notin Humans
  /\ Conns \subseteq Nat /\ IsFiniteSet(Conns) /\ Phone \notin Conns
  /\ MAX_PEERS \in Nat \ {0}

VARIABLES
  (* RoomManager, for the one room id of the call *)
  session,    (* the session of the room: {} when the map has no such room *)
  peers,      (* its entries [id, conn] *)
  sessions,   (* how many sessions rooms of this id have had *)
  (* the handlers of the connections *)
  state,      (* of a connection's handler *)
  deaf,       (* connections whose receiver is dropped *)
  grace,      (* what a connection's finish_after_phone_orphan does next *)
  owed,       (* the session a handler or a grace task still has to end *)
  (* the telephone *)
  bridge,     (* where its leg is, and what the bridge does next *)
  dropping,   (* its entry is out of the room, the room not yet looked at *)
  leg,        (* "up", "gone" when the far end hung up, "cut" when we did *)
  live,       (* the voip_calls row is not terminal *)
  hook,       (* the hangup webhook is on its way *)
  (* the database *)
  finalized,  (* the sessions whose ended_at is set *)
  (* history *)
  visited,    (* a person has been in the phone's room *)
  unseen,     (* the last people were pruned and nobody has come back *)
  uncut,      (* a hangup of the leg has failed *)
  silent,     (* sessions whose room the phone's departure took away *)
  pruned,     (* sessions whose room the pruning loop took away *)
  lost        (* sessions whose end could not be written *)

roomVars == <<session, peers, sessions>>
handlerVars == <<state, deaf, grace, owed>>
bridgeVars == <<bridge, dropping>>
legVars == <<leg, live, hook, uncut>>
endVars == <<finalized, lost>>
historyVars == <<visited, silent, pruned>>

vars == <<roomVars, handlerVars, bridgeVars, legVars, endVars, historyVars,
          unseen>>

HandlerStates == {"unused", "open", "closing", "dropping", "orphaning",
                  "finalize", "hangup", "telling", "gone"}

(* Parked in LiveCalls; claimed by the media socket, then leaving the room, *)
(* telling it and ending the call; without an engine failing; or taken back *)
(* by reclaim or arm_media.                                                 *)
BridgeStates == {"parked", "claimed", "leaving", "telling", "failing",
                 "ending", "taken", "over"}

GraceStates == {"none", "waiting", "hangup", "finalize"}

IsPhone(p) == p.id = Phone

PhoneEntry == [id |-> Phone, conn |-> Phone]

(* has_human_peer; a room that is not there has none. *)
has_human_peer == \E p \in peers : ~IsPhone(p)

(* Somebody is in the room of the call, which is the first of its id. *)
Accompanied == session = {1} /\ has_human_peer

PhoneOnly(S) == S # {} /\ \A p \in S : IsPhone(p)

(* `dial` or `admit` made the room with the phone as its first peer. *)
Init ==
  /\ session = {1} /\ peers = {PhoneEntry} /\ sessions = 1
  /\ state = [c \in Conns |-> "unused"]
  /\ deaf = {}
  /\ grace = [c \in Conns |-> "none"]
  /\ owed = [c \in Conns |-> 0]
  /\ bridge = "parked" /\ dropping = FALSE
  /\ leg = "up" /\ live = TRUE /\ hook = FALSE /\ uncut = FALSE
  /\ finalized = {} /\ lost = {}
  /\ visited = FALSE /\ unseen = FALSE /\ silent = {} /\ pruned = {}

-----------------------------------------------------------------------------
(* rooms.rs.                                                               *)

EntryOf(c) == {p \in peers : p.conn = c}

Heard == {p \in peers : p.conn \notin deaf}

(* A broadcast prunes the entries whose receiver is gone, and says nothing *)
(* of it; the room stays, also an empty one.                               *)
Broadcast ==
  /\ peers' = Heard
  /\ unseen' = (unseen \/ (Accompanied /\ \A p \in Heard : IsPhone(p)))

(* finalize_session; an error is logged and nobody tries again. *)
EndSessions(S) ==
  \/ finalized' = finalized \cup S /\ UNCHANGED lost
  \/ lost' = lost \cup S /\ UNCHANGED finalized

(* Mutant: a reconnect leaves the entry of the connection it replaces. *)
OthersAll(id) == peers

(* A connection is new with every join. *)
NextConn(c) ==
  state[c] = "unused" /\ \A d \in Conns : d < c => state[d] # "unused"

(* The entries a join of the same id does not evict. *)
Others(id) == {p \in peers : p.id # id}

(* `join`: evict before the capacity check, then enter; the evicted        *)
(* connections are told to close.                                          *)
Join(h, c) ==
  /\ NextConn(c)
  /\ Cardinality(Others(h)) < MAX_PEERS
  /\ peers' = Others(h) \cup {[id |-> h, conn |-> c]}
  /\ IF session = {}
     THEN session' = {sessions + 1} /\ sessions' = sessions + 1
     ELSE UNCHANGED <<session, sessions>>
  /\ state' = [d \in Conns |->
                 IF d = c THEN "open"
                 ELSE IF state[d] = "open" /\ EntryOf(d) \ Others(h) # {}
                      THEN "closing" ELSE state[d]]
  /\ visited' = (visited \/ session = {1})
  /\ unseen' = (unseen /\ session # {1})
  /\ UNCHANGED <<deaf, grace, owed, bridgeVars, legVars, endVars, silent,
                 pruned>>

(* RoomFull: the socket is closed and no handler is left behind. *)
JoinFull(h, c) ==
  /\ NextConn(c)
  /\ Cardinality(Others(h)) >= MAX_PEERS
  /\ state' = [state EXCEPT ![c] = "gone"]
  /\ peers' = Others(h)
  /\ UNCHANGED <<session, sessions, deaf, grace, owed, bridgeVars, legVars,
                 endVars, historyVars, unseen>>

(* Mutant: a pruned room takes its session with it. *)
PruneQuietly ==
  /\ session # {}
  /\ Heard # peers \/ peers = {}
  /\ Broadcast
  /\ IF Heard = {}
     THEN session' = {} /\ pruned' = pruned \cup session
     ELSE UNCHANGED <<session, pruned>>
  /\ UNCHANGED <<sessions, handlerVars, bridgeVars, legVars, endVars, visited,
                 silent>>

(* `prune`, every half minute: the sessions of the rooms it drops are ended *)
(* next, and nobody hangs up a leg they may have.                           *)
Prune ==
  /\ session # {}
  /\ Heard # peers \/ peers = {}
  /\ Broadcast
  /\ IF Heard = {}
     THEN /\ session' = {} /\ pruned' = pruned \cup session
          /\ EndSessions(session)
     ELSE UNCHANGED <<session, endVars, pruned>>
  /\ UNCHANGED <<sessions, handlerVars, bridgeVars, legVars, visited, silent>>

(* Any message to the room: chat, captions, the audio of a translation. *)
Talk ==
  /\ Broadcast
  /\ UNCHANGED <<session, sessions, handlerVars, bridgeVars, legVars, endVars,
                 historyVars>>

-----------------------------------------------------------------------------
(* handle_peer, lib.rs.                                                    *)

(* pump_to_ws drops the receiver when a send fails; the reading half goes  *)
(* on until it notices.                                                    *)
SocketFails(c) ==
  /\ state[c] \in {"open", "closing"} /\ c \notin deaf /\ EntryOf(c) # {}
  /\ deaf' = deaf \cup {c}
  /\ UNCHANGED <<roomVars, state, grace, owed, bridgeVars, legVars, endVars,
                 historyVars, unseen>>

(* The person leaves, the reader fails or times out. *)
Close(c) ==
  /\ state[c] = "open"
  /\ state' = [state EXCEPT ![c] = "closing"]
  /\ UNCHANGED <<roomVars, deaf, grace, owed, bridgeVars, legVars, endVars,
                 historyVars, unseen>>

Superseded(c) ==
  /\ state[c] = "closing"
  /\ EntryOf(c) = {}
  /\ state' = [state EXCEPT ![c] = "gone"]
  /\ deaf' = deaf \cup {c}
  /\ UNCHANGED <<roomVars, grace, owed, bridgeVars, legVars, endVars,
                 historyVars, unseen>>

(* `remove` under its first lock: the entry goes, and whether only the     *)
(* phone is left is decided from the same list.                            *)
Retain(c) ==
  /\ state[c] = "closing"
  /\ EntryOf(c) # {}
  /\ peers' = peers \ EntryOf(c)
  /\ deaf' = deaf \cup {c}
  /\ IF PhoneOnly(peers \ EntryOf(c))
     THEN /\ state' = [state EXCEPT ![c] = "orphaning"]
          /\ owed' = [owed EXCEPT ![c] = CHOOSE s \in session : TRUE]
     ELSE /\ state' = [state EXCEPT ![c] = "dropping"]
          /\ UNCHANGED owed
  /\ UNCHANGED <<session, sessions, grace, bridgeVars, legVars, endVars,
                 historyVars, unseen>>

(* Mutant: a room with the phone in it is a room that goes on. *)
LeftPhoneOnlyForgotten(c) ==
  /\ state[c] = "orphaning"
  /\ Broadcast
  /\ state' = [state EXCEPT ![c] = "gone"]
  /\ UNCHANGED <<session, sessions, deaf, grace, owed, bridgeVars, legVars,
                 endVars, historyVars>>

(* LeftPhoneOnly: the room stays, and a task waits for somebody to return. *)
LeftPhoneOnly(c) ==
  /\ state[c] = "orphaning"
  /\ Broadcast
  /\ state' = [state EXCEPT ![c] = "gone"]
  /\ grace' = [grace EXCEPT ![c] = "waiting"]
  /\ UNCHANGED <<session, sessions, deaf, owed, bridgeVars, legVars, endVars,
                 historyVars>>

(* `remove` under its second lock, Left(Some): the room is still there and *)
(* empty, whoever emptied it, and goes.                                    *)
LeftLast(c) ==
  /\ state[c] = "dropping"
  /\ session # {} /\ peers = {}
  /\ session' = {}
  /\ state' = [state EXCEPT ![c] = "finalize"]
  /\ owed' = [owed EXCEPT ![c] = CHOOSE s \in session : TRUE]
  /\ UNCHANGED <<peers, sessions, deaf, grace, bridgeVars, legVars, endVars,
                 historyVars, unseen>>

(* Left(None): somebody is there, or somebody else took the room away. *)
LeftOthers(c) ==
  /\ state[c] = "dropping"
  /\ session = {} \/ peers # {}
  /\ state' = [state EXCEPT ![c] = "telling"]
  /\ UNCHANGED <<roomVars, deaf, grace, owed, bridgeVars, legVars, endVars,
                 historyVars, unseen>>

Finalize(c) ==
  /\ state[c] = "finalize"
  /\ EndSessions({owed[c]})
  /\ state' = [state EXCEPT ![c] = "hangup"]
  /\ UNCHANGED <<roomVars, deaf, grace, owed, bridgeVars, legVars,
                 historyVars, unseen>>

(* A request to hang up the leg; its failure is logged. *)
RequestHangup ==
  \/ leg' = "cut" /\ hook' = TRUE /\ UNCHANGED uncut
  \/ uncut' = TRUE /\ UNCHANGED <<leg, hook>>

(* hangup_orphaned_leg: of the session's call, when its row is found and   *)
(* still live; the phone's call has the first session of the room.         *)
HangupOrphanedLeg(s) ==
  IF s = 1 /\ live /\ leg = "up" THEN RequestHangup
  ELSE UNCHANGED <<leg, hook, uncut>>

LastHangsUp(c) ==
  /\ state[c] = "hangup"
  /\ HangupOrphanedLeg(owed[c])
  /\ state' = [state EXCEPT ![c] = "telling"]
  /\ owed' = [owed EXCEPT ![c] = 0]
  /\ UNCHANGED <<roomVars, deaf, grace, bridgeVars, live, endVars,
                 historyVars, unseen>>

(* PeerLeft, to whatever room there is now. *)
Tell(c) ==
  /\ state[c] = "telling"
  /\ Broadcast
  /\ state' = [state EXCEPT ![c] = "gone"]
  /\ UNCHANGED <<session, sessions, deaf, grace, owed, bridgeVars, legVars,
                 endVars, historyVars>>

-----------------------------------------------------------------------------
(* finish_after_phone_orphan.                                              *)

GraceReturns(c) ==
  /\ grace[c] = "waiting"
  /\ has_human_peer
  /\ grace' = [grace EXCEPT ![c] = "none"]
  /\ owed' = [owed EXCEPT ![c] = 0]
  /\ UNCHANGED <<roomVars, state, deaf, bridgeVars, legVars, endVars,
                 historyVars, unseen>>

(* Mutant: the room is ended as it was when the person left. *)
StillOrphanedThen(s) == session = {s}

(* What end_orphaned_phone_room checks again, under the lock. *)
StillOrphaned(s) == session = {s} /\ ~has_human_peer

(* The window is over: nobody was there at the last poll, which may be a   *)
(* moment ago.                                                             *)
GraceElapses(c) ==
  /\ grace[c] = "waiting"
  /\ IF StillOrphaned(owed[c])
     THEN /\ session' = {} /\ peers' = {}
          /\ grace' = [grace EXCEPT ![c] = "hangup"]
          /\ UNCHANGED owed
     ELSE /\ UNCHANGED <<session, peers>>
          /\ grace' = [grace EXCEPT ![c] = "none"]
          /\ owed' = [owed EXCEPT ![c] = 0]
  /\ UNCHANGED <<sessions, state, deaf, bridgeVars, legVars, endVars,
                 historyVars, unseen>>

GraceHangsUp(c) ==
  /\ grace[c] = "hangup"
  /\ HangupOrphanedLeg(owed[c])
  /\ grace' = [grace EXCEPT ![c] = "finalize"]
  /\ UNCHANGED <<roomVars, state, deaf, owed, bridgeVars, live, endVars,
                 historyVars, unseen>>

GraceFinalizes(c) ==
  /\ grace[c] = "finalize"
  /\ EndSessions({owed[c]})
  /\ grace' = [grace EXCEPT ![c] = "none"]
  /\ owed' = [owed EXCEPT ![c] = 0]
  /\ UNCHANGED <<roomVars, state, deaf, bridgeVars, legVars,
                 historyVars, unseen>>

-----------------------------------------------------------------------------
(* The telephone.                                                          *)

MediaSocketOpens ==
  /\ bridge = "parked" /\ leg = "up"
  /\ bridge' = "claimed"
  /\ UNCHANGED <<roomVars, handlerVars, dropping, legVars, endVars,
                 historyVars, unseen>>

FarEndHangsUp ==
  /\ leg = "up"
  /\ leg' = "gone" /\ hook' = TRUE
  /\ UNCHANGED <<roomVars, handlerVars, bridgeVars, live, uncut, endVars,
                 historyVars, unseen>>

(* The carrier does not start the media stream: arm_media takes the leg    *)
(* back and leaves the call up.                                            *)
StreamRefused ==
  /\ bridge = "parked" /\ leg = "up"
  /\ bridge' = "taken"
  /\ UNCHANGED <<roomVars, handlerVars, dropping, legVars, endVars,
                 historyVars, unseen>>

(* The hangup webhook makes the row terminal and reclaims a parked leg. *)
HangupWebhook ==
  /\ hook
  /\ hook' = FALSE
  /\ live' = FALSE
  /\ bridge' = IF bridge = "parked" THEN "taken" ELSE bridge
  /\ UNCHANGED <<roomVars, handlerVars, dropping, leg, uncut, endVars,
                 historyVars, unseen>>

(* run_leg: the stream ends or fails, or the phone is no longer in a room; *)
(* either way its receiver is dropped with the pump.                       *)
PumpEnds ==
  /\ bridge = "claimed"
  /\ bridge' = "leaving"
  /\ deaf' = deaf \cup {Phone}
  /\ UNCHANGED <<roomVars, state, grace, owed, dropping, legVars, endVars,
                 historyVars, unseen>>

(* fail_unavailable_engine. *)
NoEngine ==
  /\ bridge = "claimed"
  /\ bridge' = "failing"
  /\ UNCHANGED <<roomVars, handlerVars, dropping, legVars, endVars,
                 historyVars, unseen>>

(* What follows the phone's `remove`; a superseded pump tells nobody. *)
AfterRemove(left) ==
  IF bridge = "taken" THEN "over"
  ELSE IF bridge = "leaving" /\ left THEN "telling" ELSE "ending"

(* `remove` of the phone's entry, under its first lock.  Without its pump  *)
(* the entry may have gone with a broadcast, or the room was torn down.    *)
PhoneRetain ==
  /\ bridge \in {"leaving", "failing", "taken"} /\ ~dropping
  /\ peers' = peers \ {PhoneEntry}
  /\ IF PhoneEntry \in peers
     THEN dropping' = TRUE /\ UNCHANGED bridge
     ELSE bridge' = AfterRemove(FALSE) /\ UNCHANGED dropping
  /\ UNCHANGED <<session, sessions, handlerVars, legVars, endVars,
                 historyVars, unseen>>

(* Under the second lock: an emptied room goes, and no caller of the phone *)
(* looks at the session that `remove` returns.                             *)
PhoneDrops ==
  /\ dropping
  /\ IF peers = {}
     THEN session' = {} /\ silent' = silent \cup session
     ELSE UNCHANGED <<session, silent>>
  /\ dropping' = FALSE
  /\ bridge' = AfterRemove(TRUE)
  /\ UNCHANGED <<peers, sessions, handlerVars, legVars, endVars, visited,
                 pruned, unseen>>

(* PeerLeft and PhoneCallEnded. *)
PhoneTells ==
  /\ bridge = "telling"
  /\ Broadcast
  /\ bridge' = "ending"
  /\ UNCHANGED <<session, sessions, handlerVars, dropping, legVars, endVars,
                 historyVars>>

(* end_call, at once or after the grace for the hangup webhook; neither    *)
(* its request nor its UPDATE has to succeed.                              *)
EndCall ==
  /\ bridge = "ending"
  /\ bridge' = "over"
  /\ IF live /\ leg = "up" THEN RequestHangup
     ELSE UNCHANGED <<leg, hook, uncut>>
  /\ live' \in {FALSE, live}
  /\ UNCHANGED <<roomVars, handlerVars, dropping, endVars, historyVars,
                 unseen>>

-----------------------------------------------------------------------------
Handling(c) ==
  \/ Superseded(c) \/ Retain(c) \/ LeftPhoneOnly(c) \/ LeftLast(c)
  \/ LeftOthers(c) \/ Finalize(c) \/ LastHangsUp(c) \/ Tell(c)

Waiting(c) ==
  GraceReturns(c) \/ GraceElapses(c) \/ GraceHangsUp(c) \/ GraceFinalizes(c)

PhoneLeaving == PhoneRetain \/ PhoneDrops \/ PhoneTells \/ EndCall

Next ==
  \/ \E h \in Humans, c \in Conns : Join(h, c) \/ JoinFull(h, c)
  \/ \E c \in Conns : SocketFails(c) \/ Close(c) \/ Handling(c) \/ Waiting(c)
  \/ Prune \/ Talk
  \/ MediaSocketOpens \/ FarEndHangsUp \/ StreamRefused \/ HangupWebhook
  \/ PumpEnds \/ NoEngine \/ PhoneLeaving

(* A handler whose socket fails notices within the idle timeout; handlers, *)
(* grace tasks, the bridge and the pruning loop run on, a pump whose leg   *)
(* or room is gone ends, and the carrier delivers its webhook.  Nobody has *)
(* to join, to leave or to hang up.                                        *)
Fairness ==
  /\ \A c \in Conns : /\ WF_vars(c \in deaf /\ Close(c))
                      /\ WF_vars(Handling(c)) /\ WF_vars(Waiting(c))
  /\ WF_vars(Prune) /\ WF_vars(PhoneLeaving)
  /\ WF_vars((leg # "up" \/ PhoneEntry \notin peers) /\ PumpEnds)
  /\ WF_vars(HangupWebhook)

Spec == Init /\ [][Next]_vars

LiveSpec == Spec /\ Fairness

-----------------------------------------------------------------------------
Entries == [id : Humans, conn : Conns] \cup {PhoneEntry}

TypeOK ==
  /\ sessions \in Nat \ {0}
  /\ session \subseteq 1 .. sessions /\ Cardinality(session) <= 1
  /\ peers \subseteq Entries
  /\ state \in [Conns -> HandlerStates]
  /\ deaf \subseteq Conns \cup {Phone}
  /\ grace \in [Conns -> GraceStates]
  /\ owed \in [Conns -> 0 .. sessions]
  /\ bridge \in BridgeStates
  /\ leg \in {"up", "gone", "cut"}
  /\ {dropping, live, hook, visited, unseen, uncut} \subseteq BOOLEAN
  /\ finalized \cup lost \cup silent \cup pruned \subseteq 1 .. sessions

(* One live entry per person and never more than the room holds; a room    *)
(* that is gone has nobody in it; the phone is only ever in the room of    *)
(* its own session; and no session is ended while its room stands, so a    *)
(* reconnect never resumes into a closed transcript.                       *)
RoomCoheres ==
  /\ TypeOK
  /\ \A p, q \in peers : p.id = q.id => p = q
  /\ Cardinality(peers) <= MAX_PEERS
  /\ session = {} => peers = {}
  /\ PhoneEntry \in peers => session = {1}
  /\ session \cap finalized = {}

(* Somebody whose connection works is in the room. *)
Attended ==
  \E p \in peers : ~IsPhone(p) /\ state[p.conn] = "open" /\ p.conn \notin deaf

(* A room is never torn down under a person who is in it: the grace task   *)
(* of an earlier departure looks again before it ends anything.            *)
RoomOutlivesItsPeople == [][Attended => session' = session]_vars

(* Where nobody is left who would hang up: after the last people were      *)
(* pruned instead of leaving; after a request that failed, with no bridge  *)
(* to make another; and after arm_media gave up the media, when the room   *)
(* then went with the phone or with the pruning loop.                      *)
Unattended ==
  \/ unseen
  \/ bridge \in {"parked", "taken", "over"} /\ uncut
  \/ bridge \in {"taken", "over"} /\ 1 \in silent \cup pruned

(* "Orphaning the PSTN leg to a phone- peer with nobody translating for it *)
(* any more": a leg whose people have all left is hung up, or somebody     *)
(* comes back, or the code has left it to itself in one of three ways.     *)
AbandonedLegIsHungUp ==
  (visited /\ leg = "up" /\ ~Accompanied) ~>
    (leg # "up" \/ Accompanied \/ Unattended)

(* A session whose room is gone is ended, which is what completes its      *)
(* transcript and lets its analysis start.  The exceptions are a room that *)
(* the phone's departure took away, last or between the two locks of       *)
(* another's, since neither the bridge nor reclaim ends it, and a session  *)
(* whose UPDATE failed.                                                    *)
EverySessionIsFinalized ==
  \A s \in 1 .. Cardinality(Conns) + 1 :
    (s <= sessions /\ session # {s}) ~> (s \in finalized \cup silent \cup lost)
=============================================================================
