---------------------------- MODULE InboundCall ----------------------------
(***************************************************************************)
(* A call that comes in: server/src/voip/inbound.rs, with the answer and   *)
(* hangup routes (routes.rs) and the sweeps that end calls (webhook.rs).   *)
(*                                                                         *)
(* The carrier's leg is answered at once and the colleagues are rung.  One *)
(* of them takes the call, or the ring deadline passes and the sweep hangs *)
(* up or takes a message; a message has a second deadline and a second     *)
(* pass.  The sweep decides from rows it selected earlier and writes them  *)
(* back unconditionally, so everything it awaits is a place where a        *)
(* colleague, the caller or a webhook gets in between.  `run_sweep` is one *)
(* loop: of the sweeps at most one is in the middle of something.          *)
(*                                                                         *)
(* One call.initiated is one admission here.  The code admits again when   *)
(* the carrier repeats it: the module has the first of the two rows.       *)
(***************************************************************************)
EXTENDS CallState, FiniteSets

CONSTANTS
  Colleagues,  (* the members of the organisation that may take the call *)
  Routes,      (* how a number may be set up *)
  MaxMishaps   (* bound: hangups that fail, database errors and restarts *)

ASSUME InboundAssumption ==
  /\ Routes \subseteq [no_answer : {"voicemail", "hangup"},
                       allowed : BOOLEAN,  (* org and deployment record *)
                       open : BOOLEAN]     (* business hours *)
  /\ MaxMishaps \in Nat

VARIABLES
  route,
  (* the row *)
  status,       (* "absent" until admission commits *)
  answered_at,  (* IS NOT NULL *)
  answered_by,  (* the set of it: {} is NULL *)
  deadline,     (* ring_deadline_at: "none", still "running" or "due" *)
  missed, recording,
  (* the server *)
  admitting,    (* what `admit` does next *)
  sweep,        (* what the loop of sweeps does next *)
  parked,       (* the leg is in LiveCalls, its peer in the room *)
  (* the carrier *)
  leg, recorder, events,
  (* history *)
  unhung,       (* a hangup has failed *)
  mishaps

callVars == <<status, answered_at>>
ringVars == <<answered_by, deadline, missed, recording>>
taskVars == <<admitting, sweep, parked>>
carrierVars == <<leg, recorder, events>>
mishapVars == <<unhung, mishaps>>

vars == <<route, callVars, ringVars, taskVars, carrierVars, mishapVars>>

AdmitSteps == {"idle", "park", "answer", "ring", "over"}

SweepSteps == {"idle", "miss", "prompt", "record", "message", "letgo",
               "missed", "stop", "closed", "reap"}

Over == status \in {"absent", "completed", "failed"}

Init ==
  /\ route \in Routes
  /\ status = "absent" /\ answered_at = FALSE
  /\ answered_by = {} /\ deadline = "none" /\ missed = FALSE
  /\ recording = "none"
  /\ admitting = "idle" /\ sweep = "idle" /\ parked = FALSE
  /\ leg = "offered" /\ recorder = "off" /\ events = {"incoming"}
  /\ unhung = FALSE /\ mishaps = 0

Mishap == mishaps < MaxMishaps /\ mishaps' = mishaps + 1

(* The carrier ends a leg, keeps what it recorded, and reports both. *)
LegEnds(pending) ==
  /\ leg' = "down"
  /\ recorder' = IF recorder = "on" THEN "kept" ELSE recorder
  /\ events' = pending \cup {"hangup"}
                 \cup (IF recorder = "on" THEN {"saved"} ELSE {})

(* A request to hang up; its failure is ignored. *)
RequestHangup(pending) ==
  \/ leg # "down" /\ LegEnds(pending) /\ UNCHANGED mishapVars
  \/ /\ leg = "down"
     /\ events' = pending /\ UNCHANGED <<leg, recorder, mishapVars>>
  \/ /\ leg # "down" /\ Mishap /\ unhung' = TRUE
     /\ events' = pending /\ UNCHANGED <<leg, recorder>>

-----------------------------------------------------------------------------
(* `admit`, called for call.initiated of a leg nobody dialled.             *)

(* Inbound is off, the number is not ours, or the subscription has lapsed: *)
(* the leg is hung up and nothing is written.                              *)
Refuse ==
  /\ "incoming" \in events /\ admitting = "idle"
  /\ admitting' = "over"
  /\ RequestHangup(events \ {"incoming"})
  /\ UNCHANGED <<route, callVars, ringVars, sweep, parked>>

(* The row commits, whatever has become of the leg. *)
Admit ==
  /\ "incoming" \in events /\ admitting = "idle"
  /\ events' = events \ {"incoming"}
  /\ status' = "ringing"
  /\ deadline' = "running"
  /\ admitting' = "park"
  /\ UNCHANGED <<route, answered_at, answered_by, missed, recording, sweep,
                 parked, leg, recorder, mishapVars>>

(* "Park the leg BEFORE answering": a webhook may have ended the row. *)
Park ==
  /\ admitting = "park"
  /\ parked' = TRUE
  /\ admitting' = "answer"
  /\ UNCHANGED <<route, callVars, ringVars, sweep, carrierVars, mishapVars>>

(* provider.answer; an error is logged and the colleagues are rung anyway. *)
AnswerLeg ==
  /\ admitting = "answer"
  /\ \/ leg = "offered" /\ leg' = "up" /\ events' = events \cup {"answered"}
     \/ UNCHANGED <<leg, events>>
  /\ admitting' = "ring"
  /\ UNCHANGED <<route, callVars, ringVars, sweep, parked, recorder,
                 mishapVars>>

(* Closed: the deadline is brought forward, whatever it is by now, or the  *)
(* UPDATE fails, which is ignored.                                         *)
Ring ==
  /\ admitting = "ring"
  /\ \/ /\ deadline' = IF route.open THEN deadline ELSE "due"
        /\ UNCHANGED mishaps
     \/ ~route.open /\ Mishap /\ UNCHANGED deadline
  /\ admitting' = "over"
  /\ UNCHANGED <<route, callVars, answered_by, missed, recording, sweep,
                 parked, carrierVars, unhung>>

-----------------------------------------------------------------------------
(* A colleague: answer_inbound.  The claim looks at answered_by only, so a *)
(* call that is over, or already goes to voicemail, can be taken as well.  *)

answer_inbound(u) ==
  /\ status # "absent" /\ answered_by = {}
  /\ answered_by' = {u}
  /\ deadline' = "none"
  /\ UNCHANGED <<route, callVars, missed, recording, taskVars, carrierVars,
                 mishapVars>>

(* The caller hangs up, or a colleague does through the hangup route, which *)
(* leaves the row to the webhook.                                           *)
LegDrops ==
  /\ leg # "down"
  /\ LegEnds(events)
  /\ UNCHANGED <<route, callVars, ringVars, taskVars, mishapVars>>

(* The clock reaches ring_deadline_at. *)
DeadlinePasses ==
  /\ deadline = "running"
  /\ deadline' = "due"
  /\ UNCHANGED <<route, callVars, answered_by, missed, recording, taskVars,
                 carrierVars, mishapVars>>

-----------------------------------------------------------------------------
(* sweep_unanswered.                                                       *)

(* Mutant: the deadline alone says that nobody came. *)
Unclaimed == deadline = "due" /\ ~Over

Unanswered == answered_by = {} /\ deadline = "due" /\ ~Over

(* The first pass finds a call that rang out, the second one a message. *)
SweepSelect ==
  /\ sweep = "idle"
  /\ Unanswered
  /\ sweep' = IF missed THEN "stop" ELSE "miss"
  /\ UNCHANGED <<route, callVars, ringVars, admitting, parked, carrierVars,
                 mishapVars>>

(* "Marked missed BEFORE the carrier is touched."  Routing asks for a      *)
(* message; both recording switches decide.                                *)
SweepMiss ==
  /\ sweep = "miss"
  /\ missed' = TRUE
  /\ deadline' = "none"
  /\ sweep' = IF route.no_answer = "voicemail" /\ route.allowed
              THEN "prompt" ELSE "letgo"
  /\ UNCHANGED <<route, callVars, answered_by, recording, admitting, parked,
                 carrierVars, mishapVars>>

(* The prompt is played, or not: either way the recorder is asked for. *)
SweepPrompt ==
  /\ sweep = "prompt"
  /\ sweep' = "record"
  /\ UNCHANGED <<route, callVars, ringVars, admitting, parked, carrierVars,
                 mishapVars>>

SweepRecord ==
  /\ sweep = "record"
  /\ \/ /\ leg = "up"
        /\ recorder' = "on"
        /\ events' = events \cup {"recording_started"}
     \/ UNCHANGED <<recorder, events>>
  /\ sweep' = "message"
  /\ UNCHANGED <<route, callVars, ringVars, admitting, parked, leg,
                 mishapVars>>

(* Mutant: the message has no deadline of its own. *)
SweepMessageOpenEnded ==
  /\ sweep = "message"
  /\ status' = "answered"
  /\ recording' = "pending"
  /\ sweep' = "idle"
  /\ UNCHANGED <<route, answered_at, answered_by, deadline, missed, admitting,
                 parked, carrierVars, mishapVars>>

(* The row is live again even when the caller has gone in the meantime. *)
SweepMessage ==
  /\ sweep = "message"
  /\ status' = "answered"
  /\ recording' = "pending"
  /\ deadline' = "running"
  /\ sweep' = "idle"
  /\ UNCHANGED <<route, answered_at, answered_by, missed, admitting, parked,
                 carrierVars, mishapVars>>

(* Mutant: a missed call is only written down. *)
SweepLetGoQuietly ==
  /\ sweep = "letgo"
  /\ sweep' = "missed"
  /\ UNCHANGED <<route, callVars, ringVars, admitting, parked, carrierVars,
                 mishapVars>>

SweepLetGo ==
  /\ sweep = "letgo"
  /\ RequestHangup(events)
  /\ sweep' = "missed"
  /\ UNCHANGED <<route, callVars, ringVars, admitting, parked>>

(* The UPDATE that closes a missed call, and `reclaim`. *)
SweepMissed ==
  /\ sweep = "missed"
  /\ status' = "completed"
  /\ parked' = FALSE
  /\ sweep' = "idle"
  /\ UNCHANGED <<route, answered_at, ringVars, admitting, carrierVars,
                 mishapVars>>

(* Mutant: the second pass only writes that the message is over. *)
SweepStopQuietly ==
  /\ sweep = "stop"
  /\ sweep' = "closed"
  /\ UNCHANGED <<route, callVars, ringVars, admitting, parked, carrierVars,
                 mishapVars>>

(* stop_recording may succeed where the hangup after it fails. *)
StopsOnly ==
  /\ recorder = "on" /\ Mishap /\ unhung' = TRUE
  /\ recorder' = "kept" /\ events' = events \cup {"saved"}
  /\ UNCHANGED leg

(* Second pass: both requests are made, and neither answer looked at. *)
SweepStop ==
  /\ sweep = "stop"
  /\ RequestHangup(events) \/ StopsOnly
  /\ sweep' = "closed"
  /\ UNCHANGED <<route, callVars, ringVars, admitting, parked>>

SweepClosed ==
  /\ sweep = "closed"
  /\ status' = "completed"
  /\ deadline' = "none"
  /\ parked' = FALSE
  /\ sweep' = "idle"
  /\ UNCHANGED <<route, answered_at, answered_by, missed, recording, admitting,
                 carrierVars, mishapVars>>

-----------------------------------------------------------------------------
(* The other sweeps of the loop, webhook.rs.                               *)

(* reap_overrunning_calls: the longest call is over. *)
Reap ==
  /\ sweep = "idle"
  /\ status \in {"answered", "bridged", "ending"} /\ answered_at
  /\ RequestHangup(events)
  /\ sweep' = "reap"
  /\ UNCHANGED <<route, callVars, ringVars, admitting, parked>>

ReapMark ==
  /\ sweep = "reap"
  /\ status' = IF status \in {"answered", "bridged"} THEN "ending" ELSE status
  /\ sweep' = "idle"
  /\ UNCHANGED <<route, answered_at, ringVars, admitting, parked, carrierVars,
                 mishapVars>>

(* fail_stalled_calls: ten minutes are longer than any ring deadline and   *)
(* than any webhook takes.                                                 *)
Stall ==
  /\ sweep = "idle"
  /\ status = "ringing" /\ ~answered_at
  /\ deadline # "running" /\ ~Unanswered
  /\ admitting = "over" /\ events = {}
  /\ status' = "failed"
  /\ parked' = FALSE
  /\ UNCHANGED <<route, answered_at, ringVars, admitting, sweep, carrierVars,
                 mishapVars>>

-----------------------------------------------------------------------------
(* The carrier's webhooks, in any order.                                   *)

LifecycleOf(e) == IF e = "answered" THEN "Answered" ELSE "Hangup"

(* `apply` of an answer or a hangup, with the reclaim of a call that ended. *)
apply(e) ==
  /\ e \in events \cap {"answered", "hangup"}
  /\ events' = events \ {e}
  /\ LET after == next(status, LifecycleOf(e))
     IN  IF status = "absent" \/ after = NoMove
         THEN UNCHANGED <<callVars, parked>>
         ELSE /\ status' = after
              /\ answered_at' = (answered_at \/ after = "answered")
              /\ parked' = (parked /\ ~is_terminal(after))
  /\ UNCHANGED <<route, ringVars, admitting, sweep, leg, recorder, mishapVars>>

apply_side_effects(e) ==
  /\ e \in events \cap {"recording_started", "saved"}
  /\ events' = events \ {e}
  /\ recording' = IF e = "saved" THEN "saved" ELSE "recording"
  /\ UNCHANGED <<route, callVars, answered_by, deadline, missed, taskVars, leg,
                 recorder, mishapVars>>

(* An error of the database ends the pass of the sweep where it stands. *)
SweepError ==
  /\ sweep \in SweepSteps \ {"idle", "letgo", "prompt", "record", "stop"}
  /\ Mishap
  /\ sweep' = "idle"
  /\ UNCHANGED <<route, callVars, ringVars, admitting, parked, carrierVars,
                 unhung>>

(* A restart loses the tasks and the parked leg. *)
Crash ==
  /\ Mishap
  /\ admitting' = IF admitting = "idle" THEN "idle" ELSE "over"
  /\ sweep' = "idle"
  /\ parked' = FALSE
  /\ UNCHANGED <<route, callVars, ringVars, carrierVars, unhung>>

-----------------------------------------------------------------------------
Sweeping ==
  \/ SweepSelect \/ SweepMiss \/ SweepPrompt \/ SweepRecord \/ SweepMessage
  \/ SweepLetGo \/ SweepMissed \/ SweepStop \/ SweepClosed
  \/ Reap \/ ReapMark \/ Stall

Admitting == Admit \/ Refuse \/ Park \/ AnswerLeg \/ Ring

Next ==
  \/ Admitting
  \/ \E u \in Colleagues : answer_inbound(u)
  \/ LegDrops \/ DeadlinePasses
  \/ Sweeping
  \/ \E e \in events : apply(e) \/ apply_side_effects(e)
  \/ SweepError \/ Crash

(* The loop runs each of its sweeps in every round, so one cannot starve   *)
(* another; the clock runs, a task goes on and the carrier delivers a      *)
(* webhook until it is accepted.  Nobody has to answer a call or hang up.  *)
Fairness ==
  /\ WF_vars(Sweeping) /\ SF_vars(SweepSelect) /\ SF_vars(Reap)
  /\ WF_vars(Admitting) /\ WF_vars(DeadlinePasses)
  /\ \A e \in {"answered", "hangup"} : WF_vars(apply(e))
  /\ \A e \in {"recording_started", "saved"} : WF_vars(apply_side_effects(e))

Spec == Init /\ [][Next]_vars

LiveSpec == Spec /\ Fairness

-----------------------------------------------------------------------------
TypeOK ==
  /\ route \in Routes
  /\ status \in CallStates \cup {"absent"}
  /\ {answered_at, missed, parked, unhung} \subseteq BOOLEAN
  /\ answered_by \subseteq Colleagues /\ Cardinality(answered_by) <= 1
  /\ deadline \in {"none", "running", "due"}
  /\ recording \in {"none", "pending", "recording", "saved"}
  /\ admitting \in AdmitSteps /\ sweep \in SweepSteps
  /\ leg \in {"offered", "up", "down"}
  /\ recorder \in {"off", "on", "kept"}
  /\ events \subseteq {"incoming", "answered", "hangup", "recording_started",
                       "saved"}
  /\ mishaps \in 0 .. MaxMishaps

(* A call was taken, and no sweep has it in hand. *)
Taken == answered_by # {} /\ sweep \in {"idle", "reap"}

(* "First to claim it wins": once no sweep that selected it is under way,  *)
(* a taken call is never again marked missed, recorded as a message or     *)
(* taken by another: not even while admission is on its way to bring the   *)
(* deadline forward, nor when it was a message that was taken.             *)
TakenIsLeftAlone ==
  [][Taken => Taken' /\ answered_by' = answered_by /\ missed' = missed
                     /\ (recorder' = "on" => recorder = "on")]_vars

(* "A hangup that fails must not leave a call ringing in our records for   *)
(* ever": every admitted call is over in the end and stays so, whatever    *)
(* the sweep writes over a row that had ended.  The exception is a call    *)
(* that a colleague took after the sweep had given it up, which the second *)
(* pass does not look at, when nothing else ends it either: the duration   *)
(* sweep never saw its answer, or the row was written live again after its *)
(* hangup.                                                                 *)
EveryCallEnds ==
  <>[](Over \/ (missed /\ answered_by # {} /\ (~answered_at \/ leg = "down")))

(* "Short enough that a forgotten handset does not bill for an hour": a    *)
(* caller is not recorded for ever, however the message's two passes, the  *)
(* answer's webhook, a restart and a colleague fall together.  Two         *)
(* exceptions are the code's: the row was closed after a hangup that       *)
(* failed, which nobody repeats; and a colleague took a message whose      *)
(* answer had not been heard of when it was written down as answered,      *)
(* which hides it from the second pass and from the duration sweep.        *)
EveryMessageStops ==
  <>[](\/ recorder # "on"
       \/ Over /\ unhung
       \/ missed /\ answered_by # {} /\ ~answered_at)

(* The caller's line is not left open behind a row that is over, unless a  *)
(* hangup failed: it is not tried again.                                   *)
LineIsLetGo ==
  /\ TypeOK
  /\ Over => leg # "up" \/ unhung
=============================================================================
