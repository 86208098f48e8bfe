------------------------------- MODULE AiJobs -------------------------------
(***************************************************************************)
(* The paid AI analyses of one finished call: the job slots of ai/jobs.rs, *)
(* the endpoints that claim them for a report and for a sentiment analysis *)
(* (api.rs), the sweep that claims both for a telephone call whose caller  *)
(* ticked the box (voip/webhook.rs), and the charge (billing.rs).          *)
(*                                                                         *)
(* A caller is a click or one half of the sweep, and has at most one task. *)
(* A task looks up nothing after its claim: what it was told before it may *)
(* be stale by then.  A charge is one credit.                              *)
(***************************************************************************)
EXTENDS Naturals, FiniteSets

CONSTANTS
  Clicks,      (* requests of the account's owner, each made once *)
  Wanted,      (* the requests they may be: functions to "structured", "sentiment" *)
  Funds,       (* the balance they start from *)
  MaxMishaps   (* bound: database errors and crashes *)

VARIABLES
  (* ai_jobs, by what the slot is for *)
  job,         (* the row [id, status, lapsed]; lapsed: not touched for 3 minutes *)
  ids,         (* the last row id given out *)
  (* requests *)
  step,        (* how far a click has got *)
  slot,        (* the slot a caller claims *)
  handle,      (* the job a click was told to poll, 0 for none *)
  (* the sweep *)
  sweep,       (* its next step for the call *)
  stamped,     (* ai_analysis_enqueued_at *)
  (* the tasks of callers *)
  task,        (* what it does next *)
  on,          (* the job it runs, 0 for none *)
  beats,       (* callers whose task's heartbeat runs *)
  (* money and results *)
  balance,
  paid,        (* charges of a caller *)
  analysed,    (* the session has its row in session_sentiments *)
  kept,        (* callers whose result the database holds *)
  (* history *)
  raced,       (* an analysis was claimed by a caller that had missed it *)
  lost,        (* the heartbeat of a live task stopped on an error *)
  died,        (* a task was killed, or could not record how it ended *)
  mishaps

jobVars == <<job, ids>>
askVars == <<step, handle>>
sweepVars == <<sweep, stamped>>
taskVars == <<task, on, beats>>
moneyVars == <<balance, paid, analysed, kept>>
historyVars == <<raced, lost, died, mishaps>>

vars == <<jobVars, slot, askVars, sweepVars, taskVars, moneyVars, historyVars>>

SweepReport == "sweep report"

SweepSentiment == "sweep sentiment"

ASSUME AiAssumption ==
  /\ Wanted \subseteq [Clicks -> {"structured", "sentiment"}]
  /\ SweepReport \notin Clicks /\ SweepSentiment \notin Clicks
  /\ Funds \in Nat /\ MaxMishaps \in Nat

Callers == Clicks \cup {SweepReport, SweepSentiment}

(* The session, feature and parameters of a claim.  The sweep asks for its *)
(* report under a format of its own, which no click ever has.              *)
Slots == {"structured", "md", "sentiment"}

(* The formats session_reports accepts (migration 005). *)
Storable == {"structured", "sentiment"}

NoJob == [id |-> 0, status |-> "none", lapsed |-> FALSE]

Terminal(j) == j.status \in {"done", "failed"}

Init ==
  /\ job = [s \in Slots |-> NoJob] /\ ids = 0
  /\ step = [c \in Clicks |-> "idle"]
  /\ slot \in {[k \in Callers |-> IF k = SweepReport THEN "md"
                                  ELSE IF k = SweepSentiment THEN "sentiment"
                                  ELSE w[k]] : w \in Wanted}
  /\ handle = [c \in Clicks |-> 0]
  /\ sweep = "idle" /\ stamped = FALSE
  /\ task = [k \in Callers |-> "none"]
  /\ on = [k \in Callers |-> 0]
  /\ beats = {}
  /\ balance = Funds
  /\ paid = [k \in Callers |-> 0]
  /\ analysed = FALSE /\ kept = {}
  /\ raced = FALSE /\ lost = FALSE /\ died = FALSE
  /\ mishaps = 0

-----------------------------------------------------------------------------
(* claim: finished rows an hour old are deleted, then one upsert takes the *)
(* slot or leaves it to the job that holds it.                             *)

(* Mutant: the upsert without its WHERE. *)
ClaimableAlways(j) == TRUE

Claimable(j) == j.status # "pending" \/ j.lapsed

Pruned(old) == [s \in Slots |-> IF s \in old THEN NoJob ELSE job[s]]

(* Claim::Owned, and the task is spawned with its heartbeat. *)
Owned(k, j) ==
  LET s == slot[k]
      id == IF j[s].id = 0 THEN ids + 1 ELSE j[s].id
  IN /\ job' = [j EXCEPT ![s] = [id |-> id, status |-> "pending", lapsed |-> FALSE]]
     /\ ids' = IF j[s].id = 0 THEN ids + 1 ELSE ids
     /\ task' = [task EXCEPT ![k] = "working"]
     /\ on' = [on EXCEPT ![k] = id]
     /\ beats' = beats \cup {k}
     /\ raced' = (raced \/ (s = "sentiment" /\ analysed))

AlreadyRunning(j) == job' = j /\ UNCHANGED <<ids, taskVars, raced>>

Claim(k) ==
  \E old \in SUBSET {s \in Slots : Terminal(job[s])} :
    IF Claimable(Pruned(old)[slot[k]]) THEN Owned(k, Pruned(old))
    ELSE AlreadyRunning(Pruned(old))

(* A pending row nobody touches ages out; a heartbeat touches three times  *)
(* as often as that takes.                                                 *)
Beaten(s) == \E k \in beats : on[k] = job[s].id

Lapse(s) ==
  /\ job[s].status = "pending" /\ ~job[s].lapsed /\ ~Beaten(s)
  /\ job' = [job EXCEPT ![s].lapsed = TRUE]
  /\ UNCHANGED <<ids, slot, askVars, sweepVars, taskVars, moneyVars, historyVars>>

(* touch finds the row no longer pending, or gone. *)
HeartStops(k) ==
  /\ k \in beats
  /\ \A s \in Slots : job[s].id = on[k] => job[s].status # "pending"
  /\ beats' = beats \ {k}
  /\ UNCHANGED <<jobVars, slot, askVars, sweepVars, task, on, moneyVars, historyVars>>

-----------------------------------------------------------------------------
(* report_generate and sentiment_generate.                                 *)

(* The sentiment of a session is looked up first, and free if it is there. *)
Ask(c) ==
  /\ step[c] = "idle"
  /\ step' = [step EXCEPT ![c] =
                IF slot[c] = "sentiment" /\ analysed THEN "served" ELSE "asked"]
  /\ UNCHANGED <<jobVars, slot, handle, sweepVars, taskVars, moneyVars, historyVars>>

(* The advisory look at the balance. *)
Precheck(c) ==
  /\ step[c] = "asked"
  /\ step' = [step EXCEPT ![c] = IF balance < 1 THEN "refused" ELSE "claiming"]
  /\ UNCHANGED <<jobVars, slot, handle, sweepVars, taskVars, moneyVars, historyVars>>

ClickClaims(c) ==
  /\ step[c] = "claiming"
  /\ Claim(c)
  /\ step' = [step EXCEPT ![c] = "accepted"]
  /\ handle' = [handle EXCEPT ![c] = job'[slot[c]].id]
  /\ UNCHANGED <<slot, sweepVars, moneyVars, lost, died, mishaps>>

-----------------------------------------------------------------------------
(* enqueue_ai_analysis, one call of one sweep at a time.                   *)

(* Mutant: the stamp is forgotten. *)
SweepStampsNothing ==
  /\ sweep = "idle" /\ ~stamped
  /\ sweep' = "report"
  /\ UNCHANGED <<jobVars, slot, askVars, stamped, taskVars, moneyVars, historyVars>>

(* Stamped before the claim; a call without an account, or whose           *)
(* transcript was purged, is stamped and left.                             *)
SweepStamps ==
  /\ sweep = "idle" /\ ~stamped
  /\ stamped' = TRUE
  /\ sweep' \in {"report", "idle"}
  /\ UNCHANGED <<jobVars, slot, askVars, taskVars, moneyVars, historyVars>>

SweepClaimsReport ==
  /\ sweep = "report"
  /\ Claim(SweepReport)
  /\ sweep' = "lookup"
  /\ UNCHANGED <<slot, askVars, stamped, moneyVars, lost, died, mishaps>>

SweepLooksUp ==
  /\ sweep = "lookup"
  /\ sweep' = IF analysed THEN "idle" ELSE "sentiment"
  /\ UNCHANGED <<jobVars, slot, askVars, stamped, taskVars, moneyVars, historyVars>>

SweepClaimsSentiment ==
  /\ sweep = "sentiment"
  /\ Claim(SweepSentiment)
  /\ sweep' = "idle"
  /\ UNCHANGED <<slot, askVars, stamped, moneyVars, lost, died, mishaps>>

-----------------------------------------------------------------------------
(* run_report_inner and run_sentiment_inner: generate, charge, persist;    *)
(* and run_on, which writes down how it ended.                             *)

TaskTo(k, next) == task' = [task EXCEPT ![k] = next]

Generated(k) ==
  /\ task[k] = "working"
  /\ TaskTo(k, "charging")
  /\ UNCHANGED <<jobVars, slot, askVars, sweepVars, on, beats, moneyVars, historyVars>>

GroqFails(k) ==
  /\ task[k] = "working"
  /\ TaskTo(k, "failing")
  /\ UNCHANGED <<jobVars, slot, askVars, sweepVars, on, beats, moneyVars, historyVars>>

(* deduct_feature under the row lock; too little withholds the result. *)
Charge(k) ==
  /\ task[k] = "charging"
  /\ IF balance < 1 THEN TaskTo(k, "failing") /\ UNCHANGED <<balance, paid>>
     ELSE /\ balance' = balance - 1
          /\ paid' = [paid EXCEPT ![k] = @ + 1]
          /\ TaskTo(k, "saving")
  /\ UNCHANGED <<jobVars, slot, askVars, sweepVars, on, beats, analysed, kept,
                 historyVars>>

(* save_report and save_sentiment.  A row that is there already, or that   *)
(* the table refuses, changes nothing: the result is delivered all the     *)
(* same.                                                                   *)
Save(k) ==
  /\ task[k] = "saving"
  /\ kept' = IF slot[k] \in Storable THEN kept \cup {k} ELSE kept
  /\ analysed' = (analysed \/ slot[k] = "sentiment")
  /\ TaskTo(k, "answering")
  /\ UNCHANGED <<jobVars, slot, askVars, sweepVars, on, beats, balance, paid,
                 historyVars>>

(* The task is over, and its heartbeat with it. *)
Ends(k) ==
  /\ TaskTo(k, "none")
  /\ on' = [on EXCEPT ![k] = 0]
  /\ beats' = beats \ {k}

(* complete and fail write to the row by its id, whoever holds it now.     *)
Over(k, status) ==
  /\ job' = [s \in Slots |->
               IF job[s].id = on[k]
               THEN [id |-> on[k], status |-> status, lapsed |-> FALSE]
               ELSE job[s]]
  /\ Ends(k)
  /\ UNCHANGED <<ids, slot, askVars, sweepVars, moneyVars, historyVars>>

Complete(k) == task[k] = "answering" /\ Over(k, "done")

(* Mutant: a failure ends the task and is only logged. *)
FailQuietly(k) ==
  /\ task[k] = "failing"
  /\ Ends(k)
  /\ UNCHANGED <<jobVars, slot, askVars, sweepVars, moneyVars, historyVars>>

Fail(k) == task[k] = "failing" /\ Over(k, "failed")

-----------------------------------------------------------------------------
(* Mishaps.                                                                *)

Mishap == mishaps < MaxMishaps /\ mishaps' = mishaps + 1

(* One touch that errs ends the heartbeat loop; the task goes on. *)
HeartFails(k) ==
  /\ k \in beats
  /\ beats' = beats \ {k}
  /\ lost' = TRUE
  /\ Mishap
  /\ UNCHANGED <<jobVars, slot, askVars, sweepVars, task, on, moneyVars, raced, died>>

(* An error of ours after the work is done: the result goes out unpaid, or *)
(* paid and unsaved.                                                       *)
StatementFails(k) ==
  /\ task[k] \in {"charging", "saving"}
  /\ TaskTo(k, IF task[k] = "charging" THEN "saving" ELSE "answering")
  /\ Mishap
  /\ UNCHANGED <<jobVars, slot, askVars, sweepVars, on, beats, moneyVars, raced,
                 lost, died>>

WriteFails(k) ==
  /\ task[k] \in {"answering", "failing"}
  /\ Ends(k)
  /\ died' = TRUE
  /\ Mishap
  /\ UNCHANGED <<jobVars, slot, askVars, sweepVars, moneyVars, raced, lost>>

(* A request ends in an error; the sweep skips a claim, and takes a lookup *)
(* that fails for an analysis that is there.                               *)
AskFails ==
  /\ \/ \E c \in Clicks :
          /\ step[c] \in {"asked", "claiming"}
          /\ step' = [step EXCEPT ![c] = "refused"]
          /\ UNCHANGED sweep
     \/ /\ sweep \in {"report", "lookup", "sentiment"}
        /\ sweep' = IF sweep = "report" THEN "lookup" ELSE "idle"
        /\ UNCHANGED step
  /\ Mishap
  /\ UNCHANGED <<jobVars, slot, handle, stamped, taskVars, moneyVars, raced,
                 lost, died>>

Crash ==
  /\ task' = [k \in Callers |-> "none"]
  /\ on' = [k \in Callers |-> 0]
  /\ beats' = {}
  /\ step' = [c \in Clicks |->
                IF step[c] \in {"asked", "claiming"} THEN "refused" ELSE step[c]]
  /\ sweep' = "idle"
  /\ died' = TRUE
  /\ Mishap
  /\ UNCHANGED <<jobVars, slot, handle, stamped, moneyVars, raced, lost>>

-----------------------------------------------------------------------------
Asking(c) == Ask(c) \/ Precheck(c) \/ ClickClaims(c)

Sweeping == SweepStamps \/ SweepClaimsReport \/ SweepLooksUp \/ SweepClaimsSentiment

Running(k) ==
  Generated(k) \/ GroqFails(k) \/ Charge(k) \/ Save(k) \/ Complete(k) \/ Fail(k)

Next ==
  \/ \E c \in Clicks : Asking(c)
  \/ Sweeping
  \/ \E k \in Callers : Running(k) \/ HeartStops(k)
  \/ \E s \in Slots : Lapse(s)
  \/ \E k \in Callers : HeartFails(k) \/ StatementFails(k) \/ WriteFails(k)
  \/ AskFails \/ Crash

(* A spawned task runs on: its calls to Groq have timeouts and its         *)
(* statements return.  Nobody has to click.                                *)
Fairness == \A k \in Callers : WF_vars(Running(k))

Spec == Init /\ [][Next]_vars

LiveSpec == Spec /\ Fairness

-----------------------------------------------------------------------------
TypeOK ==
  /\ job \in [Slots -> [id : Nat, status : {"none", "pending", "done", "failed"},
                        lapsed : BOOLEAN]]
  /\ ids \in Nat
  /\ step \in [Clicks -> {"idle", "asked", "claiming", "accepted", "refused", "served"}]
  /\ slot \in [Callers -> Slots]
  /\ handle \in [Clicks -> Nat]
  /\ sweep \in {"idle", "report", "lookup", "sentiment"}
  /\ task \in [Callers -> {"none", "working", "charging", "saving", "answering",
                           "failing"}]
  /\ on \in [Callers -> Nat]
  /\ beats \subseteq Callers
  /\ balance \in Nat
  /\ paid \in [Callers -> Nat]
  /\ kept \subseteq Callers
  /\ {stamped, analysed, raced, lost, died} \subseteq BOOLEAN
  /\ mishaps \in Nat

(* "A live job, however long, is never seen as stale and never             *)
(* double-run": two tasks run for one slot only after an error has stopped *)
(* the heartbeat of one of them, which the code does not take up again.    *)
NeverDoubleRun ==
  /\ TypeOK
  /\ \A k, l \in Callers :
       k # l /\ slot[k] = slot[l] /\ task[k] # "none" /\ task[l] # "none" => lost

SentimentCharges ==
  Cardinality({k \in Callers : slot[k] = "sentiment" /\ paid[k] > 0})

(* The sweep charges for a report once, whatever crashes between its       *)
(* steps; the analysis of a session is paid for once, unless a caller had  *)
(* looked for it before it was there and claimed its slot after; and what  *)
(* was paid for is kept.  That holds for the sweep's report only while its *)
(* task runs: the table refuses its format, and no one holds its handle.   *)
PaidOnceAndKept ==
  /\ \A k \in Callers : paid[k] <= 1
  /\ SentimentCharges > 1 => raced \/ mishaps > 0
  /\ \A k \in Callers \ {SweepReport} :
       paid[k] > 0 /\ task[k] = "none" => k \in kept \/ mishaps > 0

Pending(id) == \E s \in Slots : job[s].id = id /\ job[s].status = "pending"

(* The job a click polls is answered, also when the task's heartbeat, its  *)
(* charge or its insert failed; not when the process died, or the answer   *)
(* could not be written: then the job is pending until somebody asks again.*)
EveryJobAnswers ==
  \A c \in Clicks :
    (handle[c] # 0 /\ Pending(handle[c])) ~> (~Pending(handle[c]) \/ died)
=============================================================================
