---------------------------- MODULE AiJobsProofs ----------------------------
(***************************************************************************)
(* Proofs about AiJobs: that no slot is run twice and that nobody pays     *)
(* twice, for any clicks, funds and number of mishaps.                     *)
(***************************************************************************)
EXTENDS AiJobs, FiniteSetTheorems, TLAPS

JobRows == [id : Nat, status : {"none", "pending", "done", "failed"},
            lapsed : BOOLEAN]

TaskStates ==
  {"none", "working", "charging", "saving", "answering", "failing"}

(* A row has an id of its own, and none without a job. *)
RowsInv ==
  \A s \in Slots :
    /\ job[s].id <= ids
    /\ job[s].id = 0 => job[s].status = "none"
    /\ \A r \in Slots : job[s].id = job[r].id /\ job[s].id # 0 => s = r

(* A task whose heartbeat was never lost holds its slot: the row is        *)
(* pending, is its own and does not age, so nobody else has claimed it.    *)
Holds(k) ==
  /\ k \in beats
  /\ job[slot[k]].id = on[k]
  /\ job[slot[k]].status = "pending"
  /\ job[slot[k]].lapsed = FALSE

RunInv ==
  /\ TypeOK /\ RowsInv
  /\ \A k \in Callers : task[k] # "none" => on[k] # 0
  /\ ~lost => \A k \in Callers : task[k] # "none" => Holds(k)
  /\ ~lost => \A k, l \in Callers :
                k # l /\ slot[k] = slot[l] /\ task[k] # "none" => task[l] = "none"

LEMMA SweepIsACaller ==
  /\ SweepReport \in Callers /\ SweepSentiment \in Callers
  /\ Clicks \subseteq Callers /\ SweepReport # SweepSentiment
  BY DEF Callers, SweepReport, SweepSentiment

LEMMA RunInit ==
  ASSUME Init PROVE RunInv
<1>1. PICK w \in Wanted :
        slot = [k \in Callers |-> IF k = SweepReport THEN "md"
                                  ELSE IF k = SweepSentiment THEN "sentiment"
                                  ELSE w[k]]
  BY DEF Init
<1>2. slot \in [Callers -> Slots]
  BY <1>1, AiAssumption DEF Slots, Callers
<1>3. job \in [Slots -> JobRows]
  BY DEF Init, NoJob, JobRows
<1>4. {stamped, analysed, raced, lost, died} \subseteq BOOLEAN
  BY DEF Init
<1>5. RowsInv
  BY DEF Init, NoJob, RowsInv
<1>6. TypeOK
  BY <1>2, <1>3, <1>4, AiAssumption DEF Init, TypeOK, JobRows
<1>. QED
  BY <1>5, <1>6 DEF Init, RunInv

-----------------------------------------------------------------------------
(* What a claim does.                                                      *)

Swept(old) == old \subseteq {s \in Slots : Terminal(job[s])}

(* Pruning forgets rows that are over and leaves a pending one alone. *)
LEMMA PruningKeeps ==
  ASSUME RunInv, NEW old, Swept(old)
  PROVE  /\ Pruned(old) \in [Slots -> JobRows]
         /\ \A s \in Slots : Pruned(old)[s] \in {NoJob, job[s]}
         /\ \A s \in Slots :
              job[s].status = "pending" => Pruned(old)[s] = job[s]
<1>1. NoJob \in JobRows /\ \A s \in Slots : job[s] \in JobRows
  BY DEF RunInv, TypeOK, NoJob, JobRows
<1>2. \A s \in Slots : job[s].status = "pending" => s \notin old
  BY DEF Swept, Terminal
<1>. QED
  BY <1>1, <1>2 DEF Pruned

(* A slot that a task holds cannot be claimed. *)
LEMMA HeldIsNotClaimable ==
  ASSUME RunInv, NEW old, Swept(old), NEW l \in Callers, Holds(l)
  PROVE  ~Claimable(Pruned(old)[slot[l]])
<1>1. slot[l] \in Slots
  BY DEF RunInv, TypeOK
<1>2. Pruned(old)[slot[l]] = job[slot[l]]
  BY <1>1, PruningKeeps DEF Holds
<1>. QED
  BY <1>2 DEF Holds, Claimable

LEMMA ClaimRuns ==
  ASSUME RunInv, NEW k \in Callers, Claim(k),
         UNCHANGED <<slot, moneyVars, lost, died, mishaps>>
  PROVE  /\ job' \in [Slots -> JobRows] /\ ids' \in Nat
         /\ task' \in [Callers -> TaskStates] /\ on' \in [Callers -> Nat]
         /\ beats' \subseteq Callers /\ raced' \in BOOLEAN
         /\ RowsInv'
         /\ \A l \in Callers : task'[l] # "none" => on'[l] # 0
         /\ ~lost => \A l \in Callers : task'[l] # "none" => Holds(l)'
         /\ ~lost => \A l, m \in Callers :
                       l # m /\ slot[l] = slot[m] /\ task'[l] # "none"
                         => task'[m] = "none"
<1>1. PICK old : /\ Swept(old)
                 /\ IF Claimable(Pruned(old)[slot[k]]) THEN Owned(k, Pruned(old))
                    ELSE AlreadyRunning(Pruned(old))
  BY DEF Claim, Swept
<1>. DEFINE j == Pruned(old)
<1>2. /\ j \in [Slots -> JobRows]
      /\ \A s \in Slots : j[s] \in {NoJob, job[s]}
      /\ \A s \in Slots : job[s].status = "pending" => j[s] = job[s]
  BY <1>1, PruningKeeps
<1>3. \A l \in Callers : Holds(l) => ~Claimable(j[slot[l]])
  BY <1>1, HeldIsNotClaimable
<1>4. IF Claimable(j[slot[k]]) THEN Owned(k, j) ELSE AlreadyRunning(j)
  BY <1>1
<1>. HIDE DEF j
<1>5. /\ TypeOK /\ RowsInv /\ slot \in [Callers -> Slots]
      /\ task \in [Callers -> TaskStates]
  BY DEF RunInv, TypeOK, TaskStates
<1>6. \A s \in Slots : /\ job[s].id \in Nat /\ ids \in Nat
                       /\ j[s].id = job[s].id \/ j[s].id = 0
                       /\ j[s].id = 0 => j[s].status = "none"
  <2>1. NoJob.id = 0 /\ NoJob.status = "none"
    BY DEF NoJob
  <2>2. \A s \in Slots : job[s].id \in Nat /\ ids \in Nat
                        /\ (job[s].id = 0 => job[s].status = "none")
    BY <1>5 DEF TypeOK, RowsInv
  <2>. QED
    BY <1>2, <2>1, <2>2
<1>7. \A s \in Slots : /\ j[s].id <= ids /\ (j[s].id = 0 => j[s].status = "none")
                       /\ \A r \in Slots : j[s].id = j[r].id /\ j[s].id # 0 => s = r
  <2>0. \A s, r \in Slots : /\ job[s].id <= ids
                            /\ job[s].id = job[r].id /\ job[s].id # 0 => s = r
    BY <1>5 DEF RowsInv
  <2>1. ASSUME NEW s \in Slots
        PROVE  j[s].id <= ids /\ (j[s].id = 0 => j[s].status = "none")
    BY <1>6, <2>0, <2>1
  <2>2. ASSUME NEW s \in Slots, NEW r \in Slots, j[s].id = j[r].id, j[s].id # 0
        PROVE  s = r
    <3>1. j[s].id = job[s].id /\ j[r].id = job[r].id
      BY <1>6, <2>2
    <3>. QED
      BY <2>0, <2>2, <3>1
  <2>. QED
    BY <2>1, <2>2
<1>8. CASE AlreadyRunning(j)
  <2>1. RowsInv'
    BY <1>8, <1>7 DEF AlreadyRunning, RowsInv
  <2>2. ~lost => \A l \in Callers : task'[l] # "none" => Holds(l)'
    BY <1>2, <1>5, <1>8 DEF AlreadyRunning, RunInv, Holds, taskVars
  <2>. QED
    BY <1>2, <1>5, <1>8, <2>1, <2>2
       DEF AlreadyRunning, RunInv, TypeOK, taskVars
<1>9. CASE Claimable(j[slot[k]]) /\ Owned(k, j)
  <2>. DEFINE s == slot[k]
              id == IF j[s].id = 0 THEN ids + 1 ELSE j[s].id
              mine == [id |-> id, status |-> "pending", lapsed |-> FALSE]
  <2>1. /\ s \in Slots /\ ids \in Nat /\ j[s].id \in Nat
    BY <1>2, <1>5 DEF TypeOK, JobRows
  <2>2. /\ id \in Nat \ {0} /\ mine \in JobRows
        /\ mine.id = id /\ mine.status = "pending" /\ mine.lapsed = FALSE
    BY <2>1 DEF JobRows
  <2>3. /\ job' = [j EXCEPT ![s] = mine]
        /\ ids' = IF j[s].id = 0 THEN ids + 1 ELSE ids
        /\ task' = [task EXCEPT ![k] = "working"]
        /\ on' = [on EXCEPT ![k] = id]
        /\ beats' = beats \cup {k}
        /\ raced' = (raced \/ (s = "sentiment" /\ analysed))
    BY <1>9 DEF Owned
  <2>4. id <= ids' /\ ids <= ids' /\ ids' \in Nat
          /\ (id = j[s].id \/ id = ids + 1)
    BY <1>7, <2>1, <2>3
  <2>. HIDE DEF s, id, mine
  <2>5. \A r \in Slots : job'[r] = IF r = s THEN mine ELSE j[r]
    BY <1>2, <2>3
  <2>6. job' \in [Slots -> JobRows]
    BY <1>2, <2>2, <2>3
  <2>7. \A r \in Slots : r # s => j[r].id # id
    BY <1>6, <1>7, <2>1, <2>2, <2>4
  <2>8. RowsInv'
    <3>1. \A r \in Slots : r # s => job'[r] = j[r] /\ job'[r].id # id
                                    /\ j[r].id \in Nat
      BY <1>2, <2>5, <2>7 DEF JobRows
    <3>2. job'[s].id = id
      BY <2>1, <2>2, <2>5
    <3>3. \A r \in Slots : /\ job'[r].id <= ids'
                           /\ job'[r].id = 0 => job'[r].status = "none"
      BY <1>7, <2>1, <2>2, <2>4, <3>1, <3>2
    <3>4. \A r, q \in Slots : job'[r].id = job'[q].id /\ job'[r].id # 0 => r = q
      BY <1>7, <3>1, <3>2
    <3>. QED
      BY <3>3, <3>4 DEF RowsInv
  <2>9. \A l \in Callers : task'[l] # "none" => on'[l] # 0
    BY <1>5, <2>2, <2>3 DEF RunInv, TypeOK
  <2>10. ASSUME ~lost, NEW l \in Callers, l # k, slot[l] = s
         PROVE  task[l] = "none"
    BY <1>3, <1>9, <2>10 DEF RunInv, s
  <2>11. ASSUME ~lost, NEW l \in Callers, task'[l] # "none" PROVE Holds(l)'
    <3>1. CASE l = k
      BY <1>5, <2>1, <2>2, <2>3, <2>5, <3>1 DEF Holds, s, TypeOK
    <3>2. CASE l # k
      <4>1. task[l] # "none" /\ slot[l] # s
        BY <1>5, <2>3, <2>10, <2>11, <3>2
      <4>2. Holds(l) /\ slot[l] \in Slots
        BY <1>5, <2>11, <4>1 DEF RunInv
      <4>3. job'[slot[l]] = job[slot[l]]
        BY <1>2, <2>5, <4>1, <4>2 DEF Holds
      <4>. QED
        BY <1>5, <2>3, <3>2, <4>2, <4>3 DEF Holds, TypeOK
    <3>. QED
      BY <3>1, <3>2
  <2>12. ASSUME ~lost, NEW l \in Callers, NEW m \in Callers, l # m,
                slot[l] = slot[m], task'[l] # "none"
         PROVE  task'[m] = "none"
    BY <1>5, <2>3, <2>10, <2>12 DEF RunInv, s
  <2>13. raced' \in BOOLEAN
    BY <1>5, <2>3 DEF TypeOK
  <2>14. /\ task' \in [Callers -> TaskStates] /\ on' \in [Callers -> Nat]
         /\ beats' \subseteq Callers
    BY <1>5, <2>2, <2>3 DEF TypeOK, TaskStates
  <2>. QED
    BY <2>4, <2>6, <2>8, <2>9, <2>11, <2>12, <2>13, <2>14
<1>. QED
  BY <1>4, <1>8, <1>9

-----------------------------------------------------------------------------
LEMMA TaskToIsTyped ==
  ASSUME TypeOK, NEW k \in Callers, NEW n \in TaskStates, TaskTo(k, n)
  PROVE  task' \in [Callers -> TaskStates]
  BY DEF TypeOK, TaskTo, TaskStates

(* The endpoints and the sweep, but for their claims. *)
LEMMA AskingTyped ==
  ASSUME TypeOK,
         \/ \E c \in Clicks : Ask(c) \/ Precheck(c)
         \/ SweepStamps \/ SweepLooksUp \/ AskFails
  PROVE  TypeOK'
<1>1. CASE \E c \in Clicks : Ask(c) \/ Precheck(c)
  BY <1>1 DEF Ask, Precheck, TypeOK, jobVars, sweepVars, taskVars, moneyVars,
              historyVars
<1>2. CASE SweepStamps \/ SweepLooksUp
  BY <1>2 DEF SweepStamps, SweepLooksUp, TypeOK, jobVars, askVars, taskVars,
              moneyVars, historyVars
<1>3. CASE AskFails
  <2>1. mishaps' \in Nat
    BY <1>3 DEF AskFails, Mishap, TypeOK
  <2>2. step' \in [Clicks -> {"idle", "asked", "claiming", "accepted", "refused",
                              "served"}]
          /\ sweep' \in {"idle", "report", "lookup", "sentiment"}
    BY <1>3 DEF AskFails, TypeOK
  <2>. QED
    BY <1>3, <2>1, <2>2 DEF AskFails, TypeOK, jobVars, taskVars, moneyVars
<1>. QED
  BY <1>1, <1>2, <1>3

LEMMA ClaimsTyped ==
  ASSUME RunInv,
         (\E c \in Clicks : ClickClaims(c)) \/ SweepClaimsReport
           \/ SweepClaimsSentiment
  PROVE  TypeOK'
<1>. USE DEF RunInv
<1>1. ASSUME NEW c \in Clicks, ClickClaims(c) PROVE TypeOK'
  <2>1. /\ job' \in [Slots -> JobRows] /\ ids' \in Nat
        /\ task' \in [Callers -> TaskStates] /\ on' \in [Callers -> Nat]
        /\ beats' \subseteq Callers /\ raced' \in BOOLEAN
    BY <1>1, SweepIsACaller, ClaimRuns DEF ClickClaims
  <2>2. handle' \in [Clicks -> Nat]
    BY <1>1, <2>1, SweepIsACaller DEF ClickClaims, TypeOK, JobRows
  <2>3. step' \in [Clicks -> {"idle", "asked", "claiming", "accepted", "refused",
                              "served"}]
    BY <1>1 DEF ClickClaims, TypeOK
  <2>. QED
    BY <1>1, <2>1, <2>2, <2>3
       DEF ClickClaims, TypeOK, JobRows, TaskStates, sweepVars, moneyVars
<1>2. CASE SweepClaimsReport \/ SweepClaimsSentiment
  <2>1. /\ job' \in [Slots -> JobRows] /\ ids' \in Nat
        /\ task' \in [Callers -> TaskStates] /\ on' \in [Callers -> Nat]
        /\ beats' \subseteq Callers /\ raced' \in BOOLEAN
    BY <1>2, SweepIsACaller, ClaimRuns DEF SweepClaimsReport, SweepClaimsSentiment
  <2>. QED
    BY <1>2, <2>1
       DEF SweepClaimsReport, SweepClaimsSentiment, TypeOK, JobRows, TaskStates,
           askVars, moneyVars
<1>. QED
  BY <1>1, <1>2

LEMMA EndsTyped ==
  ASSUME TypeOK, NEW k \in Callers, Ends(k)
  PROVE  /\ task' \in [Callers -> TaskStates] /\ on' \in [Callers -> Nat]
         /\ beats' \subseteq Callers
  BY TaskToIsTyped DEF TypeOK, Ends, TaskStates

LEMMA RunningTyped ==
  ASSUME TypeOK, NEW k \in Callers, Running(k) PROVE TypeOK'
<1>1. CASE Generated(k) \/ GroqFails(k)
  BY <1>1, TaskToIsTyped
     DEF Generated, GroqFails, TypeOK, TaskStates, jobVars, askVars, sweepVars,
         moneyVars, historyVars
<1>2. CASE Charge(k)
  <2>1. task' \in [Callers -> TaskStates]
    BY <1>2, TaskToIsTyped DEF Charge, TaskStates
  <2>2. balance' \in Nat /\ paid' \in [Callers -> Nat]
    BY <1>2 DEF Charge, TypeOK
  <2>. QED
    BY <1>2, <2>1, <2>2
       DEF Charge, TypeOK, TaskStates, jobVars, askVars, sweepVars, historyVars
<1>3. CASE Save(k)
  <2>1. task' \in [Callers -> TaskStates]
    BY <1>3, TaskToIsTyped DEF Save, TaskStates
  <2>2. kept' \subseteq Callers /\ analysed' \in BOOLEAN
    BY <1>3 DEF Save, TypeOK
  <2>. QED
    BY <1>3, <2>1, <2>2
       DEF Save, TypeOK, TaskStates, jobVars, askVars, sweepVars, historyVars
<1>4. ASSUME NEW s \in {"done", "failed"}, Over(k, s) PROVE TypeOK'
  <2>1. on[k] \in Nat
    BY DEF TypeOK
  <2>2. job' \in [Slots -> JobRows]
    BY <1>4, <2>1 DEF Over, TypeOK, JobRows
  <2>. QED
    BY <1>4, <2>2, EndsTyped
       DEF Over, TypeOK, JobRows, TaskStates, askVars, sweepVars, moneyVars,
           historyVars
<1>5. CASE Complete(k) \/ Fail(k)
  BY <1>4, <1>5 DEF Complete, Fail
<1>. QED
  BY <1>1, <1>2, <1>3, <1>5 DEF Running

LEMMA MishapsTyped ==
  ASSUME TypeOK,
         \/ \E s \in Slots : Lapse(s)
         \/ \E k \in Callers : HeartStops(k) \/ HeartFails(k)
                                 \/ StatementFails(k) \/ WriteFails(k)
         \/ Crash
  PROVE  TypeOK'
<1>0. Mishap => mishaps' \in Nat
  BY DEF Mishap, TypeOK
<1>1. CASE \E s \in Slots : Lapse(s)
  <2>1. PICK s \in Slots : job' = [job EXCEPT ![s].lapsed = TRUE]
    BY <1>1 DEF Lapse
  <2>2. \A r \in JobRows : [r EXCEPT !.lapsed = TRUE] \in JobRows
    BY DEF JobRows
  <2>3. job \in [Slots -> JobRows]
    BY DEF TypeOK, JobRows
  <2>4. job' \in [Slots -> JobRows]
    BY <2>1, <2>2, <2>3
  <2>. QED
    BY <1>1, <2>4 DEF Lapse, TypeOK, JobRows, askVars, sweepVars, taskVars,
                      moneyVars, historyVars
<1>2. CASE \E k \in Callers : HeartStops(k)
  BY <1>2 DEF HeartStops, TypeOK, jobVars, askVars, sweepVars, moneyVars,
              historyVars
<1>3. CASE \E k \in Callers : HeartFails(k)
  BY <1>0, <1>3 DEF HeartFails, TypeOK, jobVars, askVars, sweepVars, moneyVars
<1>4. CASE \E k \in Callers : StatementFails(k)
  <2>1. task' \in [Callers -> TaskStates]
    BY <1>4, TaskToIsTyped DEF StatementFails, TaskStates
  <2>. QED
    BY <1>0, <1>4, <2>1
       DEF StatementFails, TypeOK, TaskStates, jobVars, askVars, sweepVars,
           moneyVars
<1>5. CASE \E k \in Callers : WriteFails(k)
  <2>1. /\ task' \in [Callers -> TaskStates] /\ on' \in [Callers -> Nat]
        /\ beats' \subseteq Callers
    BY <1>5, EndsTyped DEF WriteFails
  <2>. QED
    BY <1>0, <1>5, <2>1
       DEF WriteFails, TypeOK, TaskStates, jobVars, askVars, sweepVars, moneyVars
<1>6. CASE Crash
  <2>1. step' \in [Clicks -> {"idle", "asked", "claiming", "accepted", "refused",
                              "served"}]
    BY <1>6 DEF Crash, TypeOK
  <2>. QED
    BY <1>0, <1>6, <2>1 DEF Crash, TypeOK, jobVars, moneyVars
<1>. QED
  BY <1>1, <1>2, <1>3, <1>4, <1>5, <1>6

-----------------------------------------------------------------------------
(* The rest of RunInv, without its types. *)
HoldInv ==
  /\ RowsInv
  /\ \A k \in Callers : task[k] # "none" => on[k] # 0
  /\ ~lost => \A k \in Callers : task[k] # "none" => Holds(k)
  /\ ~lost => \A k, l \in Callers :
                k # l /\ slot[k] = slot[l] /\ task[k] # "none" => task[l] = "none"

(* A step that starts no task and touches neither rows nor heartbeats. *)
LEMMA QuietHolds ==
  ASSUME RunInv, UNCHANGED <<jobVars, slot, on, beats, lost>>,
         \A k \in Callers : task'[k] # "none" => task[k] # "none"
  PROVE  HoldInv'
<1>1. RowsInv'
  BY DEF RunInv, RowsInv, jobVars
<1>2. \A k \in Callers : Holds(k) => Holds(k)'
  BY DEF Holds, jobVars
<1>. QED
  BY <1>1, <1>2 DEF RunInv, HoldInv

(* A task that is over lets go; what it writes to its row by the row's id  *)
(* is written to no row another task holds.                                *)
LEMMA OverHolds ==
  ASSUME RunInv, NEW k \in Callers, task[k] # "none",
         NEW status \in {"done", "failed"}, Over(k, status)
  PROVE  HoldInv'
<1>1. /\ TypeOK /\ RowsInv /\ on[k] \in Nat \ {0}
      /\ task \in [Callers -> TaskStates] /\ slot \in [Callers -> Slots]
  BY DEF RunInv, TypeOK, TaskStates
<1>2. /\ \A s \in Slots : job'[s].id = job[s].id
      /\ \A s \in Slots : job[s].id # on[k] => job'[s] = job[s]
      /\ UNCHANGED <<ids, slot, lost>>
  BY <1>1 DEF Over, historyVars
<1>3. /\ task'[k] = "none"
      /\ \A l \in Callers : l # k => task'[l] = task[l] /\ on'[l] = on[l]
      /\ \A l \in Callers : l # k /\ l \in beats => l \in beats'
  BY <1>1 DEF Over, Ends, TaskTo, TypeOK
<1>4. RowsInv'
  <2>1. \A s \in Slots : job[s].id = 0 => job'[s] = job[s]
    BY <1>1, <1>2
  <2>. QED
    BY <1>1, <1>2, <2>1 DEF RowsInv
<1>5. ASSUME ~lost, NEW l \in Callers, task'[l] # "none" PROVE Holds(l)'
  <2>1. l # k /\ task[l] # "none"
    BY <1>3, <1>5
  <2>2. Holds(l) /\ Holds(k) /\ slot[l] # slot[k]
    BY <1>5, <2>1 DEF RunInv
  <2>3. job[slot[l]].id # on[k]
    BY <1>1, <2>2 DEF Holds, RowsInv
  <2>4. job'[slot[l]] = job[slot[l]]
    BY <1>1, <1>2, <2>3
  <2>. QED
    BY <1>2, <1>3, <2>1, <2>2, <2>4 DEF Holds
<1>. QED
  BY <1>2, <1>3, <1>4, <1>5 DEF RunInv, HoldInv

(* So does one that was killed or could not write. *)
LEMMA WriteFailsHolds ==
  ASSUME RunInv, NEW k \in Callers, WriteFails(k) PROVE HoldInv'
<1>1. /\ task \in [Callers -> TaskStates] /\ on \in [Callers -> Nat]
      /\ UNCHANGED <<job, ids, slot, lost>>
  BY DEF RunInv, TypeOK, TaskStates, WriteFails, jobVars
<1>2. /\ task'[k] = "none"
      /\ \A l \in Callers : l # k => task'[l] = task[l] /\ on'[l] = on[l]
      /\ \A l \in Callers : l # k /\ l \in beats => l \in beats'
  BY <1>1 DEF WriteFails, Ends, TaskTo
<1>3. RowsInv'
  BY <1>1 DEF RunInv, RowsInv
<1>4. \A l \in Callers : task'[l] # "none" /\ Holds(l) => Holds(l)'
  BY <1>1, <1>2 DEF Holds
<1>. QED
  BY <1>1, <1>2, <1>3, <1>4 DEF RunInv, HoldInv

(* A held row does not age, and its heartbeat does not stop but on an error. *)
LEMMA BeatsHold ==
  ASSUME RunInv,
         \/ \E s \in Slots : Lapse(s)
         \/ \E k \in Callers : HeartStops(k) \/ HeartFails(k)
         \/ Crash
  PROVE  HoldInv'
<1>. USE DEF RunInv
<1>0. slot \in [Callers -> Slots]
  BY DEF TypeOK
<1>1. CASE \E s \in Slots : Lapse(s)
  <2>1. PICK s \in Slots : Lapse(s)
    BY <1>1
  <2>2. /\ \A r \in Slots : /\ job'[r].id = job[r].id
                            /\ job'[r].status = job[r].status
                            /\ r # s => job'[r] = job[r]
        /\ UNCHANGED <<ids, slot, task, on, beats, lost>>
    BY <2>1 DEF Lapse, TypeOK, taskVars, historyVars
  <2>3. RowsInv'
    BY <2>2 DEF RowsInv
  <2>4. \A l \in Callers : Holds(l) => slot[l] # s
    BY <2>1 DEF Lapse, Beaten, Holds
  <2>5. \A l \in Callers : Holds(l) => Holds(l)'
    BY <1>0, <2>2, <2>4 DEF Holds
  <2>. QED
    BY <2>2, <2>3, <2>5 DEF HoldInv
<1>2. CASE \E k \in Callers : HeartStops(k)
  <2>1. PICK k \in Callers : HeartStops(k)
    BY <1>2
  <2>2. UNCHANGED <<job, ids, slot, task, on, lost>> /\ beats' = beats \ {k}
    BY <2>1 DEF HeartStops, jobVars, historyVars
  <2>3. ~Holds(k)
    BY <1>0, <2>1 DEF HeartStops, Holds
  <2>4. \A l \in Callers : Holds(l) => Holds(l)'
    BY <2>2, <2>3 DEF Holds
  <2>. QED
    BY <2>2, <2>4 DEF HoldInv, RowsInv
<1>3. CASE \E k \in Callers : HeartFails(k)
  BY <1>3 DEF HeartFails, HoldInv, RowsInv, jobVars
<1>4. CASE Crash
  BY <1>4 DEF Crash, HoldInv, RowsInv, jobVars
<1>. QED
  BY <1>1, <1>2, <1>3, <1>4

LEMMA RunStep ==
  ASSUME RunInv, [Next]_vars PROVE RunInv'
<1>. SUFFICES TypeOK' /\ HoldInv'
  BY DEF RunInv, HoldInv
<1>0. TypeOK /\ task \in [Callers -> TaskStates]
  BY DEF RunInv, TypeOK, TaskStates
<1>1. CASE \E c \in Clicks : Asking(c)
  <2>1. CASE \E c \in Clicks : Ask(c) \/ Precheck(c)
    BY <1>0, <2>1, AskingTyped, QuietHolds
       DEF Ask, Precheck, taskVars, historyVars
  <2>2. CASE \E c \in Clicks : ClickClaims(c)
    <3>1. TypeOK' /\ UNCHANGED <<slot, lost>>
      BY <2>2, ClaimsTyped DEF ClickClaims
    <3>. QED
      BY <2>2, <3>1, ClaimRuns, SweepIsACaller DEF ClickClaims, HoldInv
  <2>. QED
    BY <1>1, <2>1, <2>2 DEF Asking
<1>2. CASE Sweeping
  <2>1. CASE SweepStamps \/ SweepLooksUp
    BY <1>0, <2>1, AskingTyped, QuietHolds
       DEF SweepStamps, SweepLooksUp, taskVars, historyVars
  <2>2. CASE SweepClaimsReport \/ SweepClaimsSentiment
    <3>1. TypeOK' /\ UNCHANGED <<slot, lost>>
      BY <2>2, ClaimsTyped DEF SweepClaimsReport, SweepClaimsSentiment
    <3>. QED
      BY <2>2, <3>1, ClaimRuns, SweepIsACaller
         DEF SweepClaimsReport, SweepClaimsSentiment, HoldInv
  <2>. QED
    BY <1>2, <2>1, <2>2 DEF Sweeping
<1>3. CASE \E k \in Callers : Running(k)
  <2>1. PICK k \in Callers : Running(k)
    BY <1>3
  <2>2. CASE Generated(k) \/ GroqFails(k) \/ Charge(k) \/ Save(k)
    <3>1. \A l \in Callers : task'[l] # "none" => task[l] # "none"
      BY <1>0, <2>2 DEF Generated, GroqFails, Charge, Save, TaskTo
    <3>2. UNCHANGED <<jobVars, slot, on, beats, lost>>
      BY <2>2 DEF Generated, GroqFails, Charge, Save, historyVars
    <3>. QED
      BY <1>0, <2>1, <3>1, <3>2, QuietHolds, RunningTyped
  <2>3. CASE Complete(k) \/ Fail(k)
    BY <1>0, <2>1, <2>3, OverHolds, RunningTyped DEF Complete, Fail
  <2>. QED
    BY <2>1, <2>2, <2>3 DEF Running
<1>4. CASE \/ \E s \in Slots : Lapse(s)
           \/ \E k \in Callers : HeartStops(k) \/ HeartFails(k)
           \/ Crash
  BY <1>0, <1>4, MishapsTyped, BeatsHold
<1>5. CASE \E k \in Callers : WriteFails(k)
  BY <1>0, <1>5, MishapsTyped, WriteFailsHolds
<1>6. CASE \E k \in Callers : StatementFails(k)
  <2>1. PICK k \in Callers : StatementFails(k)
    BY <1>6
  <2>2. \A l \in Callers : task'[l] # "none" => task[l] # "none"
    BY <1>0, <2>1 DEF StatementFails, TaskTo
  <2>3. UNCHANGED <<jobVars, slot, on, beats, lost>>
    BY <2>1 DEF StatementFails
  <2>. QED
    BY <1>0, <1>6, <2>2, <2>3, MishapsTyped, QuietHolds
<1>7. CASE AskFails
  BY <1>0, <1>7, AskingTyped, QuietHolds DEF AskFails, taskVars
<1>8. CASE UNCHANGED vars
  <2>1. TypeOK'
    BY <1>0, <1>8 DEF TypeOK, vars, jobVars, askVars, sweepVars, taskVars,
                      moneyVars, historyVars
  <2>. QED
    BY <1>8, <2>1, QuietHolds DEF vars, taskVars, historyVars
<1>. QED
  BY <1>1, <1>2, <1>3, <1>4, <1>5, <1>6, <1>7, <1>8 DEF Next

(* "A live job is never seen as stale and never double-run" (ai/jobs.rs,   *)
(* claim and heartbeat): two tasks run for one slot only after an error    *)
(* has stopped the heartbeat of a task.                                    *)
THEOREM NothingRunsTwice == Spec => []NeverDoubleRun
<1>1. Init => RunInv
  BY RunInit
<1>2. RunInv /\ [Next]_vars => RunInv'
  BY RunStep
<1>3. RunInv => NeverDoubleRun
  BY DEF RunInv, NeverDoubleRun
<1>. QED
  BY <1>1, <1>2, <1>3, PTL DEF Spec

-----------------------------------------------------------------------------
(* Why nobody pays twice.                                                  *)

(* A caller that has not claimed runs nothing and has paid for nothing. *)
Fresh(k) == task[k] = "none" /\ paid[k] = 0

(* Each caller claims once: a click by its step, the sweep by its stamp. *)
EntryInv ==
  /\ \A c \in Clicks : step[c] \in {"idle", "asked", "claiming"} => Fresh(c)
  /\ sweep # "idle" => stamped
  /\ ~stamped \/ sweep = "report" => Fresh(SweepReport)
  /\ ~stamped \/ sweep # "idle" => Fresh(SweepSentiment)

OnceInv ==
  \A k \in Callers :
    /\ paid[k] <= 1
    /\ task[k] \in {"working", "charging"} => paid[k] = 0
    /\ k # SweepReport => slot[k] \in Storable

(* While nothing has gone wrong, what was charged is about to be saved or  *)
(* is kept, and an analysis that was not raced for is charged for once.    *)
CleanInv ==
  /\ ~lost
  /\ \A k \in Callers :
       paid[k] > 0 /\ slot[k] \in Storable => task[k] = "saving" \/ k \in kept
  /\ \A k \in Callers :
       paid[k] > 0 /\ slot[k] = "sentiment" => task[k] = "saving" \/ analysed
  /\ ~raced => \A k \in Callers :
       slot[k] = "sentiment" /\ task[k] \in {"working", "charging"} => ~analysed
  /\ ~raced => \A k, l \in Callers :
       k # l /\ slot[k] = "sentiment" /\ slot[l] = "sentiment" /\ paid[k] > 0
         => paid[l] = 0

PayInv == RunInv /\ EntryInv /\ OnceInv /\ (mishaps = 0 => CleanInv)

LEMMA PayInit ==
  ASSUME Init PROVE PayInv
<1>1. PICK w \in Wanted :
        slot = [k \in Callers |-> IF k = SweepReport THEN "md"
                                  ELSE IF k = SweepSentiment THEN "sentiment"
                                  ELSE w[k]]
  BY DEF Init
<1>2. \A k \in Callers : k # SweepReport => slot[k] \in Storable
  BY <1>1, AiAssumption DEF Storable, Callers
<1>3. \A k \in Callers : Fresh(k)
  BY DEF Init, Fresh
<1>4. EntryInv /\ OnceInv
  BY <1>2, <1>3, SweepIsACaller DEF Init, EntryInv, OnceInv, Fresh
<1>5. CleanInv
  BY <1>3 DEF Init, CleanInv, Fresh
<1>. QED
  BY <1>4, <1>5, RunInit DEF PayInv

LEMMA TypedHere ==
  ASSUME PayInv
  PROVE  /\ task \in [Callers -> TaskStates] /\ paid \in [Callers -> Nat]
         /\ slot \in [Callers -> Slots] /\ mishaps \in Nat
         /\ SweepReport \in Callers /\ SweepSentiment \in Callers
         /\ Clicks \subseteq Callers /\ SweepReport # SweepSentiment
         /\ SweepReport \notin Clicks /\ SweepSentiment \notin Clicks
  BY SweepIsACaller, AiAssumption DEF PayInv, RunInv, TypeOK, TaskStates

(* A claim of a caller that had not claimed yet. *)
LEMMA ClaimPays ==
  ASSUME PayInv, NEW k \in Callers, Fresh(k), Claim(k),
         UNCHANGED <<slot, moneyVars, lost, died, mishaps>>
  PROVE  /\ \A l \in Callers : l # k /\ Fresh(l) => Fresh(l)'
         /\ OnceInv' /\ (mishaps' = 0 => CleanInv')
<1>1. /\ \A l \in Callers : l # k => task'[l] = task[l]
      /\ task'[k] \in {"none", "working"}
      /\ raced => raced'
      /\ slot[k] = "sentiment" /\ analysed /\ task'[k] = "working" => raced'
      /\ UNCHANGED <<slot, paid, analysed, kept, lost, mishaps>>
  BY TypedHere DEF Claim, Owned, AlreadyRunning, Fresh, taskVars, moneyVars
<1>2. \A l \in Callers : l # k /\ Fresh(l) => Fresh(l)'
  BY <1>1 DEF Fresh
<1>3. OnceInv'
  BY <1>1 DEF PayInv, OnceInv, Fresh
<1>4. ASSUME mishaps = 0 PROVE CleanInv'
  BY <1>1, <1>4 DEF PayInv, CleanInv, Fresh
<1>. QED
  BY <1>1, <1>2, <1>3, <1>4

LEMMA AskingPays ==
  ASSUME PayInv, NEW c \in Clicks, Asking(c)
  PROVE  EntryInv' /\ OnceInv' /\ (mishaps' = 0 => CleanInv')
<1>0. step \in [Clicks -> {"idle", "asked", "claiming", "accepted", "refused",
                           "served"}]
  BY DEF PayInv, RunInv, TypeOK
<1>1. CASE Ask(c) \/ Precheck(c)
  <2>1. /\ UNCHANGED <<task, paid, kept, analysed, slot, raced, lost, mishaps,
                       sweep, stamped>>
        /\ \A d \in Clicks : step'[d] \in {"idle", "asked", "claiming"} =>
                               step[d] \in {"idle", "asked", "claiming"}
    BY <1>0, <1>1
       DEF Ask, Precheck, taskVars, moneyVars, historyVars, sweepVars
  <2>. QED
    BY <2>1 DEF PayInv, EntryInv, OnceInv, CleanInv, Fresh
<1>2. CASE ClickClaims(c)
  <2>1. Fresh(c) /\ step' = [step EXCEPT ![c] = "accepted"]
          /\ UNCHANGED <<slot, sweep, stamped, moneyVars, lost, died, mishaps>>
    BY <1>2 DEF ClickClaims, PayInv, EntryInv, sweepVars
  <2>2. /\ \A l \in Callers : l # c /\ Fresh(l) => Fresh(l)'
        /\ OnceInv' /\ (mishaps' = 0 => CleanInv')
    BY <1>2, <2>1, ClaimPays, TypedHere DEF ClickClaims
  <2>3. EntryInv'
    BY <1>0, <2>1, <2>2, TypedHere DEF PayInv, EntryInv
  <2>. QED
    BY <2>2, <2>3
<1>. QED
  BY <1>1, <1>2 DEF Asking

LEMMA SweepingPays ==
  ASSUME PayInv, Sweeping
  PROVE  EntryInv' /\ OnceInv' /\ (mishaps' = 0 => CleanInv')
<1>1. CASE SweepStamps \/ SweepLooksUp
  <2>1. /\ UNCHANGED <<task, paid, kept, analysed, slot, raced, lost, mishaps,
                       step>>
        /\ stamped' /\ (sweep' = "report" => ~stamped)
        /\ sweep' # "idle" => ~stamped \/ sweep # "idle"
    BY <1>1 DEF SweepStamps, SweepLooksUp, taskVars, moneyVars, historyVars,
                askVars, PayInv, EntryInv
  <2>. QED
    BY <2>1 DEF PayInv, EntryInv, OnceInv, CleanInv, Fresh
<1>2. CASE SweepClaimsReport
  <2>1. /\ Fresh(SweepReport) /\ sweep' = "lookup" /\ stamped /\ sweep = "report"
        /\ UNCHANGED <<slot, step, stamped, moneyVars, lost, died, mishaps>>
    BY <1>2 DEF SweepClaimsReport, PayInv, EntryInv, askVars
  <2>2. /\ \A l \in Callers : l # SweepReport /\ Fresh(l) => Fresh(l)'
        /\ OnceInv' /\ (mishaps' = 0 => CleanInv')
    BY <1>2, <2>1, ClaimPays, TypedHere DEF SweepClaimsReport
  <2>3. EntryInv'
    BY <2>1, <2>2, TypedHere DEF PayInv, EntryInv
  <2>. QED
    BY <2>2, <2>3
<1>3. CASE SweepClaimsSentiment
  <2>1. /\ Fresh(SweepSentiment) /\ sweep' = "idle" /\ stamped
        /\ sweep = "sentiment"
        /\ UNCHANGED <<slot, step, stamped, moneyVars, lost, died, mishaps>>
    BY <1>3 DEF SweepClaimsSentiment, PayInv, EntryInv, askVars
  <2>2. /\ \A l \in Callers : l # SweepSentiment /\ Fresh(l) => Fresh(l)'
        /\ OnceInv' /\ (mishaps' = 0 => CleanInv')
    BY <1>3, <2>1, ClaimPays, TypedHere DEF SweepClaimsSentiment
  <2>3. EntryInv'
    BY <2>1, <2>2, TypedHere DEF PayInv, EntryInv
  <2>. QED
    BY <2>2, <2>3
<1>. QED
  BY <1>1, <1>2, <1>3 DEF Sweeping

(* Two tasks of one analysis never run side by side, so a charge finds no  *)
(* other one, paid and not yet saved.                                      *)
LEMMA RunningPays ==
  ASSUME PayInv, NEW k \in Callers, Running(k)
  PROVE  EntryInv' /\ OnceInv' /\ (mishaps' = 0 => CleanInv')
<1>0. /\ task[k] # "none" /\ ~Fresh(k)
      /\ UNCHANGED <<slot, step, sweep, stamped, raced, lost, mishaps>>
      /\ \A l \in Callers : l # k => task'[l] = task[l] /\ paid'[l] = paid[l]
  BY TypedHere
     DEF Running, Generated, GroqFails, Charge, Save, Complete, Fail, Over, Ends,
         TaskTo, Fresh, askVars, sweepVars, moneyVars, historyVars
<1>1. EntryInv'
  <2>1. \A l \in Callers : Fresh(l) => Fresh(l)'
    BY <1>0 DEF Fresh
  <2>. QED
    BY <1>0, <2>1, TypedHere DEF PayInv, EntryInv
<1>2. CASE Generated(k) \/ GroqFails(k) \/ Complete(k) \/ Fail(k)
  <2>1. /\ UNCHANGED <<paid, analysed, kept>> /\ task[k] # "saving"
        /\ task'[k] \in {"none", "charging", "failing"}
        /\ task'[k] = "charging" => task[k] = "working"
    BY <1>2, TypedHere DEF Generated, GroqFails, Complete, Fail, Over, Ends,
                           TaskTo, moneyVars
  <2>2. OnceInv'
    BY <1>0, <2>1 DEF PayInv, OnceInv
  <2>3. mishaps' = 0 => CleanInv'
    BY <1>0, <2>1 DEF PayInv, CleanInv
  <2>. QED
    BY <1>1, <2>2, <2>3
<1>3. CASE Charge(k) /\ balance < 1
  <2>1. /\ UNCHANGED <<paid, analysed, kept>>
        /\ task[k] = "charging" /\ task'[k] = "failing"
    BY <1>3, TypedHere DEF Charge, TaskTo
  <2>2. OnceInv'
    BY <1>0, <2>1 DEF PayInv, OnceInv
  <2>3. mishaps' = 0 => CleanInv'
    BY <1>0, <2>1 DEF PayInv, CleanInv
  <2>. QED
    BY <1>1, <2>2, <2>3
<1>4. CASE Charge(k) /\ ~(balance < 1)
  <2>1. /\ UNCHANGED <<analysed, kept>> /\ paid[k] = 0 /\ paid'[k] = 1
        /\ task[k] = "charging" /\ task'[k] = "saving"
    BY <1>4, TypedHere DEF Charge, TaskTo, PayInv, OnceInv
  <2>2. OnceInv'
    BY <1>0, <2>1 DEF PayInv, OnceInv
  <2>3. ASSUME mishaps = 0, ~raced, NEW l \in Callers, l # k,
               slot[k] = "sentiment", slot[l] = "sentiment"
        PROVE  paid[l] = 0
    <3>1. task[l] = "none"
      BY <1>0, <2>3 DEF PayInv, CleanInv, RunInv
    <3>2. ~analysed
      BY <2>1, <2>3 DEF PayInv, CleanInv
    <3>3. ~(paid[l] > 0)
      BY <2>3, <3>1, <3>2 DEF PayInv, CleanInv
    <3>. QED
      BY <3>3, TypedHere
  <2>4. mishaps' = 0 => CleanInv'
    BY <1>0, <2>1, <2>3 DEF PayInv, CleanInv
  <2>. QED
    BY <1>1, <2>2, <2>4
<1>5. CASE Save(k)
  <2>1. /\ paid' = paid /\ task[k] = "saving" /\ task'[k] = "answering"
        /\ kept \subseteq kept' /\ (slot[k] \in Storable => k \in kept')
        /\ analysed' = (analysed \/ slot[k] = "sentiment")
    BY <1>5, TypedHere DEF Save, TaskTo
  <2>2. OnceInv'
    BY <1>0, <2>1 DEF PayInv, OnceInv
  <2>3. ASSUME mishaps = 0, NEW l \in Callers, l # k, slot[l] = slot[k]
        PROVE  task[l] = "none"
    BY <1>0, <2>3 DEF PayInv, CleanInv, RunInv
  <2>4. mishaps' = 0 => CleanInv'
    BY <1>0, <2>1, <2>3 DEF PayInv, CleanInv
  <2>. QED
    BY <1>1, <2>2, <2>4
<1>. QED
  BY <1>2, <1>3, <1>4, <1>5 DEF Running

(* Rows that age and heartbeats that stop move no money. *)
LEMMA BeatsPay ==
  ASSUME PayInv, (\E s \in Slots : Lapse(s)) \/ (\E k \in Callers : HeartStops(k))
                   \/ UNCHANGED vars
  PROVE  EntryInv' /\ OnceInv' /\ (mishaps' = 0 => CleanInv')
<1>1. UNCHANGED <<slot, step, sweep, stamped, task, paid, analysed, kept, raced,
                  lost, mishaps>>
  BY DEF Lapse, HeartStops, vars, askVars, sweepVars, taskVars, moneyVars,
         historyVars
<1>. QED
  BY <1>1 DEF PayInv, EntryInv, OnceInv, CleanInv, Fresh

(* After a mishap only what holds regardless is left to show. *)
LEMMA MishapsPay ==
  ASSUME PayInv,
         \/ \E k \in Callers : HeartFails(k) \/ StatementFails(k) \/ WriteFails(k)
         \/ AskFails \/ Crash
  PROVE  EntryInv' /\ OnceInv' /\ (mishaps' = 0 => CleanInv')
<1>1. mishaps' # 0
  BY TypedHere DEF HeartFails, StatementFails, WriteFails, AskFails, Crash, Mishap
<1>2. UNCHANGED <<slot, paid, stamped>>
  BY DEF HeartFails, StatementFails, WriteFails, AskFails, Crash, sweepVars,
         moneyVars
<1>3. \A l \in Callers : /\ task[l] = "none" => task'[l] = "none"
                         /\ task'[l] \in {"working", "charging"} =>
                              task'[l] = task[l]
  BY TypedHere DEF HeartFails, StatementFails, WriteFails, AskFails, Crash, Ends,
                   TaskTo, taskVars
<1>4. OnceInv'
  BY <1>2, <1>3 DEF PayInv, OnceInv
<1>5. \A l \in Callers : Fresh(l) => Fresh(l)'
  BY <1>2, <1>3 DEF Fresh
<1>6. /\ \A c \in Clicks : step'[c] \in {"idle", "asked", "claiming"} =>
                             step[c] \in {"idle", "asked", "claiming"}
      /\ sweep' # "idle" => sweep # "idle"
      /\ sweep' = "report" => sweep = "report"
  <2>0. step \in [Clicks -> {"idle", "asked", "claiming", "accepted", "refused",
                             "served"}]
    BY DEF PayInv, RunInv, TypeOK
  <2>1. CASE \E k \in Callers : HeartFails(k) \/ StatementFails(k) \/ WriteFails(k)
    BY <2>1 DEF HeartFails, StatementFails, WriteFails, askVars, sweepVars
  <2>2. CASE AskFails \/ Crash
    BY <2>0, <2>2 DEF AskFails, Crash
  <2>. QED
    BY <2>1, <2>2
<1>7. EntryInv'
  BY <1>2, <1>5, <1>6, TypedHere DEF PayInv, EntryInv
<1>. QED
  BY <1>1, <1>4, <1>7

LEMMA PayStep ==
  ASSUME PayInv, [Next]_vars PROVE PayInv'
<1>1. RunInv'
  BY RunStep DEF PayInv
<1>2. EntryInv' /\ OnceInv' /\ (mishaps' = 0 => CleanInv')
  BY AskingPays, SweepingPays, RunningPays, BeatsPay, MishapsPay DEF Next
<1>. QED
  BY <1>1, <1>2 DEF PayInv

(* Pairwise at most one charge is at most one charge. *)
LEMMA OneCharge ==
  ASSUME PayInv, mishaps = 0, ~raced PROVE SentimentCharges \in {0, 1}
<1>. DEFINE S == {k \in Callers : slot[k] = "sentiment" /\ paid[k] > 0}
<1>1. \A k, l \in S : k = l
  BY TypedHere DEF PayInv, CleanInv
<1>2. CASE S = {}
  BY <1>2, FS_EmptySet DEF SentimentCharges
<1>3. CASE S # {}
  <2>1. PICK k : S = {k}
    BY <1>1, <1>3
  <2>2. Cardinality({k}) = 1
    BY FS_Singleton
  <2>. QED
    BY <2>1, <2>2 DEF SentimentCharges
<1>. QED
  BY <1>2, <1>3

LEMMA PayInvPays ==
  ASSUME PayInv PROVE PaidOnceAndKept
<1>1. \A k \in Callers : paid[k] <= 1
  BY DEF PayInv, OnceInv
<1>2. SentimentCharges > 1 => raced \/ mishaps > 0
  <2>. SUFFICES ASSUME ~raced, ~(mishaps > 0) PROVE ~(SentimentCharges > 1)
    OBVIOUS
  <2>1. mishaps = 0
    BY TypedHere
  <2>2. SentimentCharges \in {0, 1}
    BY <2>1, OneCharge
  <2>. QED
    BY <2>2
<1>3. \A k \in Callers \ {SweepReport} :
        paid[k] > 0 /\ task[k] = "none" => k \in kept \/ mishaps > 0
  BY TypedHere DEF PayInv, CleanInv, OnceInv
<1>. QED
  BY <1>1, <1>2, <1>3 DEF PaidOnceAndKept

(* A report is charged once, an analysis once unless it was raced for, and *)
(* what was paid for is kept (ai/jobs.rs `claim`, billing.rs               *)
(* `deduct_feature`, voip/webhook.rs `enqueue_ai_analysis`).               *)
THEOREM NobodyPaysTwice == Spec => []PaidOnceAndKept
<1>1. Init => PayInv
  BY PayInit
<1>2. PayInv /\ [Next]_vars => PayInv'
  BY PayStep
<1>3. PayInv => PaidOnceAndKept
  BY PayInvPays
<1>. QED
  BY <1>1, <1>2, <1>3, PTL DEF Spec

-----------------------------------------------------------------------------
(* No job waits for nobody: the safety half of EveryJobAnswers.            *)

(* A task runs on the row of the slot. *)
IsRun(s) == \E k \in Callers : task[k] # "none" /\ on[k] = job[s].id

PendingIsRun ==
  ~died => \A s \in Slots : job[s].status = "pending" => IsRun(s)

(* A step that ends no task and leaves the rows' ids and states alone. *)
LEMMA QuietRuns ==
  ASSUME PendingIsRun, died => died', UNCHANGED on,
         \A k \in Callers : task[k] # "none" => task'[k] # "none",
         \A s \in Slots : /\ job'[s].id = job[s].id
                          /\ job'[s].status = "pending"
                               => job[s].status = "pending"
  PROVE  PendingIsRun'
  BY DEF PendingIsRun, IsRun

(* A caller claims once, so its claim takes no task off another row. *)
LEMMA ClaimIsRun ==
  ASSUME PayInv, PendingIsRun, NEW k \in Callers, Fresh(k), Claim(k),
         UNCHANGED <<slot, died>>
  PROVE  PendingIsRun'
<1>1. PICK old : /\ Swept(old)
                 /\ IF Claimable(Pruned(old)[slot[k]]) THEN Owned(k, Pruned(old))
                    ELSE AlreadyRunning(Pruned(old))
  BY DEF Claim, Swept
<1>. DEFINE j == Pruned(old)
<1>2. /\ j \in [Slots -> JobRows]
      /\ \A s \in Slots : j[s] \in {NoJob, job[s]}
  BY <1>1, PruningKeeps DEF PayInv
<1>3. IF Claimable(j[slot[k]]) THEN Owned(k, j) ELSE AlreadyRunning(j)
  BY <1>1
<1>. HIDE DEF j
<1>4. /\ slot[k] \in Slots /\ task[k] = "none"
      /\ task \in [Callers -> TaskStates] /\ on \in [Callers -> Nat]
  BY TypedHere DEF PayInv, RunInv, TypeOK, Fresh
<1>5. \A s \in Slots : j[s].status = "pending" => j[s] = job[s]
  BY <1>2 DEF NoJob
<1>6. CASE AlreadyRunning(j)
  BY <1>5, <1>6 DEF AlreadyRunning, taskVars, PendingIsRun, IsRun
<1>7. CASE Owned(k, j)
  <2>1. /\ job'[slot[k]].id = on'[k] /\ task'[k] # "none"
        /\ \A s \in Slots : s # slot[k] => job'[s] = j[s]
        /\ \A l \in Callers : l # k => task'[l] = task[l] /\ on'[l] = on[l]
    BY <1>2, <1>4, <1>7 DEF Owned
  <2>2. IsRun(slot[k])'
    <3>1. slot' = slot
      OBVIOUS
    <3>. QED
      BY <2>1, <3>1 DEF IsRun
  <2>3. \A s \in Slots : s # slot[k] /\ job'[s].status = "pending" /\ IsRun(s)
                           => IsRun(s)'
    BY <1>4, <1>5, <2>1 DEF IsRun
  <2>. QED
    BY <1>5, <2>1, <2>2, <2>3 DEF PendingIsRun
<1>. QED
  BY <1>3, <1>6, <1>7

(* A task that is over has answered every row it ran on. *)
LEMMA OverIsRun ==
  ASSUME PayInv, PendingIsRun, NEW k \in Callers,
         NEW status \in {"done", "failed"}, Over(k, status)
  PROVE  PendingIsRun'
<1>1. /\ \A l \in Callers : l # k => task'[l] = task[l] /\ on'[l] = on[l]
      /\ \A s \in Slots : IF job[s].id = on[k] THEN job'[s].status = status
                          ELSE job'[s] = job[s]
      /\ died' = died
  BY TypedHere DEF PayInv, RunInv, TypeOK, Over, Ends, TaskTo, historyVars
<1>. QED
  BY <1>1 DEF PendingIsRun, IsRun

(* A task leaves its row only by answering it, or it was killed. *)
LEMMA RunsStep ==
  ASSUME PayInv, PendingIsRun, [Next]_vars PROVE PendingIsRun'
<1>1. ASSUME NEW c \in Clicks, Asking(c) PROVE PendingIsRun'
  <2>1. CASE Ask(c) \/ Precheck(c)
    BY <2>1, QuietRuns DEF Ask, Precheck, jobVars, taskVars, historyVars
  <2>2. CASE ClickClaims(c)
    <3>1. Fresh(c)
      BY <2>2 DEF ClickClaims, PayInv, EntryInv
    <3>. QED
      BY <2>2, <3>1, ClaimIsRun, TypedHere DEF ClickClaims
  <2>. QED
    BY <1>1, <2>1, <2>2 DEF Asking
<1>2. CASE Sweeping
  <2>1. CASE SweepStamps \/ SweepLooksUp
    BY <2>1, QuietRuns
       DEF SweepStamps, SweepLooksUp, jobVars, taskVars, historyVars
  <2>2. CASE SweepClaimsReport
    <3>1. Fresh(SweepReport)
      BY <2>2 DEF SweepClaimsReport, PayInv, EntryInv
    <3>. QED
      BY <2>2, <3>1, ClaimIsRun, TypedHere DEF SweepClaimsReport
  <2>3. CASE SweepClaimsSentiment
    <3>1. Fresh(SweepSentiment)
      BY <2>3 DEF SweepClaimsSentiment, PayInv, EntryInv
    <3>. QED
      BY <2>3, <3>1, ClaimIsRun, TypedHere DEF SweepClaimsSentiment
  <2>. QED
    BY <1>2, <2>1, <2>2, <2>3 DEF Sweeping
<1>3. ASSUME NEW k \in Callers, Running(k) PROVE PendingIsRun'
  <2>1. CASE Generated(k) \/ GroqFails(k) \/ Charge(k) \/ Save(k)
    <3>1. \A l \in Callers : task[l] # "none" => task'[l] # "none"
      BY <2>1, TypedHere DEF Generated, GroqFails, Charge, Save, TaskTo
    <3>2. UNCHANGED <<job, on, died>>
      BY <2>1 DEF Generated, GroqFails, Charge, Save, jobVars, historyVars
    <3>. QED
      BY <3>1, <3>2, QuietRuns
  <2>2. CASE Complete(k) \/ Fail(k)
    BY <2>2, OverIsRun DEF Complete, Fail
  <2>. QED
    BY <1>3, <2>1, <2>2 DEF Running
<1>4. ASSUME NEW s \in Slots, Lapse(s) PROVE PendingIsRun'
  <2>1. \A r \in Slots : /\ job'[r].id = job[r].id
                         /\ job'[r].status = job[r].status
    BY <1>4 DEF Lapse, PayInv, RunInv, TypeOK
  <2>2. UNCHANGED <<task, on, died>>
    BY <1>4 DEF Lapse, taskVars, historyVars
  <2>. QED
    BY <2>1, <2>2, QuietRuns
<1>5. ASSUME NEW k \in Callers, HeartStops(k) \/ HeartFails(k)
      PROVE  PendingIsRun'
  <2>1. UNCHANGED <<job, task, on, died>>
    BY <1>5 DEF HeartStops, HeartFails, jobVars, historyVars
  <2>. QED
    BY <2>1, QuietRuns
<1>6. ASSUME NEW k \in Callers, StatementFails(k) PROVE PendingIsRun'
  <2>1. \A l \in Callers : task[l] # "none" => task'[l] # "none"
    BY <1>6, TypedHere DEF StatementFails, TaskTo
  <2>2. UNCHANGED <<job, on, died>>
    BY <1>6 DEF StatementFails, jobVars
  <2>. QED
    BY <2>1, <2>2, QuietRuns
<1>7. CASE Crash \/ \E k \in Callers : WriteFails(k)
  BY <1>7 DEF Crash, WriteFails, PendingIsRun
<1>8. CASE AskFails
  BY <1>8, QuietRuns DEF AskFails, jobVars, taskVars
<1>9. CASE UNCHANGED vars
  BY <1>9, QuietRuns DEF vars, jobVars, taskVars, historyVars
<1>. QED
  BY <1>1, <1>2, <1>3, <1>4, <1>5, <1>6, <1>7, <1>8, <1>9 DEF Next

(* As long as no task was killed or could not write down how it ended, a   *)
(* job that is pending has a task that runs on it and will answer it, also *)
(* after its heartbeat was lost and its slot was claimed again (ai/jobs.rs *)
(* claim, run_on).                                                         *)
THEOREM PendingJobIsRun == Spec => []PendingIsRun
<1>1. ASSUME Init PROVE PayInv /\ PendingIsRun
  BY <1>1, PayInit DEF Init, NoJob, PendingIsRun
<1>2. PayInv /\ PendingIsRun /\ [Next]_vars => PayInv' /\ PendingIsRun'
  BY PayStep, RunsStep
<1>. QED
  BY <1>1, <1>2, PTL DEF Spec
=============================================================================
