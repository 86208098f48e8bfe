# A verification development for VoxTranslate's telephone calls

TLA+ modules, TLC configurations and TLAPS proofs about the server of
VoxTranslate (`src/server`, Rust). VoxTranslate is a real-time translation
relay: people in a room speak their own language and hear each other in
theirs. Its newest subsystem puts an ordinary telephone into such a room,
paid from an organisation's prepaid credits. That subsystem has the most
writers per row, the most time limits and the most money, and it is the core of
this development: calls out and in, their consent and recordings, the credits
that pay for them, the room they take place in, and the AI analyses that are
made of them afterwards.

## 1. The system

| part | state it keeps | operations | talks to | what makes it correct |
|---|---|---|---|---|
| call lifecycle (`voip/state.rs`) | none, a pure function | `next`, `rank` | everything below | total, monotonic, absorbing |
| credit holds (`voip/reservation.rs`) | `voip_credit_reservations` | `reserve`, `settle`, `release` | the pool | one open hold per call, closed once, every credit accounted for |
| organisation pool (`business/credits.rs`) | `organizations.credits_balance` and its ledger | deduct, add | holds, meetings, recordings, AI | never overdrawn, equal to its ledger |
| webhook ingestion (`voip/webhook.rs` `apply`) | `voip_calls`, `voip_provider_events` | one transaction per event | lifecycle, holds | independent of order and repetition |
| dialling (`voip/service.rs`) | the request in flight | `dial`, `fail` | pool, carrier, rooms | caps hold; every way out undoes what it did |
| media session (`voip/session.rs`, `media.rs`, `token.rs`) | parked legs (`LiveCalls`), the phone peer, bridge tasks | park, claim, `run_leg`, `end_call`, `arm_media`, `reclaim`, orphan teardown | rooms, engines, carrier, the row | no leg or peer outlives its call; a conversation is not recorded as failed |
| sweeps (`voip/webhook.rs` `run_sweep`) | none | fail stalled, settle finished, reap overrunning | the row, the carrier | every call ends and its hold is closed |
| consent (`voip/consent.rs`, `disclosure.rs`) | consent columns | announce, digit, time-out | ingestion, media | nothing is kept before the disclosure and the grant |
| inbound calls (`voip/inbound.rs`) | ring deadline, missed flag | admit, answer, voicemail sweep | rooms, the row | one person answers, nobody's answer is overwritten |
| numbers, regulatory (`voip/numbers.rs`, `regulatory.rs`) | numbers, requirement groups | buy, renew, reconcile, claim | pool, carrier | renewed once a month, claims expire |
| rooms and relay (`rooms.rs`, `lib.rs`) | rooms, peers, queues | join, remove, broadcast, prune | everything in memory | a superseded connection disturbs nobody |
| engines and transcripts (`engine/`, `transcripts.rs`) | upstream sessions, segments | open, write, finalize | third parties | one writer per segment |
| meters and consumer billing (`usage.rs`, `billing.rs`, `stripe_handler.rs`) | personal balances, sessions | tick, deduct, credit | Stripe | never overspent, a payment is credited once |
| AI jobs (`ai/jobs.rs`) | job rows | claim, heartbeat, complete | pool | one worker at a time |
| webinars, talk, meetings, notifications | presence, utterances, reminders | | | join and leave balance, a reminder is sent once |
| accounts, administration, content | single rows | reads and writes behind role checks | | |
| client, CMS, infrastructure | | | | outside this development |

How a telephone call runs. `dial` puts a phone peer into a fresh room, takes
an advisory lock, counts the live calls, inserts the row, and commits. It
takes a hold of credits, parks the leg in memory, and asks the carrier to dial.
From then on four kinds of task write the row concurrently: the returning
`dial`, the carrier's webhooks, the media bridge and the sweeps. The answer
webhook makes the server hand the carrier a single-use ticket for a media
socket; the socket claims the parked leg and pumps audio between the carrier
and the room. The hangup webhook settles the hold in the transaction that makes
the row terminal. Only the row, the holds and the ledgers survive a restart.

What is hard here: webhooks that overtake each other or the request that caused
them, a status written after an await without being read again, three
independent writers that may each end the call and close its hold, best-effort
requests to the carrier, hangups that are only requested, and everything in
memory lost by a restart while the carrier notices nothing. Around the call
it is the same pattern: a handler loads a row, awaits the carrier, and writes what it
decided from what it had loaded; a sweep selects rows and does the same; a
person's stale connection leaves a room they have come back to; a job is
claimed again while the first worker still runs. `PROJECT.json` lists each hazard at
its line, with the property that covers it or the reason none does.

## 2. The modules

| module | models | its actions |
|---|---|---|
| `CallState` | `state.rs` | pure: `next`, `rank`, `was_answered` |
| `CreditHold` | `reservation.rs` over `credits.rs` | `Reserve`, `settle`, `release`, `OtherCharge`, `OtherGrant` |
| `PrepaidAccount` | what holds promise: an account paid into in advance | `PutAside`, `Bill`, `Spend`, `PayIn` |
| `WebhookIngest` | `webhook.rs` `apply` for one call, and `reprice_after_fallback` of `service.rs` | `apply`, `Duplicate`, `Requote`, `Reprice` |
| `VoipCall` | dial, webhooks, bridge, room, sweeps, carrier, restarts | one per step, see below |
| `ConsentGate` | `consent.rs`, `disclosure.rs`, the follow-ups of an answer and a digit in `routes.rs`, `arm_media` and the engine session of `session.rs`, the recording purge of `business/retention.rs` | `Announcing`, `DigitLoad`, `SweepSelect`, `Running`, the webhooks, `PurgeAsk`, `PurgeNote` |
| `InboundCall` | `inbound.rs`, `answer_inbound` and its webhooks, the sweeps for one incoming call | `Admitting`, `answer_inbound`, `Sweeping`, `apply`, `apply_side_effects` |
| `PhoneRoom` | `rooms.rs`, `handle_peer` of `lib.rs`, the grace window of `session.rs`, the end of a session in `transcripts.rs` | `Join`, `Talk`, `Prune`, `Close`, `Handling`, `Waiting`, `PhoneLeaving` and the rest of the phone's bridge |
| `AiJobs` | `ai/jobs.rs`, report and sentiment of `api.rs`, `enqueue_ai_analysis` of `webhook.rs`, `deduct_feature` of `billing.rs` | `Asking`, `Sweeping`, `Running`, `Lapse` |
| `<module>Proofs`, one for each of the above but `PrepaidAccount` | theorems | |
| `MC<module>`, one for each with variables but `PrepaidAccount` | instances for TLC | |

`CallState` is extended by `WebhookIngest`, `VoipCall`, `ConsentGate` and
`InboundCall`. `VoipCall` instantiates
`CreditHold` and calls its operators for every movement of money, and
`CreditHold` instantiates `PrepaidAccount` under the mapping "funds are the pool
with every open hold". So there are three layers: the call implements the
holds (`CreditsRefined`), the holds implement the account
(`PrepaidAccountRefined`).

`ConsentGate`, `InboundCall` and `PhoneRoom` each look at one side of the call
that `VoipCall` keeps coarse: in `VoipCall` consent is a moment at which the media
may be armed, a room is whether anybody is in it, and every call goes out. `AiJobs`
begins where those end, with a finished call and its transcript.

**Granularity.** A database transaction or a single statement is one step: rows
are locked (`FOR UPDATE`, the advisory lock) for as long as a transaction needs
them. What a task does after an `await` is a step of its own. `dial` is eight
steps, `end_call` three (`EndHangup`, `EndMark`, `EndRelease`), the reaper two
(`ReapHangup`, `ReapMark`), and a webhook is its transaction (`Deliver`) and then
its follow-ups (`HookArm`, `HookReclaim`).

**State in `VoipCall`.** `status`, `answered`, `legs`, `consumed` are columns of
the row; `balance`, `hold`, `ledger`, `owed`, `other`, `grants` are the variables
of `CreditHold`. `dial`, `parked`, `peer`, `hook`, `media`, `orphan`, `reaping` are
in memory: a restart resets them. `leg`, `stream`, `inflight` are the carrier's.
`emptied`, `owed` and `grants` are history or bounds, and no code corresponds to
them.

**Merged or abstracted steps.**
- An event's redelivery is not in `VoipCall`: `WebhookIngest` shows that it writes
  nothing, so a webhook leaves `inflight` once it was accepted.
- The cost of a call is any member of `Costs`; `WebhookIngest` computes it from
  the clock. A call without an answer time owes nothing in both.
- `fail_stalled_calls`' UPDATE and the `reclaim` of each id it returns are one
  step. The leg of a stalled call has no media socket that could claim it
  between the two.
- `settle_finished_calls`' SELECT and its `settle` are one step: neither a
  terminal status nor `credits_consumed` moves afterwards.
- `provider_leg`'s SELECT and the hangup request after it are one step: asking
  again for a hangup of a leg that is gone is an error that is ignored.
- `STALL_GRACE_SECS` (ten minutes) is longer than a dial request, the ring
  time-out of 45 s and the delay of a webhook that does come: `Stalled` waits
  for all three. Its counterpart, `MEDIA_LOST_GRACE`, is short, and the model
  lets it elapse at any moment.
- Consent is one thing to this module: the media may be armed at any time after
  the answer. A call that is still in its first SELECT, quotes, prices and what
  travels through the engine are not in it. A fallback engine's new price only
  changes which member of `Costs` is owed; `WebhookIngest` has the race of the two.
- The reaper may take a call for overrunning at any time after its answer.

**`ConsentGate`.** One row and a task per writer: the handler of the answer, a
handler per keypad digit and the sweep of unanswered gates. `pc` says what a
task does next, `read` is the row as that task last loaded it. A task's steps
are the code between two awaits, so an announcement is `Speak`, `Stamp` and
`Gather`, and `start_capture` is the request to the carrier (`StartCapture`) and
then its write (`NoteRecorder`). A digit may be pressed before the
announcement was stamped, and may overtake it. `told`, `recorder` and `events` are
the carrier's: what the recipient has heard, the bytes, and webhooks under way,
in any order. The sweep's clock is left out: it may select a pending gate as soon as
its announcement was stamped. The retention sweep runs when no handler of the call does (`Quiet`):
days lie between. `overtaken` is history: something was written over a row
that said `saved`.

**`InboundCall`.** One row, the task that admits it, the colleagues and the sweeps.
`run_sweep` is one loop, so `sweep` holds what it does next and at most one of the
sweeps is in the middle of something. It acts on rows it selected earlier and
writes them back without looking, while `answer_inbound`, the caller and the
webhooks get in between. A deadline is `running` or `due`; the ten minutes of the
stalled-call sweep are longer than a ring deadline and any webhook that comes
(`Stall`). A number's set-up, opening hours included, is the constant `Routes`. `admit`
commits its row and then parks the leg, and a webhook may come between (`Admit`, `Park`).
The second pass stops the recording and hangs up: each request may fail, and the first may
succeed alone (`SweepStop`). `unhung` is history: a hangup failed. The UPDATE that closes a row
and the `reclaim` after it are one step. One `call.initiated` is one admission: the code
admits again when the carrier repeats it (`routes.rs:1200`; a leg nobody knows leaves no
event row, `webhook.rs:83-86`), with a second row, room and parked leg, and the module has
the first row only.

**`PhoneRoom`.** What `RoomManager` does under one acquisition of its lock is one step.
`remove` locks twice (`rooms.rs:355-371`, `388-391`): first the entry goes (`Retain`, the
phone's `PhoneRetain`), then the room is looked at again, and taken away when it is empty by now,
whoever emptied it (`LeftLast`, `PhoneDrops`); if it is not, or is gone already, nobody is told of
a session (`LeftOthers`). An entry is a peer id with a connection, since a person comes back
under the same id: a connection's handler runs from `open` through what its departure left it
to do (`dropping`, `orphaning`, `finalize`, `hangup`, `telling`), and its grace task runs on after
it. A connection whose receiver is dropped (`deaf`) loses its entry to the next broadcast
(`Talk`, `Tell` and others) or to the pruning loop (`Prune`), and its handler finds out later. A
room that is created again under the same id has a new session: `sessions` numbers them,
`finalized` are those with an `ended_at`. Every request to hang up may fail (`RequestHangup`,
which includes the SELECT before it), and so may the end of every session (`EndSessions`) and
the UPDATE of `end_call`: the code logs these errors and goes on. The bridge may find no engine
(`NoEngine`), and the carrier may refuse the stream (`StreamRefused`). `visited`, `unseen`,
`uncut`, `silent`, `pruned` and `lost` are history. Restarts and the sweeps of `run_sweep`,
which end an answered call later, are not in it.

**`AiJobs`.** A slot is what a job is for; a caller is a click or one half of the
sweep, and has at most one task. `Claim` includes the deletion of old rows, `Lapse` is
three minutes without a touch and is not possible while the owner's heartbeat
beats (it touches every minute). A charge costs one credit. Correction and email
draft are the report's shape and are not told apart. `raced`, `lost` and `died` are
history, and `mishaps` is the bound.

## 3. The runs

| run | instance | shows |
|---|---|---|
| `credit_hold` | 3 calls, 2 pools of 4 and 2 credits, quotes 0, 2, 3, costs 0 to 6, one grant | rows, ledgers, pools and the refinement of `PrepaidAccount` |
| `webhook_ingest` | 11 events: two answers, two hangups, two saved recordings (one without an id), one of each other kind; one price a fallback may lower and one it may not | state and bill do not depend on order; a hangup may be stamped before a late answer, and a reprice land after the end |
| `voip_safety` | 2 calls, 1 slot, a pool of 3, a hold of 2, costs 0 and 3; lost webhooks, failing statements and requests | caps, row and hold, credits, lifecycle, and that a failing statement leaves no phone in a room |
| `voip_live` | 1 call, another feature that spends from the pool, 1 restart at any point | credits and lifecycle across a restart, what is left in memory and at the carrier, and that every call settles |
| `consent_gate` | two digits, the answer and the sweep; five set-ups: a gate with either answer to a refusal and each kind of capture, a notice, a policy switched off while the call is recorded, nothing kept; one database error or restart | nothing is kept unasked, the first decision stands, audio opens, what was kept is purged, bytes before pointer |
| `inbound_call` | two colleagues, all eight ways to set up a number, two mishaps (a hangup that fails, a database error, a restart) | a call that was taken is left alone, nobody is recorded for ever, the call and the line end |
| `phone_room` | two people with two connections and the telephone, a room for two; each hangup and each end of a session may fail | a room coheres and is not torn down under anybody, an abandoned leg is hung up, sessions are ended |
| `ai_jobs` | two clicks (twice the same, or one of each) and both halves of the sweep, three credits, one error or crash | one task per slot, paid once and kept, every poll is answered |
| `credit_split` | as `credit_hold` | finding: the migration's identity |
| `voip_early` | 1 call, webhooks may overtake `dial` | finding: `dial` overwrites the status |
| `voip_emptied` | 1 call, nothing fails | finding: an emptied room fails the conversation |
| `voip_lossy` | 1 call, webhooks may be lost, fairness | finding: a lost hangup is never settled |

**Why the bounds are enough.** Holds interact through their pool: two calls of
one organisation are the smallest pair that can spend each other's money, the
third shows that pools are separate. Quotes and costs are such that a call
costs nothing, less than its hold, exactly its hold, a little more, and more
than hold and pool together. In `webhook_ingest` two of a kind
is what a second leg or a corrected delivery adds, and event times make the
span positive, zero and negative. In `voip_safety` one slot and two calls is
the smallest instance in which a cap matters, and the second call starts from
every final state of the first one. One restart at any step of one call is
enough for the lost state to be seen by everything that survives it. In
`consent_gate` two digits are what can contradict each other, and each races
with the answer and the sweep; one mishap at any step separates every pair of
writes. In `inbound_call` two colleagues compete for the claim; the second mishap
lets a sweep fail after a restart. In `phone_room` two connections are
one person's reconnect or two people, two departures can be between each
other's locks, and the phone's with them; two places make the telephone and one person a full
room, and a room may be made again after its end. The theorems are for any number of each. In `ai_jobs` four callers compete for
three slots, and three credits are one fewer than they would pay together. Each of these runs
takes from seconds to some minutes.
`CHECK_DEADLOCK FALSE` is given where the system stops: credits that are all
settled, calls that are all over, gates that are purged, rooms that are empty,
analyses that are made. `webhook_ingest` never stops, since carriers
redeliver.

**Fairness** (`VoipCall!Fairness`) is weak fairness only, per call, of what the
runtime or the carrier does without being asked: a task that can go on goes on
(Tokio schedules every ready task), the sweep loop comes round
(`tokio::time::interval`), a dial request is answered or fails (it has an HTTP
time-out), a ring ends (`timeout_secs: 45`), a webhook that is not lost is
delivered (the carrier retries), a pump whose peer or carrier is gone ends.
Nobody is assumed to dial, answer, hang up, or open a media socket; an answered
call nobody hangs up is ended by the reaper. The other modules assume the same
of their tasks, sweeps and webhooks, and besides:
- `ConsentGate`: the carrier connects the media socket it was told of, and deletes a
  recording when it is asked often enough (the sweep asks every round). Nobody has to
  press a digit.
- `InboundCall`: the ring deadline elapses, and the selections of the two sweeps are
  strongly fair, because `run_sweep` runs each of its sweeps in every round and one cannot
  starve another. Weak fairness would let the loop prefer one for ever.
- `PhoneRoom`: the handler of a connection whose socket has failed notices
  (idle timeout), and the pruning loop comes round. Nobody has to join, talk or leave.
- `AiJobs`: a spawned task runs on, since its requests have timeouts. Nobody has to
  click, and the sweep need not come round.

**What properties except.** Where the code leaves a hole, a property names the state
in which it does, so that the rest stays checked:
| property | exception | the hole |
|---|---|---|
| `KeptIsPurged` | `overtaken` | `start_capture`, or the webhook of the start, writes over `saved`; the purge looks for `saved` only (`disclosure.rs:443`) |
| `AudioOpens` | a mishap | a database error or a restart may leave an answered call without audio |
| `TakenIsLeftAlone` | a sweep that selected the call is under way | the sweep marks it missed and records it although a colleague took it after the SELECT (`inbound.rs:360`) |
| `EveryCallEnds` | `missed` and taken, and either without an answer time or with the line down | the sweep writes a row live that had ended, or before its answer was heard; a colleague's claim hides it from the second pass (`inbound.rs:437`, `routes.rs` `answer_inbound`) |
| `EveryMessageStops` | closed after a failed hangup; `missed`, taken, without an answer time | the second pass closes the row whatever became of its requests (`inbound.rs:338`); the same claim |
| `LineIsLetGo` | `unhung` | a hangup that failed is not tried again (`inbound.rs:427`) |
| `AbandonedLegIsHungUp` | `unseen` | a pruned entry starts no grace window (`rooms.rs:433`) |
| | a hangup failed and no bridge is left | `hangup_orphaned_leg` gives up on an error (`session.rs:780-800`) |
| | the media was given up, and the room went with the phone or with the pruning loop | `arm_media` takes the leg back and leaves the call up; nobody's departure is the last |
| `EverySessionIsFinalized` | `silent` | no caller of the phone's `remove` looks at the session it returns, when the phone leaves last or between the two locks of another's departure (`session.rs:868`, `rooms.rs:388`) |
| | `lost` | `finalize_session` failed, which is only logged (`lib.rs:2757`, `session.rs:873`) |
| `NeverDoubleRun` | `lost` | one failed touch ends a live job's heartbeat (`ai/jobs.rs:250`) |
| `PaidOnceAndKept` | `raced`, the sweep's report, a mishap | a click that missed the analysis pays for it again (`api.rs:2384`); the sweep's `md` report is charged for and refused by its table (`webhook.rs:611`, migrations `005_features.sql`, `014`) |
| `EveryJobAnswers` | `died` | a killed job stays pending until somebody asks again |

`NothingKeptUnasked` does not demand the announcement's stamp of a transcript behind a
gate: `on_digit` accepts a digit that comes before it, and only the recorder checks the stamp
(`disclosure.rs:405`).

**Findings.** Each is a run that TLC finds violated, and `PROJECT.json` quotes
the line it contradicts.
1. `dial` sets `status = 'dialing'` unconditionally after its await on the
   carrier (`service.rs:774`), and undoes an answer, or even an end, that was
   applied meanwhile.
2. When the last human leaves, the orphan teardown removes the phone peer; the
   pump returns `RoomEnded` and `end_call` marks the answered call failed and
   refunds it (`session.rs:629-631`), which the teardown's own comment says must
   not happen.
3. A call reaped for its length stays `ending` when its hangup webhook never
   comes, and its hold is never closed (`webhook.rs:834-842`), although the
   settlement sweep says it exists for that case.
4. `held = settled + released + shortfall` (`056_voip.sql:296`) is false of a
   call that overran its hold. `Settlement::is_coherent` states the right one.

## 4. The proofs

Every theorem is for all values of the constants that the modules' `ASSUME`s
allow: `CreditAssumption`, `IngestAssumption` and `VoipAssumption` say that
quotes, costs and opening pools are natural numbers, that the calls are finitely
many, that a call has one organisation and user, and that a nullable recording
id is one id or none. `ConsentAssumption`, `InboundAssumption`, `RoomAssumption` and
`AiAssumption` say what a set-up, a number's route and a click may be, that the
tasks, the callers and the phone's peer id are told apart, that the connections
are finitely many, and that the bounds are natural numbers.

- **`CreditHoldProofs`.** `HoldInv` is the type invariant, the two accounting
  identities and `Untouched`: a call that was never reserved for has an empty
  hold. Without that conjunct the ledger identity is not inductive, since
  `Reserve` starts a ledger from whatever is there. `Close` is unfolded once, into
  `Closing`, and each theorem works with the part of the overrun that the pool
  paid. From it follow `CreditTypes`, `SettlementsAlwaysCohere`,
  `LedgerAlwaysExplained`, `ClosedIsFinal` and `ShortfallOnlyWhenEmpty`.
  Sums over an organisation's calls (`SumFunctionOnSet`) are where the calls being
  finitely many is used. The two facts they need, that a sum is an integer and that it
  moves with one summand, hold of every finite set since neither can have a smallest
  counterexample: strict inclusion of finite sets is well-founded. `PoolAlwaysLedgerSum`,
  `CreditsAlwaysConserved` (pool, open holds and settled costs add up to what came in) and
  `AccountAlwaysRefined`, every step of a hold a step of `PrepaidAccount`, rest on them.
- **`WebhookIngestProofs`.** `IngestInv` is the type invariant, the verdict, the
  bill and `OpenRow`: a call that is not over has no end time, no duration and no
  settlement, and an answered one has its answer time. Without it a duration that
  is already there could survive the settlement. The heart of the step is the
  lemma `OrderDoesNotMatter`: hearing one more kind moves the verdict exactly as
  `next` moves the state. It gives `StatusIsAlwaysVerdict`,
  `BillIsAlwaysTheSpan`, `FinishedStaysFrozen` and `RecordingStaysNamed` for any
  number of events, in any order, with any time stamps and any reprice.
- **`VoipCallProofs`.** `CreditsAlwaysRefined` shows that every step of the call is a
  step of `CreditHold` or leaves the credits alone, with faults, losses, early
  webhooks and restarts; `CreditInvariant` carries `HoldInv` over.
  `CallInv` then ties the parts together: while `dial` is at a step, the row and
  the hold are what that step left (`Placing`), and a hold is settled only for a
  completed call that was answered, with its cost, and closed only for one that
  is over (`Paid`). It is needed because no writer reads the whole state: that
  `end_call` may release what it marked is true only since nobody completes a
  failed row. `HoldAlwaysFollowsRow`, `LifecycleRises` and `CapsAlwaysHold` follow.
  These three assume `~EarlyWebhooks`: finding 1 is the counterexample without it.
  They assume nothing about losses, faults or restarts.
  `TrackInv` is what remains without that proviso: where the line can be before the
  request has placed it, that media follow an answer the row has kept, and that only
  what was answered owes. From it, with webhooks that come early: `OnlyTheDialOverwrites`,
  a row is turned back only by the two statements of `dial` that do not look at it, and by
  the second only when the answer to its request was lost; `RevivalAloneLiftsCaps`, a cap
  is passed only by such a step on a call that was over; and `NobodyPaysUnanswered`. So
  finding 1 has no other cause in the code, and what it costs is a row, a cap or an
  unbilled call, but never a charge for a call that nobody answered.
  `CallsConserveCredits`, `CallsPayOnce`, `CallsDrainThePool` and `CallsArePrepaid` carry
  the sums, the finality of a closed hold and the account over as well, so that
  `VoipCall`, `CreditHold` and `PrepaidAccount` refine one another.
  `OwnInv` is what is left in memory: a phone peer without a parked leg is in a
  request or a bridge, and whoever ends a call reclaims what is parked.
  `FaultsLeaveNoPhone` assumes nothing: the one thing left over is an entry of
  `LiveCalls` without phone and bridge, of a call whose failed dial could not be refunded
  (`service.rs:802`). `PhoneLegAlwaysOwned` assumes `~Faults`, so that not even that is left.
  `LegInv` is the carrier's side. `Traced`: a line that is up is announced by a webhook
  under way or by the row, so the sweep of stalled calls cannot fail it, and the bridge
  ends only what it has hung up. `NoLegIsLeftBehind` assumes `~EarlyWebhooks`,
  `~LossyWebhooks` and `~Faults`, with restarts at any point: with `Faults` the model
  violates it, at the lines the hazards name. `LossLeavesUnheardLines` says what losses
  leave: with `~Faults` alone, a line behind a call that is over was failed by the sweep
  because its `answered` never came, carries no media and cost nothing.
  `AnswerInv`, that only an answer moves a row past `ringing`, gives `NoCallIsForgotten`: the three sweeps' WHERE clauses together find
  every row nobody else will close, with losses, faults and restarts.
- **`ConsentGateProofs`.** For any number of digits. `DecisionStands` is the lemma
  `OneWay`: no step moves a decided consent. `PointerNeverDangles` needs
  `BytesInv`, that nothing is kept until the leg is down. `NothingIsKeptUnasked`
  is the hard one, because each task acts on the row it read: `AskedInv` says
  what of it can still be relied on. `ReadsInv`: what was read is no newer than the
  row, so a stamp in it is a stamp. `AnswererOK` and `GateOK` say, per step of
  a task, why it may capture: the handler of the answer only what no gate
  holds back, a digit or the sweep only behind consent that was granted.
  `KeptInv` follows the `saved` of a recording from the webhook into the row.
  `AudioInv` gives `NoCallIsLeftSilent`: whoever decides a gate is past it and goes on to
  arm the media, so the handler of the answer may leave at an open gate
  (`LedIn(Due)`), and the gate it leaves open is stamped, which is what the sweep selects by.
- **`InboundCallProofs`.** `TakenStaysTaken` says that a call a colleague has taken is moved by
  no sweep once none has it in hand: what the sweeps select is unclaimed, and a claim is
  never undone. `OnlyAdmissionParksLate`: whoever ends a row takes its leg out of the room, so a
  leg is parked behind an ended row only by the `Park` of an admission whose row ended before it.
  `HandInv` says of the rows the sweep wrote live again that a deadline, a claim or the pass of
  the sweep is left to them, and of a row with an answer time that the duration sweep or the
  hangup webhook gets to it (`Watched`, `EndComes`); it gives `NoInboundCallIsForgotten`
  with every mishap. `LineInv` gives `LineIsAlwaysLetGo`: until a hangup fails, a stalled call may
  be failed without one only because a leg that went up has its answer on the way.
- **`PhoneRoomProofs`.** `CohInv`: there is one session at most (`OneSession`), the
  entries fit and differ (`PeersInv`), and `OwesInv`, without which nothing is
  inductive: whoever is about to end a session has seen its room go, and a session never
  gets its room back. `RoomAlwaysCoheres` and `RoomStaysForItsPeople` follow,
  for any people, connections and room size. `PhoneInv` says that the phone leaves its room once
  and is in no later one. `NoSessionIsForgotten` (`SessionsKept`): a session without an end
  has its room, or somebody owes it one, or its UPDATE failed, or the phone's departure took the
  room away, and that happens to one session at most. `AbandonedLegIsInHand` (`LegInv`): when the
  people have left and the leg is up, a departure is between its locks, a grace task waits or
  hangs up, or the bridge ends the call, except in the three ways of `Unattended`.
- **`AiJobsProofs`.** `RunInv`: row ids are unique, and a task whose heartbeat was not
  lost holds its slot (`Holds`), so nobody can have claimed it since; that is
  `NothingRunsTwice`. `PayInv` adds that a caller claims once (`EntryInv`), is charged
  before it saves and never after (`OnceInv`), and, while nothing went
  wrong, that a charge is on its way to the database or there (`CleanInv`). It gives
  `NobodyPaysTwice`. `PendingJobIsRun`: a pending row has a task until one is killed, since
  a claim gives the row a new id and a task leaves only by answering it.

**Safety halves.** Seven of these theorems (`NoCallIsForgotten`, `KeptIsAlwaysFound`,
`NoCallIsLeftSilent`, `NoInboundCallIsForgotten`, `NoSessionIsForgotten`,
`AbandonedLegIsInHand`, `PendingJobIsRun`) go with a liveness property: in no state has
everybody forgotten what must still happen, for any number of calls, people and
mishaps. That those who have it in hand get it done is what the runs add, with the
fairness of section 3. It is more: finding 3 is a call that the reaper has in hand for ever.

**Only model-checked.** Liveness is out of the prover's reach: `CallSettles`,
`AudioOpens`, `KeptIsPurged`, `EveryCallEnds`, `EveryMessageStops`,
`AbandonedLegIsHungUp`, `EverySessionIsFinalized` and `EveryJobAnswers`. Every invariant and
action property of a passing run is stated by a theorem, typing included.

**Not modelled**: the parts `PROJECT.json` lists as such, each with its reason. In
the modelled parts: wording, languages and metrics, the width of integers, the
room's rate limit, and database anomalies inside a single statement; the second row of a
repeated `call.initiated`; and, in `PhoneRoom`, restarts and `run_sweep`.

## 5. Plan

What is left, in this order, each with its module, instance, mutants and, where
it says so, theorems.

1. `NumberRenewal` (`numbers.rs`) and the requirement-group claim
   (`regulatory.rs`), both against the pool of `CreditHold`. Provable: a month is
   paid for once, and a claim has one holder.
2. `Meter` (`usage.rs`, `billing.rs`) and the Stripe credit: a personal balance is
   never overspent and a payment is credited once.
3. Price: quotes and margins as pure operators checked against a reference
   definition.
4. Presence of webinars, talk and meetings, and the claim of a reminder; the
   election of a transcript writer.
