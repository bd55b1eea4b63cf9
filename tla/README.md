# Pigugu server: formal models

TLA+ models of the Pigugu server, TLC runs that check them on small instances, and
TLAPS proofs of what holds for every instance. The repository holds an api service
(FastAPI: the App's REST and WebSocket calls and the AWS IoT webhook), an agent
service (the voice conversation with the toy, its memory and its roast game), a
crawler and the deployment around them. The models translate the code; where a
document or comment says something else, section 8 lists it.

## 1. The system

Paths are relative to `src/`.

| Component | Source | State it keeps | Operations that change it | Modelled in |
|---|---|---|---|---|
| Firmware upgrade jobs | `api/modules/device/ota.py`, `ota_versions.py`, the sweep of `main.py` | `device_ota_jobs`, `firmware_versions`, the version columns of `devices` | device check, trigger, `ota.report`, sweep, push of an outcome, unbind, publish, retire | `OtaJobs`, `OtaUpgrade` |
| Provisioning and ownership | `api/modules/device/service.py`, `iot.py`, clean-up of `main.py` | `device_provisioning_sessions`, `devices` | create session, `device.online`, verify, `device.register`, bind, set active, unbind, clean-up | `Provisioning` |
| Device certificates | `service.py`, `core/aws.py` | AWS IoT certificates, their cache in Redis, the arns in Postgres | issue, record, deactivate | `DeviceCertificates` |
| Volume and status | `service.py`, `iot.py` | replies and the last level in Redis, what the App shows | get, set, ping, webhook | `VolumeSync` |
| App sockets | `api/modules/ws` | a socket per App on one replica, Redis Pub/Sub | connect, disconnect, broadcast, listen | `AppSockets` |
| Roasts started by the App | `ws/router.py`, `pigagent/api/roast.py`, `voice/server.py`, `session.py` | the registry of voice sessions, the queue of injected lines | start, give to a session, play, unregister | `RoastStarts` |
| Authentication | `api/modules/auth` | refresh tokens in Redis | login, refresh, revoke | not modelled |
| Roast results, news, push, rooms | `api/modules/game`, `gameplay`, `news`, `push`, `device/room.py` | single rows | queries and single inserts | not modelled |
| Roast game | `pigagent/roast`, `tools/roast.py`, the roast turn of `agent.py` | RoastState in Redis, history and record in Postgres, pending prompt | start, turn, tick, settle, close | `RoastGame` |
| Turn and agent runner | `pigagent/agent.py`, `core/agent/runner.py`, `executor.py` | messages, steps, tool calls, what is saved of them | ReAct step, tool call, time-out, interrupt | `AgentRun` |
| Interrupt events | `core/agent/interrupt.py` | the event of a key, guarded runs | register, trigger, replace, clean up | `Interrupts` |
| Context and compression | `pigagent/context` | turns and summaries in memory, Redis and Postgres | add turn, load, recover, rewarm, compress | `ConversationContext` |
| Turns of a voice session | `voice/pipecat`: observer, gateway, TTS bridge, session | rows, the reply, speech under way, pending words | turn, wake, abort, inject, commit, end | `VoiceTurns` |
| Audio of a turn | `turn_storage_observer.py` | mic buffers, the time of each turn's audio | route a frame, open, commit | `TurnAudio` |
| Stream to the recognizer | `stt_bridge.py`, `vad_bridge.py`, `providers/stt` | the connection, its loop, the decoder's context | open, reconnect, push context, close | `SttStream` |
| Speech of a reply | `tts_bridge.py`, `providers/tts/cartesia.py` | words, samples, frames, what is recorded | feed, receive, pace, fall back, cut | `SpeechOut` |
| Calls to the device | `tools/volume.py`, `voice/pipecat/mcp_bridge.py` | pending calls, deferred writes | read, write, defer, flush, time out | `DeviceCalls` |
| Language and search providers, prompts, metrics | `core/llm`, `providers`, `prompts`, `metrics` | none that others decide on | vendor requests | not modelled |
| Crawler, migrations, scripts, deployment | `crawler`, `alembic`, `scripts`, `k8s` | | batch jobs | not modelled |

**How they interact.** The App talks REST and a WebSocket to one of two api replicas
(`k8s/api.yaml`); the toy talks HTTPS (the firmware check) and MQTT, and AWS IoT calls
the api's webhook for what it publishes. Both services share Postgres and Redis. The
api tells the App what happened by Redis Pub/Sub to every replica's sockets and by
FCM. The api starts a roast in the agent over HTTP; the agent (one replica) speaks
with the toy over its own WebSocket, and writes the outcome of a game to Postgres and
to the App's channel. Within a voice session the frames of a pipecat pipeline go from
the microphone through the voice detector, the recognizer, the turn layer, the observer
and the gateway to the TTS bridge, which runs the agent and speaks its reply; the
device answers calls and reports playback on the same socket.

**What is hard in it.**

- *Transactions that read and then write.* A handler selects rows without locks under
  READ COMMITTED, decides, and updates by primary key when `get_db` commits. Two
  replicas and an asyncio loop in each let any two handlers overlap. Only three
  partial or functional unique indexes stand between them and a broken table.
- *Waits inside a transaction:* two seconds in `unbind_device`, up to two times three
  in `verify_connectivity`.
- *Messages:* `ota.report`, volume reports and pongs arrive late, twice or never; calls to
  a device time out while their answer is under way; Pub/Sub forgets who does not listen.
- *Cancellation at every await.* A new turn, the stop button or an injected line kills
  the reply; what of it was said, stored and remembered depends on where it stood.
- *Reconnects.* The handler or loop of an old socket ends after the new one is up, and
  cleans up by a key that now names the new one (App sockets, voice sessions, recognizer).
- *Copies in memory:* a turn works with the RoastState it loaded; a context manager with
  its own turns; the bridge with the decoder context it loaded across an await.
- *Clocks:* the sweep, session expiry, token and cache lifetimes, idle windows.
- *Failures that are swallowed:* the agent logs a failed Redis or Postgres call and
  goes on; a restart drops tasks in the middle; AWS calls made before a rollback stay.

**What makes each component correct.**

- *Firmware jobs:* a job ends once and its outcome is final; the App hears of an
  outcome after it is committed, and once; a
  reservation for an offline toy is never timed out; a toy that goes silent does not
  block later upgrades; "on target" means installed.
- *Provisioning:* a bound toy has one owner until it is unbound; a session ends bound only when its user holds a toy; sessions are capped.
- *Certificates:* the credentials a toy is answered with work, unless it was unbound since; unbinding leaves none active.
- *Volume:* no answer is invented; the App ends in step with the device; the last command
  of a conversation wins, and a silence that was promised comes.
- *App sockets and starts:* a connected App is reachable; a message reaches every App that was
  there; a roast given to the toy is taken up once, and is not given to a session that is over.
- *Roast game:* ACTIVE, CLOSING, SETTLED, CLOSED in that order; a round counts once;
  the prompt stored for the actor of a closing game says so; a game ends, in one way, with one card
  if it was completed, and is closed before the next.
- *Agent:* every tool call has its result before the model is asked again; what the tools
  did is remembered; a signal reaches the run it was meant for, and no other.
- *Context:* turn numbers are not reused, what is compressed is neither lost nor skipped.
- *Voice:* one reply is spoken at a time; words are told once; each turn is stored with its own
  words and audio, and lands; what is recorded of a reply is what was sent of it; the recognizer
  is fed by one stream and decodes with the last context.

## 2. The models

Six modules stand alone or compose by EXTENDS (`OtaUpgrade` over `OtaJobs`). The parts
of a voice session and of the App's side share no variable in the code beyond what each
model already takes as its environment, so three MC modules (`MCSession`,
`MCConversation`, `MCApp`) hold several instances side by side and let one *part* move per
behaviour: a sum of state spaces instead of a product, and every property is checked on
the part it speaks of.

### `OtaJobs`, `OtaLifecycle`, `OtaUpgrade`

A worker of the api is a handler with an open transaction: one step reads and fixes
what the transaction will write (`Begin`), another writes it to whatever the rows have
become (`Commit`), or the index refuses it (`Refuse`), or it is lost (`Abort`: a
deadlock broken by Postgres, a dropped connection, a dead replica). With one worker
requests are served one at a time; with two they overlap in every way.

| Variable | Code |
|---|---|
| `job` | rows of `device_ota_jobs`; `why` is the failure detail, or what tells the outcomes apart; `stale`: `updated_at` is older than the time-out |
| `device` | owner, `binding_status`, last recorded version |
| `visible` | `firmware_versions.visibility` |
| `txn` | per worker the pending writes and the pushes that follow them |
| `trace` | history: was the job ever handed to its device, how often was its outcome pushed |

`Check` is `process_check` in `get_ota_config`, with its four outcomes (no job, on
target, offer, a presigned URL that cannot be made); `Trigger` is `create_upgrade_job`;
`Report` is `apply_ota_report`; `SweepTimedOutJobs`, `PushJobTerminal`, `UnbindRead` and
`UnbindCommit`, `Publish`, `Retire` are the functions of those names. `Rebind` is what
provisioning does to the columns used here. Versions are numbers; a version outside the
naturals is one that does not parse. URLs, payloads, progress and texts are left out.

`OtaLifecycle` is the abstract specification: what the job table keeps of the lifecycle drawn in
`api/models/device_ota_job.py:10-16`. A job is requested for a device without another
unfinished job or in the place of an unclaimed reservation, is never a reservation again once it
was handed over, and ends once; a time-out ends only jobs that were handed over. `OtaJobs` implements it
with the mapping `status <- job[j].status`, `of <- job[j].dev` when requests do not overlap
(`FollowsLifecycle`). The order drawn in between is not kept by the code and not part of it; the full
drawing is `MovesAsDrawn`, which the run `ota_drawn` finds violated (section 8).

`OtaUpgrade` composes `OtaJobs` with the toys: a toy reports what it runs, takes an offer
that is newer or forced, boots, confirms or rolls back, and everything it ever published
stays deliverable. The firmware is not in the repository; it is modelled from what its
requests mean to the handlers.

### `Provisioning`

`session`, `device` and `txn` as above. A column assigned the value it was loaded with is
not written, as in SQLAlchemy (`Changed`, `Set`): this decides which of two overlapping
writers wins a column. Two locks outlive a statement and are modelled: the session row
`verify_connectivity` flushes before it waits (`Locked`), and the rows
`set_active_device` updates first (`DeviceLocked`). `bind_device` is `BindNew`, `BindOwn`,
`BindUnbound`; `_handle_register` is `RegisterNew`, `RegisterUnbound`, `RegisterAgain`
(the conflict branch writes nothing). `Promoted` is the choice of the next active device
on unbinding: which device is online is up to the toys, so any or none. `Expire` and
`SessionCleanup` are the clock and the hourly clean-up.

### `DeviceCertificates`

One device. `requests` are the calls of `issue_mqtt_credentials` under way, one step per call
they make: read the session and the cache, list the certificates attached to the Thing, detach and
deactivate each, create, attach, allow, cache, commit. A call may fail at each of them
(`RollsBack`: AWS and Redis keep what they were told), two may overlap, and the device may take
the answer or reboot and ask again. `BindDevice`, `RegisterOwn` and `UnbindDevice` move the
arn from the session to the device and deactivate it. A session that is bound or cancelled is closed to
requests until `VerifyConnectivity`, which does not look at the status, opens it again (`service.py:141-198`).

### `VolumeSync`, `AppSockets`, `RoastStarts`

`VolumeSync` is the App's side of the volume: a request published over MQTT and the Redis
key polled for its answer (`asks`, `replies`), the webhook calls with one step per await (store the
reply, remember the level, push it to the App), and the device, which takes its messages
in order and reports every change.

`AppSockets` has the registry of each replica, the handlers of its sockets, the listener with what
Redis sent it, and the sends under way: a send awaits, and removes the App when it fails.

`RoastStarts` follows a start from the App's handler through the agent to the voice session:
`links` are the connections of a device with the queue of what each session still plays,
`current` the registry of `voice/server.py`; a session is closed in steps (lost, stopping, ended,
closing, over), and pops its key at the last. What `inject_text` is given it plays to its end, stops midway for a
new turn or an interruption, or drops, when there are no words, no TTS, no frames or the synthesis fails
(`PlaysToItsEnd`, `StopsMidway`, `SaysNothing`).

### `RoastGame`

`active` is the RoastState in Redis, `history` the phase stored in `roast_states`, `record`
and `cards` the settlement and its event to the App, `pending` the prompt for the next
turn. A process (a turn, a tick) is its copy of the state (`own`) and the list of
writes it still has to make, one await each (`todo`); a write may fail and be
swallowed, a turn may be abandoned at any point, a tool timed out between two of its
writes, the agent restarted.

`BeginTurn`, `FreeChat`, `CloseRoast`, `GetPrompt`, `DeletePrompt`, `EndTurn`, `EndRound` are
`generate_reply` and `_stream_roast`; `StartRoast` and `MarkRoastComplete` the two tools (and
the API's activation); `Judge` is a whole `GameMode.tick`: the director's answer is any
combination of knock-out, close and injected hint, or nothing, and the code triggers
follow. `Debate` chooses between the two modes. Scores, poll numbers and the wording of
prompts are abstracted to the choice they lead to.

### `AgentRun`, `Interrupts`, `DeviceCalls`

`AgentRun` is `generate_reply` with the loop of `AgentRunner` and the executor: load the context, seed
the session information once, stream, run the tools of a step up to the semaphore, add their results in
the order of the calls, persist the tool results at the end. The bridge may set the event,
which is read before each step and between two pieces of a stream, or cancel the task at any await. All
replies share the runner's `last_messages` (`snapshot`).

`Interrupts` is the registry of events under one key: a guarded run takes the registered event or
makes one, races its work against it, and cleans up by key.

`DeviceCalls` has the volume tool (`Begin`, `StartReading` .. `BackAnswered`), the matching of
answers by id, the time-outs, and the deferred mute with its flush at the end of the turn or
session. The socket is ordered and reliable while it is up.

### `VoiceTurns`, `TurnAudio`, `SttStream`, `SpeechOut`

`VoiceTurns` is the protocol of one session: the observer opens a row per turn and leaves it in
a slot; the gateway dispatches the turn or, from a timer's task, answers a bare wake word; the bridge
takes frames one at a time, kills the reply in flight, waits for it, and starts the next; the reply task
takes the row, speaks, and writes or carries over the user's words; a roast injects lines from a task
of its own; rows are committed by a waiter, a sweep or the end of the session. A turn is a
number, a text the set of turns whose words it has. The device acknowledges what it played with the `sentence_id` it was
sent, with none for an injected line, which is sent none (`tts_bridge.py:803`), and with none at all under
the fault `bare`; an acknowledgement without one is taken for whatever turn is current (`turn_storage_observer.py:575-597`).

`TurnAudio` routes every mic frame to the coming turn or to the listening of the turn that
plays, and keeps the time at which the coming turn's audio began, which it sees change with the next frame only.

`SttStream` is the connection to the recognizer: every frame opens it if it is not open, a loop of
its own reads it and closes what it has captured, replies push their text as context,
transcripts pass the echo gate.

`SpeechOut` feeds the words of a reply to the speech stream, cuts its audio into frames, paces them, falls back
to one whole synthesis if nothing was played, and records what was heard. `Text` and `Said` give every word a length in
characters and one in samples, independent of each other, since `_truncate_to_played` cuts the one by the share of the other.

When replies start and end is `VoiceTurns`' story; the other three take those moments from
their environment, in any order `VoiceTurns` allows.

### `ConversationContext`

`mgr` is the manager of a session with its memory and the calls under way, `redis` and `pg` the
stores, `redisTasks` and `pgTasks` the writes nobody awaits, `jobs` the runs of the compressor. A text is the
set of the utterances it tells of, so a summary shows what it has lost. `AddTurn` and `Load*` are `add_turn`
and `assemble` with their awaits; `Rewarm`, `Compress`, `RedisExpires` and `EndSession` are what their names say.

`Positions` holds `Pick`, what a comprehension with a condition keeps of a list. It stands where `SelectSeq`
would: the definition is a recursive function, which can be proved about.

## 3. The runs

| Run | Module | What it checks | States |
|---|---|---|---|
| `ota_closed_loop` | `MCOtaUpgrade` | `FollowsLifecycle` (refinement), `SupersededNeverStarted`, `PushedAtMostOnce`, `OnTargetMeansInstalled`, `ShownVersionWasRun`: what is kept when requests do not overlap, with honest toys and late, repeated and lost reports | 192,926 |
| `ota_concurrent` | `OtaJobs` | `ConfirmedWasHandedOver`, `QuietDeviceJobEnds` (liveness): with two transactions that overlap in every way, a check confirms only what was handed over and a job whose device went silent ends | 243,180 |
| `prov_serial` | `MCProvisioning` | `OwnerKeepsDevice`, `BoundSessionHoldsDevice`, `UnfinishedSessionsBounded`, one request at a time, with ageing and clean-up | 694,249 |
| `roast` | `MCRoastGame` | `CalmGoesForward`, `CalmAnnounced`, `CalmEndedOnce` in games played as designed; `GameOver` (liveness): with overlap, failed reads and writes, abandoned turns and restarts a game still leaves ACTIVE, once nothing hides its limit | 54,031 |
| `voice_faults` | `MCVoiceTurns` | `RowsAreOwn`, `WordsOnce`, `SpeechStateRight`, `NoOverlap`, `RowsLand` (liveness) under no fault, each fault, and five pairs | 527,899 |
| `session` | `MCSession` | `CallsAnswered`, `RepliesRemembered` (agent); `ToldWasHeld`, `LastWordWins`, `DeferredDrains` (liveness; device); `SignalsRight` (interrupts) | 388,234 |
| `conversation` | `MCConversation` | `AudioIsOwn`; `OneStream`, `DecoderInStep`; `ReplyAsHeard`; `FreeChatKept`, `NumbersNotReused`, in normal operation, with either store down, and with Redis expired | 3,540,594 |
| `app` | `MCApp` | `AnswersTrue`, `AppInStep`; `OpenIsReachable`, `PublishedArrives`; `StartsPlayed`; `AnswersWork`, `UnbindCutsOff` | 4,061,028 |
| `app_reconnect` | `AppSockets` | counterexample to `ReconnectIsReachable`, section 8 | |
| `set_up_again` | `DeviceCertificates` | counterexample to `UnbindAlwaysCutsOff`, section 8 | |
| `ota_drawn` | `MCOtaUpgrade` | counterexample to `MovesAsDrawn`, section 8 | |
| `roast_quit` | `MCRoastGame` | counterexample to `QuitSendsNoCard`, section 8 | |

Each property also has a mutant in `PROJECT.json`: a plausible bug in one definition
(written just before it, marked `mutant`) with which the same run finds it violated.

Every module has a type invariant (`TypeOK`, `SocketTypeOK`, ...). They hold of the same instances and
are listed by no run, so that a run's properties are those a bug in the code could break; thirteen
are proved (section 5).

**Conditional properties.** Several promises hold only while something the code does not
handle stays away, and say so in their premise: `habits`, `faults`, `trouble`, `outage` are variables
fixed at the start of a behaviour that name what may go wrong in it, so one run has the
behaviours without and with each fault, and a property names those it survives. Section
8 lists what happens in the others.

**Bounds and why they are enough.**

- *Workers:* two. The handlers only conflict on one device's or one user's rows, and
  every overlap that matters is a read of one transaction before the commit of another.
- *Devices:* one for jobs (a job's handlers touch one device; only the sweep closes jobs
  of several, each by the same rule). Two in `prov_serial`, with two users who compete for them.
- *Jobs:* two (one to supersede, one to replace it), one where liveness is checked.
  *Builds:* one, and versions below and at it.
- *Sessions:* three with a cap of two in `prov_serial`, so that the cap cancels; the
  code's cap is five. `TwoBind` lets only the oldest session live past its thirty minutes, so expiry
  and clean-up meet fresh ones, and keeps the third from binding: it only counts against the cap.
- *Games:* three in a row when played as designed, so that a new game replaces a settled one, a
  closed one and a game abandoned half-way; one under overlap. `MaxTurns` is 3 instead of 8: enough rounds
  before the limit for the earlier triggers. One turn and one tick: a turn begins while the
  tick of the turn before it is still at work, which is the overlap the code has with one
  voice connection.
- *Turns of a session:* two, one wake word, one injected line: a reply and the one that replaces
  it, a row and the one that sweeps it. `QueueCap` 2 holds an interruption and a turn.
  `FlushAt` 2 is the carried-over text that is written although nothing was heard.
- *Frames:* five of the microphone, with a buffer of three, so that one loses frames at its front. Two rows,
  one swept by the other.
- *Sockets, connections, pods:* two of each: the old and the new. Two messages, to keep one
  queued behind another.
- *Recognizer:* two connections, two replies: one pushed before and one during a reconnect.
- *Speech:* three words of 100, 50 and 151 samples and of 2, 5 and 2 characters, in frames of 100: words, chunks and
  frames do not line up, a word may be long to say and short to write, and three frames of four are 99 in a hundred of the
  reply, so the branch that records all of it is taken with a sample still to be sent.
- *Context:* four utterances, a hot window of two over a limit of one, so that compression and recovery both
  drop turns; one manager after another. `SomeOutages`: none, Redis down, Postgres down, or Redis expired.
  `JobCount` 1 keeps compressions from overlapping, and `MemoryTurns` 2 keeps a session within the window of 2 (a limit
  the code does not have: 150 turns): `FreeChatKept` survives neither (section 8).
- *Agent:* two replies of two steps with two calls and one place in the semaphore: a call that waits.
- *Device calls:* two commands, which may run at once, two flushes, two attempts; three levels.
- *Interrupts:* two runs, two signals. *Certificates:* two sessions, three certificates, two requests.
- *Volume:* two levels, two requests, one change at the device, two webhook calls under way. Levels are only
  compared, so the device begins at one of them.
- `PushCap` 2 counts pushes just beyond the one allowed.
- `CHECK_DEADLOCK FALSE`: with the bounded keys, sessions, turns or games used up the instance
  may stop.
- Symmetry is used for job keys (`ota_closed_loop`), workers, users and devices (`prov_serial`), and in no run that checks liveness.

## 4. Fairness

- `ota_concurrent`: weak fairness for commits and pushes (handlers run to the end) and for the
  clock; strong fairness for the sweep and its commit. The sweep is a `while True` loop
  every 30 s in each replica; another transaction may take the worker of the model at
  any moment and a single sweep may be lost, so it is enabled again and again, not
  continuously. The property starts from the moment the toys are silent.
- `roast`: strong fairness for the steps of a turn (the user keeps talking and
  hears some replies out although others are abandoned), weak fairness for ticks and their
  writes. Nothing is assumed of the director or of who has won. `GameOver` has two premises of its own instead: from
  some moment on ticks stop losing their work (while every save fails, a game can of course last), and no
  tick of a last round has something that comes before `ending_max_turns` (`LimitHidden`): an injected hint, or
  `user_won`, which hides the limit for good. Of a game where that goes on nothing is claimed (section 8).
- `voice_faults`: weak fairness for the bridge, the reply task, an injection, the commits, the timer and
  the end of the session: asyncio runs every ready task, streams end or time out, and a silent
  session closes itself. Nothing makes the user talk.
- `session`: weak fairness for what the device and the tasks do and for the time-outs, which
  `asyncio.wait_for` guarantees; strong fairness for the end of the session, since a command
  may always be under way when it could end, and the idle close comes again.

## 5. What is proved

Eight modules hold theorems and lemmas, for every value of the constants. The assumptions about constants are
those named in the modules (the builds are versions that parse, `Script` is no user, `None` is no value,
`MaxActive` at least 2, bounds are numbers, there are an App and a pod), and some
theorems have a premise besides, explained below.

| Theorem | Statement | Rests on |
|---|---|---|
| **`OtaProofs`** `TypeCorrect` | `Spec => []TypeOK` | `Inv` |
| `TimeoutsWereHandedOver`, `ConfirmationsWereHandedOver` | the two invariants, under all interleavings | `Inv` |
| `PushesFollowCommits` | `Spec => PushFollowsCommit` | `Inv`, one step per action |
| `SerialOutcomesAreFinal` | `Alone`: `Spec => TerminalIsFinal` | `Planned` |
| `JobsFollowLifecycle` | `Alone`: `Spec => FollowsLifecycle`, the refinement of `OtaLifecycle`, which is what is kept of the drawn lifecycle | `SerialInv` |
| `SerialSupersededNeverStarted`, `SerialPushedAtMostOnce` | `Alone`: the two invariants | `SerialInv` |
| `ShownVersionsWereRun` | `USpec => []ShownVersionWasRun` | `LoopInv` |
| `OnTargetIsInstalled` | `BaseVersions \subseteq Nat`: `USpec => []OnTargetMeansInstalled` | `TargetInv` |
| **`ProvisioningProofs`** `TypeCorrect` | `Spec => []TypeOK` | `Inv` |
| `SerialOwnersKept` | `Alone`: `Spec => OwnerKeepsDevice` | `WritesFit` |
| `SerialUnfinishedBounded`, `SerialBoundHolds` | `Alone`: the bound on sessions; a bound session has its device | `SerialInv` |
| **`AppProofs`** `VolumeTypes` | `VolumeSpec => []VolumeTypeOK` | itself |
| `AnswersAreTrue`, `AppStaysInStep` | `[]AnswersTrue`, `[]AppInStep` | `AnswersInv`, `StepInv` |
| `SocketTypes`, `OpenStaysReachable`, `PublishedIsDelivered` | `[]SocketTypeOK`, `[]OpenIsReachable`, `[]PublishedArrives` | `Cleared`, `OnItsWay` |
| `CertificateTypes` | `CertSpec => []CertTypeOK` | `CertInv` |
| `AnsweredCredentialsWork`, `UnbindingCutsOff` | `CertSpec => AnswersWork`, `UnbindCutsOff` | `CertInv` |
| `StartTypes`, `StartsArePlayed` | `StartSpec => []StartTypeOK`, `[]StartsPlayed` | `StartInv` |
| **`SessionProofs`** `InterruptTypes`, `SignalsReachTheirRun` | `InterruptSpec => []SignalsRight` and its types | `EventKnown`, `SetSince` |
| `ToldIsHeld` | `DeviceSpec => []ToldWasHeld` | `ToldInv` |
| `LastWordHolds` | `DeviceSpec => []LastWordWins` | `ToldInv`, `LastInv` |
| `AgentTypes`, `CallsAreAnswered` | `AgentSpec => []AgentTypeOK`, `[]CallsAnswered` | `AgentInv` |
| `RepliesAreRemembered` | `AgentSpec => []RepliesRemembered` | `AgentInv` |
| `AudioTypes`, `AudioStaysOwn` | `AudioSpec => []AudioTypeOK`, `[]AudioIsOwn` | `AudioInv` |
| **`ConversationProofs`** `SttTypes`, `OneStreamOnly`, `DecoderStaysInStep` | `[]SttTypeOK`, `[]OneStream`, `[]DecoderInStep` | `SttInv`, `NewestIsHeld` |
| `ReplyIsAsHeard` | `SpeechSpec => []ReplyAsHeard` | `SpeechInv` |
| `ContextTypes` | `ContextSpec => []ContextTypeOK` | `CtxTyped` |
| `NumbersStayUnique` | `Calm`, `MemoryTurns <= Window`: `ContextSpec => []NumbersNotReused` | `CtxInvariant` |
| `FreeChatStays` | `OneAtATime`: `ContextSpec => []FreeChatKept` | `FreeInvariant` |
| **`VoiceTurnsProofs`** `VoiceTypes` | `Spec => []TypeOK` | `Kinds` |
| `SpeechIsKnown`, `NothingOverlaps` | `[]SpeechStateRight`, `NoOverlap` | `SpeakInv`, `PauseInv` |
| `RowsStayOwn` | `[]RowsAreOwn` | `RowInv` |
| `WordsAreTold` | `[]WordsOnce` | `WordInv`, `WakeInv` |
| **`RoastGameProofs`** `RoastTypes` | `Spec => []TypeOK` | `TypeInv` |
| `GamesGoForward`, `ClosingIsAnnounced`, `GamesEndOnce` | `OneVoice`: `MCSpec => CalmGoesForward`, `CalmAnnounced`, `CalmEndedOnce` | `RoastInv` |

**The premises.** `Alone` says that there is one worker, so that one transaction is open at a time: with two, each of
these properties fails (section 8), and the premise is the same instance the serial runs check. `BaseVersions \subseteq Nat`
says that devices leave the factory with versions that parse; with one that does not, a check closes the job of a
device that never ran the build (`ota.py:134`). `ShownVersionsWereRun` needs neither. `OneVoice` says that at most
one turn is under way, as in a voice connection without a turn of the REST API beside it; a second turn loads the game
in the middle of what the first writes (section 8). It is the instance the run `roast` checks, with any number of games,
rounds and ticks. The games `CalmGoesForward`, `CalmAnnounced` and `CalmEndedOnce` speak of are played as designed (`CalmStep`): a tick is over
before the next turn, the tools are called in CLOSING or in free chat, a round that closes the game does not hint as well
(nor, if it closes it by a knock-out, trigger a hint of the code), and writes succeed.
`Calm` is the operation described at that constant: one session of a user after another, each
opened when the writes of the one before are done and loaded before it adds, tasks that end in the order
they began, no kill. `MemoryTurns <= Window` says besides that no session outgrows the window. It is the instance `conversation` checks; the theorem has
it with any number of sessions, turns, games and compressions at once, whatever is down and whether the model
fails. `OneAtATime` is all of this with one compression at a time, a model that answers, and never both stores down: two compressions at
once, one that fails, or a second one of a session beyond the window lose what was said, and so do a restart and writes out
of order (section 8); with no store left there is nothing to recover from. The
run `conversation` checks this very instance, with no outage and with each; the theorem has it with any number of sessions, turns and games, every window above `MaxTurns`, and every
outage but both stores. Where Redis may expire, `FreeChatKept` claims nothing.
Section 8 has what happens without these premises.

**Induction.** The prover cannot instantiate the library's induction theorems, which have a predicate as a parameter.
`Induction` states induction over the numbers as a fact about a set (`Counting`), which the well-founded order
gives, and derives from it that a recursive function has the values its equation says (`Recursion`) and what `Pick` keeps of a
sequence (`PickEmbeds`, `PickAppend`, `PickNone`, ...). What loops over a list computes is proved with these.

**Firmware jobs.** The invariants of handing over are not inductive: what a commit does to a row
depends on what the transaction decided long before. `Inv` therefore says what an open transaction may
hold (`Sound`: it updates rows that exist, pushes only outcomes, and closes as timed out or confirmed
only jobs that have been handed over) and that handing over is recorded (`AwareTraced`); both survive the steps
of other workers because rows never disappear and the record never shrinks. With one worker
what the open transaction will write still fits the rows it read (`Planned`), and a commit takes each row along an edge of the
life cycle: that is the step of `OtaLifecycle`, and every other step is a stutter of it. `SerialInv` adds that
a push not yet sent is for a job whose end nobody has been told of.

**The closed loop.** A step of `OtaUpgrade` is a step of `OtaJobs` or leaves its variables alone, so `Inv` holds there too.
The version shown is one that ran because every report in flight and every open transaction names such a version
(`LoopInv`: `SentOK`, `TxnHonest`), and what a device has run is never taken back.

**Provisioning.** A transaction that inserts a session has counted those there are and cancels all but the newest
`MaxActive - 1`: that as many remain is an injection from the ones that remain into the numbers below the bound, by rank.

**Certificates and starts.** `CertInv` says which request is under way and how far it has come: a certificate belongs to one
session, what is cached for the newest is attached and allowed, and active unless it is the arn of a device that has been
unbound. Each conjunct names the trouble it does not survive.
`StartInv` says who has a start: the connection it was given to, once in its queue, or in play, or done, in
whole, in part or with nothing said (`QueueOwn`), and that one that is over has none.

**Volume and sockets.** `AnswersInv` says of every report, stored reply and webhook call under way what the device may have said
by it, whatever is lost, late or repeated; `StepInv` that among those under way the last that matters tells the level
of the device. `OpenIsReachable` rests on `Cleared`: of the sockets before one that came alone no handler is left to end and no
send to fail. `PublishedArrives` rests on `OnItsWay`: a socket a message is due to has it, or finds it in the
inbox of its pod or in the fan the pod is sending, or has been taken out of the registry.

**A session.** `SignalsRight` needs to know what the event of a racing run is: the registered one or one already set (`EventKnown`),
and if set, set after the run before was over (`SetSince`). `ToldWasHeld` needs to know what is under way
under the number of a command that waits (`Honest`): its own request, or an answer that says what the device
has held since the command began; numbers are never used again (`Numbered`). `LastWordWins` is about a moment when all has
settled, so `LastInv` says what is on its way before it: the last write on the wire is the newest
command's, or none is and the device has its level already, or its silence waits in a list no turn can overtake
(`Keeps`, `Unsent`); a silence is sent only for the newest command and while no other runs (`ListFine`,
`Course`), so an unmute that asked finds none after its question (`Listens`); whoever sent a write still waits
for it, so a refusal cannot be dropped unseen (`Owned`). All of it holds until a write is refused or lost, which `doubt` records.
`CallsAnswered` is about the whole list the model is sent, so `AgentInv` says how far a reply's own messages are at every
point of the loop: each step but the one whose tools run has one result for each call, in order (`StepFine`), and all of them are the
reply's (`MsgsOwn`). `RepliesRemembered` needs what is still to be saved to be the end of what there was, and what
was saved, picked out of the conversation that all replies share, to be the beginning (`LeftFine`, `KeptRight`).

**A conversation.** `SttInv`: while the session lasts, a stream that is read is the one that is fed, and what the decoder was told is what the
bridge holds unless a push is still to come; `NewestIsHeld` that the bridge holds the newest reply unless that was pushed while it
loaded. `SpeechInv` counts the samples each stage has had and
needs the arithmetic of shares that are rounded down (`ShareIsSent`). `AudioInv` says which frames the two buffers and the
rows may still hold, that they do not meet, that what a row was given has no gap but a reply, and when it began.

**Context.** A number is taken from the memory, or from Redis, or from Postgres, and `NumbersNotReused` needs each to answer with the
newest when it is asked. The invariant (`CtxInvariant`) is about all the numbers there are, stored or
pending (`CtxN`), the anchors (`CtxA`) and the numbers behind every anchor (`CtxF`). Postgres
(`PgOk`): a number that is pending is above all before it, so no row has it; and at any time what is
behind the anchors fits the window, so a recovery, which takes the oldest window of rows, has the newest. Redis (`RedisOk`): what is
pending for it comes in order and ends with the newest; a turn too early in the list, where a
warm-up has pushed it again, comes again later or is pending; and it has what is behind the anchors, except what a full list has
dropped. A session (`SessionOk`): it ends with the newest number, or has no turns of its own and then nothing is
pending; it has what is behind the anchors, or fills the window; a number it asks for is at least the newest; and
while it has turns, Redis has some or will. The three depend on each other: Redis may be trusted after a
warm-up because Postgres had all, Postgres has all because sessions do not outgrow the window, and a session
that is short of it has all because it was loaded from one of them. While Postgres is down the property
says nothing: no row is stored.

`FreeChatKept` rests on a place `f` in what was said (`FreeAt`), up to which it is told and after which it is
held. Every summary Redis may answer with has its anchor at `f` or later (`RedisSumsIn`, `EndsFrom`), and every summary anywhere tells of all
free chat before its own anchor (`CtxSound`). Redis, if up, ends with the turns after `f`, or will when its tasks are done
(`RedisKeeps`); Postgres, if up, has every number, stored or pending; and the open session has all turns after `f`, and
all free chat before `f` in its summary or in turns it still keeps (`FreeHeld`). So `f` may move forward when
a compression ends, and only then. While one is under way, its records reach from what its own summary tells to its last turn without
a gap (`JobTells`), `f` is not past that turn and no summary is (`JobLate`): what it will write cannot move an anchor back,
which is where two at once go wrong. The summary of a game anchors at the end of the game; that this skips no free chat needs the turns
of a game to be next to each other (`Together`). A session that was just opened may start from any of the places the code
tries in turn, so the invariant says what each of them would give it (`FreeWaits`).

**Voice turns.** `VoiceTurns` has thirty kinds of steps; a lemma for each (`...Does`) says field by field what it does, and the invariants cite those.
`SpeakInv` says that whoever killed a reply waits for it, knowing whether it spoke; so the next one starts after the device
was told to stop. `PauseInv` says that a paused device has something coming that will release it. `RowInv` says that, without a wake
word or a user who runs ahead, there is one turn at a time between the observer and the end of its reply
(`OneTurn`, `Listening`), so the one slot of the text and the `sentence_id` of the playback are that turn's; an
acknowledgement without one is of an injected line (`Plays`). `WordInv` says that a turn is in one place at a time
(`Once`), that a session closed in its own time has nothing going on (`Calm`), that the words of what was killed are written or
kept (`TellsOnce`), and that a reply had begun before it was killed (`TellsAll`); each with the faults it does not survive.

**Roast game.** `RoastTypes` holds whatever overlaps and fails. For the rest, in calm play one task at a time has something
to write (`OneTask`), and `CalmInv` says what is still to come of it: a tick's prompts, then the game there is, one round on,
with the closing prompt the last before it if it is closing, then its history (`Plan`); a settlement's state, history, record and card, with no record
before (`Settling`); the closing of the game before and then the new one, which has no record (`Starting`). `Past` says
that every game before is closed in the history, or is the one being played, or the one about to be written. Each
kind of list is followed write by write (`PlanGoesOn`, `SettlingGoesOn`, `StartingGoesOn`), so a step is judged by the head
of the list.

The proofs have one lemma per action or group of actions and end in PTL steps.

## 6. What is only model-checked

Every safety property that a passing run checks is stated by a theorem of section 5. What is left to TLC:

- Liveness (`QuietDeviceJobEnds`, `GameOver`, `RowsLand`, `DeferredDrains`): fairness and ENABLED
  are beyond the prover.
- The four counterexamples of section 8.
- The type invariants of `DeviceCalls` and `SpeechOut`.

## 7. Plan

1. *Done:* the models of section 2 and the proofs of section 5.
2. Proofs: the type invariants of `DeviceCalls` and `SpeechOut`.
3. Models: authentication (one user, three refresh tokens, two requests).

## 8. What does not hold

Shown by runs:

- *A reconnected App may be unreachable* (`app_reconnect`): `disconnect` pops whatever socket
  the key holds (`ws/manager.py:138`), also the new one when the handler of the old one ends late.
- *A certificate outlives unbinding* (`set_up_again`): a bound toy that is set up again by its own user registers
  without taking the arn of the new session (`iot.py:508`), so unbinding deactivates the
  certificate before it.
- *Jobs leave the drawn lifecycle* (`ota_drawn`). `device_ota_job.py:10-16` draws a chain, with `failed` from downloading,
  installing and rebooting only. The sweep fails a notified job too (`ota.py:298`); a check sets a job back to notified
  from downloading, installing or rebooting (`ota.py:152`); a report fails or completes a job from requested and notified as
  well (`ota.py:244-254`). `OtaLifecycle` has these steps and claims less than the drawing.
- *A game that was quit sends a card* (`roast_quit`). A user quits in an ACTIVE round, as the tool's description has it
  (`tools/roast.py:388`); the tick of that round saves its ACTIVE copy over the SETTLED one (`agent.py:482`), the game
  is played on and completed, and the card goes out (against `tools/roast.py:362`).

Met while modelling, without a run of their own. Where a property of section 3 has a premise, these are
the behaviours it leaves out.

*Firmware jobs*

- Two triggers, or a trigger and a check, may race on one reservation. The partial unique index keeps a second unfinished
  job out whatever they decide; the one that comes second is refused.
- An outcome can be pushed twice: `_terminate` decides on the status it loaded (`ota.py:274`), so a check and a
  report that overlap both push. With overlapping transactions a terminal job is rewritten, and a
  trigger supersedes a job its device was just offered; this is why the lifecycle is checked with
  one worker.
- An unbound toy keeps its `user_id` (`service.py:516`) and the trigger looks only at that, so
  a former owner can request an upgrade.
- A late or repeated `succeeded` closes a later job (`ota.py:244`;
  `docs/product-design/ota-prd.md:236`). A check without headers closes a job on the stored version
  (`ota.py:132`), and a version that does not parse counts as on target (`ota.py:134`).
- A `rolled_back` report does not update the recorded version (against `ota-tech-design.md:113`).

*Provisioning and certificates*

- A bound toy can change hands: two accounts bind the same unbound toy,
  both read "unbound", and the second commit overwrites the owner (`iot.py:500`; only the insert of a new toy has an index behind it, `iot.py:509-511`).
- An overlapping unbind leaves a session bound whose user holds no toy (`service.py:369`);
  overlapping creations exceed the cap of sessions (`service.py:117`); `set_active_device`
  accepts an unbound toy, and then the user's next first bind is refused by the index (`service.py:396`).
- The watchdog of the pong may announce a time-out after a later verify succeeded.
- `verify_connectivity` does not look at the status of a session: one that is bound or cancelled becomes verifying, and then
  verified or failed (`service.py:141-198`), and `issue_mqtt_credentials` answers it again (`service.py:65-84`). A device that has
  been unbound is then answered with the cached certificate that unbinding has deactivated; `AnswersWork` leaves
  this answer out and holds of every other.
- A cached certificate of an earlier session may have been deactivated by a later one; of two overlapping
  requests one can deactivate what the other answers with; a request that fails after the
  clean-up leaves the toy without a working certificate; created certificates that were never attached stay
  active; a commit that fails after caching leaves an arn no row ever records.

*Volume, sockets, starts*

- `_remember_volume` ignores the time of an event, so an older one may overwrite a newer level, and
  concurrent webhooks may leave the App with an older level than the one remembered.
- The end of a dropped voice connection pops the registration of the session that replaced it
  (`voice/server.py:158-162`); a start given to a session that is closing is lost, though the App is told it plays
  (`ws/router.py:139-146`). So is one whose text cannot be said: `inject_text` returns without a word when there is no TTS, the
  synthesis fails or has no frames, and stops midway for a new turn (`tts_bridge.py:771-813`), after the App was told.
  `StartsPlayed` counts these as what has become of the start. A start given to a connected toy only speaks the prompt and starts no game
  (`session.py:329-333`); after thirty seconds the App is told AGENT_UNAVAILABLE while the start goes on; of an
  empty opening the App is told nothing.
- The listener is not restarted when its task was cancelled; what is published while it is not subscribed is lost.

*Roast game*

- The actor may not be told of the closing. A close of the director that comes with an injected hint stores only the hint
  (`roast/base.py:287`), and so does a knock-out with a hint, which overwrites the closing prompt the debate has just
  written (`debate_bicker.py:231`, `roast/base.py:297-299`). A knock-out without a hint goes on to the code triggers, where `user_won`
  and `user_repeat` overwrite that prompt (`roast/base.py:304-316`, `debate_bicker.py:244-282`). The game is CLOSING all the
  same. `CalmStep` leaves these rounds out, so `CalmAnnounced` speaks of the others.
- The limit of rounds can be passed: a director's hint returns before the code triggers (`roast/base.py:297-300`). In a debate,
  `user_won` is listed before `ending_max_turns`, stays true once it is (`debate_bicker.py:244-249`) and does not affect the phase, so
  from then on the limit is never looked at, even with a silent director. `GameOver` has the premise that neither goes on
  (`LimitHidden`); it claims nothing of a game in which one does.
- A tick that overlaps the next round may bring ACTIVE back after CLOSING, or lose a round's count.
- `consume` loses a prompt written between its get and its delete
  (`pending.py:19`). `close_roast` loads again and may close a newer game (`agent.py:440`).

*Agent and interrupts*

- `PigAgent` does not pass `max_steps` to the loop (`agent.py:86`; `core/agent/README.md:70`). A reply interrupted
  before its next step appends the text before it once more as a partial message. An error in
  a stream leaves `last_messages` as they were.
- Clean-up by key removes the event of another run, the automatic one also those of runs still going;
  a cancelled caller leaves the guarded work running (`interrupt.py:637-644`).
- "Not changed" after a time-out may be false: the write may land late. A later command that fails at the device has already
  superseded the user's deferred mute, so neither lands (`volume.py:188-201`). A flush that fails at
  the end of the session puts its writes back for nobody.

*Context*

- Two managers of a user at once number alike, and Postgres drops one of two turns (`schema.py:26`).
- Two compressions of a user may run at once: `assemble` asks its own memory whether one runs (`manager.py:252`), the compressor
  tells a memory of its own (`compressor.py:93`), against "`compressing` lock ... prevents concurrent compression for the same user"
  (`compression/README.md:52`). If the older ends last, its summary overwrites the newer in Redis and the anchor moves back
  behind turns Redis has dropped (against "after compression, anchor moves forward", `context/README.md:180`): with `JobCount` 2 TLC
  finds `FreeChatKept` violated.
- A session that outgrows the window (150 turns) forgets. The compressor leaves its summary in the stores and in a memory of its own
  (`compressor.py:50`), not in the manager's, whose turns stay; so the next compression of the same session is made
  from the last window of them, with the old summary, and its anchor passes turns neither compression was shown (against
  "Only new turns since last anchor are passed" and "The existing summary carries all prior history",
  `compression/README.md:53, 99`, and "turns <= anchor are in summary", `context/README.md:176`). With
  `MemoryTurns` 3 over a window of 2 TLC finds `FreeChatKept` violated within seconds.
- Turns are pushed by tasks nobody awaits (`manager.py:126`): they may land out of order, and a restart loses those under way
  while later ones were stored. `Calm` leaves both out.
- A failed model call still moves the anchor
  past the turns it should have summarised (against `README.md:185` of the context). Game turns may be anchored untold
  (`compressor.py:220`).
- When Redis has expired and Postgres has a summary but no turn behind it, Redis is not warmed
  up again (`manager.py:172-195`). Recovery takes the oldest window after the anchor; a load that was
  slow overwrites turns added meanwhile. The text of a game is dropped on the way back to free chat (`context/README.md:162`).

*Voice*

- A reply killed before a sound, by a stop without words or an injection whose synthesis fails, leaves the toy paused
  (`tts_bridge.py:551`, `agent_gateway.py:131`); killed in its tail it leaves
  `client_is_speaking` set. A task cancelled before its first step loses the user's words, and its row is
  finalized only by the sweep. Rows and playback times mix when a wake acknowledgement and a user's turn interleave.
- The end of the session marks an unfinished row with an empty text. A reply that outlives it tells words twice or
  not at all.
- `listen/start` in the middle of a turn makes its stop look blank. A failed connect leaves the session deaf,
  a Deepgram stream that dies is not reopened. The detector the server builds
  (`providers/vad/onnx.py`, `server.py:59`) never records flags, so `voice_segments` is always empty (against
  `vad_bridge.py:8`); the cutting of flags (`turn_storage_observer.py:607-618`), `voice/segments.py` and
  `providers/vad/silero.py`, which nothing constructs, are not modelled.
- An acknowledgement of playback without a `sentence_id` is taken for the current turn whatever it is of
  (`turn_storage_observer.py:575-597`). An injected line is sent without one (`tts_bridge.py:803`), so the playback time in a row may be that of
  a line spoken meanwhile; a device that never names one may put the time of any reply into any row. `RowsAreOwn`
  allows the first and leaves the second out (`bare`).
- The history loaded for the recognizer overwrites a reply pushed while it was loading (`stt_bridge.py:113-124`, against
  "Prefers the in-session context", `stt_bridge.py:109`), until the next reply is pushed. `DecoderInStep` leaves that reply out.
- A reply interrupted before its time stamps arrive is recorded as a whole, against "the full text must never be
  recorded as spoken" (`tts_bridge.py:430-434`): the synthesized part of what was fed is the measure then, and
  its text may be longer than what has been rendered. Where 99 in a hundred of the samples were sent the text is recorded whole
  (`tts_bridge.py:696-698`), and else a share of its characters, which need not be the words of that share of the audio; so
  `ReplyAsHeard` compares shares for a reply synthesized as a whole, up to those 99 in a hundred, and claims nothing of a stream without time
  stamps (against "never over-records", `tts_bridge.py:453-456`). The REST fallback drops a trailing partial frame.

## 9. What is not modelled

- *Authentication:* independent requests of a few Redis and Postgres commands. One hazard is known (two refreshes with
  one token, `auth/service.py:100`) and listed without a property.
- *Rooms, roast results, leaderboard, news, push tokens, agent proxy:* single statements or forwarded requests; no
  state a second actor decides on. The settlement of a roast is seen from the agent's side (`cards`).
- *Vendor APIs* (language, speech, search), *prompts, metrics, configuration, start-up*: translation of requests, text,
  wiring, telemetry.
- *Crawler, migrations, scripts, deployment:* code that runs alone. The unique indexes and the two replicas they
  set up are assumptions of the models.
- In the modelled parts: texts, payload formats, URLs, audio samples and encodings, progress percentages, notifications
  that carry no decision, the watchdog of the pong (it only tells the App), renaming of
  devices, scores and cards of a game, the pruning of interim transcripts, and the lock order behind a Postgres
  deadlock (its effect is `Abort`).
