----------------------------- MODULE VoiceTurns -----------------------------
(***************************************************************************)
(* The turns of one voice session (pigagent/voice/pipecat).  The observer  *)
(* opens a storage row for every turn and leaves it in a slot; the gateway *)
(* dispatches the turn, or answers a bare wake word from a timer's task;   *)
(* the TTS bridge runs one reply task per turn, which takes the row from   *)
(* the slot, speaks, and decides what becomes of the user's words; a roast *)
(* may inject a line from the task of the inject queue; the row is         *)
(* committed by a waiter, a sweep or the end of the session.               *)
(*                                                                         *)
(* Turns are numbers, a text is the set of the turns whose words it has.   *)
(* Each processor takes its frames one at a time and in order, which is    *)
(* how the code uses pipecat.  "device" is what the wire has told the      *)
(* device: whose audio it plays, and whether turn/start paused its idle    *)
(* timer.  Audio buffers, telemetry and idle windows are left out.         *)
(***************************************************************************)
EXTENDS Integers, Sequences, FiniteSets

CONSTANTS
  TurnCount,   \* bounds the turns
  InjectCount, \* bounds the injected lines
  WakeCount,   \* bounds the wake words
  MaxSid,      \* bounds the aborts of the device: none beyond this sentence_id
  QueueCap,    \* bounds the frames in front of the bridge
  FlushAt,     \* the turns whose words make up _PENDING_TEXT_FLUSH_CHARS
  FaultSets    \* which of the things named below may happen together

(* "wake":   a wake word is detected                                       *)
(* "inject": a line is injected                                            *)
(* "blank":  a user turn stops without a transcript                        *)
(* "stop":   the device's stop button                                      *)
(* "lag":    the user goes on before the bridge has seen the last frame    *)
(* "eager":  a frame reaches the bridge before a new reply task has run    *)
(* "agent":  there is no PigAgent yet, and it may fail to come up          *)
(* "drop":   the connection ends while something is still going on         *)
(* "bare":   the device names no sentence_id in its tts_played messages    *)
Faults == {"wake", "inject", "blank", "stop", "lag", "eager", "agent", "drop", "bare"}

ASSUME BoundsAssumption ==
  /\ TurnCount \in Nat \ {0}
  /\ {InjectCount, WakeCount, MaxSid, QueueCap, FlushAt} \subseteq Nat
ASSUME FaultAssumption == FaultSets \subseteq SUBSET Faults

VARIABLES
  faults,    \* the faults of this behaviour, a member of FaultSets
  next,      \* the next turn
  user,      \* talking; turn_type as wake; what the gateway captured of it; wake words yet to come
  ack,       \* the wake ack timer is armed
  gate,      \* turns with a row that the gateway is dispatching
  slot,      \* state.turn_storage, 0 for None
  open,      \* the observer's _open_storage, 0 for None
  rows,      \* the TurnStorage of each turn
  queue,     \* frames in front of the bridge
  frame,     \* the frame the bridge handles while it awaits a reply it killed
  reply,     \* the _run_tts task
  pig,       \* there is a PigAgent
  event,     \* state.interrupt_event
  speaking,  \* state.client_is_speaking
  sid,       \* state.sentence_id
  cursid,    \* state.current_sentence_id
  played,    \* whose device_playback_ms is in the state: a turn, Inject, or 0
  acks,      \* tts_played messages on their way: <<sentence_id or NoSid, turn or Inject>>
  pending,   \* state.pending_user_text
  told,      \* how many user records of the conversation have the words of a turn
  prefixed,  \* how many turns got the wake word put before their text
  inject,    \* the inject_text call, and the lines yet to come
  device,    \* see above
  life       \* of the session: on, closing, final, over

userVars  == <<faults, next, user, ack, gate, prefixed>>
rowVars   == <<slot, open, rows>>
stateVars == <<event, speaking, sid, cursid, played, acks>>
wordVars  == <<pending, told>>
vars == <<userVars, rowVars, queue, frame, reply, pig, stateVars, wordVars, inject, device, life>>

-----------------------------------------------------------------------------
Turns  == 1..TurnCount
Inject == TurnCount + 1
NoSid  == 0

NoRow   == [st |-> "none", text |-> 0, final |-> FALSE, late |-> FALSE, played |-> 0]
NoFrame == [kind |-> "none", t |-> 0, spoke |-> FALSE]
NoReply == [t |-> 0, phase |-> "none", cancelled |-> FALSE, prior |-> {}, row |-> 0, sid |-> 0]
Silent  == [playing |-> 0, paused |-> FALSE]

Landed == {"stored", "lost"}

Init ==
  /\ faults \in FaultSets
  /\ next = 1
  /\ user = [talking |-> FALSE, wake |-> FALSE, captured |-> FALSE, words |-> WakeCount]
  /\ ack = FALSE /\ gate = {}
  /\ slot = 0 /\ open = 0 /\ rows = [t \in Turns |-> NoRow]
  /\ queue = <<>> /\ frame = NoFrame /\ reply = NoReply
  /\ pig = ("agent" \notin faults)
  /\ event = FALSE /\ speaking = FALSE /\ sid = 0 /\ cursid = 0 /\ played = 0 /\ acks = {}
  /\ pending = {} /\ told = [t \in Turns |-> 0] /\ prefixed = 0
  /\ inject = [phase |-> "none", spoke |-> FALSE, on |-> 0, sid |-> 0, left |-> InjectCount]
  /\ device = Silent /\ life = "on"

-----------------------------------------------------------------------------
(* The user and the observer.  A row is opened before the turn is          *)
(* dispatched; whoever opens it first sweeps the row before.               *)

Alive == reply.phase # "none"

KeepsUp == "lag" \in faults \/ (queue = <<>> /\ frame = NoFrame /\ gate = {})

Swept == IF open = 0 THEN rows ELSE [rows EXCEPT ![open].st = "closing"]

(* mutant: a row left in the slot is kept *)
OpenRowIfFree(t) ==
  /\ rows' = [Swept EXCEPT ![t] = [NoRow EXCEPT !.st = "open"]]
  /\ slot' = (IF slot = 0 THEN t ELSE slot) /\ open' = t
  /\ next' = t + 1 /\ gate' = gate \cup {t}

OpenRow(t) ==
  /\ rows' = [Swept EXCEPT ![t] = [NoRow EXCEPT !.st = "open"]]
  /\ slot' = t /\ open' = t
  /\ next' = t + 1 /\ gate' = gate \cup {t}

(* UserStartedSpeakingFrame: the turn processor broadcasts an interruption. *)
UserStarts ==
  /\ life = "on" /\ ~user.talking /\ KeepsUp /\ next <= TurnCount /\ Len(queue) < QueueCap
  /\ user' = [user EXCEPT !.talking = TRUE, !.captured = user.wake]
  /\ ack' = FALSE
  /\ queue' = Append(queue, [kind |-> "interrupt", t |-> 0])
  /\ UNCHANGED <<faults, next, gate, prefixed, rowVars, frame, reply, pig, stateVars,
                 wordVars, inject, device, life>>

UserStops ==
  /\ life = "on" /\ user.talking /\ KeepsUp /\ next <= TurnCount
  /\ OpenRow(next)
  /\ user' = [user EXCEPT !.talking = FALSE, !.wake = FALSE, !.captured = FALSE]
  /\ prefixed' = IF user.captured THEN prefixed + 1 ELSE prefixed
  /\ ack' = FALSE /\ played' = 0 /\ cursid' = 0
  /\ UNCHANGED <<faults, queue, frame, reply, pig, event, speaking, sid, acks, wordVars,
                 inject, device, life>>

(* A stop without a transcript sweeps, but opens nothing: the wake turn, if *)
(* this was to be one, goes on.                                             *)
UserStopsBlank ==
  /\ "blank" \in faults /\ life = "on" /\ user.talking /\ KeepsUp
  /\ rows' = Swept /\ open' = 0
  /\ user' = [user EXCEPT !.talking = FALSE, !.captured = FALSE]
  /\ ack' = FALSE
  /\ UNCHANGED <<faults, next, gate, prefixed, slot, queue, frame, reply, pig, stateVars,
                 wordVars, inject, device, life>>

(* listen/detect: the voice bridge classifies the coming turn, the gateway *)
(* arms the timer that answers the wake word if the user says no more.     *)
WakeWord ==
  /\ "wake" \in faults /\ life = "on" /\ user.words > 0
  /\ user' = [user EXCEPT !.wake = TRUE, !.words = @ - 1]
  /\ ack' = TRUE
  /\ UNCHANGED <<faults, next, gate, prefixed, rowVars, queue, frame, reply, pig, stateVars,
                 wordVars, inject, device, life>>

(* The timer: from here the ack is a turn of its own, and not cancelled.   *)
AckFires ==
  /\ ack /\ life = "on" /\ next <= TurnCount
  /\ OpenRow(next)
  /\ user' = [user EXCEPT !.wake = FALSE]
  /\ prefixed' = prefixed + 1
  /\ ack' = FALSE
  /\ UNCHANGED <<faults, queue, frame, reply, pig, stateVars, wordVars, inject, device, life>>

(* turn/start and the turn, after the awaits of _dispatch_turn.            *)
Dispatch(t) ==
  /\ t \in gate
  /\ gate' = gate \ {t}
  /\ queue' = Append(queue, [kind |-> "turn", t |-> t])
  /\ UNCHANGED <<faults, next, user, ack, prefixed, rowVars, frame, reply, pig, stateVars,
                 wordVars, inject, device, life>>

DeviceStops ==
  /\ "stop" \in faults /\ life = "on" /\ sid < MaxSid /\ Len(queue) < QueueCap
  /\ \A i \in DOMAIN queue : queue[i].kind # "abort"
  /\ queue' = Append(queue, [kind |-> "abort", t |-> 0])
  /\ UNCHANGED <<userVars, rowVars, frame, reply, pig, stateVars, wordVars, inject, device, life>>

(* A tts_played counts for the sentence that is playing; one that names no *)
(* sentence counts whatever is playing.                                    *)
DevicePlayed(a) ==
  /\ a \in acks /\ life = "on"
  /\ acks' = acks \ {a}
  /\ played' = IF a[1] \in {NoSid, cursid} THEN a[2] ELSE played
  /\ UNCHANGED <<userVars, rowVars, queue, frame, reply, pig, event, speaking, sid, cursid,
                 wordVars, inject, device, life>>

-----------------------------------------------------------------------------
(* The bridge takes a frame: it kills the reply in flight, waits for it to *)
(* end, and then does what the frame asks for.                             *)

NewReply(t) ==
  /\ event' = FALSE /\ sid' = sid + 1
  /\ reply' = [NoReply EXCEPT !.t = t, !.phase = "new", !.sid = sid + 1]

(* Both wait for the same end of the task that Alive speaks of.            *)
Kill(f) ==
  /\ event' = TRUE
  /\ reply' = [reply EXCEPT !.cancelled = TRUE]
  /\ frame' = [kind |-> f.kind, t |-> f.t, spoke |-> speaking]

MayKill == "eager" \in faults \/ reply.phase \notin {"new", "agent"}

Take(kind) ==
  /\ frame = NoFrame /\ queue # <<>> /\ Head(queue).kind = kind /\ MayKill
  /\ queue' = Tail(queue)

Aborted(spoke) ==
  /\ device' = IF spoke THEN Silent ELSE device
  /\ speaking' = FALSE /\ cursid' = 0

DeviceAborted ==
  /\ device' = Silent
  /\ speaking' = FALSE /\ cursid' = 0 /\ event' = FALSE

(* _begin_turn; turn/start has just gone through the bridge to the device. *)
HandleTurn ==
  /\ Take("turn")
  /\ device' = [device EXCEPT !.paused = TRUE]
  /\ \/ Alive /\ Kill(Head(queue)) /\ UNCHANGED sid
     \/ ~Alive /\ NewReply(Head(queue).t) /\ UNCHANGED frame
  /\ UNCHANGED <<userVars, rowVars, pig, speaking, cursid, played, acks, wordVars, inject, life>>

(* mutant: the device is not flushed when the interruption was missed *)
TurnResumesNoFlush ==
  /\ frame.kind = "turn" /\ ~Alive
  /\ NewReply(frame.t)
  /\ frame' = NoFrame
  /\ UNCHANGED <<userVars, rowVars, queue, pig, speaking, cursid, played, acks, wordVars,
                 inject, device, life>>

TurnResumes ==
  /\ frame.kind = "turn" /\ ~Alive
  /\ device' = IF frame.spoke THEN Silent ELSE device
  /\ NewReply(frame.t)
  /\ frame' = NoFrame
  /\ UNCHANGED <<userVars, rowVars, queue, pig, speaking, cursid, played, acks, wordVars,
                 inject, life>>

(* _abort *)
HandleInterrupt ==
  /\ Take("interrupt")
  /\ \/ Alive /\ Kill(Head(queue)) /\ UNCHANGED <<device, speaking, cursid>>
     \/ ~Alive /\ Aborted(speaking) /\ UNCHANGED <<event, reply, frame>>
  /\ UNCHANGED <<userVars, rowVars, pig, sid, played, acks, wordVars, inject, life>>

InterruptResumes ==
  /\ frame.kind = "interrupt" /\ ~Alive
  /\ Aborted(frame.spoke)
  /\ frame' = NoFrame
  /\ UNCHANGED <<userVars, rowVars, queue, reply, pig, event, sid, played, acks, wordVars,
                 inject, life>>

(* _handle_device_abort *)
HandleDeviceAbort ==
  /\ Take("abort")
  /\ sid' = sid + 1
  /\ \/ Alive /\ Kill(Head(queue)) /\ UNCHANGED <<device, speaking, cursid>>
     \/ ~Alive /\ DeviceAborted /\ UNCHANGED <<reply, frame>>
  /\ UNCHANGED <<userVars, rowVars, pig, played, acks, wordVars, inject, life>>

DeviceAbortResumes ==
  /\ frame.kind = "abort" /\ ~Alive
  /\ DeviceAborted
  /\ frame' = NoFrame
  /\ UNCHANGED <<userVars, rowVars, queue, reply, pig, sid, played, acks, wordVars, inject, life>>

-----------------------------------------------------------------------------
(* The reply task.  A row that was committed has been written down: marks  *)
(* that come later change nothing any more.                                *)

Marked(rs, r, mark) ==
  IF r = 0 \/ rs[r].st \in Landed THEN rs ELSE [rs EXCEPT ![r] = mark]

Heard(rs, r, t) == IF r = 0 THEN rs ELSE Marked(rs, r, [rs[r] EXCEPT !.text = t])

Finalized(rs, r) ==
  IF r = 0 THEN rs ELSE Marked(rs, r, [rs[r] EXCEPT !.final = TRUE, !.played = played])

(* The words are written with the first reply that is heard, or kept.      *)
Write(ts) ==
  /\ told' = [t \in Turns |-> IF t \in ts THEN told[t] + 1 ELSE told[t]]
  /\ pending' = {}

(* mutant: the words carried over are forgotten *)
SettleOwnWords ==
  LET ts == {reply.t} IN
  IF reply.phase = "play" THEN Write(ts) ELSE pending' = ts /\ UNCHANGED told

Settle ==
  LET ts == reply.prior \cup {reply.t} IN
  IF reply.phase = "play" \/ Cardinality(ts) >= FlushAt
    THEN Write(ts)
    ELSE pending' = ts /\ UNCHANGED told

ReplyRuns ==
  /\ reply.phase = "new" /\ ~reply.cancelled
  /\ slot' = 0
  /\ rows' = IF pig THEN Heard(rows, slot, reply.t) ELSE rows
  /\ reply' = IF pig THEN [reply EXCEPT !.row = slot, !.phase = "gen", !.prior = pending]
              ELSE [reply EXCEPT !.row = slot, !.phase = "agent"]
  /\ UNCHANGED <<userVars, open, queue, frame, pig, stateVars, wordVars, inject, device, life>>

AgentReady ==
  /\ reply.phase = "agent" /\ ~reply.cancelled
  /\ pig' = TRUE
  /\ rows' = Heard(rows, reply.row, reply.t)
  /\ reply' = [reply EXCEPT !.phase = "gen", !.prior = pending]
  /\ UNCHANGED <<userVars, slot, open, queue, frame, stateVars, wordVars, inject, device, life>>

(* "no PigAgent - dropping turn" *)
AgentFails ==
  /\ reply.phase = "agent" /\ ~reply.cancelled
  /\ rows' = Finalized(Heard(rows, reply.row, reply.t), reply.row)
  /\ device' = Silent
  /\ reply' = NoReply
  /\ UNCHANGED <<userVars, slot, open, queue, frame, pig, stateVars, wordVars, inject, life>>

(* A task that is cancelled before its try block has no finally to run.    *)
ReplyDies ==
  /\ reply.phase \in {"new", "agent"} /\ reply.cancelled
  /\ reply' = NoReply
  /\ UNCHANGED <<userVars, rowVars, queue, frame, pig, stateVars, wordVars, inject, device, life>>

NamedSid == IF "bare" \in faults THEN NoSid ELSE reply.sid

(* mutant: client_is_speaking is not set *)
ReplySpeaksUnmarked ==
  /\ reply.phase = "gen" /\ ~reply.cancelled /\ ~event
  /\ reply' = [reply EXCEPT !.phase = "play"]
  /\ device' = [device EXCEPT !.playing = reply.t]
  /\ cursid' = reply.sid
  /\ acks' = acks \cup {<<NamedSid, reply.t>>}
  /\ UNCHANGED <<userVars, rowVars, queue, frame, pig, event, speaking, sid, played, wordVars,
                 inject, life>>

(* _send_start *)
ReplySpeaks ==
  /\ reply.phase = "gen" /\ ~reply.cancelled /\ ~event
  /\ reply' = [reply EXCEPT !.phase = "play"]
  /\ device' = [device EXCEPT !.playing = reply.t]
  /\ speaking' = TRUE /\ cursid' = reply.sid
  /\ acks' = acks \cup {<<NamedSid, reply.t>>}
  /\ UNCHANGED <<userVars, rowVars, queue, frame, pig, event, sid, played, wordVars, inject, life>>

(* The stream is over, with or without a word spoken, and what was sent    *)
(* has played: tts/stop, the row, the words; then the STT context.         *)
ReplyEnds ==
  /\ reply.phase \in {"gen", "play"} /\ ~reply.cancelled
  /\ device' = Silent
  /\ rows' = Finalized(rows, reply.row)
  /\ Settle
  /\ reply' = [reply EXCEPT !.phase = "tail"]
  /\ UNCHANGED <<userVars, slot, open, queue, frame, pig, stateVars, inject, life>>

ReplyKilled ==
  /\ reply.phase \in {"gen", "play"} /\ reply.cancelled
  /\ rows' = Finalized(rows, reply.row)
  /\ Settle
  /\ speaking' = FALSE
  /\ reply' = NoReply
  /\ UNCHANGED <<userVars, slot, open, queue, frame, pig, event, sid, cursid, played, acks,
                 inject, device, life>>

(* Killed while it waits for the STT, the task leaves client_is_speaking.  *)
ReplyTail ==
  /\ reply.phase = "tail"
  /\ speaking' = (speaking /\ reply.cancelled)
  /\ reply' = NoReply
  /\ UNCHANGED <<userVars, rowVars, queue, frame, pig, event, sid, cursid, played, acks,
                 wordVars, inject, device, life>>

-----------------------------------------------------------------------------
(* inject_text, in the task of the inject queue.                           *)

(* It clears the event, flushes the device, and goes on to synthesize.     *)
Inject1(spoke) ==
  /\ event' = FALSE
  /\ device' = IF spoke THEN Silent ELSE device
  /\ inject' = [inject EXCEPT !.phase = "synth", !.spoke = spoke, !.sid = sid,
                              !.left = IF inject.phase = "none" THEN @ - 1 ELSE @]

InjectBegins ==
  /\ "inject" \in faults /\ life # "over" /\ inject.phase = "none" /\ inject.left > 0 /\ MayKill
  /\ \/ /\ Alive
        /\ event' = TRUE
        /\ reply' = [reply EXCEPT !.cancelled = TRUE]
        /\ inject' = [inject EXCEPT !.phase = "kill", !.spoke = speaking, !.on = reply.t,
                                    !.left = @ - 1]
        /\ UNCHANGED device
     \/ ~Alive /\ Inject1(speaking) /\ UNCHANGED reply
  /\ UNCHANGED <<userVars, rowVars, queue, frame, pig, speaking, sid, cursid, played, acks,
                 wordVars, life>>

(* The reply it waited for is gone; the next one may be there already.     *)
InjectResumes ==
  /\ inject.phase = "kill" /\ (~Alive \/ reply.t # inject.on)
  /\ Inject1(inject.spoke)
  /\ UNCHANGED <<userVars, rowVars, queue, frame, reply, pig, speaking, sid, cursid, played,
                 acks, wordVars, life>>

(* Its tts/start has no sentence_id for the device to name.                *)
InjectSpeaks ==
  /\ inject.phase = "synth"
  /\ \/ /\ inject' = [inject EXCEPT !.phase = "play"]
        /\ device' = [device EXCEPT !.playing = Inject]
        /\ speaking' = TRUE
        /\ acks' = acks \cup {<<NoSid, Inject>>}
     \/ inject' = [inject EXCEPT !.phase = "none"] /\ UNCHANGED <<device, speaking, acks>>
  /\ UNCHANGED <<userVars, rowVars, queue, frame, reply, pig, event, sid, cursid, played,
                 wordVars, life>>

InjectEnds ==
  /\ inject.phase = "play"
  /\ device' = IF sid = inject.sid /\ ~event THEN Silent ELSE device
  /\ speaking' = FALSE
  /\ inject' = [inject EXCEPT !.phase = "none"]
  /\ UNCHANGED <<userVars, rowVars, queue, frame, reply, pig, event, sid, cursid, played, acks,
                 wordVars, life>>

-----------------------------------------------------------------------------
(* Rows land in S3 and ClickHouse, or are lost when one of them fails.     *)

Land(t, row) == \E s \in Landed : rows' = [rows EXCEPT ![t] = [row EXCEPT !.st = s]]

(* _commit_on_finalize backs off from a row that was detached.             *)
CommitOnFinalize(t) ==
  /\ rows[t].st = "open" /\ rows[t].final /\ open = t
  /\ Land(t, rows[t])
  /\ open' = 0
  /\ UNCHANGED <<userVars, slot, queue, frame, reply, pig, stateVars, wordVars, inject, device, life>>

(* _close_storage waits for the reply for at most five seconds.            *)
CloseRow(t) ==
  /\ rows[t].st = "closing"
  /\ Land(t, [rows[t] EXCEPT !.late = ~rows[t].final, !.final = TRUE])
  /\ UNCHANGED <<userVars, slot, open, queue, frame, reply, pig, stateVars, wordVars, inject,
                 device, life>>

-----------------------------------------------------------------------------
(* The end of the session: the read loop ends, the worker works off its    *)
(* frames; the row still open gets five seconds, and then the words kept   *)
(* for a next turn are written.  A reply task may outlive all that.        *)

Quiet == ~Alive /\ queue = <<>> /\ frame = NoFrame /\ gate = {} /\ inject.phase = "none"
         /\ ~ack /\ ~user.talking

Disconnect ==
  /\ life = "on" /\ ("drop" \in faults \/ Quiet)
  /\ life' = "closing" /\ ack' = FALSE
  /\ \E c \in {reply.cancelled, Alive} : reply' = [reply EXCEPT !.cancelled = c]
  /\ UNCHANGED <<faults, next, user, gate, prefixed, rowVars, queue, frame, pig, stateVars,
                 wordVars, inject, device>>

(* mutant: the row still open is let go *)
FinalizeSessionDrops ==
  /\ life = "closing" /\ gate = {} /\ queue = <<>> /\ frame = NoFrame
  /\ life' = "final" /\ open' = 0
  /\ UNCHANGED <<userVars, slot, rows, queue, frame, reply, pig, stateVars, wordVars, inject, device>>

FinalizeSession ==
  /\ life = "closing" /\ gate = {} /\ queue = <<>> /\ frame = NoFrame
  /\ life' = "final" /\ open' = 0
  /\ rows' = IF open = 0 THEN rows ELSE [rows EXCEPT ![open].st = "ending"]
  /\ UNCHANGED <<userVars, slot, queue, frame, reply, pig, stateVars, wordVars, inject, device>>

(* A row that was not finalized in time is marked anew, with no text.      *)
EndRow(t) ==
  /\ rows[t].st = "ending"
  /\ Land(t, IF rows[t].final THEN rows[t]
             ELSE [rows[t] EXCEPT !.text = 0, !.late = TRUE, !.final = TRUE])
  /\ UNCHANGED <<userVars, slot, open, queue, frame, reply, pig, stateVars, wordVars, inject,
                 device, life>>

Cleanup ==
  /\ life = "final" /\ \A t \in Turns : rows[t].st # "ending"
  /\ life' = "over"
  /\ inject' = [inject EXCEPT !.phase = "none"]
  /\ Write(pending)
  /\ UNCHANGED <<userVars, rowVars, queue, frame, reply, pig, stateVars, device>>

-----------------------------------------------------------------------------
Frames   == \/ HandleTurn \/ TurnResumes \/ HandleInterrupt \/ InterruptResumes
            \/ HandleDeviceAbort \/ DeviceAbortResumes
Replies  == \/ ReplyRuns \/ AgentReady \/ AgentFails \/ ReplyDies \/ ReplySpeaks
            \/ ReplyEnds \/ ReplyKilled \/ ReplyTail
Injected == InjectResumes \/ InjectSpeaks \/ InjectEnds
Commits  == \E t \in Turns : Dispatch(t) \/ CommitOnFinalize(t) \/ CloseRow(t) \/ EndRow(t)
Ending   == Disconnect \/ FinalizeSession \/ Cleanup

Next ==
  \/ UserStarts \/ UserStops \/ UserStopsBlank \/ WakeWord \/ AckFires
  \/ DeviceStops \/ (\E a \in acks : DevicePlayed(a)) \/ InjectBegins
  \/ Frames \/ Replies \/ Injected \/ Commits \/ Ending

(* Tasks run; the models and the TTS end their streams; a session ends,    *)
(* by the idle close if nothing else.                                      *)
Fairness ==
  /\ WF_vars(Frames) /\ WF_vars(Replies) /\ WF_vars(Injected) /\ WF_vars(Commits)
  /\ WF_vars(Ending) /\ WF_vars(AckFires) /\ WF_vars(UserStops)

Spec     == Init /\ [][Next]_vars
FairSpec == Spec /\ Fairness

-----------------------------------------------------------------------------
(* A frame waits only for a reply it has killed.                           *)
TypeOK ==
  /\ frame # NoFrame /\ Alive => reply.cancelled
  /\ faults \subseteq Faults /\ next \in 1..TurnCount + 1
  /\ user \in [talking : BOOLEAN, wake : BOOLEAN, captured : BOOLEAN, words : 0..WakeCount]
  /\ ack \in BOOLEAN /\ gate \subseteq Turns /\ prefixed \in 0..TurnCount
  /\ slot \in 0..TurnCount /\ open \in 0..TurnCount
  /\ rows \in [Turns -> [st : {"none", "open", "closing", "ending"} \cup Landed,
                         text : 0..TurnCount, final : BOOLEAN, late : BOOLEAN,
                         played : 0..Inject]]
  /\ queue \in Seq([kind : {"turn", "interrupt", "abort"}, t : 0..TurnCount])
  /\ frame \in [kind : {"none", "turn", "interrupt", "abort"}, t : 0..TurnCount, spoke : BOOLEAN]
  /\ reply \in [t : 0..TurnCount, phase : {"none", "new", "agent", "gen", "play", "tail"},
                cancelled : BOOLEAN, prior : SUBSET Turns, row : 0..TurnCount, sid : Nat]
  /\ pig \in BOOLEAN /\ event \in BOOLEAN /\ speaking \in BOOLEAN
  /\ sid \in Nat /\ cursid \in Nat /\ played \in 0..Inject
  /\ acks \subseteq Nat \X (Turns \cup {Inject})
  /\ pending \subseteq Turns /\ told \in [Turns -> Nat]
  /\ inject \in [phase : {"none", "kill", "synth", "play"}, spoke : BOOLEAN,
                 on : 0..TurnCount, sid : Nat, left : 0..InjectCount]
  /\ device \in [playing : 0..Inject, paused : BOOLEAN]
  /\ life \in {"on", "closing", "final", "over"}

Without(fs) == fs \cap faults = {}

(* A stored row tells what was said in its own turn, not in another: the   *)
(* slot is one for all turns, and filled before the turn is dispatched.    *)
RowIsOwn ==
  Without({"wake", "lag"}) =>
    \A t \in Turns : rows[t].st = "stored" /\ ~rows[t].late => rows[t].text = t

(* The playback time in a row is the one of its own reply, however late    *)
(* the device tells of it, or of a line that was injected: the device has  *)
(* no sentence_id to name for that.  A device that never names one may put *)
(* the time of any reply into any row.                                     *)
PlayedIsOwn ==
  Without({"wake", "lag", "bare"}) =>
    \A t \in Turns : rows[t].st = "stored" => rows[t].played \in {0, t, Inject}

(* What is stored of a turn is its own (turn_storage_observer.py, storage. *)
(* py).                                                                    *)
RowsAreOwn == RowIsOwn /\ PlayedIsOwn

(* The words of a turn whose reply is over are written once, or wait for   *)
(* the next turn, or are in the prompt of the reply in flight: kills and   *)
(* handed-on words neither drop nor repeat them.                           *)
Over(t) == /\ t < next /\ t \notin gate /\ reply.t # t /\ frame.t # t
           /\ \A i \in DOMAIN queue : queue[i].t # t

WordsKept ==
  \A t \in Turns :
    /\ Without({"drop"}) => told[t] <= 1 /\ (told[t] = 1 => t \notin pending)
    /\ Without({"drop", "eager", "agent"}) /\ Over(t) => told[t] = 1 \/ t \in pending
    /\ Without({"drop"}) /\ life = "over" => t \notin pending

(* A wake word is put before the text of one turn at most: the ack's, or   *)
(* the user's next.                                                        *)
WakeWordOnce == prefixed <= WakeCount - user.words

(* No words are lost or told twice (tts_bridge.py:489-513, agent_gateway.  *)
(* py:205-296).                                                            *)
WordsOnce == WordsKept /\ WakeWordOnce

(* Whenever the device plays a reply the session knows it, or the next     *)
(* interruption would not flush the device.                                *)
SpeakingKnown ==
  Without({"inject"}) /\ life = "on" /\ device.playing # 0
    => speaking \/ (frame # NoFrame /\ (frame.spoke \/ frame.kind = "abort"))

(* "turn/start is a promise that a reply will eventually be voiced and a   *)
(* tts/stop - abort will release the device's idle pause": nothing is      *)
(* going on any more, and the device is not left paused.                   *)
PauseReleased == life = "on" /\ Quiet => ~device.paused

PauseReleasedUnlessCut == Without({"blank", "inject"}) => PauseReleased

(* What the session believes of the device is so, of a reply that plays    *)
(* and of one that never will (tts_bridge.py:272-276, 533-560, 803-809).   *)
SpeechStateRight == SpeakingKnown /\ PauseReleasedUnlessCut

(* Nothing starts to play over something else.                             *)
NoOverlap ==
  [][Without({"inject"}) /\ life = "on" /\ device'.playing # device.playing
       => device.playing = 0 \/ device'.playing = 0]_vars

(* Every row opened lands in the end, or is lost to S3 and ClickHouse.     *)
RowsLand == \A t \in Turns : rows[t].st # "none" ~> rows[t].st \in Landed
=============================================================================
