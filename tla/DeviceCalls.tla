---------------------------- MODULE DeviceCalls ----------------------------
(***************************************************************************)
(* The volume tool and the calls to the device of one voice session        *)
(* (tools/volume.py, voice/pipecat/mcp_bridge.py).  The device answers on  *)
(* the session's socket; calls are matched to answers by their id, and     *)
(* time out.  A write of zero is deferred: the device has to play the      *)
(* confirmation first, so a flush at the end of the turn, or of the        *)
(* session, dispatches it unless a later command has claimed a newer       *)
(* write_seq.                                                              *)
(*                                                                         *)
(* Commands are numbered as the LLM asks for them; a step of the LLM may   *)
(* run several at once.  The socket is reliable and ordered while it is    *)
(* up.  Levels are small, and so is the step.                              *)
(***************************************************************************)
EXTENDS Integers, Sequences, FiniteSets

CONSTANTS
  MaxVolume,     \* MAX_VOLUME
  UnmuteLevel,   \* UNMUTE_LEVEL
  Orders,        \* the <<action, value>> pairs the LLM may ask for
  CommandCount,  \* bounds the commands
  Together,      \* bounds the commands that run at once
  FlushCount,    \* bounds the flush tasks alive at once
  MaxAttempts    \* MAX_DEFER_ATTEMPTS

ASSUME DeviceAssumption ==
  /\ MaxVolume \in Nat /\ UnmuteLevel \in 1..MaxVolume
  /\ {CommandCount, Together, FlushCount, MaxAttempts} \subseteq Nat \ {0}
  /\ Orders \subseteq {"set", "increase", "decrease", "mute", "unmute"} \X Nat

VARIABLES
  level,     \* the volume of the device
  old,       \* its firmware answers a write without the level
  commands,  \* the handler of each command
  wire,      \* requests on their way to the device
  answers,   \* and answers on their way back
  waiting,   \* _pending: the ids whose caller waits
  nextId,    \* _next_id
  deferred,  \* _deferred: write_seq, attempts left and level of each
  writeSeq,  \* _write_seq
  flushes,   \* the flush tasks
  turn,      \* a reply is going on
  session,   \* on, ending (its last flush runs), over
  gone,      \* the socket is gone
  held,      \* the levels the device has held since each command began
  doubt      \* why the device may not hold what the user was told

deviceVars == <<level, old, commands, wire, answers, waiting, nextId, deferred, writeSeq,
                flushes, turn, session, gone, held, doubt>>

-----------------------------------------------------------------------------
Levels   == 0..MaxVolume
Commands == 1..CommandCount
Flushes  == 1..FlushCount

Unborn == [action |-> "none", value |-> 0, at |-> "none", id |-> 0, target |-> 0, seq |-> 0, told |-> 0]
NoFlush == [at |-> "none", list |-> <<>>, id |-> 0, last |-> FALSE]

Running(c) == commands[c].at \in {"read", "write", "back"}

DeviceInit ==
  /\ level \in {0, UnmuteLevel} /\ old \in BOOLEAN
  /\ commands = [c \in Commands |-> Unborn]
  /\ wire = <<>> /\ answers = <<>> /\ waiting = {} /\ nextId = 1
  /\ deferred = <<>> /\ writeSeq = 0 /\ flushes = [f \in Flushes |-> NoFlush]
  /\ turn = FALSE /\ session = "on" /\ gone = FALSE
  /\ held = [c \in Commands |-> {}] /\ doubt = {}

-----------------------------------------------------------------------------
(* The channel.                                                            *)

(* mutant: the number of the calls waiting *)
NewIdIfCounted == Cardinality(waiting) + 1

NewId == nextId

Call(op, v) ==
  /\ wire' = IF gone THEN wire ELSE Append(wire, [id |-> NewId, op |-> op, v |-> v])
  /\ waiting' = waiting \cup {NewId} /\ nextId' = nextId + 1

(* The device may refuse a write; a read it cannot answer is never answered. *)
DeviceAnswers ==
  /\ wire # <<>>
  /\ LET r == Head(wire)
         Answer(kind, v) == answers' = Append(answers, [id |-> r.id, kind |-> kind, v |-> v])
     IN \/ r.op = "read" /\ Answer("level", level) /\ UNCHANGED <<level, held>>
        \/ /\ r.op = "set" /\ level' = r.v
           /\ held' = [c \in Commands |-> IF Running(c) THEN held[c] \cup {r.v} ELSE held[c]]
           /\ Answer(IF old THEN "bare" ELSE "level", r.v)
        \/ r.op = "set" /\ Answer("error", 0) /\ UNCHANGED <<level, held>>
  /\ wire' = Tail(wire)
  /\ UNCHANGED <<old, commands, waiting, nextId, deferred, writeSeq, flushes, turn, session,
                 gone, doubt>>

Answered(id) == answers # <<>> /\ Head(answers).id = id /\ id \in waiting

Received(id) == answers' = Tail(answers) /\ waiting' = waiting \ {id}

(* The caller of one call goes on to the next: the id of the one is gone   *)
(* when the other is sent.                                                 *)
Calls(id, op, v) ==
  /\ answers' = Tail(answers)
  /\ wire' = Append(wire, [id |-> NewId, op |-> op, v |-> v])
  /\ waiting' = (waiting \ {id}) \cup {NewId} /\ nextId' = nextId + 1

(* An answer whose caller has given up. *)
AnswerDropped ==
  /\ answers # <<>> /\ Head(answers).id \notin waiting
  /\ answers' = Tail(answers)
  /\ UNCHANGED <<level, old, commands, wire, waiting, nextId, deferred, writeSeq, flushes,
                 turn, session, gone, held, doubt>>

-----------------------------------------------------------------------------
(* The handler.                                                            *)

Clamp(v) == IF v > MaxVolume THEN MaxVolume ELSE v

(* Only a command that commits a change, or the intent of one, claims the  *)
(* next generation of writes.                                              *)
NoteWrite == writeSeq' = writeSeq + 1

Fails(c) == commands' = [commands EXCEPT ![c] = [Unborn EXCEPT !.at = "failed"]]

Says(c, l) == commands' = [commands EXCEPT ![c].at = "said", ![c].told = l, ![c].id = 0]

Begin(c, order) ==
  [commands[c] EXCEPT !.action = order[1], !.value = order[2]]

Committed(rec, target, at) ==
  [rec EXCEPT !.at = at, !.target = target, !.seq = writeSeq + 1,
              !.id = IF at = "write" THEN NewId ELSE 0]

CanStart(c) ==
  /\ turn /\ session = "on" /\ commands[c].at = "none"
  /\ \A d \in 1..(c - 1) : commands[d].at # "none"
  /\ Cardinality({d \in Commands : Running(d)}) < Together

(* increase, decrease and unmute ask the device first. *)
StartReading(c, order) ==
  /\ CanStart(c) /\ order[1] \in {"increase", "decrease", "unmute"}
  /\ commands' = [commands EXCEPT ![c] = [Begin(c, order) EXCEPT !.at = "read", !.id = NewId]]
  /\ Call("read", 0)
  /\ held' = [held EXCEPT ![c] = {level}]
  /\ UNCHANGED <<level, old, answers, deferred, writeSeq, flushes, turn, session, gone, doubt>>

StartWriting(c, order) ==
  /\ CanStart(c) /\ order[1] = "set" /\ Clamp(order[2]) # 0
  /\ commands' = [commands EXCEPT ![c] = Committed(Begin(c, order), Clamp(order[2]), "write")]
  /\ Call("set", Clamp(order[2])) /\ NoteWrite
  /\ held' = [held EXCEPT ![c] = {level}]
  /\ UNCHANGED <<level, old, answers, deferred, flushes, turn, session, gone, doubt>>

Defer == deferred' = Append(deferred, [seq |-> writeSeq + 1, left |-> MaxAttempts, v |-> 0])

StartMuting(c, order) ==
  /\ CanStart(c) /\ (order[1] = "mute" \/ (order[1] = "set" /\ order[2] = 0))
  /\ commands' = [commands EXCEPT ![c] = Committed(Begin(c, order), 0, "said")]
  /\ Defer /\ NoteWrite
  /\ UNCHANGED <<level, old, wire, answers, waiting, nextId, flushes, turn, session, gone,
                 held, doubt>>

(* The target of a relative command, from the level the device told.       *)
Target(c, l) ==
  CASE commands[c].action = "increase" -> Clamp(l + commands[c].value)
    [] commands[c].action = "decrease" -> IF l > commands[c].value THEN l - commands[c].value ELSE 0
    [] OTHER -> UnmuteLevel

AtLimit(c, l) ==
  \/ commands[c].action = "increase" /\ l = MaxVolume
  \/ commands[c].action = "decrease" /\ l = 0

ReadSays(c) ==
  commands[c].at = "read" /\ Answered(commands[c].id)

ReadFails(c) ==
  /\ ReadSays(c) /\ AtLimit(c, Head(answers).v)
  /\ Received(commands[c].id) /\ Fails(c)
  /\ UNCHANGED <<level, old, wire, nextId, deferred, writeSeq, flushes, turn, session, gone,
                 held, doubt>>

ReadAudible(c) ==
  /\ ReadSays(c) /\ commands[c].action = "unmute" /\ Head(answers).v > 0
  /\ Received(commands[c].id) /\ NoteWrite
  /\ commands' = [commands EXCEPT ![c] = [Committed(@, Head(answers).v, "said") EXCEPT
                                            !.told = Head(answers).v]]
  /\ UNCHANGED <<level, old, wire, nextId, deferred, flushes, turn, session, gone, held, doubt>>

(* A decrease to the bottom mutes.                                         *)
ReadMutes(c) ==
  /\ ReadSays(c) /\ ~AtLimit(c, Head(answers).v) /\ Target(c, Head(answers).v) = 0
  /\ Received(commands[c].id) /\ Defer /\ NoteWrite
  /\ commands' = [commands EXCEPT ![c] = Committed(@, 0, "said")]
  /\ UNCHANGED <<level, old, wire, nextId, flushes, turn, session, gone, held, doubt>>

ReadWrites(c) ==
  /\ ReadSays(c) /\ ~AtLimit(c, Head(answers).v)
  /\ ~(commands[c].action = "unmute" /\ Head(answers).v > 0)
  /\ Target(c, Head(answers).v) # 0
  /\ Calls(commands[c].id, "set", Target(c, Head(answers).v)) /\ NoteWrite
  /\ commands' = [commands EXCEPT ![c] = Committed(@, Target(c, Head(answers).v), "write")]
  /\ UNCHANGED <<level, old, deferred, flushes, turn, session, gone, held, doubt>>

(* Firmware that answers a write without the level is asked for it.        *)
WriteAnswered(c) ==
  /\ commands[c].at = "write" /\ Answered(commands[c].id)
  /\ \/ /\ Head(answers).kind = "level" /\ Says(c, Head(answers).v)
        /\ Received(commands[c].id) /\ UNCHANGED <<wire, nextId, doubt>>
     \/ /\ Head(answers).kind = "error" /\ Fails(c) /\ doubt' = doubt \cup {"refused"}
        /\ Received(commands[c].id) /\ UNCHANGED <<wire, nextId>>
     \/ /\ Head(answers).kind = "bare" /\ Calls(commands[c].id, "read", 0)
        /\ commands' = [commands EXCEPT ![c].at = "back", ![c].id = NewId] /\ UNCHANGED doubt
  /\ UNCHANGED <<level, old, deferred, writeSeq, flushes, turn, session, gone, held>>

BackAnswered(c) ==
  /\ commands[c].at = "back" /\ Answered(commands[c].id) /\ Received(commands[c].id)
  /\ Says(c, IF Head(answers).kind = "level" THEN Head(answers).v ELSE commands[c].target)
  /\ UNCHANGED <<level, old, wire, nextId, deferred, writeSeq, flushes, turn, session, gone,
                 held, doubt>>

(* mutant: only a write is given up on *)
OverdueIfWrite(c) == commands[c].at = "write"

Overdue(c) == Running(c)

Forget(id) == waiting \ {id}

CallTimesOut(c) ==
  /\ Overdue(c) /\ waiting' = Forget(commands[c].id)
  /\ IF commands[c].at = "back" THEN Says(c, commands[c].target) ELSE Fails(c)
  /\ doubt' = IF commands[c].at = "write" THEN doubt \cup {"lost"} ELSE doubt
  /\ UNCHANGED <<level, old, wire, answers, nextId, deferred, writeSeq, flushes, turn, session,
                 gone, held>>

-----------------------------------------------------------------------------
(* Turns, and the flushes at their end.                                    *)

(* The task of a flush takes its first step long before the user can have  *)
(* spoken again.                                                           *)
StartTurn ==
  /\ session = "on" /\ ~turn /\ (\E c \in Commands : commands[c].at = "none")
  /\ \A f \in Flushes : flushes[f].at # "next"
  /\ turn' = TRUE
  /\ UNCHANGED <<level, old, commands, wire, answers, waiting, nextId, deferred, writeSeq,
                 flushes, session, gone, held, doubt>>

Flush(f, last) ==
  /\ flushes[f].at = "none"
  /\ flushes' = [flushes EXCEPT ![f] = [at |-> "next", list |-> deferred, id |-> 0, last |-> last]]
  /\ deferred' = <<>>

FlushIfDeferred ==
  IF deferred = <<>> THEN UNCHANGED <<deferred, flushes>> ELSE \E f \in Flushes : Flush(f, FALSE)

EndTurn ==
  /\ turn /\ (\A c \in Commands : ~Running(c)) /\ turn' = FALSE
  /\ FlushIfDeferred
  /\ UNCHANGED <<level, old, commands, wire, answers, waiting, nextId, writeSeq, session, gone,
                 held, doubt>>

Kill ==
  /\ commands' = [c \in Commands |-> IF Running(c) THEN [Unborn EXCEPT !.at = "killed"] ELSE commands[c]]
  /\ waiting' = waiting \ {commands[c].id : c \in {d \in Commands : Running(d)}}
  /\ doubt' = IF \E c \in Commands : commands[c].at \in {"write", "back"}
              THEN doubt \cup {"lost"} ELSE doubt

(* A barge-in; a cancel just before the hand-off strands what is deferred. *)
CutTurn ==
  /\ turn /\ turn' = FALSE /\ Kill
  /\ FlushIfDeferred \/ UNCHANGED <<deferred, flushes>>
  /\ UNCHANGED <<level, old, wire, answers, nextId, writeSeq, session, gone, held>>

SocketGoes ==
  /\ ~gone /\ session # "over" /\ gone' = TRUE /\ wire' = <<>> /\ answers' = <<>>
  /\ doubt' = doubt \cup {"lost"}
  /\ UNCHANGED <<level, old, commands, waiting, nextId, deferred, writeSeq, flushes, turn,
                 session, held>>

SessionEnds ==
  /\ session = "on" /\ ~turn /\ session' = "ending"
  /\ \E f \in Flushes : Flush(f, TRUE)
  /\ UNCHANGED <<level, old, commands, wire, answers, waiting, nextId, writeSeq, turn, gone,
                 held, doubt>>

Next1(f) == flushes' = [flushes EXCEPT ![f].at = "next", ![f].list = Tail(@), ![f].id = 0]

(* mutant: a superseded call is dispatched all the same *)
StaleEver(f) == FALSE

Stale(f) == Head(flushes[f].list).seq # writeSeq

FlushSkips(f) ==
  /\ flushes[f].at = "next" /\ flushes[f].list # <<>> /\ Stale(f) /\ Next1(f)
  /\ UNCHANGED <<level, old, commands, wire, answers, waiting, nextId, deferred, writeSeq, turn,
                 session, gone, held, doubt>>

FlushDispatches(f) ==
  /\ flushes[f].at = "next" /\ flushes[f].list # <<>> /\ ~Stale(f)
  /\ Call("set", Head(flushes[f].list).v)
  /\ flushes' = [flushes EXCEPT ![f].at = "write", ![f].id = NewId]
  /\ UNCHANGED <<level, old, commands, answers, deferred, writeSeq, turn, session, gone, held,
                 doubt>>

FlushFails(f) ==
  LET e == Head(flushes[f].list)
  IN /\ Next1(f)
     /\ deferred' = IF ~flushes[f].last /\ e.left > 1
                    THEN Append(deferred, [e EXCEPT !.left = @ - 1]) ELSE deferred
     /\ doubt' = doubt \cup {"lost"}

FlushAnswered(f) ==
  /\ flushes[f].at \in {"write", "back"} /\ Answered(flushes[f].id)
  /\ \/ /\ flushes[f].at = "write" /\ Head(answers).kind = "bare"
        /\ Calls(flushes[f].id, "read", 0)
        /\ flushes' = [flushes EXCEPT ![f].at = "back", ![f].id = NewId]
        /\ UNCHANGED <<deferred, doubt>>
     \/ /\ flushes[f].at = "write" /\ Head(answers).kind = "error" /\ FlushFails(f)
        /\ Received(flushes[f].id) /\ UNCHANGED <<wire, nextId>>
     \/ /\ flushes[f].at = "back" \/ Head(answers).kind = "level"
        /\ Next1(f) /\ Received(flushes[f].id) /\ UNCHANGED <<wire, nextId, deferred, doubt>>
  /\ UNCHANGED <<level, old, commands, writeSeq, turn, session, gone, held>>

(* The last flush bounds the whole call, a write and its read.             *)
FlushTimesOut(f) ==
  /\ flushes[f].at \in {"write", "back"} /\ waiting' = Forget(flushes[f].id)
  /\ IF flushes[f].at = "write" \/ flushes[f].last THEN FlushFails(f)
     ELSE Next1(f) /\ UNCHANGED <<deferred, doubt>>
  /\ UNCHANGED <<level, old, commands, wire, answers, nextId, writeSeq, turn, session, gone, held>>

FlushDone(f) ==
  /\ flushes[f].at = "next" /\ flushes[f].list = <<>>
  /\ flushes' = [flushes EXCEPT ![f] = NoFlush]
  /\ session' = IF flushes[f].last THEN "over" ELSE session
  /\ UNCHANGED <<level, old, commands, wire, answers, waiting, nextId, deferred, writeSeq, turn,
                 gone, held, doubt>>

-----------------------------------------------------------------------------
CommandSteps(c) ==
  \/ ReadFails(c) \/ ReadAudible(c) \/ ReadMutes(c) \/ ReadWrites(c)
  \/ WriteAnswered(c) \/ BackAnswered(c)

FlushSteps(f) == FlushSkips(f) \/ FlushDispatches(f) \/ FlushAnswered(f) \/ FlushDone(f)

DeviceNext ==
  \/ DeviceAnswers \/ AnswerDropped
  \/ \E c \in Commands : CommandSteps(c) \/ CallTimesOut(c)
  \/ \E c \in Commands, o \in Orders : StartReading(c, o) \/ StartWriting(c, o) \/ StartMuting(c, o)
  \/ StartTurn \/ EndTurn \/ CutTurn \/ SocketGoes \/ SessionEnds
  \/ \E f \in Flushes : FlushSteps(f) \/ FlushTimesOut(f)

DeviceFairness ==
  /\ WF_deviceVars(DeviceAnswers) /\ WF_deviceVars(AnswerDropped)
  /\ \A c \in Commands : WF_deviceVars(CommandSteps(c)) /\ WF_deviceVars(CallTimesOut(c))
  /\ \A f \in Flushes : WF_deviceVars(FlushSteps(f)) /\ WF_deviceVars(FlushTimesOut(f))
  /\ WF_deviceVars(EndTurn) /\ SF_deviceVars(SessionEnds)

DeviceSpec == DeviceInit /\ [][DeviceNext]_deviceVars
DeviceFairSpec == DeviceSpec /\ DeviceFairness

-----------------------------------------------------------------------------
(* Properties.                                                             *)

Requests == [id : Nat, op : {"read", "set"}, v : Levels]
Answers  == [id : Nat, kind : {"level", "bare", "error"}, v : Levels]
Entries  == [seq : Nat, left : 1..MaxAttempts, v : Levels]

(* Type invariant.                                                         *)
DeviceTypeOK ==
  /\ level \in Levels /\ old \in BOOLEAN /\ turn \in BOOLEAN /\ gone \in BOOLEAN
  /\ commands \in [Commands -> [action : {"none", "set", "increase", "decrease", "mute", "unmute"},
       value : Nat, at : {"none", "read", "write", "back", "said", "failed", "killed"},
       id : Nat, target : Levels, seq : Nat, told : Levels]]
  /\ wire \in Seq(Requests) /\ answers \in Seq(Answers) /\ deferred \in Seq(Entries)
  /\ waiting \subseteq 1..(nextId - 1) /\ nextId \in Nat \ {0} /\ writeSeq \in Nat
  /\ flushes \in [Flushes -> [at : {"none", "next", "write", "back"}, list : Seq(Entries),
                              id : Nat, last : BOOLEAN]]
  /\ session \in {"on", "ending", "over"} /\ held \in [Commands -> SUBSET Levels]
  /\ doubt \subseteq {"refused", "lost"}

(* "It never reports success the device did not confirm" (volume.py:6): a  *)
(* level the user is told, other than a silence yet to come, is one the    *)
(* device has held since the command began, whatever answers came late.    *)
ToldWasHeld ==
  \A c \in Commands : commands[c].at = "said" /\ commands[c].told # 0 => commands[c].told \in held[c]

Settled ==
  /\ ~turn /\ wire = <<>> /\ answers = <<>> /\ (\A c \in Commands : ~Running(c))
  /\ (\A f \in Flushes : flushes[f] = NoFlush) /\ (deferred = <<>> \/ session = "over")

Said == {c \in Commands : commands[c].at = "said"}

LastSaid == CHOOSE c \in Said : \A d \in Said : commands[d].seq <= commands[c].seq

(* An unmute promises that there is something to hear, the others a level. *)
Kept(c) == IF commands[c].action = "unmute" THEN level > 0 ELSE level = commands[c].told

(* Once everything has settled the device holds what the last committed    *)
(* command promised: a deferred silence lands, unless a later command      *)
(* superseded it, and never undoes that one (mcp_bridge.py:138-159).       *)
LastWordWins ==
  Settled /\ doubt = {} /\ Said # {} => Kept(LastSaid)

(* A deferred write does not stay behind a command that waits for a silent *)
(* device: it is handed out at the end of its turn, a later turn, or, at   *)
(* the latest, the session.                                                *)
DeferredDrains == deferred # <<>> ~> (deferred = <<>> \/ session = "over")
=============================================================================
