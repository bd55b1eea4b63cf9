----------------------------- MODULE VolumeSync -----------------------------
(***************************************************************************)
(* What the API asks of one device (api/modules/device/iot.py, service.py):*)
(* its volume, to set it, whether it is there.  A request is published to  *)
(* the device over MQTT, and Redis is polled for the reply with its        *)
(* request_id; a read of the volume that gets none falls back to the level *)
(* last remembered.  Replies and changes come back *)
(* as webhook calls; their handlers store the reply, remember the level    *)
(* and push it to the App, one await at a time.                            *)
(*                                                                         *)
(* The device (firmware, outside this repository) takes its messages in    *)
(* order, acknowledges a command, with its level or, where the firmware    *)
(* breaks that contract, without, and reports every change.                *)
(***************************************************************************)
EXTENDS Integers, Sequences

CONSTANTS
  MaxLevel,      \* levels are 0..MaxLevel
  AskCount,      \* bounds the requests of the App
  ChangeCount,   \* bounds the changes made at the device
  HandlerCount,  \* bounds the webhook calls under way
  Faults,        \* what may happen: webhook calls that overlap or repeat,
                 \* messages that are lost or overtake each other
  Unknown,       \* no level
  Nothing        \* no reply

ASSUME VolumeAssumption ==
  /\ {MaxLevel, AskCount, ChangeCount, HandlerCount} \subseteq Nat
  /\ Faults \subseteq SUBSET {"overlap", "repeat", "lose", "reorder"} /\ {Unknown, Nothing} \cap Int = {} /\ Unknown # Nothing

VARIABLES
  faults,      \* of this behaviour, a member of Faults
  level,       \* the volume of the device
  past,        \* the levels it has held
  asks,        \* the requests: "get" and "set" the volume, "ping"
  down,        \* c2d: requests on their way to the device
  up,          \* d2c: reports on their way to the webhook
  handlers,    \* webhook calls
  replies,     \* the Redis key of the reply to each request
  remembered,  \* volume_key
  shown,       \* the level pushed last to the App
  changes

volumeVars == <<faults, level, past, asks, down, up, handlers, replies, remembered, shown, changes>>

-----------------------------------------------------------------------------
DeviceLevels == 0..MaxLevel
Asks         == 1..AskCount
Handlers     == 1..HandlerCount

(* ran: the device has executed it; since: the levels held since it began. *)
NoAsk == [op |-> "none", v |-> 0, at |-> "none", got |-> Unknown, ran |-> FALSE, since |-> {}]
NoCall == [at |-> "none", type |-> "none", ask |-> 0, v |-> Unknown]

VolumeInit ==
  /\ faults \in Faults /\ level \in DeviceLevels /\ past = {level}
  /\ asks = [a \in Asks |-> NoAsk] /\ down = <<>> /\ up = <<>>
  /\ handlers = [h \in Handlers |-> NoCall]
  /\ replies = [a \in Asks |-> Nothing] /\ remembered = Unknown /\ shown = Unknown /\ changes = 0

-----------------------------------------------------------------------------
(* The requests.                                                           *)

Ask(a, op, v) ==
  /\ asks[a].at = "none" /\ (\A b \in 1..(a - 1) : asks[b].at # "none")
  /\ asks' = [asks EXCEPT ![a] = [NoAsk EXCEPT !.op = op, !.v = v, !.at = "waits", !.since = {level}]]
  /\ down' = Append(down, a)
  /\ UNCHANGED <<faults, level, past, up, handlers, replies, remembered, shown, changes>>

(* POST /devices/{id}/connectivity-check. *)
CheckConnectivity(a) == Ask(a, "ping", 0)

(* device.online after a reboot: the same ping, the answer of which        *)
(* becomes a push to the user's phone.                                     *)
DeviceOnline(a) == changes = 0 /\ Ask(a, "boot", 0)

ToldApp(a, at, got) == [asks EXCEPT ![a].at = at, ![a].got = got]

(* What a request comes to, given the reply, or Nothing.  A status without *)
(* a level stands for no reply, an acknowledgement without one for the     *)
(* level asked for.                                                        *)
VolumeRead(a, reply) ==
  IF reply \in DeviceLevels THEN ToldApp(a, "fresh", reply) ELSE ToldApp(a, "stale", remembered)

VolumeSet(a, reply) ==
  IF reply = Nothing THEN ToldApp(a, "unreachable", Unknown)
  ELSE ToldApp(a, "fresh", IF reply = Unknown THEN asks[a].v ELSE reply)

Reached(a, reply) == ToldApp(a, IF reply = Nothing THEN "unreachable" ELSE "fresh", Unknown)

Outcome(a, reply) ==
  CASE asks[a].op = "get" -> VolumeRead(a, reply) [] asks[a].op = "set" -> VolumeSet(a, reply)
    [] OTHER -> Reached(a, reply)

(* A poll finds the reply, or the time is over. *)
PingPong(a) ==
  /\ asks[a].at = "waits"
  /\ asks' \in {Outcome(a, replies[a]), Outcome(a, Nothing)}
  /\ UNCHANGED <<faults, level, past, down, up, handlers, replies, remembered, shown, changes>>

-----------------------------------------------------------------------------
(* The device.                                                             *)

Report(type, a, v) == [type |-> type, ask |-> a, v |-> v]

Holds(v) ==
  /\ level' = v /\ past' = past \cup {v}
  /\ asks' = [a \in Asks |-> IF asks[a].at = "waits" THEN [asks[a] EXCEPT !.since = @ \cup {v}]
                             ELSE asks[a]]

DeviceTells(a) ==
  /\ down # <<>> /\ Head(down) = a /\ asks[a].op # "set" /\ down' = Tail(down)
  /\ asks' = [asks EXCEPT ![a].ran = TRUE]
  /\ up' \in IF asks[a].op = "get" THEN {Append(up, Report("status", a, v)) : v \in {level, Unknown}}
             ELSE {Append(up, Report("pong", a, Unknown))}
  /\ UNCHANGED <<faults, level, past, handlers, replies, remembered, shown, changes>>

DeviceObeys(a) ==
  /\ down # <<>> /\ Head(down) = a /\ asks[a].op = "set" /\ down' = Tail(down)
  /\ level' = asks[a].v /\ past' = past \cup {asks[a].v}
  /\ asks' = [b \in Asks |-> [asks[b] EXCEPT !.ran = @ \/ b = a,
                !.since = IF asks[b].at = "waits" THEN @ \cup {asks[a].v} ELSE @]]
  /\ \E v \in {asks[a].v, Unknown} :
       LET ack == Report("ack", a, v)  changed == Report("changed", 0, asks[a].v)
       IN IF asks[a].v = level THEN up' = Append(up, ack)
          ELSE up' \in {up \o <<ack, changed>>, up \o <<changed, ack>>}
  /\ UNCHANGED <<faults, handlers, replies, remembered, shown, changes>>

(* By voice, or at the device. *)
DeviceChanges(v) ==
  /\ changes < ChangeCount /\ v # level /\ Holds(v) /\ changes' = changes + 1
  /\ up' = Append(up, Report("changed", 0, v))
  /\ UNCHANGED <<faults, down, handlers, replies, remembered, shown>>

Lost ==
  /\ "lose" \in faults
  /\ \/ down # <<>> /\ down' = Tail(down) /\ UNCHANGED up
     \/ up # <<>> /\ up' = Tail(up) /\ UNCHANGED down
  /\ UNCHANGED <<faults, level, past, asks, handlers, replies, remembered, shown, changes>>

-----------------------------------------------------------------------------
(* The webhook.                                                            *)

Free == \A h \in Handlers : handlers[h] = NoCall

FirstStep(m) == IF m.type = "changed" THEN "remember" ELSE "store"

Without(seq, i) == SubSeq(seq, 1, i - 1) \o SubSeq(seq, i + 1, Len(seq))

Delivered(h, i) ==
  /\ i \in DOMAIN up /\ (i = 1 \/ "reorder" \in faults)
  /\ handlers[h] = NoCall /\ (Free \/ "overlap" \in faults)
  /\ handlers' = [handlers EXCEPT ![h] = [at |-> FirstStep(up[i]), type |-> up[i].type,
                                          ask |-> up[i].ask, v |-> up[i].v]]
  /\ up' \in {Without(up, i)} \cup (IF "repeat" \in faults THEN {up} ELSE {})
  /\ UNCHANGED <<faults, level, past, asks, down, replies, remembered, shown, changes>>

(* mutant: the reply is stored under the device, not under the request *)
AnyOf(m) == {a \in Asks : (asks[a].op = "set") = (m.type = "ack")}

ReplyTo(m) == {m.ask}

(* A report without a level, a pong among them, is neither remembered nor  *)
(* pushed as one.                                                          *)
Stores(h) == LET m == handlers[h] IN
  /\ m.at = "store"
  /\ replies' = [a \in Asks |-> IF a \in ReplyTo(m) THEN m.v ELSE replies[a]]
  /\ handlers' = [handlers EXCEPT ![h] = IF m.v = Unknown THEN NoCall ELSE [m EXCEPT !.at = "remember"]]
  /\ UNCHANGED <<faults, level, past, asks, down, up, remembered, shown, changes>>

(* mutant: only a status is pushed *)
PushedIfStatus(m) == m.type = "status"

Pushed(m) == m.type \in {"status", "changed"}

Remembers(h) == LET m == handlers[h] IN
  /\ m.at = "remember" /\ remembered' = m.v
  /\ handlers' = [handlers EXCEPT ![h] = IF Pushed(m) THEN [m EXCEPT !.at = "push"] ELSE NoCall]
  /\ UNCHANGED <<faults, level, past, asks, down, up, replies, shown, changes>>

Pushes(h) ==
  /\ handlers[h].at = "push" /\ shown' = handlers[h].v
  /\ handlers' = [handlers EXCEPT ![h] = NoCall]
  /\ UNCHANGED <<faults, level, past, asks, down, up, replies, remembered, changes>>

VolumeNext ==
  \/ \E a \in Asks : Ask(a, "get", 0) \/ \E v \in DeviceLevels : Ask(a, "set", v)
  \/ \E a \in Asks : CheckConnectivity(a) \/ DeviceOnline(a)
  \/ \E a \in Asks : PingPong(a) \/ DeviceTells(a) \/ DeviceObeys(a)
  \/ (\E v \in DeviceLevels : DeviceChanges(v)) \/ Lost
  \/ \E h \in Handlers, i \in 1..Len(up) : Delivered(h, i)
  \/ \E h \in Handlers : Stores(h) \/ Remembers(h) \/ Pushes(h)

VolumeSpec == VolumeInit /\ [][VolumeNext]_volumeVars

-----------------------------------------------------------------------------
(* Properties.                                                             *)

Known == DeviceLevels \cup {Unknown}

(* Type invariant.                                                         *)
VolumeTypeOK ==
  /\ faults \in Faults /\ level \in DeviceLevels /\ past \subseteq DeviceLevels
  /\ asks \in [Asks -> [op : {"none", "get", "set", "ping", "boot"}, v : DeviceLevels,
       at : {"none", "waits", "fresh", "stale", "unreachable"}, got : Known, ran : BOOLEAN,
       since : SUBSET DeviceLevels]]
  /\ down \in Seq(Asks)
  /\ up \in Seq([type : {"status", "ack", "changed", "pong"}, ask : Asks \cup {0}, v : Known])
  /\ handlers \in [Handlers -> [at : {"none", "store", "remember", "push"},
       type : {"none", "status", "ack", "changed", "pong"}, ask : Asks \cup {0}, v : Known]]
  /\ replies \in [Asks -> Known \cup {Nothing}]
  /\ remembered \in Known /\ shown \in Known /\ changes \in 0..ChangeCount

(* "Never invents a number" (service.py:254-260): however late, repeated,  *)
(* lost or out of order the reports are, a request that is told as answered*)
(* has been taken by the device, a level told as fresh is one the device   *)
(* has held since the request began, and a level told as remembered was    *)
(* held once.                                                              *)
AnswersTrue == \A a \in Asks :
  /\ asks[a].at = "fresh" => asks[a].ran
  /\ asks[a].at = "fresh" /\ asks[a].op \in {"get", "set"} => asks[a].got \in asks[a].since
  /\ asks[a].at = "stale" => asks[a].got \in past \cup {Unknown}

Caught == up = <<>> /\ Free

(* Where reports are handled one after the other, in order, the App and    *)
(* the fallback are left with the level of the device: "what keeps an open *)
(* App in step without polling the device" (iot.py:144-150).               *)
AppInStep ==
  faults = {} /\ Caught => {remembered, shown} \subseteq {level, Unknown}
=============================================================================
