----------------------------- MODULE AppProofs ------------------------------
(***************************************************************************)
(* Theorems of VolumeSync, AppSockets, DeviceCertificates and RoastStarts, *)
(* what the API does between an App, its device and the agent, for every   *)
(* number of requests, levels, webhook calls, pods, Apps, connections,     *)
(* messages, certificates and faults.                                      *)
(*                                                                         *)
(* What a request is told rests on what is under way (AnswersInv): every   *)
(* report, every stored reply and every call of the webhook says what the  *)
(* device may say in reply, though it comes late, twice or in any order.   *)
(* That the App ends in step rests on which of the reports under way is    *)
(* the last that matters (InStep).                                         *)
(*                                                                         *)
(* That a connected App stays in the registry rests on what is left of     *)
(* the sockets before its own (Cleared); that a message arrives, on where  *)
(* a message that has not yet reached a socket is (OnItsWay).              *)
(*                                                                         *)
(* That a device's credentials work rests on which request is under way    *)
(* and how far it has come (CertInv): a certificate belongs to one session *)
(* of provisioning, and what is cached for the newest is attached, allowed *)
(* and active until the device is unbound.  That a start is played rests   *)
(* on who has it: the connection it was given to, which plays what it has  *)
(* in order, each once (QueueOwn).                                         *)
(***************************************************************************)
EXTENDS VolumeSync, AppSockets, DeviceCertificates, RoastStarts, SequenceTheorems, TLAPS

-----------------------------------------------------------------------------
(* VolumeSync.                                                             *)

Askings == [op : {"none", "get", "set", "ping", "boot"}, v : DeviceLevels,
            at : {"none", "waits", "fresh", "stale", "unreachable"}, got : Known, ran : BOOLEAN,
            since : SUBSET DeviceLevels]
Reports == [type : {"status", "ack", "changed", "pong"}, ask : Asks \cup {0}, v : Known]
Calls   == [at : {"none", "store", "remember", "push"},
            type : {"none", "status", "ack", "changed", "pong"}, ask : Asks \cup {0}, v : Known]

(* In a state with the requests f and the levels p held so far: the device *)
(* has executed a, and v is what it may say in reply.                      *)
MayAnswer(f, p, a, v) ==
  /\ f[a].ran
  /\ v \in p \cup {Unknown}
  /\ f[a].at = "waits" => v \in f[a].since \cup {Unknown} /\ (f[a].op = "set" => f[a].v \in f[a].since)

SaysTrue(f, p, m) == m.v \in p \cup {Unknown} /\ (m.ask # 0 => MayAnswer(f, p, m.ask, m.v))

Begun(r, now) == (r.at = "waits" => now \in r.since) /\ (r.at = "none" => ~r.ran)

RightAnswer(r, p) ==
  /\ r.at = "fresh" => r.ran
  /\ r.at = "fresh" /\ r.op \in {"get", "set"} => r.got \in r.since
  /\ r.at = "stale" => r.got \in p \cup {Unknown}

AnswersInv ==
  /\ level \in past
  /\ \A a \in Asks : Begun(asks[a], level)
  /\ \A i \in 1..Len(down) : asks[down[i]].at # "none"
  /\ \A i \in 1..Len(up) : SaysTrue(asks, past, up[i])
  /\ \A h \in Handlers : SaysTrue(asks, past, handlers[h])
  /\ \A a \in Asks : replies[a] # Nothing => MayAnswer(asks, past, a, replies[a])
  /\ remembered \in past \cup {Unknown}
  /\ \A a \in Asks : RightAnswer(asks[a], past)

-----------------------------------------------------------------------------
(* Sequences.                                                              *)

LEMMA WithoutFacts ==
  ASSUME NEW S, NEW q \in Seq(S), NEW i \in 1..Len(q)
  PROVE  /\ Without(q, i) \in Seq(S) /\ Len(Without(q, i)) = Len(q) - 1
         /\ \A j \in 1..(Len(q) - 1) : Without(q, i)[j] = IF j < i THEN q[j] ELSE q[j + 1]
<1> DEFINE a == SubSeq(q, 1, i - 1)
           b == SubSeq(q, i + 1, Len(q))
<1>0. Len(q) \in Nat /\ i \in Nat /\ 1 <= i /\ i <= Len(q)
  BY LenProperties
<1>1. a \in Seq(S) /\ Len(a) = i - 1 /\ \A j \in 1..(i - 1) : a[j] = q[j]
  BY <1>0
<1>2. b \in Seq(S) /\ Len(b) = Len(q) - i /\ \A j \in 1..(Len(q) - i) : b[j] = q[j + i]
  BY <1>0
<1>3. Without(q, i) = a \o b
  BY DEF Without
<1> HIDE DEF a, b
<1>4. a \o b \in Seq(S) /\ Len(a \o b) = Len(a) + Len(b)
  BY <1>1, <1>2, ConcatProperties
<1>5. \A j \in 1..(Len(q) - 1) : (a \o b)[j] = IF j < i THEN q[j] ELSE q[j + 1]
  <2> SUFFICES ASSUME NEW j \in 1..(Len(q) - 1) PROVE (a \o b)[j] = IF j < i THEN q[j] ELSE q[j + 1]
    OBVIOUS
  <2>1. (a \o b)[j] = IF j <= Len(a) THEN a[j] ELSE b[j - Len(a)]
    BY <1>0, <1>1, <1>2, ConcatProperties
  <2>2. CASE j < i
    BY <1>0, <1>1, <2>1, <2>2
  <2>3. CASE ~(j < i)
    <3>1. j - (i - 1) \in 1..(Len(q) - i) /\ (j - (i - 1)) + i = j + 1
      BY <1>0, <2>3
    <3> QED BY <1>0, <1>1, <1>2, <2>1, <2>3, <3>1
  <2> QED BY <2>2, <2>3
<1> QED BY <1>0, <1>1, <1>2, <1>3, <1>4, <1>5

(* The messages of a queue after a step were in it or are new.             *)
Within(q, r, N) == \A i \in 1..Len(q) : q[i] \in N \/ \E j \in 1..Len(r) : q[i] = r[j]

LEMMA WithinAll ==
  ASSUME NEW S, NEW q \in Seq(S), NEW e \in S, NEW d \in S
  PROVE  /\ Within(q, q, {})
         /\ Within(Append(q, e), q, {e}) /\ Append(q, e) \in Seq(S)
         /\ Within(q \o <<e, d>>, q, {e, d}) /\ q \o <<e, d>> \in Seq(S)
<1>0. Len(q) \in Nat
  BY LenProperties
<1>1. Within(q, q, {})
  BY DEF Within
<1>2. Append(q, e) \in Seq(S)
  BY AppendProperties
<1>3. Within(Append(q, e), q, {e})
  <2> SUFFICES ASSUME NEW i \in 1..Len(Append(q, e))
               PROVE  Append(q, e)[i] \in {e} \/ \E j \in 1..Len(q) : Append(q, e)[i] = q[j]
    BY DEF Within
  <2>1. Len(Append(q, e)) = Len(q) + 1 /\ Append(q, e)[Len(q) + 1] = e
        /\ \A j \in 1..Len(q) : Append(q, e)[j] = q[j]
    BY AppendProperties
  <2>2. i = Len(q) + 1 \/ i \in 1..Len(q)
    BY <1>0, <2>1
  <2> QED BY <2>1, <2>2
<1>4. <<e, d>> \in Seq(S) /\ Len(<<e, d>>) = 2 /\ <<e, d>>[1] = e /\ <<e, d>>[2] = d
  OBVIOUS
<1> DEFINE t == <<e, d>>
<1> HIDE DEF t
<1>5. t \in Seq(S) /\ Len(t) = 2 /\ t[1] = e /\ t[2] = d
  BY <1>4 DEF t
<1>6. q \o t \in Seq(S) /\ Len(q \o t) = Len(q) + 2
      /\ \A i \in 1..(Len(q) + 2) : (q \o t)[i] = IF i <= Len(q) THEN q[i] ELSE t[i - Len(q)]
  <2>1. /\ q \o t \in Seq(S)
        /\ Len(q \o t) = Len(q) + Len(t)
        /\ \A i \in 1..Len(q) + Len(t) : (q \o t)[i] = IF i <= Len(q) THEN q[i] ELSE t[i - Len(q)]
    BY <1>5, ConcatProperties
  <2>2. Len(t) = 2
    BY <1>5
  <2> QED BY <2>1, <2>2
<1>7. Within(q \o t, q, {e, d})
  <2> SUFFICES ASSUME NEW i \in 1..Len(q \o t)
               PROVE  (q \o t)[i] \in {e, d} \/ \E j \in 1..Len(q) : (q \o t)[i] = q[j]
    BY DEF Within
  <2>1. i \in 1..(Len(q) + 2)
    BY <1>6
  <2>2. CASE i <= Len(q)
    BY <1>0, <1>6, <2>1, <2>2
  <2>3. CASE ~(i <= Len(q))
    <3>1. i - Len(q) \in {1, 2}
      BY <1>0, <2>1, <2>3
    <3> QED BY <1>5, <1>6, <2>1, <2>3, <3>1
  <2> QED BY <2>2, <2>3
<1> QED BY <1>1, <1>2, <1>3, <1>6, <1>7 DEF t

LEMMA WithinLess ==
  ASSUME NEW S, NEW q \in Seq(S)
  PROVE  /\ q # <<>> => Within(Tail(q), q, {}) /\ Tail(q) \in Seq(S)
         /\ \A i \in 1..Len(q) : Within(Without(q, i), q, {}) /\ Without(q, i) \in Seq(S)
<1>0. Len(q) \in Nat
  BY LenProperties
<1>1. ASSUME q # <<>> PROVE Within(Tail(q), q, {}) /\ Tail(q) \in Seq(S)
  <2>1. Tail(q) \in Seq(S) /\ Len(Tail(q)) = Len(q) - 1
        /\ \A i \in 1..Len(Tail(q)) : Tail(q)[i] = q[i + 1]
    BY <1>1, HeadTailProperties
  <2>2. \A i \in 1..Len(Tail(q)) : i + 1 \in 1..Len(q)
    BY <1>0, <2>1
  <2> QED BY <2>1, <2>2 DEF Within
<1>2. ASSUME NEW i \in 1..Len(q) PROVE Within(Without(q, i), q, {}) /\ Without(q, i) \in Seq(S)
  <2>1. Without(q, i) \in Seq(S) /\ Len(Without(q, i)) = Len(q) - 1
        /\ \A j \in 1..(Len(q) - 1) : Without(q, i)[j] = IF j < i THEN q[j] ELSE q[j + 1]
    BY WithoutFacts
  <2>2. \A j \in 1..(Len(q) - 1) : j \in 1..Len(q) /\ j + 1 \in 1..Len(q)
    BY <1>0
  <2> QED BY <2>1, <2>2 DEF Within
<1> QED BY <1>1, <1>2

-----------------------------------------------------------------------------
(* Types.                                                                  *)

LEMMA VolumeBasics ==
  /\ Unknown \notin Int /\ Nothing \notin Int /\ Unknown # Nothing
  /\ {MaxLevel, AskCount, ChangeCount, HandlerCount} \subseteq Nat
  /\ Asks \subseteq Nat \ {0} /\ DeviceLevels \subseteq Nat /\ 0 \in DeviceLevels
BY VolumeAssumption DEF Asks, DeviceLevels

LEMMA ReportType ==
  ASSUME NEW t \in {"status", "ack", "changed", "pong"}, NEW a \in Asks \cup {0}, NEW v \in Known
  PROVE  Report(t, a, v) \in Reports
BY DEF Report, Reports

LEMMA AskType ==
  ASSUME VolumeTypeOK, NEW a \in Asks, NEW op \in {"get", "set", "ping", "boot"},
         NEW v \in DeviceLevels, Ask(a, op, v)
  PROVE  VolumeTypeOK'
<1> DEFINE f == [NoAsk EXCEPT !.op = op, !.v = v, !.at = "waits", !.since = {level}]
<1>1. f \in Askings
  BY VolumeBasics DEF Askings, NoAsk, Known, VolumeTypeOK
<1>2. asks' = [asks EXCEPT ![a] = f] /\ down' = Append(down, a)
      /\ UNCHANGED <<faults, level, past, up, handlers, replies, remembered, shown, changes>>
  BY DEF Ask
<1> HIDE DEF f
<1>3. asks \in [Asks -> Askings] /\ down \in Seq(Asks)
  BY DEF VolumeTypeOK, Askings
<1>4. asks' \in [Asks -> Askings]
  BY <1>1, <1>2, <1>3
<1>5. down' \in Seq(Asks)
  BY <1>2, <1>3, AppendProperties
<1> QED BY <1>2, <1>4, <1>5 DEF VolumeTypeOK, Askings

LEMMA OutcomeType ==
  ASSUME VolumeTypeOK, NEW a \in Asks, NEW at \in {"fresh", "stale", "unreachable"}, NEW got \in Known
  PROVE  /\ ToldApp(a, at, got) \in [Asks -> Askings]
         /\ \A b \in Asks : b # a => ToldApp(a, at, got)[b] = asks[b]
         /\ ToldApp(a, at, got)[a].at = at /\ ToldApp(a, at, got)[a].got = got
         /\ ToldApp(a, at, got)[a].op = asks[a].op /\ ToldApp(a, at, got)[a].v = asks[a].v
         /\ ToldApp(a, at, got)[a].ran = asks[a].ran /\ ToldApp(a, at, got)[a].since = asks[a].since
<1> DEFINE f == [asks[a] EXCEPT !.at = at, !.got = got]
<1>1. asks \in [Asks -> Askings]
  BY DEF VolumeTypeOK, Askings
<1>2. f \in Askings
  BY <1>1 DEF Askings
<1>3. ToldApp(a, at, got) = [asks EXCEPT ![a] = f]
  BY <1>1 DEF ToldApp
<1>4. f.at = at /\ f.got = got /\ f.op = asks[a].op /\ f.v = asks[a].v
      /\ f.ran = asks[a].ran /\ f.since = asks[a].since
  BY <1>1 DEF Askings
<1> HIDE DEF f
<1>5. ToldApp(a, at, got) \in [Asks -> Askings]
  BY <1>1, <1>2, <1>3
<1>6. ToldApp(a, at, got)[a] = f /\ \A b \in Asks : b # a => ToldApp(a, at, got)[b] = asks[b]
  BY <1>1, <1>3
<1> QED BY <1>4, <1>5, <1>6

LEMMA PollType ==
  ASSUME VolumeTypeOK, NEW a \in Asks, PingPong(a)
  PROVE  VolumeTypeOK'
<1>1. replies[a] \in Known \cup {Nothing} /\ remembered \in Known /\ asks[a].v \in DeviceLevels
  BY DEF VolumeTypeOK
<1>2. ASSUME NEW r \in Known \cup {Nothing} PROVE Outcome(a, r) \in [Asks -> Askings]
  <2>1. VolumeRead(a, r) \in [Asks -> Askings]
    BY <1>1, OutcomeType DEF VolumeRead, Known
  <2>2. VolumeSet(a, r) \in [Asks -> Askings]
    BY <1>1, <1>2, OutcomeType DEF VolumeSet, Known
  <2>3. Reached(a, r) \in [Asks -> Askings]
    BY OutcomeType DEF Reached, Known
  <2> QED BY <2>1, <2>2, <2>3 DEF Outcome
<1>3. asks' \in [Asks -> Askings]
  BY <1>1, <1>2 DEF PingPong
<1> QED BY <1>3 DEF PingPong, VolumeTypeOK, Askings

LEMMA DeviceType ==
  ASSUME VolumeTypeOK,
         \/ \E a \in Asks : DeviceTells(a) \/ DeviceObeys(a)
         \/ \E v \in DeviceLevels : DeviceChanges(v)
         \/ Lost
  PROVE  VolumeTypeOK'
<1>0. asks \in [Asks -> Askings] /\ down \in Seq(Asks) /\ up \in Seq(Reports) /\ level \in DeviceLevels
      /\ past \subseteq DeviceLevels /\ changes \in 0..ChangeCount
  BY DEF VolumeTypeOK, Askings, Reports
<1>1. ASSUME NEW a \in Asks, DeviceTells(a) PROVE VolumeTypeOK'
  <2>0. [asks[a] EXCEPT !.ran = TRUE] \in Askings
    BY <1>0 DEF Askings
  <2>1. asks' \in [Asks -> Askings]
    BY <1>0, <1>1, <2>0 DEF DeviceTells
  <2>2. down' \in Seq(Asks)
    BY <1>0, <1>1, WithinLess DEF DeviceTells
  <2>3. PICK m \in Reports : up' = Append(up, m)
    BY <1>0, <1>1, ReportType DEF DeviceTells, Known
  <2>4. up' \in Seq(Reports)
    BY <1>0, <2>3, AppendProperties
  <2> QED BY <1>1, <2>1, <2>2, <2>4 DEF DeviceTells, VolumeTypeOK, Askings, Reports
<1>2. ASSUME NEW a \in Asks, DeviceObeys(a) PROVE VolumeTypeOK'
  <2>0. asks[a].v \in DeviceLevels
    BY <1>0 DEF Askings
  <2>1. asks' \in [Asks -> Askings]
    <3>1. asks' = [b \in Asks |-> [asks[b] EXCEPT !.ran = @ \/ b = a,
                !.since = IF asks[b].at = "waits" THEN @ \cup {asks[a].v} ELSE @]]
      BY <1>2 DEF DeviceObeys
    <3>2. ASSUME NEW b \in Asks
          PROVE [asks[b] EXCEPT !.ran = @ \/ b = a,
                   !.since = IF asks[b].at = "waits" THEN @ \cup {asks[a].v} ELSE @] \in Askings
      <4>1. asks[b] \in Askings
        BY <1>0
      <4> DEFINE x == asks[b].ran \/ b = a
                 y == IF asks[b].at = "waits" THEN asks[b].since \cup {asks[a].v} ELSE asks[b].since
      <4>2. x \in BOOLEAN /\ y \in SUBSET DeviceLevels
        BY <2>0, <4>1 DEF Askings
      <4> HIDE DEF x, y
      <4>3. [asks[b] EXCEPT !.ran = x, !.since = y] \in Askings
        BY <4>1, <4>2 DEF Askings
      <4> QED BY <4>3 DEF x, y
    <3> QED BY <3>1, <3>2
  <2>2. down' \in Seq(Asks)
    BY <1>0, <1>2, WithinLess DEF DeviceObeys
  <2>3. PICK v \in Known : \/ up' = Append(up, Report("ack", a, v))
                           \/ up' = up \o <<Report("ack", a, v), Report("changed", 0, asks[a].v)>>
                           \/ up' = up \o <<Report("changed", 0, asks[a].v), Report("ack", a, v)>>
    BY <1>2, <2>0 DEF DeviceObeys, Known
  <2>4. Report("ack", a, v) \in Reports /\ Report("changed", 0, asks[a].v) \in Reports
    BY <2>0, ReportType DEF Known
  <2>5. up' \in Seq(Reports)
    BY <1>0, <2>3, <2>4, WithinAll
  <2>6. level' \in DeviceLevels /\ past' \subseteq DeviceLevels
    BY <1>0, <1>2, <2>0 DEF DeviceObeys
  <2> QED BY <1>2, <2>1, <2>2, <2>5, <2>6 DEF DeviceObeys, VolumeTypeOK, Askings, Reports
<1>3. ASSUME NEW v \in DeviceLevels, DeviceChanges(v) PROVE VolumeTypeOK'
  <2>1. asks' \in [Asks -> Askings]
    <3>1. asks' = [a \in Asks |-> IF asks[a].at = "waits" THEN [asks[a] EXCEPT !.since = @ \cup {v}]
                             ELSE asks[a]]
      BY <1>3 DEF DeviceChanges, Holds
    <3>2. ASSUME NEW b \in Asks PROVE [asks[b] EXCEPT !.since = @ \cup {v}] \in Askings
      BY <1>0 DEF Askings
    <3> QED BY <1>0, <3>1, <3>2
  <2>2. Report("changed", 0, v) \in Reports
    BY ReportType DEF Known
  <2>3. up' \in Seq(Reports)
    BY <1>0, <1>3, <2>2, AppendProperties DEF DeviceChanges
  <2>4. changes' \in 0..ChangeCount
    BY <1>0, <1>3, VolumeBasics DEF DeviceChanges
  <2>5. level' \in DeviceLevels /\ past' \subseteq DeviceLevels
    BY <1>0, <1>3 DEF DeviceChanges, Holds
  <2> QED BY <1>3, <2>1, <2>3, <2>4, <2>5 DEF DeviceChanges, VolumeTypeOK, Askings, Reports
<1>4. CASE Lost
  <2>1. down' \in Seq(Asks) /\ up' \in Seq(Reports)
    BY <1>0, <1>4, WithinLess DEF Lost
  <2> QED BY <1>4, <2>1 DEF Lost, VolumeTypeOK, Reports
<1> QED BY <1>1, <1>2, <1>3, <1>4

(* A call begins with the report it is made for.                           *)
LEMMA CallFacts ==
  ASSUME VolumeTypeOK, NEW h \in Handlers, NEW i \in 1..Len(up), Delivered(h, i)
  PROVE  \E c \in Calls :
           /\ handlers' = [handlers EXCEPT ![h] = c] /\ up[i] \in Reports
           /\ c.at = FirstStep(up[i]) /\ c.type = up[i].type /\ c.ask = up[i].ask /\ c.v = up[i].v
           /\ up' \in {Without(up, i), up}
<1>1. up \in Seq(Reports) /\ up[i] \in Reports
  BY ElementOfSeq DEF VolumeTypeOK, Reports
<1> DEFINE c == [at |-> FirstStep(up[i]), type |-> up[i].type, ask |-> up[i].ask, v |-> up[i].v]
<1>2. c \in Calls
  BY <1>1 DEF Calls, Reports, FirstStep
<1>3. handlers' = [handlers EXCEPT ![h] = c] /\ up' \in {Without(up, i), up}
  BY DEF Delivered
<1>4. c.at = FirstStep(up[i]) /\ c.type = up[i].type /\ c.ask = up[i].ask /\ c.v = up[i].v
  OBVIOUS
<1> QED BY <1>1, <1>2, <1>3, <1>4

LEMMA WebhookType ==
  ASSUME VolumeTypeOK, NEW h \in Handlers,
         (\E i \in 1..Len(up) : Delivered(h, i)) \/ Stores(h) \/ Remembers(h) \/ Pushes(h)
  PROVE  VolumeTypeOK'
<1>0. handlers \in [Handlers -> Calls] /\ up \in Seq(Reports) /\ NoCall \in Calls
  BY DEF VolumeTypeOK, Calls, Reports, NoCall, Known
<1>1. ASSUME NEW i \in 1..Len(up), Delivered(h, i) PROVE VolumeTypeOK'
  <2>0. PICK c \in Calls : handlers' = [handlers EXCEPT ![h] = c] /\ up' \in {Without(up, i), up}
    BY <1>1, CallFacts
  <2>1. handlers' \in [Handlers -> Calls]
    BY <1>0, <2>0
  <2>2. up' \in Seq(Reports)
    BY <1>0, <2>0, WithinLess
  <2> QED BY <1>1, <2>1, <2>2 DEF Delivered, VolumeTypeOK, Calls, Reports
<1> DEFINE m == handlers[h]
<1>2. m \in Calls /\ [m EXCEPT !.at = "remember"] \in Calls /\ [m EXCEPT !.at = "push"] \in Calls
  BY <1>0 DEF Calls
<1>3. CASE Stores(h)
  <2>1. replies' \in [Asks -> Known \cup {Nothing}]
    BY <1>2, <1>3 DEF Stores, Calls, VolumeTypeOK
  <2>2. handlers' \in [Handlers -> Calls]
    BY <1>0, <1>2, <1>3 DEF Stores
  <2> QED BY <1>3, <2>1, <2>2 DEF Stores, VolumeTypeOK, Calls
<1>4. CASE Remembers(h)
  <2>1. handlers' \in [Handlers -> Calls] /\ remembered' \in Known
    BY <1>0, <1>2, <1>4 DEF Remembers, Calls
  <2> QED BY <1>4, <2>1 DEF Remembers, VolumeTypeOK, Calls
<1>5. CASE Pushes(h)
  <2>1. handlers' \in [Handlers -> Calls] /\ shown' \in Known
    BY <1>0, <1>2, <1>5 DEF Pushes, Calls
  <2> QED BY <1>5, <2>1 DEF Pushes, VolumeTypeOK, Calls
<1> QED BY <1>1, <1>3, <1>4, <1>5

(* The steps of the requests, of the device and of the webhook.            *)
Asking == \E a \in Asks :
  \/ Ask(a, "get", 0) \/ \E v \in DeviceLevels : Ask(a, "set", v)
  \/ Ask(a, "ping", 0) \/ Ask(a, "boot", 0)

AtDevice ==
  \/ \E a \in Asks : DeviceTells(a) \/ DeviceObeys(a)
  \/ \E v \in DeviceLevels : DeviceChanges(v)
  \/ Lost

AtWebhook == \E h \in Handlers :
  (\E i \in 1..Len(up) : Delivered(h, i)) \/ Stores(h) \/ Remembers(h) \/ Pushes(h)

LEMMA VolumeSteps ==
  ASSUME VolumeNext PROVE Asking \/ (\E a \in Asks : PingPong(a)) \/ AtDevice \/ AtWebhook
BY DEF VolumeNext, Asking, AtDevice, AtWebhook, CheckConnectivity, DeviceOnline

LEMMA VolumeTypeStep ==
  ASSUME VolumeTypeOK, [VolumeNext]_volumeVars PROVE VolumeTypeOK'
<1>1. CASE UNCHANGED volumeVars
  BY <1>1 DEF volumeVars, VolumeTypeOK
<1>2. CASE Asking
  BY <1>2, AskType, VolumeBasics DEF Asking
<1>3. CASE \E a \in Asks : PingPong(a)
  BY <1>3, PollType
<1>4. CASE AtDevice
  BY <1>4, DeviceType DEF AtDevice
<1>5. CASE AtWebhook
  BY <1>5, WebhookType DEF AtWebhook
<1> QED BY <1>1, <1>2, <1>3, <1>4, <1>5, VolumeSteps

LEMMA VolumeTypeInit == VolumeInit => VolumeTypeOK
<1> SUFFICES ASSUME VolumeInit PROVE VolumeTypeOK
  OBVIOUS
<1>1. level \in DeviceLevels /\ past \subseteq DeviceLevels /\ faults \in Faults
  BY DEF VolumeInit
<1>2. asks \in [Asks -> Askings]
  BY VolumeBasics DEF VolumeInit, NoAsk, Askings, Known
<1>3. down \in Seq(Asks) /\ up \in Seq(Reports)
  BY DEF VolumeInit
<1>4. handlers \in [Handlers -> Calls]
  BY DEF VolumeInit, NoCall, Calls, Known
<1>5. replies \in [Asks -> Known \cup {Nothing}] /\ remembered \in Known /\ shown \in Known
      /\ changes \in 0..ChangeCount
  BY VolumeBasics DEF VolumeInit, Known
<1> QED BY <1>1, <1>2, <1>3, <1>4, <1>5 DEF VolumeTypeOK, Askings, Reports, Calls

(* Nothing of a request, a report or a call leaves its domain.             *)
THEOREM VolumeTypes == VolumeSpec => []VolumeTypeOK
<1>1. VolumeInit => VolumeTypeOK
  BY VolumeTypeInit
<1>2. VolumeTypeOK /\ [VolumeNext]_volumeVars => VolumeTypeOK'
  BY VolumeTypeStep
<1> QED BY <1>1, <1>2, PTL DEF VolumeSpec

-----------------------------------------------------------------------------
(* Answers.                                                                *)

(* What a step may do to the requests: no execution is undone, and one that*)
(* waits has waited before, with the levels since.                         *)
Evolves(f, g) == \A a \in Asks : f[a].ran =>
  /\ g[a].ran /\ g[a].op = f[a].op /\ g[a].v = f[a].v
  /\ g[a].at = "waits" => f[a].at = "waits" /\ f[a].since \subseteq g[a].since

LEMMA MayAnswerKept ==
  ASSUME NEW f, NEW g, NEW p, NEW q, NEW a \in Asks, NEW v,
         Evolves(f, g), p \subseteq q, MayAnswer(f, p, a, v)
  PROVE  MayAnswer(g, q, a, v)
BY DEF MayAnswer, Evolves

LEMMA SaysTrueKept ==
  ASSUME NEW f, NEW g, NEW p, NEW q, NEW m, m.ask \in Asks \cup {0},
         Evolves(f, g), p \subseteq q, SaysTrue(f, p, m)
  PROVE  SaysTrue(g, q, m)
<1>1. m.v \in q \cup {Unknown}
  BY DEF SaysTrue
<1>2. ASSUME m.ask # 0 PROVE MayAnswer(g, q, m.ask, m.v)
  BY <1>2, MayAnswerKept DEF SaysTrue
<1> QED BY <1>1, <1>2 DEF SaysTrue

LEMMA QueueTrue ==
  ASSUME NEW f, NEW g, NEW p, NEW q, NEW r \in Seq(Reports), NEW s \in Seq(Reports), NEW N,
         Evolves(f, g), p \subseteq q, Within(s, r, N),
         \A i \in 1..Len(r) : SaysTrue(f, p, r[i]),
         \A m \in N : SaysTrue(g, q, m)
  PROVE  \A i \in 1..Len(s) : SaysTrue(g, q, s[i])
<1> SUFFICES ASSUME NEW i \in 1..Len(s) PROVE SaysTrue(g, q, s[i])
  OBVIOUS
<1>1. CASE s[i] \in N
  BY <1>1
<1>2. ASSUME NEW j \in 1..Len(r), s[i] = r[j] PROVE SaysTrue(g, q, s[i])
  <2>0. r[j] \in Reports
    BY ElementOfSeq
  <2>1. r[j].ask \in Asks \cup {0}
    BY <2>0 DEF Reports
  <2>2. SaysTrue(f, p, r[j])
    OBVIOUS
  <2> QED BY <1>2, <2>1, <2>2, SaysTrueKept
<1> QED BY <1>1, <1>2 DEF Within

(* What the rest of the state owes to the requests outlives every step that*)
(* keeps it and lets the requests evolve.                                  *)
LEMMA OthersKept ==
  ASSUME VolumeTypeOK, AnswersInv, Evolves(asks, asks'), past \subseteq past'
  PROVE  /\ handlers' = handlers => \A h \in Handlers : SaysTrue(asks', past', handlers'[h])
         /\ replies' = replies => \A a \in Asks : replies'[a] # Nothing => MayAnswer(asks', past', a, replies'[a])
         /\ up' = up => \A i \in 1..Len(up') : SaysTrue(asks', past', up'[i])
<1>1. \A h \in Handlers : SaysTrue(asks', past', handlers[h])
  <2> SUFFICES ASSUME NEW h \in Handlers PROVE SaysTrue(asks', past', handlers[h])
    OBVIOUS
  <2>1. handlers[h].ask \in Asks \cup {0} /\ SaysTrue(asks, past, handlers[h])
    BY DEF VolumeTypeOK, AnswersInv
  <2> QED BY <2>1, SaysTrueKept
<1>2. \A a \in Asks : replies[a] # Nothing => MayAnswer(asks', past', a, replies[a])
  BY MayAnswerKept DEF AnswersInv
<1>3. \A i \in 1..Len(up) : SaysTrue(asks', past', up[i])
  <2>1. up \in Seq(Reports) /\ \A i \in 1..Len(up) : SaysTrue(asks, past, up[i])
    BY DEF VolumeTypeOK, Reports, AnswersInv
  <2> SUFFICES ASSUME NEW i \in 1..Len(up) PROVE SaysTrue(asks', past', up[i])
    OBVIOUS
  <2>2. up[i] \in Reports
    BY <2>1, ElementOfSeq
  <2>3. up[i].ask \in Asks \cup {0} /\ SaysTrue(asks, past, up[i])
    BY <2>1, <2>2 DEF Reports
  <2> QED BY <2>3, SaysTrueKept
<1> QED BY <1>1, <1>2, <1>3

LEMMA AskAnswers ==
  ASSUME VolumeTypeOK, AnswersInv, NEW a \in Asks, NEW op \in {"get", "set", "ping", "boot"},
         NEW v \in DeviceLevels, Ask(a, op, v)
  PROVE  AnswersInv'
<1> DEFINE f == [NoAsk EXCEPT !.op = op, !.v = v, !.at = "waits", !.since = {level}]
<1>1. f.op = op /\ f.at = "waits" /\ f.ran = FALSE /\ f.since = {level}
  BY DEF NoAsk
<1>2. asks' = [asks EXCEPT ![a] = f] /\ down' = Append(down, a) /\ asks[a].at = "none"
      /\ UNCHANGED <<faults, level, past, up, handlers, replies, remembered, shown, changes>>
  BY DEF Ask
<1> HIDE DEF f
<1>3. asks \in [Asks -> Askings] /\ down \in Seq(Asks)
  BY DEF VolumeTypeOK, Askings
<1>4. ~asks[a].ran
  BY <1>2 DEF AnswersInv, Begun
<1>5. asks'[a] = f /\ \A b \in Asks : b # a => asks'[b] = asks[b]
  BY <1>2, <1>3
<1>6. Evolves(asks, asks')
  BY <1>4, <1>5 DEF Evolves
<1>7. \A b \in Asks : Begun(asks'[b], level') /\ RightAnswer(asks'[b], past')
  BY <1>1, <1>2, <1>5 DEF AnswersInv, Begun, RightAnswer
<1>8. \A i \in 1..Len(down') : asks'[down'[i]].at # "none"
  <2> SUFFICES ASSUME NEW i \in 1..Len(down') PROVE asks'[down'[i]].at # "none"
    OBVIOUS
  <2>1. Within(down', down, {a})
    BY <1>2, <1>3, WithinAll
  <2>2. CASE down'[i] = a
    BY <1>1, <1>5, <2>2
  <2>3. ASSUME NEW j \in 1..Len(down), down'[i] = down[j] PROVE asks'[down'[i]].at # "none"
    <3>1. down[j] \in Asks /\ asks[down[j]].at # "none"
      BY <1>3, ElementOfSeq DEF AnswersInv
    <3> QED BY <1>1, <1>5, <2>3, <3>1
  <2> QED BY <2>1, <2>2, <2>3 DEF Within
<1> QED BY <1>2, <1>6, <1>7, <1>8, OthersKept DEF AnswersInv

LEMMA PollAnswers ==
  ASSUME VolumeTypeOK, AnswersInv, NEW a \in Asks, PingPong(a)
  PROVE  AnswersInv'
<1>0. asks \in [Asks -> Askings] /\ asks[a].at = "waits"
      /\ UNCHANGED <<faults, level, past, down, up, handlers, replies, remembered, shown, changes>>
  BY DEF VolumeTypeOK, Askings, PingPong
<1>1. replies[a] \in Known \cup {Nothing} /\ remembered \in Known
      /\ (replies[a] # Nothing => MayAnswer(asks, past, a, replies[a]))
  BY DEF VolumeTypeOK, AnswersInv
<1>2. PICK r \in Known \cup {Nothing} :
        asks' = Outcome(a, r) /\ (r # Nothing => MayAnswer(asks, past, a, r))
  BY <1>1 DEF PingPong
<1>3. Nothing \notin DeviceLevels /\ Unknown \notin DeviceLevels /\ Unknown # Nothing
  BY VolumeBasics DEF DeviceLevels
(* What the App is told fits what the device was asked and did.            *)
<1>4. \E at \in {"fresh", "stale", "unreachable"}, got \in Known :
        /\ asks' = ToldApp(a, at, got)
        /\ at = "fresh" => asks[a].ran
        /\ at = "fresh" /\ asks[a].op \in {"get", "set"} => got \in asks[a].since
        /\ at = "stale" => got \in past \cup {Unknown}
  <2>1. CASE asks[a].op = "get"
    <3>0. asks' = VolumeRead(a, r)
      BY <1>2, <2>1 DEF Outcome
    <3>1. CASE r \in DeviceLevels
      <4>1. asks' = ToldApp(a, "fresh", r) /\ r \in Known
        BY <3>0, <3>1 DEF VolumeRead, Known
      <4>2. asks[a].ran /\ r \in asks[a].since
        BY <1>0, <1>2, <1>3, <3>1 DEF MayAnswer
      <4> QED BY <4>1, <4>2
    <3>2. CASE r \notin DeviceLevels
      <4>1. asks' = ToldApp(a, "stale", remembered)
        BY <3>0, <3>2 DEF VolumeRead
      <4> QED BY <1>1, <4>1 DEF AnswersInv
    <3> QED BY <3>1, <3>2
  <2>2. CASE asks[a].op = "set"
    <3>0. asks' = VolumeSet(a, r)
      BY <1>2, <2>2 DEF Outcome
    <3>1. CASE r = Nothing
      <4>1. asks' = ToldApp(a, "unreachable", Unknown)
        BY <3>0, <3>1 DEF VolumeSet
      <4> QED BY <4>1 DEF Known
    <3>2. CASE r = Unknown
      <4>1. asks' = ToldApp(a, "fresh", asks[a].v) /\ asks[a].v \in Known
        BY <1>0, <1>3, <3>0, <3>2 DEF VolumeSet, Known, Askings
      <4>2. asks[a].ran /\ asks[a].v \in asks[a].since
        BY <1>0, <1>2, <1>3, <2>2, <3>2 DEF MayAnswer
      <4> QED BY <4>1, <4>2
    <3>3. CASE r \in DeviceLevels
      <4>1. asks' = ToldApp(a, "fresh", r) /\ r \in Known
        BY <1>3, <3>0, <3>3 DEF VolumeSet, Known
      <4>2. asks[a].ran /\ r \in asks[a].since
        BY <1>0, <1>2, <1>3, <3>3 DEF MayAnswer
      <4> QED BY <4>1, <4>2
    <3> QED BY <3>1, <3>2, <3>3 DEF Known
  <2>3. CASE asks[a].op \notin {"get", "set"}
    <3>0. asks' = ToldApp(a, IF r = Nothing THEN "unreachable" ELSE "fresh", Unknown)
      BY <1>2, <2>3 DEF Outcome, Reached
    <3>1. CASE r = Nothing
      BY <3>0, <3>1 DEF Known
    <3>2. CASE r # Nothing
      <4>1. asks[a].ran
        BY <1>2, <3>2 DEF MayAnswer
      <4> QED BY <2>3, <3>0, <3>2, <4>1 DEF Known
    <3> QED BY <3>1, <3>2
  <2> QED BY <2>1, <2>2, <2>3
<1>5. PICK at \in {"fresh", "stale", "unreachable"}, got \in Known :
        /\ asks' = ToldApp(a, at, got)
        /\ at = "fresh" => asks[a].ran
        /\ at = "fresh" /\ asks[a].op \in {"get", "set"} => got \in asks[a].since
        /\ at = "stale" => got \in past \cup {Unknown}
  BY <1>4
<1>6. /\ \A b \in Asks : b # a => asks'[b] = asks[b]
      /\ asks'[a].at = at /\ asks'[a].got = got /\ asks'[a].op = asks[a].op
      /\ asks'[a].v = asks[a].v /\ asks'[a].ran = asks[a].ran /\ asks'[a].since = asks[a].since
  BY <1>5, OutcomeType
<1>9. Evolves(asks, asks')
  BY <1>6 DEF Evolves
<1>10. \A b \in Asks : Begun(asks'[b], level')
  BY <1>0, <1>5, <1>6 DEF AnswersInv, Begun
<1>11. \A b \in Asks : RightAnswer(asks'[b], past')
  <2>1. RightAnswer(asks'[a], past)
    BY <1>5, <1>6 DEF RightAnswer
  <2> QED BY <1>0, <1>6, <2>1 DEF AnswersInv
<1>12. \A i \in 1..Len(down') : asks'[down'[i]].at # "none"
  <2> SUFFICES ASSUME NEW i \in 1..Len(down) PROVE asks'[down[i]].at # "none"
    BY <1>0
  <2>1. down[i] \in Asks /\ asks[down[i]].at # "none"
    BY ElementOfSeq DEF VolumeTypeOK, AnswersInv
  <2> QED BY <1>5, <1>6, <2>1
<1> QED BY <1>0, <1>9, <1>10, <1>11, <1>12, OthersKept DEF AnswersInv

(* A queue that loses messages keeps what held of each.                    *)
LEMMA DownKept ==
  ASSUME NEW f, NEW g, NEW r \in Seq(Asks), NEW s, Within(s, r, {}),
         \A i \in 1..Len(r) : f[r[i]].at # "none",
         \A b \in Asks : g[b].at = f[b].at
  PROVE  \A i \in 1..Len(s) : g[s[i]].at # "none"
<1> SUFFICES ASSUME NEW i \in 1..Len(s) PROVE g[s[i]].at # "none"
  OBVIOUS
<1>1. PICK j \in 1..Len(r) : s[i] = r[j]
  BY DEF Within
<1>2. r[j] \in Asks /\ f[r[j]].at # "none"
  BY <1>1, ElementOfSeq
<1> QED BY <1>1, <1>2

LEMMA TellsAnswers ==
  ASSUME VolumeTypeOK, AnswersInv, NEW a \in Asks, DeviceTells(a)
  PROVE  AnswersInv'
<1>0. asks \in [Asks -> Askings] /\ down \in Seq(Asks) /\ up \in Seq(Reports) /\ down # <<>>
      /\ Head(down) = a /\ asks[a].op # "set" /\ down' = Tail(down) /\ level \in DeviceLevels
      /\ UNCHANGED <<faults, level, past, handlers, replies, remembered, shown, changes>>
  BY DEF VolumeTypeOK, Askings, Reports, DeviceTells
<1>1. asks[a].at # "none" /\ Begun(asks[a], level) /\ level \in past
  <2>1. Len(down) \in Nat /\ Len(down) # 0 /\ Head(down) = down[1]
    BY <1>0
  <2>2. 1 \in 1..Len(down)
    BY <2>1
  <2>3. asks[down[1]].at # "none"
    BY <2>2 DEF AnswersInv
  <2> QED BY <1>0, <2>1, <2>3 DEF AnswersInv
<1> DEFINE f == [asks[a] EXCEPT !.ran = TRUE]
<1>2. asks' = [asks EXCEPT ![a] = f]
  BY <1>0 DEF DeviceTells
<1>3. /\ f.ran = TRUE /\ f.op = asks[a].op /\ f.v = asks[a].v /\ f.at = asks[a].at
      /\ f.got = asks[a].got /\ f.since = asks[a].since
  BY <1>0 DEF Askings
<1> HIDE DEF f
<1>4. asks'[a] = f /\ \A b \in Asks : b # a => asks'[b] = asks[b]
  BY <1>0, <1>2
<1>5. Evolves(asks, asks')
  BY <1>3, <1>4 DEF Evolves
<1>6. \A b \in Asks : Begun(asks'[b], level') /\ RightAnswer(asks'[b], past')
  BY <1>0, <1>1, <1>3, <1>4 DEF AnswersInv, Begun, RightAnswer
<1>7. \A i \in 1..Len(down') : asks'[down'[i]].at # "none"
  <2>1. \A b \in Asks : asks'[b].at = asks[b].at
    BY <1>3, <1>4
  <2>2. Within(down', down, {})
    BY <1>0, WithinLess
  <2>3. down \in Seq(Asks) /\ \A i \in 1..Len(down) : asks[down[i]].at # "none"
    BY DEF VolumeTypeOK, AnswersInv
  <2> QED BY <2>1, <2>2, <2>3, DownKept
(* It tells the level it has.                                              *)
<1>8. \A i \in 1..Len(up') : SaysTrue(asks', past', up'[i])
  <2>1. PICK t \in {"status", "pong"}, v \in {level, Unknown} : up' = Append(up, Report(t, a, v))
    BY DEF DeviceTells
  <2> DEFINE m == Report(t, a, v)
  <2>2. m.ask = a /\ m.v = v
    BY DEF Report
  <2>3. m \in Reports
    BY <1>0, <2>1, ReportType DEF Known
  <2> HIDE DEF m
  <2>4. MayAnswer(asks', past', a, v)
    BY <1>0, <1>1, <1>3, <1>4, <2>1 DEF MayAnswer, Begun
  <2>5. SaysTrue(asks', past', m)
    BY <1>0, <1>1, <2>1, <2>2, <2>4 DEF SaysTrue
  <2>6. up' = Append(up, m)
    BY <2>1 DEF m
  <2>7. Within(up', up, {m}) /\ up' \in Seq(Reports)
    BY <1>0, <2>3, <2>6, WithinAll
  <2>8. \A i \in 1..Len(up) : SaysTrue(asks, past, up[i])
    BY DEF AnswersInv
  <2> QED BY <1>0, <1>5, <2>5, <2>7, <2>8, QueueTrue
<1> QED BY <1>0, <1>5, <1>6, <1>7, <1>8, OthersKept DEF AnswersInv

(* A level that is taken is one held since every request that waits.       *)
LEMMA ObeysAnswers ==
  ASSUME VolumeTypeOK, AnswersInv, NEW a \in Asks, DeviceObeys(a)
  PROVE  AnswersInv'
<1> DEFINE w == asks[a].v
<1>0. asks \in [Asks -> Askings] /\ down \in Seq(Asks) /\ up \in Seq(Reports) /\ down # <<>>
      /\ Head(down) = a /\ down' = Tail(down) /\ w \in DeviceLevels
      /\ level' = w /\ past' = past \cup {w}
      /\ UNCHANGED <<faults, handlers, replies, remembered, shown>>
  BY DEF VolumeTypeOK, Askings, Reports, DeviceObeys
<1>1. asks[a].at # "none"
  <2>1. Len(down) \in Nat /\ Len(down) # 0 /\ Head(down) = down[1]
    BY <1>0
  <2>2. 1 \in 1..Len(down)
    BY <2>1
  <2> QED BY <1>0, <2>1, <2>2 DEF AnswersInv
<1>2. \A b \in Asks :
        /\ asks'[b].ran = (asks[b].ran \/ b = a)
        /\ asks'[b].op = asks[b].op /\ asks'[b].v = asks[b].v /\ asks'[b].at = asks[b].at
        /\ asks'[b].got = asks[b].got
        /\ asks'[b].since = IF asks[b].at = "waits" THEN asks[b].since \cup {w} ELSE asks[b].since
  <2>1. asks' = [b \in Asks |-> [asks[b] EXCEPT !.ran = @ \/ b = a,
                !.since = IF asks[b].at = "waits" THEN @ \cup {asks[a].v} ELSE @]]
    BY DEF DeviceObeys
  <2> SUFFICES ASSUME NEW b \in Asks
      PROVE  /\ asks'[b].ran = (asks[b].ran \/ b = a)
             /\ asks'[b].op = asks[b].op /\ asks'[b].v = asks[b].v /\ asks'[b].at = asks[b].at
             /\ asks'[b].got = asks[b].got
             /\ asks'[b].since = IF asks[b].at = "waits" THEN asks[b].since \cup {w} ELSE asks[b].since
    OBVIOUS
  <2> DEFINE x == asks[b].ran \/ b = a
             y == IF asks[b].at = "waits" THEN asks[b].since \cup {w} ELSE asks[b].since
  <2>2. asks'[b] = [asks[b] EXCEPT !.ran = x, !.since = y]
    BY <2>1
  <2>3. asks[b] \in Askings
    BY <1>0
  <2> HIDE DEF x, y
  <2>4. /\ asks'[b].ran = x
        /\ asks'[b].op = asks[b].op /\ asks'[b].v = asks[b].v /\ asks'[b].at = asks[b].at
        /\ asks'[b].got = asks[b].got
        /\ asks'[b].since = y
    BY <2>2, <2>3 DEF Askings
  <2> QED BY <2>4 DEF x, y
<1> HIDE DEF w
<1>4. Evolves(asks, asks')
  BY <1>2 DEF Evolves
<1>5. \A b \in Asks : Begun(asks'[b], level')
  <2> SUFFICES ASSUME NEW b \in Asks PROVE Begun(asks'[b], level')
    OBVIOUS
  <2>1. Begun(asks[b], level)
    BY DEF AnswersInv
  <2>2. asks'[b].at = "none" => ~asks'[b].ran
    BY <1>1, <1>2, <2>1 DEF Begun
  <2>3. asks'[b].at = "waits" => level' \in asks'[b].since
    BY <1>0, <1>2
  <2> QED BY <2>2, <2>3 DEF Begun
<1>6. \A b \in Asks : RightAnswer(asks'[b], past')
  <2> SUFFICES ASSUME NEW b \in Asks PROVE RightAnswer(asks'[b], past')
    OBVIOUS
  <2>1. RightAnswer(asks[b], past)
    BY DEF AnswersInv
  <2>2. asks[b].since \subseteq asks'[b].since /\ (asks[b].ran => asks'[b].ran)
    BY <1>2
  <2> QED BY <1>0, <1>2, <2>1, <2>2 DEF RightAnswer
<1>7. \A i \in 1..Len(down') : asks'[down'[i]].at # "none"
  <2>1. Within(down', down, {}) /\ \A b \in Asks : asks'[b].at = asks[b].at
    BY <1>0, <1>2, WithinLess
  <2>2. down \in Seq(Asks) /\ \A i \in 1..Len(down) : asks[down[i]].at # "none"
    BY DEF VolumeTypeOK, AnswersInv
  <2> QED BY <2>1, <2>2, DownKept
<1>8. \A i \in 1..Len(up') : SaysTrue(asks', past', up'[i])
  <2>1. PICK v \in {w, Unknown} :
          \/ up' = Append(up, Report("ack", a, v))
          \/ up' = up \o <<Report("ack", a, v), Report("changed", 0, w)>>
          \/ up' = up \o <<Report("changed", 0, w), Report("ack", a, v)>>
    BY DEF DeviceObeys, w
  <2> DEFINE m == Report("ack", a, v)
             n == Report("changed", 0, w)
  <2>2. m.ask = a /\ m.v = v /\ n.ask = 0 /\ n.v = w
    BY DEF Report
  <2>3. m \in Reports /\ n \in Reports
    BY <1>0, <2>1, ReportType DEF Known
  <2>4. up' \in {Append(up, m), up \o <<m, n>>, up \o <<n, m>>}
    BY <2>1
  <2> HIDE DEF m, n
  <2>5. MayAnswer(asks', past', a, v)
    BY <1>0, <1>2, <2>1 DEF MayAnswer, w
  <2>6. SaysTrue(asks', past', m) /\ SaysTrue(asks', past', n)
    BY <1>0, <2>1, <2>2, <2>5 DEF SaysTrue
  <2>7. Within(up', up, {m, n}) /\ up' \in Seq(Reports)
    <3>1. CASE up' = Append(up, m)
      BY <1>0, <2>3, <3>1, WithinAll DEF Within
    <3>2. CASE up' = up \o <<m, n>>
      BY <1>0, <2>3, <3>2, WithinAll
    <3>3. CASE up' = up \o <<n, m>>
      BY <1>0, <2>3, <3>3, WithinAll DEF Within
    <3> QED BY <2>4, <3>1, <3>2, <3>3
  <2>8. \A i \in 1..Len(up) : SaysTrue(asks, past, up[i])
    BY DEF AnswersInv
  <2> QED BY <1>0, <1>4, <2>6, <2>7, <2>8, QueueTrue, ZenonT(40)
<1>9. past \subseteq past' /\ level' \in past'
  BY <1>0
<1> QED BY <1>0, <1>4, <1>5, <1>6, <1>7, <1>8, <1>9, OthersKept DEF AnswersInv

LEMMA ChangesAnswers ==
  ASSUME VolumeTypeOK, AnswersInv, NEW w \in DeviceLevels, DeviceChanges(w)
  PROVE  AnswersInv'
<1>0. asks \in [Asks -> Askings] /\ up \in Seq(Reports) /\ down \in Seq(Asks) /\ level' = w
      /\ past' = past \cup {w} /\ up' = Append(up, Report("changed", 0, w))
      /\ UNCHANGED <<faults, down, handlers, replies, remembered, shown>>
  BY DEF VolumeTypeOK, Askings, Reports, DeviceChanges, Holds
<1>2. \A b \in Asks :
        /\ asks'[b].ran = asks[b].ran
        /\ asks'[b].op = asks[b].op /\ asks'[b].v = asks[b].v /\ asks'[b].at = asks[b].at
        /\ asks'[b].got = asks[b].got
        /\ asks'[b].since = IF asks[b].at = "waits" THEN asks[b].since \cup {w} ELSE asks[b].since
  <2>1. asks' = [a \in Asks |-> IF asks[a].at = "waits" THEN [asks[a] EXCEPT !.since = @ \cup {w}]
                             ELSE asks[a]]
    BY DEF DeviceChanges, Holds
  <2> SUFFICES ASSUME NEW b \in Asks
      PROVE  /\ asks'[b].ran = asks[b].ran
             /\ asks'[b].op = asks[b].op /\ asks'[b].v = asks[b].v /\ asks'[b].at = asks[b].at
             /\ asks'[b].got = asks[b].got
             /\ asks'[b].since = IF asks[b].at = "waits" THEN asks[b].since \cup {w} ELSE asks[b].since
    OBVIOUS
  <2>2. asks[b] \in Askings
    BY <1>0
  <2>3. CASE asks[b].at = "waits"
    <3>1. asks'[b] = [asks[b] EXCEPT !.since = @ \cup {w}]
      BY <2>1, <2>3
    <3> QED BY <2>2, <2>3, <3>1 DEF Askings
  <2>4. CASE asks[b].at # "waits"
    BY <2>1, <2>4
  <2> QED BY <2>3, <2>4
<1>4. Evolves(asks, asks')
  BY <1>2 DEF Evolves
<1>5. \A b \in Asks : Begun(asks'[b], level')
  BY <1>0, <1>2 DEF AnswersInv, Begun
<1>6. \A b \in Asks : RightAnswer(asks'[b], past')
  <2> SUFFICES ASSUME NEW b \in Asks PROVE RightAnswer(asks'[b], past')
    OBVIOUS
  <2>1. RightAnswer(asks[b], past)
    BY DEF AnswersInv
  <2>2. asks[b].since \subseteq asks'[b].since
    BY <1>2
  <2> QED BY <1>0, <1>2, <2>1, <2>2 DEF RightAnswer
<1>7. \A i \in 1..Len(down') : asks'[down'[i]].at # "none"
  <2>1. Within(down', down, {}) /\ \A b \in Asks : asks'[b].at = asks[b].at
    BY <1>0, <1>2 DEF Within
  <2>2. down \in Seq(Asks) /\ \A i \in 1..Len(down) : asks[down[i]].at # "none"
    BY DEF VolumeTypeOK, AnswersInv
  <2> QED BY <2>1, <2>2, DownKept, SMTT(30)
<1> DEFINE n == Report("changed", 0, w)
<1>8. n.ask = 0 /\ n.v = w /\ n \in Reports /\ up' = Append(up, n)
  BY <1>0, ReportType DEF Known, Report
<1> HIDE DEF n
<1>9. \A i \in 1..Len(up') : SaysTrue(asks', past', up'[i])
  <2>1. SaysTrue(asks', past', n)
    BY <1>0, <1>8 DEF SaysTrue
  <2>0. up \in Seq(Reports) /\ past \subseteq past'
    BY <1>0
  <2>2. Within(up', up, {n}) /\ up' \in Seq(Reports)
    BY <1>8, <2>0, WithinAll
  <2>3. \A i \in 1..Len(up) : SaysTrue(asks, past, up[i])
    BY DEF AnswersInv
  <2>4. \A m \in {n} : SaysTrue(asks', past', m)
    BY <2>1
  <2> QED BY <1>4, <2>0, <2>2, <2>3, <2>4, QueueTrue
<1>10. past \subseteq past' /\ level' \in past'
  BY <1>0
<1> QED BY <1>0, <1>4, <1>5, <1>6, <1>7, <1>9, <1>10, OthersKept DEF AnswersInv

LEMMA LostAnswers ==
  ASSUME VolumeTypeOK, AnswersInv, Lost
  PROVE  AnswersInv'
<1>0. UNCHANGED <<faults, level, past, asks, handlers, replies, remembered, shown, changes>>
      /\ up \in Seq(Reports) /\ down \in Seq(Asks)
  BY DEF Lost, VolumeTypeOK, Reports
<1>1. Evolves(asks, asks') /\ past \subseteq past'
  BY <1>0 DEF Evolves
<1>2. Within(down', down, {}) /\ Within(up', up, {}) /\ up' \in Seq(Reports)
  <2>1. Within(down, down, {}) /\ Within(up, up, {})
    BY DEF Within
  <2> QED BY <1>0, <2>1, WithinLess DEF Lost
<1>3. \A i \in 1..Len(down') : asks'[down'[i]].at # "none"
  BY <1>0, <1>2, DownKept DEF AnswersInv
<1>4. \A i \in 1..Len(up') : SaysTrue(asks', past', up'[i])
  <2>1. \A i \in 1..Len(up) : SaysTrue(asks, past, up[i])
    BY DEF AnswersInv
  <2> DEFINE N == {}
  <2>2. \A m \in N : SaysTrue(asks', past', m)
    OBVIOUS
  <2>3. up \in Seq(Reports) /\ up' \in Seq(Reports) /\ Within(up', up, N)
    BY <1>0, <1>2
  <2> HIDE DEF N
  <2> QED BY <1>1, <2>1, <2>2, <2>3, QueueTrue
<1> QED BY <1>0, <1>1, <1>3, <1>4, OthersKept DEF AnswersInv

LEMMA WebhookAnswers ==
  ASSUME VolumeTypeOK, AnswersInv, NEW h \in Handlers,
         (\E i \in 1..Len(up) : Delivered(h, i)) \/ Stores(h) \/ Remembers(h) \/ Pushes(h)
  PROVE  AnswersInv'
<1>0. UNCHANGED <<faults, level, past, asks, down>> /\ up \in Seq(Reports) /\ handlers \in [Handlers -> Calls]
  BY DEF Delivered, Stores, Remembers, Pushes, VolumeTypeOK, Reports, Calls
<1>1. Evolves(asks, asks') /\ past \subseteq past'
  BY <1>0 DEF Evolves
<1> DEFINE m == handlers[h]
<1>2. m \in Calls /\ SaysTrue(asks, past, m)
  BY <1>0 DEF AnswersInv
<1>3. NoCall.ask = 0 /\ NoCall.v = Unknown
  BY DEF NoCall
<1>4. SaysTrue(asks, past, NoCall)
  BY <1>3 DEF SaysTrue
<1>5. ASSUME NEW i \in 1..Len(up), Delivered(h, i) PROVE AnswersInv'
  <2>1. PICK c \in Calls : /\ handlers' = [handlers EXCEPT ![h] = c]
                           /\ c.ask = up[i].ask /\ c.v = up[i].v /\ up' \in {Without(up, i), up}
    BY <1>5, CallFacts
  <2>2. SaysTrue(asks, past, up[i])
    BY DEF AnswersInv
  <2>3. SaysTrue(asks, past, c)
    BY <2>1, <2>2 DEF SaysTrue
  <2>4. \A k \in Handlers : SaysTrue(asks, past, handlers'[k])
    BY <1>0, <2>1, <2>3 DEF AnswersInv
  <2>5. \A j \in 1..Len(up') : SaysTrue(asks', past', up'[j])
    <3> DEFINE N == {}
    <3>1. up' \in Seq(Reports) /\ Within(up', up, N)
      BY <1>0, <2>1, WithinLess DEF Within
    <3>2. \A n \in N : SaysTrue(asks', past', n)
      OBVIOUS
    <3>3. up \in Seq(Reports) /\ \A j \in 1..Len(up) : SaysTrue(asks, past, up[j])
      BY <1>0 DEF AnswersInv
    <3> HIDE DEF N
    <3> QED BY <1>1, <3>1, <3>2, <3>3, QueueTrue
  <2>6. UNCHANGED <<replies, remembered>>
    BY <1>5 DEF Delivered
  <2> QED BY <1>0, <2>4, <2>5, <2>6 DEF AnswersInv
<1>6. CASE Stores(h)
  <2>1. /\ \A a \in Asks : replies'[a] = IF a = m.ask THEN m.v ELSE replies[a]
        /\ handlers' = [handlers EXCEPT ![h] = IF m.v = Unknown THEN NoCall ELSE [m EXCEPT !.at = "remember"]]
        /\ UNCHANGED <<up, remembered>>
    BY <1>6 DEF Stores, ReplyTo
  <2>2. \A a \in Asks : replies'[a] # Nothing => MayAnswer(asks, past, a, replies'[a])
    <3> SUFFICES ASSUME NEW a \in Asks, replies'[a] # Nothing PROVE MayAnswer(asks, past, a, replies'[a])
      OBVIOUS
    <3>1. CASE a = m.ask
      <4>1. a # 0
        BY VolumeBasics
      <4> QED BY <1>2, <2>1, <3>1, <4>1 DEF SaysTrue
    <3>2. CASE a # m.ask
      BY <2>1, <3>2 DEF AnswersInv
    <3> QED BY <3>1, <3>2
  <2> DEFINE n == [m EXCEPT !.at = "remember"]
  <2>3. n.ask = m.ask /\ n.v = m.v
    BY <1>2 DEF Calls
  <2>4. SaysTrue(asks, past, n)
    BY <1>2, <2>3 DEF SaysTrue
  <2> HIDE DEF n
  <2>5. handlers' = [handlers EXCEPT ![h] = NoCall] \/ handlers' = [handlers EXCEPT ![h] = n]
    BY <2>1 DEF n
  <2>6. \A k \in Handlers : SaysTrue(asks, past, handlers'[k])
    BY <1>0, <1>4, <2>4, <2>5 DEF AnswersInv
  <2> QED BY <1>0, <2>1, <2>2, <2>6 DEF AnswersInv
<1>7. CASE Remembers(h)
  <2>1. /\ remembered' = m.v
        /\ handlers' = [handlers EXCEPT ![h] = IF Pushed(m) THEN [m EXCEPT !.at = "push"] ELSE NoCall]
        /\ UNCHANGED <<up, replies>>
    BY <1>7 DEF Remembers
  <2> DEFINE n == [m EXCEPT !.at = "push"]
  <2>3. n.ask = m.ask /\ n.v = m.v
    BY <1>2 DEF Calls
  <2>4. SaysTrue(asks, past, n)
    BY <1>2, <2>3 DEF SaysTrue
  <2> HIDE DEF n
  <2>5. handlers' = [handlers EXCEPT ![h] = NoCall] \/ handlers' = [handlers EXCEPT ![h] = n]
    BY <2>1 DEF n
  <2>6. \A k \in Handlers : SaysTrue(asks, past, handlers'[k])
    BY <1>0, <1>4, <2>4, <2>5 DEF AnswersInv
  <2>7. remembered' \in past \cup {Unknown}
    BY <1>2, <2>1 DEF SaysTrue
  <2> QED BY <1>0, <2>1, <2>6, <2>7 DEF AnswersInv
<1>8. CASE Pushes(h)
  <2>1. handlers' = [handlers EXCEPT ![h] = NoCall] /\ UNCHANGED <<up, replies, remembered>>
    BY <1>8 DEF Pushes
  <2>2. \A k \in Handlers : SaysTrue(asks, past, handlers'[k])
    BY <1>0, <1>4, <2>1 DEF AnswersInv
  <2> QED BY <1>0, <2>1, <2>2 DEF AnswersInv
<1> QED BY <1>5, <1>6, <1>7, <1>8

LEMMA AnswersStep ==
  ASSUME VolumeTypeOK, AnswersInv, [VolumeNext]_volumeVars PROVE AnswersInv'
<1>1. CASE UNCHANGED volumeVars
  BY <1>1 DEF volumeVars, AnswersInv
<1>2. CASE Asking
  BY <1>2, AskAnswers, VolumeBasics DEF Asking
<1>3. CASE \E a \in Asks : PingPong(a)
  BY <1>3, PollAnswers
<1>4. CASE AtDevice
  BY <1>4, TellsAnswers, ObeysAnswers, ChangesAnswers, LostAnswers DEF AtDevice
<1>5. CASE AtWebhook
  BY <1>5, WebhookAnswers DEF AtWebhook
<1> QED BY <1>1, <1>2, <1>3, <1>4, <1>5, VolumeSteps

LEMMA AnswersBegin == VolumeInit => AnswersInv
<1> SUFFICES ASSUME VolumeInit PROVE AnswersInv
  OBVIOUS
<1>1. level \in past /\ Len(down) = 0 /\ Len(up) = 0 /\ remembered = Unknown
  BY DEF VolumeInit
<1>2. \A a \in Asks : replies[a] = Nothing /\ asks[a] = NoAsk
  BY DEF VolumeInit
<1>3. NoAsk.at = "none" /\ NoAsk.ran = FALSE /\ NoCall.ask = 0 /\ NoCall.v = Unknown
  BY DEF NoAsk, NoCall
<1>4. \A a \in Asks : Begun(asks[a], level) /\ RightAnswer(asks[a], past)
  BY <1>2, <1>3 DEF Begun, RightAnswer
<1>5. \A h \in Handlers : SaysTrue(asks, past, handlers[h])
  BY <1>3 DEF VolumeInit, SaysTrue
<1> QED BY <1>1, <1>2, <1>4, <1>5 DEF AnswersInv

(* "Never invents a number" (service.py:254-260): whatever is lost, late,  *)
(* repeated or out of order between the device and the webhook, a request  *)
(* told as answered was taken by the device, a level told as fresh was held*)
(* by the device since the request began, one told as remembered was held  *)
(* once: for every number of requests, levels, calls and faults.           *)
THEOREM AnswersAreTrue == VolumeSpec => []AnswersTrue
<1>1. VolumeInit => VolumeTypeOK /\ AnswersInv
  BY VolumeTypeInit, AnswersBegin
<1>2. VolumeTypeOK /\ AnswersInv /\ [VolumeNext]_volumeVars => (VolumeTypeOK /\ AnswersInv)'
  BY VolumeTypeStep, AnswersStep
<1>3. AnswersInv => AnswersTrue
  BY DEF AnswersInv, AnswersTrue, RightAnswer
<1> QED BY <1>1, <1>2, <1>3, PTL DEF VolumeSpec

-----------------------------------------------------------------------------
(* The App in step.  Of the reports under way, in the queue u or with the  *)
(* handlers c, the last that matters has the level now; with none under    *)
(* way, x has it.  One matters if it tells a level and is of the types T;  *)
(* it is under way in the stages S of its handler.                         *)

Matters(T, m) == m.v # Unknown /\ m.type \in T

InQueue(T, now, u) == \E i \in 1..Len(u) :
  /\ Matters(T, u[i]) /\ u[i].v = now
  /\ \A j \in 1..Len(u) : j > i => ~Matters(T, u[j])

NotQueued(T, u) == \A i \in 1..Len(u) : ~Matters(T, u[i])

InHand(T, S, now, c) == \E h \in Handlers : c[h].at \in S /\ Matters(T, c[h]) /\ c[h].v = now

NotInHand(T, S, c) == \A h \in Handlers : c[h].at \notin S \/ ~Matters(T, c[h])

InStep(T, S, now, u, c, x) ==
  \/ InQueue(T, now, u)
  \/ NotQueued(T, u) /\ InHand(T, S, now, c)
  \/ NotQueued(T, u) /\ NotInHand(T, S, c) /\ x \in {now, Unknown}

AllTypes == {"none", "status", "ack", "changed", "pong"}

OneCall == \A h, k \in Handlers : handlers[h].at # "none" /\ handlers[k].at # "none" => h = k

StepInv ==
  faults = {} =>
    /\ OneCall
    /\ \A h \in Handlers : handlers[h].at = "push" => handlers[h].type \in {"status", "changed"}
    /\ InStep(AllTypes, {"store", "remember"}, level, up, handlers, remembered)
    /\ InStep({"status", "changed"}, {"store", "remember", "push"}, level, up, handlers, shown)

LEMMA AppendEstablishes ==
  ASSUME NEW T, NEW S, NEW now, NEW u \in Seq(Reports), NEW c, NEW x, NEW m \in Reports,
         Matters(T, m), m.v = now
  PROVE  InStep(T, S, now, Append(u, m), c, x)
<1>1. Len(u) \in Nat /\ Len(Append(u, m)) = Len(u) + 1 /\ Append(u, m)[Len(u) + 1] = m
  BY AppendProperties, LenProperties
<1>2. Len(u) + 1 \in 1..Len(Append(u, m))
      /\ \A j \in 1..Len(Append(u, m)) : ~(j > Len(u) + 1)
  BY <1>1
<1> QED BY <1>1, <1>2 DEF InStep, InQueue

LEMMA AppendKeeps ==
  ASSUME NEW T, NEW S, NEW now, NEW u \in Seq(Reports), NEW c, NEW x, NEW m \in Reports,
         Matters(T, m) => m.v = now, InStep(T, S, now, u, c, x)
  PROVE  InStep(T, S, now, Append(u, m), c, x)
<1> DEFINE w == Append(u, m)
<1>1. Len(u) \in Nat /\ Len(w) = Len(u) + 1 /\ w[Len(u) + 1] = m /\ \A i \in 1..Len(u) : w[i] = u[i]
  BY AppendProperties, LenProperties
<1>2. \A j \in 1..Len(w) : j \in 1..Len(u) \/ j = Len(u) + 1
  BY <1>1
<1>3. CASE Matters(T, m)
  BY <1>3, AppendEstablishes
<1>4. CASE ~Matters(T, m)
  <2> HIDE DEF w
  <2>1. CASE InQueue(T, now, u)
    <3>1. PICK i \in 1..Len(u) : /\ Matters(T, u[i]) /\ u[i].v = now
                                 /\ \A j \in 1..Len(u) : j > i => ~Matters(T, u[j])
      BY <2>1 DEF InQueue
    <3>2. i \in 1..Len(w) /\ w[i] = u[i]
      BY <1>1
    <3>3. \A j \in 1..Len(w) : j > i => ~Matters(T, w[j])
      BY <1>1, <1>2, <1>4, <3>1
    <3>4. InQueue(T, now, w)
      BY <3>1, <3>2, <3>3 DEF InQueue
    <3> QED BY <3>4 DEF InStep, w
  <2>2. CASE NotQueued(T, u)
    <3>1. NotQueued(T, w)
      BY <1>1, <1>2, <1>4, <2>2 DEF NotQueued
    <3>2. InQueue(T, now, u) => FALSE
      BY <2>2 DEF InQueue, NotQueued
    <3> QED BY <3>1, <3>2 DEF InStep, w
  <2> QED BY <2>1, <2>2 DEF InStep
<1> QED BY <1>3, <1>4

(* The first of the queue is handed to a handler, when all are free.       *)
LEMMA HandedOver ==
  ASSUME NEW T, NEW S, NEW now, NEW u \in Seq(Reports), NEW c, NEW d, NEW x, NEW h \in Handlers,
         u # <<>>, InStep(T, S, now, u, c, x), "none" \notin S,
         \A k \in Handlers : c[k].at = "none",
         \A k \in Handlers : k # h => d[k].at = "none",
         d[h].at \in S, d[h].type = u[1].type, d[h].v = u[1].v
  PROVE  InStep(T, S, now, Tail(u), d, x)
<1> DEFINE w == Tail(u)
<1>1. Len(u) \in Nat /\ Len(w) = Len(u) - 1 /\ (\A i \in 1..Len(w) : w[i] = u[i + 1]) /\ Len(u) >= 1
  <2>1. Len(u) \in Nat /\ Len(u) # 0
    BY LenProperties, EmptySeq
  <2> QED BY <2>1, HeadTailProperties
<1> HIDE DEF w
<1>2. Matters(T, d[h]) = Matters(T, u[1])
  BY DEF Matters
<1>3. CASE InQueue(T, now, u)
  <2>1. PICK i \in 1..Len(u) : /\ Matters(T, u[i]) /\ u[i].v = now
                               /\ \A j \in 1..Len(u) : j > i => ~Matters(T, u[j])
    BY <1>3 DEF InQueue
  <2>2. CASE i = 1
    <3>1. NotQueued(T, w)
      <4> SUFFICES ASSUME NEW j \in 1..Len(w) PROVE ~Matters(T, w[j])
        BY DEF NotQueued
      <4>1. j + 1 \in 1..Len(u) /\ j + 1 > 1
        BY <1>1
      <4> QED BY <1>1, <2>1, <2>2, <4>1
    <3>2. InHand(T, S, now, d)
      BY <1>2, <2>1, <2>2 DEF InHand
    <3> QED BY <3>1, <3>2 DEF InStep, w
  <2>3. CASE i # 1
    <3>1. i - 1 \in 1..Len(w) /\ w[i - 1] = u[i]
      <4>1. i - 1 \in 1..Len(w) /\ (i - 1) + 1 = i
        BY <1>1, <2>3
      <4> QED BY <1>1, <4>1
    <3>2. \A j \in 1..Len(w) : j > i - 1 => ~Matters(T, w[j])
      <4> SUFFICES ASSUME NEW j \in 1..Len(w), j > i - 1 PROVE ~Matters(T, w[j])
        OBVIOUS
      <4>1. j + 1 \in 1..Len(u) /\ j + 1 > i
        BY <1>1
      <4> QED BY <1>1, <2>1, <4>1
    <3>3. InQueue(T, now, w)
      BY <2>1, <3>1, <3>2 DEF InQueue
    <3> QED BY <3>3 DEF InStep, w
  <2> QED BY <2>2, <2>3
<1>4. CASE NotQueued(T, u) /\ ~InQueue(T, now, u)
  <2>1. NotQueued(T, w)
    <3> SUFFICES ASSUME NEW j \in 1..Len(w) PROVE ~Matters(T, w[j])
      BY DEF NotQueued
    <3>1. j + 1 \in 1..Len(u)
      BY <1>1
    <3> QED BY <1>1, <1>4, <3>1 DEF NotQueued
  <2>2. ~InHand(T, S, now, c)
    BY DEF InHand
  <2>3. x \in {now, Unknown}
    BY <1>4, <2>2 DEF InStep
  <2>4. ~Matters(T, u[1])
    <3>1. 1 \in 1..Len(u)
      BY <1>1
    <3> QED BY <1>4, <3>1 DEF NotQueued
  <2>5. NotInHand(T, S, d)
    BY <1>2, <2>4 DEF NotInHand
  <2> QED BY <2>1, <2>3, <2>5 DEF InStep, w
<1> QED BY <1>3, <1>4 DEF InStep

(* The one call that is under way goes on, is of no matter, or is done.    *)
LEMMA CallGoesOn ==
  ASSUME NEW T, NEW S, NEW now, NEW u, NEW c, NEW d, NEW x, NEW y, NEW h \in Handlers,
         InStep(T, S, now, u, c, x), "none" \notin S,
         \A k \in Handlers : k # h => c[k].at = "none" /\ d[k].at = "none",
         \/ d[h].at \in S /\ c[h].at \in S /\ d[h].type = c[h].type /\ d[h].v = c[h].v /\ y = x
         \/ d[h].at \notin S /\ (c[h].at \notin S \/ ~Matters(T, c[h])) /\ y = x
         \/ d[h].at \notin S /\ c[h].at \in S /\ y = c[h].v /\ (Matters(T, c[h]) \/ y = Unknown)
  PROVE  InStep(T, S, now, u, d, y)
<1>1. CASE InQueue(T, now, u)
  BY <1>1 DEF InStep
<1>2. CASE NotQueued(T, u) /\ ~InQueue(T, now, u)
  <2>1. CASE d[h].at \in S /\ c[h].at \in S /\ d[h].type = c[h].type /\ d[h].v = c[h].v /\ y = x
    <3>1. InHand(T, S, now, c) => InHand(T, S, now, d)
      BY <2>1 DEF InHand, Matters
    <3>2. NotInHand(T, S, c) => NotInHand(T, S, d)
      BY <2>1 DEF NotInHand, Matters
    <3> QED BY <1>2, <2>1, <3>1, <3>2 DEF InStep
  <2>2. CASE d[h].at \notin S /\ (c[h].at \notin S \/ ~Matters(T, c[h])) /\ y = x
    <3>1. ~InHand(T, S, now, c)
      BY <2>2 DEF InHand
    <3>2. NotInHand(T, S, d)
      BY <2>2 DEF NotInHand
    <3> QED BY <1>2, <2>2, <3>1, <3>2 DEF InStep
  <2>3. CASE d[h].at \notin S /\ c[h].at \in S /\ y = c[h].v /\ (Matters(T, c[h]) \/ y = Unknown)
    <3>1. NotInHand(T, S, d)
      BY <2>3 DEF NotInHand
    <3>2. y \in {now, Unknown}
      <4>1. CASE Matters(T, c[h])
        <5>1. ~NotInHand(T, S, c)
          BY <2>3, <4>1 DEF NotInHand
        <5>2. InHand(T, S, now, c)
          BY <1>2, <5>1 DEF InStep
        <5> QED BY <2>3, <5>2 DEF InHand
      <4> QED BY <2>3, <4>1
    <3> QED BY <1>2, <3>1, <3>2 DEF InStep
  <2> QED BY <2>1, <2>2, <2>3
<1> QED BY <1>1, <1>2 DEF InStep

LEMMA CallDone ==
  ASSUME NEW T, NEW S, NEW now, NEW u, NEW c, NEW d, NEW x, NEW h \in Handlers,
         InStep(T, S, now, u, c, x), "none" \notin S,
         \A k \in Handlers : k # h => c[k].at = "none" /\ d[k].at = "none",
         d[h].at \notin S, c[h].at \in S, Matters(T, c[h]) \/ c[h].v = Unknown
  PROVE  InStep(T, S, now, u, d, c[h].v)
BY CallGoesOn

Types2 == {"status", "changed"}

LEMMA AskStep ==
  ASSUME VolumeTypeOK, StepInv, UNCHANGED <<faults, level, up, handlers, remembered, shown>>
  PROVE  StepInv'
BY DEF StepInv, OneCall

(* The level tells of itself when it is changed, and only of itself.       *)
LEMMA DeviceInStep ==
  ASSUME VolumeTypeOK, StepInv, AtDevice
  PROVE  StepInv'
<1> SUFFICES ASSUME faults' = {} PROVE StepInv'
  BY DEF StepInv
<1>0. up \in Seq(Reports) /\ level \in DeviceLevels /\ Unknown \notin DeviceLevels
      /\ asks \in [Asks -> Askings]
  BY VolumeBasics DEF VolumeTypeOK, Reports, Askings, DeviceLevels
<1>1. UNCHANGED <<faults, handlers, remembered, shown>>
  BY DEF AtDevice, DeviceTells, DeviceObeys, DeviceChanges, Lost
<1>2. /\ OneCall'
      /\ \A h \in Handlers : handlers'[h].at = "push" => handlers'[h].type \in {"status", "changed"}
  BY <1>1 DEF StepInv, OneCall
<1>3. \A T \in {AllTypes, Types2} : \A S, x :
        InStep(T, S, level, up, handlers, x) => InStep(T, S, level', up', handlers, x)
  <2> SUFFICES ASSUME NEW T \in {AllTypes, Types2}, NEW S, NEW x, InStep(T, S, level, up, handlers, x)
               PROVE  InStep(T, S, level', up', handlers, x)
    OBVIOUS
  <2>1. ASSUME NEW a \in Asks, DeviceTells(a) PROVE InStep(T, S, level', up', handlers, x)
    <3>1. PICK t \in {"status", "pong"}, v \in {level, Unknown} : up' = Append(up, Report(t, a, v))
      BY <2>1 DEF DeviceTells
    <3> DEFINE m == Report(t, a, v)
    <3>2. m \in Reports
      BY <1>0, <3>1, ReportType DEF Known
    <3>3. m.v = v
      BY DEF Report
    <3> HIDE DEF m
    <3>4. Matters(T, m) => m.v = level
      BY <3>1, <3>3 DEF Matters
    <3>5. InStep(T, S, level, Append(up, m), handlers, x)
      BY <1>0, <3>2, <3>4, AppendKeeps
    <3>6. level' = level /\ up' = Append(up, m)
      BY <2>1, <3>1 DEF DeviceTells, m
    <3> QED BY <3>5, <3>6
  <2>2. ASSUME NEW a \in Asks, DeviceObeys(a) PROVE InStep(T, S, level', up', handlers, x)
    <3> DEFINE w == asks[a].v
    <3>1. w \in DeviceLevels /\ level' = w
      BY <1>0, <2>2 DEF Askings, DeviceObeys
    <3>2. PICK v \in {w, Unknown} :
            \/ w = level /\ up' = Append(up, Report("ack", a, v))
            \/ up' = up \o <<Report("ack", a, v), Report("changed", 0, w)>>
            \/ up' = up \o <<Report("changed", 0, w), Report("ack", a, v)>>
      BY <2>2 DEF DeviceObeys
    <3> DEFINE m == Report("ack", a, v)
               n == Report("changed", 0, w)
    <3>3. m.v = v /\ n.v = w /\ n.type = "changed"
      BY DEF Report
    <3>4. m \in Reports /\ n \in Reports
      BY <1>0, <3>1, <3>2, ReportType DEF Known
    <3>5. \/ w = level /\ up' = Append(up, m)
          \/ up' = up \o <<m, n>>
          \/ up' = up \o <<n, m>>
      BY <3>2
    <3> HIDE DEF m, n
    <3>6. up \o <<m, n>> = Append(Append(up, m), n) /\ up \o <<n, m>> = Append(Append(up, n), m)
      BY <1>0, <3>4
    <3>7. (Matters(T, m) => m.v = w) /\ Matters(T, n)
      BY <1>0, <3>1, <3>2, <3>3 DEF Matters, AllTypes, Types2
    <3>8. CASE w = level /\ up' = Append(up, m)
      <4>1. InStep(T, S, level, Append(up, m), handlers, x)
        BY <1>0, <3>4, <3>7, <3>8, AppendKeeps
      <4> QED BY <3>1, <3>8, <4>1
    <3>9. CASE up' = up \o <<m, n>>
      <4>1. Append(up, m) \in Seq(Reports)
        BY <1>0, <3>4, AppendProperties
      <4>2. InStep(T, S, w, Append(Append(up, m), n), handlers, x)
        BY <3>3, <3>4, <3>7, <4>1, AppendEstablishes
      <4> QED BY <3>1, <3>6, <3>9, <4>2
    <3>10. CASE up' = up \o <<n, m>>
      <4>1. Append(up, n) \in Seq(Reports)
        BY <1>0, <3>4, AppendProperties
      <4>2. InStep(T, S, w, Append(up, n), handlers, x)
        BY <1>0, <3>3, <3>4, <3>7, AppendEstablishes
      <4>3. InStep(T, S, w, Append(Append(up, n), m), handlers, x)
        BY <3>4, <3>7, <4>1, <4>2, AppendKeeps
      <4> QED BY <3>1, <3>6, <3>10, <4>3
    <3> QED BY <3>5, <3>8, <3>9, <3>10
  <2>3. ASSUME NEW w \in DeviceLevels, DeviceChanges(w) PROVE InStep(T, S, level', up', handlers, x)
    <3> DEFINE n == Report("changed", 0, w)
    <3>1. n.v = w /\ n.type = "changed" /\ n \in Reports
      BY ReportType DEF Report, Known
    <3>2. level' = w /\ up' = Append(up, n)
      BY <2>3 DEF DeviceChanges, Holds
    <3> HIDE DEF n
    <3>3. Matters(T, n)
      BY <1>0, <3>1 DEF Matters, AllTypes, Types2
    <3>4. InStep(T, S, w, Append(up, n), handlers, x)
      BY <1>0, <3>1, <3>3, AppendEstablishes
    <3> QED BY <3>2, <3>4
  <2>4. ~Lost
    BY <1>1 DEF Lost
  <2> QED BY <2>1, <2>2, <2>3, <2>4 DEF AtDevice
<1>4. StepInv
  OBVIOUS
<1> QED BY <1>1, <1>2, <1>3, <1>4 DEF StepInv, Types2

LEMMA WebhookStep ==
  ASSUME VolumeTypeOK, StepInv, NEW h \in Handlers,
         (\E i \in 1..Len(up) : Delivered(h, i)) \/ Stores(h) \/ Remembers(h) \/ Pushes(h)
  PROVE  StepInv'
<1> SUFFICES ASSUME faults' = {} PROVE StepInv'
  BY DEF StepInv
<1>0. faults = {} /\ level' = level /\ up \in Seq(Reports) /\ handlers \in [Handlers -> Calls]
  BY DEF Delivered, Stores, Remembers, Pushes, VolumeTypeOK, Reports, Calls
<1>1. /\ OneCall
      /\ \A k \in Handlers : handlers[k].at = "push" => handlers[k].type \in {"status", "changed"}
      /\ InStep(AllTypes, {"store", "remember"}, level, up, handlers, remembered)
      /\ InStep(Types2, {"store", "remember", "push"}, level, up, handlers, shown)
  BY <1>0 DEF StepInv, Types2
<1> DEFINE m == handlers[h]
<1>2. m \in Calls /\ NoCall.at = "none"
  BY <1>0 DEF NoCall
<1>3. ASSUME NEW i \in 1..Len(up), Delivered(h, i) PROVE StepInv'
  <2>1. PICK c \in Calls : /\ handlers' = [handlers EXCEPT ![h] = c] /\ up[i] \in Reports
                           /\ c.at = FirstStep(up[i]) /\ c.type = up[i].type /\ c.ask = up[i].ask /\ c.v = up[i].v
    BY <1>3, CallFacts
  <2>2. i = 1 /\ Free /\ UNCHANGED <<remembered, shown>> /\ up' = Without(up, 1)
    BY <1>0, <1>3 DEF Delivered
  <2>3. up # <<>> /\ up' = Tail(up)
    <3>1. Len(up) \in Nat /\ 1 \in 1..Len(up)
      BY <1>0, <2>2, LenProperties
    <3>2. up # <<>>
      BY <3>1
    <3>3. Without(up, 1) \in Seq(Reports) /\ Len(Without(up, 1)) = Len(up) - 1
          /\ \A j \in 1..(Len(up) - 1) : Without(up, 1)[j] = IF j < 1 THEN up[j] ELSE up[j + 1]
      BY <1>0, <3>1, WithoutFacts
    <3>4. Tail(up) \in Seq(Reports) /\ Len(Tail(up)) = Len(up) - 1
          /\ \A j \in 1..Len(Tail(up)) : Tail(up)[j] = up[j + 1]
      BY <1>0, <3>2, HeadTailProperties
    <3>5. \A j \in 1..(Len(up) - 1) : Without(up, 1)[j] = Tail(up)[j]
      <4> SUFFICES ASSUME NEW j \in 1..(Len(up) - 1) PROVE Without(up, 1)[j] = Tail(up)[j]
        OBVIOUS
      <4>1. ~(j < 1) /\ j \in 1..Len(Tail(up))
        BY <3>1, <3>4
      <4>2. Without(up, 1)[j] = up[j + 1]
        BY <3>3, <4>1
      <4>3. Tail(up)[j] = up[j + 1]
        BY <3>4, <4>1
      <4> QED BY <4>2, <4>3
    <3>6. Without(up, 1) = Tail(up)
      BY <3>1, <3>3, <3>4, <3>5, SeqEqual
    <3> QED BY <2>2, <3>2, <3>6
  <2>4. \A k \in Handlers : handlers[k].at = "none"
    BY <1>2, <2>2 DEF Free
  <2>5. handlers'[h] = c /\ \A k \in Handlers : k # h => handlers'[k].at = "none"
    BY <1>0, <2>1, <2>4
  <2>6. c.at \in {"store", "remember"}
    BY <2>1 DEF FirstStep
  <2>7. InStep(AllTypes, {"store", "remember"}, level, Tail(up), handlers', remembered)
    BY <1>0, <1>1, <2>1, <2>2, <2>3, <2>4, <2>5, <2>6, HandedOver
  <2>8. InStep(Types2, {"store", "remember", "push"}, level, Tail(up), handlers', shown)
    BY <1>0, <1>1, <2>1, <2>2, <2>3, <2>4, <2>5, <2>6, HandedOver, ZenonT(40)
  <2>9. OneCall' /\ \A k \in Handlers : handlers'[k].at = "push" => handlers'[k].type \in {"status", "changed"}
    BY <2>5, <2>6 DEF OneCall
  <2> QED BY <1>0, <2>2, <2>3, <2>7, <2>8, <2>9 DEF StepInv, Types2
(* The others are idle while h is busy.                                    *)
<1>4. ASSUME m.at # "none" PROVE \A k \in Handlers : k # h => handlers[k].at = "none"
  BY <1>1, <1>4 DEF OneCall
<1>5. ASSUME NEW c, handlers' = [handlers EXCEPT ![h] = c], m.at # "none",
             c.at = "push" => c.type \in {"status", "changed"}
      PROVE  /\ handlers'[h] = c /\ \A k \in Handlers : k # h => handlers'[k].at = "none"
             /\ OneCall' /\ \A k \in Handlers : handlers'[k].at = "push" => handlers'[k].type \in {"status", "changed"}
  <2>1. handlers'[h] = c /\ \A k \in Handlers : k # h => handlers'[k].at = "none"
    BY <1>0, <1>4, <1>5
  <2> QED BY <1>5, <2>1 DEF OneCall
<1> DEFINE G(at) == [m EXCEPT !.at = at]
<1>6. \A at : G(at).at = at /\ G(at).type = m.type /\ G(at).v = m.v
  BY <1>2 DEF Calls
<1>7. m.type \in AllTypes /\ m.v \in Known
  BY <1>2 DEF Calls, AllTypes
<1> HIDE DEF G
<1>8. CASE Stores(h)
  <2>1. m.at = "store" /\ UNCHANGED <<up, remembered, shown>>
        /\ handlers' = [handlers EXCEPT ![h] = IF m.v = Unknown THEN NoCall ELSE G("remember")]
    BY <1>8 DEF Stores, G
  <2> DEFINE c == IF m.v = Unknown THEN NoCall ELSE G("remember")
  <2>2. \/ c.at = "none" /\ m.v = Unknown
        \/ c.at = "remember" /\ c.type = m.type /\ c.v = m.v
    BY <1>2, <1>6
  <2>3. handlers' = [handlers EXCEPT ![h] = c]
    BY <2>1
  <2> HIDE DEF c
  <2>4. /\ handlers'[h] = c /\ (\A k \in Handlers : k # h => handlers'[k].at = "none" /\ handlers[k].at = "none")
        /\ OneCall' /\ \A k \in Handlers : handlers'[k].at = "push" => handlers'[k].type \in {"status", "changed"}
    BY <1>4, <1>5, <2>1, <2>2, <2>3
  <2>5. \A T : m.v = Unknown => ~Matters(T, m)
    BY DEF Matters
  <2>6. InStep(AllTypes, {"store", "remember"}, level, up, handlers', remembered)
    <3>1. \/ handlers'[h].at \in {"store", "remember"} /\ m.at \in {"store", "remember"} /\ handlers'[h].type = m.type /\ handlers'[h].v = m.v /\ remembered = remembered
          \/ handlers'[h].at \notin {"store", "remember"} /\ (m.at \notin {"store", "remember"} \/ ~Matters(AllTypes, m)) /\ remembered = remembered
          \/ handlers'[h].at \notin {"store", "remember"} /\ m.at \in {"store", "remember"} /\ remembered = m.v /\ (Matters(AllTypes, m) \/ remembered = Unknown)
      BY <1>2, <2>1, <2>2, <2>4, <2>5
    <3>2. "none" \notin {"store", "remember"} /\ InStep(AllTypes, {"store", "remember"}, level, up, handlers, remembered)
          /\ \A k \in Handlers : k # h => handlers[k].at = "none" /\ handlers'[k].at = "none"
      BY <1>1, <2>4
    <3> HIDE DEF m
    <3>3. m = handlers[h]
      BY DEF m
    <3> QED BY <3>1, <3>2, <3>3, CallGoesOn, SMTT(30)
  <2>7. InStep(Types2, {"store", "remember", "push"}, level, up, handlers', shown)
    <3>1. \/ handlers'[h].at \in {"store", "remember", "push"} /\ m.at \in {"store", "remember", "push"} /\ handlers'[h].type = m.type /\ handlers'[h].v = m.v /\ shown = shown
          \/ handlers'[h].at \notin {"store", "remember", "push"} /\ (m.at \notin {"store", "remember", "push"} \/ ~Matters(Types2, m)) /\ shown = shown
          \/ handlers'[h].at \notin {"store", "remember", "push"} /\ m.at \in {"store", "remember", "push"} /\ shown = m.v /\ (Matters(Types2, m) \/ shown = Unknown)
      BY <1>2, <2>1, <2>2, <2>4, <2>5
    <3>2. "none" \notin {"store", "remember", "push"} /\ InStep(Types2, {"store", "remember", "push"}, level, up, handlers, shown)
          /\ \A k \in Handlers : k # h => handlers[k].at = "none" /\ handlers'[k].at = "none"
      BY <1>1, <2>4
    <3> HIDE DEF m
    <3>3. m = handlers[h]
      BY DEF m
    <3> QED BY <3>1, <3>2, <3>3, CallGoesOn
  <2> QED BY <1>0, <2>1, <2>4, <2>6, <2>7 DEF StepInv, Types2
<1>9. CASE Remembers(h)
  <2>1. m.at = "remember" /\ UNCHANGED <<up, shown>> /\ remembered' = m.v
        /\ handlers' = [handlers EXCEPT ![h] = IF Pushed(m) THEN G("push") ELSE NoCall]
    BY <1>9 DEF Remembers, G
  <2> DEFINE c == IF Pushed(m) THEN G("push") ELSE NoCall
  <2>2. \/ c.at = "none" /\ m.type \notin {"status", "changed"}
        \/ c.at = "push" /\ c.type = m.type /\ c.v = m.v /\ m.type \in {"status", "changed"}
    BY <1>2, <1>6 DEF Pushed
  <2>3. handlers' = [handlers EXCEPT ![h] = c]
    BY <2>1
  <2> HIDE DEF c
  <2>4. /\ handlers'[h] = c /\ (\A k \in Handlers : k # h => handlers'[k].at = "none" /\ handlers[k].at = "none")
        /\ OneCall' /\ \A k \in Handlers : handlers'[k].at = "push" => handlers'[k].type \in {"status", "changed"}
    BY <1>4, <1>5, <2>1, <2>2, <2>3
  <2>5. m.v = Unknown \/ Matters(AllTypes, m)
    BY <1>7 DEF Matters
  <2>6. m.type \notin {"status", "changed"} => ~Matters(Types2, m)
    BY DEF Matters, Types2
  <2>7. InStep(AllTypes, {"store", "remember"}, level, up, handlers', remembered')
    <3>1. /\ handlers'[h].at \notin {"store", "remember"} /\ m.at \in {"store", "remember"} /\ remembered' = m.v
          /\ Matters(AllTypes, m) \/ m.v = Unknown
      BY <1>2, <2>1, <2>2, <2>4, <2>5
    <3>2. "none" \notin {"store", "remember"} /\ InStep(AllTypes, {"store", "remember"}, level, up, handlers, remembered)
          /\ \A k \in Handlers : k # h => handlers[k].at = "none" /\ handlers'[k].at = "none"
      BY <1>1, <2>4
    <3> HIDE DEF m
    <3>3. m = handlers[h]
      BY DEF m
    <3>4. InStep(AllTypes, {"store", "remember"}, level, up, handlers', m.v)
      BY <3>1, <3>2, <3>3, CallDone
    <3> QED BY <3>1, <3>4
  <2>8. InStep(Types2, {"store", "remember", "push"}, level, up, handlers', shown)
    <3>1. \/ handlers'[h].at \in {"store", "remember", "push"} /\ m.at \in {"store", "remember", "push"} /\ handlers'[h].type = m.type /\ handlers'[h].v = m.v /\ shown = shown
          \/ handlers'[h].at \notin {"store", "remember", "push"} /\ (m.at \notin {"store", "remember", "push"} \/ ~Matters(Types2, m)) /\ shown = shown
          \/ handlers'[h].at \notin {"store", "remember", "push"} /\ m.at \in {"store", "remember", "push"} /\ shown = m.v /\ (Matters(Types2, m) \/ shown = Unknown)
      BY <1>2, <2>1, <2>2, <2>4, <2>6
    <3>2. "none" \notin {"store", "remember", "push"} /\ InStep(Types2, {"store", "remember", "push"}, level, up, handlers, shown)
          /\ \A k \in Handlers : k # h => handlers[k].at = "none" /\ handlers'[k].at = "none"
      BY <1>1, <2>4
    <3> HIDE DEF m
    <3>3. m = handlers[h]
      BY DEF m
    <3> QED BY <3>1, <3>2, <3>3, CallGoesOn
  <2> QED BY <1>0, <2>1, <2>4, <2>7, <2>8 DEF StepInv, Types2
<1>10. CASE Pushes(h)
  <2>1. m.at = "push" /\ UNCHANGED <<up, remembered>> /\ shown' = m.v
        /\ handlers' = [handlers EXCEPT ![h] = NoCall]
    BY <1>10 DEF Pushes
  <2>2. /\ handlers'[h] = NoCall /\ (\A k \in Handlers : k # h => handlers'[k].at = "none" /\ handlers[k].at = "none")
        /\ OneCall' /\ \A k \in Handlers : handlers'[k].at = "push" => handlers'[k].type \in {"status", "changed"}
    BY <1>2, <1>4, <1>5, <2>1
  <2>3. m.v = Unknown \/ Matters(Types2, m)
    BY <1>1, <2>1 DEF Matters, Types2
  <2>4. InStep(AllTypes, {"store", "remember"}, level, up, handlers', remembered)
    <3>1. \/ handlers'[h].at \in {"store", "remember"} /\ m.at \in {"store", "remember"} /\ handlers'[h].type = m.type /\ handlers'[h].v = m.v /\ remembered = remembered
          \/ handlers'[h].at \notin {"store", "remember"} /\ (m.at \notin {"store", "remember"} \/ ~Matters(AllTypes, m)) /\ remembered = remembered
          \/ handlers'[h].at \notin {"store", "remember"} /\ m.at \in {"store", "remember"} /\ remembered = m.v /\ (Matters(AllTypes, m) \/ remembered = Unknown)
      BY <1>2, <2>1, <2>2
    <3>2. "none" \notin {"store", "remember"} /\ InStep(AllTypes, {"store", "remember"}, level, up, handlers, remembered)
          /\ \A k \in Handlers : k # h => handlers[k].at = "none" /\ handlers'[k].at = "none"
      BY <1>1, <2>2
    <3> HIDE DEF m
    <3>3. m = handlers[h]
      BY DEF m
    <3> QED BY <3>1, <3>2, <3>3, CallGoesOn, SMTT(30)
  <2>5. InStep(Types2, {"store", "remember", "push"}, level, up, handlers', shown')
    <3>1. /\ handlers'[h].at \notin {"store", "remember", "push"} /\ m.at \in {"store", "remember", "push"} /\ shown' = m.v
          /\ Matters(Types2, m) \/ m.v = Unknown
      BY <1>2, <2>1, <2>2, <2>3
    <3>2. "none" \notin {"store", "remember", "push"} /\ InStep(Types2, {"store", "remember", "push"}, level, up, handlers, shown)
          /\ \A k \in Handlers : k # h => handlers[k].at = "none" /\ handlers'[k].at = "none"
      BY <1>1, <2>2
    <3> HIDE DEF m
    <3>3. m = handlers[h]
      BY DEF m
    <3>4. InStep(Types2, {"store", "remember", "push"}, level, up, handlers', m.v)
      BY <3>1, <3>2, <3>3, CallDone
    <3> QED BY <3>1, <3>4
  <2> QED BY <1>0, <2>1, <2>2, <2>4, <2>5 DEF StepInv, Types2
<1> QED BY <1>3, <1>8, <1>9, <1>10

LEMMA InStepStep ==
  ASSUME VolumeTypeOK, StepInv, [VolumeNext]_volumeVars PROVE StepInv'
<1>1. CASE UNCHANGED volumeVars
  BY <1>1, AskStep DEF volumeVars
<1>2. CASE Asking \/ \E a \in Asks : PingPong(a)
  BY <1>2, AskStep DEF Asking, Ask, PingPong
<1>3. CASE AtDevice
  BY <1>3, DeviceInStep
<1>4. CASE AtWebhook
  BY <1>4, WebhookStep DEF AtWebhook
<1> QED BY <1>1, <1>2, <1>3, <1>4, VolumeSteps

LEMMA InStepBegin == VolumeInit => StepInv
<1> SUFFICES ASSUME VolumeInit PROVE StepInv
  OBVIOUS
<1>1. Len(up) = 0 /\ remembered = Unknown /\ shown = Unknown /\ \A h \in Handlers : handlers[h].at = "none"
  BY DEF VolumeInit, NoCall
<1>2. \A T : NotQueued(T, up)
  BY <1>1 DEF NotQueued
<1>3. \A T : NotInHand(T, {"store", "remember"}, handlers)
             /\ NotInHand(T, {"store", "remember", "push"}, handlers)
  BY <1>1 DEF NotInHand
<1> QED BY <1>1, <1>2, <1>3 DEF StepInv, OneCall, InStep

(* "What keeps an open App in step without polling the device"             *)
(* (iot.py:144-150): with reports handled one after the other, in order and*)
(* none lost, whenever none is under way the level remembered for the      *)
(* fallback and the level shown in the App are those of the device: for    *)
(* every number of requests, changes and levels.                           *)
THEOREM AppStaysInStep == VolumeSpec => []AppInStep
<1>1. VolumeInit => VolumeTypeOK /\ StepInv
  BY VolumeTypeInit, InStepBegin
<1>2. VolumeTypeOK /\ StepInv /\ [VolumeNext]_volumeVars => (VolumeTypeOK /\ StepInv)'
  BY VolumeTypeStep, InStepStep
<1>3. StepInv => AppInStep
  <2> SUFFICES ASSUME StepInv, faults = {}, Caught PROVE {remembered, shown} \subseteq {level, Unknown}
    BY DEF AppInStep
  <2>1. Len(up) = 0 /\ \A h \in Handlers : handlers[h].at = "none"
    BY DEF Caught, Free, NoCall
  <2>2. \A T : ~InQueue(T, level, up)
    BY <2>1 DEF InQueue
  <2>3. \A T : ~InHand(T, {"store", "remember"}, level, handlers)
               /\ ~InHand(T, {"store", "remember", "push"}, level, handlers)
    BY <2>1 DEF InHand
  <2> QED BY <2>2, <2>3 DEF StepInv, InStep
<1> QED BY <1>1, <1>2, <1>3, PTL DEF VolumeSpec

-----------------------------------------------------------------------------
(* AppSockets.                                                             *)

Made(c) == conns[c].at # "none"

(* Sockets are numbered in the order in which they were opened.            *)
Numbered == \A c \in Conns : \A d \in 1..(c - 1) : Made(c) => Made(d)

(* What the registry of a pod names is the last socket of that App there.  *)
Registered == \A p \in Pods, a \in Apps : registry[p][a] # 0 =>
  /\ registry[p][a] \in Of(a, p)
  /\ \A d \in Of(a, p) : d <= registry[p][a]

FanOwn == \A p \in Pods : \A c \in fan[p].left : Made(c) /\ conns[c].pod = p

(* Something may still be sent to d, or its handler end.                   *)
Pending(d) == conns[d].at # "over" \/ d \in fan[conns[d].pod].left \/ \E s \in locals : s.conn = d

Earlier(c, d) == d < c /\ Made(d) /\ conns[d].app = conns[c].app /\ conns[d].pod = conns[c].pod

Cleared == \A c, d \in Conns : Made(c) /\ conns[c].alone /\ Earlier(c, d) => ~Pending(d)

LocalsMade == \A s \in locals : Made(s.conn)

DueMade == \A n \in Notes : \A c \in due[n] : Made(c)

Carried(n, c) == LET p == conns[c].pod IN
  \/ n \in conns[c].got
  \/ \E i \in DOMAIN inbox[p] : inbox[p][i].note = n /\ conns[c].app \in inbox[p][i].to
  \/ fan[p].note = n /\ c \in fan[p].left

OnItsWay == \A n \in Notes : \A c \in due[n] :
  conns[c].at = "open" /\ registry[conns[c].pod][conns[c].app] = c => Carried(n, c)

Wired == Numbered /\ Registered /\ FanOwn /\ LocalsMade /\ Cleared /\ OpenIsReachable

Inv == SocketTypeOK /\ Wired /\ DueMade /\ OnItsWay

-----------------------------------------------------------------------------
(* Types.                                                                   *)

LEMMA ConnsAreNumbers == Conns \subseteq Nat \ {0} /\ 0 \notin Conns
BY SocketAssumption DEF Conns

LEMMA AnAppPod == AnApp \in Apps /\ APod \in Pods
BY SocketAssumption DEF AnApp, APod

LEMMA NoConnType == NoConn \in SocketStates
BY AnAppPod, Zenon DEF NoConn, SocketStates

(* A new socket.                                                           *)
LEMMA OpenType ==
  ASSUME NEW a \in Apps, NEW p \in Pods, NEW b \in BOOLEAN
  PROVE  [NoConn EXCEPT !.at = "open", !.app = a, !.pod = p, !.alone = b] \in SocketStates
BY NoConnType, Zenon DEF NoConn, SocketStates

(* What a step does to one socket.                                         *)
LEMMA SocketChanges ==
  ASSUME NEW s \in SocketStates
  PROVE  /\ \A at \in {"none", "open", "lost", "over"} : [s EXCEPT !.at = at] \in SocketStates
         /\ \A b \in BOOLEAN : [s EXCEPT !.roasts = b] \in SocketStates
         /\ \A b \in BOOLEAN : [s EXCEPT !.at = "over", !.roasts = b] \in SocketStates
         /\ \A g \in SUBSET Notes : [s EXCEPT !.got = g] \in SocketStates
         /\ s.at \in {"none", "open", "lost", "over"} /\ s.app \in Apps /\ s.pod \in Pods
         /\ s.got \subseteq Notes /\ s.roasts \in BOOLEAN
BY Zenon DEF SocketStates

LEMMA ToldType ==
  ASSUME SocketTypeOK, NEW c \in Conns, NEW n \in Notes
  PROVE  Told(c, n) \in [Conns -> SocketStates]
<1> DEFINE g == IF conns[c].at = "open" THEN conns[c].got \cup {n} ELSE conns[c].got
<1>1. conns[c] \in SocketStates
  BY DEF SocketTypeOK
<1>2. g \in SUBSET Notes
  BY <1>1, SocketChanges
<1>3. [conns[c] EXCEPT !.got = g] \in SocketStates
  BY <1>1, <1>2, SocketChanges
<1>4. Told(c, n) = [conns EXCEPT ![c] = [conns[c] EXCEPT !.got = g]]
  BY Zenon DEF Told
<1> QED BY <1>3, <1>4 DEF SocketTypeOK

(* An App is removed from the registry of a pod.                           *)
LEMMA PoppedType ==
  ASSUME SocketTypeOK, NEW p \in Pods, NEW a \in Apps
  PROVE  [registry EXCEPT ![p] = Popped(registry[p], a)] \in [Pods -> [Apps -> Conns \cup {0}]]
BY DEF SocketTypeOK, Popped

LEMMA SequenceFacts ==
  ASSUME NEW S, NEW s \in Seq(S)
  PROVE  /\ \A x \in S : Append(s, x) \in Seq(S)
         /\ <<>> \in Seq(S)
         /\ s # <<>> => Head(s) \in S /\ Tail(s) \in Seq(S)
OBVIOUS

LEMMA PublishType ==
  ASSUME SocketTypeOK, NEW n \in Notes, NEW to \in SUBSET Apps, Publish(n, to)
  PROVE  /\ inbox' \in [Pods -> Seq([note : Notes, to : SUBSET Apps])]
         /\ due' \in [Notes -> SUBSET Conns]
<1>1. [note |-> n, to |-> to] \in [note : Notes, to : SUBSET Apps]
  OBVIOUS
<1>2. ASSUME NEW p \in Pods
      PROVE  Append(inbox[p], [note |-> n, to |-> to]) \in Seq([note : Notes, to : SUBSET Apps])
  <2>1. inbox[p] \in Seq([note : Notes, to : SUBSET Apps])
    BY DEF SocketTypeOK
  <2> QED BY <1>1, <2>1, SequenceFacts, Zenon
<1>3. inbox' \in [Pods -> Seq([note : Notes, to : SUBSET Apps])]
  <2> DEFINE Items == [note : Notes, to : SUBSET Apps]
             New(p) == Append(inbox[p], [note |-> n, to |-> to])
  <2>1. \A p \in Pods : New(p) \in Seq(Items)
    BY <1>2
  <2>2. inbox' = [p \in Pods |-> IF listener[p] = "listening" THEN New(p) ELSE inbox[p]]
    BY DEF Publish
  <2>3. inbox \in [Pods -> Seq(Items)]
    BY DEF SocketTypeOK
  <2> HIDE DEF Items, New
  <2>4. inbox' \in [Pods -> Seq(Items)]
    BY <2>1, <2>2, <2>3
  <2> QED BY <2>4 DEF Items
<1>4. {registry[p][a] : p \in {q \in Pods : listener[q] = "listening"}, a \in to} \ {0} \in SUBSET Conns
  BY DEF SocketTypeOK
<1>5. due' \in [Notes -> SUBSET Conns]
  <2> DEFINE sockets == {registry[p][a] : p \in {q \in Pods : listener[q] = "listening"}, a \in to} \ {0}
  <2>1. due' = [due EXCEPT ![n] = sockets]
    BY DEF Publish
  <2>2. sockets \in SUBSET Conns
    BY <1>4
  <2> HIDE DEF sockets
  <2> QED BY <2>1, <2>2 DEF SocketTypeOK
<1> QED BY <1>3, <1>5

LEMMA ConnectType ==
  ASSUME SocketTypeOK, NEW c \in Conns, NEW a \in Apps, NEW p \in Pods, Connect(c, a, p)
  PROVE  SocketTypeOK'
<1>1. Alone(a, p) \in BOOLEAN
  BY DEF Alone
<1>2. conns' \in [Conns -> SocketStates]
  BY <1>1, OpenType DEF Connect, SocketTypeOK
<1>3. registry' \in [Pods -> [Apps -> Conns \cup {0}]]
  BY DEF Connect, SocketTypeOK
<1>4. listener' \in [Pods -> {"none", "starting", "listening", "crashed"}]
  BY DEF Connect, SocketTypeOK
<1> QED BY <1>2, <1>3, <1>4 DEF Connect, SocketTypeOK

(* The App goes, and its handler ends.                                     *)
LEMMA HandlerType ==
  ASSUME SocketTypeOK, NEW c \in Conns, AppGoes(c) \/ StartsRoast(c) \/ HandlerEnds(c)
  PROVE  SocketTypeOK'
<1>1. conns[c] \in SocketStates
  BY DEF SocketTypeOK
<1>2. CASE AppGoes(c)
  <2>1. [conns[c] EXCEPT !.at = "lost"] \in SocketStates
    BY <1>1, SocketChanges
  <2>2. conns' = [conns EXCEPT ![c] = [conns[c] EXCEPT !.at = "lost"]]
    BY <1>2, Zenon DEF AppGoes
  <2> QED BY <1>2, <2>1, <2>2 DEF AppGoes, SocketTypeOK
<1>3. CASE StartsRoast(c)
  <2> DEFINE b == ~conns[c].roasts
  <2>1. b \in BOOLEAN
    BY Zenon
  <2>2. [conns[c] EXCEPT !.roasts = b] \in SocketStates
    BY <1>1, <2>1, SocketChanges
  <2>3. conns' = [conns EXCEPT ![c] = [conns[c] EXCEPT !.roasts = b]]
    BY <1>3, Zenon DEF StartsRoast
  <2> HIDE DEF b
  <2> QED BY <1>3, <2>2, <2>3 DEF StartsRoast, SocketTypeOK
<1>4. CASE HandlerEnds(c)
  <2>1. [conns[c] EXCEPT !.at = "over", !.roasts = FALSE] \in SocketStates
    BY <1>1, SocketChanges
  <2>2. conns' = [conns EXCEPT ![c] = [conns[c] EXCEPT !.at = "over", !.roasts = FALSE]]
    BY <1>4, Zenon DEF HandlerEnds
  <2>3. conns[c].pod \in Pods /\ conns[c].app \in Apps
    BY <1>1, SocketChanges
  <2>4. registry' \in [Pods -> [Apps -> Conns \cup {0}]]
    BY <1>4, <2>3, PoppedType DEF HandlerEnds
  <2>5. conns' \in [Conns -> SocketStates]
    BY <2>1, <2>2 DEF SocketTypeOK
  <2> QED BY <1>4, <2>4, <2>5 DEF HandlerEnds, SocketTypeOK
<1> QED BY <1>2, <1>3, <1>4

LEMMA MessageType ==
  ASSUME SocketTypeOK,
         \/ BroadcastToUser \/ \E s \in locals : LocalSent(s)
         \/ \E p \in Pods, a \in Apps : Broadcast(p, a)
  PROVE  SocketTypeOK'
<1>0. notes < NoteCount => notes + 1 \in Notes /\ notes + 1 \in 0..NoteCount
  BY SocketAssumption DEF SocketTypeOK, Notes
<1>1. CASE BroadcastToUser
  <2>1. notes + 1 \in Notes /\ notes' \in 0..NoteCount /\ Publish(notes + 1, Apps)
    BY <1>0, <1>1 DEF BroadcastToUser
  <2>2. /\ inbox' \in [Pods -> Seq([note : Notes, to : SUBSET Apps])]
        /\ due' \in [Notes -> SUBSET Conns]
    BY <2>1, PublishType
  <2> QED BY <1>1, <2>1, <2>2 DEF BroadcastToUser, SocketTypeOK
<1>2. ASSUME NEW p \in Pods, NEW a \in Apps, Broadcast(p, a) PROVE SocketTypeOK'
  <2>1. notes + 1 \in Notes /\ notes' \in 0..NoteCount
    BY <1>0, <1>2 DEF Broadcast
  <2>2. CASE registry[p][a] # 0
    <3>1. registry[p][a] \in Conns
      BY <2>2 DEF SocketTypeOK
    <3>2. locals' \subseteq [conn : Conns, note : Notes]
      BY <1>2, <2>1, <2>2, <3>1 DEF Broadcast, SocketTypeOK
    <3> QED BY <1>2, <2>1, <2>2, <3>2 DEF Broadcast, SocketTypeOK
  <2>3. CASE registry[p][a] = 0
    <3>1. Publish(notes + 1, {a})
      BY <1>2, <2>3 DEF Broadcast
    <3>2. /\ inbox' \in [Pods -> Seq([note : Notes, to : SUBSET Apps])]
          /\ due' \in [Notes -> SUBSET Conns]
      BY <2>1, <3>1, PublishType
    <3> QED BY <1>2, <2>1, <2>3, <3>2 DEF Broadcast, SocketTypeOK
  <2> QED BY <2>2, <2>3
<1>3. ASSUME NEW s \in locals, LocalSent(s) PROVE SocketTypeOK'
  <2>1. s.conn \in Conns /\ s.note \in Notes
    BY DEF SocketTypeOK
  <2>2. conns[s.conn].app \in Apps /\ conns[s.conn].pod \in Pods
    BY <2>1, SocketChanges DEF SocketTypeOK
  <2>3. conns' \in [Conns -> SocketStates]
    <3>1. conns' \in {conns, Told(s.conn, s.note)}
      BY <1>3 DEF LocalSent
    <3>2. Told(s.conn, s.note) \in [Conns -> SocketStates]
      BY <2>1, ToldType
    <3>3. conns \in [Conns -> SocketStates]
      BY DEF SocketTypeOK
    <3> QED BY <3>1, <3>2, <3>3, Zenon
  <2>4. registry' \in [Pods -> [Apps -> Conns \cup {0}]]
    <3> DEFINE popped == [registry EXCEPT ![conns[s.conn].pod] = Popped(@, conns[s.conn].app)]
    <3>1. registry' \in {registry, popped}
      BY <1>3, Zenon DEF LocalSent
    <3>2. popped \in [Pods -> [Apps -> Conns \cup {0}]]
      BY <2>2, PoppedType
    <3> QED BY <3>1, <3>2 DEF SocketTypeOK
  <2>5. /\ inbox' \in [Pods -> Seq([note : Notes, to : SUBSET Apps])]
        /\ due' \in [Notes -> SUBSET Conns]
    <3>1. CASE UNCHANGED <<inbox, due>>
      BY <3>1 DEF SocketTypeOK
    <3>2. CASE Publish(s.note, {conns[s.conn].app})
      <4>1. {conns[s.conn].app} \in SUBSET Apps
        BY <2>2
      <4> QED BY <2>1, <3>2, <4>1, PublishType
    <3> QED BY <1>3, <3>1, <3>2 DEF LocalSent
  <2> QED BY <1>3, <2>3, <2>4, <2>5 DEF LocalSent, SocketTypeOK
<1> QED BY <1>1, <1>2, <1>3

LEMMA ListenerType ==
  ASSUME SocketTypeOK, NEW p \in Pods,
         Subscribes(p) \/ Crashes(p) \/ Takes(p) \/ \E c \in Conns : FanSends(p, c)
  PROVE  SocketTypeOK'
<1> DEFINE Items == [note : Notes, to : SUBSET Apps]
<1>1. CASE Subscribes(p)
  BY <1>1 DEF Subscribes, SocketTypeOK
<1>2. CASE Crashes(p)
  <2>1. listener' \in [Pods -> {"none", "starting", "listening", "crashed"}]
    BY <1>2 DEF Crashes, SocketTypeOK
  <2>2. inbox' \in [Pods -> Seq(Items)]
    <3>1. inbox \in [Pods -> Seq(Items)] /\ <<>> \in Seq(Items)
      <4>1. inbox \in [Pods -> Seq(Items)]
        BY DEF SocketTypeOK
      <4> HIDE DEF Items
      <4> QED BY <4>1
    <3> HIDE DEF Items
    <3> QED BY <1>2, <3>1 DEF Crashes
  <2>3. due' \in [Notes -> SUBSET Conns]
    BY <1>2 DEF Crashes, SocketTypeOK
  <2> QED BY <1>2, <2>1, <2>2, <2>3 DEF Crashes, SocketTypeOK
<1>3. CASE Takes(p)
  <2> DEFINE to == {registry[p][a] : a \in Head(inbox[p]).to} \ {0}
  <2>0. inbox[p] \in Seq(Items) /\ inbox[p] # <<>>
    BY <1>3 DEF Takes, SocketTypeOK
  <2>1. Head(inbox[p]) \in Items /\ Tail(inbox[p]) \in Seq(Items)
    BY <2>0, SequenceFacts, Zenon
  <2>2. inbox' \in [Pods -> Seq(Items)]
    <3>1. inbox \in [Pods -> Seq(Items)]
      BY DEF SocketTypeOK
    <3>2. inbox' = [inbox EXCEPT ![p] = Tail(inbox[p])]
      BY <1>3 DEF Takes
    <3> HIDE DEF Items
    <3> QED BY <2>1, <3>1, <3>2
  <2>3. to \in SUBSET Conns
    BY <2>1 DEF SocketTypeOK
  <2>4. fan' \in [Pods -> {NoFan} \cup [note : Notes, left : SUBSET Conns]]
    BY <1>3, <2>1, <2>3 DEF Takes, SocketTypeOK
  <2> QED BY <1>3, <2>2, <2>4 DEF Takes, SocketTypeOK
<1>4. ASSUME NEW c \in Conns, FanSends(p, c) PROVE SocketTypeOK'
  <2>1. fan[p] \in [note : Notes, left : SUBSET Conns]
    BY <1>4 DEF FanSends, NoFan, SocketTypeOK
  <2>2. fan' \in [Pods -> {NoFan} \cup [note : Notes, left : SUBSET Conns]]
    <3> DEFINE left == LeftAfter(fan[p].left, c, TRUE)
    <3>1. left \in SUBSET Conns
      BY <2>1 DEF LeftAfter
    <3>2. fan' = [fan EXCEPT ![p] = IF left = {} THEN NoFan ELSE [note |-> fan[p].note, left |-> left]]
      BY <1>4, <2>1 DEF FanSends, LeftAfter
    <3> HIDE DEF left
    <3>3. [note |-> fan[p].note, left |-> left] \in [note : Notes, left : SUBSET Conns]
      BY <2>1, <3>1
    <3> QED BY <3>2, <3>3 DEF SocketTypeOK
  <2>3. conns[c].app \in Apps
    BY SocketChanges DEF SocketTypeOK
  <2>4. registry' \in [Pods -> [Apps -> Conns \cup {0}]]
    <3> DEFINE popped == [registry EXCEPT ![p] = Popped(@, conns[c].app)]
    <3>1. registry' \in {registry, popped}
      BY <1>4, Zenon DEF FanSends
    <3>2. popped \in [Pods -> [Apps -> Conns \cup {0}]]
      BY <2>3, PoppedType
    <3> QED BY <3>1, <3>2 DEF SocketTypeOK
  <2>5. conns' \in [Conns -> SocketStates]
    <3>1. conns' \in {conns, Told(c, fan[p].note)}
      BY <1>4 DEF FanSends
    <3>2. Told(c, fan[p].note) \in [Conns -> SocketStates]
      BY <2>1, ToldType
    <3>3. conns \in [Conns -> SocketStates]
      BY DEF SocketTypeOK
    <3> QED BY <3>1, <3>2, <3>3, Zenon
  <2> QED BY <1>4, <2>2, <2>4, <2>5 DEF FanSends, SocketTypeOK
<1> QED BY <1>1, <1>2, <1>3, <1>4

-----------------------------------------------------------------------------
(* The registry.                                                            *)

(* Every step but Connect leaves the sockets who they are,                 *)
OnlyEnds == \A d \in Conns :
  /\ conns'[d].app = conns[d].app /\ conns'[d].pod = conns[d].pod
  /\ conns'[d].alone = conns[d].alone
  /\ conns'[d].at = "none" <=> conns[d].at = "none"
  /\ conns'[d].at = "open" => conns[d].at = "open"
  /\ conns[d].at = "over" => conns'[d].at = "over"
  /\ conns[d].got \subseteq conns'[d].got

(* removes an App from the registry only for a socket that is gone,        *)
PopsDead == \A p \in Pods, a \in Apps :
  \/ registry'[p][a] = registry[p][a]
  \/ registry'[p][a] = 0 /\ \E k \in Of(a, p) : conns[k].at # "open" /\ Pending(k)

(* and starts to send only to sockets in the registry.                     *)
SendsToNamed ==
  /\ \A p \in Pods : \A d \in fan'[p].left :
       d \in fan[p].left \/ \E a \in Apps : registry[p][a] # 0 /\ d = registry[p][a]
  /\ \A s \in locals' :
       s \in locals \/ \E p \in Pods, a \in Apps : registry[p][a] # 0 /\ s.conn = registry[p][a]

LEMMA WiredKept ==
  ASSUME SocketTypeOK, SocketTypeOK', Wired, OnlyEnds, PopsDead, SendsToNamed
  PROVE  Wired'
<1>1. \A a \in Apps, p \in Pods : Of(a, p)' = Of(a, p)
  BY DEF Of, OnlyEnds
<1>2. \A d \in Conns : /\ Made(d)' <=> Made(d)
                       /\ \A c \in Conns : Earlier(c, d)' <=> Earlier(c, d)
  BY DEF Made, Earlier, OnlyEnds
<1>3. Numbered'
  <2>1. \A c \in Conns : \A d \in 1..(c - 1) : d \in Conns
    BY SocketAssumption DEF Conns
  <2> QED BY <1>2, <2>1 DEF Wired, Numbered
<1>4. Registered'
  BY <1>1 DEF Wired, Registered, PopsDead
<1>5. FanOwn' /\ LocalsMade'
  <2>1. \A p \in Pods, a \in Apps : registry[p][a] # 0 =>
          registry[p][a] \in Conns /\ Made(registry[p][a]) /\ conns[registry[p][a]].pod = p
    BY DEF Wired, Registered, Of, Made
  <2>2. \A p \in Pods : fan[p].left \subseteq Conns
    <3>1. \A p \in Pods : fan[p] \in {NoFan} \cup [note : Notes, left : SUBSET Conns]
      BY DEF SocketTypeOK
    <3>2. NoFan.left = {}
      BY DEF NoFan
    <3> QED BY <3>1, <3>2
  <2>3. \A s \in locals : s.conn \in Conns
    BY DEF SocketTypeOK
  <2>4. \A p \in Pods : \A d \in fan'[p].left : d \in Conns /\ Made(d) /\ conns[d].pod = p
    BY <2>1, <2>2 DEF SendsToNamed, Wired, FanOwn
  <2>5. \A s \in locals' : s.conn \in Conns /\ Made(s.conn)
    BY <2>1, <2>3 DEF SendsToNamed, Wired, LocalsMade
  <2> QED BY <1>2, <2>4, <2>5 DEF FanOwn, LocalsMade, OnlyEnds
<1>6. Cleared'
  <2> SUFFICES ASSUME NEW c \in Conns, NEW d \in Conns, Made(c)', conns'[c].alone, Earlier(c, d)'
               PROVE  ~Pending(d)'
    BY DEF Cleared
  <2>1. Made(c) /\ conns[c].alone /\ Earlier(c, d)
    BY <1>2 DEF OnlyEnds
  <2>2. ~Pending(d)
    BY <2>1 DEF Wired, Cleared
  <2>3. conns[d].app \in Apps /\ conns[d].pod \in Pods /\ conns'[d].pod = conns[d].pod
    BY SocketChanges DEF SocketTypeOK, OnlyEnds
  <2>4. c \in Of(conns[d].app, conns[d].pod) /\ d < c
    BY <2>1 DEF Earlier, Of, Made
  <2>5. \A p \in Pods, a \in Apps : registry[p][a] # d
    <3>1. \A p \in Pods, a \in Apps : registry[p][a] = d => d \in Of(a, p)
      BY ConnsAreNumbers DEF Wired, Registered
    <3>2. \A p \in Pods, a \in Apps : d \in Of(a, p) => c \in Of(a, p)
      BY <2>1 DEF Of, Earlier, Made
    <3>3. \A p \in Pods, a \in Apps : registry[p][a] = d => c <= d
      BY <3>1, <3>2, ConnsAreNumbers DEF Wired, Registered
    <3> QED BY <2>4, <3>3, ConnsAreNumbers
  <2>6. conns'[d].at = "over"
    BY <2>2 DEF Pending, OnlyEnds
  <2>7. d \notin fan'[conns'[d].pod].left
    BY <2>2, <2>3, <2>5 DEF Pending, SendsToNamed
  <2>8. \A s \in locals' : s.conn # d
    BY <2>2, <2>5 DEF Pending, SendsToNamed
  <2> QED BY <2>6, <2>7, <2>8 DEF Pending
<1>7. OpenIsReachable'
  <2> SUFFICES ASSUME NEW c \in Conns, conns'[c].at = "open", conns'[c].alone, Newest(c)'
               PROVE  registry'[conns'[c].pod][conns'[c].app] = c
    BY DEF OpenIsReachable
  <2>1. conns[c].at = "open" /\ conns[c].alone /\ conns'[c].pod = conns[c].pod /\ conns'[c].app = conns[c].app
    BY DEF OnlyEnds
  <2>2. conns[c].app \in Apps /\ conns[c].pod \in Pods
    BY SocketChanges DEF SocketTypeOK
  <2>3. Newest(c)
    BY <1>1, <2>1, <2>2 DEF Newest
  <2>4. registry[conns[c].pod][conns[c].app] = c
    BY <2>1, <2>3 DEF Wired, OpenIsReachable
  <2>5. ASSUME NEW k \in Of(conns[c].app, conns[c].pod), conns[k].at # "open", Pending(k) PROVE FALSE
    <3>1. k \in Conns /\ k < c
      BY <2>1, <2>3, <2>5, ConnsAreNumbers DEF Of, Newest
    <3>2. Earlier(c, k) /\ Made(c)
      BY <2>1, <2>5, <3>1 DEF Earlier, Of, Made
    <3> QED BY <2>1, <2>5, <3>1, <3>2 DEF Wired, Cleared
  <2> QED BY <2>1, <2>2, <2>4, <2>5 DEF PopsDead
<1> QED BY <1>3, <1>4, <1>5, <1>6, <1>7 DEF Wired

(* A new socket.                                                           *)
LEMMA ConnectWired ==
  ASSUME SocketTypeOK, SocketTypeOK', Wired,
         NEW c \in Conns, NEW a \in Apps, NEW p \in Pods, Connect(c, a, p)
  PROVE  Wired'
<1>0. /\ ~Made(c) /\ \A d \in 1..(c - 1) : Made(d)
      /\ UNCHANGED <<fan, locals>>
  BY DEF Connect, Made
<1>1. /\ conns'[c].at = "open" /\ conns'[c].app = a /\ conns'[c].pod = p
      /\ conns'[c].alone <=> Alone(a, p)
      /\ \A d \in Conns \ {c} : conns'[d] = conns[d]
  BY DEF Connect, NoConn, SocketTypeOK
<1>2. /\ registry'[p][a] = c
      /\ \A q \in Pods, b \in Apps : q # p \/ b # a => registry'[q][b] = registry[q][b]
  BY DEF Connect, SocketTypeOK
<1>3. \A d \in Conns : Made(d) => d < c
  BY <1>0, ConnsAreNumbers DEF Wired, Numbered, Conns
<1>4. \A q \in Pods, b \in Apps : Of(b, q)' = Of(b, q) \cup (IF q = p /\ b = a THEN {c} ELSE {})
  BY <1>0, <1>1 DEF Of, Made
<1>5. Numbered'
  <2>1. \A e \in Conns : \A d \in 1..(e - 1) : d \in Conns
    BY SocketAssumption DEF Conns
  <2> QED BY <1>0, <1>1, <2>1 DEF Wired, Numbered, Made
<1>6. \A q \in Pods, b \in Apps : \A d \in Of(b, q) : d \in Conns /\ Made(d)
  BY DEF Of, Made
<1>7. Registered'
  <2> SUFFICES ASSUME NEW q \in Pods, NEW b \in Apps, registry'[q][b] # 0
               PROVE  /\ registry'[q][b] \in Of(b, q)'
                      /\ \A d \in Of(b, q)' : d <= registry'[q][b]
    BY DEF Registered
  <2>1. CASE q = p /\ b = a
    <3>1. \A d \in Of(b, q)' : d \in Of(b, q) \/ d = c
      BY <1>4, <2>1
    <3>2. \A d \in Of(b, q)' : d <= c
      <4>1. \A d \in Of(b, q) : d \in Conns /\ d < c
        BY <1>3, <1>6
      <4>2. \A d \in Conns : d < c => d <= c
        BY ConnsAreNumbers
      <4>3. c <= c
        BY ConnsAreNumbers
      <4> QED BY <3>1, <4>1, <4>2, <4>3
    <3> QED BY <1>2, <1>4, <2>1, <3>2
  <2>2. CASE ~(q = p /\ b = a)
    BY <1>2, <1>4, <2>2 DEF Wired, Registered
  <2> QED BY <2>1, <2>2
<1>8. \A q \in Pods : \A d \in fan[q].left : d \in Conns /\ Made(d)
  <2>1. \A q \in Pods : fan[q] \in {NoFan} \cup [note : Notes, left : SUBSET Conns]
    BY DEF SocketTypeOK
  <2>2. NoFan.left = {}
    BY DEF NoFan
  <2> QED BY <2>1, <2>2 DEF Wired, FanOwn
<1>9. \A s \in locals : s.conn \in Conns /\ Made(s.conn)
  BY DEF SocketTypeOK, Wired, LocalsMade
<1>10. FanOwn' /\ LocalsMade'
  BY <1>0, <1>1, <1>8, <1>9 DEF FanOwn, LocalsMade, Made, Wired
<1>11. Cleared'
  <2> SUFFICES ASSUME NEW e \in Conns, NEW d \in Conns, Made(e)', conns'[e].alone, Earlier(e, d)'
               PROVE  ~Pending(d)'
    BY DEF Cleared
  <2>1. d # c
    BY <1>0, <1>1, <1>3, ConnsAreNumbers DEF Earlier, Made
  <2>2. conns'[d] = conns[d] /\ Made(d)
    BY <1>1, <2>1 DEF Earlier, Made
  <2>3. CASE e = c
    <3>1. Alone(a, p) /\ d \in Of(a, p) /\ conns[d].pod = p
      BY <1>1, <2>2, <2>3 DEF Earlier, Of, Made
    <3>2. conns[d].at = "over" /\ d \notin fan[p].left /\ \A s \in locals : s.conn # d
      BY <3>1 DEF Alone
    <3> QED BY <1>0, <2>2, <3>1, <3>2 DEF Pending
  <2>4. CASE e # c
    <3>1. Made(e) /\ conns[e].alone /\ Earlier(e, d)
      BY <1>1, <2>2, <2>4 DEF Earlier, Made
    <3> QED BY <1>0, <2>2, <3>1 DEF Wired, Cleared, Pending
  <2> QED BY <2>3, <2>4
<1>12. OpenIsReachable'
  <2> SUFFICES ASSUME NEW e \in Conns, conns'[e].at = "open", conns'[e].alone, Newest(e)'
               PROVE  registry'[conns'[e].pod][conns'[e].app] = e
    BY DEF OpenIsReachable
  <2>1. CASE e = c
    BY <1>1, <1>2, <2>1
  <2>2. CASE e # c
    <3>1. conns'[e] = conns[e] /\ conns[e].app \in Apps /\ conns[e].pod \in Pods /\ Made(e)
      BY <1>1, <2>2, SocketChanges DEF SocketTypeOK, Made
    <3>2. ~(conns[e].pod = p /\ conns[e].app = a)
      BY <1>3, <1>4, <3>1, ConnsAreNumbers DEF Newest
    <3>3. Newest(e)
      BY <1>4, <3>1 DEF Newest
    <3> QED BY <1>2, <3>1, <3>2, <3>3 DEF Wired, OpenIsReachable
  <2> QED BY <2>1, <2>2
<1> QED BY <1>5, <1>7, <1>10, <1>11, <1>12 DEF Wired

-----------------------------------------------------------------------------
(* Delivery.                                                                *)

(* What is on its way stays so while nothing is sent or received,          *)
LEMMA CarriedOn ==
  ASSUME SocketTypeOK, DueMade, OnItsWay, OnlyEnds, PopsDead, UNCHANGED <<inbox, fan, due>>
  PROVE  DueMade' /\ OnItsWay'
<1>1. \A n \in Notes : \A c \in due[n] : c \in Conns
  BY DEF SocketTypeOK
<1>2. \A c \in Conns : conns[c].app \in Apps /\ conns[c].pod \in Pods
  BY SocketChanges DEF SocketTypeOK
<1>3. DueMade'
  BY <1>1 DEF DueMade, OnlyEnds, Made
<1>4. OnItsWay'
  <2> SUFFICES ASSUME NEW n \in Notes, NEW c \in due[n], conns'[c].at = "open",
                      registry'[conns'[c].pod][conns'[c].app] = c
               PROVE  Carried(n, c)'
    BY DEF OnItsWay
  <2>1. c \in Conns /\ conns[c].at = "open" /\ conns'[c].pod = conns[c].pod /\ conns'[c].app = conns[c].app
    BY <1>1 DEF OnlyEnds
  <2>2. registry[conns[c].pod][conns[c].app] = c
    BY <1>2, <2>1, ConnsAreNumbers DEF PopsDead
  <2>3. Carried(n, c) /\ conns[c].got \subseteq conns'[c].got
    BY <2>1, <2>2 DEF OnItsWay, OnlyEnds
  <2> QED BY <2>1, <2>3 DEF Carried
<1> QED BY <1>3, <1>4

(* and a message that is published is.                                     *)
LEMMA PublishedIsCarried ==
  ASSUME SocketTypeOK, Wired, DueMade, OnItsWay, OnlyEnds, PopsDead,
         NEW n \in Notes, NEW to \in SUBSET Apps, Publish(n, to), UNCHANGED fan
  PROVE  DueMade' /\ OnItsWay'
<1>1. \A m \in Notes : \A c \in due[m] : c \in Conns
  BY DEF SocketTypeOK
<1>2. \A c \in Conns : conns[c].app \in Apps /\ conns[c].pod \in Pods
  BY SocketChanges DEF SocketTypeOK
<1>3. \A m \in Notes \ {n} : due'[m] = due[m]
  BY DEF Publish, SocketTypeOK
<1>4. \A c \in due'[n] : /\ c \in Conns /\ Made(c) /\ conns[c].app \in to
                         /\ listener[conns[c].pod] = "listening"
  <2>1. \A c \in due'[n] : \E p \in Pods, a \in to :
          listener[p] = "listening" /\ registry[p][a] # 0 /\ c = registry[p][a]
    BY DEF Publish, SocketTypeOK
  <2> QED BY <2>1 DEF Wired, Registered, Of, Made
<1>5. DueMade'
  BY <1>1, <1>3, <1>4 DEF DueMade, OnlyEnds, Made
<1>6. \A p \in Pods : \A i \in DOMAIN inbox[p] : i \in DOMAIN inbox'[p] /\ inbox'[p][i] = inbox[p][i]
  BY DEF Publish, SocketTypeOK
<1>7. \A p \in Pods : listener[p] = "listening" =>
        \E i \in DOMAIN inbox'[p] : inbox'[p][i] = [note |-> n, to |-> to]
  <2> SUFFICES ASSUME NEW p \in Pods, listener[p] = "listening"
               PROVE  \E i \in DOMAIN inbox'[p] : inbox'[p][i] = [note |-> n, to |-> to]
    OBVIOUS
  <2>1. inbox'[p] = Append(inbox[p], [note |-> n, to |-> to]) /\ inbox[p] \in Seq([note : Notes, to : SUBSET Apps])
    BY DEF Publish, SocketTypeOK
  <2>2. Len(inbox[p]) + 1 \in DOMAIN inbox'[p] /\ inbox'[p][Len(inbox[p]) + 1] = [note |-> n, to |-> to]
    BY <2>1
  <2> QED BY <2>2
<1>8. OnItsWay'
  <2> SUFFICES ASSUME NEW m \in Notes, NEW c \in due'[m], conns'[c].at = "open",
                      registry'[conns'[c].pod][conns'[c].app] = c
               PROVE  Carried(m, c)'
    BY DEF OnItsWay
  <2>0. c \in Conns
    BY <1>1, <1>3, <1>4
  <2>1. conns[c].at = "open" /\ conns'[c].pod = conns[c].pod /\ conns'[c].app = conns[c].app
    BY <2>0 DEF OnlyEnds
  <2>2. CASE m = n
    <3>1. conns[c].app \in to /\ listener[conns[c].pod] = "listening" /\ conns[c].pod \in Pods
      BY <1>2, <1>4, <2>0, <2>2
    <3> QED BY <1>7, <2>1, <2>2, <3>1 DEF Carried
  <2>3. CASE m # n
    <3>1. c \in due[m]
      BY <1>3, <2>3
    <3>2. registry[conns[c].pod][conns[c].app] = c
      BY <1>2, <2>0, <2>1, ConnsAreNumbers DEF PopsDead
    <3>3. Carried(m, c) /\ conns[c].got \subseteq conns'[c].got
      BY <2>0, <2>1, <3>1, <3>2 DEF OnItsWay, OnlyEnds
    <3> QED BY <1>2, <1>6, <2>0, <2>1, <3>3, SMTT(30) DEF Carried
  <2> QED BY <2>2, <2>3
<1> QED BY <1>5, <1>8

-----------------------------------------------------------------------------
(* The steps.                                                               *)

LEMMA ConnectInv ==
  ASSUME Inv, NEW c \in Conns, NEW a \in Apps, NEW p \in Pods, Connect(c, a, p)
  PROVE  Inv'
<1>1. SocketTypeOK'
  BY ConnectType DEF Inv
<1>2. Wired'
  BY <1>1, ConnectWired DEF Inv
<1>3. /\ ~Made(c) /\ \A d \in Conns \ {c} : conns'[d] = conns[d]
      /\ UNCHANGED <<inbox, fan, due>> /\ conns'[c].at = "open"
  BY DEF Connect, Made, NoConn, Inv, SocketTypeOK
<1>4. \A n \in Notes : \A d \in due[n] : d \in Conns /\ Made(d) /\ d # c
  BY <1>3 DEF Inv, SocketTypeOK, DueMade
<1>5. DueMade'
  BY <1>3, <1>4 DEF DueMade, Made
<1>6. OnItsWay'
  <2> SUFFICES ASSUME NEW n \in Notes, NEW d \in due[n], conns'[d].at = "open",
                      registry'[conns'[d].pod][conns'[d].app] = d
               PROVE  Carried(n, d)'
    BY <1>3 DEF OnItsWay
  <2>1. d \in Conns /\ d # c /\ conns'[d] = conns[d] /\ conns[d].pod \in Pods /\ conns[d].app \in Apps
    BY <1>3, <1>4, SocketChanges DEF Inv, SocketTypeOK
  <2>2. registry[conns[d].pod][conns[d].app] = d
    BY <2>1 DEF Connect, Inv, SocketTypeOK
  <2> QED BY <1>3, <2>1, <2>2 DEF Inv, OnItsWay, Carried
<1> QED BY <1>1, <1>2, <1>5, <1>6 DEF Inv

LEMMA HandlerInv ==
  ASSUME Inv, NEW c \in Conns, AppGoes(c) \/ StartsRoast(c) \/ HandlerEnds(c)
  PROVE  Inv'
<1>1. SocketTypeOK'
  BY HandlerType DEF Inv
<1>2. OnlyEnds
  <2>1. CASE AppGoes(c)
    BY <2>1 DEF AppGoes, OnlyEnds, Inv, SocketTypeOK
  <2>2. CASE StartsRoast(c)
    <3> DEFINE b == ~conns[c].roasts
    <3>1. conns' = [conns EXCEPT ![c] = [conns[c] EXCEPT !.roasts = b]]
      BY <2>2, Zenon DEF StartsRoast
    <3>2. conns[c] \in SocketStates
      BY DEF Inv, SocketTypeOK
    <3> HIDE DEF b
    <3> QED BY <3>1, <3>2 DEF OnlyEnds, Inv, SocketTypeOK, SocketStates
  <2>3. CASE HandlerEnds(c)
    BY <2>3 DEF HandlerEnds, OnlyEnds, Inv, SocketTypeOK
  <2> QED BY <2>1, <2>2, <2>3
<1>3. PopsDead
  <2>1. CASE UNCHANGED registry
    BY <2>1 DEF PopsDead
  <2>2. CASE HandlerEnds(c)
    <3>1. conns[c].at = "lost" /\ conns[c].app \in Apps /\ conns[c].pod \in Pods
      BY <2>2, SocketChanges DEF HandlerEnds, Inv, SocketTypeOK
    <3>2. c \in Of(conns[c].app, conns[c].pod) /\ Pending(c)
      BY <3>1 DEF Of, Pending
    <3>3. \A q \in Pods, b \in Apps :
            registry'[q][b] = IF q = conns[c].pod /\ b = conns[c].app THEN 0 ELSE registry[q][b]
      BY <2>2, <3>1 DEF HandlerEnds, Popped, Inv, SocketTypeOK
    <3> QED BY <3>1, <3>2, <3>3 DEF PopsDead
  <2> QED BY <2>1, <2>2 DEF AppGoes, StartsRoast
<1>4. SendsToNamed /\ UNCHANGED <<inbox, fan, due>>
  BY DEF SendsToNamed, AppGoes, StartsRoast, HandlerEnds
<1> QED BY <1>1, <1>2, <1>3, <1>4, WiredKept, CarriedOn DEF Inv

(* A send to c is told, or has failed and c is removed.                    *)
LEMMA SendKeeps ==
  ASSUME Inv, NEW c \in Conns, NEW n \in Notes, NEW ok \in Sends(c),
         conns' = (IF ok THEN Told(c, n) ELSE conns),
         registry' = (IF ok THEN registry
                      ELSE [registry EXCEPT ![conns[c].pod] = Popped(@, conns[c].app)]),
         Made(c), Pending(c)
  PROVE  /\ OnlyEnds /\ PopsDead
         /\ ~ok => conns' = conns
         /\ ok /\ conns[c].at = "open" => n \in conns'[c].got
<1>0. conns[c] \in SocketStates
  BY DEF Inv, SocketTypeOK
<1>1. conns[c].app \in Apps /\ conns[c].pod \in Pods /\ conns[c].got \subseteq Notes
  BY <1>0, SocketChanges
<1>2. CASE ok
  <2> DEFINE g == IF conns[c].at = "open" THEN conns[c].got \cup {n} ELSE conns[c].got
  <2>1. conns' = [conns EXCEPT ![c] = [conns[c] EXCEPT !.got = g]]
    BY <1>2, Zenon DEF Told
  <2>2. conns[c].got \subseteq g /\ (conns[c].at = "open" => n \in g)
    BY <1>1
  <2> HIDE DEF g
  <2>3. OnlyEnds /\ (conns[c].at = "open" => n \in conns'[c].got)
    <3>1. conns'[c] = [conns[c] EXCEPT !.got = g] /\ \A d \in Conns \ {c} : conns'[d] = conns[d]
      BY <2>1 DEF Inv, SocketTypeOK
    <3>2. /\ conns'[c].app = conns[c].app /\ conns'[c].pod = conns[c].pod /\ conns'[c].at = conns[c].at
          /\ conns'[c].alone = conns[c].alone /\ conns'[c].got = g
      BY <1>0, <3>1, Zenon DEF SocketStates
    <3> QED BY <2>2, <3>1, <3>2 DEF OnlyEnds
  <2>4. PopsDead
    BY <1>2 DEF PopsDead
  <2> QED BY <1>2, <2>3, <2>4
<1>3. CASE ~ok
  <2>1. conns[c].at # "open" /\ c \in Of(conns[c].app, conns[c].pod)
    BY <1>3 DEF Sends, Of, Made
  <2>2. conns' = conns /\ OnlyEnds
    BY <1>3 DEF OnlyEnds
  <2>3. \A q \in Pods, b \in Apps :
          registry'[q][b] = IF q = conns[c].pod /\ b = conns[c].app THEN 0 ELSE registry[q][b]
    BY <1>1, <1>3 DEF Popped, Inv, SocketTypeOK
  <2>4. PopsDead
    BY <2>1, <2>3 DEF PopsDead
  <2> QED BY <1>3, <2>2, <2>4
<1> QED BY <1>2, <1>3

LEMMA MessageInv ==
  ASSUME Inv,
         \/ BroadcastToUser \/ \E s \in locals : LocalSent(s)
         \/ \E p \in Pods, a \in Apps : Broadcast(p, a)
  PROVE  Inv'
<1>1. SocketTypeOK' /\ SocketTypeOK /\ Wired /\ DueMade /\ OnItsWay
  BY MessageType DEF Inv
<1>2. notes < NoteCount => notes + 1 \in Notes
  BY SocketAssumption DEF Inv, SocketTypeOK, Notes
<1>3. CASE BroadcastToUser
  <2>1. OnlyEnds /\ PopsDead /\ SendsToNamed /\ UNCHANGED fan
    BY <1>3 DEF BroadcastToUser, OnlyEnds, PopsDead, SendsToNamed
  <2>2. notes + 1 \in Notes /\ Publish(notes + 1, Apps)
    BY <1>2, <1>3 DEF BroadcastToUser
  <2>3. DueMade' /\ OnItsWay'
    BY <1>1, <2>1, <2>2, PublishedIsCarried
  <2> QED BY <1>1, <2>1, <2>3, WiredKept DEF Inv
<1>4. ASSUME NEW p \in Pods, NEW a \in Apps, Broadcast(p, a) PROVE Inv'
  <2>1. OnlyEnds /\ PopsDead /\ UNCHANGED fan /\ notes + 1 \in Notes
    BY <1>2, <1>4 DEF Broadcast, OnlyEnds, PopsDead
  <2>2. SendsToNamed
    BY <1>4 DEF Broadcast, SendsToNamed
  <2>3. CASE UNCHANGED <<inbox, due>>
    BY <1>1, <2>1, <2>2, <2>3, WiredKept, CarriedOn DEF Inv
  <2>4. CASE Publish(notes + 1, {a})
    <3>1. DueMade' /\ OnItsWay'
      BY <1>1, <2>1, <2>4, PublishedIsCarried
    <3> QED BY <1>1, <2>1, <2>2, <3>1, WiredKept DEF Inv
  <2> QED BY <1>4, <2>3, <2>4 DEF Broadcast
<1>5. ASSUME NEW s \in locals, LocalSent(s) PROVE Inv'
  <2>1. s.conn \in Conns /\ s.note \in Notes /\ Made(s.conn) /\ Pending(s.conn)
    BY DEF Inv, SocketTypeOK, Wired, LocalsMade, Pending
  <2>2. conns[s.conn].app \in Apps
    BY <2>1, SocketChanges DEF Inv, SocketTypeOK
  <2>3. PICK ok \in Sends(s.conn) :
          /\ conns' = IF ok THEN Told(s.conn, s.note) ELSE conns
          /\ registry' = IF ok THEN registry
                         ELSE [registry EXCEPT ![conns[s.conn].pod] = Popped(@, conns[s.conn].app)]
          /\ IF ok THEN UNCHANGED <<inbox, due>> ELSE Publish(s.note, {conns[s.conn].app})
    BY <1>5 DEF LocalSent
  <2>4. OnlyEnds /\ PopsDead
    BY <2>1, <2>3, SendKeeps
  <2>5. SendsToNamed /\ UNCHANGED fan
    BY <1>5 DEF LocalSent, SendsToNamed
  <2>6. CASE UNCHANGED <<inbox, due>>
    BY <1>1, <2>4, <2>5, <2>6, WiredKept, CarriedOn DEF Inv
  <2>7. CASE Publish(s.note, {conns[s.conn].app})
    <3>1. {conns[s.conn].app} \in SUBSET Apps
      BY <2>2
    <3>2. DueMade' /\ OnItsWay'
      BY <1>1, <2>1, <2>4, <2>5, <2>7, <3>1, PublishedIsCarried
    <3> QED BY <1>1, <2>4, <2>5, <3>2, WiredKept DEF Inv
  <2> QED BY <2>3, <2>6, <2>7
<1> QED BY <1>3, <1>4, <1>5

LEMMA SubscribesInv ==
  ASSUME Inv, NEW p \in Pods, Subscribes(p)
  PROVE  Inv'
<1>1. SocketTypeOK'
  BY ListenerType DEF Inv
<1>2. OnlyEnds /\ PopsDead /\ SendsToNamed /\ UNCHANGED <<inbox, fan, due>>
  BY DEF Subscribes, OnlyEnds, PopsDead, SendsToNamed
<1> QED BY <1>1, <1>2, WiredKept, CarriedOn DEF Inv

LEMMA CrashesInv ==
  ASSUME Inv, NEW p \in Pods, Crashes(p)
  PROVE  Inv'
<1>1. SocketTypeOK'
  BY ListenerType DEF Inv
<1>2. /\ OnlyEnds /\ PopsDead /\ SendsToNamed /\ UNCHANGED <<conns, registry, fan>>
      /\ \A q \in Pods \ {p} : inbox'[q] = inbox[q]
      /\ \A n \in Notes : due'[n] = {c \in due[n] : conns[c].pod # p \/ n \in conns[c].got}
  BY DEF Crashes, OnlyEnds, PopsDead, SendsToNamed, Inv, SocketTypeOK
<1>3. DueMade'
  BY <1>2 DEF Inv, DueMade, Made
<1>4. OnItsWay'
  <2> SUFFICES ASSUME NEW n \in Notes, NEW c \in due'[n], conns'[c].at = "open",
                      registry'[conns'[c].pod][conns'[c].app] = c
               PROVE  Carried(n, c)'
    BY DEF OnItsWay
  <2>1. c \in due[n] /\ (conns[c].pod # p \/ n \in conns[c].got) /\ c \in Conns
    BY <1>2 DEF Inv, SocketTypeOK
  <2>2. Carried(n, c) /\ conns[c].pod \in Pods
    BY <1>2, <2>1, SocketChanges DEF Inv, OnItsWay, SocketTypeOK
  <2> QED BY <1>2, <2>1, <2>2 DEF Carried
<1> QED BY <1>1, <1>2, <1>3, <1>4, WiredKept DEF Inv

LEMMA TakesInv ==
  ASSUME Inv, NEW p \in Pods, Takes(p)
  PROVE  Inv'
<1> DEFINE Items == [note : Notes, to : SUBSET Apps]
           m == Head(inbox[p])
           to == {registry[p][a] : a \in m.to} \ {0}
<1>0. SocketTypeOK' /\ UNCHANGED <<conns, registry, locals, due>>
  BY ListenerType DEF Inv, Takes
<1>1. inbox[p] \in Seq(Items) /\ inbox[p] # <<>> /\ fan[p] = NoFan
  BY DEF Inv, SocketTypeOK, Takes
<1>2. m \in Items
  BY <1>1, SequenceFacts, Zenon
<1>3. /\ fan'[p] = IF to = {} THEN NoFan ELSE [note |-> m.note, left |-> to]
      /\ \A q \in Pods \ {p} : fan'[q] = fan[q] /\ inbox'[q] = inbox[q]
      /\ inbox'[p] = Tail(inbox[p])
  BY DEF Takes, Inv, SocketTypeOK
<1>4. OnlyEnds /\ PopsDead
  BY <1>0 DEF OnlyEnds, PopsDead
<1>5. SendsToNamed
  <2>1. \A d \in fan'[p].left : \E a \in Apps : registry[p][a] # 0 /\ d = registry[p][a]
    <3>1. \A d \in fan'[p].left : d \in to
      BY <1>3 DEF NoFan
    <3>2. \A d \in to : \E a \in Apps : registry[p][a] # 0 /\ d = registry[p][a]
      BY <1>2
    <3> QED BY <3>1, <3>2
  <2> QED BY <1>0, <1>3, <2>1 DEF SendsToNamed
<1>6. DueMade'
  BY <1>0 DEF Inv, DueMade, Made
<1>7. OnItsWay'
  <2> SUFFICES ASSUME NEW n \in Notes, NEW c \in due[n], conns[c].at = "open",
                      registry[conns[c].pod][conns[c].app] = c
               PROVE  Carried(n, c)'
    BY <1>0 DEF OnItsWay
  <2>1. Carried(n, c) /\ c \in Conns /\ conns[c].pod \in Pods
    BY SocketChanges DEF Inv, OnItsWay, SocketTypeOK
  <2>2. CASE conns[c].pod # p
    BY <1>0, <1>3, <2>1, <2>2 DEF Carried
  <2>3. CASE conns[c].pod = p /\ n \notin conns[c].got
    <3>1. PICK i \in DOMAIN inbox[p] : inbox[p][i].note = n /\ conns[c].app \in inbox[p][i].to
      BY <1>1, <2>1, <2>3 DEF Carried, NoFan
    <3>2. CASE i = 1
      <4>1. m.note = n /\ conns[c].app \in m.to
        BY <1>1, <3>1, <3>2
      <4>2. c \in to
        BY <2>1, <2>3, <4>1, ConnsAreNumbers
      <4>3. fan'[p].note = n /\ c \in fan'[p].left
        BY <1>3, <4>1, <4>2
      <4> QED BY <1>0, <2>3, <4>3 DEF Carried
    <3>3. CASE i # 1
      <4>1. i - 1 \in DOMAIN inbox'[p] /\ inbox'[p][i - 1] = inbox[p][i]
        <5> HIDE DEF Items
        <5> QED BY <1>1, <1>3, <3>1, <3>3
      <4> QED BY <1>0, <2>3, <3>1, <4>1 DEF Carried
    <3> QED BY <3>2, <3>3
  <2>4. CASE n \in conns[c].got
    BY <1>0, <2>4 DEF Carried
  <2> QED BY <2>2, <2>3, <2>4
<1> QED BY <1>0, <1>4, <1>5, <1>6, <1>7, WiredKept DEF Inv

LEMMA FanSendsInv ==
  ASSUME Inv, NEW p \in Pods, NEW c \in Conns, FanSends(p, c)
  PROVE  Inv'
<1>0. SocketTypeOK' /\ UNCHANGED <<inbox, locals, due>> /\ c \in fan[p].left
  BY ListenerType DEF Inv, FanSends
<1>1. Made(c) /\ conns[c].pod = p /\ Pending(c)
  BY <1>0 DEF Inv, Wired, FanOwn, Pending
<1>2. fan[p] \in [note : Notes, left : SUBSET Conns]
  BY <1>0 DEF NoFan, Inv, SocketTypeOK
<1>3. PICK ok \in Sends(c) :
        /\ conns' = IF ok THEN Told(c, fan[p].note) ELSE conns
        /\ registry' = IF ok THEN registry ELSE [registry EXCEPT ![p] = Popped(@, conns[c].app)]
  BY DEF FanSends
<1>4. /\ OnlyEnds /\ PopsDead /\ (~ok => conns' = conns)
      /\ ok /\ conns[c].at = "open" => fan[p].note \in conns'[c].got
  BY <1>1, <1>2, <1>3, SendKeeps
<1>5. /\ \A q \in Pods \ {p} : fan'[q] = fan[q]
      /\ fan'[p] = IF fan[p].left \ {c} = {} THEN NoFan
                    ELSE [note |-> fan[p].note, left |-> fan[p].left \ {c}]
  <2> DEFINE left == fan[p].left \ {c}
  <2>1. fan' = [fan EXCEPT ![p] = IF left = {} THEN NoFan ELSE [fan[p] EXCEPT !.left = left]]
    BY DEF FanSends, LeftAfter
  <2>2. [fan[p] EXCEPT !.left = left] = [note |-> fan[p].note, left |-> left]
    BY <1>2
  <2> QED BY <2>1, <2>2 DEF Inv, SocketTypeOK
<1>6. SendsToNamed
  BY <1>0, <1>5 DEF SendsToNamed, NoFan
<1>7. DueMade'
  BY <1>0, <1>4 DEF Inv, DueMade, Made, OnlyEnds, SocketTypeOK
<1>8. OnItsWay'
  <2> SUFFICES ASSUME NEW n \in Notes, NEW d \in due[n], conns'[d].at = "open",
                      registry'[conns'[d].pod][conns'[d].app] = d
               PROVE  Carried(n, d)'
    BY <1>0 DEF OnItsWay
  <2>1. d \in Conns /\ conns[d].pod \in Pods /\ conns[d].app \in Apps
    BY SocketChanges DEF Inv, SocketTypeOK
  <2>2. /\ conns[d].at = "open" /\ conns'[d].pod = conns[d].pod /\ conns'[d].app = conns[d].app
        /\ conns[d].got \subseteq conns'[d].got
    BY <1>4, <2>1 DEF OnlyEnds
  <2>3. registry[conns[d].pod][conns[d].app] = d
    BY <1>4, <2>1, <2>2, ConnsAreNumbers DEF PopsDead
  <2>4. Carried(n, d)
    BY <2>2, <2>3 DEF Inv, OnItsWay
  <2>5. CASE n \in conns[d].got
    BY <2>2, <2>5 DEF Carried
  <2>6. CASE \E i \in DOMAIN inbox[conns[d].pod] :
               /\ inbox[conns[d].pod][i].note = n
               /\ conns[d].app \in inbox[conns[d].pod][i].to
    BY <1>0, <2>2, <2>6 DEF Carried
  <2>7. CASE fan[conns[d].pod].note = n /\ d \in fan[conns[d].pod].left
    <3>1. CASE d = c
      <4>1. ok
        BY <1>3, <2>2, <3>1 DEF Sends
      <4>2. n \in conns'[d].got
        BY <1>1, <1>4, <2>2, <2>7, <3>1, <4>1
      <4> QED BY <4>2 DEF Carried
    <3>2. CASE d # c
      <4>1. fan'[conns[d].pod].note = n /\ d \in fan'[conns[d].pod].left
        BY <1>5, <2>1, <2>7, <3>2
      <4> QED BY <2>2, <4>1 DEF Carried
    <3> QED BY <3>1, <3>2
  <2> QED BY <2>4, <2>5, <2>6, <2>7 DEF Carried
<1> QED BY <1>0, <1>4, <1>6, <1>7, <1>8, WiredKept DEF Inv

LEMMA StutterInv == ASSUME Inv, UNCHANGED appVars PROVE Inv'
<1>1. SocketTypeOK'
  BY DEF Inv, SocketTypeOK, appVars
<1>2. OnlyEnds /\ PopsDead /\ SendsToNamed /\ UNCHANGED <<inbox, fan, due>>
  BY DEF appVars, OnlyEnds, PopsDead, SendsToNamed
<1> QED BY <1>1, <1>2, WiredKept, CarriedOn DEF Inv

LEMMA InitInv == SocketInit => Inv
<1> SUFFICES ASSUME SocketInit PROVE Inv
  OBVIOUS
<1>1. SocketTypeOK
  <2>1. conns \in [Conns -> SocketStates]
    BY NoConnType DEF SocketInit
  <2>2. inbox \in [Pods -> Seq([note : Notes, to : SUBSET Apps])]
    BY DEF SocketInit
  <2>3. notes \in 0..NoteCount
    BY SocketAssumption DEF SocketInit
  <2> QED BY <2>1, <2>2, <2>3 DEF SocketInit, SocketTypeOK
<1>2. /\ \A c \in Conns : ~Made(c) /\ conns[c].at = "none"
      /\ \A p \in Pods, a \in Apps : registry[p][a] = 0
      /\ \A p \in Pods : fan[p].left = {}
      /\ locals = {} /\ \A n \in Notes : due[n] = {}
  BY DEF SocketInit, NoConn, NoFan, Made
<1>3. Wired
  BY <1>2 DEF Wired, Numbered, Registered, FanOwn, LocalsMade, Cleared, OpenIsReachable
<1> QED BY <1>1, <1>2, <1>3 DEF Inv, DueMade, OnItsWay

LEMMA SpecInv == SocketSpec => []Inv
<1>1. ASSUME Inv, [SocketNext]_appVars PROVE Inv'
  <2>1. CASE \E c \in Conns : AppGoes(c) \/ StartsRoast(c) \/ HandlerEnds(c)
    BY <1>1, <2>1, HandlerInv
  <2>2. CASE \E c \in Conns, a \in Apps, p \in Pods : Connect(c, a, p)
    BY <1>1, <2>2, ConnectInv
  <2>3. CASE \/ BroadcastToUser \/ \E s \in locals : LocalSent(s)
             \/ \E p \in Pods, a \in Apps : Broadcast(p, a)
    BY <1>1, <2>3, MessageInv
  <2>4. CASE \E p \in Pods : Subscribes(p) \/ Crashes(p) \/ Takes(p) \/ \E c \in Conns : FanSends(p, c)
    BY <1>1, <2>4, SubscribesInv, CrashesInv, TakesInv, FanSendsInv
  <2>5. CASE UNCHANGED appVars
    BY <1>1, <2>5, StutterInv
  <2> QED BY <1>1, <2>1, <2>2, <2>3, <2>4, <2>5 DEF SocketNext
<1> QED BY InitInv, <1>1, PTL DEF SocketSpec

-----------------------------------------------------------------------------
(* The sockets, the registries and the messages are well typed.            *)
THEOREM SocketTypes == SocketSpec => []SocketTypeOK
BY SpecInv, PTL DEF Inv

(* An App that came when nothing of its earlier socket was left stays in   *)
(* the registry of its pod while it is connected (ws/manager.py).          *)
THEOREM OpenStaysReachable == SocketSpec => []OpenIsReachable
BY SpecInv, PTL DEF Inv, Wired

(* What has gone through Redis has reached every socket that a listening   *)
(* pod had, and has still, in its registry (ws/manager.py, the listener).  *)
THEOREM PublishedIsDelivered == SocketSpec => []PublishedArrives
<1>1. Inv => PublishedArrives
  <2> SUFFICES ASSUME Inv, NEW p \in Pods, inbox[p] = <<>>, fan[p] = NoFan,
                      NEW n \in Notes, NEW c \in due[n],
                      conns[c].at = "open", conns[c].pod = p, registry[p][conns[c].app] = c
               PROVE  n \in conns[c].got
    BY DEF PublishedArrives
  <2>1. Carried(n, c)
    BY DEF Inv, OnItsWay
  <2> QED BY <2>1 DEF Carried, NoFan
<1> QED BY <1>1, SpecInv, PTL

-----------------------------------------------------------------------------
(* DeviceCertificates.                                                     *)

Request == [at : {"none", "asks", "cleans", "detached", "created", "attached", "allowed", "cached"},
            s : CertSessions \cup {0}, old : SUBSET Certificates, cert : Certificates \cup {0}]

SessionRows(m) == [st : {"open", "closed", "expired"}, arn : 0..m]

UnderWay(r) == requests[r] # NoRequest

Steps(r, steps) == requests[r].at \in steps

(* One request at a time, of the newest session the device has gone on to. *)
OneRequest ==
  /\ \A q, r \in Requests : UnderWay(q) /\ UnderWay(r) => q = r
  /\ \A r \in Requests : UnderWay(r) =>
       requests[r].s = holds.s /\ holds.s \in CertSessions /\ requests[r].at # "none"

(* What is cached belongs to one session the device has come to, the arn   *)
(* of a session is the cached one, and so is the one the device holds.     *)
(* That of the device is a session's.                                      *)
OneOwner ==
  /\ \A s \in CertSessions : cached[s] # 0 =>
       s <= holds.s /\ \A t \in CertSessions : cached[t] = cached[s] => s = t
  /\ \A s \in CertSessions : sessions[s].arn \in {0, cached[s]}
  /\ bound.arn # 0 => \E s \in CertSessions : cached[s] = bound.arn
  /\ holds.cert # 0 => holds.s \in CertSessions /\ holds.cert = cached[holds.s]

(* How far the certificate of a request has come.                          *)
WayOf(r) ==
  /\ Steps(r, {"cleans", "detached", "created", "attached", "allowed"}) => cached[holds.s] = 0
  /\ Steps(r, {"created", "attached", "allowed"}) =>
       /\ requests[r].cert = made /\ made # 0 /\ made \in active
       /\ \A s \in CertSessions : cached[s] # made
  /\ Steps(r, {"attached", "allowed"}) => made \in attached
  /\ Steps(r, {"allowed"}) => made \in allowed
  /\ Steps(r, {"cached"}) => requests[r].cert = cached[holds.s] /\ cached[holds.s] # 0

StartOnItsWay == \A r \in Requests : WayOf(r)

(* The cached credentials of the newest session work, but for those of a   *)
(* device that has been unbound since.                                     *)
CachedWorks ==
  holds.s \in CertSessions /\ cached[holds.s] # 0 /\ (bound.is \/ bound.arn # cached[holds.s]) =>
    Works(cached[holds.s])

(* Where nothing fails, no certificate but the newest is left: it alone is *)
(* attached, and it is the one the session knows.                          *)
CleanedBy(r) ==
  /\ Steps(r, {"cleans"}) => attached \subseteq requests[r].old
  /\ Steps(r, {"detached"}) => attached \subseteq requests[r].old \ {requests[r].cert}
  /\ Steps(r, {"created"}) => attached = {}
  /\ Steps(r, {"attached", "allowed"}) => attached = {made}

NoneLeft ==
  /\ \A r \in Requests : CleanedBy(r)
  /\ \A c \in active : c \in attached \/ \E r \in Requests : Steps(r, {"detached", "created"}) /\ requests[r].cert = c
  /\ holds.s \in CertSessions /\ cached[holds.s] # 0 =>
       /\ attached = {cached[holds.s]}
       /\ sessions[holds.s].arn = cached[holds.s] \/ \E r \in Requests : Steps(r, {"cached"})
  /\ NoneUnderWay /\ holds.s \in CertSessions => cached[holds.s] # 0

(* And a device bound through the newest session is bound with its         *)
(* certificate.                                                            *)
BoundToNewest == bound.is =>
  /\ bound.s \in CertSessions /\ bound.s <= holds.s
  /\ bound.s = holds.s => bound.arn = cached[holds.s] /\ bound.arn # 0

Calm == OneRequest /\ OneOwner /\ StartOnItsWay /\ CachedWorks

(* A request under way is one of a session, and has its certificate once   *)
(* it is created.                                                          *)
UnderWayRows == \A r \in Requests :
  /\ requests[r].at # "none" => requests[r].s \in CertSessions
  /\ Steps(r, {"created", "attached", "allowed", "cached"}) => requests[r].cert # 0

CertInv ==
  /\ CertTypeOK /\ UnderWayRows
  /\ "overlap" \notin trouble => Calm
  /\ trouble \cap {"overlap", "fail"} = {} => NoneLeft
  /\ trouble = {} => BoundToNewest

-----------------------------------------------------------------------------
RequestRows(m) ==
  [at : {"none", "asks", "cleans", "detached", "created", "attached", "allowed", "cached"},
   s : CertSessions \cup {0}, old : SUBSET (1..m), cert : 0..m]

(* Request r comes to at, with old still to clean and certificate cert.    *)
Comes(r, at, s, old, cert) ==
  /\ requests'[r] \in RequestRows(made')
  /\ requests'[r].at = at /\ requests'[r].s = s
  /\ requests'[r].old = old /\ requests'[r].cert = cert

Alters(r) ==
  /\ requests' = [q \in Requests |-> requests'[q]]
  /\ \A q \in Requests : q # r => requests'[q] = requests[q]

LEMMA RowGoes ==
  ASSUME CertTypeOK, made' \in Nat, made <= made', NEW r \in Requests,
         NEW at \in {"none", "asks", "cleans", "detached", "created", "attached", "allowed", "cached"},
         NEW old \in SUBSET (1..made'), NEW cert \in 0..made'
  PROVE  LET m == requests[r] IN
         /\ requests' = [requests EXCEPT ![r].at = at] => Alters(r) /\ Comes(r, at, m.s, m.old, m.cert)
         /\ requests' = [requests EXCEPT ![r].at = at, ![r].old = old] =>
              Alters(r) /\ Comes(r, at, m.s, old, m.cert)
         /\ requests' = [requests EXCEPT ![r].old = old] => Alters(r) /\ Comes(r, m.at, m.s, old, m.cert)
         /\ requests' = [requests EXCEPT ![r].at = at, ![r].cert = cert] =>
              Alters(r) /\ Comes(r, at, m.s, m.old, cert)
         /\ requests' = [requests EXCEPT ![r].at = at, ![r].old = old, ![r].cert = cert] =>
              Alters(r) /\ Comes(r, at, m.s, old, cert)
<1> DEFINE m == requests[r]
<1>0. m \in RequestRows(made) /\ requests \in [Requests -> RequestRows(made)] /\ made \in Nat
  BY DEF CertTypeOK, RequestRows
<1>1. m \in RequestRows(made')
  BY <1>0 DEF RequestRows
<1>2. ASSUME NEW f, requests' = [requests EXCEPT ![r] = f] PROVE Alters(r) /\ requests'[r] = f
  BY <1>0, <1>2 DEF Alters
<1>3. requests' = [requests EXCEPT ![r].at = at] => Alters(r) /\ Comes(r, at, m.s, m.old, m.cert)
  <2> DEFINE f == [m EXCEPT !.at = at]
  <2>1. f \in RequestRows(made') /\ f.at = at /\ f.s = m.s /\ f.old = m.old /\ f.cert = m.cert
    BY <1>1 DEF RequestRows
  <2>2. [requests EXCEPT ![r].at = at] = [requests EXCEPT ![r] = f]
    BY <1>0
  <2> HIDE DEF f
  <2> QED BY <1>2, <2>1, <2>2 DEF Comes
<1>4. requests' = [requests EXCEPT ![r].at = at, ![r].old = old] => Alters(r) /\ Comes(r, at, m.s, old, m.cert)
  <2> DEFINE f == [m EXCEPT !.at = at, !.old = old]
  <2>1. f \in RequestRows(made') /\ f.at = at /\ f.s = m.s /\ f.old = old /\ f.cert = m.cert
    BY <1>1 DEF RequestRows
  <2>2. [requests EXCEPT ![r].at = at, ![r].old = old] = [requests EXCEPT ![r] = f]
    BY <1>0
  <2> HIDE DEF f
  <2> QED BY <1>2, <2>1, <2>2 DEF Comes
<1>5. requests' = [requests EXCEPT ![r].old = old] => Alters(r) /\ Comes(r, m.at, m.s, old, m.cert)
  <2> DEFINE f == [m EXCEPT !.old = old]
  <2>1. f \in RequestRows(made') /\ f.at = m.at /\ f.s = m.s /\ f.old = old /\ f.cert = m.cert
    BY <1>1 DEF RequestRows
  <2>2. [requests EXCEPT ![r].old = old] = [requests EXCEPT ![r] = f]
    BY <1>0
  <2> HIDE DEF f
  <2> QED BY <1>2, <2>1, <2>2 DEF Comes
<1>6. requests' = [requests EXCEPT ![r].at = at, ![r].cert = cert] => Alters(r) /\ Comes(r, at, m.s, m.old, cert)
  <2> DEFINE f == [m EXCEPT !.at = at, !.cert = cert]
  <2>1. f \in RequestRows(made') /\ f.at = at /\ f.s = m.s /\ f.old = m.old /\ f.cert = cert
    BY <1>1 DEF RequestRows
  <2>2. [requests EXCEPT ![r].at = at, ![r].cert = cert] = [requests EXCEPT ![r] = f]
    BY <1>0
  <2> HIDE DEF f
  <2> QED BY <1>2, <2>1, <2>2 DEF Comes
<1>7. requests' = [requests EXCEPT ![r].at = at, ![r].old = old, ![r].cert = cert] =>
        Alters(r) /\ Comes(r, at, m.s, old, cert)
  <2> DEFINE f == [m EXCEPT !.at = at, !.old = old, !.cert = cert]
  <2>1. f \in RequestRows(made') /\ f.at = at /\ f.s = m.s /\ f.old = old /\ f.cert = cert
    BY <1>1 DEF RequestRows
  <2>2. [requests EXCEPT ![r].at = at, ![r].old = old, ![r].cert = cert] = [requests EXCEPT ![r] = f]
    BY <1>0
  <2> HIDE DEF f
  <2> QED BY <1>2, <2>1, <2>2 DEF Comes
<1> QED BY <1>3, <1>4, <1>5, <1>6, <1>7

LEMMA RowEnds ==
  ASSUME CertTypeOK, made' = made, NEW r \in Requests
  PROVE  /\ requests' = [requests EXCEPT ![r] = NoRequest] =>
              Alters(r) /\ Comes(r, "none", 0, {}, 0) /\ requests'[r] = NoRequest
         /\ \A s \in CertSessions :
              requests' = [requests EXCEPT ![r] = [NoRequest EXCEPT !.at = "asks", !.s = s]] =>
                Alters(r) /\ Comes(r, "asks", s, {}, 0)
<1>0. requests \in [Requests -> RequestRows(made)] /\ made \in Nat
  BY DEF CertTypeOK, RequestRows
<1>1. ASSUME NEW f, requests' = [requests EXCEPT ![r] = f] PROVE Alters(r) /\ requests'[r] = f
  BY <1>0, <1>1 DEF Alters
<1>2. NoRequest \in RequestRows(made) /\ NoRequest.at = "none" /\ NoRequest.s = 0 /\ NoRequest.old = {} /\ NoRequest.cert = 0
  BY <1>0 DEF NoRequest, RequestRows
<1>3. requests' = [requests EXCEPT ![r] = NoRequest] =>
        Alters(r) /\ Comes(r, "none", 0, {}, 0) /\ requests'[r] = NoRequest
  BY <1>1, <1>2 DEF Comes
<1>4. ASSUME NEW s \in CertSessions,
             requests' = [requests EXCEPT ![r] = [NoRequest EXCEPT !.at = "asks", !.s = s]]
      PROVE  Alters(r) /\ Comes(r, "asks", s, {}, 0)
  <2> DEFINE f == [NoRequest EXCEPT !.at = "asks", !.s = s]
  <2>1. f \in RequestRows(made) /\ f.at = "asks" /\ f.s = s /\ f.old = {} /\ f.cert = 0
    BY <1>2 DEF RequestRows
  <2> HIDE DEF f
  <2> QED BY <1>1, <1>4, <2>1 DEF Comes, f
<1> QED BY <1>3, <1>4

(* What each step of a request does to it.                                 *)
LEMMA RequestMoves ==
  ASSUME CertTypeOK, NEW r \in Requests
  PROVE  LET m == requests[r] IN
         /\ \A s \in CertSessions : Requested(r, s) => Alters(r) /\ Comes(r, "asks", s, {}, 0)
         /\ AnswersCached(r) \/ Commits(r) \/ RollsBack(r) =>
              Alters(r) /\ Comes(r, "none", 0, {}, 0) /\ requests'[r] = NoRequest
         /\ Lists(r) => /\ Alters(r)
                        /\ \/ Comes(r, "cleans", m.s, attached, m.cert)
                           \/ "fail" \in trouble /\ Comes(r, "cleans", m.s, {}, m.cert)
         /\ \A c \in Certificates : Detaches(r, c) =>
              /\ Alters(r)
              /\ \/ attached' = attached \ {c} /\ Comes(r, "detached", m.s, m.old, c)
                 \/ /\ "fail" \in trouble /\ attached' = attached
                    /\ Comes(r, "cleans", m.s, m.old \ {c}, m.cert)
         /\ Deactivates(r) => Alters(r) /\ Comes(r, "cleans", m.s, m.old \ {m.cert}, 0)
         /\ Creates(r) => Alters(r) /\ Comes(r, "created", m.s, m.old, made + 1)
         /\ Attaches(r) => Alters(r) /\ Comes(r, "attached", m.s, m.old, m.cert)
         /\ Allows(r) => Alters(r) /\ Comes(r, "allowed", m.s, m.old, m.cert)
         /\ Caches(r) => Alters(r) /\ Comes(r, "cached", m.s, m.old, m.cert)
<1> DEFINE m == requests[r]
<1>0. made \in Nat /\ made <= made /\ made <= made + 1 /\ m \in RequestRows(made)
  BY DEF CertTypeOK, RequestRows
<1>1. m.old \in SUBSET (1..made) /\ m.cert \in 0..made /\ attached \in SUBSET (1..made)
  BY <1>0 DEF CertTypeOK, RequestRows
<1>2. \A s \in CertSessions : Requested(r, s) => Alters(r) /\ Comes(r, "asks", s, {}, 0)
  BY RowEnds DEF Requested
<1>3. AnswersCached(r) \/ Commits(r) \/ RollsBack(r) =>
        Alters(r) /\ Comes(r, "none", 0, {}, 0) /\ requests'[r] = NoRequest
  BY RowEnds DEF AnswersCached, Commits, RollsBack, Answered
<1>4. Lists(r) => /\ Alters(r)
                  /\ \/ Comes(r, "cleans", m.s, attached, m.cert)
                     \/ "fail" \in trouble /\ Comes(r, "cleans", m.s, {}, m.cert)
  <2> SUFFICES ASSUME Lists(r) PROVE /\ Alters(r)
                                     /\ \/ Comes(r, "cleans", m.s, attached, m.cert)
                                        \/ "fail" \in trouble /\ Comes(r, "cleans", m.s, {}, m.cert)
    OBVIOUS
  <2>1. PICK old \in {attached} \cup (IF "fail" \in trouble THEN {{}} ELSE {}) :
          requests' = [requests EXCEPT ![r].at = "cleans", ![r].old = old]
    BY DEF Lists, Principals
  <2>2. made' = made /\ old \in SUBSET (1..made)
    BY <1>1 DEF Lists
  <2>3. Alters(r) /\ Comes(r, "cleans", m.s, old, m.cert)
    <3>1. requests' = [requests EXCEPT ![r].at = "cleans", ![r].old = old]
      BY <2>1
    <3>2. old \in SUBSET (1..made') /\ 0 \in 0..made' /\ made' \in Nat /\ made <= made'
      BY <1>0, <2>2
    <3> QED BY <3>1, <3>2, RowGoes
  <2>4. old = attached \/ ("fail" \in trouble /\ old = {})
    BY <2>1
  <2> QED BY <2>3, <2>4
<1>5. ASSUME NEW c \in Certificates, Detaches(r, c)
      PROVE  /\ Alters(r)
             /\ \/ attached' = attached \ {c} /\ Comes(r, "detached", m.s, m.old, c)
                \/ /\ "fail" \in trouble /\ attached' = attached
                   /\ Comes(r, "cleans", m.s, m.old \ {c}, m.cert)
  <2>1. made' = made /\ m.at = "cleans" /\ c \in 0..made /\ m.old \ {c} \in SUBSET (1..made)
    BY <1>0, <1>1, <1>5 DEF Detaches
  <2>2. CASE attached' = attached \ {c} /\ requests' = [requests EXCEPT ![r].at = "detached", ![r].cert = c]
    BY <1>0, <2>1, <2>2, RowGoes
  <2>3. CASE "fail" \in trouble /\ attached' = attached /\ requests' = [requests EXCEPT ![r].old = requests[r].old \ {c}]
    BY <1>0, <2>1, <2>3, RowGoes
  <2> QED BY <1>5, <2>2, <2>3 DEF Detaches
<1>6. Deactivates(r) => Alters(r) /\ Comes(r, "cleans", m.s, m.old \ {m.cert}, 0)
  <2> SUFFICES ASSUME Deactivates(r) PROVE Alters(r) /\ Comes(r, "cleans", m.s, m.old \ {m.cert}, 0)
    OBVIOUS
  <2>1. /\ made' = made /\ m.old \ {m.cert} \in SUBSET (1..made) /\ 0 \in 0..made
        /\ requests' = [requests EXCEPT ![r].at = "cleans", ![r].old = m.old \ {m.cert}, ![r].cert = 0]
    BY <1>0, <1>1 DEF Deactivates
  <2> QED BY <1>0, <2>1, RowGoes
<1>7. Creates(r) => Alters(r) /\ Comes(r, "created", m.s, m.old, made + 1)
  <2> SUFFICES ASSUME Creates(r) PROVE Alters(r) /\ Comes(r, "created", m.s, m.old, made + 1)
    OBVIOUS
  <2>1. /\ made' = made + 1 /\ made' \in Nat /\ made + 1 \in 0..made' /\ m.old \in SUBSET (1..made')
        /\ requests' = [requests EXCEPT ![r].at = "created", ![r].cert = made + 1]
    BY <1>0, <1>1 DEF Creates
  <2> QED BY <1>0, <2>1, RowGoes
<1>8. /\ Attaches(r) => Alters(r) /\ Comes(r, "attached", m.s, m.old, m.cert)
      /\ Allows(r) => Alters(r) /\ Comes(r, "allowed", m.s, m.old, m.cert)
      /\ Caches(r) => Alters(r) /\ Comes(r, "cached", m.s, m.old, m.cert)
  BY <1>0, <1>1, RowGoes DEF Attaches, Allows, Caches, Goes
<1> QED BY <1>2, <1>3, <1>4, <1>5, <1>6, <1>7, <1>8

RequestStep(r) ==
  \/ \E s \in CertSessions : Requested(r, s)
  \/ AnswersCached(r) \/ Lists(r) \/ Deactivates(r) \/ Creates(r) \/ Attaches(r)
  \/ Allows(r) \/ Caches(r) \/ Commits(r) \/ RollsBack(r)
  \/ \E c \in Certificates : Detaches(r, c)

LEMMA RequestTypes ==
  ASSUME CertTypeOK, NEW r \in Requests, Alters(r), requests'[r] \in RequestRows(made'),
         made' \in {made, made + 1}, made' \in 0..CertCount, trouble' = trouble,
         active' \in SUBSET (1..made'), attached' \in SUBSET (1..made'), allowed' \in SUBSET (1..made'),
         cached' \in [CertSessions -> 0..made'], bound' = bound,
         sessions' \in [CertSessions -> SessionRows(made')],
         holds' \in [s : CertSessions \cup {0}, cert : 0..made']
  PROVE  CertTypeOK'
<1>0. made \in Nat
  BY CertAssumption DEF CertTypeOK
<1>1. 0..made \subseteq 0..made' /\ 1..made \subseteq 1..made'
  BY <1>0
<1>2. requests' \in [Requests -> RequestRows(made')]
  <2>1. RequestRows(made) \subseteq RequestRows(made')
    BY <1>1 DEF RequestRows
  <2>2. requests \in [Requests -> RequestRows(made)]
    BY DEF CertTypeOK, RequestRows
  <2>3. \A q \in Requests : requests'[q] \in RequestRows(made')
    BY <2>1, <2>2 DEF Alters
  <2> QED BY <2>3 DEF Alters
<1>3. bound' \in [is : BOOLEAN, s : CertSessions \cup {0}, arn : 0..made']
  BY <1>1 DEF CertTypeOK
<1> QED BY <1>2, <1>3 DEF CertTypeOK, RequestRows, SessionRows

LEMMA RequestStepTypes ==
  ASSUME CertTypeOK, UnderWayRows, NEW r \in Requests, RequestStep(r)
  PROVE  CertTypeOK' /\ UnderWayRows'
<1> DEFINE m == requests[r]
<1>0. /\ made \in Nat /\ CertCount \in Nat /\ made \in 0..CertCount
      /\ active \in SUBSET (1..made) /\ attached \in SUBSET (1..made) /\ allowed \in SUBSET (1..made)
      /\ cached \in [CertSessions -> 0..made]
      /\ sessions \in [CertSessions -> SessionRows(made)]
      /\ holds \in [s : CertSessions \cup {0}, cert : 0..made]
      /\ m \in RequestRows(made)
  BY CertAssumption DEF CertTypeOK, RequestRows, SessionRows
<1>1. m.cert \in 0..made /\ m.s \in CertSessions \cup {0} /\ (m.at # "none" => m.s \in CertSessions)
  BY <1>0 DEF RequestRows, UnderWayRows
<1>2. Alters(r) /\ requests'[r] \in RequestRows(made')
  BY RequestMoves DEF RequestStep, Comes
<1>3. /\ requests'[r].at # "none" => requests'[r].s \in CertSessions
      /\ requests'[r].at \in {"created", "attached", "allowed", "cached"} => requests'[r].cert # 0
  <2>1. made + 1 # 0
    BY <1>0
  <2>2. /\ requests'[r].at = "none" \/ requests'[r].s = m.s \/ requests'[r].s \in CertSessions
        /\ requests'[r].at \in {"created", "attached", "allowed", "cached"} =>
             requests'[r].cert # 0 \/ (requests'[r].cert = m.cert /\ m.at \in {"created", "attached", "allowed"})
    BY <2>1, RequestMoves DEF RequestStep, Comes, Attaches, Allows, Caches
  <2>3. CASE m.at # "none"
    BY <1>1, <2>2, <2>3 DEF UnderWayRows, Steps
  <2>4. CASE m.at = "none"
    <3>1. ~(Lists(r) \/ Deactivates(r) \/ Creates(r) \/ Attaches(r) \/ Allows(r) \/ Caches(r)
            \/ \E c \in Certificates : Detaches(r, c))
      BY <2>4 DEF Lists, Deactivates, Creates, Attaches, Allows, Caches, Detaches
    <3>2. requests'[r].at = "none" \/ (requests'[r].at = "asks" /\ requests'[r].s \in CertSessions)
      BY <3>1, RequestMoves DEF RequestStep, Comes
    <3> QED BY <3>2
  <2> QED BY <2>3, <2>4
<1>4. UnderWayRows'
  BY <1>2, <1>3 DEF UnderWayRows, Alters, Steps
<1> SUFFICES CertTypeOK'
  BY <1>4
<1>5. CASE \E s \in CertSessions : Requested(r, s)
  BY <1>0, <1>2, <1>5, RequestTypes DEF Requested
<1>6. CASE AnswersCached(r)
  <2>1. cached[m.s] \in 0..made
    BY <1>0, <1>1, <1>6 DEF AnswersCached
  <2>2. holds' \in [s : CertSessions \cup {0}, cert : 0..made]
    BY <1>0, <1>1, <1>6, <2>1 DEF AnswersCached, Answered
  <2> QED BY <1>0, <1>2, <1>6, <2>2, RequestTypes DEF AnswersCached
<1>7. CASE Lists(r)
  BY <1>0, <1>2, <1>7, RequestTypes DEF Lists
<1>8. CASE \E c \in Certificates : Detaches(r, c)
  <2>1. attached' \in SUBSET (1..made)
    BY <1>0, <1>8 DEF Detaches
  <2> QED BY <1>0, <1>2, <1>8, <2>1, RequestTypes DEF Detaches
<1>9. CASE Deactivates(r)
  <2>1. active' \in SUBSET (1..made)
    BY <1>0, <1>9 DEF Deactivates
  <2> QED BY <1>0, <1>2, <1>9, <2>1, RequestTypes DEF Deactivates
<1>10. CASE Creates(r)
  <2>1. made' = made + 1 /\ made' \in 0..CertCount
    BY <1>0, <1>10 DEF Creates
  <2>2. 0..made \subseteq 0..made' /\ 1..made \subseteq 1..made' /\ made + 1 \in 1..made'
    BY <1>0, <2>1
  <2>3. /\ active' \in SUBSET (1..made') /\ attached' \in SUBSET (1..made') /\ allowed' \in SUBSET (1..made')
        /\ cached' \in [CertSessions -> 0..made']
        /\ sessions' \in [CertSessions -> SessionRows(made')]
        /\ holds' \in [s : CertSessions \cup {0}, cert : 0..made']
        /\ trouble' = trouble /\ bound' = bound
    BY <1>0, <1>10, <2>2 DEF Creates, SessionRows
  <2> QED BY <1>2, <2>1, <2>3, RequestTypes
<1>11. CASE Attaches(r)
  <2>1. m.cert \in 1..made
    BY <1>0, <1>1, <1>11 DEF Attaches, UnderWayRows, Steps
  <2>2. attached' \in SUBSET (1..made)
    BY <1>0, <1>11, <2>1 DEF Attaches
  <2> QED BY <1>0, <1>2, <1>11, <2>2, RequestTypes DEF Attaches
<1>12. CASE Allows(r)
  <2>1. m.cert \in 1..made
    BY <1>0, <1>1, <1>12 DEF Allows, UnderWayRows, Steps
  <2>2. allowed' \in SUBSET (1..made)
    BY <1>0, <1>12, <2>1 DEF Allows
  <2> QED BY <1>0, <1>2, <1>12, <2>2, RequestTypes DEF Allows
<1>13. CASE Caches(r)
  <2>1. cached' \in [CertSessions -> 0..made]
    BY <1>0, <1>1, <1>13 DEF Caches
  <2> QED BY <1>0, <1>2, <1>13, <2>1, RequestTypes DEF Caches
<1>14. CASE Commits(r)
  <2>1. sessions' \in [CertSessions -> SessionRows(made)]
    BY <1>0, <1>1, <1>14 DEF Commits, SessionRows
  <2>2. holds' \in [s : CertSessions \cup {0}, cert : 0..made]
    BY <1>0, <1>1, <1>14, <2>1 DEF Commits, Answered
  <2> QED BY <1>0, <1>2, <1>14, <2>1, <2>2, RequestTypes DEF Commits
<1>15. CASE RollsBack(r)
  BY <1>0, <1>2, <1>15, RequestTypes DEF RollsBack
<1> QED BY <1>4, <1>5, <1>6, <1>7, <1>8, <1>9, <1>10, <1>11, <1>12, <1>13, <1>14, <1>15 DEF RequestStep

-----------------------------------------------------------------------------
LEMMA NoSteps == \A r : requests[r] = NoRequest => requests[r].at = "none"
BY DEF NoRequest

(* Where requests do not overlap, the step of one leaves the others idle.  *)
LEMMA OnlyRequest ==
  ASSUME NEW r \in Requests, Alters(r), \A q \in Requests : q # r => requests[q] = NoRequest,
         \/ requests'[r] = NoRequest
         \/ requests'[r].s = holds'.s /\ holds'.s \in CertSessions /\ requests'[r].at # "none",
         WayOf(r)'
  PROVE  OneRequest' /\ StartOnItsWay'
<1>1. \A q \in Requests : q # r => requests'[q] = NoRequest /\ requests'[q].at = "none"
  BY NoSteps DEF Alters, NoRequest
<1>2. OneRequest'
  BY <1>1 DEF OneRequest, UnderWay
<1>3. ASSUME NEW q \in Requests, q # r PROVE WayOf(q)'
  BY <1>1, <1>3 DEF WayOf, Steps
<1> QED BY <1>2, <1>3 DEF StartOnItsWay

LEMMA CalmFacts ==
  ASSUME CertTypeOK, UnderWayRows, OneRequest, "overlap" \notin trouble, NEW r \in Requests, RequestStep(r)
  PROVE  /\ \A q \in Requests : q # r => requests[q] = NoRequest
         /\ \A s \in CertSessions : Requested(r, s) => NoneUnderWay /\ s >= holds.s /\ holds'.s = s
         /\ (\E s \in CertSessions : Requested(r, s)) \/
              /\ UnderWay(r) /\ holds'.s = holds.s /\ requests[r].s = holds.s /\ holds.s \in CertSessions
<1>1. \A s \in CertSessions : Requested(r, s) => NoneUnderWay /\ s >= holds.s /\ holds'.s = s
  <2> SUFFICES ASSUME NEW s \in CertSessions, Requested(r, s)
               PROVE  NoneUnderWay /\ s >= holds.s /\ holds'.s = s
    OBVIOUS
  <2>1. NoneUnderWay /\ s >= holds.s
    BY DEF Requested
  <2>2. s \in Nat /\ holds.s \in Nat
    BY CertAssumption DEF CertSessions, CertTypeOK
  <2>3. CASE s > holds.s
    BY <2>1, <2>3 DEF Requested
  <2>4. CASE ~(s > holds.s)
    BY <2>1, <2>2, <2>4 DEF Requested
  <2> QED BY <2>3, <2>4
<1>2. CASE \E s \in CertSessions : Requested(r, s)
  BY <1>1, <1>2 DEF NoneUnderWay
<1>3. CASE ~\E s \in CertSessions : Requested(r, s)
  <2>1. requests[r].at # "none"
    BY <1>3 DEF RequestStep, AnswersCached, Lists, Deactivates, Creates, Attaches, Allows, Caches,
                Commits, RollsBack, Detaches
  <2>2. UnderWay(r)
    BY <2>1, NoSteps DEF UnderWay
  <2>3. requests[r].s = holds.s /\ holds.s \in CertSessions /\ \A q \in Requests : q # r => requests[q] = NoRequest
    BY <2>2 DEF OneRequest, UnderWay
  <2>4. \A c : Answered(r, c) => holds'.s = holds.s
    BY <2>3 DEF Answered
  <2>5. holds'.s = holds.s
    BY <1>3, <2>4 DEF RequestStep, AnswersCached, Lists, Deactivates, Creates, Attaches, Allows, Caches,
                Commits, RollsBack, Detaches
  <2> QED BY <1>1, <1>3, <2>2, <2>3, <2>5
<1> QED BY <1>2, <1>3
LEMMA RequestCalm ==
  ASSUME CertTypeOK, UnderWayRows, Calm, "overlap" \notin trouble, NEW r \in Requests, RequestStep(r)
  PROVE  Calm'
<1> DEFINE m == requests[r]
<1> USE DEF Calm
<1>0. /\ made \in Nat /\ holds.s \in Nat /\ CertSessions \subseteq Nat /\ 0 \notin CertSessions
      /\ \A s \in CertSessions : cached[s] \in 0..made
      /\ active \in SUBSET (1..made)
  <2>1. made \in 0..CertCount /\ holds.s \in CertSessions \cup {0} /\ cached \in [CertSessions -> 0..made]
        /\ active \in SUBSET (1..made)
    BY DEF CertTypeOK
  <2>2. CertSessions \subseteq Nat /\ 0 \notin CertSessions /\ CertCount \in Nat
    BY CertAssumption DEF CertSessions
  <2>3. made \in Nat
    BY <2>1, <2>2
  <2>4. holds.s \in Nat
    <3>1. holds.s = 0 \/ holds.s \in CertSessions
      BY <2>1
    <3> QED BY <2>2, <3>1, 0 \in Nat, Zenon
  <2>5. \A s \in CertSessions : cached[s] \in 0..made
    BY <2>1
  <2> QED BY <2>1, <2>2, <2>3, <2>4, <2>5
<1>1. /\ \A q \in Requests : q # r => requests[q] = NoRequest
      /\ \A s \in CertSessions : Requested(r, s) => NoneUnderWay /\ s >= holds.s /\ holds'.s = s
      /\ (\E s \in CertSessions : Requested(r, s)) \/
           /\ UnderWay(r) /\ holds'.s = holds.s /\ m.s = holds.s /\ holds.s \in CertSessions
  BY CalmFacts
<1>2. Alters(r)
  BY RequestMoves DEF RequestStep
<1>3. WayOf(r)
  BY DEF StartOnItsWay
<1>4. UnderWay(r)' => requests'[r].at # "none"
  <2>1. requests'[r].at = "none" => requests'[r] = NoRequest
    BY RequestMoves DEF RequestStep, Comes
  <2> QED BY <2>1 DEF UnderWay
<1>5. CASE \E s \in CertSessions : Requested(r, s)
  <2>1. PICK s \in CertSessions : Requested(r, s)
    BY <1>5
  <2>2. Comes(r, "asks", s, {}, 0) /\ holds'.s = s /\ s >= holds.s
    BY <1>1, <2>1, RequestMoves
  <2>3. UNCHANGED <<made, active, attached, allowed, sessions, cached, bound>>
    BY <2>1 DEF Requested
  <2>4. OneRequest' /\ StartOnItsWay'
    <3>1. WayOf(r)'
      BY <2>2 DEF WayOf, Steps, Comes
    <3> QED BY <1>1, <1>2, <2>2, <3>1, OnlyRequest DEF Comes
  <2>5. OneOwner'
    <3>1. holds'.cert # 0 => holds' = holds
      BY <2>1 DEF Requested
    <3> QED BY <1>0, <2>2, <2>3, <3>1 DEF OneOwner
  <2>6. CachedWorks'
    <3>1. cached[s] # 0 => s = holds.s
      BY <1>0, <2>2 DEF OneOwner
    <3> QED BY <2>2, <2>3, <3>1 DEF CachedWorks, Works
  <2> QED BY <2>4, <2>5, <2>6
<1>6. CASE ~\E s \in CertSessions : Requested(r, s)
  <2>0. UnderWay(r) /\ holds'.s = holds.s /\ m.s = holds.s /\ holds.s \in CertSessions
    BY <1>1, <1>6
  <2>1. ASSUME WayOf(r)', requests'[r].at = "none" \/ requests'[r].s = m.s PROVE OneRequest' /\ StartOnItsWay'
    <3>1. requests'[r].at = "none" => requests'[r] = NoRequest
      BY <1>4 DEF UnderWay
    <3> QED BY <1>1, <1>2, <2>0, <2>1, <3>1, OnlyRequest
  <2>2. CASE AnswersCached(r) \/ RollsBack(r)
    <3>1. Comes(r, "none", 0, {}, 0)
      BY <2>2, RequestMoves
    <3>2. UNCHANGED <<made, active, attached, allowed, sessions, cached, bound>>
      BY <2>2 DEF AnswersCached, RollsBack
    <3>3. WayOf(r)'
      BY <3>1 DEF WayOf, Steps, Comes
    <3>4. holds'.cert # 0 => holds'.cert = cached[holds.s]
      BY <2>0, <2>2 DEF AnswersCached, RollsBack, Answered, OneOwner
    <3>5. OneOwner' /\ CachedWorks'
      BY <2>0, <3>2, <3>4 DEF OneOwner, CachedWorks, Works
    <3> QED BY <2>1, <3>1, <3>3, <3>5 DEF Comes
  <2>3. CASE Lists(r) \/ Deactivates(r) \/ \E c \in Certificates : Detaches(r, c)
    <3>1. cached[holds.s] = 0
      BY <1>3, <2>0, <2>3 DEF Lists, Deactivates, Detaches, WayOf, Steps
    <3>2. requests'[r].at \in {"cleans", "detached"} /\ requests'[r].s = m.s
      BY <2>3, RequestMoves DEF Comes
    <3>3. UNCHANGED <<made, sessions, cached, bound, holds>>
      BY <2>3 DEF Lists, Deactivates, Detaches
    <3>4. WayOf(r)'
      BY <2>0, <3>1, <3>2, <3>3 DEF WayOf, Steps
    <3>5. OneOwner' /\ CachedWorks'
      BY <2>0, <3>1, <3>3 DEF OneOwner, CachedWorks
    <3> QED BY <2>1, <3>2, <3>4, <3>5
  <2>4. CASE Creates(r)
    <3>1. m.at = "cleans" /\ cached[holds.s] = 0
      BY <1>3, <2>4 DEF Creates, WayOf, Steps
    <3>2. Comes(r, "created", m.s, m.old, made + 1)
      BY <2>4, RequestMoves
    <3>3. UNCHANGED <<attached, allowed, sessions, cached, bound, holds>> /\ made' = made + 1 /\ made + 1 \in active'
      BY <2>4 DEF Creates
    <3>4. \A s \in CertSessions : cached[s] # made + 1 
      BY <1>0
    <3>5. WayOf(r)'
      BY <1>0, <2>0, <3>1, <3>2, <3>3, <3>4 DEF WayOf, Steps, Comes
    <3>6. OneOwner' /\ CachedWorks'
      BY <2>0, <3>1, <3>3 DEF OneOwner, CachedWorks
    <3> QED BY <2>1, <3>2, <3>5, <3>6 DEF Comes
  <2>5. CASE Attaches(r)
    <3>1. m.at = "created"
      BY <2>5 DEF Attaches
    <3>2. Comes(r, "attached", m.s, m.old, m.cert)
      BY <2>5, RequestMoves
    <3>3. UNCHANGED <<made, active, allowed, sessions, cached, bound, holds>> /\ attached' = attached \cup {m.cert}
      BY <2>5 DEF Attaches
    <3>4. WayOf(r)'
      BY <1>3, <2>0, <3>1, <3>2, <3>3 DEF WayOf, Steps, Comes
    <3>5. OneOwner' /\ CachedWorks'
      BY <1>3, <2>0, <3>1, <3>3 DEF OneOwner, CachedWorks, WayOf, Steps
    <3> QED BY <2>1, <3>2, <3>4, <3>5 DEF Comes
  <2>6. CASE Allows(r)
    <3>1. m.at = "attached"
      BY <2>6 DEF Allows
    <3>2. Comes(r, "allowed", m.s, m.old, m.cert)
      BY <2>6, RequestMoves
    <3>3. UNCHANGED <<made, active, attached, sessions, cached, bound, holds>> /\ allowed' = allowed \cup {m.cert}
      BY <2>6 DEF Allows
    <3>4. WayOf(r)'
      BY <1>3, <2>0, <3>1, <3>2, <3>3 DEF WayOf, Steps, Comes
    <3>5. OneOwner' /\ CachedWorks'
      BY <1>3, <2>0, <3>1, <3>3 DEF OneOwner, CachedWorks, WayOf, Steps
    <3> QED BY <2>1, <3>2, <3>4, <3>5 DEF Comes
  <2>7. CASE Caches(r)
    <3>1. m.at = "allowed"
      BY <2>7 DEF Caches
    <3>2. Comes(r, "cached", m.s, m.old, m.cert)
      BY <2>7, RequestMoves
    <3>3. UNCHANGED <<made, active, attached, allowed, sessions, bound>>
      BY <2>7 DEF Caches
    <3>4. m.cert = made /\ made # 0 /\ made \in active \cap attached \cap allowed /\ cached[holds.s] = 0
          /\ \A s \in CertSessions : cached[s] # made
      BY <1>3, <3>1 DEF WayOf, Steps
    <3>5. \A s \in CertSessions : cached'[s] = IF s = holds.s THEN made ELSE cached[s]
      BY <2>0, <2>7, <3>4 DEF Caches, CertTypeOK
    <3>6. WayOf(r)'
      BY <2>0, <3>2, <3>4, <3>5 DEF WayOf, Steps, Comes
    <3>7. OneOwner'
      <4>1. \A s \in CertSessions : cached'[s] # 0 =>
              s <= holds'.s /\ \A t \in CertSessions : cached'[t] = cached'[s] => s = t
        <5>1. holds'.s = holds.s /\ holds.s \in CertSessions /\ holds.s <= holds.s
          BY <1>0, <2>0 DEF CertTypeOK
        <5>2. \A s \in CertSessions : s # holds.s /\ cached'[s] # 0 =>
                cached'[s] = cached[s] /\ cached[s] # made /\ s <= holds.s
          BY <3>4, <3>5 DEF OneOwner
        <5>3. cached'[holds.s] = made
          BY <3>5, <5>1
        <5>4. ASSUME NEW s \in CertSessions, NEW t \in CertSessions, cached'[s] # 0, cached'[t] = cached'[s]
              PROVE  s = t
          <6>1. CASE s = holds.s
            BY <5>2, <5>3, <5>4, <6>1
          <6>2. CASE s # holds.s /\ t = holds.s
            BY <5>2, <5>3, <5>4, <6>2
          <6>3. CASE s # holds.s /\ t # holds.s
            BY <5>2, <5>4, <6>3 DEF OneOwner
          <6> QED BY <6>1, <6>2, <6>3
        <5> QED BY <5>1, <5>2, <5>4
      <4>2. \A s \in CertSessions : sessions'[s].arn \in {0, cached'[s]}
        BY <3>3, <3>4, <3>5 DEF OneOwner
      <4>3. bound'.arn # 0 => \E s \in CertSessions : cached'[s] = bound'.arn
        BY <3>3, <3>4, <3>5 DEF OneOwner
      <4>4. holds'.cert = 0
        BY <2>0, <2>7, <3>4 DEF Caches, OneOwner
      <4> QED BY <4>1, <4>2, <4>3, <4>4 DEF OneOwner
    <3>8. CachedWorks'
      BY <2>0, <3>3, <3>4, <3>5 DEF CachedWorks, Works
    <3> QED BY <2>1, <3>2, <3>6, <3>7, <3>8 DEF Comes
  <2>8. CASE Commits(r)
    <3>1. m.at = "cached" /\ m.cert = cached[holds.s]
      BY <1>3, <2>8 DEF Commits, WayOf, Steps
    <3>2. Comes(r, "none", 0, {}, 0)
      BY <2>8, RequestMoves
    <3>3. UNCHANGED <<made, active, attached, allowed, cached, bound>>
      BY <2>8 DEF Commits
    <3>4. \A s \in CertSessions : sessions'[s].arn = IF s = holds.s THEN m.cert ELSE sessions[s].arn
      BY <2>0, <2>8 DEF Commits, CertTypeOK
    <3>5. WayOf(r)'
      BY <3>2 DEF WayOf, Steps, Comes
    <3>6. OneOwner'
      <4>1. \A s \in CertSessions : cached'[s] # 0 =>
              s <= holds'.s /\ \A t \in CertSessions : cached'[t] = cached'[s] => s = t
        BY <2>0, <3>3 DEF OneOwner
      <4>2. \A s \in CertSessions : sessions'[s].arn \in {0, cached'[s]}
        BY <3>1, <3>3, <3>4 DEF OneOwner
      <4>3. bound'.arn # 0 => \E s \in CertSessions : cached'[s] = bound'.arn
        BY <3>3 DEF OneOwner
      <4>4. holds'.cert # 0 => holds'.s \in CertSessions /\ holds'.cert = cached'[holds'.s]
        BY <2>0, <2>8, <3>1, <3>3 DEF OneOwner, Commits, Answered
      <4> QED BY <4>1, <4>2, <4>3, <4>4 DEF OneOwner
    <3>7. CachedWorks'
      BY <2>0, <3>3 DEF CachedWorks, Works
    <3> QED BY <2>1, <3>2, <3>5, <3>6, <3>7 DEF Comes
  <2> QED BY <1>6, <2>2, <2>3, <2>4, <2>5, <2>6, <2>7, <2>8 DEF RequestStep
<1> QED BY <1>5, <1>6

Moves(s) == Cancelled(s) \/ Expires(s) \/ VerifyConnectivity(s)

DeviceStep ==
  \/ \E s \in CertSessions : BindDevice(s) \/ RegisterOwn(s) \/ Moves(s)
  \/ UnbindDevice

(* What a binding, an unbinding or a move of a session leaves alone, and   *)
(* does.                                                                   *)
LEMMA DeviceMoves ==
  ASSUME CertTypeOK, DeviceStep
  PROVE  /\ UNCHANGED <<trouble, made, attached, allowed, cached, requests, holds>>
         /\ \A s \in CertSessions : sessions'[s].arn = sessions[s].arn
         /\ sessions' \in [CertSessions -> SessionRows(made)]
         /\ bound' \in [is : BOOLEAN, s : CertSessions \cup {0}, arn : 0..made]
         /\ active' \in SUBSET active
<1>0. /\ sessions \in [CertSessions -> SessionRows(made)]
      /\ bound \in [is : BOOLEAN, s : CertSessions \cup {0}, arn : 0..made]
  BY DEF CertTypeOK, SessionRows
<1>1. ASSUME NEW s \in CertSessions, NEW st \in {"open", "closed", "expired"},
             sessions' = [sessions EXCEPT ![s].st = st]
      PROVE  /\ \A t \in CertSessions : sessions'[t].arn = sessions[t].arn
             /\ sessions' \in [CertSessions -> SessionRows(made)]
  BY <1>0, <1>1 DEF SessionRows
<1>2. ASSUME NEW s \in CertSessions, NEW arn \in 0..made, bound' = [is |-> TRUE, s |-> s, arn |-> arn]
      PROVE  bound' \in [is : BOOLEAN, s : CertSessions \cup {0}, arn : 0..made]
  BY <1>2
<1>3. ASSUME NEW s \in CertSessions, BindDevice(s) PROVE NewestArn(s) \in 0..made
  BY <1>0 DEF NewestArn, SessionRows
<1>4. bound.arn \in 0..made
  BY <1>0
<1>5. ASSUME NEW s \in CertSessions, BindDevice(s) \/ RegisterOwn(s)
      PROVE  /\ UNCHANGED <<trouble, made, attached, allowed, cached, requests, holds, active>>
             /\ sessions' = [sessions EXCEPT ![s].st = "closed"]
             /\ bound' \in [is : BOOLEAN, s : CertSessions \cup {0}, arn : 0..made]
  BY <1>2, <1>3, <1>4, <1>5 DEF BindDevice, RegisterOwn, Binds
<1>6. ASSUME NEW s \in CertSessions, Moves(s)
      PROVE  /\ UNCHANGED <<trouble, made, attached, allowed, cached, requests, holds, active, bound>>
             /\ \E st \in {"open", "closed", "expired"} : sessions' = [sessions EXCEPT ![s].st = st]
  BY <1>6 DEF Moves, Cancelled, Expires, VerifyConnectivity, SessionMoves
<1>7. CASE UnbindDevice
  <2>1. bound' \in [is : BOOLEAN, s : CertSessions \cup {0}, arn : 0..made]
    BY <1>0, <1>7 DEF UnbindDevice
  <2> QED BY <1>0, <1>7, <2>1 DEF UnbindDevice
<1> QED BY <1>0, <1>1, <1>5, <1>6, <1>7 DEF DeviceStep

LEMMA DeviceTypes ==
  ASSUME CertTypeOK, UnderWayRows, DeviceStep
  PROVE  CertTypeOK' /\ UnderWayRows'
<1>1. CertTypeOK'
  <2>1. active' \in SUBSET (1..made)
    BY DeviceMoves DEF CertTypeOK
  <2> QED BY <2>1, DeviceMoves DEF CertTypeOK, SessionRows
<1>2. UnderWayRows'
  BY DeviceMoves DEF UnderWayRows, Steps
<1> QED BY <1>1, <1>2

LEMMA DeviceCalm ==
  ASSUME CertTypeOK, Calm, "overlap" \notin trouble, DeviceStep
  PROVE  Calm'
<1> USE DEF Calm
<1>0. /\ UNCHANGED <<trouble, made, attached, allowed, cached, requests, holds>>
      /\ \A s \in CertSessions : sessions'[s].arn = sessions[s].arn
  BY DeviceMoves
<1>1. (~\E s \in CertSessions : Moves(s)) => NoneUnderWay
  BY DEF DeviceStep, BindDevice, RegisterOwn, Connected, UnbindDevice
<1>2. OneRequest'
  BY <1>0 DEF OneRequest, UnderWay
<1>3. NoneUnderWay => \A r \in Requests : ~UnderWay(r) /\ requests[r].at = "none"
  BY NoSteps DEF NoneUnderWay, UnderWay
<1>4. StartOnItsWay'
  <2>1. CASE NoneUnderWay
    BY <1>0, <1>3, <2>1 DEF StartOnItsWay, WayOf, Steps
  <2>2. CASE \E s \in CertSessions : Moves(s)
    <3>1. active' = active
      BY <2>2 DEF Moves, Cancelled, Expires, VerifyConnectivity, SessionMoves
    <3> QED BY <1>0, <3>1 DEF StartOnItsWay, WayOf, Steps
  <2> QED BY <1>1, <2>1, <2>2
<1>5. OneOwner'
  <2>1. \A s \in CertSessions : cached'[s] # 0 =>
          s <= holds'.s /\ \A t \in CertSessions : cached'[t] = cached'[s] => s = t
    BY <1>0 DEF OneOwner
  <2>2. \A s \in CertSessions : sessions'[s].arn \in {0, cached'[s]}
    BY <1>0 DEF OneOwner
  <2>3. ASSUME bound'.arn = bound.arn
        PROVE  bound'.arn # 0 => \E s \in CertSessions : cached'[s] = bound'.arn
    BY <1>0, <2>3 DEF OneOwner
  <2>4. bound'.arn # 0 => \E s \in CertSessions : cached'[s] = bound'.arn
    <3>1. CASE \E s \in CertSessions : BindDevice(s) /\ sessions[s].arn # 0
      <4>1. PICK s \in CertSessions : BindDevice(s) /\ sessions[s].arn # 0
        BY <3>1
      <4>2. bound'.arn = sessions[s].arn
        BY <4>1 DEF BindDevice, Binds, NewestArn, CertTypeOK
      <4>3. cached'[s] = bound'.arn
        BY <1>0, <4>1, <4>2 DEF OneOwner
      <4> QED BY <4>3
    <3>2. CASE ~\E s \in CertSessions : BindDevice(s) /\ sessions[s].arn # 0
      <4>1. bound'.arn = bound.arn
        BY <3>2 DEF DeviceStep, BindDevice, RegisterOwn, Moves, Cancelled, Expires, VerifyConnectivity,
                    SessionMoves, UnbindDevice, Binds, NewestArn, CertTypeOK
      <4> QED BY <2>3, <4>1
    <3> QED BY <3>1, <3>2
  <2>5. holds'.cert # 0 => holds'.s \in CertSessions /\ holds'.cert = cached'[holds'.s]
    BY <1>0 DEF OneOwner
  <2> QED BY <2>1, <2>2, <2>4, <2>5 DEF OneOwner
<1>6. CachedWorks'
  <2> DEFINE c == cached[holds.s]
  <2> SUFFICES ASSUME holds.s \in CertSessions, c # 0, bound'.is \/ bound'.arn # c
               PROVE  Works(c)'
    BY <1>0 DEF CachedWorks
  <2>1. CASE UnbindDevice
    <3>1. bound.is /\ bound'.arn = bound.arn /\ ~bound'.is
      BY <2>1 DEF UnbindDevice, CertTypeOK
    <3>2. Works(c) /\ c # bound.arn
      BY <3>1 DEF CachedWorks
    <3> QED BY <1>0, <2>1, <3>2 DEF UnbindDevice, Works
  <2>2. ASSUME NEW s \in CertSessions, BindDevice(s) \/ RegisterOwn(s) PROVE Works(c)'
    <3>1. holds.s = s /\ Works(holds.cert) /\ active' = active
      BY <2>2 DEF BindDevice, RegisterOwn, Connected, Binds
    <3>2. holds.cert # 0
      BY <3>1 DEF Works, CertTypeOK
    <3> QED BY <1>0, <3>1, <3>2 DEF OneOwner, Works
  <2>3. ASSUME NEW s \in CertSessions, Moves(s) PROVE Works(c)'
    <3>1. active' = active /\ bound' = bound
      BY <2>3 DEF Moves, Cancelled, Expires, VerifyConnectivity, SessionMoves
    <3> QED BY <1>0, <3>1 DEF CachedWorks, Works
  <2> QED BY <2>1, <2>2, <2>3 DEF DeviceStep
<1> QED BY <1>2, <1>4, <1>5, <1>6
LEMMA RequestNoneLeft ==
  ASSUME CertTypeOK, UnderWayRows, Calm, NoneLeft, trouble \cap {"overlap", "fail"} = {},
         NEW r \in Requests, RequestStep(r)
  PROVE  NoneLeft'
<1> DEFINE m == requests[r]
<1> USE DEF Calm
<1>0. "overlap" \notin trouble /\ "fail" \notin trouble
  OBVIOUS
<1>1. /\ \A q \in Requests : q # r => requests[q] = NoRequest
      /\ \A s \in CertSessions : Requested(r, s) => NoneUnderWay /\ s >= holds.s /\ holds'.s = s
      /\ (\E s \in CertSessions : Requested(r, s)) \/
           /\ UnderWay(r) /\ holds'.s = holds.s /\ m.s = holds.s /\ holds.s \in CertSessions
  BY <1>0, CalmFacts
<1>2. Alters(r)
  BY RequestMoves DEF RequestStep
<1>3. WayOf(r) /\ CleanedBy(r)
  BY DEF StartOnItsWay, NoneLeft
<1>4. \A q \in Requests : q # r => requests[q].at = "none" /\ requests'[q].at = "none"
  BY <1>1, <1>2, NoSteps DEF Alters
<1>5. ASSUME CleanedBy(r)',
             \A c \in active' : c \in attached' \/ (Steps(r, {"detached", "created"}) /\ requests[r].cert = c)',
             holds'.s \in CertSessions /\ cached'[holds'.s] # 0 =>
               /\ attached' = {cached'[holds'.s]}
               /\ sessions'[holds'.s].arn = cached'[holds'.s] \/ requests'[r].at = "cached",
             requests'[r].at # "none" \/ cached'[holds'.s] # 0
      PROVE  NoneLeft'
  <2>1. \A q \in Requests : CleanedBy(q)'
    BY <1>4, <1>5 DEF CleanedBy, Steps
  <2>2. NoneUnderWay' => requests'[r].at = "none"
    BY NoSteps DEF NoneUnderWay, NoRequest
  <2> QED BY <1>5, <2>1, <2>2 DEF NoneLeft, Steps
<1>6. \A c \in active : c \in attached \/ (Steps(r, {"detached", "created"}) /\ requests[r].cert = c)
  BY <1>4 DEF NoneLeft, Steps
<1>7. holds.s \in CertSessions /\ cached[holds.s] # 0 =>
        /\ attached = {cached[holds.s]}
        /\ sessions[holds.s].arn = cached[holds.s] \/ m.at = "cached"
  BY <1>4 DEF NoneLeft, Steps
<1>8. CASE \E s \in CertSessions : Requested(r, s)
  <2>1. PICK s \in CertSessions : Requested(r, s)
    BY <1>8
  <2>2. Comes(r, "asks", s, {}, 0) /\ holds'.s = s /\ s >= holds.s /\ m.at = "none"
    BY <1>1, <2>1, RequestMoves, NoSteps DEF NoneUnderWay
  <2>3. UNCHANGED <<active, attached, sessions, cached>>
    BY <2>1 DEF Requested
  <2>4. cached[s] # 0 => s = holds.s
    <3>1. s \in Nat /\ holds.s \in Nat
      BY CertAssumption DEF CertSessions, CertTypeOK
    <3> QED BY <2>2, <3>1 DEF OneOwner
  <2>5. CleanedBy(r)' /\ requests'[r].at = "asks"
    BY <2>2 DEF CleanedBy, Steps, Comes
  <2>6. \A c \in active' : c \in attached'
    BY <1>6, <2>2, <2>3 DEF Steps
  <2> QED BY <1>5, <1>7, <2>2, <2>3, <2>4, <2>5, <2>6
<1>9. CASE ~\E s \in CertSessions : Requested(r, s)
  <2>0. holds'.s = holds.s /\ m.s = holds.s /\ holds.s \in CertSessions
    BY <1>1, <1>9
  <2>1. CASE AnswersCached(r)
    <3>1. Comes(r, "none", 0, {}, 0) /\ m.at = "asks" /\ cached[holds.s] # 0
      BY <2>0, <2>1, RequestMoves DEF AnswersCached
    <3>2. UNCHANGED <<active, attached, sessions, cached>>
      BY <2>1 DEF AnswersCached
    <3>3. CleanedBy(r)'
      BY <3>1 DEF CleanedBy, Steps, Comes
    <3>4. \A c \in active' : c \in attached'
      BY <1>6, <3>1, <3>2 DEF Steps
    <3> QED BY <1>5, <1>7, <2>0, <3>1, <3>2, <3>3, <3>4
  <2>2. CASE Lists(r)
    <3>1. Comes(r, "cleans", m.s, attached, m.cert) /\ m.at = "asks" /\ cached[holds.s] = 0
      BY <1>0, <2>0, <2>2, RequestMoves DEF Lists
    <3>2. UNCHANGED <<active, attached, sessions, cached>>
      BY <2>2 DEF Lists
    <3>3. CleanedBy(r)' /\ requests'[r].at = "cleans"
      BY <3>1, <3>2 DEF CleanedBy, Steps, Comes
    <3>4. \A c \in active' : c \in attached'
      BY <1>6, <3>1, <3>2 DEF Steps
    <3> QED BY <1>5, <2>0, <3>1, <3>2, <3>3, <3>4
  <2>3. CASE \E c \in Certificates : Detaches(r, c)
    <3>1. PICK c \in Certificates : Detaches(r, c)
      BY <2>3
    <3>2. Comes(r, "detached", m.s, m.old, c) /\ attached' = attached \ {c} /\ m.at = "cleans" /\ cached[holds.s] = 0
      BY <1>0, <1>3, <3>1, RequestMoves DEF Detaches, WayOf, Steps
    <3>3. UNCHANGED <<active, sessions, cached>>
      BY <3>1 DEF Detaches
    <3>4. CleanedBy(r)' /\ requests'[r].at = "detached" /\ requests'[r].cert = c
      BY <1>3, <3>2 DEF CleanedBy, Steps, Comes
    <3>5. \A a \in active' : a \in attached' \/ a = c
      BY <1>6, <3>2, <3>3 DEF Steps
    <3> QED BY <1>5, <2>0, <3>2, <3>3, <3>4, <3>5 DEF Steps
  <2>4. CASE Deactivates(r)
    <3>1. Comes(r, "cleans", m.s, m.old \ {m.cert}, 0) /\ m.at = "detached" /\ cached[holds.s] = 0
      BY <1>3, <2>4, RequestMoves DEF Deactivates, WayOf, Steps
    <3>2. UNCHANGED <<attached, sessions, cached>> /\ active' = active \ {m.cert}
      BY <1>0, <2>4 DEF Deactivates
    <3>3. CleanedBy(r)' /\ requests'[r].at = "cleans"
      BY <1>3, <3>1, <3>2 DEF CleanedBy, Steps, Comes
    <3>4. \A c \in active' : c \in attached'
      BY <1>6, <3>1, <3>2 DEF Steps
    <3> QED BY <1>5, <2>0, <3>1, <3>2, <3>3, <3>4
  <2>5. CASE Creates(r)
    <3>1. Comes(r, "created", m.s, m.old, made + 1) /\ m.at = "cleans" /\ cached[holds.s] = 0
      BY <1>3, <2>5, RequestMoves DEF Creates, WayOf, Steps
    <3>2. UNCHANGED <<attached, sessions, cached>> /\ active' = active \cup {made + 1} /\ attached = {}
      BY <1>3, <2>5 DEF Creates, CleanedBy, Steps
    <3>3. CleanedBy(r)' /\ requests'[r].at = "created" /\ requests'[r].cert = made + 1
      BY <3>1, <3>2 DEF CleanedBy, Steps, Comes
    <3>4. active = {}
      BY <1>6, <3>1, <3>2 DEF Steps
    <3> QED BY <1>5, <2>0, <3>1, <3>2, <3>3, <3>4 DEF Steps
  <2>6. CASE Attaches(r)
    <3>1. Comes(r, "attached", m.s, m.old, m.cert) /\ m.at = "created" /\ cached[holds.s] = 0 /\ m.cert = made
      BY <1>3, <2>6, RequestMoves DEF Attaches, WayOf, Steps
    <3>2. UNCHANGED <<made, active, sessions, cached>> /\ attached' = {made}
      BY <1>3, <2>6, <3>1 DEF Attaches, CleanedBy, Steps
    <3>3. CleanedBy(r)' /\ requests'[r].at = "attached"
      BY <3>1, <3>2 DEF CleanedBy, Steps, Comes
    <3>4. \A c \in active' : c \in attached'
      BY <1>3, <1>6, <3>1, <3>2 DEF Steps, CleanedBy
    <3> QED BY <1>5, <2>0, <3>1, <3>2, <3>3, <3>4
  <2>7. CASE Allows(r)
    <3>1. Comes(r, "allowed", m.s, m.old, m.cert) /\ m.at = "attached" /\ cached[holds.s] = 0
      BY <1>3, <2>7, RequestMoves DEF Allows, WayOf, Steps
    <3>2. UNCHANGED <<made, active, attached, sessions, cached>>
      BY <2>7 DEF Allows
    <3>3. CleanedBy(r)' /\ requests'[r].at = "allowed"
      BY <1>3, <3>1, <3>2 DEF CleanedBy, Steps, Comes
    <3>4. \A c \in active' : c \in attached'
      BY <1>6, <3>1, <3>2 DEF Steps
    <3> QED BY <1>5, <2>0, <3>1, <3>2, <3>3, <3>4
  <2>8. CASE Caches(r)
    <3>1. Comes(r, "cached", m.s, m.old, m.cert) /\ m.at = "allowed" /\ m.cert = made /\ attached = {made}
      BY <1>3, <2>8, RequestMoves DEF Caches, WayOf, Steps, CleanedBy
    <3>2. UNCHANGED <<active, attached, sessions>> /\ cached'[holds.s] = made
      BY <2>0, <2>8, <3>1 DEF Caches, CertTypeOK
    <3>3. CleanedBy(r)' /\ requests'[r].at = "cached"
      BY <3>1 DEF CleanedBy, Steps, Comes
    <3>4. \A c \in active' : c \in attached'
      BY <1>6, <3>1, <3>2 DEF Steps
    <3> QED BY <1>5, <2>0, <3>1, <3>2, <3>3, <3>4
  <2>9. CASE Commits(r)
    <3>1. Comes(r, "none", 0, {}, 0) /\ m.at = "cached" /\ m.cert = cached[holds.s] /\ cached[holds.s] # 0
      BY <1>3, <2>9, RequestMoves DEF Commits, WayOf, Steps
    <3>2. UNCHANGED <<active, attached, cached>> /\ sessions'[holds.s].arn = m.cert
      BY <2>0, <2>9 DEF Commits, CertTypeOK
    <3>3. CleanedBy(r)'
      BY <3>1 DEF CleanedBy, Steps, Comes
    <3>4. \A c \in active' : c \in attached'
      BY <1>6, <3>1, <3>2 DEF Steps
    <3> QED BY <1>5, <1>7, <2>0, <3>1, <3>2, <3>3, <3>4
  <2>10. ~RollsBack(r)
    BY <1>0 DEF RollsBack
  <2> QED BY <1>9, <2>1, <2>2, <2>3, <2>4, <2>5, <2>6, <2>7, <2>8, <2>9, <2>10 DEF RequestStep
<1> QED BY <1>8, <1>9

LEMMA DeviceNoneLeft ==
  ASSUME CertTypeOK, NoneLeft, DeviceStep
  PROVE  NoneLeft'
<1>1. /\ UNCHANGED <<made, attached, allowed, cached, requests, holds>> /\ active' \in SUBSET active
      /\ \A s \in CertSessions : sessions'[s].arn = sessions[s].arn
  BY DeviceMoves
<1>2. \A r \in Requests : CleanedBy(r)'
  BY <1>1 DEF NoneLeft, CleanedBy, Steps
<1> QED BY <1>1, <1>2 DEF NoneLeft, Steps, NoneUnderWay
LEMMA RequestKeepsBound ==
  ASSUME NEW r \in Requests, RequestStep(r)
  PROVE  bound' = bound
BY DEF RequestStep, Requested, AnswersCached, Lists, Deactivates, Creates, Attaches, Allows,
       Caches, Commits, RollsBack, Detaches

LEMMA BoundStep ==
  ASSUME CertTypeOK, UnderWayRows, Calm, NoneLeft, BoundToNewest, trouble = {}, CertNext
  PROVE  BoundToNewest'
<1> USE DEF Calm
<1>0. holds.s \in Nat /\ CertSessions \subseteq Nat
  BY CertAssumption DEF CertTypeOK, CertSessions
<1>1. ASSUME NEW r \in Requests, RequestStep(r) PROVE BoundToNewest'
  <2>1. bound' = bound
    BY <1>1, RequestKeepsBound
  <2>2. CASE \E s \in CertSessions : Requested(r, s)
    <3>1. PICK s \in CertSessions : Requested(r, s)
      BY <2>2
    <3>2. holds'.s = s /\ s >= holds.s /\ cached' = cached
      BY <1>1, <3>1, CalmFacts DEF Requested
    <3>3. bound.is => bound.s <= s /\ (bound.s = s => bound.s = holds.s)
      <4> SUFFICES ASSUME bound.is PROVE bound.s <= s /\ (bound.s = s => bound.s = holds.s)
        OBVIOUS
      <4>1. bound.s \in CertSessions /\ bound.s <= holds.s
        BY DEF BoundToNewest
      <4>2. bound.s \in Nat /\ s \in Nat /\ holds.s \in Nat
        BY <1>0, <4>1
      <4>3. s >= holds.s
        BY <3>2
      <4> HIDE <1>0, <3>2
      <4> QED BY <4>1, <4>2, <4>3
    <3> QED BY <2>1, <3>2, <3>3 DEF BoundToNewest
  <2>3. CASE ~\E s \in CertSessions : Requested(r, s)
    <3>1. UnderWay(r) /\ holds'.s = holds.s /\ requests[r].s = holds.s /\ holds.s \in CertSessions
      BY <1>1, <2>3, CalmFacts
    <3>2. cached[holds.s] # 0 => cached' = cached
      BY <1>1, <3>1 DEF RequestStep, Requested, AnswersCached, Lists, Deactivates, Creates, Attaches, Allows,
                        Caches, Commits, RollsBack, Detaches, StartOnItsWay, WayOf, Steps
    <3> QED BY <2>1, <3>1, <3>2 DEF BoundToNewest
  <2> QED BY <2>2, <2>3
<1>2. CASE DeviceStep
  <2>0. UNCHANGED <<cached, requests, holds>>
    BY <1>2, DeviceMoves
  <2>1. ASSUME NEW s \in CertSessions, BindDevice(s) PROVE BoundToNewest'
    <3>1. holds.s = s /\ NoneUnderWay
      BY <2>1 DEF BindDevice, Connected
    <3>2. cached[s] # 0 /\ sessions[s].arn = cached[s]
      BY <3>1, NoSteps DEF NoneLeft, NoneUnderWay, Steps
    <3>3. bound' = [is |-> TRUE, s |-> s, arn |-> cached[s]]
      BY <2>1, <3>2 DEF BindDevice, Binds, NewestArn
    <3>4. bound'.s = s /\ bound'.arn = cached[s] /\ s <= s
      BY <1>0, <3>3
    <3> QED BY <2>0, <3>1, <3>2, <3>4 DEF BoundToNewest
  <2>2. CASE UnbindDevice
    <3>1. ~bound'.is
      BY <2>2 DEF UnbindDevice, CertTypeOK
    <3> QED BY <3>1 DEF BoundToNewest
  <2>3. ASSUME NEW s \in CertSessions, Moves(s) PROVE BoundToNewest'
    <3>1. bound' = bound
      BY <2>3 DEF Moves, Cancelled, Expires, VerifyConnectivity, SessionMoves
    <3> QED BY <2>0, <3>1 DEF BoundToNewest
  <2>4. ASSUME NEW s \in CertSessions, RegisterOwn(s) PROVE FALSE
    BY <2>4 DEF RegisterOwn
  <2> QED BY <1>2, <2>1, <2>2, <2>3, <2>4 DEF DeviceStep
<1> QED BY <1>1, <1>2 DEF CertNext, RequestStep, DeviceStep, Moves

LEMMA CertInit_ == CertInit => CertInv
<1> SUFFICES ASSUME CertInit PROVE CertInv
  OBVIOUS
<1> USE DEF CertInit
<1>0. CertCount \in Nat
  BY CertAssumption
<1>1. \A r \in Requests : requests[r] = NoRequest /\ requests[r].at = "none"
  BY NoSteps
<1>2. CertTypeOK
  <2>1. NoRequest \in [at : {"none", "asks", "cleans", "detached", "created", "attached",
          "allowed", "cached"}, s : CertSessions \cup {0}, old : SUBSET (1..0), cert : 0..0]
    BY DEF NoRequest
  <2> QED BY <1>0, <2>1 DEF CertTypeOK
<1>3. UnderWayRows
  BY <1>1 DEF UnderWayRows, Steps
<1>4. holds.s = 0 /\ holds.cert = 0 /\ bound.arn = 0 /\ ~bound.is /\ 0 \notin CertSessions
  BY CertAssumption DEF CertSessions
<1>5. Calm
  BY <1>1, <1>4 DEF Calm, OneRequest, OneOwner, StartOnItsWay, WayOf, CachedWorks, UnderWay, Steps
<1>6. NoneLeft
  BY <1>1, <1>4 DEF NoneLeft, CleanedBy, Steps
<1>7. BoundToNewest
  BY <1>4 DEF BoundToNewest
<1> QED BY <1>2, <1>3, <1>5, <1>6, <1>7 DEF CertInv

LEMMA CertStep == CertInv /\ [CertNext]_certVars => CertInv'
<1> SUFFICES ASSUME CertInv, [CertNext]_certVars PROVE CertInv'
  OBVIOUS
<1>0. CertTypeOK /\ UnderWayRows
  BY DEF CertInv
<1>1. CASE UNCHANGED certVars
  <2>1. UNCHANGED <<trouble, made, active, attached, allowed, sessions, cached, requests, bound, holds>>
    BY <1>1 DEF certVars
  <2>2. CertTypeOK' /\ UnderWayRows'
    BY <1>0, <2>1 DEF CertTypeOK, UnderWayRows, Steps
  <2>3. Calm => Calm'
    BY <2>1 DEF Calm, OneRequest, OneOwner, StartOnItsWay, WayOf, CachedWorks, UnderWay, Steps, Works
  <2>4. (NoneLeft => NoneLeft') /\ (BoundToNewest => BoundToNewest')
    BY <2>1 DEF NoneLeft, CleanedBy, BoundToNewest, NoneUnderWay, Steps
  <2> QED BY <2>1, <2>2, <2>3, <2>4 DEF CertInv
<1>2. CASE CertNext
  <2>1. (\E r \in Requests : RequestStep(r)) \/ DeviceStep
    BY <1>2 DEF CertNext, RequestStep, DeviceStep, Moves
  <2>2. trouble' = trouble
    <3>1. ASSUME NEW r \in Requests, RequestStep(r) PROVE trouble' = trouble
      BY <3>1 DEF RequestStep, Requested, AnswersCached, Lists, Deactivates, Creates, Attaches, Allows,
                  Caches, Commits, RollsBack, Detaches
    <3> QED BY <1>0, <2>1, <3>1, DeviceMoves
  <2>3. CertTypeOK' /\ UnderWayRows'
    BY <1>0, <2>1, RequestStepTypes, DeviceTypes
  <2>4. "overlap" \notin trouble => Calm'
    BY <1>0, <2>1, RequestCalm, DeviceCalm DEF CertInv
  <2>5. trouble \cap {"overlap", "fail"} = {} => NoneLeft'
    <3> SUFFICES ASSUME trouble \cap {"overlap", "fail"} = {} PROVE NoneLeft'
      OBVIOUS
    <3>1. "overlap" \notin trouble
      OBVIOUS
    <3>2. Calm /\ NoneLeft
      BY <3>1 DEF CertInv
    <3> QED BY <1>0, <2>1, <3>2, RequestNoneLeft, DeviceNoneLeft
  <2>6. trouble = {} => BoundToNewest'
    <3> SUFFICES ASSUME trouble = {} PROVE BoundToNewest'
      OBVIOUS
    <3> QED BY <1>0, <1>2, BoundStep DEF CertInv
  <2> QED BY <2>2, <2>3, <2>4, <2>5, <2>6 DEF CertInv
<1> QED BY <1>1, <1>2

LEMMA CertInvariance == CertSpec => []CertInv
BY CertInit_, CertStep, PTL DEF CertSpec

(* Sessions, requests and certificates are well typed, for every number of *)
(* them.                                                                   *)
THEOREM CertificateTypes == CertSpec => []CertTypeOK
<1>1. CertInv => CertTypeOK
  BY DEF CertInv
<1> QED BY <1>1, CertInvariance, PTL

LEMMA AnswerStep ==
  ASSUME CertInv, CertNext, NEW c \in Certificates, holds' # holds, holds'.cert = c, "overlap" \notin trouble,
         bound.is \/ bound.arn # c
  PROVE  Works(c) /\ ("fail" \in trouble \/ attached \cap active = {c})
<1>0. CertTypeOK /\ UnderWayRows /\ Calm /\ 0 \notin Certificates
  BY DEF CertInv, Certificates
<1>1. PICK r \in Requests : RequestStep(r)
  <2>1. DeviceStep => holds' = holds
    BY <1>0, DeviceMoves
  <2> QED BY <2>1 DEF CertNext, RequestStep, DeviceStep, Moves
<1>2. ASSUME NEW s \in CertSessions, Requested(r, s) PROVE FALSE
  BY <1>0, <1>2 DEF Requested
<1>3. UnderWay(r) /\ requests[r].s = holds.s /\ holds.s \in CertSessions
  BY <1>0, <1>1, <1>2, CalmFacts DEF Calm
<1>4. AnswersCached(r) \/ Commits(r)
  BY <1>1, <1>2 DEF RequestStep, Lists, Deactivates, Creates, Attaches, Allows, Caches, RollsBack, Detaches
<1>5. c = cached[holds.s] /\ cached[holds.s] # 0
  <2>1. CASE AnswersCached(r)
    BY <1>3, <2>1 DEF AnswersCached, Answered
  <2>2. CASE Commits(r)
    <3>1. requests[r].cert = cached[holds.s] /\ cached[holds.s] # 0
      BY <1>0, <2>2 DEF Commits, Calm, StartOnItsWay, WayOf, Steps
    <3> QED BY <2>2, <3>1 DEF Commits, Answered
  <2> QED BY <1>4, <2>1, <2>2
<1>6. Works(c)
  BY <1>0, <1>3, <1>5 DEF Calm, CachedWorks
<1>7. "fail" \notin trouble => attached \cap active = {c}
  <2> SUFFICES ASSUME "fail" \notin trouble PROVE attached \cap active = {c}
    OBVIOUS
  <2>1. attached = {c}
    BY <1>3, <1>5 DEF CertInv, NoneLeft
  <2> QED BY <1>6, <2>1 DEF Works
<1> QED BY <1>6, <1>7

(* Where requests do not overlap, the credentials a device is answered     *)
(* with work, whatever failed before, however often it asks again and      *)
(* whichever session is verified once more; and where nothing fails they   *)
(* alone do, the old ones having been detached and deactivated first       *)
(* (issue_mqtt_credentials).  Only the cached credentials of the session a *)
(* device was bound in do not once it is unbound.                          *)
THEOREM AnsweredCredentialsWork == CertSpec => AnswersWork
<1>1. CertInv /\ [CertNext]_certVars =>
        [ \A c \in Certificates :
            holds' # holds /\ holds'.cert = c /\ "overlap" \notin trouble /\ (bound.is \/ bound.arn # c) =>
              Works(c) /\ ("fail" \in trouble \/ attached \cap active = {c}) ]_certVars
  BY AnswerStep
<1> QED BY <1>1, CertInvariance, PTL DEF CertSpec, AnswersWork

LEMMA CutOffStep ==
  ASSUME CertInv, CertNext, trouble = {}
  PROVE  CutOff
<1> SUFFICES ASSUME bound.is, ~bound'.is, bound.s = holds.s PROVE active' = {}
  BY DEF CutOff
<1>0. CertTypeOK /\ Calm /\ NoneLeft /\ BoundToNewest
  BY DEF CertInv
<1>1. UnbindDevice
  <2>1. \A r \in Requests : ~RequestStep(r)
    BY RequestKeepsBound
  <2>2. \A s \in CertSessions : ~(BindDevice(s) \/ RegisterOwn(s) \/ Moves(s))
    BY DEF BindDevice, RegisterOwn, Binds, Moves, Cancelled, Expires, VerifyConnectivity, SessionMoves
  <2> QED BY <2>1, <2>2 DEF CertNext, RequestStep, Moves
<1>2. holds.s \in CertSessions /\ NoneUnderWay /\ bound.arn = cached[holds.s] /\ cached[holds.s] # 0
  BY <1>0, <1>1 DEF BoundToNewest, UnbindDevice
<1>3. attached = {bound.arn}
  BY <1>0, <1>2 DEF NoneLeft
<1>4. active \subseteq attached
  BY <1>0, <1>2, NoSteps DEF NoneLeft, NoneUnderWay, Steps
<1>5. active' = active \ {bound.arn}
  BY <1>1 DEF UnbindDevice
<1> QED BY <1>3, <1>4, <1>5

(* Where nothing goes wrong, no certificate of a device is active once it  *)
(* is unbound, if it was bound through the session it got its certificate  *)
(* in.                                                                     *)
THEOREM UnbindingCutsOff == CertSpec => UnbindCutsOff
<1>1. CertInv /\ [CertNext]_certVars => [trouble = {} => CutOff]_certVars
  BY CutOffStep
<1> QED BY <1>1, CertInvariance, PTL DEF CertSpec, UnbindCutsOff

-----------------------------------------------------------------------------
(* RoastStarts.                                                            *)

(* The device connects in the order of the numbers, and the connections    *)
(* before an open one are not open.                                        *)
InOrder == \A k, l \in Links : k < l /\ HasLink(l) => links[k].at \notin {"none", "open"}

(* The session that is registered is there; and the one before which all   *)
(* others were over is registered while it is open.                        *)
CurrentThere == current # 0 => links[current].at \notin {"none", "over"}

AfterOthers == \A l \in Links : HasLink(l) /\ links[l].after =>
  /\ \A k \in Links : k < l => links[k].at = "over"
  /\ links[l].at = "open" => current = l

Queues(row, s) == \E i \in DOMAIN row.queue : row.queue[i] = s

Waiting(l, s) == Queues(links[l], s)

Fresh(told, l) == told.to = l /\ Times(told) = 0

(* What a session still has to play it was given, has not played, and has  *)
(* once.                                                                   *)
Owns(row, l, told) ==
  /\ \A i \in DOMAIN row.queue : Fresh(told[row.queue[i]], l)
  /\ \A i, j \in DOMAIN row.queue : row.queue[i] = row.queue[j] => i = j
  /\ row.plays # 0 => Fresh(told[row.plays], l) /\ ~Queues(row, row.plays)

QueueOwn == \A l \in Links : Owns(links[l], l, starts)

(* What an open session was given waits there, is being played, or has     *)
(* been done with, once.                                                   *)
NoneLost == \A l \in Links, s \in Starts : starts[s].to = l =>
  /\ HasLink(l)
  /\ links[l].at = "open" => Waiting(l, s) \/ links[l].plays = s \/ Times(starts[s]) = 1

GivenOnce == \A s \in Starts : starts[s].at \in {"none", "posted"} => starts[s].to = 0 /\ Times(starts[s]) = 0

StartInv ==
  /\ StartTypeOK /\ InOrder /\ CurrentThere /\ AfterOthers /\ QueueOwn /\ NoneLost /\ GivenOnce

-----------------------------------------------------------------------------
LEMMA SeqFacts ==
  ASSUME NEW S, NEW q \in Seq(S)
  PROVE  /\ \A x \in S : /\ Append(q, x) \in Seq(S)
                         /\ DOMAIN Append(q, x) = DOMAIN q \cup {Len(q) + 1}
                         /\ Append(q, x)[Len(q) + 1] = x
                         /\ \A i \in DOMAIN q : Append(q, x)[i] = q[i]
         /\ Len(q) \in Nat /\ DOMAIN q = 1..Len(q)
         /\ \A i \in DOMAIN q : q[i] \in S
         /\ q # <<>> => /\ Tail(q) \in Seq(S) /\ Head(q) \in S /\ Head(q) = q[1] /\ 1 \in DOMAIN q
                        /\ DOMAIN Tail(q) = 1..(Len(q) - 1)
                        /\ \A i \in DOMAIN Tail(q) : i + 1 \in DOMAIN q /\ Tail(q)[i] = q[i + 1]
         /\ <<>> \in Seq(S) /\ DOMAIN <<>> = {}
         /\ q = <<>> <=> DOMAIN q = {}
OBVIOUS

LEMMA ZeroIsNone == Links \subseteq Nat /\ Starts \subseteq Nat /\ 0 \notin Links /\ 0 \notin Starts
BY StartAssumption DEF Links, Starts

LEMMA StartInitInv == StartInit => StartInv
<1> SUFFICES ASSUME StartInit PROVE StartInv
  OBVIOUS
<1>1. links = [l \in Links |-> NoLink] /\ current = 0 /\ starts = [s \in Starts |-> NoStart]
  BY DEF StartInit
<1>2. /\ NoLink \in LinkRow /\ NoLink.at = "none" /\ DOMAIN NoLink.queue = {} /\ NoLink.plays = 0
      /\ NoStart \in StartRow /\ NoStart.to = 0 /\ Times(NoStart) = 0
  BY DEF NoLink, NoStart, Times, LinkRow, LinkStates, StartRow
<1>3. (\A l \in Links : links[l] = NoLink) /\ (\A s \in Starts : starts[s] = NoStart)
  BY <1>1
<1>4. StartTypeOK
  BY <1>1, <1>2 DEF StartTypeOK
<1>5. InOrder /\ CurrentThere /\ AfterOthers
  BY <1>1, <1>2, <1>3 DEF InOrder, CurrentThere, AfterOthers, HasLink
<1>6. QueueOwn
  BY <1>2, <1>3 DEF QueueOwn, Owns
<1>7. NoneLost /\ GivenOnce
  BY <1>2, <1>3, ZeroIsNone DEF NoneLost, GivenOnce
<1> QED BY <1>4, <1>5, <1>6, <1>7 DEF StartInv

(* The rows of the sessions and of the starts.                             *)
LEMMA RowFacts ==
  ASSUME StartInv
  PROVE  /\ \A k \in Links : /\ links[k] \in LinkRow /\ links[k].queue \in Seq(Starts)
                             /\ links[k].plays \in Starts \cup {0}
                             /\ \A i \in DOMAIN links[k].queue : links[k].queue[i] \in Starts
                             /\ Owns(links[k], k, starts)
         /\ \A s \in Starts : starts[s] \in StartRow
<1>1. \A k \in Links : links[k] \in LinkRow /\ Owns(links[k], k, starts)
  BY DEF StartInv, StartTypeOK, QueueOwn
<1>2. \A k \in Links : links[k].queue \in Seq(Starts) /\ links[k].plays \in Starts \cup {0}
  BY <1>1 DEF LinkRow
<1>3. \A k \in Links : \A i \in DOMAIN links[k].queue : links[k].queue[i] \in Starts
  BY <1>2, SeqFacts
<1>4. \A s \in Starts : starts[s] \in StartRow
  BY DEF StartInv, StartTypeOK
<1> QED BY <1>1, <1>2, <1>3, <1>4

(* A session owns what it has to play as long as nobody else touches those *)
(* starts.                                                                 *)
LEMMA OwnsKept ==
  ASSUME StartInv, NEW k \in Links, NEW row, row.queue = links[k].queue, row.plays \in {0, links[k].plays},
         NEW told, \A r \in Starts : Queues(row, r) \/ row.plays = r =>
                                     told[r].to = starts[r].to /\ Times(told[r]) = Times(starts[r])
  PROVE  Owns(row, k, told)
<1>1. /\ links[k].queue \in Seq(Starts) /\ links[k].plays \in Starts \cup {0}
      /\ \A i \in DOMAIN links[k].queue : links[k].queue[i] \in Starts
      /\ Owns(links[k], k, starts)
  BY RowFacts
<1>2. \A i \in DOMAIN row.queue : Queues(row, row.queue[i])
  BY DEF Queues
<1>3. \A r : Queues(row, r) <=> Queues(links[k], r)
  BY DEF Queues
<1>4. \A i \in DOMAIN row.queue : Fresh(told[row.queue[i]], k)
  BY <1>1, <1>2 DEF Owns, Fresh
<1>5. row.plays # 0 => Fresh(told[row.plays], k) /\ ~Queues(row, row.plays)
  BY <1>1, <1>3 DEF Owns, Fresh
<1> QED BY <1>1, <1>4, <1>5 DEF Owns

LEMMA ConnectsInv ==
  ASSUME StartInv, NEW l \in Links, Connects(l)
  PROVE  StartInv'
<1> DEFINE row == [links[l] EXCEPT !.at = "open", !.after = \A k \in 1..(l - 1) : links[k].at = "over"]
<1>1. links' = [links EXCEPT ![l] = row] /\ current' = l /\ starts' = starts
  BY Zenon DEF Connects
<1>2. links[l] \in LinkRow
  BY DEF StartInv, StartTypeOK, LinkRow, LinkStates
<1>3. \A k \in Links : k < l => k \in 1..(l - 1)
  BY ZeroIsNone, StartAssumption DEF Links
<1>4. row.at = "open" /\ row.after = (\A k \in 1..(l - 1) : links[k].at = "over")
      /\ row.queue = links[l].queue /\ row.plays = links[l].plays /\ row \in LinkRow
  BY <1>2 DEF LinkRow, LinkStates
<1> HIDE DEF row
<1>5. links'[l] = row /\ (\A k \in Links : k # l => links'[k] = links[k]) /\ links' \in [Links -> LinkRow]
  BY <1>1, <1>4 DEF StartInv, StartTypeOK, LinkRow, LinkStates
<1>6. StartTypeOK'
  BY <1>1, <1>5 DEF StartInv, StartTypeOK, LinkRow, LinkStates
<1>7. links[l].at = "none" /\ \A k \in Links : k < l => links[k].at \notin {"none", "open"}
  BY <1>3 DEF Connects, HasLink
<1>8. \A k \in Links : l < k => links[k].at = "none"
  BY <1>7 DEF StartInv, InOrder, HasLink
<1>9. row.after => \A k \in Links : k < l => links[k].at = "over"
  BY <1>3, <1>4
<1>10. InOrder'
  BY <1>4, <1>5, <1>7, <1>8, ZeroIsNone DEF HasLink, StartInv, InOrder
<1>11. AfterOthers'
  <2> SUFFICES ASSUME NEW m \in Links, HasLink(m)', links'[m].after
               PROVE  /\ \A k \in Links : k < m => links'[k].at = "over"
                      /\ links'[m].at = "open" => current' = m
    BY DEF AfterOthers
  <2>1. CASE m = l
    <3>1. row.after
      BY <1>5, <2>1
    <3>2. \A k \in Links : k < l => links[k].at = "over" /\ k # l
      BY <1>9, <3>1, ZeroIsNone
    <3> QED BY <1>1, <1>5, <2>1, <3>2
  <2>2. CASE m # l
    <3>1. HasLink(m) /\ links[m].after /\ links'[m] = links[m]
      BY <1>5, <2>2 DEF HasLink
    <3>2. m < l
      BY <1>8, <2>2, <3>1, ZeroIsNone DEF HasLink
    <3> QED BY <1>5, <1>7, <3>1, <3>2, ZeroIsNone DEF StartInv, AfterOthers
  <2> QED BY <2>1, <2>2
<1>12. CurrentThere'
  BY <1>1, <1>4, <1>5 DEF CurrentThere
<1>13. \A m \in Links : links'[m].queue = links[m].queue /\ links'[m].plays = links[m].plays
  BY <1>4, <1>5
<1>14. QueueOwn' /\ GivenOnce'
  BY <1>1, <1>13 DEF StartInv, QueueOwn, Owns, Queues, Fresh, GivenOnce, Waiting
<1>15. NoneLost'
  <2>1. \A s \in Starts : starts[s].to # l
    BY <1>7 DEF StartInv, NoneLost, HasLink
  <2> QED BY <1>1, <1>5, <1>13, <2>1 DEF StartInv, NoneLost, HasLink, Waiting, Queues
<1> QED BY <1>6, <1>10, <1>11, <1>12, <1>14, <1>15 DEF StartInv

(* A session goes on towards its end; once nothing is played any more it   *)
(* is no longer open.                                                      *)
LEMMA LinkEndsInv ==
  ASSUME StartInv, NEW l \in Links, NEW row \in LinkRow, row.at \notin {"none", "open"},
         row.after = links[l].after, row.queue = links[l].queue, row.plays \in {0, links[l].plays},
         links[l].at \notin {"none", "over"}, links' = [links EXCEPT ![l] = row], UNCHANGED starts,
         current' = IF row.at = "over" THEN 0 ELSE current
  PROVE  StartInv'
<1>1. links'[l] = row /\ (\A k \in Links : k # l => links'[k] = links[k]) /\ links' \in [Links -> LinkRow]
  BY DEF StartInv, StartTypeOK, LinkRow, LinkStates
<1>2. StartTypeOK'
  BY <1>1 DEF StartInv, StartTypeOK, LinkRow, LinkStates
<1>3. InOrder' /\ CurrentThere'
  BY <1>1, ZeroIsNone DEF StartInv, HasLink, InOrder, CurrentThere, LinkStates, StartTypeOK
<1>4. AfterOthers'
  BY <1>1, ZeroIsNone DEF StartInv, HasLink, AfterOthers, InOrder, LinkStates
<1>5. QueueOwn' /\ NoneLost' /\ GivenOnce'
  BY <1>1 DEF HasLink, StartInv, QueueOwn, Owns, Queues, Fresh, NoneLost, GivenOnce, Waiting
<1> QED BY <1>2, <1>3, <1>4, <1>5 DEF StartInv

LEMMA LinkStepInv ==
  ASSUME StartInv, NEW l \in Links,
         \/ DeviceGoes(l) \/ ClosesForIdle(l) \/ ReadLoopEnds(l) \/ WorkerStops(l)
         \/ StopsPlaying(l) \/ CleansUp(l)
  PROVE  StartInv'
<1>1. links[l] \in LinkRow
  BY DEF StartInv, StartTypeOK, LinkRow, LinkStates
<1>2. ASSUME NEW to \in {"lost", "stopping", "ended"}, links[l].at \notin {"none", "over"},
             links' = [links EXCEPT ![l].at = to], UNCHANGED <<current, starts>>
      PROVE  StartInv'
  <2> DEFINE row == [links[l] EXCEPT !.at = to]
  <2>1. row \in LinkRow /\ row.at = to /\ row.after = links[l].after /\ row.queue = links[l].queue
        /\ row.plays = links[l].plays
    BY <1>1 DEF LinkRow, LinkStates
  <2>2. links' = [links EXCEPT ![l] = row]
    BY <1>2
  <2> HIDE DEF row
  <2> QED BY <1>2, <2>1, <2>2, LinkEndsInv
<1>3. CASE StopsPlaying(l)
  <2> DEFINE row == [links[l] EXCEPT !.at = "closing", !.plays = 0]
  <2>1. row \in LinkRow /\ row.at = "closing" /\ row.after = links[l].after /\ row.queue = links[l].queue
        /\ row.plays = 0
    BY <1>1 DEF LinkRow, LinkStates
  <2>2. links' = [links EXCEPT ![l] = row]
    BY <1>3 DEF StopsPlaying
  <2> HIDE DEF row
  <2> QED BY <1>3, <2>1, <2>2, LinkEndsInv DEF StopsPlaying
<1>4. CASE CleansUp(l)
  <2> DEFINE row == [links[l] EXCEPT !.at = "over"]
  <2>1. row \in LinkRow /\ row.at = "over" /\ row.after = links[l].after /\ row.queue = links[l].queue
        /\ row.plays = links[l].plays
    BY <1>1 DEF LinkRow, LinkStates
  <2>2. links' = [links EXCEPT ![l] = row]
    BY <1>4 DEF CleansUp
  <2> HIDE DEF row
  <2> QED BY <1>4, <2>1, <2>2, LinkEndsInv DEF CleansUp, Unregister
<1> QED BY <1>2, <1>3, <1>4 DEF LinkMoves, DeviceGoes, ClosesForIdle, ReadLoopEnds, WorkerStops

(* A session whose place in its life stays as it is.                       *)
LEMMA QueueChanges ==
  ASSUME StartInv, NEW l \in Links, NEW row \in LinkRow, row.at = links[l].at, row.after = links[l].after,
         links' = [links EXCEPT ![l] = row], current' = current
  PROVE  /\ links' \in [Links -> LinkRow] /\ links'[l] = row
         /\ \A k \in Links : k # l => links'[k] = links[k]
         /\ InOrder' /\ CurrentThere' /\ AfterOthers'
<1>1. links'[l] = row /\ (\A k \in Links : k # l => links'[k] = links[k]) /\ links' \in [Links -> LinkRow]
  BY DEF StartInv, StartTypeOK, LinkRow, LinkStates
<1>2. \A k \in Links : links'[k].at = links[k].at /\ links'[k].after = links[k].after
  BY <1>1
<1> QED BY <1>1, <1>2, ZeroIsNone DEF StartInv, HasLink, InOrder, CurrentThere, AfterOthers, StartTypeOK

LEMMA TakesNextInv ==
  ASSUME StartInv, NEW l \in Links, TakesNext(l)
  PROVE  StartInv'
<1> DEFINE q == links[l].queue
           row == [links[l] EXCEPT !.plays = Head(q), !.queue = Tail(q)]
<1>1. q \in Seq(Starts) /\ q # <<>> /\ links[l].plays = 0 /\ current' = current /\ starts' = starts
      /\ links[l] \in LinkRow
  BY DEF StartInv, StartTypeOK, TakesNext, LinkRow, LinkStates
<1>2. links' = [links EXCEPT ![l] = row]
  BY DEF TakesNext, StartInv, StartTypeOK
<1> HIDE DEF q
<1>3. /\ Tail(q) \in Seq(Starts) /\ Head(q) \in Starts /\ Head(q) = q[1] /\ 1 \in DOMAIN q
      /\ DOMAIN Tail(q) = 1..(Len(q) - 1) /\ Len(q) \in Nat /\ DOMAIN q = 1..Len(q)
      /\ \A i \in DOMAIN Tail(q) : i + 1 \in DOMAIN q /\ Tail(q)[i] = q[i + 1]
  BY <1>1, SeqFacts
<1>a. row \in LinkRow /\ row.at = links[l].at /\ row.after = links[l].after
      /\ row.queue = Tail(q) /\ row.plays = Head(q)
  BY <1>1, <1>3 DEF LinkRow, LinkStates
<1> HIDE DEF row
<1>b. /\ links' \in [Links -> LinkRow] /\ links'[l] = row
      /\ \A k \in Links : k # l => links'[k] = links[k]
      /\ InOrder' /\ CurrentThere' /\ AfterOthers'
  BY <1>1, <1>2, <1>a, QueueChanges
<1>4. /\ links' \in [Links -> LinkRow] /\ InOrder' /\ CurrentThere' /\ AfterOthers'
      /\ links'[l].queue = Tail(q) /\ links'[l].plays = Head(q) /\ links'[l].at = links[l].at
      /\ \A k \in Links : k # l => links'[k] = links[k]
  BY <1>a, <1>b
<1>5. StartTypeOK' /\ GivenOnce'
  BY <1>1, <1>4 DEF StartInv, StartTypeOK, GivenOnce
<1>6. /\ \A i \in DOMAIN q : starts[q[i]].to = l /\ Times(starts[q[i]]) = 0
      /\ \A i, j \in DOMAIN q : q[i] = q[j] => i = j
  BY DEF StartInv, QueueOwn, Owns, Queues, Fresh, q
<1>7. QueueOwn'
  <2>1. \A i \in DOMAIN Tail(q) : starts[Tail(q)[i]].to = l /\ Times(starts[Tail(q)[i]]) = 0 /\ Tail(q)[i] # Head(q)
    BY <1>3, <1>6
  <2>2. \A i, j \in DOMAIN Tail(q) : Tail(q)[i] = Tail(q)[j] => i = j
    BY <1>3, <1>6
  <2>3. starts[Head(q)].to = l /\ Times(starts[Head(q)]) = 0
    BY <1>3, <1>6
  <2>4. Owns(links'[l], l, starts')
    BY <1>1, <1>4, <2>1, <2>2, <2>3 DEF Owns, Queues, Fresh
  <2>5. \A k \in Links : k # l => Owns(links'[k], k, starts')
    BY <1>1, <1>4, RowFacts
  <2> QED BY <2>4, <2>5 DEF QueueOwn
<1>8. \A s : Waiting(l, s) => Waiting(l, s)' \/ s = Head(q)
  <2> SUFFICES ASSUME NEW i \in DOMAIN q PROVE q[i] = Head(q) \/ \E j \in DOMAIN Tail(q) : Tail(q)[j] = q[i]
    BY <1>4 DEF Waiting, Queues, q
  <2>1. i = 1 \/ (i - 1 \in DOMAIN Tail(q) /\ Tail(q)[i - 1] = q[i])
    BY <1>3
  <2> QED BY <1>3, <2>1
<1>9. NoneLost'
  <2> SUFFICES ASSUME NEW k \in Links, NEW s \in Starts, starts'[s].to = k
               PROVE  /\ HasLink(k)'
                      /\ links'[k].at = "open" => Waiting(k, s)' \/ links'[k].plays = s \/ Times(starts'[s]) = 1
    BY DEF NoneLost
  <2>1. /\ HasLink(k)
        /\ links[k].at = "open" => Waiting(k, s) \/ links[k].plays = s \/ Times(starts[s]) = 1
    BY <1>1 DEF StartInv, NoneLost
  <2>2. CASE k = l
    BY <1>1, <1>4, <1>8, <2>1, <2>2, ZeroIsNone DEF HasLink
  <2>3. CASE k # l
    BY <1>1, <1>4, <2>1, <2>3 DEF HasLink, Waiting
  <2> QED BY <2>2, <2>3
<1> QED BY <1>4, <1>5, <1>7, <1>9 DEF StartInv

(* However a line ends, it is counted once while the connection is open. *)
LEMMA EndCounts ==
  ASSUME StartTypeOK, NEW l \in Links, PlaysToItsEnd(l) \/ StopsMidway(l) \/ SaysNothing(l)
  PROVE  LET s == links[l].plays IN
         /\ s \in Starts
         /\ links' = [links EXCEPT ![l].plays = 0] /\ current' = current
         /\ \E told \in StartRow :
              /\ starts' = [starts EXCEPT ![s] = told]
              /\ told.to = starts[s].to /\ told.at = starts[s].at
              /\ Times(told) \in {Times(starts[s]), Times(starts[s]) + 1}
              /\ links[l].at = "open" => Times(told) = Times(starts[s]) + 1
<1> DEFINE s == links[l].plays
           old == starts[s]
           n == Hears(l)
<1>1. s \in Starts /\ old \in StartRow /\ links' = [links EXCEPT ![l].plays = 0] /\ current' = current
  BY DEF StartTypeOK, LinkRow, PlaysToItsEnd, StopsMidway, SaysNothing, Done
<1>2. n \in {0, 1} /\ (links[l].at = "open" => n = 1)
  BY DEF Hears
<1> HIDE DEF n
<1>3. old.whole \in Nat /\ old.part \in Nat /\ old.unsaid \in Nat
  BY <1>1 DEF StartRow
<1>4. CASE PlaysToItsEnd(l)
  <2> DEFINE told == [old EXCEPT !.whole = @ + n]
  <2>1. starts' = [starts EXCEPT ![s] = told]
    BY <1>4 DEF PlaysToItsEnd, Done, n
  <2>2. told \in StartRow /\ told.to = old.to /\ told.at = old.at
        /\ told.whole = old.whole + n /\ told.part = old.part /\ told.unsaid = old.unsaid
    BY <1>1, <1>2 DEF StartRow
  <2> HIDE DEF told, old, s
  <2>3. Times(told) \in {Times(old), Times(old) + 1} /\ (links[l].at = "open" => Times(told) = Times(old) + 1)
    BY <1>2, <1>3, <2>2 DEF Times
  <2> QED BY <1>1, <2>1, <2>2, <2>3 DEF old, s
<1>5. CASE StopsMidway(l)
  <2> DEFINE told == [old EXCEPT !.part = @ + n]
  <2>1. starts' = [starts EXCEPT ![s] = told]
    BY <1>5 DEF StopsMidway, Done, n
  <2>2. told \in StartRow /\ told.to = old.to /\ told.at = old.at
        /\ told.whole = old.whole /\ told.part = old.part + n /\ told.unsaid = old.unsaid
    BY <1>1, <1>2 DEF StartRow
  <2> HIDE DEF told, old, s
  <2>3. Times(told) \in {Times(old), Times(old) + 1} /\ (links[l].at = "open" => Times(told) = Times(old) + 1)
    BY <1>2, <1>3, <2>2 DEF Times
  <2> QED BY <1>1, <2>1, <2>2, <2>3 DEF old, s
<1>6. CASE SaysNothing(l)
  <2> DEFINE told == [old EXCEPT !.unsaid = @ + 1]
  <2>1. starts' = [starts EXCEPT ![s] = told]
    BY <1>6 DEF SaysNothing, Done
  <2>2. told \in StartRow /\ told.to = old.to /\ told.at = old.at
        /\ told.whole = old.whole /\ told.part = old.part /\ told.unsaid = old.unsaid + 1
    BY <1>1 DEF StartRow
  <2> HIDE DEF told, old, s
  <2>3. Times(told) = Times(old) + 1
    BY <1>3, <2>2 DEF Times
  <2> QED BY <1>1, <2>1, <2>2, <2>3 DEF old, s
<1> QED BY <1>4, <1>5, <1>6

LEMMA PlaysInv ==
  ASSUME StartInv, NEW l \in Links, PlaysToItsEnd(l) \/ StopsMidway(l) \/ SaysNothing(l)
  PROVE  StartInv'
<1> DEFINE s == links[l].plays
           row == [links[l] EXCEPT !.plays = 0]
<1>1. s \in Starts /\ links[l].queue \in Seq(Starts) /\ UNCHANGED current /\ starts[s] \in StartRow
  BY EndCounts, RowFacts DEF StartInv, StartTypeOK
<1>2. links' = [links EXCEPT ![l] = row]
  BY EndCounts DEF StartInv
<1>3. PICK told \in StartRow :
        /\ starts' = [starts EXCEPT ![s] = told]
        /\ told.to = starts[s].to /\ told.at = starts[s].at
        /\ Times(told) \in {Times(starts[s]), Times(starts[s]) + 1}
        /\ links[l].at = "open" => Times(told) = Times(starts[s]) + 1
  BY EndCounts DEF StartInv
<1>a. row \in LinkRow /\ row.at = links[l].at /\ row.after = links[l].after
      /\ row.queue = links[l].queue /\ row.plays = 0
  BY DEF StartInv, StartTypeOK, LinkRow, LinkStates
<1> HIDE DEF row
<1>4. starts[s].to = l /\ Times(starts[s]) = 0 /\ ~Waiting(l, s)
  BY <1>1, RowFacts, ZeroIsNone DEF Owns, Fresh, Waiting
<1> DEFINE n == Times(told)
<1>5. n \in Nat /\ (links[l].at = "open" => n = 1)
  BY <1>3, <1>4
<1>b. starts[s].at \notin {"none", "posted"}
  BY <1>1, <1>4, ZeroIsNone DEF StartInv, GivenOnce
<1> HIDE DEF s, n
<1>c. told \in StartRow /\ told.to = starts[s].to /\ Times(told) = n /\ told.at = starts[s].at
  BY <1>3 DEF n
<1>6. /\ starts' \in [Starts -> StartRow] /\ starts'[s].to = l /\ Times(starts'[s]) = n /\ starts'[s].at = starts[s].at
      /\ \A r \in Starts : r # s => starts'[r] = starts[r]
  BY <1>1, <1>3, <1>4, <1>c DEF StartInv, StartTypeOK, StartRow
<1>d. /\ links' \in [Links -> LinkRow] /\ links'[l] = row
      /\ \A k \in Links : k # l => links'[k] = links[k]
      /\ InOrder' /\ CurrentThere' /\ AfterOthers'
  BY <1>1, <1>2, <1>a, QueueChanges
<1>7. /\ links' \in [Links -> LinkRow] /\ InOrder' /\ CurrentThere' /\ AfterOthers'
      /\ links'[l].queue = links[l].queue /\ links'[l].plays = 0 /\ links'[l].at = links[l].at
      /\ \A k \in Links : k # l => links'[k] = links[k]
  BY <1>a, <1>d
<1>8. StartTypeOK'
  BY <1>1, <1>6, <1>7 DEF StartInv, StartTypeOK
<1>e. GivenOnce'
  BY <1>b, <1>6 DEF StartInv, GivenOnce
<1>9. \A k \in Links : /\ links'[k].queue = links[k].queue
                       /\ \A i \in DOMAIN links[k].queue : links[k].queue[i] \in Starts /\ links[k].queue[i] # s
                       /\ links[k].plays = s => k = l
  <2> SUFFICES ASSUME NEW k \in Links
               PROVE  /\ links'[k].queue = links[k].queue
                      /\ \A i \in DOMAIN links[k].queue : links[k].queue[i] \in Starts /\ links[k].queue[i] # s
                      /\ links[k].plays = s => k = l
    OBVIOUS
  <2>1. /\ \A i \in DOMAIN links[k].queue : links[k].queue[i] \in Starts
        /\ Owns(links[k], k, starts)
    BY RowFacts
  <2>2. links'[k].queue = links[k].queue
    BY <1>7
  <2>3. links[k].plays = s => k = l
    BY <1>1, <1>4, <2>1, ZeroIsNone DEF Owns, Fresh
  <2>4. ASSUME NEW i \in DOMAIN links[k].queue, links[k].queue[i] = s PROVE FALSE
    <3>1. k = l
      BY <1>4, <2>1, <2>4 DEF Owns, Fresh
    <3> QED BY <1>4, <2>4, <3>1 DEF Waiting, Queues
  <2> QED BY <2>1, <2>2, <2>3, <2>4
<1>10. QueueOwn'
  <2> SUFFICES ASSUME NEW k \in Links PROVE Owns(links'[k], k, starts')
    BY DEF QueueOwn
  <2>1. links'[k].queue = links[k].queue /\ links'[k].plays \in {0, links[k].plays} /\ links'[k].plays # s
    BY <1>1, <1>7, <1>9, ZeroIsNone
  <2>2. ~Queues(links'[k], s)
    BY <1>9, <2>1 DEF Queues
  <2> QED BY <1>6, <2>1, <2>2, OwnsKept
<1>11. NoneLost'
  <2> SUFFICES ASSUME NEW k \in Links, NEW r \in Starts, starts'[r].to = k
               PROVE  /\ HasLink(k)'
                      /\ links'[k].at = "open" => Waiting(k, r)' \/ links'[k].plays = r \/ Times(starts'[r]) = 1
    BY DEF NoneLost
  <2>1. starts[r].to = k /\ links'[k].at = links[k].at /\ (Waiting(k, r) => Waiting(k, r)')
    BY <1>4, <1>6, <1>7, <1>9 DEF Waiting, Queues
  <2>2. CASE r = s
    BY <1>4, <1>5, <1>6, <2>1, <2>2 DEF StartInv, NoneLost, HasLink
  <2>3. CASE r # s
    <3>1. starts'[r] = starts[r] /\ (k # l => links'[k].plays = links[k].plays)
      BY <1>6, <1>7, <2>3
    <3>2. links[k].plays = r => k # l
      BY <2>3 DEF s
    <3> QED BY <2>1, <3>1, <3>2 DEF StartInv, NoneLost, HasLink
  <2> QED BY <2>2, <2>3
<1> QED BY <1>7, <1>8, <1>e, <1>10, <1>11 DEF StartInv

(* A step of a start that gives it to no session.                          *)
LEMMA StartMovesInv ==
  ASSUME StartInv, NEW s \in Starts, NEW row \in StartRow, row.to = starts[s].to, Times(row) = Times(starts[s]),
         row.at \in {"none", "posted"} => starts[s].at \in {"none", "posted"},
         SetStart(s, row), UNCHANGED <<links, current>>
  PROVE  StartInv'
<1>1. starts' = [starts EXCEPT ![s] = row]
  BY DEF SetStart
<1>2. /\ starts' \in [Starts -> StartRow] /\ starts'[s] = row
      /\ \A r \in Starts : r # s => starts'[r] = starts[r]
  BY <1>1 DEF StartInv, StartTypeOK, StartRow
<1>3. \A r \in Starts : starts'[r].to = starts[r].to /\ Times(starts'[r]) = Times(starts[r])
  BY <1>2
<1>4. StartTypeOK'
  BY <1>2 DEF StartInv, StartTypeOK
<1>5. GivenOnce'
  BY <1>2 DEF StartInv, GivenOnce
<1>7. QueueOwn'
  <2> SUFFICES ASSUME NEW k \in Links PROVE Owns(links'[k], k, starts')
    BY DEF QueueOwn
  <2> QED BY <1>3, OwnsKept
<1>8. NoneLost'
  BY <1>3 DEF StartInv, NoneLost, HasLink, Waiting, Queues
<1>9. InOrder' /\ CurrentThere' /\ AfterOthers'
  BY DEF StartInv, InOrder, CurrentThere, AfterOthers, HasLink
<1> QED BY <1>4, <1>5, <1>7, <1>8, <1>9 DEF StartInv

LEMMA StartStepInv ==
  ASSUME StartInv, NEW s \in Starts,
         HandleStartRoast(s) \/ Generates(s) \/ Generated(s) \/ TellsApp(s) \/ AgentUnavailable(s)
  PROVE  StartInv'
<1>1. starts[s] \in StartRow /\ UNCHANGED <<links, current>>
  BY DEF StartInv, StartTypeOK, StartRow, HandleStartRoast, Generates, Generated, TellsApp, AgentUnavailable
<1>2. CASE HandleStartRoast(s)
  <2>1. starts[s].to = 0 /\ Times(starts[s]) = 0 /\ starts[s].at = "none"
    BY <1>2 DEF StartInv, GivenOnce, HandleStartRoast
  <2> DEFINE row == [NoStart EXCEPT !.at = "posted", !.app = "waits"]
  <2>4. row \in StartRow /\ row.to = 0 /\ row.whole = 0 /\ row.part = 0 /\ row.unsaid = 0
    BY DEF NoStart, StartRow
  <2> HIDE DEF row
  <2>2. row \in StartRow /\ row.to = 0 /\ Times(row) = 0
    BY <2>4 DEF Times
  <2>3. SetStart(s, row)
    BY <1>2 DEF HandleStartRoast, row
  <2> QED BY <1>1, <2>1, <2>2, <2>3, StartMovesInv
<1>3. ASSUME NEW at \in {"generating", "text", "empty", "failed"}, SetStart(s, [starts[s] EXCEPT !.at = at]) PROVE StartInv'
  <2> DEFINE row == [starts[s] EXCEPT !.at = at]
  <2>1. row \in StartRow /\ row.to = starts[s].to /\ row.at = at
        /\ row.whole = starts[s].whole /\ row.part = starts[s].part /\ row.unsaid = starts[s].unsaid
    BY <1>1 DEF StartRow
  <2>2. Times(row) = Times(starts[s])
    BY <2>1 DEF Times
  <2> HIDE DEF row
  <2> QED BY <1>1, <1>3, <2>1, <2>2, StartMovesInv DEF row
<1>4. ASSUME NEW app \in {"injected", "text", "empty", "failed"}, NEW at \in {starts[s].at, "failed"},
             SetStart(s, [starts[s] EXCEPT !.app = app, !.at = at]) PROVE StartInv'
  <2> DEFINE row == [starts[s] EXCEPT !.app = app, !.at = at]
  <2>1. row \in StartRow /\ row.to = starts[s].to /\ row.at = at
        /\ row.whole = starts[s].whole /\ row.part = starts[s].part /\ row.unsaid = starts[s].unsaid
    BY <1>1 DEF StartRow
  <2>2. Times(row) = Times(starts[s])
    BY <2>1 DEF Times
  <2> HIDE DEF row
  <2> QED BY <1>1, <1>4, <2>1, <2>2, StartMovesInv DEF row
<1>5. CASE Generates(s) \/ Generated(s)
  BY <1>3, <1>5 DEF Generates, Generated
<1>6. CASE TellsApp(s)
  <2>1. starts[s].at \in {"injected", "text", "empty", "failed"}
    BY <1>6 DEF TellsApp
  <2>2. [starts[s] EXCEPT !.app = starts[s].at] = [starts[s] EXCEPT !.app = starts[s].at, !.at = starts[s].at]
    BY <1>1 DEF StartRow
  <2> QED BY <1>4, <1>6, <2>1, <2>2 DEF TellsApp
<1>7. CASE AgentUnavailable(s)
  BY <1>4, <1>7 DEF AgentUnavailable
<1> QED BY <1>2, <1>5, <1>6, <1>7

LEMMA GivenInv ==
  ASSUME StartInv, NEW s \in Starts, GivenToSession(s)
  PROVE  StartInv'
<1> DEFINE l == current
           q == links[l].queue
           row == [starts[s] EXCEPT !.at = "injected", !.to = l]
<1>1. l \in Links /\ q \in Seq(Starts) /\ starts[s] \in StartRow /\ links[l].plays \in Starts \cup {0} /\ HasLink(l)
  BY RowFacts DEF GivenToSession, StartInv, StartTypeOK, CurrentThere, HasLink
<1>2. starts[s].to = 0 /\ Times(starts[s]) = 0
  BY DEF GivenToSession, StartInv, GivenOnce
<1> DEFINE more == [links[l] EXCEPT !.queue = Append(q, s)]
<1>3. links' = [links EXCEPT ![l] = more] /\ current' = current
  BY DEF GivenToSession, StartInv, StartTypeOK
<1>4. starts' = [starts EXCEPT ![s] = row]
  BY DEF GivenToSession, SetStart
<1>5. row \in StartRow /\ row.to = l /\ Times(row) = 0 /\ row.at = "injected"
  <2>1. row \in StartRow /\ row.to = l /\ row.at = "injected"
        /\ row.whole = starts[s].whole /\ row.part = starts[s].part /\ row.unsaid = starts[s].unsaid
    BY <1>1 DEF StartRow
  <2> HIDE DEF row
  <2> QED BY <1>2, <2>1 DEF Times
<1> HIDE DEF row, q, l
<1>6. /\ starts' \in [Starts -> StartRow] /\ starts'[s] = row
      /\ \A r \in Starts : r # s => starts'[r] = starts[r]
  BY <1>4, <1>5 DEF StartInv, StartTypeOK, StartRow
<1>7. /\ Append(q, s) \in Seq(Starts) /\ DOMAIN Append(q, s) = DOMAIN q \cup {Len(q) + 1}
      /\ Append(q, s)[Len(q) + 1] = s /\ (\A i \in DOMAIN q : Append(q, s)[i] = q[i]) /\ Len(q) \in Nat
      /\ DOMAIN q = 1..Len(q) /\ \A i \in DOMAIN q : q[i] \in Starts
  BY <1>1, SeqFacts
<1>8. /\ links' \in [Links -> LinkRow] /\ InOrder' /\ CurrentThere' /\ AfterOthers'
      /\ links'[l].queue = Append(q, s) /\ links'[l].plays = links[l].plays /\ links'[l].at = links[l].at
      /\ \A k \in Links : k # l => links'[k] = links[k]
  <2>1. more \in LinkRow /\ more.at = links[l].at /\ more.after = links[l].after
        /\ more.queue = Append(q, s) /\ more.plays = links[l].plays
    BY <1>1, <1>7 DEF LinkRow, LinkStates, StartInv, StartTypeOK
  <2> HIDE DEF more
  <2>2. /\ links' \in [Links -> LinkRow] /\ links'[l] = more
        /\ \A k \in Links : k # l => links'[k] = links[k]
        /\ InOrder' /\ CurrentThere' /\ AfterOthers'
    BY <1>1, <1>3, <2>1, QueueChanges
  <2> QED BY <2>1, <2>2
<1>9. StartTypeOK'
  BY <1>3, <1>6, <1>8 DEF StartInv, StartTypeOK
<1>10. GivenOnce'
  BY <1>5, <1>6 DEF StartInv, GivenOnce
<1>11. \A k \in Links : /\ \A i \in DOMAIN links[k].queue : links[k].queue[i] \in Starts /\ links[k].queue[i] # s
                        /\ links[k].plays # s
  BY <1>2, RowFacts, ZeroIsNone DEF Owns, Fresh
<1>12. ASSUME NEW k \in Links, k # l PROVE Owns(links'[k], k, starts')
  <2>1. links'[k] = links[k]
    BY <1>8, <1>12
  <2>2. ~Queues(links[k], s) /\ links[k].plays # s
    BY <1>11 DEF Queues
  <2> QED BY <1>6, <2>1, <2>2, OwnsKept
<1>13. Owns(links'[l], l, starts')
  <2>1. \A i \in DOMAIN q : starts[q[i]].to = l /\ Times(starts[q[i]]) = 0 /\ q[i] # s
    BY <1>1, <1>11, RowFacts DEF Owns, Fresh, q
  <2>2. \A i, j \in DOMAIN q : q[i] = q[j] => i = j
    BY <1>1, RowFacts DEF Owns, q
  <2>3. links[l].plays # 0 => /\ links[l].plays \in Starts /\ links[l].plays # s
                              /\ starts[links[l].plays].to = l /\ Times(starts[links[l].plays]) = 0
                              /\ \A i \in DOMAIN q : q[i] # links[l].plays
    BY <1>1, <1>11, RowFacts DEF Owns, Queues, Fresh, q
  <2>4. \A i \in DOMAIN Append(q, s) : i \in DOMAIN q \/ i = Len(q) + 1
    BY <1>7
  <2>5. \A i \in DOMAIN Append(q, s) : Fresh(starts'[Append(q, s)[i]], l)
    BY <1>5, <1>6, <1>7, <2>1 DEF Fresh
  <2>6. \A i, j \in DOMAIN Append(q, s) : Append(q, s)[i] = Append(q, s)[j] => i = j
    BY <1>7, <2>1, <2>2
  <2>7. links[l].plays # 0 => /\ Fresh(starts'[links[l].plays], l)
                              /\ \A i \in DOMAIN Append(q, s) : Append(q, s)[i] # links[l].plays
    BY <1>6, <1>7, <2>3 DEF Fresh
  <2> QED BY <1>8, <2>5, <2>6, <2>7 DEF Owns, Queues
<1>14. QueueOwn'
  BY <1>12, <1>13 DEF QueueOwn
<1>15. ASSUME NEW r, Queues(links[l], r) \/ r = s PROVE Queues(links'[l], r)
  <2>1. \E i \in DOMAIN Append(q, s) : Append(q, s)[i] = r
    <3>1. CASE r = s
      BY <1>7, <3>1
    <3>2. CASE Queues(links[l], r)
      <4>1. PICK i \in DOMAIN q : q[i] = r
        BY <3>2 DEF Queues, q
      <4> QED BY <1>7, <4>1
    <3> QED BY <1>15, <3>1, <3>2
  <2> QED BY <1>8, <2>1 DEF Queues
<1>16. NoneLost'
  <2> SUFFICES ASSUME NEW k \in Links, NEW r \in Starts, starts'[r].to = k
               PROVE  /\ HasLink(k)'
                      /\ links'[k].at = "open" => Waiting(k, r)' \/ links'[k].plays = r \/ Times(starts'[r]) = 1
    BY DEF NoneLost
  <2>1. CASE r = s
    BY <1>1, <1>5, <1>6, <1>8, <1>15, <2>1 DEF HasLink, Waiting
  <2>2. CASE r # s
    <3>1. /\ HasLink(k)
          /\ links[k].at = "open" => Waiting(k, r) \/ links[k].plays = r \/ Times(starts'[r]) = 1
      BY <1>6, <2>2 DEF StartInv, NoneLost
    <3>2. CASE k = l
      BY <1>8, <1>15, <3>1, <3>2 DEF HasLink, Waiting
    <3>3. CASE k # l
      BY <1>8, <3>1, <3>3 DEF HasLink, Waiting
    <3> QED BY <3>2, <3>3
  <2> QED BY <2>1, <2>2
<1> QED BY <1>8, <1>9, <1>10, <1>14, <1>16 DEF StartInv

LEMMA StartNextInv == StartInv /\ [StartNext]_startVars => StartInv'
<1> SUFFICES ASSUME StartInv, [StartNext]_startVars PROVE StartInv'
  OBVIOUS
<1>1. CASE UNCHANGED startVars
  BY <1>1 DEF startVars, StartInv, StartTypeOK, InOrder, CurrentThere, AfterOthers, QueueOwn, NoneLost, GivenOnce,
              HasLink, Waiting, Queues
<1>2. CASE StartNext
  BY <1>2, ConnectsInv, LinkStepInv, TakesNextInv, PlaysInv, StartStepInv, GivenInv DEF StartNext
<1> QED BY <1>1, <1>2

LEMMA StartInvariance == StartSpec => []StartInv
BY StartInitInv, StartNextInv, PTL DEF StartSpec

(* The session that is current is a connection's, every connection and     *)
(* every start is at one of its steps, and a queue holds starts            *)
(* (server.py:152-156, roast.py:110-135, session.py:318-333).              *)
THEOREM StartTypes == StartSpec => []StartTypeOK
<1>1. StartInv => StartTypeOK
  BY DEF StartInv
<1> QED BY <1>1, StartInvariance, PTL

(* No start is given to a session that is over, however many connections   *)
(* of the device overlap (server.py:152-156); a session before which all   *)
(* others were over has every start made while it is open; and what was    *)
(* given to an open session is, when its queue is empty, neither lost nor  *)
(* taken twice: played once, in whole or in part, or found to have nothing *)
(* that can be said (roast.py:110-135, session.py:318-333,                 *)
(* tts_bridge.py:767-816).                                                 *)
THEOREM StartsArePlayed == StartSpec => []StartsPlayed
<1>1. StartInv => StartsPlayed
  <2> SUFFICES ASSUME StartInv PROVE StartsPlayed
    OBVIOUS
  <2>1. \A l \in Links : links[l].at = "open" /\ AllDone(l) => \A s \in Starts : starts[s].to = l => Times(starts[s]) = 1
    <3> SUFFICES ASSUME NEW l \in Links, links[l].at = "open", AllDone(l), NEW s \in Starts, starts[s].to = l
                 PROVE  Times(starts[s]) = 1
      OBVIOUS
    <3>1. links[l].plays # s
      BY ZeroIsNone DEF AllDone
    <3>2. ~Waiting(l, s)
      <4>1. DOMAIN links[l].queue = {}
        BY DEF AllDone
      <4> QED BY <4>1 DEF Waiting, Queues
    <3> QED BY <3>1, <3>2 DEF StartInv, NoneLost
  <2> QED BY <2>1 DEF StartInv, CurrentThere, AfterOthers, HasLink, StartsPlayed
<1> QED BY <1>1, StartInvariance, PTL
=============================================================================
