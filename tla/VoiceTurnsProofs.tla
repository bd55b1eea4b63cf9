-------------------------- MODULE VoiceTurnsProofs --------------------------
(***************************************************************************)
(* Theorems of VoiceTurns, the turn pipeline of one voice session, for     *)
(* every number of turns, injected lines and wake words and every set of   *)
(* faults.                                                                 *)
(*                                                                         *)
(* Each rests on what a step does to a turn, a reply, a frame and a row    *)
(* (the lemmas named ...Does) and on Kinds, what those are in every state. *)
(* That the session knows what the device plays rests on who waits for a   *)
(* reply that was killed (SpeakInv) and on what will still release the     *)
(* pause of the device (PauseInv). That a stored row is its own turn's     *)
(* rests on there being one turn at a time between the observer and the    *)
(* end of its reply (OneTurn, Listening). That words are told once rests   *)
(* on a turn being in one place at a time (Once) and on a reply having     *)
(* begun before it can be killed (TellsAll).                               *)
(***************************************************************************)
EXTENDS VoiceTurns, SequenceTheorems, TLAPS

Kind     == {"turn", "interrupt", "abort"}
Items     == [kind : Kind, t : 0..TurnCount]
FrameRows == [kind : {"none"} \cup Kind, t : 0..TurnCount, spoke : BOOLEAN]
UserRows  == [talking : BOOLEAN, wake : BOOLEAN, captured : BOOLEAN, words : 0..WakeCount]
RowRows   == [st : {"none", "open", "closing", "ending"} \cup Landed,
              text : 0..TurnCount, final : BOOLEAN, late : BOOLEAN, played : 0..Inject]
ReplyRows == [t : 0..TurnCount, phase : {"none", "new", "agent", "gen", "play", "tail"},
              cancelled : BOOLEAN, prior : SUBSET Turns, row : 0..TurnCount, sid : Nat]
InjectRows == [phase : {"none", "kill", "synth", "play"}, spoke : BOOLEAN,
               on : 0..TurnCount, sid : Nat, left : 0..InjectCount]
DeviceRows == [playing : 0..Inject, paused : BOOLEAN]
AckSets == SUBSET (Nat \X (Turns \cup {Inject}))

-----------------------------------------------------------------------------
(* The frames in front of the bridge: the turns among them, whether there  *)
(* is an interruption, whether a turn follows each of those.               *)
TurnsIn(q)  == {t \in Turns : \E i \in 1..Len(q) : q[i].t = t}
Proper(q)   == \A i \in 1..Len(q) : q[i].t \in Turns <=> q[i].kind = "turn"
Distinct(q) == \A i, j \in 1..Len(q) : q[i].t = q[j].t /\ q[i].t \in Turns => i = j
Breaks(q)   == \E i \in 1..Len(q) : q[i].kind = "interrupt"
Backed(q)   == \A i \in 1..Len(q) : q[i].kind = "interrupt" =>
                 \E j \in 1..Len(q) : i < j /\ q[j].t \in Turns

LEMMA Counts == TurnCount \in Nat \ {0} /\ InjectCount \in Nat /\ WakeCount \in Nat
BY BoundsAssumption

LEMMA Lines == /\ Inject \in 0..Inject /\ 0 \in 0..Inject
               /\ \A t \in Turns : t # Inject
               /\ \A t \in Turns \cup {Inject} : t \in 0..Inject /\ t # 0
BY Counts DEF Turns, Inject

LEMMA Queued ==
  ASSUME NEW q \in Seq(Items), NEW f \in Items, Proper(q), f.t \in Turns <=> f.kind = "turn"
  PROVE  /\ Append(q, f) \in Seq(Items)
         /\ Append(q, f) # <<>>
         /\ Proper(Append(q, f))
         /\ TurnsIn(Append(q, f)) = TurnsIn(q) \cup ({f.t} \cap Turns)
         /\ Distinct(q) /\ f.t \notin TurnsIn(q) => Distinct(Append(q, f))
         /\ Breaks(Append(q, f)) <=> Breaks(q) \/ f.kind = "interrupt"
         /\ f.kind = "turn" => Backed(Append(q, f))
         /\ f.kind = "abort" /\ Backed(q) => Backed(Append(q, f))
<1> DEFINE p == Append(q, f)
           n == Len(q)
<1>1. /\ p \in Seq(Items) /\ Len(p) = n + 1
      /\ \A i \in 1..n : p[i] = q[i]
      /\ p[n + 1] = f
  BY AppendProperties
<1>2. n \in Nat
  BY LenProperties
<1>3. p # <<>>
  BY <1>1, <1>2, EmptySeq
<1>4. \A i \in 1..Len(q) : i \in 1..Len(p) /\ p[i] = q[i]
  BY <1>1, <1>2
<1>5. n + 1 \in 1..Len(p) /\ p[n + 1] = f
  BY <1>1, <1>2
<1>6. \A i \in 1..Len(p) : (i \in 1..Len(q) /\ p[i] = q[i]) \/ (i = n + 1 /\ p[i] = f)
  BY <1>1, <1>2
<1>7. \A i \in 1..Len(q) : i < n + 1 /\ i # n + 1 /\ i \in Nat
  BY <1>2
<1>14. \A i \in 1..Len(q) : q[i].t \in Turns => q[i].t \in TurnsIn(q)
  BY DEF TurnsIn
<1> HIDE DEF p, n
<1>8. Proper(p)
  BY <1>6 DEF Proper
<1>9. TurnsIn(p) = TurnsIn(q) \cup ({f.t} \cap Turns)
  BY <1>4, <1>5, <1>6 DEF TurnsIn
<1>10. ASSUME Distinct(q), f.t \notin TurnsIn(q) PROVE Distinct(p)
  BY <1>6, <1>10, <1>14 DEF Distinct
<1>11. Breaks(p) <=> Breaks(q) \/ f.kind = "interrupt"
  BY <1>4, <1>5, <1>6 DEF Breaks
<1>12. f.kind = "turn" => Backed(p)
  BY <1>5, <1>6, <1>7 DEF Backed
<1>13. ASSUME f.kind = "abort", Backed(q) PROVE Backed(p)
  BY <1>4, <1>6, <1>13 DEF Backed
<1> QED BY <1>1, <1>3, <1>8, <1>9, <1>10, <1>11, <1>12, <1>13 DEF p

LEMMA Taken ==
  ASSUME NEW q \in Seq(Items), q # <<>>, Proper(q)
  PROVE  /\ Head(q) \in Items
         /\ Head(q).t \in Turns <=> Head(q).kind = "turn"
         /\ Tail(q) \in Seq(Items)
         /\ Proper(Tail(q))
         /\ TurnsIn(q) = TurnsIn(Tail(q)) \cup ({Head(q).t} \cap Turns)
         /\ Distinct(q) => Distinct(Tail(q)) /\ Head(q).t \notin TurnsIn(Tail(q))
         /\ Breaks(q) <=> Breaks(Tail(q)) \/ Head(q).kind = "interrupt"
         /\ Backed(q) => Backed(Tail(q))
         /\ Backed(q) /\ Head(q).kind = "interrupt" => TurnsIn(Tail(q)) # {}
<1> DEFINE p == Tail(q)
           f == Head(q)
           n == Len(q)
<1>1. n \in Nat /\ n # 0
  BY EmptySeq, LenProperties
<1>2. /\ f = q[1] /\ f \in Items /\ p \in Seq(Items) /\ Len(p) = n - 1
      /\ \A i \in 1..Len(p) : p[i] = q[i + 1]
  BY HeadTailProperties
<1>3. 1 \in 1..n /\ q[1] = f
  BY <1>1, <1>2
<1>4. \A i \in 1..Len(p) : i + 1 \in 1..n /\ i + 1 # 1 /\ i \in Nat /\ q[i + 1] = p[i]
  BY <1>1, <1>2
<1>5. \A i \in 1..n : i = 1 \/ \E j \in 1..Len(p) : i = j + 1 /\ q[i] = p[j]
  <2>1. ASSUME NEW i \in 1..n, i # 1 PROVE i - 1 \in 1..Len(p) /\ i = (i - 1) + 1
    BY <1>1, <1>2, <2>1
  <2> QED BY <1>2, <2>1
<1> HIDE DEF p, f
<1>6. f.t \in Turns <=> f.kind = "turn"
  BY <1>3 DEF Proper
<1>7. Proper(p)
  BY <1>4 DEF Proper
<1>8. TurnsIn(q) = TurnsIn(p) \cup ({f.t} \cap Turns)
  <2>1. ASSUME NEW t \in TurnsIn(q) PROVE t \in TurnsIn(p) \/ t = f.t
    <3>1. t \in Turns /\ \E i \in 1..n : q[i].t = t
      BY DEF TurnsIn
    <3>2. PICK i \in 1..n : q[i].t = t
      BY <3>1
    <3>3. CASE i = 1
      BY <1>3, <3>2, <3>3
    <3>4. CASE \E j \in 1..Len(p) : i = j + 1 /\ q[i] = p[j]
      BY <3>1, <3>2, <3>4 DEF TurnsIn
    <3> QED BY <1>5, <3>3, <3>4
  <2>2. ASSUME NEW t \in TurnsIn(p) PROVE t \in TurnsIn(q)
    BY <1>4 DEF TurnsIn
  <2>3. f.t \in Turns => f.t \in TurnsIn(q)
    BY <1>3 DEF TurnsIn
  <2>4. TurnsIn(q) \in SUBSET Turns /\ TurnsIn(p) \in SUBSET Turns
    BY DEF TurnsIn
  <2> QED BY <2>1, <2>2, <2>3, <2>4
<1>9. ASSUME Distinct(q) PROVE Distinct(p) /\ f.t \notin TurnsIn(p)
  <2>1. ASSUME NEW i \in 1..Len(p), NEW j \in 1..Len(p), p[i].t = p[j].t, p[i].t \in Turns
        PROVE  i = j
    <3>1. i + 1 = j + 1
      BY <1>4, <1>9, <2>1 DEF Distinct
    <3> QED BY <1>4, <3>1
  <2>2. ASSUME NEW i \in 1..Len(p), p[i].t = f.t, f.t \in Turns
        PROVE  FALSE
    <3>1. i + 1 = 1
      BY <1>3, <1>4, <1>9, <2>2 DEF Distinct
    <3> QED BY <1>4, <3>1
  <2> QED BY <2>1, <2>2 DEF Distinct, TurnsIn
<1>10. Breaks(q) <=> Breaks(p) \/ f.kind = "interrupt"
  <2>1. ASSUME Breaks(q) PROVE Breaks(p) \/ f.kind = "interrupt"
    <3>1. PICK i \in 1..n : q[i].kind = "interrupt"
      BY <2>1 DEF Breaks
    <3>2. CASE i = 1
      BY <1>3, <3>1, <3>2
    <3>3. CASE \E j \in 1..Len(p) : i = j + 1 /\ q[i] = p[j]
      BY <3>1, <3>3 DEF Breaks
    <3> QED BY <1>5, <3>2, <3>3
  <2>2. Breaks(p) => Breaks(q)
    BY <1>4 DEF Breaks
  <2>3. f.kind = "interrupt" => Breaks(q)
    BY <1>3 DEF Breaks
  <2> QED BY <2>1, <2>2, <2>3
<1>11. ASSUME Backed(q) PROVE Backed(p)
  <2>1. ASSUME NEW i \in 1..Len(p), p[i].kind = "interrupt"
        PROVE  \E j \in 1..Len(p) : i < j /\ p[j].t \in Turns
    <3>1. PICK k \in 1..n : i + 1 < k /\ q[k].t \in Turns
      BY <1>4, <1>11, <2>1 DEF Backed
    <3>2. k # 1
      BY <1>4, <3>1
    <3>3. PICK j \in 1..Len(p) : k = j + 1 /\ q[k] = p[j]
      BY <1>5, <3>2
    <3>4. i < j
      BY <1>4, <3>1, <3>3
    <3> QED BY <3>1, <3>3, <3>4
  <2> QED BY <2>1 DEF Backed
<1>12. ASSUME Backed(q), f.kind = "interrupt" PROVE TurnsIn(p) # {}
  <2>1. PICK k \in 1..n : 1 < k /\ q[k].t \in Turns
    BY <1>3, <1>12 DEF Backed
  <2>2. PICK j \in 1..Len(p) : k = j + 1 /\ q[k] = p[j]
    BY <1>5, <2>1
  <2> QED BY <2>1, <2>2 DEF TurnsIn
<1> QED BY <1>2, <1>6, <1>7, <1>8, <1>9, <1>10, <1>11, <1>12 DEF p, f

LEMMA NothingQueued ==
  /\ <<>> \in Seq(Items)
  /\ Proper(<<>>) /\ TurnsIn(<<>>) = {} /\ Distinct(<<>>) /\ ~Breaks(<<>>) /\ Backed(<<>>)
<1>1. Len(<<>>) = 0 /\ <<>> \in Seq(Items)
  BY EmptySeq
<1>2. 1..Len(<<>>) = {}
  BY <1>1
<1> QED BY <1>1, <1>2 DEF Proper, TurnsIn, Distinct, Breaks, Backed

-----------------------------------------------------------------------------
(* Of every state: its types; what a frame, a reply and an open row are.   *)
Kinds ==
  /\ TypeOK
  /\ ~Alive => reply = NoReply
  /\ Alive => reply.t \in Turns
  /\ Proper(queue)
  /\ frame.kind = "none" => frame = NoFrame
  /\ frame.t \in Turns <=> frame.kind = "turn"
  /\ prefixed < next
  /\ open # 0 => rows[open].st = "open"

LEMMA KindFacts ==
  ASSUME Kinds
  PROVE  /\ next \in 1..(TurnCount + 1) /\ next \in Nat
         /\ user \in UserRows
         /\ ack \in BOOLEAN /\ gate \in SUBSET Turns
         /\ slot \in 0..TurnCount /\ open \in 0..TurnCount
         /\ rows \in [Turns -> RowRows]
         /\ queue \in Seq(Items) /\ Proper(queue)
         /\ frame \in FrameRows
         /\ reply \in ReplyRows
         /\ event \in BOOLEAN /\ speaking \in BOOLEAN /\ pig \in BOOLEAN
         /\ sid \in Nat /\ cursid \in Nat /\ played \in 0..Inject
         /\ acks \in SUBSET (Nat \X (Turns \cup {Inject}))
         /\ pending \in SUBSET Turns /\ told \in [Turns -> Nat]
         /\ inject \in InjectRows
         /\ device \in DeviceRows
         /\ prefixed \in 0..TurnCount /\ prefixed < next
<1>1. /\ next \in 1..(TurnCount + 1)
      /\ user \in UserRows
      /\ ack \in BOOLEAN /\ gate \in SUBSET Turns
      /\ slot \in 0..TurnCount /\ open \in 0..TurnCount
      /\ rows \in [Turns -> RowRows]
  BY DEF Kinds, TypeOK, UserRows, RowRows
<1>2. /\ queue \in Seq(Items) /\ Proper(queue)
      /\ frame \in FrameRows
      /\ reply \in ReplyRows
      /\ event \in BOOLEAN /\ speaking \in BOOLEAN /\ pig \in BOOLEAN
      /\ sid \in Nat /\ cursid \in Nat /\ played \in 0..Inject
  BY DEF Kinds, TypeOK, Items, FrameRows, ReplyRows, Kind
<1>3. /\ acks \in SUBSET (Nat \X (Turns \cup {Inject}))
      /\ pending \in SUBSET Turns /\ told \in [Turns -> Nat]
      /\ inject \in InjectRows
      /\ device \in DeviceRows
      /\ prefixed \in 0..TurnCount /\ prefixed < next
  BY DEF Kinds, TypeOK, InjectRows, DeviceRows
<1>4. next \in Nat
  BY <1>1, Counts
<1> QED BY <1>1, <1>2, <1>3, <1>4

(* The same, of the state after a step, put together from what the steps   *)
(* change.                                                                 *)
UserKinds ==
  /\ next \in 1..(TurnCount + 1)
  /\ user \in UserRows
  /\ ack \in BOOLEAN
  /\ gate \in SUBSET Turns
  /\ prefixed \in 0..TurnCount
  /\ prefixed < next
RowKinds ==
  /\ slot \in 0..TurnCount
  /\ open \in 0..TurnCount
  /\ rows \in [Turns -> RowRows]
  /\ open # 0 => rows[open].st = "open"
FrameKinds ==
  /\ queue \in Seq(Items)
  /\ Proper(queue)
  /\ frame \in FrameRows
  /\ frame.kind = "none" => frame = NoFrame
  /\ frame.t \in Turns <=> frame.kind = "turn"
ReplyKinds ==
  /\ reply \in ReplyRows
  /\ ~Alive => reply = NoReply
  /\ Alive => reply.t \in Turns
  /\ frame # NoFrame /\ Alive => reply.cancelled
StateKinds ==
  /\ pig \in BOOLEAN
  /\ event \in BOOLEAN
  /\ speaking \in BOOLEAN
  /\ sid \in Nat
  /\ cursid \in Nat
  /\ played \in 0..Inject
  /\ acks \in AckSets
WordKinds ==
  /\ pending \in SUBSET Turns
  /\ told \in [Turns -> Nat]
OtherKinds ==
  /\ faults \in SUBSET Faults
  /\ inject \in InjectRows
  /\ device \in DeviceRows
  /\ life \in {"on", "closing", "final", "over"}

LEMMA KindParts ==
  Kinds <=> /\ UserKinds
            /\ RowKinds
            /\ FrameKinds
            /\ ReplyKinds
            /\ StateKinds
            /\ WordKinds
            /\ OtherKinds
<1>1. ASSUME Kinds
      PROVE  UserKinds /\ RowKinds /\ FrameKinds /\ ReplyKinds /\ StateKinds /\ WordKinds
  BY <1>1, KindFacts DEF Kinds, TypeOK, UserKinds, RowKinds, FrameKinds, ReplyKinds, StateKinds,
     WordKinds, AckSets
<1>2. ASSUME Kinds PROVE OtherKinds
  BY <1>2, KindFacts DEF Kinds, TypeOK, OtherKinds
<1>3. ASSUME UserKinds, RowKinds, FrameKinds, ReplyKinds, StateKinds, WordKinds, OtherKinds
      PROVE  TypeOK
  <2>1. /\ next \in 1..TurnCount + 1
        /\ user \in [talking : BOOLEAN, wake : BOOLEAN, captured : BOOLEAN, words : 0..WakeCount]
        /\ ack \in BOOLEAN /\ gate \subseteq Turns /\ prefixed \in 0..TurnCount
        /\ slot \in 0..TurnCount /\ open \in 0..TurnCount
        /\ rows \in [Turns -> [st : {"none", "open", "closing", "ending"} \cup Landed,
                               text : 0..TurnCount, final : BOOLEAN, late : BOOLEAN,
                               played : 0..Inject]]
    BY <1>3 DEF UserKinds, RowKinds, UserRows, RowRows
  <2>2. /\ queue \in Seq([kind : {"turn", "interrupt", "abort"}, t : 0..TurnCount])
        /\ frame \in [kind : {"none", "turn", "interrupt", "abort"}, t : 0..TurnCount, spoke : BOOLEAN]
    <3>1. {"none"} \cup Kind = {"none", "turn", "interrupt", "abort"}
      BY DEF Kind
    <3>2. frame \in [kind : {"none"} \cup Kind, t : 0..TurnCount, spoke : BOOLEAN]
      BY <1>3 DEF FrameKinds, FrameRows
    <3> QED BY <1>3, <3>1, <3>2 DEF FrameKinds, Items, Kind
  <2>3. /\ reply \in [t : 0..TurnCount, phase : {"none", "new", "agent", "gen", "play", "tail"},
                      cancelled : BOOLEAN, prior : SUBSET Turns, row : 0..TurnCount, sid : Nat]
        /\ frame # NoFrame /\ Alive => reply.cancelled
    BY <1>3 DEF ReplyKinds, ReplyRows
  <2>4. /\ faults \subseteq Faults
        /\ inject \in [phase : {"none", "kill", "synth", "play"}, spoke : BOOLEAN,
                       on : 0..TurnCount, sid : Nat, left : 0..InjectCount]
        /\ device \in [playing : 0..Inject, paused : BOOLEAN]
        /\ life \in {"on", "closing", "final", "over"}
    BY <1>3 DEF OtherKinds, InjectRows, DeviceRows
  <2> QED BY <1>3, <2>1, <2>2, <2>3, <2>4 DEF TypeOK, StateKinds, WordKinds, AckSets
<1>4. ASSUME UserKinds, RowKinds, FrameKinds, ReplyKinds, StateKinds, WordKinds, OtherKinds
      PROVE  Kinds
  BY <1>3, <1>4 DEF Kinds, UserKinds, RowKinds, FrameKinds, ReplyKinds
<1> QED BY <1>1, <1>2, <1>4

LEMMA KindsNext ==
  ASSUME UserKinds', RowKinds', FrameKinds', ReplyKinds', StateKinds', WordKinds', OtherKinds'
  PROVE  Kinds'
<1>1. (UserKinds /\ RowKinds /\ FrameKinds /\ ReplyKinds /\ StateKinds /\ WordKinds /\ OtherKinds => Kinds)'
  BY KindParts, PTL
<1> QED BY <1>1

-----------------------------------------------------------------------------
(* What happens to a row.                                                  *)
SameMarks(a, b) ==
  /\ a.text = b.text
  /\ a.final = b.final
  /\ a.late = b.late
  /\ a.played = b.played
  /\ a.st \in Landed <=> b.st \in Landed

IsNew(a) == a.st = "open" /\ a.text = 0 /\ ~a.final /\ ~a.late /\ a.played = 0

LEMMA SweptRows ==
  ASSUME Kinds
  PROVE  /\ Swept \in [Turns -> RowRows]
         /\ \A t \in Turns : SameMarks(Swept[t], rows[t])
         /\ \A t \in Turns : t # open => Swept[t] = rows[t]
<1>1. rows \in [Turns -> RowRows] /\ open \in 0..TurnCount /\ (open # 0 => rows[open].st = "open")
  BY KindFacts DEF Kinds
<1>2. CASE open = 0
  BY <1>1, <1>2 DEF Swept, SameMarks
<1>3. CASE open # 0
  <2>1. open \in Turns
    BY <1>1, <1>3, Counts DEF Turns
  <2> DEFINE row == [rows[open] EXCEPT !.st = "closing"]
  <2>2. rows[open] \in RowRows /\ rows[open].st = "open"
    BY <1>1, <1>3, <2>1
  <2>3. row \in RowRows /\ row.st = "closing" /\ row.text = rows[open].text /\ row.final = rows[open].final
        /\ row.late = rows[open].late /\ row.played = rows[open].played
    BY <2>2 DEF RowRows
  <2>4. SameMarks(row, rows[open])
    BY <2>2, <2>3 DEF SameMarks, Landed
  <2>5. Swept = [rows EXCEPT ![open] = row]
    BY <1>1, <1>3, <2>1 DEF Swept
  <2> HIDE DEF row
  <2>6. Swept \in [Turns -> RowRows] /\ Swept[open] = row /\ \A t \in Turns : t # open => Swept[t] = rows[t]
    BY <1>1, <2>1, <2>3, <2>5
  <2>7. \A t \in Turns : SameMarks(Swept[t], rows[t])
    BY <2>4, <2>6 DEF SameMarks
  <2> QED BY <2>6, <2>7
<1> QED BY <1>2, <1>3

(* A row that is opened, and what is swept for it. *)
LEMMA OpenRowDoes ==
  ASSUME Kinds, next <= TurnCount, OpenRow(next)
  PROVE  /\ next \in Turns
         /\ rows' \in [Turns -> RowRows]
         /\ IsNew(rows'[next])
         /\ \A t \in Turns : t # next => SameMarks(rows'[t], rows[t])
         /\ slot' = next
         /\ open' = next
         /\ next' = next + 1
         /\ gate' = gate \cup {next}
<1>1. next \in Nat /\ next \in Turns /\ rows \in [Turns -> RowRows]
  BY KindFacts, Counts DEF Turns
<1> DEFINE row == [NoRow EXCEPT !.st = "open"]
<1>2. row \in RowRows /\ IsNew(row)
  <2>1. 0 \in 0..TurnCount /\ 0 \in 0..Inject
    BY Counts, Lines
  <2>2. /\ NoRow \in RowRows
        /\ NoRow.text = 0 /\ NoRow.final = FALSE /\ NoRow.late = FALSE /\ NoRow.played = 0
    BY <2>1 DEF NoRow, RowRows
  <2>3. /\ row \in RowRows
        /\ row.st = "open" /\ row.text = NoRow.text /\ row.final = NoRow.final
        /\ row.late = NoRow.late /\ row.played = NoRow.played
    BY <2>2 DEF RowRows
  <2> QED BY <2>2, <2>3 DEF IsNew
<1>3. rows' = [Swept EXCEPT ![next] = row]
  BY DEF OpenRow
<1> HIDE DEF row
<1>4. /\ Swept \in [Turns -> RowRows]
      /\ \A t \in Turns : SameMarks(Swept[t], rows[t])
  BY SweptRows
<1>5. rows' \in [Turns -> RowRows] /\ rows'[next] = row /\ \A t \in Turns : t # next => rows'[t] = Swept[t]
  BY <1>1, <1>2, <1>3, <1>4
<1> QED BY <1>1, <1>2, <1>4, <1>5 DEF OpenRow

LEMMA HeardRows ==
  ASSUME NEW rs \in [Turns -> RowRows], NEW r \in 0..TurnCount, NEW t \in Turns
  PROVE  /\ Heard(rs, r, t) \in [Turns -> RowRows]
         /\ \A u \in Turns : u # r => Heard(rs, r, t)[u] = rs[u]
         /\ \A u \in Turns : /\ Heard(rs, r, t)[u].st = rs[u].st
                             /\ Heard(rs, r, t)[u].final = rs[u].final
                             /\ Heard(rs, r, t)[u].late = rs[u].late
                             /\ Heard(rs, r, t)[u].played = rs[u].played
                             /\ rs[u].st \in Landed => Heard(rs, r, t)[u] = rs[u]
         /\ r # 0 /\ rs[r].st \notin Landed => Heard(rs, r, t)[r].text = t
<1>1. CASE r = 0 \/ rs[r].st \in Landed
  <2>1. Heard(rs, r, t) = rs
    BY <1>1 DEF Heard, Marked
  <2> QED BY <1>1, <2>1
<1>2. CASE r # 0 /\ rs[r].st \notin Landed
  <2>1. r \in Turns
    BY <1>2, Counts DEF Turns
  <2> DEFINE row == [rs[r] EXCEPT !.text = t]
  <2>2. rs[r] \in RowRows /\ t \in 0..TurnCount
    BY <2>1 DEF Turns
  <2>3. row \in RowRows /\ row.text = t /\ row.st = rs[r].st /\ row.final = rs[r].final
        /\ row.late = rs[r].late /\ row.played = rs[r].played
    BY <2>2 DEF RowRows
  <2>4. Heard(rs, r, t) = [rs EXCEPT ![r] = row]
    BY <1>2 DEF Heard, Marked
  <2> HIDE DEF row
  <2> DEFINE rt == Heard(rs, r, t)
  <2>5. rt \in [Turns -> RowRows] /\ rt[r] = row /\ \A u \in Turns : u # r => rt[u] = rs[u]
    BY <2>1, <2>3, <2>4
  <2> HIDE DEF rt
  <2>6. \A u \in Turns : /\ rt[u].st = rs[u].st
                         /\ rt[u].final = rs[u].final
                         /\ rt[u].late = rs[u].late
                         /\ rt[u].played = rs[u].played
                         /\ rs[u].st \in Landed => rt[u] = rs[u]
    BY <1>2, <2>3, <2>5
  <2> QED BY <2>3, <2>5, <2>6 DEF rt
<1> QED BY <1>1, <1>2

LEMMA FinalizedRows ==
  ASSUME NEW rs \in [Turns -> RowRows], NEW r \in 0..TurnCount, played \in 0..Inject
  PROVE  /\ Finalized(rs, r) \in [Turns -> RowRows]
         /\ \A u \in Turns : u # r => Finalized(rs, r)[u] = rs[u]
         /\ \A u \in Turns : /\ Finalized(rs, r)[u].st = rs[u].st
                             /\ Finalized(rs, r)[u].text = rs[u].text
                             /\ Finalized(rs, r)[u].late = rs[u].late
                             /\ Finalized(rs, r)[u].played \in {rs[u].played, played}
                             /\ rs[u].final => Finalized(rs, r)[u].final
                             /\ rs[u].st \in Landed => Finalized(rs, r)[u] = rs[u]
<1>1. CASE r = 0 \/ rs[r].st \in Landed
  <2>1. Finalized(rs, r) = rs
    BY <1>1 DEF Finalized, Marked
  <2> QED BY <1>1, <2>1
<1>2. CASE r # 0 /\ rs[r].st \notin Landed
  <2>1. r \in Turns
    BY <1>2, Counts DEF Turns
  <2> DEFINE row == [rs[r] EXCEPT !.final = TRUE, !.played = played]
  <2>2. rs[r] \in RowRows
    BY <2>1
  <2>3. row \in RowRows /\ row.text = rs[r].text /\ row.st = rs[r].st /\ row.final
        /\ row.late = rs[r].late /\ row.played = played
    BY <2>2 DEF RowRows
  <2>4. Finalized(rs, r) = [rs EXCEPT ![r] = row]
    BY <1>2 DEF Finalized, Marked
  <2> HIDE DEF row
  <2> DEFINE rt == Finalized(rs, r)
  <2>5. rt \in [Turns -> RowRows] /\ rt[r] = row /\ \A u \in Turns : u # r => rt[u] = rs[u]
    BY <2>1, <2>3, <2>4
  <2> HIDE DEF rt
  <2>6. \A u \in Turns : /\ rt[u].st = rs[u].st
                         /\ rt[u].text = rs[u].text
                         /\ rt[u].late = rs[u].late
                         /\ rt[u].played \in {rs[u].played, played}
                         /\ rs[u].final => rt[u].final
                         /\ rs[u].st \in Landed => rt[u] = rs[u]
    BY <1>2, <2>3, <2>5
  <2> QED BY <2>5, <2>6 DEF rt
<1> QED BY <1>1, <1>2

-----------------------------------------------------------------------------
(* What the actions do, field by field.                                    *)
Joins(q, p, kind, t) ==
  /\ p \in Seq(Items)
  /\ p # <<>>
  /\ Proper(p)
  /\ TurnsIn(p) = TurnsIn(q) \cup ({t} \cap Turns)
  /\ Distinct(q) /\ t \notin TurnsIn(q) => Distinct(p)
  /\ Breaks(p) <=> Breaks(q) \/ kind = "interrupt"
  /\ kind = "turn" => Backed(p)
  /\ kind = "abort" /\ Backed(q) => Backed(p)

Leaves(q, p, kind, t) ==
  /\ p \in Seq(Items)
  /\ Proper(p)
  /\ TurnsIn(q) = TurnsIn(p) \cup ({t} \cap Turns)
  /\ Distinct(q) => Distinct(p) /\ t \notin TurnsIn(p)
  /\ Breaks(q) <=> Breaks(p) \/ kind = "interrupt"
  /\ Backed(q) => Backed(p)
  /\ Backed(q) /\ kind = "interrupt" => TurnsIn(p) # {}

LEMMA ZeroIsNoTurn == 0 \notin Turns /\ 0 \in 0..TurnCount /\ \A t \in Turns : t \in 0..TurnCount /\ t \in Nat /\ t # 0
BY Counts DEF Turns

LEMMA JoinDoes ==
  ASSUME Kinds, NEW kind \in Kind, NEW t \in 0..TurnCount, t \in Turns <=> kind = "turn",
         queue' = Append(queue, [kind |-> kind, t |-> t])
  PROVE  Joins(queue, queue', kind, t)
<1> DEFINE f == [kind |-> kind, t |-> t]
<1>1. f \in Items /\ f.kind = kind /\ f.t = t
  BY DEF Items
<1>2. queue' = Append(queue, f)
  OBVIOUS
<1> HIDE DEF f
<1>3. queue \in Seq(Items) /\ Proper(queue)
  BY KindFacts
<1> QED BY <1>1, <1>2, <1>3, Queued DEF Joins

LEMMA TakeDoes ==
  ASSUME Kinds, NEW kind \in Kind, Take(kind)
  PROVE  /\ frame = NoFrame
         /\ MayKill
         /\ Head(queue) \in Items
         /\ Head(queue).kind = kind
         /\ Head(queue).t \in 0..TurnCount
         /\ Head(queue).t \in Turns <=> kind = "turn"
         /\ Head(queue).t \in Turns => Head(queue).t \in TurnsIn(queue)
         /\ Leaves(queue, queue', kind, Head(queue).t)
<1>1. queue \in Seq(Items) /\ Proper(queue) /\ queue # <<>> /\ queue' = Tail(queue)
      /\ frame = NoFrame /\ MayKill /\ Head(queue).kind = kind
  BY KindFacts DEF Take
<1>2. /\ Head(queue) \in Items
      /\ Head(queue).t \in Turns <=> Head(queue).kind = "turn"
      /\ Leaves(queue, queue', kind, Head(queue).t)
  BY <1>1, Taken DEF Leaves
<1>3. Head(queue).t \in 0..TurnCount
  BY <1>2 DEF Items
<1>4. Head(queue).t \in Turns => Head(queue).t \in TurnsIn(queue)
  BY <1>2 DEF Leaves
<1> QED BY <1>1, <1>2, <1>3, <1>4

SameReply(a, b) == a.t = b.t /\ a.phase = b.phase /\ a.prior = b.prior /\ a.row = b.row /\ a.sid = b.sid

IsNoFrame == frame = NoFrame

LEMMA NoFrameFacts == NoFrame \in FrameRows /\ NoFrame.kind = "none" /\ NoFrame.t = 0 /\ NoFrame.spoke = FALSE
BY ZeroIsNoTurn DEF NoFrame, FrameRows

LEMMA NoReplyFacts ==
  /\ NoReply \in ReplyRows
  /\ NoReply.t = 0 /\ NoReply.phase = "none" /\ NoReply.cancelled = FALSE
  /\ NoReply.prior = {} /\ NoReply.row = 0 /\ NoReply.sid = 0
BY ZeroIsNoTurn DEF NoReply, ReplyRows

LEMMA CancelDoes ==
  ASSUME Kinds, NEW c \in BOOLEAN, reply' = [reply EXCEPT !.cancelled = c]
  PROVE  reply' \in ReplyRows /\ SameReply(reply', reply) /\ reply'.cancelled = c
<1>1. reply \in ReplyRows
  BY KindFacts
<1> QED BY <1>1 DEF ReplyRows, SameReply

LEMMA KillDoes ==
  ASSUME Kinds, NEW f \in Items, Kill(f)
  PROVE  /\ event' = TRUE
         /\ reply' \in ReplyRows
         /\ SameReply(reply', reply)
         /\ reply'.cancelled
         /\ frame' \in FrameRows
         /\ frame' # NoFrame
         /\ frame'.kind = f.kind
         /\ frame'.kind \in Kind
         /\ frame'.t = f.t
         /\ frame'.spoke = speaking
<1>1. event' = TRUE /\ reply' = [reply EXCEPT !.cancelled = TRUE]
      /\ frame' = [kind |-> f.kind, t |-> f.t, spoke |-> speaking]
  BY DEF Kill
<1>2. f.kind \in Kind /\ f.t \in 0..TurnCount /\ speaking \in BOOLEAN
  BY KindFacts DEF Items
<1>3. /\ frame' \in FrameRows
      /\ frame'.kind = f.kind
      /\ frame'.t = f.t
      /\ frame'.spoke = speaking
  BY <1>1, <1>2 DEF FrameRows
<1>4. frame' # NoFrame
  BY <1>2, <1>3, NoFrameFacts DEF Kind
<1>5. reply' \in ReplyRows /\ SameReply(reply', reply) /\ reply'.cancelled
  BY <1>1, CancelDoes
<1> QED BY <1>1, <1>2, <1>3, <1>4, <1>5

Starts(t) ==
  /\ event' = FALSE
  /\ sid' = sid + 1
  /\ reply' \in ReplyRows
  /\ reply'.t = t
  /\ reply'.phase = "new"
  /\ reply'.cancelled = FALSE
  /\ reply'.prior = {}
  /\ reply'.row = 0
  /\ reply'.sid = sid + 1

LEMMA NewReplyDoes ==
  ASSUME Kinds, NEW t \in Turns, NewReply(t)
  PROVE  Starts(t)
<1> DEFINE n == sid + 1
<1>1. n \in Nat /\ t \in 0..TurnCount
  BY KindFacts, ZeroIsNoTurn
<1>2. reply' = [NoReply EXCEPT !.t = t, !.phase = "new", !.sid = n]
  BY DEF NewReply
<1> HIDE DEF n
<1>3. /\ reply' \in ReplyRows
      /\ reply'.t = t
      /\ reply'.phase = "new"
      /\ reply'.cancelled = NoReply.cancelled
      /\ reply'.prior = NoReply.prior
      /\ reply'.row = NoReply.row
      /\ reply'.sid = n
  BY <1>1, <1>2, NoReplyFacts DEF ReplyRows
<1> QED BY <1>3, NoReplyFacts DEF NewReply, Starts, n

-----------------------------------------------------------------------------
(* The user, the observer and the device.                                  *)
LEMMA UserStartsDoes ==
  ASSUME Kinds, UserStarts
  PROVE  /\ life = "on"
         /\ ~user.talking
         /\ KeepsUp
         /\ user' \in UserRows
         /\ user'.talking
         /\ user'.wake = user.wake
         /\ user'.captured = user.wake
         /\ user'.words = user.words
         /\ ack' = FALSE
         /\ Joins(queue, queue', "interrupt", 0)
         /\ UNCHANGED <<faults, next, gate, prefixed, rowVars, frame, reply, pig, stateVars,
                        wordVars, inject, device, life>>
<1>1. /\ life = "on" /\ ~user.talking /\ KeepsUp /\ ack' = FALSE
      /\ user' = [user EXCEPT !.talking = TRUE, !.captured = user.wake]
      /\ queue' = Append(queue, [kind |-> "interrupt", t |-> 0])
      /\ UNCHANGED <<faults, next, gate, prefixed, rowVars, frame, reply, pig, stateVars,
                     wordVars, inject, device, life>>
  BY DEF UserStarts
<1>2. user \in UserRows
  BY KindFacts
<1>3. /\ user' \in UserRows
      /\ user'.talking
      /\ user'.wake = user.wake
      /\ user'.captured = user.wake
      /\ user'.words = user.words
  <2> DEFINE w == user.wake
  <2>1. w \in BOOLEAN
    BY <1>2 DEF UserRows
  <2>2. user' = [user EXCEPT !.talking = TRUE, !.captured = w]
    BY <1>1
  <2> HIDE DEF w
  <2>3. /\ user' \in UserRows
        /\ user'.talking = TRUE
        /\ user'.wake = user.wake
        /\ user'.captured = w
        /\ user'.words = user.words
    BY <1>2, <2>1, <2>2 DEF UserRows
  <2> QED BY <2>3 DEF w
<1>4. Joins(queue, queue', "interrupt", 0)
  BY <1>1, JoinDoes, ZeroIsNoTurn DEF Kind
<1> QED BY <1>1, <1>3, <1>4

LEMMA UserStopsDoes ==
  ASSUME Kinds, UserStops
  PROVE  /\ life = "on"
         /\ user.talking
         /\ KeepsUp
         /\ next <= TurnCount
         /\ OpenRow(next)
         /\ user' \in UserRows
         /\ user'.talking = FALSE
         /\ user'.wake = FALSE
         /\ user'.captured = FALSE
         /\ user'.words = user.words
         /\ prefixed' = IF user.captured THEN prefixed + 1 ELSE prefixed
         /\ ack' = FALSE
         /\ played' = 0
         /\ cursid' = 0
         /\ UNCHANGED <<faults, queue, frame, reply, pig, event, speaking, sid, acks, wordVars,
                        inject, device, life>>
<1>1. user \in UserRows /\ user' = [user EXCEPT !.talking = FALSE, !.wake = FALSE, !.captured = FALSE]
  BY KindFacts DEF UserStops
<1>2. /\ user' \in UserRows
      /\ user'.talking = FALSE
      /\ user'.wake = FALSE
      /\ user'.captured = FALSE
      /\ user'.words = user.words
  BY <1>1 DEF UserRows
<1> QED BY <1>2 DEF UserStops

LEMMA UserStopsBlankDoes ==
  ASSUME Kinds, UserStopsBlank
  PROVE  /\ "blank" \in faults
         /\ life = "on"
         /\ user.talking
         /\ rows' \in [Turns -> RowRows]
         /\ \A t \in Turns : SameMarks(rows'[t], rows[t])
         /\ open' = 0
         /\ user' \in UserRows
         /\ user'.talking = FALSE
         /\ user'.wake = user.wake
         /\ user'.captured = FALSE
         /\ user'.words = user.words
         /\ ack' = FALSE
         /\ UNCHANGED <<faults, next, gate, prefixed, slot, queue, frame, reply, pig, stateVars,
                        wordVars, inject, device, life>>
<1>1. user \in UserRows /\ user' = [user EXCEPT !.talking = FALSE, !.captured = FALSE]
  BY KindFacts DEF UserStopsBlank
<1>2. /\ user' \in UserRows
      /\ user'.talking = FALSE
      /\ user'.wake = user.wake
      /\ user'.captured = FALSE
      /\ user'.words = user.words
  BY <1>1 DEF UserRows
<1>3. rows' = Swept
  BY DEF UserStopsBlank
<1>4. /\ rows' \in [Turns -> RowRows]
      /\ \A t \in Turns : SameMarks(rows'[t], rows[t])
  BY <1>3, SweptRows
<1> QED BY <1>2, <1>4 DEF UserStopsBlank

LEMMA WakeWordDoes ==
  ASSUME Kinds, WakeWord
  PROVE  /\ "wake" \in faults
         /\ user.words > 0
         /\ user' \in UserRows
         /\ user'.talking = user.talking
         /\ user'.wake = TRUE
         /\ user'.captured = user.captured
         /\ user'.words = user.words - 1
         /\ ack' = TRUE
         /\ UNCHANGED <<faults, next, gate, prefixed, rowVars, queue, frame, reply, pig, stateVars,
                        wordVars, inject, device, life>>
<1> DEFINE n == user.words - 1
<1>1. user \in UserRows /\ user' = [user EXCEPT !.wake = TRUE, !.words = n] /\ user.words > 0
  BY KindFacts DEF WakeWord
<1>2. n \in 0..WakeCount
  BY <1>1, Counts DEF UserRows
<1> HIDE DEF n
<1>3. /\ user' \in UserRows
      /\ user'.talking = user.talking
      /\ user'.wake = TRUE
      /\ user'.captured = user.captured
      /\ user'.words = n
  BY <1>1, <1>2 DEF UserRows
<1> QED BY <1>1, <1>3 DEF WakeWord, n

LEMMA AckFiresDoes ==
  ASSUME Kinds, AckFires
  PROVE  /\ ack
         /\ life = "on"
         /\ next <= TurnCount
         /\ OpenRow(next)
         /\ user' \in UserRows
         /\ user'.talking = user.talking
         /\ user'.wake = FALSE
         /\ user'.captured = user.captured
         /\ user'.words = user.words
         /\ prefixed' = prefixed + 1
         /\ ack' = FALSE
         /\ UNCHANGED <<faults, queue, frame, reply, pig, stateVars, wordVars, inject, device, life>>
<1>1. user \in UserRows /\ user' = [user EXCEPT !.wake = FALSE]
  BY KindFacts DEF AckFires
<1>2. /\ user' \in UserRows
      /\ user'.talking = user.talking
      /\ user'.wake = FALSE
      /\ user'.captured = user.captured
      /\ user'.words = user.words
  BY <1>1 DEF UserRows
<1> QED BY <1>2 DEF AckFires

LEMMA DispatchDoes ==
  ASSUME Kinds, NEW t \in Turns, Dispatch(t)
  PROVE  /\ t \in gate
         /\ gate' = gate \ {t}
         /\ Joins(queue, queue', "turn", t)
         /\ UNCHANGED <<faults, next, user, ack, prefixed, rowVars, frame, reply, pig, stateVars,
                        wordVars, inject, device, life>>
<1>1. queue' = Append(queue, [kind |-> "turn", t |-> t])
  BY DEF Dispatch
<1>2. Joins(queue, queue', "turn", t)
  BY <1>1, JoinDoes, ZeroIsNoTurn DEF Kind
<1> QED BY <1>2 DEF Dispatch

LEMMA DeviceStopsDoes ==
  ASSUME Kinds, DeviceStops
  PROVE  /\ Joins(queue, queue', "abort", 0)
         /\ life = "on"
         /\ UNCHANGED <<userVars, rowVars, frame, reply, pig, stateVars, wordVars, inject, device, life>>
<1>1. queue' = Append(queue, [kind |-> "abort", t |-> 0])
  BY DEF DeviceStops
<1>2. Joins(queue, queue', "abort", 0)
  BY <1>1, JoinDoes, ZeroIsNoTurn DEF Kind
<1> QED BY <1>2 DEF DeviceStops

LEMMA DevicePlayedDoes ==
  ASSUME Kinds, NEW a \in acks, DevicePlayed(a)
  PROVE  /\ a[1] \in Nat
         /\ a[2] \in Turns \cup {Inject}
         /\ acks' = acks \ {a}
         /\ played' = (IF a[1] \in {0, cursid} THEN a[2] ELSE played)
         /\ UNCHANGED <<userVars, rowVars, queue, frame, reply, pig, event, speaking, sid, cursid,
                        wordVars, inject, device, life>>
<1>1. a[1] \in Nat /\ a[2] \in Turns \cup {Inject}
  BY KindFacts
<1> QED BY <1>1 DEF DevicePlayed, NoSid

-----------------------------------------------------------------------------
(* The bridge.                                                             *)

LEMMA SilentFacts == Silent \in DeviceRows /\ Silent.playing = 0 /\ Silent.paused = FALSE
BY Counts DEF Silent, DeviceRows, Inject

Killed(kind, t) ==
  /\ Alive
  /\ event' = TRUE
  /\ reply' \in ReplyRows
  /\ SameReply(reply', reply)
  /\ reply'.cancelled
  /\ frame' \in FrameRows
  /\ frame' # NoFrame
  /\ frame'.kind = kind
  /\ frame'.t = t
  /\ frame'.spoke = speaking

LEMMA HandleTurnDoes ==
  ASSUME Kinds, HandleTurn
  PROVE  \E t \in Turns :
         /\ IsNoFrame
         /\ MayKill
         /\ t \in TurnsIn(queue)
         /\ Leaves(queue, queue', "turn", t)
         /\ device' \in DeviceRows
         /\ device'.playing = device.playing
         /\ device'.paused = TRUE
         /\ \/ /\ Killed("turn", t)
               /\ sid' = sid
            \/ /\ ~Alive
               /\ Starts(t)
               /\ frame' = frame
         /\ UNCHANGED <<userVars, rowVars, pig, speaking, cursid, played, acks, wordVars, inject, life>>
<1> DEFINE t == Head(queue).t
           h == Head(queue)
<1>1. /\ Take("turn")
      /\ device' = [device EXCEPT !.paused = TRUE]
      /\ \/ Alive /\ Kill(h) /\ UNCHANGED sid
         \/ ~Alive /\ NewReply(t) /\ UNCHANGED frame
      /\ UNCHANGED <<userVars, rowVars, pig, speaking, cursid, played, acks, wordVars, inject, life>>
  BY DEF HandleTurn
<1>2. /\ IsNoFrame /\ MayKill
      /\ h \in Items /\ h.kind = "turn" /\ h.t = t /\ t \in Turns /\ t \in TurnsIn(queue)
      /\ Leaves(queue, queue', "turn", t)
  BY <1>1, TakeDoes DEF Kind, IsNoFrame
<1>3. /\ device' \in DeviceRows
      /\ device'.playing = device.playing
      /\ device'.paused = TRUE
  <2>1. device \in DeviceRows
    BY KindFacts
  <2> QED BY <1>1, <2>1 DEF DeviceRows
<1> HIDE DEF t, h
<1>4. CASE Alive /\ Kill(h) /\ UNCHANGED sid
  <2>1. Killed("turn", t)
    BY <1>2, <1>4, KillDoes DEF Killed
  <2> QED BY <1>1, <1>2, <1>3, <1>4, <2>1
<1>5. CASE ~Alive /\ NewReply(t) /\ UNCHANGED frame
  BY <1>1, <1>2, <1>3, <1>5, NewReplyDoes
<1> QED BY <1>1, <1>4, <1>5

LEMMA HandleInterruptDoes ==
  ASSUME Kinds, HandleInterrupt
  PROVE  /\ IsNoFrame
         /\ MayKill
         /\ Leaves(queue, queue', "interrupt", 0)
         /\ \/ /\ Killed("interrupt", 0)
               /\ UNCHANGED <<device, speaking, cursid>>
            \/ /\ ~Alive
               /\ Aborted(speaking)
               /\ UNCHANGED <<event, reply, frame>>
         /\ UNCHANGED <<userVars, rowVars, pig, sid, played, acks, wordVars, inject, life>>
<1> DEFINE h == Head(queue)
<1>1. /\ Take("interrupt")
      /\ \/ Alive /\ Kill(h) /\ UNCHANGED <<device, speaking, cursid>>
         \/ ~Alive /\ Aborted(speaking) /\ UNCHANGED <<event, reply, frame>>
      /\ UNCHANGED <<userVars, rowVars, pig, sid, played, acks, wordVars, inject, life>>
  BY DEF HandleInterrupt
<1>2. /\ IsNoFrame /\ MayKill
      /\ h \in Items /\ h.kind = "interrupt" /\ h.t \in 0..TurnCount /\ h.t \notin Turns
      /\ Leaves(queue, queue', "interrupt", h.t)
  BY <1>1, TakeDoes DEF Kind, IsNoFrame
<1>3. h.t = 0
  BY <1>2, Counts DEF Turns
<1> HIDE DEF h
<1>4. CASE Alive /\ Kill(h) /\ UNCHANGED <<device, speaking, cursid>>
  <2>1. Killed("interrupt", 0)
    BY <1>2, <1>3, <1>4, KillDoes DEF Killed
  <2> QED BY <1>1, <1>2, <1>3, <1>4, <2>1
<1>5. CASE ~Alive /\ Aborted(speaking) /\ UNCHANGED <<event, reply, frame>>
  BY <1>1, <1>2, <1>3, <1>5
<1> QED BY <1>1, <1>4, <1>5

LEMMA HandleDeviceAbortDoes ==
  ASSUME Kinds, HandleDeviceAbort
  PROVE  /\ IsNoFrame
         /\ MayKill
         /\ Leaves(queue, queue', "abort", 0)
         /\ sid' = sid + 1
         /\ \/ /\ Killed("abort", 0)
               /\ UNCHANGED <<device, speaking, cursid>>
            \/ /\ ~Alive
               /\ DeviceAborted
               /\ UNCHANGED <<reply, frame>>
         /\ UNCHANGED <<userVars, rowVars, pig, played, acks, wordVars, inject, life>>
<1> DEFINE h == Head(queue)
<1>1. /\ Take("abort")
      /\ sid' = sid + 1
      /\ \/ Alive /\ Kill(h) /\ UNCHANGED <<device, speaking, cursid>>
         \/ ~Alive /\ DeviceAborted /\ UNCHANGED <<reply, frame>>
      /\ UNCHANGED <<userVars, rowVars, pig, played, acks, wordVars, inject, life>>
  BY DEF HandleDeviceAbort
<1>2. /\ IsNoFrame /\ MayKill
      /\ h \in Items /\ h.kind = "abort" /\ h.t \in 0..TurnCount /\ h.t \notin Turns
      /\ Leaves(queue, queue', "abort", h.t)
  BY <1>1, TakeDoes DEF Kind, IsNoFrame
<1>3. h.t = 0
  BY <1>2, Counts DEF Turns
<1> HIDE DEF h
<1>4. CASE Alive /\ Kill(h) /\ UNCHANGED <<device, speaking, cursid>>
  <2>1. Killed("abort", 0)
    BY <1>2, <1>3, <1>4, KillDoes DEF Killed
  <2> QED BY <1>1, <1>2, <1>3, <1>4, <2>1
<1>5. CASE ~Alive /\ DeviceAborted /\ UNCHANGED <<reply, frame>>
  BY <1>1, <1>2, <1>3, <1>5
<1> QED BY <1>1, <1>4, <1>5

(* A device that is told to stop, or is left alone. *)
LEMMA FlushedDevice ==
  ASSUME Kinds, NEW spoke \in BOOLEAN, device' = IF spoke THEN Silent ELSE device
  PROVE  /\ device' \in DeviceRows
         /\ spoke => device'.playing = 0 /\ device'.paused = FALSE
         /\ ~spoke => device' = device
BY KindFacts, SilentFacts

LEMMA TurnResumesDoes ==
  ASSUME Kinds, TurnResumes
  PROVE  /\ frame.kind = "turn"
         /\ frame.t \in Turns
         /\ ~Alive
         /\ device' = IF frame.spoke THEN Silent ELSE device
         /\ device' \in DeviceRows
         /\ frame.spoke => device'.playing = 0 /\ device'.paused = FALSE
         /\ ~frame.spoke => device' = device
         /\ Starts(frame.t)
         /\ frame' = NoFrame
         /\ UNCHANGED <<userVars, rowVars, queue, pig, speaking, cursid, played, acks, wordVars,
                        inject, life>>
<1>1. frame.kind = "turn" /\ frame.t \in Turns /\ frame.spoke \in BOOLEAN
  BY KindFacts DEF TurnResumes, Kinds, FrameRows
<1>2. device' = IF frame.spoke THEN Silent ELSE device
  BY DEF TurnResumes
<1>3. /\ device' \in DeviceRows
      /\ frame.spoke => device'.playing = 0 /\ device'.paused = FALSE
      /\ ~frame.spoke => device' = device
  BY <1>1, <1>2, FlushedDevice
<1> QED BY <1>1, <1>2, <1>3, NewReplyDoes DEF TurnResumes

AbortedBy(spoke) ==
  /\ device' \in DeviceRows
  /\ spoke => device'.playing = 0 /\ device'.paused = FALSE
  /\ ~spoke => device' = device
  /\ speaking' = FALSE
  /\ cursid' = 0

LEMMA AbortedDoes ==
  ASSUME Kinds, NEW spoke \in BOOLEAN, Aborted(spoke)
  PROVE  AbortedBy(spoke)
BY FlushedDevice DEF Aborted, AbortedBy

LEMMA InterruptResumesDoes ==
  ASSUME Kinds, InterruptResumes
  PROVE  /\ frame.kind = "interrupt"
         /\ ~Alive
         /\ AbortedBy(frame.spoke)
         /\ frame' = NoFrame
         /\ UNCHANGED <<userVars, rowVars, queue, reply, pig, event, sid, played, acks, wordVars,
                        inject, life>>
<1>1. frame.spoke \in BOOLEAN
  BY KindFacts DEF FrameRows
<1> QED BY <1>1, AbortedDoes DEF InterruptResumes

LEMMA DeviceAbortResumesDoes ==
  ASSUME Kinds, DeviceAbortResumes
  PROVE  /\ frame.kind = "abort"
         /\ ~Alive
         /\ DeviceAborted
         /\ frame' = NoFrame
         /\ UNCHANGED <<userVars, rowVars, queue, reply, pig, sid, played, acks, wordVars, inject, life>>
BY DEF DeviceAbortResumes

-----------------------------------------------------------------------------
(* The reply.                                                              *)
LEMMA ReplyFacts ==
  ASSUME Kinds
  PROVE  /\ reply \in ReplyRows
         /\ reply.phase \in {"none", "new", "agent", "gen", "play", "tail"}
         /\ reply.cancelled \in BOOLEAN
         /\ reply.row \in 0..TurnCount
         /\ reply.sid \in Nat
         /\ reply.prior \in SUBSET Turns
         /\ reply.phase # "none" => reply.t \in Turns
BY KindFacts DEF Kinds, ReplyRows, Alive

LEMMA ReplyRunsDoes ==
  ASSUME Kinds, ReplyRuns
  PROVE  /\ reply.phase = "new"
         /\ ~reply.cancelled
         /\ slot' = 0
         /\ rows' = IF pig THEN Heard(rows, slot, reply.t) ELSE rows
         /\ reply' \in ReplyRows
         /\ reply'.t = reply.t
         /\ reply'.row = slot
         /\ reply'.cancelled = FALSE
         /\ reply'.sid = reply.sid
         /\ reply'.phase = IF pig THEN "gen" ELSE "agent"
         /\ reply'.prior = IF pig THEN pending ELSE reply.prior
         /\ UNCHANGED <<userVars, open, queue, frame, pig, stateVars, wordVars, inject, device, life>>
<1>1. reply \in ReplyRows /\ slot \in 0..TurnCount /\ pending \in SUBSET Turns /\ reply.cancelled = FALSE
  BY KindFacts, ReplyFacts DEF ReplyRuns
<1>2. CASE pig
  <2>1. reply' = [reply EXCEPT !.row = slot, !.phase = "gen", !.prior = pending]
    BY <1>2 DEF ReplyRuns
  <2>2. /\ reply' \in ReplyRows
        /\ reply'.t = reply.t
        /\ reply'.row = slot
        /\ reply'.cancelled = reply.cancelled
        /\ reply'.sid = reply.sid
        /\ reply'.phase = "gen"
        /\ reply'.prior = pending
    BY <1>1, <2>1 DEF ReplyRows
  <2> QED BY <1>1, <1>2, <2>2 DEF ReplyRuns
<1>3. CASE ~pig
  <2>1. reply' = [reply EXCEPT !.row = slot, !.phase = "agent"]
    BY <1>3 DEF ReplyRuns
  <2>2. /\ reply' \in ReplyRows
        /\ reply'.t = reply.t
        /\ reply'.row = slot
        /\ reply'.cancelled = reply.cancelled
        /\ reply'.sid = reply.sid
        /\ reply'.phase = "agent"
        /\ reply'.prior = reply.prior
    BY <1>1, <2>1 DEF ReplyRows
  <2> QED BY <1>1, <1>3, <2>2 DEF ReplyRuns
<1> QED BY <1>2, <1>3

LEMMA AgentReadyDoes ==
  ASSUME Kinds, AgentReady
  PROVE  /\ reply.phase = "agent"
         /\ ~reply.cancelled
         /\ pig' = TRUE
         /\ rows' = Heard(rows, reply.row, reply.t)
         /\ reply' \in ReplyRows
         /\ reply'.t = reply.t
         /\ reply'.row = reply.row
         /\ reply'.cancelled = FALSE
         /\ reply'.sid = reply.sid
         /\ reply'.phase = "gen"
         /\ reply'.prior = pending
         /\ UNCHANGED <<userVars, slot, open, queue, frame, stateVars, wordVars, inject, device, life>>
<1>1. reply \in ReplyRows /\ pending \in SUBSET Turns /\ reply.cancelled = FALSE
  BY KindFacts, ReplyFacts DEF AgentReady
<1>2. reply' = [reply EXCEPT !.phase = "gen", !.prior = pending]
  BY DEF AgentReady
<1>3. /\ reply' \in ReplyRows
      /\ reply'.t = reply.t
      /\ reply'.row = reply.row
      /\ reply'.cancelled = reply.cancelled
      /\ reply'.sid = reply.sid
      /\ reply'.phase = "gen"
      /\ reply'.prior = pending
  BY <1>1, <1>2 DEF ReplyRows
<1> QED BY <1>1, <1>3 DEF AgentReady


LEMMA AgentFailsDoes ==
  ASSUME Kinds, AgentFails
  PROVE  /\ reply.phase = "agent"
         /\ ~reply.cancelled
         /\ rows' = Finalized(Heard(rows, reply.row, reply.t), reply.row)
         /\ device' \in DeviceRows
         /\ device'.playing = 0
         /\ device'.paused = FALSE
         /\ reply' = NoReply
         /\ UNCHANGED <<userVars, slot, open, queue, frame, pig, stateVars, wordVars, inject, life>>
BY SilentFacts DEF AgentFails

LEMMA ReplySpeaksDoes ==
  ASSUME Kinds, ReplySpeaks
  PROVE  /\ reply.phase = "gen"
         /\ ~reply.cancelled
         /\ ~event
         /\ reply.t \in Turns
         /\ reply' \in ReplyRows
         /\ reply'.t = reply.t
         /\ reply'.row = reply.row
         /\ reply'.cancelled = FALSE
         /\ reply'.sid = reply.sid
         /\ reply'.phase = "play"
         /\ reply'.prior = reply.prior
         /\ device' \in DeviceRows
         /\ device'.playing = reply.t
         /\ device'.paused = device.paused
         /\ speaking' = TRUE
         /\ cursid' = reply.sid
         /\ NamedSid \in Nat
         /\ "bare" \notin faults => NamedSid = reply.sid
         /\ acks' = acks \cup {<<NamedSid, reply.t>>}
         /\ UNCHANGED <<userVars, rowVars, queue, frame, pig, event, sid, played, wordVars, inject, life>>
<1> DEFINE t == reply.t
<1>1. reply \in ReplyRows /\ reply.cancelled = FALSE /\ t \in Turns /\ device \in DeviceRows
  BY KindFacts, ReplyFacts DEF ReplySpeaks
<1>2. t \in 0..Inject
  BY <1>1, Counts DEF Turns, Inject
<1>3. reply' = [reply EXCEPT !.phase = "play"] /\ device' = [device EXCEPT !.playing = t]
  BY DEF ReplySpeaks
<1> HIDE DEF t
<1>4. /\ reply' \in ReplyRows
      /\ reply'.t = reply.t
      /\ reply'.row = reply.row
      /\ reply'.cancelled = reply.cancelled
      /\ reply'.sid = reply.sid
      /\ reply'.phase = "play"
      /\ reply'.prior = reply.prior
  BY <1>1, <1>3 DEF ReplyRows
<1>5. /\ device' \in DeviceRows
      /\ device'.playing = t
      /\ device'.paused = device.paused
  BY <1>1, <1>2, <1>3 DEF DeviceRows
<1>6. NamedSid \in Nat /\ ("bare" \notin faults => NamedSid = reply.sid)
  BY KindFacts, ReplyFacts DEF NamedSid, NoSid, ReplySpeaks
<1> QED BY <1>1, <1>4, <1>5, <1>6 DEF ReplySpeaks, t

(* What becomes of the words of a reply that ends. *)
Settles ==
  LET ts == reply.prior \cup {reply.t} IN
  \/ Write(ts)
  \/ pending' = ts /\ told' = told

LEMMA ReplyEndsDoes ==
  ASSUME Kinds, ReplyEnds
  PROVE  /\ reply.phase \in {"gen", "play"}
         /\ ~reply.cancelled
         /\ device' \in DeviceRows
         /\ device'.playing = 0
         /\ device'.paused = FALSE
         /\ rows' = Finalized(rows, reply.row)
         /\ Settles
         /\ reply' \in ReplyRows
         /\ reply'.t = reply.t
         /\ reply'.row = reply.row
         /\ reply'.cancelled = FALSE
         /\ reply'.sid = reply.sid
         /\ reply'.phase = "tail"
         /\ UNCHANGED <<userVars, slot, open, queue, frame, pig, stateVars, inject, life>>
<1>1. reply \in ReplyRows /\ reply.cancelled = FALSE
  BY ReplyFacts DEF ReplyEnds
<1>2. reply' = [reply EXCEPT !.phase = "tail"]
  BY DEF ReplyEnds
<1>3. /\ reply' \in ReplyRows
      /\ reply'.t = reply.t
      /\ reply'.row = reply.row
      /\ reply'.cancelled = reply.cancelled
      /\ reply'.sid = reply.sid
      /\ reply'.phase = "tail"
  BY <1>1, <1>2 DEF ReplyRows
<1>4. Settles
  BY DEF ReplyEnds, Settle, Settles
<1> QED BY <1>1, <1>3, <1>4, SilentFacts DEF ReplyEnds

LEMMA ReplyKilledDoes ==
  ASSUME Kinds, ReplyKilled
  PROVE  /\ reply.phase \in {"gen", "play"}
         /\ reply.cancelled
         /\ rows' = Finalized(rows, reply.row)
         /\ Settles
         /\ speaking' = FALSE
         /\ reply' = NoReply
         /\ UNCHANGED <<userVars, slot, open, queue, frame, pig, event, sid, cursid, played, acks,
                        inject, device, life>>
BY DEF ReplyKilled, Settle, Settles

-----------------------------------------------------------------------------
(* The injected line, the rows and the session.                            *)
LEMMA Inject1Does ==
  ASSUME Kinds, NEW spoke \in BOOLEAN, Inject1(spoke), inject.phase = "none" => inject.left > 0
  PROVE  /\ event' = FALSE
         /\ device' \in DeviceRows
         /\ inject' \in InjectRows
<1> DEFINE n == IF inject.phase = "none" THEN inject.left - 1 ELSE inject.left
<1>1. inject \in InjectRows /\ sid \in Nat
  BY KindFacts
<1>2. n \in 0..InjectCount
  BY <1>1, Counts DEF InjectRows
<1>3. inject' = [inject EXCEPT !.phase = "synth", !.spoke = spoke, !.sid = sid, !.left = n]
  BY <1>1 DEF Inject1, InjectRows
<1> HIDE DEF n
<1>4. inject' \in InjectRows
  BY <1>1, <1>2, <1>3 DEF InjectRows
<1>5. device' = IF spoke THEN Silent ELSE device
  BY DEF Inject1
<1> QED BY <1>4, <1>5, FlushedDevice DEF Inject1

LEMMA InjectBeginsDoes ==
  ASSUME Kinds, InjectBegins
  PROVE  /\ "inject" \in faults
         /\ MayKill
         /\ life # "over"
         /\ reply' \in ReplyRows
         /\ SameReply(reply', reply)
         /\ (Alive /\ reply'.cancelled) \/ (~Alive /\ reply' = reply)
         /\ device' \in DeviceRows
         /\ inject' \in InjectRows
         /\ event' \in BOOLEAN
         /\ UNCHANGED <<userVars, rowVars, queue, frame, pig, speaking, sid, cursid, played, acks,
                        wordVars, life>>
<1>1. CASE Alive
  <2> DEFINE n == inject.left - 1
             o == reply.t
  <2>1. /\ event' = TRUE
        /\ reply' = [reply EXCEPT !.cancelled = TRUE]
        /\ inject' = [inject EXCEPT !.phase = "kill", !.spoke = speaking, !.on = o, !.left = n]
        /\ device' = device
        /\ inject \in InjectRows
        /\ inject.left > 0
    BY <1>1, KindFacts DEF InjectBegins, InjectRows
  <2>5. inject.left \in 0..InjectCount
    BY <2>1 DEF InjectRows
  <2>6. n \in 0..InjectCount
    BY <2>1, <2>5, Counts
  <2>7. o \in 0..TurnCount
    BY ReplyFacts DEF ReplyRows
  <2>2. n \in 0..InjectCount /\ o \in 0..TurnCount /\ speaking \in BOOLEAN /\ device \in DeviceRows
    BY <2>6, <2>7, KindFacts
  <2> HIDE DEF n, o
  <2>3. inject' \in InjectRows
    BY <2>1, <2>2 DEF InjectRows
  <2>4. reply' \in ReplyRows /\ SameReply(reply', reply) /\ reply'.cancelled
    BY <2>1, CancelDoes
  <2> QED BY <1>1, <2>1, <2>2, <2>3, <2>4 DEF InjectBegins
<1>2. CASE ~Alive
  <2>1. Inject1(speaking) /\ reply' = reply /\ inject.left > 0 /\ speaking \in BOOLEAN
    BY <1>2, KindFacts DEF InjectBegins
  <2>2. event' = FALSE /\ device' \in DeviceRows /\ inject' \in InjectRows
    BY <2>1, Inject1Does
  <2> QED BY <1>2, <2>1, <2>2, KindFacts DEF InjectBegins, SameReply
<1> QED BY <1>1, <1>2

LEMMA InjectedDoes ==
  ASSUME Kinds, Injected
  PROVE  /\ inject.phase # "none"
         /\ device' \in DeviceRows
         /\ inject' \in InjectRows
         /\ event' \in BOOLEAN
         /\ speaking' \in BOOLEAN
         /\ acks' = acks \/ acks' = acks \cup {<<0, Inject>>}
         /\ UNCHANGED <<userVars, rowVars, queue, frame, reply, pig, sid, cursid, played,
                        wordVars, life>>
<1>0. inject \in InjectRows /\ device \in DeviceRows /\ event \in BOOLEAN /\ speaking \in BOOLEAN
      /\ inject.spoke \in BOOLEAN
  BY KindFacts DEF InjectRows
<1>1. CASE InjectResumes
  <2>1. Inject1(inject.spoke) /\ inject.phase = "kill" /\ speaking' = speaking
    BY <1>1 DEF InjectResumes
  <2>2. event' = FALSE /\ device' \in DeviceRows /\ inject' \in InjectRows
    BY <1>0, <2>1, Inject1Does
  <2> QED BY <1>0, <1>1, <2>1, <2>2 DEF InjectResumes
<1>2. CASE InjectSpeaks
  <2>1. CASE /\ inject' = [inject EXCEPT !.phase = "play"]
             /\ device' = [device EXCEPT !.playing = Inject]
             /\ speaking' = TRUE
             /\ acks' = acks \cup {<<NoSid, Inject>>}
    <3>1. inject' \in InjectRows
      BY <1>0, <2>1 DEF InjectRows
    <3>2. Inject \in 0..Inject
      BY Counts DEF Inject
    <3>3. device' \in DeviceRows
      BY <1>0, <2>1, <3>2 DEF DeviceRows
    <3> QED BY <1>0, <1>2, <2>1, <3>1, <3>3 DEF InjectSpeaks, NoSid
  <2>2. CASE inject' = [inject EXCEPT !.phase = "none"] /\ UNCHANGED <<device, speaking, acks>>
    <3>1. inject' \in InjectRows
      BY <1>0, <2>2 DEF InjectRows
    <3> QED BY <1>0, <1>2, <2>2, <3>1 DEF InjectSpeaks
  <2> QED BY <1>2, <2>1, <2>2 DEF InjectSpeaks
<1>3. CASE InjectEnds
  <2>1. inject' = [inject EXCEPT !.phase = "none"] /\ device' \in {Silent, device} /\ speaking' = FALSE
    BY <1>3 DEF InjectEnds
  <2>2. inject' \in InjectRows
    BY <1>0, <2>1 DEF InjectRows
  <2> QED BY <1>0, <1>3, <2>1, <2>2, SilentFacts DEF InjectEnds
<1> QED BY <1>1, <1>2, <1>3 DEF Injected

LEMMA LandDoes ==
  ASSUME Kinds, NEW t \in Turns, NEW row \in RowRows, Land(t, row)
  PROVE  /\ rows' \in [Turns -> RowRows]
         /\ rows'[t].st \in Landed
         /\ rows'[t].text = row.text
         /\ rows'[t].final = row.final
         /\ rows'[t].late = row.late
         /\ rows'[t].played = row.played
         /\ \A u \in Turns : u # t => rows'[u] = rows[u]
<1>1. rows \in [Turns -> RowRows]
  BY KindFacts
<1>2. PICK s \in Landed : rows' = [rows EXCEPT ![t] = [row EXCEPT !.st = s]]
  BY DEF Land
<1> DEFINE r == [row EXCEPT !.st = s]
<1>3. /\ r \in RowRows
      /\ r.st = s
      /\ r.text = row.text
      /\ r.final = row.final
      /\ r.late = row.late
      /\ r.played = row.played
  BY DEF RowRows, Landed
<1>4. rows' = [rows EXCEPT ![t] = r]
  BY <1>2
<1> HIDE DEF r
<1>5. rows' \in [Turns -> RowRows] /\ rows'[t] = r /\ \A u \in Turns : u # t => rows'[u] = rows[u]
  BY <1>1, <1>3, <1>4
<1> QED BY <1>3, <1>5

(* A row lands as it is, without its text when it is late, or not. *)
Lands(t) ==
  /\ rows' \in [Turns -> RowRows]
  /\ rows[t].st # "none"
  /\ rows[t].st \notin Landed
  /\ rows'[t].st \in Landed
  /\ rows'[t].final
  /\ ~rows'[t].late => rows'[t].text = rows[t].text /\ rows[t].final
  /\ rows'[t].played = rows[t].played
  /\ \A u \in Turns : u # t => rows'[u] = rows[u]

LEMMA CommitOnFinalizeDoes ==
  ASSUME Kinds, NEW t \in Turns, CommitOnFinalize(t)
  PROVE  /\ Lands(t)
         /\ open = t
         /\ open' = 0
         /\ UNCHANGED <<userVars, slot, queue, frame, reply, pig, stateVars, wordVars, inject, device, life>>
<1>1. rows[t] \in RowRows /\ rows[t].st = "open" /\ rows[t].final /\ Land(t, rows[t])
  BY KindFacts DEF CommitOnFinalize
<1>2. Lands(t)
  BY <1>1, LandDoes DEF Lands, Landed
<1> QED BY <1>2 DEF CommitOnFinalize

LEMMA CloseRowDoes ==
  ASSUME Kinds, NEW t \in Turns, CloseRow(t)
  PROVE  /\ Lands(t)
         /\ t # open
         /\ UNCHANGED <<userVars, slot, open, queue, frame, reply, pig, stateVars, wordVars, inject,
                        device, life>>
<1> DEFINE row == [rows[t] EXCEPT !.late = ~rows[t].final, !.final = TRUE]
           l   == ~rows[t].final
<1>1. rows[t] \in RowRows /\ rows[t].st = "closing" /\ Land(t, row)
  BY KindFacts DEF CloseRow
<1>0. l \in BOOLEAN /\ row = [rows[t] EXCEPT !.late = l, !.final = TRUE]
  BY <1>1 DEF RowRows
<1> HIDE DEF l
<1>2. /\ row \in RowRows
      /\ row.final = TRUE
      /\ row.late = l
      /\ row.text = rows[t].text
      /\ row.played = rows[t].played
  BY <1>0, <1>1 DEF RowRows
<1> HIDE DEF row
<1>4. t # open
  BY <1>1, ZeroIsNoTurn DEF Kinds
<1>3. /\ rows' \in [Turns -> RowRows]
      /\ rows'[t].st \in Landed
      /\ rows'[t].text = row.text
      /\ rows'[t].final = row.final
      /\ rows'[t].late = row.late
      /\ rows'[t].played = row.played
      /\ \A u \in Turns : u # t => rows'[u] = rows[u]
  BY <1>1, <1>2, LandDoes
<1>6. Lands(t)
  BY <1>1, <1>2, <1>3 DEF Lands, Landed, l
<1> QED BY <1>4, <1>6 DEF CloseRow

LEMMA EndRowDoes ==
  ASSUME Kinds, NEW t \in Turns, EndRow(t)
  PROVE  /\ Lands(t)
         /\ t # open
         /\ UNCHANGED <<userVars, slot, open, queue, frame, reply, pig, stateVars, wordVars, inject,
                        device, life>>
<1>1. rows[t] \in RowRows /\ rows[t].st = "ending" /\ rows[t].final \in BOOLEAN /\ 0 \in 0..TurnCount
  BY KindFacts, ZeroIsNoTurn DEF EndRow, RowRows
<1>2. t # open
  BY <1>1, ZeroIsNoTurn DEF Kinds
<1>3. CASE rows[t].final
  <2>1. Land(t, rows[t])
    BY <1>3 DEF EndRow
  <2>2. Lands(t)
    BY <1>1, <1>3, <2>1, LandDoes DEF Lands, Landed
  <2> QED BY <1>2, <2>2 DEF EndRow
<1>4. CASE ~rows[t].final
  <2> DEFINE row == [rows[t] EXCEPT !.text = 0, !.late = TRUE, !.final = TRUE]
  <2>1. Land(t, row)
    BY <1>4 DEF EndRow
  <2>2. /\ row \in RowRows
        /\ row.final = TRUE
        /\ row.late = TRUE
        /\ row.played = rows[t].played
    BY <1>1 DEF RowRows
  <2> HIDE DEF row
  <2>3. Lands(t)
    BY <1>1, <2>1, <2>2, LandDoes DEF Lands, Landed
  <2> QED BY <1>2, <2>3 DEF EndRow
<1> QED BY <1>3, <1>4

LEMMA DisconnectDoes ==
  ASSUME Kinds, Disconnect
  PROVE  /\ life = "on"
         /\ "drop" \in faults \/ Quiet
         /\ life' = "closing"
         /\ ack' = FALSE
         /\ reply' \in ReplyRows
         /\ SameReply(reply', reply)
         /\ reply.cancelled => reply'.cancelled
         /\ ~Alive => reply' = reply
         /\ UNCHANGED <<faults, next, user, gate, prefixed, rowVars, queue, frame, pig, stateVars,
                        wordVars, inject, device>>
<1>1. PICK c \in {reply.cancelled, Alive} : reply' = [reply EXCEPT !.cancelled = c]
  BY DEF Disconnect
<1>2. c \in BOOLEAN
  BY <1>1, ReplyFacts DEF Alive
<1>3. reply' \in ReplyRows /\ SameReply(reply', reply) /\ reply'.cancelled = c
  BY <1>1, <1>2, CancelDoes
<1>4. reply.cancelled => c
  BY <1>1, NoReplyFacts DEF Kinds, Alive
<1>5. ASSUME ~Alive PROVE reply' = reply
  <2>1. reply = NoReply /\ c = FALSE
    BY <1>1, <1>5, NoReplyFacts DEF Kinds
  <2> QED BY <1>1, <2>1, NoReplyFacts DEF NoReply
<1> QED BY <1>3, <1>4, <1>5 DEF Disconnect

LEMMA FinalizeSessionDoes ==
  ASSUME Kinds, FinalizeSession
  PROVE  /\ life = "closing"
         /\ gate = {} /\ queue = <<>> /\ frame = NoFrame
         /\ life' = "final"
         /\ open' = 0
         /\ rows' \in [Turns -> RowRows]
         /\ \A t \in Turns : SameMarks(rows'[t], rows[t])
         /\ UNCHANGED <<userVars, slot, queue, frame, reply, pig, stateVars, wordVars, inject, device>>
<1>1. rows \in [Turns -> RowRows] /\ open \in 0..TurnCount /\ (open # 0 => rows[open].st = "open")
  BY KindFacts DEF Kinds
<1>2. CASE open = 0
  <2>1. rows' = rows
    BY <1>2 DEF FinalizeSession
  <2>2. \A t \in Turns : SameMarks(rows'[t], rows[t])
    BY <2>1 DEF SameMarks
  <2> QED BY <1>1, <2>1, <2>2 DEF FinalizeSession
<1>3. CASE open # 0
  <2>1. open \in Turns
    BY <1>1, <1>3, Counts DEF Turns
  <2> DEFINE row == [rows[open] EXCEPT !.st = "ending"]
  <2>2. rows[open] \in RowRows /\ rows[open].st = "open"
    BY <1>1, <1>3, <2>1
  <2>3. row \in RowRows /\ row.st = "ending" /\ row.text = rows[open].text /\ row.final = rows[open].final
        /\ row.late = rows[open].late /\ row.played = rows[open].played
    BY <2>2 DEF RowRows
  <2>4. SameMarks(row, rows[open])
    BY <2>2, <2>3 DEF SameMarks, Landed
  <2>5. rows' = [rows EXCEPT ![open] = row]
    BY <1>1, <1>3, <2>1 DEF FinalizeSession
  <2> HIDE DEF row
  <2>6. rows' \in [Turns -> RowRows] /\ rows'[open] = row /\ \A t \in Turns : t # open => rows'[t] = rows[t]
    BY <1>1, <2>1, <2>3, <2>5
  <2>7. \A t \in Turns : SameMarks(rows'[t], rows[t])
    BY <2>4, <2>6 DEF SameMarks
  <2> QED BY <2>6, <2>7 DEF FinalizeSession
<1> QED BY <1>2, <1>3

LEMMA CleanupDoes ==
  ASSUME Kinds, Cleanup
  PROVE  /\ life = "final"
         /\ life' = "over"
         /\ inject' \in InjectRows
         /\ Write(pending)
         /\ UNCHANGED <<userVars, rowVars, queue, frame, reply, pig, stateVars, device>>
<1>1. inject \in InjectRows /\ inject' = [inject EXCEPT !.phase = "none"]
  BY KindFacts DEF Cleanup
<1>2. inject' \in InjectRows
  BY <1>1 DEF InjectRows
<1> QED BY <1>2 DEF Cleanup

(* Words that are written, or kept. *)
LEMMA WriteDoes ==
  ASSUME Kinds, NEW ts \in SUBSET Turns, Write(ts)
  PROVE  /\ pending' = {}
         /\ told' \in [Turns -> Nat]
         /\ \A t \in Turns : told'[t] = IF t \in ts THEN told[t] + 1 ELSE told[t]
<1>1. told \in [Turns -> Nat] /\ told' = [t \in Turns |-> IF t \in ts THEN told[t] + 1 ELSE told[t]]
  BY KindFacts DEF Write
<1>2. \A t \in Turns : told[t] \in Nat /\ told[t] + 1 \in Nat
  BY <1>1
<1> QED BY <1>1, <1>2 DEF Write

LEMMA SettlesDoes ==
  ASSUME Kinds, Settles, reply.phase # "none"
  PROVE  /\ pending' \in SUBSET Turns
         /\ told' \in [Turns -> Nat]
         /\ \/ /\ pending' = {}
               /\ \A t \in Turns : told'[t] = IF t \in reply.prior \/ t = reply.t THEN told[t] + 1 ELSE told[t]
            \/ /\ pending' = reply.prior \cup {reply.t}
               /\ told' = told
<1>1. reply.t \in Turns /\ reply.prior \in SUBSET Turns /\ told \in [Turns -> Nat]
  BY ReplyFacts, KindFacts
<1> DEFINE ts == reply.prior \cup {reply.t}
<1>2. ts \in SUBSET Turns
  BY <1>1
<1>3. \A t \in Turns : t \in ts <=> t \in reply.prior \/ t = reply.t
  OBVIOUS
<1>4. Write(ts) \/ (pending' = ts /\ told' = told)
  BY DEF Settles
<1>5. ts = reply.prior \cup {reply.t}
  OBVIOUS
<1> HIDE DEF ts
<1>6. CASE Write(ts)
  <2>1. /\ pending' = {}
        /\ told' \in [Turns -> Nat]
        /\ \A t \in Turns : told'[t] = IF t \in ts THEN told[t] + 1 ELSE told[t]
    BY <1>2, <1>6, WriteDoes
  <2> QED BY <1>3, <2>1
<1>7. CASE pending' = ts /\ told' = told
  BY <1>1, <1>2, <1>5, <1>7
<1> QED BY <1>4, <1>6, <1>7

-----------------------------------------------------------------------------
(* Kinds is invariant.                                                     *)
LEMMA RowKindsSwept ==
  ASSUME rows' \in [Turns -> RowRows], slot' \in 0..TurnCount, open' = 0
  PROVE  RowKinds'
BY ZeroIsNoTurn DEF RowKinds

LEMMA FrameKindsJoin ==
  ASSUME FrameKinds, NEW k \in Kind, NEW t \in 0..TurnCount, Joins(queue, queue', k, t), frame' = frame
  PROVE  FrameKinds'
BY DEF FrameKinds, Joins

LEMMA LandsKinds ==
  ASSUME RowKinds, NEW t \in Turns, Lands(t), slot' = slot, open' = open, t # open
  PROVE  RowKinds'
<1>1. open # 0 => open \in Turns
  BY Counts DEF RowKinds, Turns
<1> QED BY <1>1 DEF RowKinds, Lands

LEMMA StateKindsNext ==
  ASSUME StateKinds, pig' = pig, event' \in BOOLEAN, speaking' \in BOOLEAN, sid' \in {sid, sid + 1},
         cursid' \in {cursid, 0}, played' = played, acks' = acks
  PROVE  StateKinds'
<1>1. sid' \in Nat /\ cursid' \in Nat
  BY DEF StateKinds
<1> QED BY <1>1 DEF StateKinds

LEMMA KindsStep == Kinds /\ [Next]_vars => Kinds'
<1> SUFFICES ASSUME Kinds, [Next]_vars PROVE Kinds'
  OBVIOUS
<1>0. UserKinds /\ RowKinds /\ FrameKinds /\ ReplyKinds /\ StateKinds /\ WordKinds /\ OtherKinds
  BY KindParts
<1>1. CASE UserStarts
  <2>1. UserKinds'
    BY <1>0, <1>1, UserStartsDoes DEF UserKinds
  <2>2. FrameKinds'
    BY <1>0, <1>1, UserStartsDoes, FrameKindsJoin, ZeroIsNoTurn DEF Kind
  <2>3. RowKinds' /\ ReplyKinds' /\ StateKinds' /\ WordKinds' /\ OtherKinds'
    BY <1>0, <1>1, UserStartsDoes DEF RowKinds, ReplyKinds, StateKinds, WordKinds, OtherKinds,
       userVars, rowVars, stateVars, wordVars, Alive
  <2> QED BY <2>1, <2>2, <2>3, KindsNext
<1>2. CASE UserStops
  <2>1. UserKinds'
    <3>1. next \in Turns /\ gate' = gate \cup {next} /\ next' = next + 1 /\ ack' = FALSE /\ user' \in UserRows
          /\ prefixed' \in {prefixed, prefixed + 1}
      BY <1>2, UserStopsDoes, OpenRowDoes
    <3>2. gate' \in SUBSET Turns
      BY <1>0, <3>1 DEF UserKinds
    <3>3. next' \in 1..(TurnCount + 1) /\ prefixed' \in 0..TurnCount /\ prefixed' < next'
      BY <1>0, <3>1, Counts DEF UserKinds, Turns
    <3> QED BY <3>1, <3>2, <3>3 DEF UserKinds
  <2>2. RowKinds'
    BY <1>0, <1>2, UserStopsDoes, OpenRowDoes, ZeroIsNoTurn DEF RowKinds, IsNew
  <2>3. StateKinds'
    BY <1>0, <1>2, UserStopsDoes, Lines DEF StateKinds
  <2>4. FrameKinds' /\ ReplyKinds' /\ WordKinds' /\ OtherKinds'
    BY <1>0, <1>2, UserStopsDoes DEF FrameKinds, ReplyKinds, WordKinds, OtherKinds, userVars,
       rowVars, stateVars, wordVars, Alive
  <2> QED BY <2>1, <2>2, <2>3, <2>4, KindsNext
<1>3. CASE UserStopsBlank
  <2>1. UserKinds'
    BY <1>0, <1>3, UserStopsBlankDoes DEF UserKinds
  <2>2. RowKinds'
    BY <1>0, <1>3, UserStopsBlankDoes, RowKindsSwept DEF RowKinds
  <2>3. FrameKinds' /\ ReplyKinds' /\ StateKinds' /\ WordKinds' /\ OtherKinds'
    BY <1>0, <1>3, UserStopsBlankDoes DEF FrameKinds, ReplyKinds, StateKinds, WordKinds,
       OtherKinds, userVars, rowVars, stateVars, wordVars, Alive
  <2> QED BY <2>1, <2>2, <2>3, KindsNext
<1>4. CASE WakeWord
  <2>1. UserKinds'
    BY <1>0, <1>4, WakeWordDoes DEF UserKinds
  <2>2. RowKinds' /\ FrameKinds' /\ ReplyKinds' /\ StateKinds' /\ WordKinds' /\ OtherKinds'
    BY <1>0, <1>4, WakeWordDoes DEF RowKinds, FrameKinds, ReplyKinds, StateKinds, WordKinds,
       OtherKinds, userVars, rowVars, stateVars, wordVars, Alive
  <2> QED BY <2>1, <2>2, KindsNext
<1>5. CASE AckFires
  <2>1. UserKinds'
    <3>1. next \in Turns /\ gate' = gate \cup {next} /\ next' = next + 1 /\ ack' = FALSE /\ user' \in UserRows
          /\ prefixed' \in {prefixed, prefixed + 1}
      BY <1>5, AckFiresDoes, OpenRowDoes
    <3>2. gate' \in SUBSET Turns
      BY <1>0, <3>1 DEF UserKinds
    <3>3. next' \in 1..(TurnCount + 1) /\ prefixed' \in 0..TurnCount /\ prefixed' < next'
      BY <1>0, <3>1, Counts DEF UserKinds, Turns
    <3> QED BY <3>1, <3>2, <3>3 DEF UserKinds
  <2>2. RowKinds'
    BY <1>0, <1>5, AckFiresDoes, OpenRowDoes, ZeroIsNoTurn DEF RowKinds, IsNew
  <2>3. FrameKinds' /\ ReplyKinds' /\ StateKinds' /\ WordKinds' /\ OtherKinds'
    BY <1>0, <1>5, AckFiresDoes DEF FrameKinds, ReplyKinds, StateKinds, WordKinds, OtherKinds,
       userVars, rowVars, stateVars, wordVars, Alive
  <2> QED BY <2>1, <2>2, <2>3, KindsNext
<1>6. CASE DeviceStops
  <2>1. FrameKinds'
    BY <1>0, <1>6, DeviceStopsDoes, FrameKindsJoin, ZeroIsNoTurn DEF Kind
  <2>2. UserKinds' /\ RowKinds' /\ ReplyKinds' /\ StateKinds' /\ WordKinds' /\ OtherKinds'
    BY <1>0, <1>6, DeviceStopsDoes DEF UserKinds, RowKinds, ReplyKinds, StateKinds, WordKinds,
       OtherKinds, userVars, rowVars, stateVars, wordVars, Alive
  <2> QED BY <2>1, <2>2, KindsNext
<1>7. CASE \E a \in acks : DevicePlayed(a)
  <2>1. StateKinds'
    BY <1>0, <1>7, DevicePlayedDoes, Lines DEF StateKinds, AckSets
  <2>2. UserKinds' /\ RowKinds' /\ FrameKinds' /\ ReplyKinds' /\ WordKinds' /\ OtherKinds'
    BY <1>0, <1>7, DevicePlayedDoes DEF UserKinds, RowKinds, FrameKinds, ReplyKinds, WordKinds,
       OtherKinds, userVars, rowVars, stateVars, wordVars, Alive
  <2> QED BY <2>1, <2>2, KindsNext
<1>8. CASE InjectBegins
  <2>1. ReplyKinds'
    BY <1>0, <1>8, InjectBeginsDoes, NoFrameFacts DEF ReplyKinds, SameReply, Alive
  <2>2. StateKinds'
    BY <1>0, <1>8, InjectBeginsDoes DEF StateKinds, stateVars
  <2>3. OtherKinds'
    BY <1>0, <1>8, InjectBeginsDoes DEF OtherKinds, userVars
  <2>4. UserKinds' /\ RowKinds' /\ FrameKinds' /\ WordKinds'
    BY <1>0, <1>8, InjectBeginsDoes DEF UserKinds, RowKinds, FrameKinds, WordKinds, userVars,
       rowVars, stateVars, wordVars, Alive
  <2> QED BY <2>1, <2>2, <2>3, <2>4, KindsNext
<1>9. CASE HandleTurn
  <2>1. PICK t \in Turns :
         /\ IsNoFrame
         /\ Leaves(queue, queue', "turn", t)
         /\ device' \in DeviceRows
         /\ \/ Killed("turn", t) /\ sid' = sid
            \/ ~Alive /\ Starts(t) /\ frame' = frame
         /\ UNCHANGED <<userVars, rowVars, pig, speaking, cursid, played, acks, wordVars, inject, life>>
    BY <1>9, HandleTurnDoes
  <2>2. UserKinds' /\ RowKinds' /\ WordKinds' /\ OtherKinds'
    BY <1>0, <2>1 DEF UserKinds, RowKinds, WordKinds, OtherKinds, userVars, rowVars, wordVars
  <2>3. FrameKinds' /\ ReplyKinds'
    BY <1>0, <2>1 DEF FrameKinds, ReplyKinds, Leaves, SameReply, Alive, Killed, Starts, IsNoFrame
  <2>4. StateKinds'
    BY <1>0, <2>1, StateKindsNext DEF StateKinds, Killed, Starts
  <2> QED BY <2>2, <2>3, <2>4, KindsNext
<1>10. CASE TurnResumes
  <2>1. frame.t \in Turns /\ Starts(frame.t) /\ frame' = NoFrame /\ device' \in DeviceRows
        /\ UNCHANGED <<userVars, rowVars, queue, pig, speaking, cursid, played, acks, wordVars, inject, life>>
    BY <1>10, TurnResumesDoes
  <2>2. UserKinds' /\ RowKinds' /\ WordKinds' /\ OtherKinds'
    BY <1>0, <2>1 DEF UserKinds, RowKinds, WordKinds, OtherKinds, userVars, rowVars, wordVars
  <2>4. FrameKinds'
    BY <1>0, <2>1, NoFrameFacts, ZeroIsNoTurn DEF FrameKinds
  <2>5. StateKinds'
    BY <1>0, <2>1, StateKindsNext DEF StateKinds, Starts
  <2>6. ReplyKinds'
    BY <2>1 DEF ReplyKinds, Alive, Starts
  <2> QED BY <2>2, <2>4, <2>5, <2>6, KindsNext
<1>11. CASE HandleInterrupt
  <2>1. FrameKinds'
    BY <1>0, <1>11, HandleInterruptDoes, NoFrameFacts, ZeroIsNoTurn DEF FrameKinds, Leaves, Killed
  <2>2. ReplyKinds'
    BY <1>0, <1>11, HandleInterruptDoes DEF ReplyKinds, Killed, SameReply, Alive
  <2>3. StateKinds'
    <3>1. event' \in BOOLEAN /\ speaking' \in BOOLEAN /\ cursid' \in {cursid, 0} /\ sid' \in {sid, sid + 1}
      BY <1>0, <1>11, HandleInterruptDoes DEF StateKinds, Killed, Aborted, DeviceAborted
    <3> QED BY <1>0, <1>11, <3>1, HandleInterruptDoes, StateKindsNext
  <2>4. OtherKinds'
    BY <1>0, <1>11, HandleInterruptDoes, AbortedDoes, SilentFacts
    DEF OtherKinds, userVars, Aborted, AbortedBy, DeviceAborted, StateKinds
  <2>5. UserKinds' /\ RowKinds' /\ WordKinds'
    BY <1>0, <1>11, HandleInterruptDoes DEF UserKinds, RowKinds, WordKinds, userVars, rowVars,
       stateVars, wordVars, Alive
  <2> QED BY <2>1, <2>2, <2>3, <2>4, <2>5, KindsNext
<1>12. CASE InterruptResumes
  <2>1. FrameKinds'
    BY <1>0, <1>12, InterruptResumesDoes, NoFrameFacts, ZeroIsNoTurn DEF FrameKinds, Leaves, Killed
  <2>2. ReplyKinds'
    BY <1>0, <1>12, InterruptResumesDoes DEF ReplyKinds, Killed, SameReply, Alive
  <2>3. StateKinds'
    BY <1>0, <1>12, InterruptResumesDoes DEF StateKinds, Killed, Aborted, AbortedBy, DeviceAborted
  <2>4. OtherKinds'
    BY <1>0, <1>12, InterruptResumesDoes, AbortedDoes, SilentFacts
    DEF OtherKinds, userVars, Aborted, AbortedBy, DeviceAborted, StateKinds
  <2>5. UserKinds' /\ RowKinds' /\ WordKinds'
    BY <1>0, <1>12, InterruptResumesDoes DEF UserKinds, RowKinds, WordKinds, userVars, rowVars,
       stateVars, wordVars, Alive
  <2> QED BY <2>1, <2>2, <2>3, <2>4, <2>5, KindsNext
<1>13. CASE HandleDeviceAbort
  <2>1. FrameKinds'
    BY <1>0, <1>13, HandleDeviceAbortDoes, NoFrameFacts, ZeroIsNoTurn DEF FrameKinds, Leaves, Killed
  <2>2. ReplyKinds'
    BY <1>0, <1>13, HandleDeviceAbortDoes DEF ReplyKinds, Killed, SameReply, Alive
  <2>3. StateKinds'
    <3>1. event' \in BOOLEAN /\ speaking' \in BOOLEAN /\ cursid' \in {cursid, 0} /\ sid' \in {sid, sid + 1}
      BY <1>0, <1>13, HandleDeviceAbortDoes DEF StateKinds, Killed, Aborted, DeviceAborted
    <3> QED BY <1>0, <1>13, <3>1, HandleDeviceAbortDoes, StateKindsNext
  <2>4. OtherKinds'
    BY <1>0, <1>13, HandleDeviceAbortDoes, AbortedDoes, SilentFacts
    DEF OtherKinds, userVars, Aborted, AbortedBy, DeviceAborted, StateKinds
  <2>5. UserKinds' /\ RowKinds' /\ WordKinds'
    BY <1>0, <1>13, HandleDeviceAbortDoes DEF UserKinds, RowKinds, WordKinds, userVars, rowVars,
       stateVars, wordVars, Alive
  <2> QED BY <2>1, <2>2, <2>3, <2>4, <2>5, KindsNext
<1>14. CASE DeviceAbortResumes
  <2>1. FrameKinds'
    BY <1>0, <1>14, DeviceAbortResumesDoes, NoFrameFacts, ZeroIsNoTurn
    DEF FrameKinds, Leaves, Killed
  <2>2. ReplyKinds'
    BY <1>0, <1>14, DeviceAbortResumesDoes DEF ReplyKinds, Killed, SameReply, Alive
  <2>3. StateKinds'
    BY <1>0, <1>14, DeviceAbortResumesDoes DEF StateKinds, Killed, Aborted, AbortedBy, DeviceAborted
  <2>4. OtherKinds'
    BY <1>0, <1>14, DeviceAbortResumesDoes, AbortedDoes, SilentFacts
    DEF OtherKinds, userVars, Aborted, AbortedBy, DeviceAborted, StateKinds
  <2>5. UserKinds' /\ RowKinds' /\ WordKinds'
    BY <1>0, <1>14, DeviceAbortResumesDoes DEF UserKinds, RowKinds, WordKinds, userVars, rowVars,
       stateVars, wordVars, Alive
  <2> QED BY <2>1, <2>2, <2>3, <2>4, <2>5, KindsNext
<1>15. CASE ReplyRuns
  <2>1. reply.t \in Turns
    BY <1>15, ReplyRunsDoes, ReplyFacts
  <2>2. RowKinds'
    <3>1. rows \in [Turns -> RowRows] /\ slot \in 0..TurnCount /\ open \in 0..TurnCount
          /\ (open # 0 => rows[open].st = "open" /\ open \in Turns)
      BY <1>0, Counts DEF RowKinds, Turns
    <3>2. /\ Heard(rows, slot, reply.t) \in [Turns -> RowRows]
          /\ \A u \in Turns : Heard(rows, slot, reply.t)[u].st = rows[u].st
      BY <2>1, <3>1, HeardRows
    <3> QED BY <1>15, <3>1, <3>2, ReplyRunsDoes, ZeroIsNoTurn DEF RowKinds
  <2>3. ReplyKinds'
    BY <1>0, <1>15, <2>1, ReplyRunsDoes DEF ReplyKinds, Alive
  <2>4. UserKinds' /\ FrameKinds' /\ StateKinds' /\ WordKinds' /\ OtherKinds'
    BY <1>0, <1>15, ReplyRunsDoes DEF UserKinds, FrameKinds, StateKinds, WordKinds, OtherKinds,
       userVars, stateVars, wordVars
  <2> QED BY <2>2, <2>3, <2>4, KindsNext
<1>16. CASE AgentReady
  <2>1. reply.t \in Turns
    BY <1>16, AgentReadyDoes, ReplyFacts
  <2>2. RowKinds'
    <3>1. rows \in [Turns -> RowRows] /\ reply.row \in 0..TurnCount /\ slot \in 0..TurnCount /\ open \in 0..TurnCount
          /\ (open # 0 => rows[open].st = "open" /\ open \in Turns)
      BY <1>0, Counts, ReplyFacts DEF RowKinds, Turns
    <3>2. /\ Heard(rows, reply.row, reply.t) \in [Turns -> RowRows]
          /\ \A u \in Turns : Heard(rows, reply.row, reply.t)[u].st = rows[u].st
      BY <2>1, <3>1, HeardRows
    <3> QED BY <1>16, <3>1, <3>2, AgentReadyDoes DEF RowKinds
  <2>3. ReplyKinds'
    BY <1>0, <1>16, <2>1, AgentReadyDoes DEF ReplyKinds, Alive
  <2>4. UserKinds' /\ FrameKinds' /\ StateKinds' /\ WordKinds' /\ OtherKinds'
    BY <1>0, <1>16, AgentReadyDoes DEF UserKinds, FrameKinds, StateKinds, WordKinds, OtherKinds,
       userVars, stateVars, wordVars
  <2> QED BY <2>2, <2>3, <2>4, KindsNext
<1>17. CASE AgentFails
  <2>1. reply.t \in Turns /\ reply.row \in 0..TurnCount /\ played \in 0..Inject
    BY <1>0, <1>17, AgentFailsDoes, ReplyFacts DEF StateKinds
  <2>2. RowKinds'
    <3>1. rows \in [Turns -> RowRows] /\ slot \in 0..TurnCount /\ open \in 0..TurnCount
          /\ (open # 0 => rows[open].st = "open" /\ open \in Turns)
      BY <1>0, Counts DEF RowKinds, Turns
    <3> DEFINE hs == Heard(rows, reply.row, reply.t)
    <3>2. hs \in [Turns -> RowRows] /\ \A u \in Turns : hs[u].st = rows[u].st
      BY <2>1, <3>1, HeardRows
    <3>3. rows' = Finalized(hs, reply.row)
      BY <1>17, AgentFailsDoes
    <3> HIDE DEF hs
    <3>4. rows' \in [Turns -> RowRows] /\ \A u \in Turns : rows'[u].st = hs[u].st
      BY <2>1, <3>2, <3>3, FinalizedRows
    <3> QED BY <1>17, <3>1, <3>2, <3>4, AgentFailsDoes DEF RowKinds
  <2>3. ReplyKinds'
    BY <1>17, AgentFailsDoes, NoReplyFacts DEF ReplyKinds, Alive
  <2>4. UserKinds' /\ FrameKinds' /\ StateKinds' /\ WordKinds' /\ OtherKinds'
    BY <1>0, <1>17, AgentFailsDoes DEF UserKinds, FrameKinds, StateKinds, WordKinds, OtherKinds,
       userVars, stateVars, wordVars
  <2> QED BY <2>2, <2>3, <2>4, KindsNext
<1>18. CASE ReplyDies
  <2>1. ReplyKinds'
    BY <1>18, NoReplyFacts DEF ReplyDies, ReplyKinds, Alive
  <2>2. UserKinds' /\ RowKinds' /\ FrameKinds' /\ StateKinds' /\ WordKinds' /\ OtherKinds'
    BY <1>0, <1>18 DEF ReplyDies, UserKinds, RowKinds, FrameKinds, StateKinds, WordKinds,
       OtherKinds, userVars, rowVars, stateVars, wordVars, Alive
  <2> QED BY <2>1, <2>2, KindsNext
<1>19. CASE ReplySpeaks
  <2>1. ReplyKinds'
    BY <1>0, <1>19, ReplySpeaksDoes DEF ReplyKinds, Alive
  <2>2. StateKinds'
    <3>1. reply.sid \in Nat /\ reply.t \in Turns /\ NamedSid \in Nat
      BY <1>19, ReplyFacts, ReplySpeaksDoes
    <3>2. <<NamedSid, reply.t>> \in Nat \X (Turns \cup {Inject})
      BY <3>1
    <3> QED BY <1>0, <1>19, <3>1, <3>2, ReplySpeaksDoes DEF StateKinds, AckSets
  <2>3. OtherKinds'
    BY <1>0, <1>19, ReplySpeaksDoes DEF OtherKinds, userVars
  <2>4. UserKinds' /\ RowKinds' /\ FrameKinds' /\ WordKinds'
    BY <1>0, <1>19, ReplySpeaksDoes DEF UserKinds, RowKinds, FrameKinds, WordKinds, userVars,
       rowVars, stateVars, wordVars, Alive
  <2> QED BY <2>1, <2>2, <2>3, <2>4, KindsNext
<1>20. CASE ReplyEnds
  <2>1. RowKinds'
    <3>1. rows \in [Turns -> RowRows] /\ reply.row \in 0..TurnCount /\ slot \in 0..TurnCount
          /\ open \in 0..TurnCount /\ played \in 0..Inject
          /\ (open # 0 => rows[open].st = "open" /\ open \in Turns)
      BY <1>0, Counts, ReplyFacts DEF RowKinds, StateKinds, Turns
    <3>2. /\ Finalized(rows, reply.row) \in [Turns -> RowRows]
          /\ \A u \in Turns : Finalized(rows, reply.row)[u].st = rows[u].st
      BY <3>1, FinalizedRows
    <3> QED BY <1>20, <3>1, <3>2, ReplyEndsDoes DEF RowKinds
  <2>2. ReplyKinds'
    <3>1. reply.phase # "none" /\ reply.t \in Turns
      BY <1>20, ReplyEndsDoes, ReplyFacts
    <3>2. frame' = NoFrame
      BY <1>0, <1>20, <3>1, ReplyEndsDoes DEF ReplyKinds, Alive
    <3> QED BY <1>20, <3>1, <3>2, ReplyEndsDoes DEF ReplyKinds, Alive
  <2>3. WordKinds'
    BY <1>20, ReplyEndsDoes, SettlesDoes DEF WordKinds
  <2>4. OtherKinds'
    BY <1>0, <1>20, ReplyEndsDoes DEF OtherKinds, userVars
  <2>5. UserKinds' /\ FrameKinds' /\ StateKinds'
    BY <1>0, <1>20, ReplyEndsDoes DEF UserKinds, FrameKinds, StateKinds, userVars, rowVars,
       stateVars, wordVars, Alive
  <2> QED BY <2>1, <2>2, <2>3, <2>4, <2>5, KindsNext
<1>21. CASE ReplyKilled
  <2>1. RowKinds'
    <3>1. rows \in [Turns -> RowRows] /\ reply.row \in 0..TurnCount /\ slot \in 0..TurnCount
          /\ open \in 0..TurnCount /\ played \in 0..Inject
          /\ (open # 0 => rows[open].st = "open" /\ open \in Turns)
      BY <1>0, Counts, ReplyFacts DEF RowKinds, StateKinds, Turns
    <3>2. /\ Finalized(rows, reply.row) \in [Turns -> RowRows]
          /\ \A u \in Turns : Finalized(rows, reply.row)[u].st = rows[u].st
      BY <3>1, FinalizedRows
    <3> QED BY <1>21, <3>1, <3>2, ReplyKilledDoes DEF RowKinds
  <2>2. ReplyKinds'
    BY <1>21, ReplyKilledDoes, NoReplyFacts DEF ReplyKinds, Alive
  <2>3. StateKinds'
    BY <1>0, <1>21, ReplyKilledDoes DEF StateKinds
  <2>4. WordKinds'
    BY <1>21, ReplyKilledDoes, SettlesDoes DEF WordKinds
  <2>5. UserKinds' /\ FrameKinds' /\ OtherKinds'
    BY <1>0, <1>21, ReplyKilledDoes DEF UserKinds, FrameKinds, OtherKinds, userVars, rowVars,
       stateVars, wordVars, Alive
  <2> QED BY <2>1, <2>2, <2>3, <2>4, <2>5, KindsNext
<1>22. CASE ReplyTail
  <2>1. ReplyKinds'
    BY <1>22, NoReplyFacts DEF ReplyTail, ReplyKinds, Alive
  <2>2. StateKinds'
    BY <1>0, <1>22, ReplyFacts DEF ReplyTail, StateKinds
  <2>3. UserKinds' /\ RowKinds' /\ FrameKinds' /\ WordKinds' /\ OtherKinds'
    BY <1>0, <1>22 DEF ReplyTail, UserKinds, RowKinds, FrameKinds, WordKinds, OtherKinds,
       userVars, rowVars, stateVars, wordVars, Alive
  <2> QED BY <2>1, <2>2, <2>3, KindsNext
<1>23. CASE Injected
  <2>1. StateKinds'
    <3>1. <<0, Inject>> \in Nat \X (Turns \cup {Inject})
      OBVIOUS
    <3> QED BY <1>0, <1>23, <3>1, InjectedDoes DEF StateKinds, AckSets
  <2>2. OtherKinds'
    BY <1>0, <1>23, InjectedDoes DEF OtherKinds, userVars
  <2>3. UserKinds' /\ RowKinds' /\ FrameKinds' /\ ReplyKinds' /\ WordKinds'
    BY <1>0, <1>23, InjectedDoes DEF UserKinds, RowKinds, FrameKinds, ReplyKinds, WordKinds,
       userVars, rowVars, stateVars, wordVars, Alive
  <2> QED BY <2>1, <2>2, <2>3, KindsNext
<1>24. ASSUME NEW t \in Turns, Dispatch(t) PROVE Kinds'
  <2>1. FrameKinds'
    BY <1>0, <1>24, DispatchDoes, FrameKindsJoin, ZeroIsNoTurn DEF Kind
  <2>2. UserKinds'
    BY <1>0, <1>24, DispatchDoes DEF UserKinds
  <2>3. RowKinds' /\ ReplyKinds' /\ StateKinds' /\ WordKinds' /\ OtherKinds'
    BY <1>0, <1>24, DispatchDoes DEF RowKinds, ReplyKinds, StateKinds, WordKinds, OtherKinds,
       rowVars, stateVars, wordVars, Alive
  <2> QED BY <2>1, <2>2, <2>3, KindsNext
<1>25. ASSUME NEW t \in Turns, CommitOnFinalize(t) PROVE Kinds'
  <2>1. RowKinds'
    BY <1>0, <1>25, CommitOnFinalizeDoes, RowKindsSwept DEF RowKinds, Lands
  <2>2. UserKinds' /\ FrameKinds' /\ ReplyKinds' /\ StateKinds' /\ WordKinds' /\ OtherKinds'
    BY <1>0, <1>25, CommitOnFinalizeDoes DEF UserKinds, FrameKinds, ReplyKinds, StateKinds,
       WordKinds, OtherKinds, userVars, stateVars, wordVars, Alive
  <2> QED BY <2>1, <2>2, KindsNext
<1>26. ASSUME NEW t \in Turns, CloseRow(t) \/ EndRow(t) PROVE Kinds'
  <2>1. RowKinds'
    BY <1>0, <1>26, CloseRowDoes, EndRowDoes, LandsKinds
  <2>2. UserKinds' /\ FrameKinds' /\ ReplyKinds' /\ StateKinds' /\ WordKinds' /\ OtherKinds'
    BY <1>0, <1>26, CloseRowDoes, EndRowDoes DEF UserKinds, FrameKinds, ReplyKinds, StateKinds,
       WordKinds, OtherKinds, userVars, stateVars, wordVars, Alive
  <2> QED BY <2>1, <2>2, KindsNext
<1>27. CASE Disconnect
  <2>1. UserKinds'
    BY <1>0, <1>27, DisconnectDoes DEF UserKinds
  <2>2. ReplyKinds'
    BY <1>0, <1>27, DisconnectDoes DEF ReplyKinds, SameReply, Alive
  <2>3. OtherKinds'
    BY <1>0, <1>27, DisconnectDoes DEF OtherKinds
  <2>4. RowKinds' /\ FrameKinds' /\ StateKinds' /\ WordKinds'
    BY <1>0, <1>27, DisconnectDoes DEF RowKinds, FrameKinds, StateKinds, WordKinds, userVars,
       rowVars, stateVars, wordVars, Alive
  <2> QED BY <2>1, <2>2, <2>3, <2>4, KindsNext
<1>28. CASE FinalizeSession
  <2>1. RowKinds'
    BY <1>0, <1>28, FinalizeSessionDoes, RowKindsSwept DEF RowKinds
  <2>2. OtherKinds'
    BY <1>0, <1>28, FinalizeSessionDoes DEF OtherKinds, userVars
  <2>3. UserKinds' /\ FrameKinds' /\ ReplyKinds' /\ StateKinds' /\ WordKinds'
    BY <1>0, <1>28, FinalizeSessionDoes DEF UserKinds, FrameKinds, ReplyKinds, StateKinds,
       WordKinds, userVars, rowVars, stateVars, wordVars, Alive
  <2> QED BY <2>1, <2>2, <2>3, KindsNext
<1>29. CASE Cleanup
  <2>1. WordKinds'
    BY <1>0, <1>29, CleanupDoes, WriteDoes DEF WordKinds
  <2>2. OtherKinds'
    BY <1>0, <1>29, CleanupDoes DEF OtherKinds, userVars
  <2>3. UserKinds' /\ RowKinds' /\ FrameKinds' /\ ReplyKinds' /\ StateKinds'
    BY <1>0, <1>29, CleanupDoes DEF UserKinds, RowKinds, FrameKinds, ReplyKinds, StateKinds,
       userVars, rowVars, stateVars, wordVars, Alive
  <2> QED BY <2>1, <2>2, <2>3, KindsNext
<1>30. CASE UNCHANGED vars
  BY <1>30 DEF vars, userVars, rowVars, stateVars, wordVars, Kinds, TypeOK, Alive
<1> QED
  BY <1>1, <1>2, <1>3, <1>4, <1>5, <1>6, <1>7, <1>8, <1>9, <1>10, <1>11, <1>12, <1>13, <1>14,
     <1>15, <1>16, <1>17, <1>18, <1>19, <1>20, <1>21, <1>22, <1>23, <1>24, <1>25, <1>26, <1>27,
     <1>28, <1>29, <1>30
  DEF Next, Frames, Replies, Commits, Ending

LEMMA KindsInit == Init => Kinds
<1> SUFFICES ASSUME Init PROVE Kinds
  OBVIOUS
<1>1. UserKinds
  <2>1. user \in UserRows
    BY Counts DEF Init, UserRows
  <2>2. next \in 1..(TurnCount + 1) /\ prefixed \in 0..TurnCount /\ prefixed < next
    BY Counts DEF Init
  <2> QED BY <2>1, <2>2 DEF Init, UserKinds
<1>2. RowKinds
  BY ZeroIsNoTurn, Lines DEF Init, RowKinds, RowRows, NoRow
<1>3. FrameKinds
  BY NothingQueued, NoFrameFacts, ZeroIsNoTurn DEF Init, FrameKinds
<1>4. ReplyKinds
  BY NoReplyFacts DEF Init, ReplyKinds, Alive
<1>5. StateKinds
  BY Lines DEF Init, StateKinds, AckSets
<1>6. WordKinds
  BY DEF Init, WordKinds
<1>7. OtherKinds
  <2>1. faults \in SUBSET Faults
    BY FaultAssumption DEF Init
  <2>2. inject \in InjectRows
    BY Counts DEF Init, InjectRows
  <2> QED BY <2>1, <2>2, SilentFacts DEF Init, OtherKinds
<1> QED BY <1>1, <1>2, <1>3, <1>4, <1>5, <1>6, <1>7, KindParts

(* Turns, frames, replies, rows and words are well typed (tts_bridge.py,   *)
(* turn_storage_observer.py, agent_gateway.py), whatever overlaps in a     *)
(* session and however it ends.                                            *)
THEOREM VoiceTypes == Spec => []TypeOK
<1>1. Kinds => TypeOK
  BY DEF Kinds
<1> QED BY <1>1, KindsInit, KindsStep, PTL DEF Spec

-----------------------------------------------------------------------------
(* What the session knows of the device.                                   *)
LEMMA FaultsStay == ASSUME Kinds, [Next]_vars PROVE faults' = faults
<1>1. CASE UserStarts \/ UserStops \/ UserStopsBlank \/ WakeWord \/ AckFires \/ DeviceStops
  BY <1>1 DEF UserStarts, UserStops, UserStopsBlank, WakeWord, AckFires, DeviceStops, userVars
<1>2. CASE \E a \in acks : DevicePlayed(a)
  BY <1>2 DEF DevicePlayed, userVars
<1>3. CASE InjectBegins \/ Injected
  BY <1>3 DEF InjectBegins, Injected, InjectResumes, InjectSpeaks, InjectEnds, userVars
<1>4. CASE Frames
  BY <1>4 DEF Frames, HandleTurn, TurnResumes, HandleInterrupt, InterruptResumes, HandleDeviceAbort,
     DeviceAbortResumes, userVars
<1>5. CASE Replies
  BY <1>5 DEF Replies, ReplyRuns, AgentReady, AgentFails, ReplyDies, ReplySpeaks, ReplyEnds,
     ReplyKilled,
     ReplyTail, userVars
<1>6. CASE Commits
  BY <1>6 DEF Commits, Dispatch, CommitOnFinalize, CloseRow, EndRow, userVars
<1>7. CASE Ending
  BY <1>7 DEF Ending, Disconnect, FinalizeSession, Cleanup, userVars
<1>8. CASE UNCHANGED vars
  BY <1>8 DEF vars, userVars
<1> QED BY <1>1, <1>2, <1>3, <1>4, <1>5, <1>6, <1>7, <1>8 DEF Next

LEMMA LifeEnds == ASSUME Kinds, [Next]_vars, life' = "on" PROVE life = "on"
<1>1. CASE UserStarts \/ UserStops \/ UserStopsBlank \/ WakeWord \/ AckFires \/ DeviceStops
  BY <1>1 DEF UserStarts, UserStops, UserStopsBlank, WakeWord, AckFires, DeviceStops
<1>2. CASE \E a \in acks : DevicePlayed(a)
  BY <1>2 DEF DevicePlayed
<1>3. CASE InjectBegins \/ Injected
  BY <1>3 DEF InjectBegins, Injected, InjectResumes, InjectSpeaks, InjectEnds
<1>4. CASE Frames
  BY <1>4 DEF Frames, HandleTurn, TurnResumes, HandleInterrupt, InterruptResumes, HandleDeviceAbort,
     DeviceAbortResumes
<1>5. CASE Replies
  BY <1>5 DEF Replies, ReplyRuns, AgentReady, AgentFails, ReplyDies, ReplySpeaks, ReplyEnds,
     ReplyKilled,
     ReplyTail
<1>6. CASE Commits
  BY <1>6 DEF Commits, Dispatch, CommitOnFinalize, CloseRow, EndRow
<1>7. CASE Ending
  BY <1>7 DEF Ending, Disconnect, FinalizeSession, Cleanup
<1>8. CASE UNCHANGED vars
  BY <1>8 DEF vars
<1> QED BY <1>1, <1>2, <1>3, <1>4, <1>5, <1>6, <1>7, <1>8 DEF Next

(* The steps that are the bridge's, the reply's or the injected line's; no *)
(* other touches what they own, but the end of the session.                *)
LEMMA OwnSteps ==
  ASSUME Kinds, [Next]_vars
  PROVE  \/ UNCHANGED <<frame, reply, pig, device, speaking, event, sid, wordVars, inject>>
         \/ InjectBegins \/ Frames \/ Replies \/ Injected \/ Disconnect \/ Cleanup
<1>1. CASE UserStarts \/ UserStops \/ UserStopsBlank \/ WakeWord \/ AckFires \/ DeviceStops
  BY <1>1 DEF UserStarts, UserStops, UserStopsBlank, WakeWord, AckFires, DeviceStops, stateVars
<1>2. CASE \E a \in acks : DevicePlayed(a)
  BY <1>2 DEF DevicePlayed
<1>3. CASE Commits
  BY <1>3 DEF Commits, Dispatch, CommitOnFinalize, CloseRow, EndRow, stateVars
<1>4. CASE FinalizeSession
  BY <1>4 DEF FinalizeSession, stateVars
<1>5. CASE UNCHANGED vars
  BY <1>5 DEF vars, stateVars
<1> QED BY <1>1, <1>2, <1>3, <1>4, <1>5 DEF Next, Ending

(* No line is injected where none may be.                                  *)
NoLine == Without({"inject"}) => inject.phase = "none"

LEMMA NoLineStep == ASSUME Kinds, NoLine, [Next]_vars PROVE NoLine'
<1>1. CASE Without({"inject"})
  <2>1. inject.phase = "none" /\ "inject" \notin faults
    BY <1>1 DEF NoLine, Without
  <2>2. ~InjectBegins /\ ~Injected
    BY <2>1, InjectBeginsDoes, InjectedDoes
  <2>3. CASE UNCHANGED <<frame, reply, pig, device, speaking, event, sid, wordVars, inject>>
    BY <2>1, <2>3 DEF NoLine
  <2>4. CASE Frames
    BY <2>1, <2>4 DEF NoLine, Frames, HandleTurn, TurnResumes, HandleInterrupt, InterruptResumes,
       HandleDeviceAbort, DeviceAbortResumes
  <2>5. CASE Replies
    BY <2>1, <2>5 DEF NoLine, Replies, ReplyRuns, AgentReady, AgentFails, ReplyDies, ReplySpeaks,
       ReplyEnds, ReplyKilled, ReplyTail
  <2>6. CASE Disconnect
    BY <2>1, <2>6 DEF NoLine, Disconnect
  <2>7. CASE Cleanup
    <3>1. inject \in InjectRows /\ inject' = [inject EXCEPT !.phase = "none"]
      BY <2>7, KindFacts DEF Cleanup
    <3> QED BY <3>1 DEF NoLine, InjectRows
  <2> QED BY <2>2, <2>3, <2>4, <2>5, <2>6, <2>7, OwnSteps
<1>2. CASE ~Without({"inject"})
  BY <1>2, FaultsStay DEF NoLine, Without
<1> QED BY <1>1, <1>2

(* Whoever killed the reply waits for it, knowing whether it spoke; what   *)
(* the device plays is the reply's, or was.                                *)
Flushes == frame # NoFrame /\ (frame.spoke \/ frame.kind = "abort")

SpeakOk ==
  /\ Alive /\ reply.cancelled => frame # NoFrame
  /\ reply.phase = "play" => speaking
  /\ device.playing # 0 => \/ reply.phase = "play" /\ frame = NoFrame
                           \/ reply.phase = "play" /\ Flushes
                           \/ ~Alive /\ Flushes

SpeakInv == NoLine /\ (Without({"inject"}) /\ life = "on" => SpeakOk)

LEMMA SpeakFrames ==
  ASSUME Kinds, SpeakOk, Frames
  PROVE  SpeakOk'
<1>1. CASE HandleTurn
  <2>1. PICK t \in Turns :
         /\ IsNoFrame
         /\ device'.playing = device.playing
         /\ \/ Killed("turn", t) /\ sid' = sid
            \/ ~Alive /\ Starts(t) /\ frame' = frame
         /\ speaking' = speaking
    BY <1>1, HandleTurnDoes
  <2>2. CASE Killed("turn", t)
    BY <2>1, <2>2 DEF SpeakOk, Killed, SameReply, Flushes, Alive, IsNoFrame
  <2>3. CASE ~Alive /\ Starts(t) /\ frame' = frame
    BY <2>1, <2>3 DEF SpeakOk, Starts, Flushes, Alive, IsNoFrame
  <2> QED BY <2>1, <2>2, <2>3
<1>2. CASE TurnResumes
  <2>1. /\ frame.kind = "turn" /\ ~Alive
        /\ frame.spoke => device'.playing = 0
        /\ ~frame.spoke => device' = device
        /\ Starts(frame.t) /\ frame' = NoFrame /\ speaking' = speaking
    BY <1>2, TurnResumesDoes
  <2> QED BY <2>1 DEF SpeakOk, Starts, Flushes, Alive
<1>3. CASE HandleInterrupt
  <2>1. /\ IsNoFrame
        /\ \/ Killed("interrupt", 0) /\ UNCHANGED <<device, speaking, cursid>>
           \/ ~Alive /\ Aborted(speaking) /\ UNCHANGED <<event, reply, frame>>
    BY <1>3, HandleInterruptDoes
  <2>2. CASE Killed("interrupt", 0) /\ UNCHANGED <<device, speaking, cursid>>
    BY <2>1, <2>2 DEF SpeakOk, Killed, SameReply, Flushes, Alive, IsNoFrame
  <2>3. CASE ~Alive /\ Aborted(speaking) /\ UNCHANGED <<event, reply, frame>>
    BY <2>1, <2>3, SilentFacts DEF SpeakOk, Aborted, Flushes, Alive, IsNoFrame
  <2> QED BY <2>1, <2>2, <2>3
<1>4. CASE InterruptResumes
  <2>1. frame.kind = "interrupt" /\ ~Alive /\ AbortedBy(frame.spoke) /\ frame' = NoFrame /\ reply' = reply
    BY <1>4, InterruptResumesDoes
  <2> QED BY <2>1 DEF SpeakOk, AbortedBy, Flushes, Alive
<1>5. CASE HandleDeviceAbort
  <2>1. /\ IsNoFrame
        /\ \/ Killed("abort", 0) /\ UNCHANGED <<device, speaking, cursid>>
           \/ ~Alive /\ DeviceAborted /\ UNCHANGED <<reply, frame>>
    BY <1>5, HandleDeviceAbortDoes
  <2>2. CASE Killed("abort", 0) /\ UNCHANGED <<device, speaking, cursid>>
    BY <2>1, <2>2 DEF SpeakOk, Killed, SameReply, Flushes, Alive, IsNoFrame
  <2>3. CASE ~Alive /\ DeviceAborted /\ UNCHANGED <<reply, frame>>
    BY <2>1, <2>3, SilentFacts DEF SpeakOk, DeviceAborted, Alive
  <2> QED BY <2>1, <2>2, <2>3
<1>6. CASE DeviceAbortResumes
  BY <1>6, DeviceAbortResumesDoes, SilentFacts DEF SpeakOk, DeviceAborted, Alive
<1> QED BY <1>1, <1>2, <1>3, <1>4, <1>5, <1>6 DEF Frames

LEMMA SpeakReplies ==
  ASSUME Kinds, SpeakOk, Replies
  PROVE  SpeakOk'
<1>1. frame # NoFrame /\ Alive => reply.cancelled
  BY DEF Kinds, TypeOK
<1>2. CASE ReplyRuns
  BY <1>2, ReplyRunsDoes DEF SpeakOk, Flushes, Alive, stateVars
<1>3. CASE AgentReady
  BY <1>3, AgentReadyDoes DEF SpeakOk, Flushes, Alive, stateVars
<1>4. CASE AgentFails
  BY <1>4, AgentFailsDoes, NoReplyFacts DEF SpeakOk, Alive
<1>5. CASE ReplyDies
  BY <1>5, NoReplyFacts DEF ReplyDies, SpeakOk, Flushes, Alive, stateVars
<1>6. CASE ReplySpeaks
  BY <1>1, <1>6, ReplySpeaksDoes DEF SpeakOk, Alive
<1>7. CASE ReplyEnds
  BY <1>7, ReplyEndsDoes DEF SpeakOk, Alive
<1>8. CASE ReplyKilled
  BY <1>8, ReplyKilledDoes, NoReplyFacts DEF SpeakOk, Flushes, Alive
<1>9. CASE ReplyTail
  BY <1>9, NoReplyFacts DEF ReplyTail, SpeakOk, Flushes, Alive
<1> QED BY <1>2, <1>3, <1>4, <1>5, <1>6, <1>7, <1>8, <1>9 DEF Replies

LEMMA SpeakStep == ASSUME Kinds, SpeakInv, [Next]_vars PROVE SpeakInv'
<1>1. NoLine'
  BY NoLineStep DEF SpeakInv
<1>2. ASSUME Without({"inject"})', life' = "on" PROVE SpeakOk'
  <2>1. Without({"inject"}) /\ life = "on"
    BY <1>2, FaultsStay, LifeEnds DEF Without
  <2>2. SpeakOk /\ inject.phase = "none" /\ "inject" \notin faults
    BY <2>1 DEF SpeakInv, NoLine, Without
  <2>3. ~InjectBegins /\ ~Injected
    BY <2>2, InjectBeginsDoes, InjectedDoes
  <2>4. ~Disconnect /\ ~Cleanup
    BY <1>2, DisconnectDoes, CleanupDoes
  <2>5. CASE UNCHANGED <<frame, reply, pig, device, speaking, event, sid, wordVars, inject>>
    BY <2>2, <2>5 DEF SpeakOk, Flushes, Alive
  <2> QED BY <2>2, <2>3, <2>4, <2>5, OwnSteps, SpeakFrames, SpeakReplies
<1> QED BY <1>1, <1>2 DEF SpeakInv

LEMMA SpeakInit == Init => SpeakInv
BY SilentFacts, NoReplyFacts DEF Init, SpeakInv, NoLine, SpeakOk, Alive

(* Nothing starts to play over something else: only a reply that speaks    *)
(* starts, and it is not played yet.                                       *)
LEMMA OnlyReplySpeaks ==
  ASSUME Kinds, SpeakInv, [Next]_vars, Without({"inject"}), life = "on",
         device'.playing # device.playing, device.playing # 0
  PROVE  device'.playing = 0
<1>1. SpeakOk /\ inject.phase = "none" /\ "inject" \notin faults
  BY DEF SpeakInv, NoLine, Without
<1>2. ~InjectBegins /\ ~Injected
  BY <1>1, InjectBeginsDoes, InjectedDoes
<1>3. CASE UNCHANGED <<frame, reply, pig, device, speaking, event, sid, wordVars, inject>>
  BY <1>3
<1>4. CASE Disconnect \/ Cleanup
  BY <1>4, DisconnectDoes, CleanupDoes
<1>5. CASE Frames
  <2>1. CASE HandleTurn
    BY <2>1, HandleTurnDoes
  <2>2. CASE TurnResumes
    BY <2>2, TurnResumesDoes
  <2>3. CASE HandleInterrupt
    BY <2>3, HandleInterruptDoes, SilentFacts DEF Aborted
  <2>4. CASE InterruptResumes
    BY <2>4, InterruptResumesDoes, KindFacts DEF AbortedBy, FrameRows
  <2>5. CASE HandleDeviceAbort
    BY <2>5, HandleDeviceAbortDoes, SilentFacts DEF DeviceAborted
  <2>6. CASE DeviceAbortResumes
    BY <2>6, DeviceAbortResumesDoes, SilentFacts DEF DeviceAborted
  <2> QED BY <1>5, <2>1, <2>2, <2>3, <2>4, <2>5, <2>6 DEF Frames
<1>6. CASE Replies
  <2>1. CASE ReplySpeaks
    BY <1>1, <2>1, ReplySpeaksDoes DEF SpeakOk, Alive
  <2>2. CASE AgentFails \/ ReplyEnds
    BY <2>2, AgentFailsDoes, ReplyEndsDoes
  <2>3. CASE ReplyRuns \/ AgentReady \/ ReplyDies \/ ReplyKilled \/ ReplyTail
    BY <2>3 DEF ReplyRuns, AgentReady, ReplyDies, ReplyKilled, ReplyTail
  <2> QED BY <1>6, <2>1, <2>2, <2>3 DEF Replies
<1> QED BY <1>2, <1>3, <1>4, <1>5, <1>6, OwnSteps

-----------------------------------------------------------------------------
(* The pause of the device: there is something that will release it.       *)
Coming == user.talking \/ gate # {} \/ TurnsIn(queue) # {}

PauseOk ==
  /\ device.paused => \/ Coming
                      \/ frame.kind \in {"turn", "abort"}
                      \/ Alive /\ reply.phase # "tail" /\ ~reply.cancelled
  /\ frame.kind = "interrupt" => Coming
  /\ user.talking \/ gate # {} \/ Backed(queue)

PauseInv == Without({"blank", "inject"}) /\ life = "on" => PauseOk

LEMMA PauseUser ==
  ASSUME Kinds, PauseOk, "blank" \notin faults, life' = "on",
         \/ UserStarts \/ UserStops \/ UserStopsBlank \/ WakeWord \/ AckFires
         \/ DeviceStops \/ (\E a \in acks : DevicePlayed(a)) \/ Commits \/ Ending
  PROVE  PauseOk'
<1>1. CASE UserStarts
  BY <1>1, UserStartsDoes DEF PauseOk, Coming, Alive
<1>2. CASE UserStops
  <2>1. gate' # {}
    BY <1>2, UserStopsDoes, OpenRowDoes
  <2> QED BY <1>2, <2>1, UserStopsDoes DEF PauseOk, Coming
<1>3. ~UserStopsBlank
  BY UserStopsBlankDoes
<1>4. CASE WakeWord
  BY <1>4, WakeWordDoes DEF PauseOk, Coming, Alive
<1>5. CASE AckFires
  <2>1. gate' # {}
    BY <1>5, AckFiresDoes, OpenRowDoes
  <2> QED BY <1>5, <2>1, AckFiresDoes DEF PauseOk, Coming
<1>6. CASE DeviceStops
  BY <1>6, DeviceStopsDoes, ZeroIsNoTurn DEF PauseOk, Coming, Alive, Joins, userVars
<1>7. CASE \E a \in acks : DevicePlayed(a)
  BY <1>7 DEF DevicePlayed, PauseOk, Coming, Alive, userVars
<1>8. ASSUME NEW t \in Turns, Dispatch(t) PROVE PauseOk'
  <2>1. TurnsIn(queue') # {} /\ Backed(queue')
    BY <1>8, DispatchDoes DEF Joins
  <2> QED BY <1>8, <2>1, DispatchDoes DEF PauseOk, Coming
<1>9. ASSUME NEW t \in Turns, CommitOnFinalize(t) \/ CloseRow(t) \/ EndRow(t) PROVE PauseOk'
  BY <1>9 DEF CommitOnFinalize, CloseRow, EndRow, PauseOk, Coming, Alive, userVars
<1>10. ~Ending
  BY DEF Ending, Disconnect, FinalizeSession, Cleanup
<1> QED BY <1>1, <1>2, <1>3, <1>4, <1>5, <1>6, <1>7, <1>8, <1>9, <1>10 DEF Commits

LEMMA PauseFrames ==
  ASSUME Kinds, PauseOk, Frames
  PROVE  PauseOk'
<1>1. CASE HandleTurn
  <2>1. PICK t \in Turns :
         /\ IsNoFrame
         /\ Leaves(queue, queue', "turn", t)
         /\ \/ Killed("turn", t) /\ sid' = sid
            \/ ~Alive /\ Starts(t) /\ frame' = frame
         /\ UNCHANGED <<userVars, rowVars, pig, speaking, cursid, played, acks, wordVars, inject, life>>
    BY <1>1, HandleTurnDoes
  <2>2. user.talking' \/ gate' # {} \/ Backed(queue')
    BY <2>1 DEF PauseOk, Leaves, userVars
  <2>3. CASE Killed("turn", t)
    BY <2>2, <2>3 DEF PauseOk, Killed
  <2>4. CASE ~Alive /\ Starts(t) /\ frame' = frame
    BY <2>1, <2>2, <2>4, NoFrameFacts DEF PauseOk, Starts, Alive, IsNoFrame
  <2> QED BY <2>1, <2>3, <2>4
<1>2. CASE TurnResumes
  BY <1>2, TurnResumesDoes, NoFrameFacts DEF PauseOk, Starts, Alive, userVars
<1>3. CASE HandleInterrupt
  <2>1. /\ IsNoFrame
        /\ Leaves(queue, queue', "interrupt", 0)
        /\ \/ Killed("interrupt", 0) /\ UNCHANGED <<device, speaking, cursid>>
           \/ ~Alive /\ Aborted(speaking) /\ UNCHANGED <<event, reply, frame>>
        /\ UNCHANGED userVars
    BY <1>3, HandleInterruptDoes
  <2>2. Coming'
    BY <2>1 DEF PauseOk, Coming, Leaves, userVars
  <2>3. user.talking' \/ gate' # {} \/ Backed(queue')
    BY <2>1 DEF PauseOk, Leaves, userVars
  <2> QED BY <2>2, <2>3 DEF PauseOk
<1>4. CASE InterruptResumes
  <2>1. frame.kind = "interrupt" /\ frame' = NoFrame /\ UNCHANGED <<userVars, queue>>
    BY <1>4, InterruptResumesDoes
  <2>2. Coming'
    BY <2>1 DEF PauseOk, Coming, userVars
  <2> QED BY <2>1, <2>2 DEF PauseOk, userVars
<1>5. CASE HandleDeviceAbort
  <2>1. /\ IsNoFrame
        /\ Leaves(queue, queue', "abort", 0)
        /\ \/ Killed("abort", 0) /\ UNCHANGED <<device, speaking, cursid>>
           \/ ~Alive /\ DeviceAborted /\ UNCHANGED <<reply, frame>>
        /\ UNCHANGED userVars
    BY <1>5, HandleDeviceAbortDoes
  <2>2. user.talking' \/ gate' # {} \/ Backed(queue')
    BY <2>1 DEF PauseOk, Leaves, userVars
  <2>3. CASE Killed("abort", 0)
    BY <2>2, <2>3 DEF PauseOk, Killed
  <2>4. CASE ~Alive /\ DeviceAborted /\ UNCHANGED <<reply, frame>>
    BY <2>1, <2>2, <2>4, NoFrameFacts, SilentFacts DEF PauseOk, DeviceAborted, IsNoFrame
  <2> QED BY <2>1, <2>3, <2>4
<1>6. CASE DeviceAbortResumes
  BY <1>6, DeviceAbortResumesDoes, SilentFacts, NoFrameFacts DEF PauseOk, DeviceAborted, userVars
<1> QED BY <1>1, <1>2, <1>3, <1>4, <1>5, <1>6 DEF Frames

(* A reply that dies was killed for a frame, which knows what is coming.   *)
LEMMA PauseReplies ==
  ASSUME Kinds, SpeakOk, PauseOk, Replies
  PROVE  PauseOk'
<1>1. CASE ReplyRuns
  BY <1>1, ReplyRunsDoes DEF PauseOk, Coming, Alive, userVars
<1>2. CASE AgentReady
  BY <1>2, AgentReadyDoes DEF PauseOk, Coming, Alive, userVars
<1>3. CASE AgentFails
  BY <1>3, AgentFailsDoes DEF PauseOk, Coming, userVars
<1>4. CASE ReplyDies \/ ReplyKilled
  <2>1. Alive /\ reply.cancelled /\ UNCHANGED <<userVars, queue, frame, device>>
    BY <1>4 DEF ReplyDies, ReplyKilled, Alive
  <2>2. frame.kind \in {"turn", "abort"} \/ Coming
    <3>1. frame # NoFrame /\ frame \in FrameRows /\ frame.kind # "none"
      BY <2>1, KindFacts DEF SpeakOk, Kinds
    <3>2. frame.kind \in {"turn", "interrupt", "abort"}
      BY <3>1 DEF FrameRows, Kind
    <3> QED BY <3>2 DEF PauseOk
  <2> QED BY <2>1, <2>2 DEF PauseOk, Coming, userVars
<1>5. CASE ReplySpeaks
  BY <1>5, ReplySpeaksDoes DEF PauseOk, Coming, Alive, userVars
<1>6. CASE ReplyEnds
  BY <1>6, ReplyEndsDoes DEF PauseOk, Coming, userVars
<1>7. CASE ReplyTail
  BY <1>7 DEF ReplyTail, PauseOk, Coming, Alive, userVars
<1> QED BY <1>1, <1>2, <1>3, <1>4, <1>5, <1>6, <1>7 DEF Replies

LEMMA PauseStep == ASSUME Kinds, SpeakInv, PauseInv, [Next]_vars PROVE PauseInv'
<1> SUFFICES ASSUME Without({"blank", "inject"})', life' = "on" PROVE PauseOk'
  BY DEF PauseInv
<1>1. Without({"blank", "inject"}) /\ Without({"inject"}) /\ life = "on"
  BY FaultsStay, LifeEnds DEF Without
<1>2. PauseOk /\ SpeakOk /\ inject.phase = "none" /\ "inject" \notin faults /\ "blank" \notin faults
  BY <1>1 DEF PauseInv, SpeakInv, NoLine, Without
<1>3. ~InjectBegins /\ ~Injected
  BY <1>2, InjectBeginsDoes, InjectedDoes
<1>4. CASE UNCHANGED vars
  BY <1>2, <1>4 DEF vars, userVars, PauseOk, Coming, Alive
<1> QED BY <1>2, <1>3, <1>4, PauseUser, PauseFrames, PauseReplies DEF Next

LEMMA PauseInit == Init => PauseInv
BY SilentFacts, NoFrameFacts, NothingQueued DEF Init, PauseInv, PauseOk, Coming

LEMMA SpeechHolds == ASSUME Kinds, SpeakInv, PauseInv PROVE SpeechStateRight
<1>1. SpeakingKnown
  BY DEF SpeakInv, SpeakOk, SpeakingKnown, Flushes
<1>2. PauseReleasedUnlessCut
  <2> SUFFICES ASSUME Without({"blank", "inject"}), life = "on", Quiet PROVE ~device.paused
    BY DEF PauseReleasedUnlessCut, PauseReleased
  <2>1. ~Alive /\ queue = <<>> /\ frame = NoFrame /\ gate = {} /\ ~user.talking
    BY DEF Quiet
  <2>2. ~Coming
    BY <2>1, NothingQueued DEF Coming
  <2> QED BY <2>1, <2>2, NoFrameFacts DEF PauseInv, PauseOk
<1> QED BY <1>1, <1>2 DEF SpeechStateRight

Speech == Kinds /\ SpeakInv /\ PauseInv

LEMMA SpeechStep == Speech /\ [Next]_vars => Speech'
BY KindsStep, SpeakStep, PauseStep DEF Speech

(* Without injected lines, whatever the device plays the session knows, or *)
(* the frame at hand does, so that the next interruption flushes it; and   *)
(* once nothing goes on any more the device is not left paused, unless the *)
(* user said nothing (tts_bridge.py:272-276, 533-560, 803-809).            *)
THEOREM SpeechIsKnown == Spec => []SpeechStateRight
<1>1. Init => Speech
  BY KindsInit, SpeakInit, PauseInit DEF Speech
<1>2. Speech => SpeechStateRight
  BY SpeechHolds DEF Speech
<1> QED BY <1>1, <1>2, SpeechStep, PTL DEF Spec

(* Without injected lines the device starts to play a reply only when it   *)
(* plays nothing else: whoever starts one has waited for the one before    *)
(* and told the device to stop (tts_bridge.py:272-300, 533-560).           *)
THEOREM NothingOverlaps == Spec => NoOverlap
<1>1. Init => Speech
  BY KindsInit, SpeakInit, PauseInit DEF Speech
<1>2. Speech /\ [Next]_vars =>
        [Without({"inject"}) /\ life = "on" /\ device'.playing # device.playing
           => device.playing = 0 \/ device'.playing = 0]_vars
  BY OnlyReplySpeaks DEF Speech
<1> QED BY <1>1, <1>2, SpeechStep, PTL DEF Spec, NoOverlap

-----------------------------------------------------------------------------
(* The rows.  Without a wake word or a user who runs ahead there is one    *)
(* turn at a time from the observer to the end of its reply.               *)
Cur == next - 1

OneTurn ==
  /\ ~ack
  /\ gate \subseteq {Cur}
  /\ TurnsIn(queue) \subseteq {Cur}
  /\ frame.kind = "turn" => frame.t = Cur
  /\ Alive => reply.t = Cur
  /\ reply.row \in {0, Cur}
  /\ slot \in {0, Cur}

(* While the user speaks no turn is on its way, and the reply before has   *)
(* been interrupted, or is about to be.                                    *)
Listening ==
  life = "on" /\ user.talking =>
    /\ gate = {}
    /\ TurnsIn(queue) = {}
    /\ frame.kind # "turn"
    /\ Alive => frame # NoFrame \/ Breaks(queue)

Texts(rs) ==
  \A t \in Turns : /\ rs[t].st \notin Landed => ~rs[t].late
                   /\ rs[t].st \in Landed => rs[t].final
                   /\ rs[t].final /\ ~rs[t].late => rs[t].text = t

HasText(rs, r, t) == r # 0 /\ rs[r].st \notin Landed => rs[r].text = t

RowTexts ==
  /\ Texts(rows)
  /\ reply.phase \in {"gen", "play"} => HasText(rows, reply.row, reply.t)

(* A line that was injected is told of without a sentence_id. *)
Plays(rs) == \A t \in Turns : rs[t].played \in {0, t, Inject}

Tells(a, s, c) ==
  \/ a[1] = 0 /\ a[2] = Inject
  \/ a[1] > 0 /\ a[1] <= s /\ (a[1] = c => a[2] = Cur)

Playbacks ==
  /\ Plays(rows)
  /\ played \in {0, Cur, Inject}
  /\ \A a \in acks : Tells(a, sid, cursid)
  /\ Alive => reply.sid > 0 /\ reply.sid <= sid
  /\ reply.phase \in {"new", "agent", "gen"} => \A a \in acks : a[1] < reply.sid

Simple == "wake" \notin faults /\ "lag" \notin faults

Named  == "bare" \notin faults

RowInv == Simple => OneTurn /\ Listening /\ RowTexts /\ (Named => Playbacks)

LEMMA HeardOwn ==
  ASSUME NEW rs \in [Turns -> RowRows], NEW r \in 0..TurnCount, NEW t \in Turns, r \in {0, t}
  PROVE  /\ Texts(rs) => Texts(Heard(rs, r, t))
         /\ Plays(rs) => Plays(Heard(rs, r, t))
         /\ HasText(Heard(rs, r, t), r, t)
<1> DEFINE hs == Heard(rs, r, t)
<1>1. /\ \A u \in Turns : u # r => hs[u] = rs[u]
      /\ \A u \in Turns : /\ hs[u].st = rs[u].st
                          /\ hs[u].final = rs[u].final
                          /\ hs[u].late = rs[u].late
                          /\ hs[u].played = rs[u].played
                          /\ rs[u].st \in Landed => hs[u] = rs[u]
      /\ r # 0 /\ rs[r].st \notin Landed => hs[r].text = t
  BY HeardRows
<1> HIDE DEF hs
<1>2. HasText(hs, r, t)
  BY <1>1 DEF HasText
<1>3. ASSUME Texts(rs) PROVE Texts(hs)
  <2>1. ASSUME NEW u \in Turns, hs[u].final, ~hs[u].late PROVE hs[u].text = u
    <3>1. rs[u].text = u
      BY <1>1, <1>3, <2>1 DEF Texts
    <3>2. CASE u = r /\ rs[r].st \notin Landed
      BY <1>1, <3>2, ZeroIsNoTurn
    <3> QED BY <1>1, <3>1, <3>2
  <2>2. ASSUME NEW u \in Turns
        PROVE  (hs[u].st \notin Landed => ~hs[u].late) /\ (hs[u].st \in Landed => hs[u].final)
    BY <1>1, <1>3 DEF Texts
  <2> QED BY <2>1, <2>2 DEF Texts
<1>4. ASSUME Plays(rs) PROVE Plays(hs)
  BY <1>1, <1>4 DEF Plays
<1> QED BY <1>2, <1>3, <1>4 DEF hs

LEMMA FinalOwn ==
  ASSUME NEW rs \in [Turns -> RowRows], NEW r \in 0..TurnCount, NEW t \in Turns, r \in {0, t},
         played \in 0..Inject
  PROVE  /\ Texts(rs) /\ HasText(rs, r, t) => Texts(Finalized(rs, r))
         /\ Plays(rs) /\ played \in {0, t, Inject} => Plays(Finalized(rs, r))
<1> DEFINE fs == Finalized(rs, r)
<1>1. /\ \A u \in Turns : u # r => fs[u] = rs[u]
      /\ \A u \in Turns : /\ fs[u].st = rs[u].st
                          /\ fs[u].text = rs[u].text
                          /\ fs[u].late = rs[u].late
                          /\ fs[u].played \in {rs[u].played, played}
                          /\ rs[u].final => fs[u].final
                          /\ rs[u].st \in Landed => fs[u] = rs[u]
  BY FinalizedRows
<1> HIDE DEF fs
<1>2. ASSUME Texts(rs), HasText(rs, r, t) PROVE Texts(fs)
  <2>1. ASSUME NEW u \in Turns, fs[u].final, ~fs[u].late PROVE fs[u].text = u
    <3>1. CASE u = r /\ rs[r].st \notin Landed
      BY <1>1, <1>2, <3>1, ZeroIsNoTurn DEF HasText
    <3>2. CASE u # r \/ rs[u].st \in Landed
      BY <1>1, <1>2, <2>1, <3>2 DEF Texts
    <3> QED BY <3>1, <3>2
  <2>2. ASSUME NEW u \in Turns
        PROVE  (fs[u].st \notin Landed => ~fs[u].late) /\ (fs[u].st \in Landed => fs[u].final)
    BY <1>1, <1>2 DEF Texts
  <2> QED BY <2>1, <2>2 DEF Texts
<1>3. ASSUME Plays(rs), played \in {0, t, Inject} PROVE Plays(fs)
  <2>1. ASSUME NEW u \in Turns PROVE fs[u].played \in {0, u, Inject}
    <3>1. CASE u = r
      BY <1>1, <1>3, <3>1, ZeroIsNoTurn DEF Plays
    <3>2. CASE u # r
      BY <1>1, <1>3, <3>2 DEF Plays
    <3> QED BY <3>1, <3>2
  <2> QED BY <2>1 DEF Plays
<1> QED BY <1>2, <1>3 DEF fs

LEMMA SameOwn ==
  ASSUME NEW rs, NEW ps, \A t \in Turns : SameMarks(ps[t], rs[t])
  PROVE  /\ Texts(rs) => Texts(ps)
         /\ Plays(rs) => Plays(ps)
         /\ \A r \in 0..TurnCount, t \in Turns : HasText(rs, r, t) => HasText(ps, r, t)
<1>1. \A r \in 0..TurnCount : r # 0 => r \in Turns
  BY Counts DEF Turns
<1> QED BY <1>1 DEF Texts, Plays, HasText, SameMarks

LEMMA LandsOwn ==
  ASSUME Kinds, NEW u \in Turns, Lands(u)
  PROVE  /\ Texts(rows) => Texts(rows')
         /\ Plays(rows) => Plays(rows')
         /\ \A r \in 0..TurnCount, t \in Turns : HasText(rows, r, t) => HasText(rows', r, t)
<1>1. \A r \in 0..TurnCount : r # 0 => r \in Turns
  BY Counts DEF Turns
<1>2. Texts(rows) => Texts(rows')
  BY DEF Lands, Texts
<1>3. Plays(rows) => Plays(rows')
  BY DEF Lands, Plays
<1>4. ASSUME NEW r \in 0..TurnCount, NEW t \in Turns, HasText(rows, r, t) PROVE HasText(rows', r, t)
  BY <1>1, <1>4 DEF Lands, HasText
<1> QED BY <1>2, <1>3, <1>4

(* When the user stops, what went before is over. *)
LEMMA SettledBefore ==
  ASSUME Kinds, Simple, OneTurn, Listening, UserStops
  PROVE  /\ gate = {} /\ TurnsIn(queue) = {} /\ frame = NoFrame
         /\ reply = NoReply
         /\ ~Alive
         /\ Cur' = next
<1>1. queue = <<>> /\ frame = NoFrame /\ gate = {} /\ life = "on" /\ user.talking
  BY UserStopsDoes DEF KeepsUp, Simple
<1>2. TurnsIn(queue) = {} /\ ~Breaks(queue)
  BY <1>1, NothingQueued
<1>3. ~Alive
  BY <1>1, <1>2 DEF Listening
<1>4. reply = NoReply
  BY <1>3 DEF Kinds
<1>5. next' = next + 1 /\ next \in Nat
  BY UserStopsDoes, OpenRowDoes, KindFacts
<1>6. Cur' = next
  BY <1>5 DEF Cur
<1> QED BY <1>1, <1>2, <1>3, <1>4, <1>6

LEMMA OneSame ==
  ASSUME OneTurn, ack' = ack, next' = next, gate' = gate, TurnsIn(queue') = TurnsIn(queue),
         frame' = frame \/ frame' = NoFrame,
         Alive' => Alive /\ reply'.t = reply.t,
         reply'.row \in {0, reply.row, slot}, slot' \in {0, slot}
  PROVE  OneTurn'
<1>1. Cur' = Cur
  BY DEF Cur
<1> QED BY <1>1, NoFrameFacts DEF OneTurn

LEMMA OneStep == ASSUME Kinds, Simple, OneTurn, Listening, [Next]_vars PROVE OneTurn'
<1>0. ~WakeWord /\ ~AckFires
  BY WakeWordDoes, AckFiresDoes DEF Simple, OneTurn
<1>1. CASE UserStarts
  BY <1>1, UserStartsDoes, ZeroIsNoTurn DEF OneTurn, Cur, Joins, rowVars, Alive
<1>2. CASE UserStops
  <2>1. gate = {} /\ TurnsIn(queue) = {} /\ frame = NoFrame /\ reply = NoReply /\ Cur' = next
    BY <1>2, SettledBefore
  <2>2. ack' = FALSE /\ slot' = next /\ gate' = gate \cup {next} /\ UNCHANGED <<queue, frame, reply>>
    BY <1>2, UserStopsDoes, OpenRowDoes
  <2> QED BY <2>1, <2>2, NoFrameFacts, NoReplyFacts DEF OneTurn, Alive
<1>3. CASE UserStopsBlank
  BY <1>3, UserStopsBlankDoes DEF OneTurn, Cur, Alive
<1>4. CASE DeviceStops
  <2>1. UNCHANGED <<ack, next, gate>> /\ TurnsIn(queue') = TurnsIn(queue) /\ frame' \in {frame, NoFrame}
    BY <1>4, DeviceStopsDoes, ZeroIsNoTurn DEF userVars, Joins
  <2>2. (Alive' => Alive /\ reply'.t = reply.t) /\ reply'.row \in {0, reply.row, slot} /\ slot' \in {0, slot}
    BY <1>4, DeviceStopsDoes DEF SameReply, Alive, rowVars
  <2> QED BY <2>1, <2>2, OneSame
<1>5. CASE \E a \in acks : DevicePlayed(a)
  BY <1>5, DevicePlayedDoes DEF OneTurn, Cur, userVars, rowVars, Alive
<1>6. CASE InjectBegins
  <2>1. UNCHANGED <<ack, next, gate>> /\ TurnsIn(queue') = TurnsIn(queue) /\ frame' \in {frame, NoFrame}
    BY <1>6, InjectBeginsDoes DEF userVars, Joins
  <2>2. (Alive' => Alive /\ reply'.t = reply.t) /\ reply'.row \in {0, reply.row, slot} /\ slot' \in {0, slot}
    BY <1>6, InjectBeginsDoes DEF SameReply, Alive, rowVars
  <2> QED BY <2>1, <2>2, OneSame
<1>7. CASE Injected
  <2>1. UNCHANGED <<ack, next, gate>> /\ TurnsIn(queue') = TurnsIn(queue) /\ frame' \in {frame, NoFrame}
    BY <1>7, InjectedDoes DEF userVars, Joins
  <2>2. (Alive' => Alive /\ reply'.t = reply.t) /\ reply'.row \in {0, reply.row, slot} /\ slot' \in {0, slot}
    BY <1>7, InjectedDoes DEF SameReply, Alive, rowVars
  <2> QED BY <2>1, <2>2, OneSame
<1>8. CASE HandleTurn
  <2>1. PICK t \in Turns :
         /\ t \in TurnsIn(queue)
         /\ Leaves(queue, queue', "turn", t)
         /\ \/ Killed("turn", t) /\ sid' = sid
            \/ ~Alive /\ Starts(t) /\ frame' = frame
         /\ UNCHANGED <<userVars, rowVars>>
    BY <1>8, HandleTurnDoes
  <2>2. t = Cur
    BY <2>1 DEF OneTurn
  <2>3. ~ack' /\ gate' \subseteq {Cur} /\ Cur' = Cur /\ slot' \in {0, Cur} /\ TurnsIn(queue') \subseteq {Cur}
    BY <2>1 DEF OneTurn, Leaves, userVars, rowVars, Cur
  <2>4. CASE Killed("turn", t)
    BY <2>2, <2>3, <2>4 DEF OneTurn, Killed, SameReply, Alive
  <2>5. CASE ~Alive /\ Starts(t) /\ frame' = frame
    BY <2>2, <2>3, <2>5 DEF OneTurn, Starts, Alive
  <2> QED BY <2>1, <2>4, <2>5
<1>9. CASE TurnResumes
  <2>1. frame.kind = "turn" /\ Starts(frame.t) /\ frame' = NoFrame /\ UNCHANGED <<userVars, rowVars, queue>>
    BY <1>9, TurnResumesDoes
  <2> QED BY <2>1, NoFrameFacts DEF OneTurn, Starts, Cur, userVars, rowVars, Alive
<1>10. CASE HandleInterrupt
  <2>1. /\ Leaves(queue, queue', "interrupt", 0)
        /\ \/ Killed("interrupt", 0)
           \/ UNCHANGED <<reply, frame>>
        /\ UNCHANGED <<userVars, rowVars>>
    BY <1>10, HandleInterruptDoes
  <2>2. ~ack' /\ gate' \subseteq {Cur} /\ Cur' = Cur /\ slot' \in {0, Cur} /\ TurnsIn(queue') \subseteq {Cur}
    BY <2>1 DEF OneTurn, Leaves, userVars, rowVars, Cur
  <2> QED BY <2>1, <2>2 DEF OneTurn, Killed, SameReply, Alive
<1>11. CASE InterruptResumes
  <2>1. UNCHANGED <<ack, next, gate>> /\ TurnsIn(queue') = TurnsIn(queue) /\ frame' \in {frame, NoFrame}
    BY <1>11, InterruptResumesDoes DEF userVars, Joins
  <2>2. (Alive' => Alive /\ reply'.t = reply.t) /\ reply'.row \in {0, reply.row, slot} /\ slot' \in {0, slot}
    BY <1>11, InterruptResumesDoes DEF SameReply, Alive, rowVars
  <2> QED BY <2>1, <2>2, OneSame
<1>12. CASE HandleDeviceAbort
  <2>1. /\ Leaves(queue, queue', "abort", 0)
        /\ \/ Killed("abort", 0)
           \/ UNCHANGED <<reply, frame>>
        /\ UNCHANGED <<userVars, rowVars>>
    BY <1>12, HandleDeviceAbortDoes
  <2>2. ~ack' /\ gate' \subseteq {Cur} /\ Cur' = Cur /\ slot' \in {0, Cur} /\ TurnsIn(queue') \subseteq {Cur}
    BY <2>1 DEF OneTurn, Leaves, userVars, rowVars, Cur
  <2> QED BY <2>1, <2>2 DEF OneTurn, Killed, SameReply, Alive
<1>13. CASE DeviceAbortResumes
  <2>1. UNCHANGED <<ack, next, gate>> /\ TurnsIn(queue') = TurnsIn(queue) /\ frame' \in {frame, NoFrame}
    BY <1>13, DeviceAbortResumesDoes DEF userVars, Joins
  <2>2. (Alive' => Alive /\ reply'.t = reply.t) /\ reply'.row \in {0, reply.row, slot} /\ slot' \in {0, slot}
    BY <1>13, DeviceAbortResumesDoes DEF SameReply, Alive, rowVars
  <2> QED BY <2>1, <2>2, OneSame
<1>14. CASE ReplyRuns
  <2>1. UNCHANGED <<ack, next, gate>> /\ TurnsIn(queue') = TurnsIn(queue) /\ frame' \in {frame, NoFrame}
    BY <1>14, ReplyRunsDoes DEF userVars, Joins
  <2>2. (Alive' => Alive /\ reply'.t = reply.t) /\ reply'.row \in {0, reply.row, slot} /\ slot' \in {0, slot}
    BY <1>14, ReplyRunsDoes DEF SameReply, Alive, rowVars
  <2> QED BY <2>1, <2>2, OneSame
<1>15. CASE AgentReady
  <2>1. UNCHANGED <<ack, next, gate>> /\ TurnsIn(queue') = TurnsIn(queue) /\ frame' \in {frame, NoFrame}
    BY <1>15, AgentReadyDoes DEF userVars, Joins
  <2>2. (Alive' => Alive /\ reply'.t = reply.t) /\ reply'.row \in {0, reply.row, slot} /\ slot' \in {0, slot}
    BY <1>15, AgentReadyDoes DEF SameReply, Alive, rowVars
  <2> QED BY <2>1, <2>2, OneSame
<1>16. CASE AgentFails \/ ReplyDies \/ ReplyKilled \/ ReplyTail
  <2>1. reply' = NoReply /\ UNCHANGED <<userVars, slot, queue, frame>>
    BY <1>16 DEF AgentFails, ReplyDies, ReplyKilled, ReplyTail, rowVars
  <2> QED BY <2>1, NoReplyFacts DEF OneTurn, Cur, userVars, Alive
<1>17. CASE ReplySpeaks
  <2>1. UNCHANGED <<ack, next, gate>> /\ TurnsIn(queue') = TurnsIn(queue) /\ frame' \in {frame, NoFrame}
    BY <1>17, ReplySpeaksDoes DEF userVars, Joins
  <2>2. (Alive' => Alive /\ reply'.t = reply.t) /\ reply'.row \in {0, reply.row, slot} /\ slot' \in {0, slot}
    BY <1>17, ReplySpeaksDoes DEF SameReply, Alive, rowVars
  <2> QED BY <2>1, <2>2, OneSame
<1>18. CASE ReplyEnds
  <2>1. UNCHANGED <<ack, next, gate>> /\ TurnsIn(queue') = TurnsIn(queue) /\ frame' \in {frame, NoFrame}
    BY <1>18, ReplyEndsDoes DEF userVars, Joins
  <2>2. (Alive' => Alive /\ reply'.t = reply.t) /\ reply'.row \in {0, reply.row, slot} /\ slot' \in {0, slot}
    BY <1>18, ReplyEndsDoes DEF SameReply, Alive, rowVars
  <2> QED BY <2>1, <2>2, OneSame
<1>19. ASSUME NEW t \in Turns, Dispatch(t) PROVE OneTurn'
  BY <1>19, DispatchDoes DEF OneTurn, Cur, Joins, rowVars, Alive
<1>20. ASSUME NEW t \in Turns, CommitOnFinalize(t) \/ CloseRow(t) \/ EndRow(t) PROVE OneTurn'
  BY <1>20 DEF CommitOnFinalize, CloseRow, EndRow, OneTurn, Cur, userVars, Alive
<1>21. CASE Disconnect
  BY <1>21, DisconnectDoes DEF OneTurn, Cur, rowVars, SameReply, Alive
<1>22. CASE FinalizeSession \/ Cleanup \/ UNCHANGED vars
  BY <1>22 DEF FinalizeSession, Cleanup, vars, OneTurn, Cur, userVars, rowVars, Alive
<1> QED
  BY <1>0, <1>1, <1>2, <1>3, <1>4, <1>5, <1>6, <1>7, <1>8, <1>9, <1>10, <1>11, <1>12, <1>13, <1>14,
     <1>15, <1>16, <1>17, <1>18, <1>19, <1>20, <1>21, <1>22
  DEF Next, Frames, Replies, Commits, Ending

LEMMA ListenStep == ASSUME Kinds, Simple, OneTurn, Listening, [Next]_vars PROVE Listening'
<1> SUFFICES ASSUME life' = "on", user.talking'
             PROVE  /\ gate' = {}
                    /\ TurnsIn(queue') = {}
                    /\ frame'.kind # "turn"
                    /\ Alive' => frame' # NoFrame \/ Breaks(queue')
  BY DEF Listening
<1>0. ~WakeWord /\ ~AckFires /\ life = "on"
  BY WakeWordDoes, AckFiresDoes, LifeEnds DEF Simple, OneTurn
<1>1. CASE UserStarts
  <2>1. queue = <<>> /\ frame = NoFrame /\ gate = {} /\ ~Breaks(queue) /\ TurnsIn(queue) = {}
    BY <1>1, UserStartsDoes, NothingQueued DEF KeepsUp, Simple
  <2> QED BY <1>1, <2>1, UserStartsDoes, ZeroIsNoTurn, NoFrameFacts DEF Joins
<1>2. ~UserStops /\ ~UserStopsBlank
  BY UserStopsDoes, UserStopsBlankDoes
<1>3. CASE DeviceStops
  BY <1>0, <1>3, DeviceStopsDoes, ZeroIsNoTurn DEF Listening, Joins, userVars, Alive
<1>4. CASE \E a \in acks : DevicePlayed(a)
  BY <1>0, <1>4, DevicePlayedDoes DEF Listening, userVars, Alive
<1>5. CASE InjectBegins
  BY <1>0, <1>5, InjectBeginsDoes DEF Listening, userVars, SameReply, Alive
<1>6. CASE Injected
  BY <1>0, <1>6, InjectedDoes DEF Listening, userVars, Alive
<1>7. ASSUME HandleTurn PROVE FALSE
  <2>1. PICK t \in Turns : t \in TurnsIn(queue) /\ UNCHANGED userVars
    BY <1>7, HandleTurnDoes
  <2> QED BY <1>0, <2>1 DEF Listening, userVars
<1>8. ASSUME TurnResumes PROVE FALSE
  BY <1>0, <1>8, TurnResumesDoes DEF Listening, userVars
<1>9. CASE HandleInterrupt
  <2>1. /\ Leaves(queue, queue', "interrupt", 0)
        /\ IsNoFrame
        /\ Killed("interrupt", 0) \/ (~Alive /\ UNCHANGED <<reply, frame>>)
        /\ UNCHANGED userVars
    BY <1>9, HandleInterruptDoes
  <2> QED BY <1>0, <2>1, NoFrameFacts DEF Listening, Leaves, Killed, IsNoFrame, userVars, Alive
<1>10. CASE InterruptResumes
  BY <1>0, <1>10, InterruptResumesDoes, NoFrameFacts DEF Listening, userVars, Alive
<1>11. CASE HandleDeviceAbort
  <2>1. /\ Leaves(queue, queue', "abort", 0)
        /\ IsNoFrame
        /\ Killed("abort", 0) \/ (~Alive /\ UNCHANGED <<reply, frame>>)
        /\ UNCHANGED userVars
    BY <1>11, HandleDeviceAbortDoes
  <2> QED BY <1>0, <2>1, NoFrameFacts DEF Listening, Leaves, Killed, IsNoFrame, userVars, Alive
<1>12. CASE DeviceAbortResumes
  BY <1>0, <1>12, DeviceAbortResumesDoes, NoFrameFacts DEF Listening, userVars, Alive
<1>13. CASE Replies
  <2>1. UNCHANGED <<userVars, queue, frame>> /\ Alive
    BY <1>13 DEF Replies, ReplyRuns, AgentReady, AgentFails, ReplyDies, ReplySpeaks, ReplyEnds,
       ReplyKilled, ReplyTail, Alive
  <2> QED BY <1>0, <2>1 DEF Listening, userVars
<1>14. ASSUME NEW t \in Turns, Dispatch(t) PROVE FALSE
  BY <1>0, <1>14, DispatchDoes DEF Listening
<1>15. CASE \E t \in Turns : CommitOnFinalize(t) \/ CloseRow(t) \/ EndRow(t)
  BY <1>0, <1>15 DEF CommitOnFinalize, CloseRow, EndRow, Listening, userVars, Alive
<1>16. ~Ending
  BY DEF Ending, Disconnect, FinalizeSession, Cleanup
<1>17. CASE UNCHANGED vars
  BY <1>0, <1>17 DEF vars, Listening, userVars, Alive
<1> QED
  BY <1>0, <1>1, <1>2, <1>3, <1>4, <1>5, <1>6, <1>7, <1>8, <1>9, <1>10, <1>11, <1>12, <1>13, <1>14,
     <1>15, <1>16, <1>17
  DEF Next, Frames, Commits

LEMMA TextsSame ==
  ASSUME Kinds, RowTexts, \A t \in Turns : SameMarks(rows'[t], rows[t]),
         reply'.phase = reply.phase \/ reply'.phase \notin {"gen", "play"},
         reply'.row = reply.row \/ reply'.phase \notin {"gen", "play"},
         reply'.t = reply.t \/ reply'.phase \notin {"gen", "play"}
  PROVE  RowTexts'
<1>1. Texts(rows')
  BY SameOwn DEF RowTexts
<1>2. ASSUME reply.phase \in {"gen", "play"} PROVE HasText(rows', reply.row, reply.t)
  <2>1. reply.row \in 0..TurnCount /\ reply.t \in Turns
    BY <1>2, ReplyFacts
  <2> QED BY <1>2, <2>1, SameOwn DEF RowTexts
<1> QED BY <1>1, <1>2 DEF RowTexts

LEMMA SameRows == ASSUME rows' = rows PROVE \A t \in Turns : SameMarks(rows'[t], rows[t])
BY DEF SameMarks

LEMMA TextsStep == ASSUME Kinds, Simple, OneTurn, Listening, RowTexts, [Next]_vars PROVE RowTexts'
<1>0. ~WakeWord /\ ~AckFires
  BY WakeWordDoes, AckFiresDoes DEF Simple, OneTurn
<1>9. /\ rows \in [Turns -> RowRows] /\ slot \in 0..TurnCount /\ played \in 0..Inject
      /\ reply \in ReplyRows /\ reply.row \in 0..TurnCount
      /\ reply.phase # "none" => reply.t \in Turns
  BY KindFacts, ReplyFacts
<1>1. CASE UserStops
  <2>1. reply = NoReply /\ reply' = reply
    BY <1>1, SettledBefore, UserStopsDoes
  <2>2. IsNew(rows'[next]) /\ \A t \in Turns : t # next => SameMarks(rows'[t], rows[t])
    BY <1>1, UserStopsDoes, OpenRowDoes
  <2>3. Texts(rows')
    BY <2>2 DEF RowTexts, Texts, SameMarks, IsNew, Landed
  <2> QED BY <2>1, <2>3, NoReplyFacts DEF RowTexts
<1>2. CASE UserStopsBlank
  BY <1>2, UserStopsBlankDoes, TextsSame
<1>3. CASE UserStarts \/ DeviceStops \/ (\E a \in acks : DevicePlayed(a)) \/ Injected
  <2>1. UNCHANGED <<rows, reply>>
    BY <1>3, InjectedDoes DEF UserStarts, DeviceStops, DevicePlayed, rowVars
  <2> QED BY <2>1, SameRows, TextsSame
<1>4. CASE InjectBegins
  BY <1>4, InjectBeginsDoes, SameRows, TextsSame DEF SameReply, rowVars
<1>5. CASE Frames
  <2>1. rows' = rows
    BY <1>5 DEF Frames, HandleTurn, TurnResumes, HandleInterrupt, InterruptResumes,
       HandleDeviceAbort,
       DeviceAbortResumes, rowVars
  <2>2. \/ SameReply(reply', reply)
        \/ reply'.phase = "new"
    <3>1. CASE HandleTurn
      BY <3>1, HandleTurnDoes DEF Killed, Starts
    <3>2. CASE TurnResumes
      BY <3>2, TurnResumesDoes DEF Starts
    <3>3. CASE HandleInterrupt \/ HandleDeviceAbort
      BY <3>3, HandleInterruptDoes, HandleDeviceAbortDoes DEF Killed, SameReply
    <3>4. CASE InterruptResumes \/ DeviceAbortResumes
      BY <3>4, InterruptResumesDoes, DeviceAbortResumesDoes DEF SameReply
    <3> QED BY <1>5, <3>1, <3>2, <3>3, <3>4 DEF Frames
  <2> QED BY <2>1, <2>2, SameRows, TextsSame DEF SameReply
<1>6. CASE ReplyRuns
  <2>1. reply.t \in Turns /\ slot \in {0, reply.t} /\ reply'.t = reply.t /\ reply'.row = slot
        /\ reply'.phase = (IF pig THEN "gen" ELSE "agent")
        /\ rows' = IF pig THEN Heard(rows, slot, reply.t) ELSE rows
    BY <1>6, <1>9, ReplyRunsDoes DEF OneTurn, Alive
  <2>2. CASE pig
    BY <1>9, <2>1, <2>2, HeardOwn DEF RowTexts
  <2>3. CASE ~pig
    BY <2>1, <2>3, SameRows, TextsSame
  <2> QED BY <2>2, <2>3
<1>7. CASE AgentReady
  <2>1. reply.t \in Turns /\ reply.row \in {0, reply.t} /\ reply'.t = reply.t /\ reply'.row = reply.row
        /\ rows' = Heard(rows, reply.row, reply.t)
    BY <1>7, <1>9, AgentReadyDoes DEF OneTurn, Alive
  <2> QED BY <1>9, <2>1, HeardOwn DEF RowTexts
<1>8. CASE AgentFails
  <2> DEFINE hs == Heard(rows, reply.row, reply.t)
  <2>1. reply.t \in Turns /\ reply.row \in {0, reply.t} /\ reply' = NoReply
        /\ rows' = Finalized(hs, reply.row)
    BY <1>8, <1>9, AgentFailsDoes DEF OneTurn, Alive
  <2>2. hs \in [Turns -> RowRows] /\ Texts(hs) /\ HasText(hs, reply.row, reply.t)
    BY <1>9, <2>1, HeardOwn, HeardRows DEF RowTexts
  <2> HIDE DEF hs
  <2>3. Texts(rows')
    BY <1>9, <2>1, <2>2, FinalOwn
  <2> QED BY <2>1, <2>3, NoReplyFacts DEF RowTexts
<1>10. CASE ReplyDies \/ ReplyTail
  <2>1. rows' = rows /\ reply' = NoReply
    BY <1>10 DEF ReplyDies, ReplyTail, rowVars
  <2> QED BY <2>1, NoReplyFacts, SameRows, TextsSame
<1>11. CASE ReplySpeaks
  <2>1. rows' = rows /\ reply.phase = "gen" /\ reply'.row = reply.row /\ reply'.t = reply.t
    BY <1>11, ReplySpeaksDoes DEF rowVars
  <2> QED BY <2>1 DEF RowTexts
<1>12. CASE ReplyEnds \/ ReplyKilled
  <2>1. reply.phase \in {"gen", "play"} /\ rows' = Finalized(rows, reply.row)
        /\ reply'.phase \notin {"gen", "play"}
    BY <1>12, ReplyEndsDoes, ReplyKilledDoes, NoReplyFacts
  <2>2. reply.t \in Turns /\ reply.row \in {0, reply.t}
    BY <1>9, <2>1 DEF OneTurn, Alive
  <2>3. Texts(rows')
    BY <1>9, <2>1, <2>2, FinalOwn DEF RowTexts
  <2> QED BY <2>1, <2>3 DEF RowTexts
<1>13. CASE Commits
  <2>1. reply' = reply
    BY <1>13 DEF Commits, Dispatch, CommitOnFinalize, CloseRow, EndRow
  <2>2. CASE \E t \in Turns : Dispatch(t)
    BY <2>1, <2>2, SameRows, TextsSame DEF Dispatch, rowVars
  <2>3. CASE \E t \in Turns : CommitOnFinalize(t) \/ CloseRow(t) \/ EndRow(t)
    <3>1. PICK u \in Turns : Lands(u)
      BY <2>3, CommitOnFinalizeDoes, CloseRowDoes, EndRowDoes
    <3> QED BY <1>9, <2>1, <3>1, LandsOwn DEF RowTexts
  <2> QED BY <1>13, <2>2, <2>3 DEF Commits
<1>14. CASE Disconnect
  BY <1>14, DisconnectDoes, SameRows, TextsSame DEF SameReply, rowVars
<1>15. CASE FinalizeSession
  BY <1>15, FinalizeSessionDoes, TextsSame
<1>16. CASE Cleanup \/ UNCHANGED vars
  BY <1>16, SameRows, TextsSame DEF Cleanup, vars, rowVars
<1> QED
  BY <1>0, <1>1, <1>2, <1>3, <1>4, <1>5, <1>6, <1>7, <1>8, <1>10, <1>11, <1>12, <1>13, <1>14,
     <1>15, <1>16
  DEF Next, Replies, Ending

Fresh == {"new", "agent", "gen"}

LEMMA AckFacts == ASSUME Kinds PROVE \A a \in acks : a[1] \in Nat /\ a[2] \in Turns \cup {Inject}
BY KindFacts

LEMMA PlaySame ==
  ASSUME Kinds, Playbacks, next' = next, acks' \subseteq acks \cup {<<0, Inject>>},
         sid' \in {sid, sid + 1}, cursid' \in {cursid, 0},
         played' = played, Plays(rows'),
         Alive' => Alive /\ reply'.sid = reply.sid,
         reply'.phase \in Fresh => reply.phase \in Fresh
  PROVE  Playbacks'
<1>1. Cur' = Cur
  BY DEF Cur
<1>2. sid \in Nat /\ reply.sid \in Nat /\ \A a \in acks : a[1] \in Nat
  BY KindFacts, ReplyFacts, AckFacts
<1>3. ASSUME NEW a \in acks' PROVE Tells(a, sid', cursid')
  <2>1. CASE a \in acks
    BY <1>2, <2>1 DEF Playbacks, Tells
  <2>2. CASE a = <<0, Inject>>
    BY <2>2 DEF Tells
  <2> QED BY <2>1, <2>2
<1>6. \A a \in acks' : Tells(a, sid', cursid') <=> Tells(a, sid, cursid)'
  BY <1>1 DEF Tells, Inject
<1>4. Alive' => reply'.sid > 0 /\ reply'.sid <= sid'
  BY <1>2 DEF Playbacks
<1>5. ASSUME reply'.phase \in Fresh, NEW a \in acks' PROVE a[1] < reply'.sid
  <2>1. reply.phase \in Fresh /\ Alive' /\ reply'.sid = reply.sid /\ reply.sid > 0
    BY <1>5 DEF Playbacks, Fresh, Alive
  <2>2. CASE a \in acks
    BY <2>1, <2>2 DEF Playbacks, Fresh
  <2>3. CASE a = <<0, Inject>>
    BY <2>1, <2>3
  <2> QED BY <2>2, <2>3
<1> QED BY <1>1, <1>3, <1>4, <1>5, <1>6 DEF Playbacks, Fresh, Inject

LEMMA SameRowsPlay == ASSUME Playbacks, rows' = rows PROVE Plays(rows')
BY DEF Playbacks

(* A reply that starts takes the next sentence_id. *)
LEMMA PlayStarts ==
  ASSUME Kinds, Playbacks, NEW t, Starts(t), UNCHANGED <<next, rows, cursid, played, acks>>
  PROVE  Playbacks'
<1>1. Cur' = Cur
  BY DEF Cur
<1>2. sid \in Nat /\ \A a \in acks : a[1] \in Nat
  BY KindFacts, AckFacts
<1>3. \A a \in acks' : Tells(a, sid', cursid') /\ a[1] < reply'.sid
  BY <1>2 DEF Playbacks, Starts, Tells
<1>5. \A a \in acks' : Tells(a, sid', cursid') <=> Tells(a, sid, cursid)'
  BY <1>1 DEF Tells, Inject
<1>4. reply'.sid > 0 /\ reply'.sid <= sid'
  BY <1>2 DEF Starts
<1> QED BY <1>1, <1>3, <1>4, <1>5 DEF Playbacks, Inject

LEMMA PlayStep == ASSUME Kinds, Simple, Named, OneTurn, Listening, Playbacks, [Next]_vars PROVE Playbacks'
<1>0. ~WakeWord /\ ~AckFires
  BY WakeWordDoes, AckFiresDoes DEF Simple, OneTurn
<1>9. /\ rows \in [Turns -> RowRows] /\ slot \in 0..TurnCount /\ played \in 0..Inject
      /\ sid \in Nat /\ cursid \in Nat
      /\ reply \in ReplyRows /\ reply.row \in 0..TurnCount /\ reply.sid \in Nat
      /\ reply.phase # "none" => reply.t \in Turns
  BY KindFacts, ReplyFacts
<1>1. CASE UserStops
  <2>1. reply = NoReply /\ reply' = reply /\ played' = 0 /\ cursid' = 0 /\ acks' = acks /\ sid' = sid
    BY <1>1, SettledBefore, UserStopsDoes
  <2>2. IsNew(rows'[next]) /\ \A t \in Turns : t # next => SameMarks(rows'[t], rows[t])
    BY <1>1, UserStopsDoes, OpenRowDoes
  <2>3. Plays(rows')
    BY <2>2 DEF Playbacks, Plays, SameMarks, IsNew
  <2>4. \A a \in acks' : Tells(a, sid, cursid)'
    BY <2>1, AckFacts DEF Playbacks, Tells, Inject
  <2> QED BY <2>1, <2>3, <2>4, NoReplyFacts DEF Playbacks, Alive
<1>2. CASE UserStopsBlank
  <2>1. Plays(rows')
    BY <1>2, UserStopsBlankDoes, SameOwn DEF Playbacks
  <2> QED BY <1>2, <2>1, UserStopsBlankDoes, PlaySame DEF stateVars, Alive
<1>3. CASE UserStarts \/ DeviceStops \/ Injected
  <2>1. UNCHANGED <<next, rows, reply, sid, cursid, played>>
        /\ acks' \subseteq acks \cup {<<0, Inject>>}
    BY <1>3, InjectedDoes DEF UserStarts, DeviceStops, userVars, rowVars, stateVars
  <2> QED BY <2>1, SameRowsPlay, PlaySame DEF Alive
<1>4. CASE InjectBegins
  <2>1. UNCHANGED <<next, rows, acks, sid, cursid, played>> /\ SameReply(reply', reply)
    BY <1>4, InjectBeginsDoes DEF userVars, rowVars
  <2> QED BY <2>1, SameRowsPlay, PlaySame DEF Alive, SameReply
<1>5. ASSUME NEW a \in acks, DevicePlayed(a) PROVE Playbacks'
  <2>1. acks' = acks \ {a} /\ played' = (IF a[1] \in {0, cursid} THEN a[2] ELSE played)
        /\ UNCHANGED <<next, rows, reply, sid, cursid>> /\ a[1] \in Nat
    BY <1>5, DevicePlayedDoes DEF userVars, rowVars
  <2>2. played' \in {0, Cur, Inject} /\ Cur' = Cur
    BY <2>1 DEF Playbacks, Cur, Tells
  <2>3. \A b \in acks' : b \in acks /\ (Tells(b, sid, cursid) <=> Tells(b, sid, cursid)')
    BY <2>1, <2>2 DEF Tells, Inject
  <2>4. Plays(rows)' <=> Plays(rows)
    BY <2>1 DEF Plays, Inject
  <2> QED BY <2>1, <2>2, <2>3, <2>4 DEF Playbacks, Alive, Inject
<1>6. CASE HandleTurn
  <2>1. PICK t \in Turns :
         /\ \/ Killed("turn", t) /\ sid' = sid
            \/ ~Alive /\ Starts(t) /\ frame' = frame
         /\ UNCHANGED <<userVars, rowVars, cursid, played, acks>>
    BY <1>6, HandleTurnDoes
  <2>2. UNCHANGED <<next, rows, cursid, played, acks>>
    BY <2>1 DEF userVars, rowVars
  <2>3. CASE Killed("turn", t) /\ sid' = sid
    BY <2>2, <2>3, SameRowsPlay, PlaySame DEF Killed, SameReply, Alive
  <2>4. CASE Starts(t)
    BY <2>2, <2>4, PlayStarts
  <2> QED BY <2>1, <2>3, <2>4
<1>7. CASE TurnResumes
  <2>1. Starts(frame.t) /\ UNCHANGED <<next, rows, cursid, played, acks>>
    BY <1>7, TurnResumesDoes DEF userVars, rowVars
  <2> QED BY <2>1, PlayStarts
<1>8. CASE HandleInterrupt \/ HandleDeviceAbort
  <2>1. UNCHANGED <<next, rows, played, acks>> /\ sid' \in {sid, sid + 1} /\ cursid' \in {cursid, 0}
    BY <1>8, HandleInterruptDoes, HandleDeviceAbortDoes
    DEF userVars, rowVars, Aborted, DeviceAborted
  <2>2. reply' = reply \/ SameReply(reply', reply)
    BY <1>8, HandleInterruptDoes, HandleDeviceAbortDoes DEF Killed
  <2> QED BY <2>1, <2>2, SameRowsPlay, PlaySame DEF SameReply, Alive
<1>10. CASE InterruptResumes \/ DeviceAbortResumes
  <2>1. UNCHANGED <<next, rows, played, acks, sid, reply>> /\ cursid' \in {cursid, 0}
    BY <1>10, InterruptResumesDoes, DeviceAbortResumesDoes
    DEF userVars, rowVars, AbortedBy, DeviceAborted
  <2> QED BY <2>1, SameRowsPlay, PlaySame DEF Alive
<1>11. CASE ReplyRuns
  <2>1. reply.t \in Turns /\ slot \in {0, reply.t} /\ reply.phase = "new" /\ reply'.sid = reply.sid
        /\ rows' = (IF pig THEN Heard(rows, slot, reply.t) ELSE rows)
        /\ UNCHANGED <<next, sid, cursid, played, acks>>
    BY <1>9, <1>11, ReplyRunsDoes DEF OneTurn, Alive, userVars, stateVars
  <2>2. Plays(rows')
    BY <1>9, <2>1, HeardOwn DEF Playbacks
  <2> QED BY <2>1, <2>2, PlaySame DEF Alive, Fresh
<1>12. CASE AgentReady
  <2>1. reply.t \in Turns /\ reply.row \in {0, reply.t} /\ reply.phase = "agent" /\ reply'.sid = reply.sid
        /\ rows' = Heard(rows, reply.row, reply.t)
        /\ UNCHANGED <<next, sid, cursid, played, acks>>
    BY <1>9, <1>12, AgentReadyDoes DEF OneTurn, Alive, userVars, stateVars
  <2>2. Plays(rows')
    BY <1>9, <2>1, HeardOwn DEF Playbacks
  <2> QED BY <2>1, <2>2, PlaySame DEF Alive, Fresh
<1>13. CASE AgentFails
  <2> DEFINE hs == Heard(rows, reply.row, reply.t)
  <2>1. reply.t \in Turns /\ reply.row \in {0, reply.t} /\ played \in {0, reply.t, Inject} /\ reply' = NoReply
        /\ rows' = Finalized(hs, reply.row)
        /\ UNCHANGED <<next, sid, cursid, played, acks>>
    BY <1>9, <1>13, AgentFailsDoes DEF OneTurn, Playbacks, Alive, userVars, stateVars
  <2>2. hs \in [Turns -> RowRows] /\ Plays(hs)
    BY <1>9, <2>1, HeardOwn, HeardRows DEF Playbacks
  <2> HIDE DEF hs
  <2>3. Plays(rows')
    BY <1>9, <2>1, <2>2, FinalOwn
  <2> QED BY <2>1, <2>3, NoReplyFacts, PlaySame DEF Alive, Fresh
<1>14. CASE ReplyDies \/ ReplyTail
  <2>1. reply' = NoReply /\ UNCHANGED <<next, rows, sid, cursid, played, acks>>
    BY <1>14 DEF ReplyDies, ReplyTail, userVars, rowVars, stateVars
  <2> QED BY <2>1, NoReplyFacts, SameRowsPlay, PlaySame DEF Alive, Fresh
<1>15. CASE ReplySpeaks
  <2>1. /\ reply.t \in Turns /\ reply.t = Cur /\ reply.phase = "gen"
        /\ reply'.phase = "play" /\ reply'.sid = reply.sid /\ cursid' = reply.sid
        /\ acks' = acks \cup {<<reply.sid, reply.t>>}
        /\ UNCHANGED <<next, rows, sid, played>>
    BY <1>15, ReplySpeaksDoes DEF OneTurn, Alive, userVars, rowVars, Named
  <2>2. reply.sid > 0 /\ reply.sid <= sid /\ Cur' = Cur /\ \A a \in acks : a[1] < reply.sid
    BY <2>1 DEF Playbacks, Alive, Cur
  <2>3. ASSUME NEW a \in acks' PROVE Tells(a, sid', cursid')
    <3>1. CASE a \in acks
      <4>1. a[1] \in Nat /\ a[1] < reply.sid /\ Tells(a, sid, cursid)
        BY <2>2, <3>1, AckFacts DEF Playbacks
      <4> QED BY <1>9, <2>1, <4>1 DEF Tells
    <3>2. CASE a = <<reply.sid, reply.t>>
      BY <2>1, <2>2, <3>2 DEF Tells
    <3> QED BY <2>1, <3>1, <3>2
  <2>4. \A a \in acks' : Tells(a, sid', cursid') <=> Tells(a, sid, cursid)'
    BY <2>2 DEF Tells, Inject
  <2>5. Plays(rows)' <=> Plays(rows)
    BY <2>1 DEF Plays, Inject
  <2> QED BY <2>1, <2>2, <2>3, <2>4, <2>5 DEF Playbacks, Alive, Inject
<1>16. CASE ReplyEnds \/ ReplyKilled
  <2>1. reply.phase \in {"gen", "play"} /\ rows' = Finalized(rows, reply.row)
        /\ reply'.phase \notin Fresh /\ (Alive' => reply'.sid = reply.sid)
        /\ UNCHANGED <<next, sid, cursid, played, acks>>
    BY <1>16, ReplyEndsDoes, ReplyKilledDoes, NoReplyFacts DEF Fresh, Alive, userVars, stateVars
  <2>2. reply.t \in Turns /\ reply.row \in {0, reply.t} /\ played \in {0, reply.t, Inject}
    BY <1>9, <2>1 DEF OneTurn, Playbacks, Alive
  <2>3. Plays(rows')
    BY <1>9, <2>1, <2>2, FinalOwn DEF Playbacks
  <2> QED BY <2>1, <2>3, PlaySame DEF Alive
<1>17. CASE Commits
  <2>1. UNCHANGED <<next, reply, sid, cursid, played, acks>>
    BY <1>17 DEF Commits, Dispatch, CommitOnFinalize, CloseRow, EndRow, userVars, stateVars
  <2>2. CASE \E t \in Turns : Dispatch(t)
    <3>1. rows' = rows
      BY <2>2 DEF Dispatch, rowVars
    <3> QED BY <2>1, <3>1, SameRowsPlay, PlaySame DEF Alive
  <2>3. CASE \E t \in Turns : CommitOnFinalize(t) \/ CloseRow(t) \/ EndRow(t)
    <3>1. PICK u \in Turns : Lands(u)
      BY <2>3, CommitOnFinalizeDoes, CloseRowDoes, EndRowDoes
    <3>2. Plays(rows')
      BY <3>1, LandsOwn DEF Playbacks
    <3> QED BY <2>1, <3>2, PlaySame DEF Alive
  <2> QED BY <1>17, <2>2, <2>3 DEF Commits
<1>18. CASE Disconnect
  <2>1. UNCHANGED <<next, rows, acks, sid, cursid, played>> /\ SameReply(reply', reply)
    BY <1>18, DisconnectDoes DEF rowVars, stateVars
  <2> QED BY <2>1, SameRowsPlay, PlaySame DEF Alive, SameReply
<1>19. CASE FinalizeSession
  <2>1. UNCHANGED <<next, reply, sid, cursid, played, acks>>
    BY <1>19, FinalizeSessionDoes DEF userVars, stateVars
  <2>2. Plays(rows')
    BY <1>19, FinalizeSessionDoes, SameOwn DEF Playbacks
  <2> QED BY <2>1, <2>2, PlaySame DEF Alive
<1>20. CASE Cleanup \/ UNCHANGED vars
  <2>1. UNCHANGED <<next, rows, reply, acks, sid, cursid, played>>
    BY <1>20 DEF Cleanup, vars, userVars, rowVars, stateVars
  <2> QED BY <2>1, SameRowsPlay, PlaySame DEF Alive
<1> QED
  BY <1>0, <1>1, <1>2, <1>3, <1>4, <1>5, <1>6, <1>7, <1>8, <1>10, <1>11, <1>12, <1>13, <1>14,
     <1>15, <1>16,
     <1>17, <1>18, <1>19, <1>20
  DEF Next, Frames, Replies, Ending

LEMMA RowStep == ASSUME Kinds, RowInv, [Next]_vars PROVE RowInv'
<1> SUFFICES ASSUME Simple'
             PROVE  OneTurn' /\ Listening' /\ RowTexts' /\ (Named' => Playbacks')
  BY DEF RowInv
<1>1. Simple /\ (Named' => Named)
  BY FaultsStay DEF Simple, Named
<1> QED BY <1>1, OneStep, ListenStep, TextsStep, PlayStep DEF RowInv

LEMMA RowInit == Init => RowInv
<1> SUFFICES ASSUME Init PROVE OneTurn /\ Listening /\ RowTexts /\ Playbacks
  BY DEF RowInv
<1>1. OneTurn /\ Listening
  BY NothingQueued, NoFrameFacts, NoReplyFacts DEF Init, OneTurn, Listening, Cur, Alive
<1>2. \A t \in Turns : rows[t].st = "none" /\ ~rows[t].final /\ ~rows[t].late /\ rows[t].played = 0
  BY DEF Init, NoRow
<1>3. Texts(rows) /\ Plays(rows)
  BY <1>2 DEF Texts, Plays, Landed
<1> QED BY <1>1, <1>3, NoReplyFacts DEF Init, RowTexts, Playbacks, Alive

(* What is stored of a turn has the text of that turn and of no other,     *)
(* where no wake word is put in between and the user does not run ahead;   *)
(* where the device names the sentence it has played, the playback time is *)
(* that of the turn's own reply or of an injected line, which has no       *)
(* sentence_id to name (turn_storage_observer.py:564-597, storage.py).     *)
THEOREM RowsStayOwn == Spec => []RowsAreOwn
<1>1. Init => Kinds /\ RowInv
  BY KindsInit, RowInit
<1>2. Kinds /\ RowInv /\ [Next]_vars => (Kinds /\ RowInv)'
  BY KindsStep, RowStep
<1>3. Kinds /\ RowInv => RowsAreOwn
  BY DEF RowInv, RowTexts, Texts, Playbacks, Plays, Landed, RowsAreOwn, RowIsOwn, PlayedIsOwn,
     Without, Simple, Named
<1> QED BY <1>1, <1>2, <1>3, PTL DEF Spec

-----------------------------------------------------------------------------
(* The wake words: one that is put before a text was spent.                *)
One(b) == IF b THEN 1 ELSE 0

WakeInv ==
  /\ prefixed + One(user.captured) + One(ack) <= WakeCount - user.words
  /\ prefixed + One(user.wake \/ user.captured \/ ack) <= WakeCount - user.words

LEMMA WakeStep == ASSUME Kinds, WakeInv, [Next]_vars PROVE WakeInv'
<1>1. user \in UserRows /\ ack \in BOOLEAN /\ prefixed \in Nat /\ user.words \in Nat /\ WakeCount \in Nat
      /\ user.wake \in BOOLEAN /\ user.captured \in BOOLEAN
  BY KindFacts, Counts DEF UserRows
<1>2. CASE UserStarts
  <2>1. One(user.captured)' = One(user.wake) /\ One(ack)' = 0 /\ prefixed' = prefixed
        /\ user'.words = user.words
        /\ One(user.wake \/ user.captured \/ ack)' = One(user.wake)
    BY <1>1, <1>2, UserStartsDoes DEF One
  <2>2. One(user.wake) <= One(user.wake \/ user.captured \/ ack)
    BY <1>1 DEF One
  <2>3. One(user.wake) \in Nat /\ One(user.wake \/ user.captured \/ ack) \in Nat
    BY DEF One
  <2> QED BY <1>1, <2>1, <2>2, <2>3 DEF WakeInv
<1>3. CASE UserStops
  <2>3. /\ user'.wake = FALSE /\ user'.captured = FALSE /\ ack' = FALSE
        /\ user'.words = user.words
        /\ prefixed' = IF user.captured THEN prefixed + 1 ELSE prefixed
    BY <1>3, UserStopsDoes
  <2>4. One(user.captured)' = 0 /\ One(ack)' = 0 /\ One(user.wake \/ user.captured \/ ack)' = 0
    BY <2>3 DEF One
  <2>5. prefixed' = prefixed + One(user.captured)
    BY <1>1, <2>3 DEF One
  <2>1. One(user.captured)' = 0 /\ One(ack)' = 0 /\ prefixed' = prefixed + One(user.captured)
        /\ user'.words = user.words
        /\ One(user.wake \/ user.captured \/ ack)' = 0
    BY <2>3, <2>4, <2>5
  <2>2. One(user.captured) \in Nat /\ One(ack) \in Nat
    BY DEF One
  <2> QED BY <1>1, <2>1, <2>2 DEF WakeInv
<1>4. CASE UserStopsBlank
  <2>1. One(user.captured)' = 0 /\ One(ack)' = 0 /\ prefixed' = prefixed
        /\ user'.words = user.words
        /\ One(user.wake \/ user.captured \/ ack)' = One(user.wake)
    BY <1>1, <1>4, UserStopsBlankDoes DEF One
  <2>2. One(user.wake) <= One(user.wake \/ user.captured \/ ack)
    BY <1>1 DEF One
  <2>3. One(user.wake) \in Nat /\ One(user.wake \/ user.captured \/ ack) \in Nat
    BY DEF One
  <2> QED BY <1>1, <2>1, <2>2, <2>3 DEF WakeInv
<1>5. CASE WakeWord
  <2>1. One(user.captured)' = One(user.captured) /\ One(ack)' = 1 /\ prefixed' = prefixed
        /\ user'.words = user.words - 1
        /\ One(user.wake \/ user.captured \/ ack)' = 1
    BY <1>1, <1>5, WakeWordDoes DEF One
  <2>2. One(user.captured) \in Nat /\ One(ack) \in Nat /\ One(user.wake \/ user.captured \/ ack) \in Nat
    BY DEF One
  <2> QED BY <1>1, <2>1, <2>2 DEF WakeInv
<1>6. CASE AckFires
  <2>1. One(user.captured)' = One(user.captured) /\ One(ack)' = 0 /\ One(ack) = 1
        /\ prefixed' = prefixed + 1
        /\ user'.words = user.words
        /\ One(user.wake \/ user.captured \/ ack)' = One(user.captured)
    BY <1>1, <1>6, AckFiresDoes DEF One
  <2>2. One(user.captured) \in Nat
    BY DEF One
  <2> QED BY <1>1, <2>1, <2>2 DEF WakeInv
<1>7. CASE Disconnect
  <2>1. One(user.captured)' = One(user.captured) /\ One(ack)' = 0 /\ prefixed' = prefixed
        /\ user'.words = user.words
        /\ One(user.wake \/ user.captured \/ ack)' = One(user.wake \/ user.captured)
    BY <1>1, <1>7, DisconnectDoes DEF One
  <2>2. One(user.wake \/ user.captured) <= One(user.wake \/ user.captured \/ ack)
    BY <1>1 DEF One
  <2>3. One(user.captured) \in Nat /\ One(ack) \in Nat
        /\ One(user.wake \/ user.captured) \in Nat /\ One(user.wake \/ user.captured \/ ack) \in Nat
    BY DEF One
  <2> QED BY <1>1, <2>1, <2>2, <2>3 DEF WakeInv
<1>8. ASSUME UNCHANGED <<user, ack, prefixed>> PROVE WakeInv'
  BY <1>8 DEF WakeInv, One
<1>9. CASE DeviceStops \/ (\E a \in acks : DevicePlayed(a)) \/ InjectBegins \/ Injected
  <2>1. UNCHANGED userVars
    BY <1>9 DEF DeviceStops, DevicePlayed, InjectBegins, Injected, InjectResumes, InjectSpeaks,
       InjectEnds
  <2> QED BY <1>8, <2>1 DEF userVars
<1>10. CASE Frames
  <2>1. UNCHANGED userVars
    BY <1>10 DEF Frames, HandleTurn, TurnResumes, HandleInterrupt, InterruptResumes,
       HandleDeviceAbort,
       DeviceAbortResumes
  <2> QED BY <1>8, <2>1 DEF userVars
<1>11. CASE Replies
  <2>1. UNCHANGED userVars
    BY <1>11 DEF Replies, ReplyRuns, AgentReady, AgentFails, ReplyDies, ReplySpeaks, ReplyEnds,
       ReplyKilled,
       ReplyTail
  <2> QED BY <1>8, <2>1 DEF userVars
<1>12. CASE Commits
  <2>1. UNCHANGED <<user, ack, prefixed>>
    BY <1>12 DEF Commits, Dispatch, CommitOnFinalize, CloseRow, EndRow, userVars
  <2> QED BY <1>8, <2>1
<1>13. CASE FinalizeSession \/ Cleanup \/ UNCHANGED vars
  <2>1. UNCHANGED userVars
    BY <1>13 DEF FinalizeSession, Cleanup, vars
  <2> QED BY <1>8, <2>1 DEF userVars
<1> QED
  BY <1>2, <1>3, <1>4, <1>5, <1>6, <1>7, <1>9, <1>10, <1>11, <1>12, <1>13 DEF Next, Ending

LEMMA WakeInit == Init => WakeInv
BY Counts DEF Init, WakeInv, One

-----------------------------------------------------------------------------
(* A turn is in one place at a time: still to come, with the gateway, in   *)
(* front of the bridge, with the bridge, or in its reply.                  *)
Ahead(t) == t >= next \/ t \in gate \/ frame.t = t \/ t \in TurnsIn(queue)

Once ==
  /\ \A t \in gate : t < next
  /\ \A t \in TurnsIn(queue) : t < next /\ t \notin gate
  /\ Distinct(queue)
  /\ frame.t \in Turns => frame.t < next /\ frame.t \notin gate /\ frame.t \notin TurnsIn(queue)
  /\ Alive => ~Ahead(reply.t)

SameAhead == \A t \in Turns : Ahead(t)' <=> Ahead(t)

LEMMA OnceSame ==
  ASSUME Kinds, Once, next' = next, gate' = gate, TurnsIn(queue') = TurnsIn(queue), Distinct(queue'),
         frame' = frame \/ (frame.t \notin Turns /\ frame'.t \notin Turns),
         Alive' => Alive /\ reply'.t = reply.t
  PROVE  Once' /\ SameAhead
<1>1. ASSUME NEW t \in Turns PROVE Ahead(t)' <=> Ahead(t)
  BY DEF Ahead
<1>2. Alive' => ~Ahead(reply.t)'
  <2> SUFFICES ASSUME Alive' PROVE ~Ahead(reply.t)'
    OBVIOUS
  <2>1. Alive /\ reply'.t = reply.t /\ reply.t \in Turns /\ ~Ahead(reply.t)
    BY DEF Once, Kinds
  <2> QED BY <2>1 DEF Ahead
<1> QED BY <1>1, <1>2 DEF Once, SameAhead

(* What a step does to the places of the turns: nothing; or a reply starts *)
(* for the turn at hand; or the reply does something.                      *)
Started(t) ==
  /\ t \in Turns
  /\ ~Alive
  /\ Starts(t)
  /\ ~Ahead(t)'
  /\ \A u \in Turns : Ahead(u) <=> Ahead(u)' \/ u = t

Moves ==
  \/ SameAhead /\ SameReply(reply', reply)
  \/ \E t \in Turns : Started(t)
  \/ SameAhead /\ Replies

LEMMA OnceOpens ==
  ASSUME Kinds, Once, next' = next + 1, gate' = gate \cup {next}, UNCHANGED <<queue, frame, reply>>
  PROVE  Once' /\ SameAhead
<1>1. next \in Nat /\ \A t \in Turns : t \in Nat
  BY KindFacts, ZeroIsNoTurn
<1>2. gate \in SUBSET Turns /\ TurnsIn(queue) \in SUBSET Turns
  BY KindFacts DEF TurnsIn
<1>3. ASSUME NEW t \in Turns PROVE Ahead(t)' <=> Ahead(t)
  <2>1. t >= next <=> t >= next' \/ t = next
    BY <1>1
  <2> QED BY <2>1 DEF Ahead
<1>4. \A t \in Turns : t < next => t < next' /\ t # next
  BY <1>1
<1>5. Alive' => ~Ahead(reply.t)'
  BY <1>3 DEF Once, Kinds, Alive
<1>6. \A t \in gate' : t < next'
  BY <1>1, <1>2, <1>4 DEF Once
<1>7. \A t \in TurnsIn(queue') : t < next' /\ t \notin gate'
  BY <1>2, <1>4 DEF Once
<1>8. frame'.t \in Turns => frame'.t < next' /\ frame'.t \notin gate' /\ frame'.t \notin TurnsIn(queue')
  BY <1>4 DEF Once
<1> QED BY <1>3, <1>5, <1>6, <1>7, <1>8 DEF Once, SameAhead

LEMMA OnceDispatch ==
  ASSUME Kinds, Once, NEW t \in Turns, Dispatch(t)
  PROVE  Once' /\ SameAhead /\ reply' = reply
<1>1. t \in gate /\ gate' = gate \ {t} /\ Joins(queue, queue', "turn", t) /\ UNCHANGED <<next, frame, reply>>
  BY DispatchDoes
<1>2. t \notin TurnsIn(queue) /\ t < next
  BY <1>1 DEF Once
<1>3. TurnsIn(queue') = TurnsIn(queue) \cup {t} /\ Distinct(queue')
  BY <1>1, <1>2 DEF Joins, Once
<1>4. ASSUME NEW u \in Turns PROVE Ahead(u)' <=> Ahead(u)
  BY <1>1, <1>3 DEF Ahead
<1>5. Alive' => ~Ahead(reply.t)'
  BY <1>1, <1>4 DEF Once, Kinds, Alive
<1> QED BY <1>1, <1>2, <1>3, <1>4, <1>5 DEF Once, SameAhead

LEMMA OnceHandleTurn ==
  ASSUME Kinds, Once, HandleTurn
  PROVE  Once' /\ Moves
<1>1. PICK t \in Turns :
       /\ IsNoFrame
       /\ t \in TurnsIn(queue)
       /\ Leaves(queue, queue', "turn", t)
       /\ \/ Killed("turn", t) /\ sid' = sid
          \/ ~Alive /\ Starts(t) /\ frame' = frame
       /\ UNCHANGED userVars
  BY HandleTurnDoes
<1>2. /\ next' = next /\ gate' = gate /\ frame.t \notin Turns
      /\ TurnsIn(queue) = TurnsIn(queue') \cup {t}
      /\ Distinct(queue') /\ t \notin TurnsIn(queue') /\ t < next /\ t \notin gate
  BY <1>1, NoFrameFacts, ZeroIsNoTurn DEF Once, Leaves, userVars, IsNoFrame
<1>3. next \in Nat /\ t \in Nat /\ ~(t >= next)
  BY <1>2, KindFacts, ZeroIsNoTurn
<1>4. CASE Killed("turn", t)
  <2>1. frame'.t = t /\ SameReply(reply', reply) /\ Alive
    BY <1>4 DEF Killed
  <2>2. ASSUME NEW u \in Turns PROVE Ahead(u)' <=> Ahead(u)
    BY <1>2, <2>1 DEF Ahead
  <2>3. reply'.t = reply.t /\ reply.t \in Turns /\ ~Ahead(reply.t)
    BY <2>1 DEF Once, Kinds, SameReply
  <2>4. ~Ahead(reply.t)'
    BY <2>2, <2>3
  <2> QED BY <1>2, <2>1, <2>2, <2>3, <2>4 DEF Once, SameAhead, Moves
<1>5. CASE ~Alive /\ Starts(t) /\ frame' = frame
  <2>1. \A u \in Turns : Ahead(u) <=> Ahead(u)' \/ u = t
    BY <1>2, <1>5 DEF Ahead
  <2>2. ~Ahead(t)'
    BY <1>2, <1>3, <1>5 DEF Ahead
  <2>3. reply'.t = t
    BY <1>5 DEF Starts
  <2>4. Started(t)
    BY <1>5, <2>1, <2>2 DEF Started
  <2> QED BY <1>2, <1>5, <2>2, <2>3, <2>4 DEF Once, Moves
<1> QED BY <1>1, <1>4, <1>5

LEMMA OnceTurnResumes ==
  ASSUME Kinds, Once, TurnResumes
  PROVE  Once' /\ Moves
<1>0. PICK t \in Turns : t = frame.t
  BY TurnResumesDoes
<1>1. t \in Turns /\ ~Alive /\ Starts(t) /\ frame' = NoFrame /\ UNCHANGED <<next, gate, queue>>
  BY <1>0, TurnResumesDoes DEF userVars
<1>2. frame'.t \notin Turns /\ frame'.t # t
  BY <1>1, NoFrameFacts, ZeroIsNoTurn
<1>9. t < next /\ t \notin gate /\ t \notin TurnsIn(queue)
  BY <1>0, <1>1 DEF Once
<1>3. t < next /\ t \notin gate /\ t \notin TurnsIn(queue) /\ next \in Nat /\ t \in Nat /\ ~(t >= next)
  BY <1>9, KindFacts, ZeroIsNoTurn
<1>4. \A u \in Turns : frame'.t # u
  BY <1>2
<1>5. \A u \in Turns : Ahead(u) <=> Ahead(u)' \/ u = t
  BY <1>0, <1>1, <1>4 DEF Ahead
<1>6. ~Ahead(t)'
  BY <1>1, <1>2, <1>3 DEF Ahead
<1>7. reply'.t = t
  BY <1>1 DEF Starts
<1>8. Started(t)
  BY <1>1, <1>5, <1>6 DEF Started
<1> QED BY <1>1, <1>2, <1>6, <1>7, <1>8 DEF Once, Moves

LEMMA OnceStep == ASSUME Kinds, Once, [Next]_vars PROVE Once' /\ Moves
<1>1. CASE UserStarts
  <2>1. /\ UNCHANGED <<next, gate, frame, reply>>
        /\ TurnsIn(queue') = TurnsIn(queue) /\ Distinct(queue')
    BY <1>1, UserStartsDoes, ZeroIsNoTurn DEF Joins, Once, TurnsIn
  <2> QED BY <2>1, OnceSame DEF Moves, SameReply, Alive
<1>2. CASE DeviceStops
  <2>1. /\ UNCHANGED <<next, gate, frame, reply>>
        /\ TurnsIn(queue') = TurnsIn(queue) /\ Distinct(queue')
    BY <1>2, DeviceStopsDoes, ZeroIsNoTurn DEF Joins, Once, TurnsIn, userVars
  <2> QED BY <2>1, OnceSame DEF Moves, SameReply, Alive
<1>3. CASE UserStops \/ AckFires
  <2>1. next' = next + 1 /\ gate' = gate \cup {next} /\ UNCHANGED <<queue, frame, reply>>
    BY <1>3, UserStopsDoes, AckFiresDoes, OpenRowDoes
  <2> QED BY <2>1, OnceOpens DEF Moves, SameReply
<1>4. ASSUME UNCHANGED <<next, gate, queue, frame>>, Alive' => Alive /\ reply'.t = reply.t
      PROVE  Once' /\ SameAhead
  BY <1>4, OnceSame DEF Once
<1>5. CASE UserStopsBlank \/ WakeWord \/ (\E a \in acks : DevicePlayed(a)) \/ InjectBegins \/ Injected
  <2>1. UNCHANGED <<next, gate, queue, frame>> /\ SameReply(reply', reply)
    BY <1>5, InjectBeginsDoes, InjectedDoes DEF UserStopsBlank, WakeWord, DevicePlayed, userVars,
       SameReply
  <2> QED BY <1>4, <2>1 DEF Moves, SameReply, Alive
<1>6. CASE Replies
  <2>1. UNCHANGED <<next, gate, queue, frame>>
    BY <1>6 DEF Replies, ReplyRuns, AgentReady, AgentFails, ReplyDies, ReplySpeaks, ReplyEnds,
       ReplyKilled,
       ReplyTail, userVars
  <2>2. Alive /\ (reply' = NoReply \/ reply'.t = reply.t)
    BY <1>6, ReplyRunsDoes, AgentReadyDoes, ReplySpeaksDoes, ReplyEndsDoes
    DEF Replies, AgentFails, ReplyDies, ReplyKilled, ReplyTail, Alive
  <2> QED BY <1>4, <1>6, <2>1, <2>2, NoReplyFacts DEF Moves, Alive
<1>7. CASE HandleInterrupt \/ HandleDeviceAbort
  <2>1. /\ UNCHANGED <<next, gate>>
        /\ frame.t \notin Turns
        /\ TurnsIn(queue') = TurnsIn(queue) /\ Distinct(queue')
    BY <1>7, HandleInterruptDoes, HandleDeviceAbortDoes, NoFrameFacts, ZeroIsNoTurn
    DEF Leaves, Once, IsNoFrame, userVars
  <2>2. /\ frame' = frame \/ frame'.t \notin Turns
        /\ SameReply(reply', reply)
    BY <1>7, HandleInterruptDoes, HandleDeviceAbortDoes, ZeroIsNoTurn DEF Killed, SameReply
  <2> QED BY <2>1, <2>2, OnceSame DEF Moves, SameReply, Alive
<1>8. CASE InterruptResumes \/ DeviceAbortResumes
  <2>1. UNCHANGED <<next, gate, queue, reply>> /\ frame' = NoFrame /\ frame.kind # "turn"
    BY <1>8, InterruptResumesDoes, DeviceAbortResumesDoes DEF userVars
  <2>2. frame.t \notin Turns /\ frame'.t \notin Turns
    BY <2>1, NoFrameFacts, ZeroIsNoTurn DEF Kinds
  <2> QED BY <2>1, <2>2, OnceSame DEF Once, Moves, SameReply, Alive
<1>9. CASE \E t \in Turns : Dispatch(t)
  BY <1>9, OnceDispatch DEF Moves, SameReply
<1>10. CASE \E t \in Turns : CommitOnFinalize(t) \/ CloseRow(t) \/ EndRow(t)
  <2>1. UNCHANGED <<next, gate, queue, frame, reply>>
    BY <1>10 DEF CommitOnFinalize, CloseRow, EndRow, userVars
  <2> QED BY <1>4, <2>1 DEF Moves, SameReply, Alive
<1>11. CASE Ending \/ UNCHANGED vars
  <2>1. UNCHANGED <<next, gate, queue, frame>> /\ SameReply(reply', reply)
    BY <1>11, DisconnectDoes DEF Ending, FinalizeSession, Cleanup, vars, userVars, SameReply
  <2> QED BY <1>4, <2>1 DEF Moves, SameReply, Alive
<1> QED
  BY <1>1, <1>2, <1>3, <1>5, <1>6, <1>7, <1>8, <1>9, <1>10, <1>11, OnceHandleTurn, OnceTurnResumes
  DEF Next, Frames, Commits

-----------------------------------------------------------------------------
(* The words of a turn.                                                    *)
Told(t)   == told[t] = 1 \/ t \in pending
Untold(t) == told[t] = 0 /\ t \notin pending

(* A session that is closed in its own time has nothing going on.          *)
Calm == life # "on" => ~Alive /\ gate = {} /\ queue = <<>> /\ frame = NoFrame

LEMMA CalmStep == ASSUME Kinds, Calm, "drop" \notin faults, [Next]_vars PROVE Calm'
<1>1. CASE Disconnect
  <2>1. Quiet /\ reply' = reply /\ UNCHANGED <<gate, queue, frame>>
    BY <1>1, DisconnectDoes DEF Quiet
  <2> QED BY <2>1 DEF Quiet, Calm, Alive
<1>2. CASE life # "on"
  <2>1. ~Alive /\ gate = {} /\ queue = <<>> /\ frame = NoFrame
    BY <1>2 DEF Calm
  <2>2. ~Replies
    BY <2>1 DEF Replies, ReplyRuns, AgentReady, AgentFails, ReplyDies, ReplySpeaks, ReplyEnds,
       ReplyKilled,
       ReplyTail, Alive
  <2>3. ~Frames
    BY <2>1, NoFrameFacts DEF Frames, HandleTurn, TurnResumes, HandleInterrupt, InterruptResumes,
       HandleDeviceAbort, DeviceAbortResumes, Take
  <2>4. ~UserStarts /\ ~UserStops /\ ~UserStopsBlank /\ ~AckFires /\ ~DeviceStops
        /\ ~\E a \in acks : DevicePlayed(a)
    BY <1>2 DEF UserStarts, UserStops, UserStopsBlank, AckFires, DeviceStops, DevicePlayed
  <2>5. ~\E t \in Turns : Dispatch(t)
    BY <2>1 DEF Dispatch
  <2>6. CASE WakeWord
    BY <1>2, <2>6 DEF WakeWord
  <2>7. CASE InjectBegins \/ Injected
    BY <2>1, <2>7, InjectBeginsDoes, InjectedDoes DEF Calm, userVars, Alive
  <2>8. CASE \E t \in Turns : CommitOnFinalize(t) \/ CloseRow(t) \/ EndRow(t)
    BY <2>1, <2>8 DEF CommitOnFinalize, CloseRow, EndRow, Calm, userVars, Alive
  <2>9. CASE FinalizeSession \/ Cleanup \/ UNCHANGED vars
    BY <2>1, <2>9 DEF FinalizeSession, Cleanup, vars, Calm, userVars, Alive
  <2> QED
    BY <1>1, <2>2, <2>3, <2>4, <2>5, <2>6, <2>7, <2>8, <2>9 DEF Next, Commits, Ending
<1>3. CASE life = "on" /\ ~Disconnect
  <2>1. life' = "on"
    <3>1. CASE UserStarts \/ UserStops \/ UserStopsBlank \/ WakeWord \/ AckFires \/ DeviceStops
      BY <1>3, <3>1 DEF UserStarts, UserStops, UserStopsBlank, WakeWord, AckFires, DeviceStops
    <3>2. CASE (\E a \in acks : DevicePlayed(a)) \/ InjectBegins \/ Injected
      BY <1>3, <3>2 DEF DevicePlayed, InjectBegins, Injected, InjectResumes, InjectSpeaks,
         InjectEnds
    <3>3. CASE Frames
      BY <1>3, <3>3 DEF Frames, HandleTurn, TurnResumes, HandleInterrupt, InterruptResumes,
         HandleDeviceAbort, DeviceAbortResumes
    <3>4. CASE Replies
      BY <1>3, <3>4 DEF Replies, ReplyRuns, AgentReady, AgentFails, ReplyDies, ReplySpeaks,
         ReplyEnds,
         ReplyKilled, ReplyTail
    <3>5. CASE Commits
      BY <1>3, <3>5 DEF Commits, Dispatch, CommitOnFinalize, CloseRow, EndRow
    <3>6. CASE FinalizeSession \/ Cleanup \/ UNCHANGED vars
      BY <1>3, <3>6 DEF FinalizeSession, Cleanup, vars
    <3> QED BY <1>3, <3>1, <3>2, <3>3, <3>4, <3>5, <3>6 DEF Next, Ending
  <2> QED BY <2>1 DEF Calm
<1> QED BY <1>1, <1>2, <1>3

LEMMA OnlyCleanupEnds == ASSUME Kinds, [Next]_vars, life' = "over" PROVE life = "over" \/ Cleanup
<1>1. CASE UserStarts \/ UserStops \/ UserStopsBlank \/ WakeWord \/ AckFires \/ DeviceStops
  BY <1>1 DEF UserStarts, UserStops, UserStopsBlank, WakeWord, AckFires, DeviceStops
<1>2. CASE (\E a \in acks : DevicePlayed(a)) \/ InjectBegins \/ Injected
  BY <1>2 DEF DevicePlayed, InjectBegins, Injected, InjectResumes, InjectSpeaks, InjectEnds
<1>3. CASE Frames
  BY <1>3 DEF Frames, HandleTurn, TurnResumes, HandleInterrupt, InterruptResumes, HandleDeviceAbort,
     DeviceAbortResumes
<1>4. CASE Replies
  BY <1>4 DEF Replies, ReplyRuns, AgentReady, AgentFails, ReplyDies, ReplySpeaks, ReplyEnds,
     ReplyKilled,
     ReplyTail
<1>5. CASE Commits
  BY <1>5 DEF Commits, Dispatch, CommitOnFinalize, CloseRow, EndRow
<1>6. CASE Disconnect \/ FinalizeSession \/ UNCHANGED vars
  BY <1>6 DEF Disconnect, FinalizeSession, vars
<1> QED BY <1>1, <1>2, <1>3, <1>4, <1>5, <1>6 DEF Next, Ending

(* Words change hands when a reply ends, and when the session is over.     *)
LEMMA WordsMove ==
  ASSUME Kinds, [Next]_vars
  PROVE  ReplyEnds \/ ReplyKilled \/ Cleanup \/ (told' = told /\ pending' = pending)
<1>1. CASE Frames
  BY <1>1 DEF Frames, HandleTurn, TurnResumes, HandleInterrupt, InterruptResumes, HandleDeviceAbort,
     DeviceAbortResumes, wordVars
<1>2. CASE Replies
  BY <1>2 DEF Replies, ReplyRuns, AgentReady, AgentFails, ReplyDies, ReplySpeaks, ReplyTail,
     wordVars
<1>3. CASE InjectBegins \/ Injected \/ Disconnect
  BY <1>3 DEF InjectBegins, Injected, InjectResumes, InjectSpeaks, InjectEnds, Disconnect, wordVars
<1> QED BY <1>1, <1>2, <1>3, OwnSteps DEF wordVars

TellsOnce ==
  /\ \A t \in Turns : told[t] <= 1 /\ (told[t] = 1 => t \notin pending)
  /\ \A t \in Turns : Ahead(t) => Untold(t)
  /\ reply.phase \notin {"none", "tail"} => Untold(reply.t)
  /\ reply.phase \in {"gen", "play"} => reply.prior = pending
  /\ life = "over" => pending = {}

(* The words of the reply and of the turns kept for it are written, or     *)
(* kept for the next.                                                      *)
LEMMA SettleWords ==
  ASSUME Kinds, Once, TellsOnce, Settles, reply.phase \in {"gen", "play"}
  PROVE  /\ \A t \in Turns : told'[t] <= 1 /\ (told'[t] = 1 => t \notin pending')
         /\ \A t \in Turns : Ahead(t) => told'[t] = 0 /\ t \notin pending'
         /\ \A t \in Turns : Told(t) \/ t = reply.t => told'[t] = 1 \/ t \in pending'
<1>1. /\ told \in [Turns -> Nat] /\ reply.t \in Turns /\ ~Ahead(reply.t)
      /\ reply.prior = pending /\ told[reply.t] = 0 /\ reply.t \notin pending
  BY KindFacts, ReplyFacts DEF Once, TellsOnce, Untold, Alive
<1>2. \A t \in Turns : told[t] \in Nat /\ told[t] <= 1 /\ (told[t] = 1 => t \notin pending)
  BY <1>1 DEF TellsOnce
<1>3. \A t \in Turns : Ahead(t) => told[t] = 0 /\ t \notin pending /\ t # reply.t
  BY <1>1 DEF TellsOnce, Untold
<1>4. CASE /\ pending' = {}
           /\ \A t \in Turns : told'[t] = IF t \in reply.prior \/ t = reply.t THEN told[t] + 1 ELSE told[t]
  <2>1. \A t \in Turns : t \in pending \/ t = reply.t => told[t] = 0 /\ told'[t] = told[t] + 1
    BY <1>1, <1>2, <1>4
  <2>2. \A t \in Turns : ~(t \in pending \/ t = reply.t) => told'[t] = told[t]
    BY <1>1, <1>4
  <2>3. \A t \in Turns : told'[t] <= 1 /\ (told'[t] = 1 => t \notin pending')
    BY <1>2, <1>4, <2>1, <2>2
  <2>4. \A t \in Turns : Ahead(t) => told'[t] = 0 /\ t \notin pending'
    BY <1>3, <1>4, <2>2
  <2>5. \A t \in Turns : Told(t) \/ t = reply.t => told'[t] = 1 \/ t \in pending'
    BY <2>1, <2>2 DEF Told
  <2> QED BY <2>3, <2>4, <2>5
<1>5. CASE pending' = reply.prior \cup {reply.t} /\ told' = told
  BY <1>1, <1>2, <1>3, <1>5 DEF Told
<1> QED BY <1>4, <1>5, SettlesDoes

LEMMA TellsSame ==
  ASSUME Kinds, TellsOnce, SameAhead, told' = told, pending' = pending,
         life' = "over" => life = "over",
         reply'.phase \notin {"none", "tail"} => reply.phase \notin {"none", "tail"} /\ reply'.t = reply.t,
         reply'.phase \in {"gen", "play"} => reply'.prior = pending
  PROVE  TellsOnce'
<1>1. \A t \in Turns : told'[t] <= 1 /\ (told'[t] = 1 => t \notin pending')
  BY DEF TellsOnce
<1>2. \A t \in Turns : Ahead(t)' => Untold(t)'
  BY DEF TellsOnce, SameAhead, Untold
<1>3. ASSUME reply'.phase \notin {"none", "tail"} PROVE Untold(reply.t)'
  BY <1>3 DEF TellsOnce, Untold
<1>4. life' = "over" => pending' = {}
  BY DEF TellsOnce
<1> QED BY <1>1, <1>2, <1>3, <1>4 DEF TellsOnce

LEMMA AheadStays == ASSUME UNCHANGED <<next, gate, frame, queue>> PROVE SameAhead
BY DEF SameAhead, Ahead

LEMMA TellsStep ==
  ASSUME Kinds, Once, Calm, TellsOnce, "drop" \notin faults, [Next]_vars
  PROVE  TellsOnce'
<1>0. told \in [Turns -> Nat] /\ pending \in SUBSET Turns
  BY KindFacts
<1>1. CASE Cleanup
  <2>1. SameAhead
    BY <1>1, CleanupDoes, AheadStays DEF userVars
  <2>2. reply' = reply /\ reply.phase = "none"
    BY <1>1, CleanupDoes DEF Calm, Alive
  <2>3. pending' = {} /\ \A t \in Turns : told'[t] = IF t \in pending THEN told[t] + 1 ELSE told[t]
    BY <1>0, <1>1, CleanupDoes, WriteDoes
  <2>4. \A t \in Turns : told[t] \in Nat /\ told[t] <= 1 /\ (told[t] = 1 => t \notin pending)
    BY <1>0 DEF TellsOnce
  <2>5. \A t \in Turns : told'[t] <= 1
    BY <2>3, <2>4
  <2>6. \A t \in Turns : Ahead(t)' => Untold(t)'
    BY <2>1, <2>3 DEF SameAhead, TellsOnce, Untold
  <2> QED BY <2>2, <2>3, <2>5, <2>6 DEF TellsOnce
<1>2. CASE ReplyEnds \/ ReplyKilled
  <2>1. SameAhead
    BY <1>2, ReplyEndsDoes, ReplyKilledDoes, AheadStays DEF userVars
  <2>2. Settles /\ reply.phase \in {"gen", "play"} /\ reply'.phase \in {"none", "tail"}
    BY <1>2, ReplyEndsDoes, ReplyKilledDoes, NoReplyFacts
  <2>3. /\ \A t \in Turns : told'[t] <= 1 /\ (told'[t] = 1 => t \notin pending')
        /\ \A t \in Turns : Ahead(t) => told'[t] = 0 /\ t \notin pending'
    BY <2>2, SettleWords
  <2>4. \A t \in Turns : Ahead(t)' => Untold(t)'
    BY <2>1, <2>3 DEF SameAhead, Untold
  <2>5. life' = "on"
    <3>1. life = "on"
      BY <2>2 DEF Calm, Alive
    <3> QED BY <1>2, <3>1 DEF ReplyEnds, ReplyKilled
  <2> QED BY <2>2, <2>3, <2>4, <2>5 DEF TellsOnce
<1>3. CASE told' = told /\ pending' = pending /\ ~Cleanup /\ ~ReplyEnds /\ ~ReplyKilled
  <2>0. life' = "over" => life = "over"
    BY <1>3, OnlyCleanupEnds
  <2>1. CASE SameAhead /\ SameReply(reply', reply)
    BY <1>3, <2>0, <2>1, TellsSame DEF SameReply, TellsOnce
  <2>2. CASE \E t \in Turns : Started(t)
    <3>1. PICK t \in Turns : Started(t)
      BY <2>2
    <3>2. reply'.t = t /\ reply'.phase = "new" /\ Ahead(t) /\ \A u \in Turns : Ahead(u)' => Ahead(u)
      BY <3>1 DEF Started, Starts
    <3>3. \A u \in Turns : Ahead(u)' => Untold(u)'
      BY <1>3, <3>2 DEF TellsOnce, Untold
    <3>4. Untold(reply.t)'
      BY <1>3, <3>2 DEF TellsOnce, Untold
    <3> QED BY <1>3, <2>0, <3>2, <3>3, <3>4 DEF TellsOnce
  <2>3. CASE SameAhead /\ Replies
    <3>1. CASE ReplyRuns
      <4>1. reply.phase = "new" /\ reply'.t = reply.t
            /\ (reply'.phase \in {"gen", "play"} => reply'.prior = pending)
        BY <3>1, ReplyRunsDoes, KindFacts
      <4> QED BY <1>3, <2>0, <2>3, <4>1, TellsSame
    <3>2. CASE AgentReady
      BY <1>3, <2>0, <2>3, <3>2, AgentReadyDoes, TellsSame
    <3>3. CASE AgentFails \/ ReplyDies \/ ReplyTail
      <4>1. reply' = NoReply
        BY <3>3 DEF AgentFails, ReplyDies, ReplyTail
      <4> QED BY <1>3, <2>0, <2>3, <4>1, NoReplyFacts, TellsSame
    <3>4. CASE ReplySpeaks
      <4>1. reply.phase = "gen" /\ reply'.t = reply.t /\ reply'.prior = reply.prior
        BY <3>4, ReplySpeaksDoes
      <4>2. reply.prior = pending
        BY <4>1 DEF TellsOnce
      <4> QED BY <1>3, <2>0, <2>3, <4>1, <4>2, TellsSame
    <3> QED BY <1>3, <2>3, <3>1, <3>2, <3>3, <3>4 DEF Replies
  <2> QED BY <2>1, <2>2, <2>3, OnceStep DEF Moves
<1> QED BY <1>1, <1>2, <1>3, WordsMove

(* A reply that is killed has begun, if a new task runs before the next    *)
(* frame comes and there is a PigAgent.                                    *)
TellsAll ==
  /\ pig
  /\ reply.phase # "agent"
  /\ reply.phase = "new" => ~reply.cancelled
  /\ \A t \in Turns : \/ Ahead(t)
                      \/ reply.t = t /\ reply.phase # "tail"
                      \/ Told(t)

LEMMA PigStays == ASSUME Kinds, pig, [Next]_vars PROVE pig'
<1>1. CASE Frames
  BY <1>1 DEF Frames, HandleTurn, TurnResumes, HandleInterrupt, InterruptResumes, HandleDeviceAbort,
     DeviceAbortResumes
<1>2. CASE Replies
  BY <1>2 DEF Replies, ReplyRuns, AgentReady, AgentFails, ReplyDies, ReplySpeaks, ReplyEnds,
     ReplyKilled,
     ReplyTail
<1>3. CASE InjectBegins \/ Injected \/ Disconnect \/ Cleanup
  BY <1>3 DEF InjectBegins, Injected, InjectResumes, InjectSpeaks, InjectEnds, Disconnect, Cleanup
<1> QED BY <1>1, <1>2, <1>3, OwnSteps

LEMMA NewIsLeft ==
  ASSUME Kinds, TellsAll, "eager" \notin faults, "drop" \notin faults, [Next]_vars, reply'.phase = "new"
  PROVE  ~reply'.cancelled
<1>1. CASE reply' = reply
  BY <1>1 DEF TellsAll
<1>2. CASE Replies
  BY <1>2, ReplyRunsDoes, AgentReadyDoes, ReplySpeaksDoes, ReplyEndsDoes, NoReplyFacts
  DEF Replies, AgentFails, ReplyDies, ReplyKilled, ReplyTail
<1>3. CASE InjectBegins
  <2>1. MayKill /\ SameReply(reply', reply) /\ (Alive \/ reply' = reply)
    BY <1>3, InjectBeginsDoes
  <2>2. reply.phase # "new"
    BY <2>1 DEF MayKill
  <2> QED BY <2>1, <2>2 DEF SameReply
<1>4. CASE Disconnect
  BY <1>1, <1>4, DisconnectDoes DEF Quiet
<1>5. CASE HandleTurn
  <2>1. MayKill /\ \E t \in Turns : Killed("turn", t) \/ Starts(t)
    BY <1>5, HandleTurnDoes
  <2> QED BY <2>1 DEF MayKill, Killed, Starts, SameReply
<1>6. CASE TurnResumes
  BY <1>6, TurnResumesDoes DEF Starts
<1>7. CASE HandleInterrupt \/ HandleDeviceAbort
  <2>1. MayKill /\ (Killed("interrupt", 0) \/ Killed("abort", 0) \/ reply' = reply)
    BY <1>7, HandleInterruptDoes, HandleDeviceAbortDoes
  <2>2. CASE Killed("interrupt", 0) \/ Killed("abort", 0)
    BY <2>1, <2>2 DEF MayKill, Killed, SameReply
  <2> QED BY <1>1, <2>1, <2>2
<1>8. CASE InterruptResumes \/ DeviceAbortResumes
  BY <1>1, <1>8, InterruptResumesDoes, DeviceAbortResumesDoes
<1>9. CASE Injected \/ Cleanup
  BY <1>1, <1>9, InjectedDoes, CleanupDoes
<1> QED BY <1>1, <1>2, <1>3, <1>4, <1>5, <1>6, <1>7, <1>8, <1>9, OwnSteps DEF Frames

LEMMA TellsAllStep ==
  ASSUME Kinds, Once, Calm, TellsOnce, TellsAll, [Next]_vars,
         "drop" \notin faults, "eager" \notin faults
  PROVE  TellsAll'
<1>0. /\ pig'
      /\ reply'.phase = "new" => ~reply'.cancelled
      /\ told \in [Turns -> Nat] /\ pending \in SUBSET Turns
  BY PigStays, NewIsLeft, KindFacts DEF TellsAll
<1>1. CASE Cleanup
  <2>1. SameAhead /\ reply' = reply
    BY <1>1, CleanupDoes, AheadStays DEF userVars
  <2>3. \A t \in Turns : told'[t] = IF t \in pending THEN told[t] + 1 ELSE told[t]
    BY <1>0, <1>1, CleanupDoes, WriteDoes
  <2>4. \A t \in Turns : told[t] \in Nat /\ told[t] <= 1 /\ (told[t] = 1 => t \notin pending)
    BY <1>0 DEF TellsOnce
  <2>5. \A t \in Turns : Told(t) => told'[t] = 1
    BY <2>3, <2>4 DEF Told
  <2>6. \A t \in Turns : Told(t) => Told(t)'
    BY <2>5 DEF Told
  <2> QED BY <1>0, <2>1, <2>6 DEF TellsAll, SameAhead
<1>2. CASE ReplyEnds \/ ReplyKilled
  <2>1. SameAhead
    BY <1>2, ReplyEndsDoes, ReplyKilledDoes, AheadStays DEF userVars
  <2>2. Settles /\ reply.phase \in {"gen", "play"} /\ reply'.phase \in {"none", "tail"}
    BY <1>2, ReplyEndsDoes, ReplyKilledDoes, NoReplyFacts
  <2>3. \A t \in Turns : Told(t) \/ t = reply.t => told'[t] = 1 \/ t \in pending'
    BY <2>2, SettleWords
  <2>4. \A t \in Turns : Told(t) \/ t = reply.t => Told(t)'
    BY <2>3 DEF Told
  <2> QED BY <1>0, <2>1, <2>2, <2>4 DEF TellsAll, SameAhead
<1>3. CASE told' = told /\ pending' = pending /\ ~ReplyEnds /\ ~ReplyKilled
  <2>0. \A t \in Turns : Told(t) => Told(t)'
    BY <1>3 DEF Told
  <2>1. CASE SameAhead /\ SameReply(reply', reply)
    BY <1>0, <2>0, <2>1 DEF TellsAll, SameAhead, SameReply
  <2>2. CASE \E t \in Turns : Started(t)
    <3>1. PICK t \in Turns : Started(t)
      BY <2>2
    <3>2. /\ reply'.t = t /\ reply'.phase = "new"
          /\ \A u \in Turns : Ahead(u) => Ahead(u)' \/ u = t
          /\ ~Alive
      BY <3>1 DEF Started, Starts
    <3>3. \A u \in Turns : reply.t # u
      BY <3>2, NoReplyFacts, ZeroIsNoTurn DEF Kinds
    <3> QED BY <1>0, <2>0, <3>2, <3>3 DEF TellsAll
  <2>3. CASE SameAhead /\ Replies
    <3>1. CASE ReplyRuns
      <4>1. reply'.t = reply.t /\ reply'.phase = "gen"
        BY <3>1, ReplyRunsDoes DEF TellsAll
      <4> QED BY <1>0, <2>0, <2>3, <4>1 DEF TellsAll, SameAhead
    <3>2. ~AgentReady /\ ~AgentFails /\ ~ReplyDies
      BY DEF TellsAll, AgentReady, AgentFails, ReplyDies
    <3>3. CASE ReplyTail
      <4>1. reply.phase = "tail" /\ reply' = NoReply
        BY <3>3 DEF ReplyTail
      <4> QED BY <1>0, <2>0, <2>3, <4>1, NoReplyFacts DEF TellsAll, SameAhead
    <3>4. CASE ReplySpeaks
      <4>1. reply'.t = reply.t /\ reply'.phase = "play"
        BY <3>4, ReplySpeaksDoes
      <4> QED BY <1>0, <2>0, <2>3, <4>1 DEF TellsAll, SameAhead
    <3> QED BY <1>3, <2>3, <3>1, <3>2, <3>3, <3>4 DEF Replies
  <2> QED BY <2>1, <2>2, <2>3, OnceStep DEF Moves
<1> QED BY <1>1, <1>2, <1>3, WordsMove

WordInv ==
  /\ Once
  /\ Without({"drop"}) => Calm /\ TellsOnce
  /\ Without({"drop", "eager", "agent"}) => TellsAll

LEMMA WordStep == ASSUME Kinds, WordInv, [Next]_vars PROVE WordInv'
<1>1. faults' = faults
  BY FaultsStay
<1>2. Once'
  BY OnceStep DEF WordInv
<1>3. Without({"drop"}) => (Calm /\ TellsOnce)'
  BY CalmStep, TellsStep DEF WordInv, Without
<1>4. Without({"drop", "eager", "agent"}) => TellsAll'
  BY TellsAllStep DEF WordInv, Without
<1> QED BY <1>1, <1>2, <1>3, <1>4 DEF WordInv, Without

LEMMA WordInit == Init => WordInv
<1> SUFFICES ASSUME Init PROVE WordInv
  OBVIOUS
<1>1. /\ TurnsIn(queue) = {} /\ Distinct(queue) /\ frame.t \notin Turns /\ ~Alive /\ reply.phase = "none"
  BY NothingQueued, NoFrameFacts, NoReplyFacts, ZeroIsNoTurn DEF Init, Alive
<1>2. Once /\ Calm
  BY <1>1 DEF Init, Once, Calm
<1>3. \A t \in Turns : told[t] = 0 /\ t \notin pending
  BY DEF Init
<1>4. TellsOnce
  BY <1>1, <1>3 DEF Init, TellsOnce, Untold
<1>5. \A t \in Turns : t >= next
  BY DEF Init, Turns
<1>6. "agent" \notin faults => TellsAll
  BY <1>1, <1>5 DEF Init, TellsAll, Ahead
<1> QED BY <1>2, <1>4, <1>6 DEF WordInv, Without

LEMMA WordsHold == ASSUME Kinds, WordInv, WakeInv PROVE WordsOnce
<1>1. \A i \in DOMAIN queue : i \in 1..Len(queue)
  BY KindFacts, LenProperties
<1>2. ASSUME NEW t \in Turns, Without({"drop", "eager", "agent"}), Over(t) PROVE Told(t)
  <2>1. TellsAll
    BY <1>2 DEF WordInv
  <2>2. next \in Nat /\ t \in Nat /\ t < next
    BY <1>2, KindFacts, ZeroIsNoTurn DEF Over
  <2>3. ~(t >= next)
    BY <2>2
  <2>4. t \notin TurnsIn(queue)
    <3>1. DOMAIN queue = 1..Len(queue)
      BY KindFacts, LenProperties
    <3> QED BY <1>2, <3>1 DEF Over, TurnsIn
  <2>5. ~Ahead(t) /\ reply.t # t
    BY <1>2, <2>3, <2>4 DEF Over, Ahead
  <2> QED BY <2>1, <2>5 DEF TellsAll
<1>3. WordsKept
  BY <1>2 DEF WordsKept, WordInv, TellsOnce, Told
<1>4. prefixed <= WakeCount - user.words
  <2>1. user.words \in Nat /\ WakeCount \in Nat /\ prefixed \in Nat
    BY KindFacts, Counts DEF UserRows
  <2>2. One(user.captured) \in Nat /\ One(ack) \in Nat
    BY DEF One
  <2> QED BY <2>1, <2>2 DEF WakeInv
<1> QED BY <1>3, <1>4 DEF WordsOnce, WakeWordOnce

(* The words of a turn reach the context of the agent once, with the turn  *)
(* or kept for the next one, where the session ends in its own time, new   *)
(* tasks run before the next frame and there is an agent; and a wake word  *)
(* is put before one text at most (tts_bridge.py:489-513,                  *)
(* agent_gateway.py:205-296).                                              *)
THEOREM WordsAreTold == Spec => []WordsOnce
<1>1. Init => Kinds /\ WordInv /\ WakeInv
  BY KindsInit, WordInit, WakeInit
<1>2. Kinds /\ WordInv /\ WakeInv /\ [Next]_vars => (Kinds /\ WordInv /\ WakeInv)'
  BY KindsStep, WordStep, WakeStep
<1>3. Kinds /\ WordInv /\ WakeInv => WordsOnce
  BY WordsHold
<1> QED BY <1>1, <1>2, <1>3, PTL DEF Spec

====
