--------------------------- MODULE RoastGameProofs ---------------------------
(***************************************************************************)
(* Theorems of RoastGame: its types, whatever overlaps and fails, and, for *)
(* games played as designed by one voice, for every number of games and    *)
(* rounds, that a game goes forward, announces its end, is settled once    *)
(* and closed before the next.                                             *)
(*                                                                         *)
(* In calm play one task at a time has something to write: the turn, or    *)
(* the tick it left.  CalmInv says what: the tick saves the game there is, *)
(* one round on (Plan); the turn settles that game (Settling) or replaces  *)
(* it (Starting).                                                          *)
(***************************************************************************)
EXTENDS MCRoastGame, SequenceTheorems, TLAPS

(* One connection, and no turn of the REST API beside it.                  *)
OneVoice == \A q, r \in Turns : q = r

(* The writes there can be.                                                *)
Proper(w) ==
  /\ w.to = "record" => w.what \in Reasons
  /\ w.to = "pending" => w.what \in {"hint", "closing"}
  /\ w.to = "card" => w.state # NoState

ProperWrites == {w \in Writes : Proper(w)}

TurnRows == [step : {"idle", "loaded", "told", "talking"}, own : States, todo : Seq(ProperWrites)]
TickRows == [own : States, todo : Seq(ProperWrites)]

RowsOK == turn \in [Turns -> TurnRows] /\ tick \in [Ticks -> TickRows]

StoredOK ==
  /\ postgres \in BOOLEAN /\ active \in States
  /\ history \in [Games -> Phases \cup {None}]
  /\ record \in [Games -> Reasons \cup {None}]
  /\ cards \in [Games -> 0..CardCount]
  /\ pending \in [Games -> {"hint", "closing", None}]
  /\ started \in 0..GameCount

TypeInv == StoredOK /\ RowsOK

(* s is what a tick makes of the game a.                                   *)
Follows(a, s) ==
  /\ s \in States /\ s.game = a.game
  /\ s.phase \in {"active", "closing"}
  /\ s.turns \in {a.turns, a.turns + 1}

(* A tick writes prompts, then the state, then the history of the game a;  *)
(* a state that is closing comes after the prompt that says so.            *)
Plan(todo, a, prompt) ==
  /\ a # NoState
  /\ Len(todo) > 1 => a.phase = "active"
  /\ \A i \in 1..Len(todo) :
       /\ todo[i].state.game = a.game
       /\ i = Len(todo) => todo[i].to = "history"
       /\ i = Len(todo) - 1 =>
            /\ todo[i].to = "active" /\ Follows(a, todo[i].state)
            /\ todo[i].state.phase = "closing" =>
                 (IF i = 1 THEN prompt[a.game] ELSE todo[i - 1].what) = "closing"
       /\ i < Len(todo) - 1 => todo[i].to = "pending"

(* A turn settles the game a: k writes are left up to its record.          *)
Settling(todo, a, rec, k) ==
  /\ a # NoState /\ k \in {Len(todo), Len(todo) - 1} /\ k \in 0..3
  /\ a.phase \in (IF k = 3 THEN {"active", "closing"} ELSE {"settled"})
  /\ k > 0 => rec[a.game] = None
  /\ \A i \in 1..Len(todo) :
       /\ todo[i].state.game = a.game
       /\ i = k - 2 => todo[i].to = "active" /\ todo[i].state = In(a, "settled")
       /\ i = k - 1 => todo[i].to = "history"
       /\ i = k => todo[i].to = "record"
       /\ i > k => todo[i].to = "card"

(* A turn replaces the game a, or closes it: k writes are left until it is *)
(* gone, then the new game may be written.                                 *)
Starting(todo, a, hist, rec, last, k) ==
  /\ k \in {Len(todo), Len(todo) - 1} /\ k \in 0..2
  /\ k > 0 <=> a # NoState
  /\ k = 1 => hist[a.game] = "closed"
  /\ Len(todo) > k => rec[last] = None /\ a.game # last /\ last > 0
  /\ \A i \in 1..Len(todo) :
       /\ i = k - 1 => todo[i].to = "history" /\ todo[i].state = In(a, "closed")
       /\ i = k => todo[i].to = "active" /\ todo[i].state = NoState
       /\ i > k => /\ todo[i].to = "active"
                   /\ todo[i].state = [game |-> last, phase |-> "active", turns |-> 0, won |-> FALSE]

Writing(todo, a, hist, rec, last) ==
  \/ todo = <<>>
  \/ \E k \in 0..3 : Settling(todo, a, rec, k)
  \/ \E k \in 0..2 : Starting(todo, a, hist, rec, last, k)

TurnFine(t, a, hist, rec, last) ==
  /\ Writing(t.todo, a, hist, rec, last)
  /\ t.todo # <<>> => t.step \in {"idle", "talking"} /\ ~Playing(t.own)
  /\ t.step = "idle" => t.own = NoState
  /\ t.step \in {"loaded", "told"} \/ Playing(t.own) => t.own = a
  /\ t.step = "told" => t.own # NoState

TickFine(t, a, prompt) ==
  /\ t.own # NoState => t.own = a /\ Playing(a) /\ t.todo = <<>>
  /\ t.todo # <<>> => Plan(t.todo, a, prompt)

(* The game that is about to be written.                                   *)
Coming(todo, g) == todo # <<>> /\ todo[Len(todo)].to = "active" /\ todo[Len(todo)].state.game = g

OneTask ==
  /\ \A t \in Ticks : tick[t] # NoTick => \A r \in Turns : turn[r] = NoTurn
  /\ \A t, u \in Ticks : tick[t] # NoTick /\ tick[u] # NoTick => t = u

(* The games so far: closed, but for the one that is played or comes.      *)
Past ==
  /\ active # NoState => active.game <= started
  /\ \A g \in Games : record[g] # None =>
       g <= started /\ (g = active.game => active.phase \notin {"active", "closing"})
  /\ \A g \in 1..started : history[g] = "closed" \/ g = active.game \/ \E r \in Turns : Coming(turn[r].todo, g)

CalmInv ==
  /\ postgres /\ OneTask /\ Past
  /\ \A r \in Turns : TurnFine(turn[r], active, history, record, started)
  /\ \A t \in Ticks : TickFine(tick[t], active, pending)

(* A card is a turn's last write, after a record of a completed game.      *)
CardDue(todo, i, rec, sent) ==
  /\ i = Len(todo)
  /\ i > 1 => /\ todo[i - 1].to = "record" /\ todo[i - 1].what = "completed"
              /\ todo[i - 1].state.game = todo[i].state.game
  /\ i = 1 => rec[todo[i].state.game] = "completed" /\ sent[todo[i].state.game] = 0

CardsInv ==
  /\ OneCard
  /\ \A r \in Turns : \A i \in 1..Len(turn[r].todo) :
       turn[r].todo[i].to = "card" => CardDue(turn[r].todo, i, record, cards)

RoastInv == calm => CalmInv /\ CardsInv
-----------------------------------------------------------------------------
(* States and writes.                                                      *)
LEMMA NoneFacts == None \notin Nat /\ None # "closing" /\ None # "hint"
BY NoneAssumption

LEMMA StateFacts ==
  /\ NoState \in States /\ NoState.game = None /\ NoState.phase = "none"
  /\ \A s \in States : /\ s # NoState => s.game \in Games /\ s.phase \in Phases /\ s.turns \in 0..MaxTurns
                                         /\ s.game # None
                       /\ s.game = None <=> s = NoState
                       /\ s.phase = "none" <=> s = NoState
                       /\ s.turns \in 0..MaxTurns
                       /\ s = [game |-> s.game, phase |-> s.phase, turns |-> s.turns, won |-> s.won]
<1>1. NoState = [game |-> None, phase |-> "none", turns |-> 0, won |-> FALSE] /\ 0 \in 0..MaxTurns
  BY MaxTurnsAssumption DEF NoState
<1>2. None \notin Games /\ "none" \notin Phases
  BY NoneFacts, CountAssumption DEF Games, Phases
<1> QED BY <1>1, <1>2 DEF States

LEMMA InPhase ==
  ASSUME NEW s \in States, s # NoState, NEW phase \in Phases
  PROVE  /\ In(s, phase) \in States /\ In(s, phase) # NoState
         /\ In(s, phase).game = s.game /\ In(s, phase).phase = phase /\ In(s, phase).turns = s.turns
<1>1. s \in [game : Games, phase : Phases, turns : 0..MaxTurns, won : BOOLEAN]
  BY DEF States
<1>2. In(s, phase) = [game |-> s.game, phase |-> phase, turns |-> s.turns, won |-> s.won]
  BY <1>1 DEF In
<1>3. In(s, phase) \in States /\ In(s, phase).phase # "none"
  BY <1>1, <1>2 DEF States, Phases
<1> QED BY <1>2, <1>3, StateFacts

LEMMA GameBegins ==
  ASSUME started \in 0..GameCount, started < GameCount
  PROVE  NewGame \in States /\ NewGame # NoState /\ started + 1 \in Games
<1>1. started + 1 \in Games /\ 0 \in 0..MaxTurns
  BY CountAssumption, MaxTurnsAssumption DEF Games
<1>2. NewGame \in States /\ NewGame.phase = "active"
  BY <1>1 DEF NewGame, States, Phases
<1> QED BY <1>1, <1>2, StateFacts

LEMMA OneWrite ==
  ASSUME NEW table \in {"active", "history", "record", "card", "pending"}, NEW s \in States, NEW what,
         what \in Reasons \cup {"hint", "closing", None},
         table = "record" => what \in Reasons, table = "pending" => what \in {"hint", "closing"},
         table = "card" => s # NoState
  PROVE  /\ To(table, s, what) \in Seq(ProperWrites)
         /\ Len(To(table, s, what)) = 1
         /\ To(table, s, what)[1] = [to |-> table, state |-> s, what |-> what]
<1> DEFINE w == [to |-> table, state |-> s, what |-> what]
<1>1. w \in ProperWrites
  BY DEF ProperWrites, Writes, Proper
<1> HIDE DEF w
<1>2. To(table, s, what) = <<w>>
  BY DEF To, w
<1>3. <<w>> \in Seq(ProperWrites) /\ Len(<<w>>) = 1 /\ <<w>>[1] = w
  BY <1>1
<1> QED BY <1>2, <1>3 DEF w

LEMMA PromptWrite ==
  ASSUME NEW s \in States, NEW what \in {"hint", "closing"}
  PROVE  /\ To("pending", s, what) \in Seq(ProperWrites) /\ Len(To("pending", s, what)) = 1
         /\ To("pending", s, what)[1].to = "pending" /\ To("pending", s, what)[1].state = s
         /\ To("pending", s, what)[1].what = what
<1>1. what \in Reasons \cup {"hint", "closing", None} /\ "pending" # "record" /\ "pending" # "card"
      /\ "pending" \in {"active", "history", "record", "card", "pending"}
  OBVIOUS
<1>2. To("pending", s, what) \in Seq(ProperWrites) /\ Len(To("pending", s, what)) = 1
  BY <1>1, OneWrite
<1>3. To("pending", s, what)[1].to = "pending" /\ To("pending", s, what)[1].state = s
      /\ To("pending", s, what)[1].what = what
  BY DEF To
<1> QED BY <1>2, <1>3

LEMMA RecordWrite ==
  ASSUME NEW s \in States, NEW reason \in Reasons
  PROVE  /\ To("record", s, reason) \in Seq(ProperWrites) /\ Len(To("record", s, reason)) = 1
         /\ To("record", s, reason)[1].to = "record" /\ To("record", s, reason)[1].state = s
<1>1. reason \in Reasons \cup {"hint", "closing", None} /\ "record" # "pending" /\ "record" # "card"
      /\ "record" \in {"active", "history", "record", "card", "pending"}
  OBVIOUS
<1>2. To("record", s, reason) \in Seq(ProperWrites) /\ Len(To("record", s, reason)) = 1
  BY <1>1, OneWrite
<1>3. To("record", s, reason)[1].to = "record" /\ To("record", s, reason)[1].state = s
  BY DEF To
<1> QED BY <1>2, <1>3

LEMMA CardWrite ==
  ASSUME NEW s \in States, s # NoState
  PROVE  /\ To("card", s, None) \in Seq(ProperWrites) /\ Len(To("card", s, None)) = 1
         /\ To("card", s, None)[1].to = "card" /\ To("card", s, None)[1].state = s
<1>1. None \in Reasons \cup {"hint", "closing", None} /\ "card" # "pending" /\ "card" # "record"
      /\ "card" \in {"active", "history", "record", "card", "pending"}
  OBVIOUS
<1>2. To("card", s, None) \in Seq(ProperWrites) /\ Len(To("card", s, None)) = 1
  BY <1>1, OneWrite
<1>3. To("card", s, None)[1].to = "card" /\ To("card", s, None)[1].state = s
  BY DEF To
<1> QED BY <1>2, <1>3

LEMMA StateWrite ==
  ASSUME NEW s \in States
  PROVE  /\ To("active", s, None) \in Seq(ProperWrites) /\ Len(To("active", s, None)) = 1
         /\ To("active", s, None)[1].to = "active" /\ To("active", s, None)[1].state = s
<1>1. None \in Reasons \cup {"hint", "closing", None} /\ "active" # "pending" /\ "active" # "record" /\ "active" # "card"
      /\ "active" \in {"active", "history", "record", "card", "pending"}
  OBVIOUS
<1>2. To("active", s, None) \in Seq(ProperWrites) /\ Len(To("active", s, None)) = 1
  <2>1. To("active", s, None) \in Seq(ProperWrites)
    BY OneWrite
  <2>2. Len(To("active", s, None)) = 1
    BY DEF To
  <2> QED BY <2>1, <2>2
<1>3. To("active", s, None)[1].to = "active" /\ To("active", s, None)[1].state = s
  BY DEF To
<1> QED BY <1>2, <1>3

(* A list with one more write in front, and one with one more at its end.  *)
LEMMA Front ==
  ASSUME NEW w \in Seq(ProperWrites), Len(w) = 1, NEW s \in Seq(ProperWrites)
  PROVE  /\ w \o s \in Seq(ProperWrites) /\ Len(w \o s) = Len(s) + 1 /\ Len(s) \in Nat
         /\ (w \o s)[1] = w[1]
         /\ \A i \in 2..Len(s) + 1 : (w \o s)[i] = s[i - 1]
<1>1. Len(s) \in Nat
  BY LenProperties
<1>2. w \o s \in Seq(ProperWrites) /\ Len(w \o s) = Len(w) + Len(s)
      /\ \A i \in 1..Len(w) + Len(s) : (w \o s)[i] = IF i <= Len(w) THEN w[i] ELSE s[i - Len(w)]
  BY ConcatProperties
<1> QED BY <1>1, <1>2

LEMMA Third ==
  ASSUME NEW s \in Seq(ProperWrites), NEW w \in Seq(ProperWrites), Len(s) = 2, Len(w) = 1
  PROVE  /\ s \o w \in Seq(ProperWrites) /\ Len(s \o w) = 3
         /\ (s \o w)[1] = s[1] /\ (s \o w)[2] = s[2] /\ (s \o w)[3] = w[1]
<1>1. s \o w \in Seq(ProperWrites) /\ Len(s \o w) = Len(s) + Len(w)
      /\ \A i \in 1..Len(s) + Len(w) : (s \o w)[i] = IF i <= Len(s) THEN s[i] ELSE w[i - Len(s)]
  BY ConcatProperties
<1> QED BY <1>1

LEMMA Fourth ==
  ASSUME NEW s \in Seq(ProperWrites), NEW w \in Seq(ProperWrites), Len(s) = 3, Len(w) \in {0, 1}
  PROVE  /\ s \o w \in Seq(ProperWrites) /\ Len(s \o w) = 3 + Len(w)
         /\ (s \o w)[1] = s[1] /\ (s \o w)[2] = s[2] /\ (s \o w)[3] = s[3]
         /\ Len(w) = 1 => (s \o w)[4] = w[1]
<1>1. s \o w \in Seq(ProperWrites) /\ Len(s \o w) = Len(s) + Len(w)
      /\ \A i \in 1..Len(s) + Len(w) : (s \o w)[i] = IF i <= Len(s) THEN s[i] ELSE w[i - Len(s)]
  BY ConcatProperties
<1> QED BY <1>1

LEMMA NotEmpty == ASSUME NEW s, Len(s) # 0 PROVE s # <<>>
<1>1. Len(<<>>) = 0
  BY EmptySeq
<1> QED BY <1>1

LEMMA MaybeWrite ==
  ASSUME NEW table \in {"history", "record"}, NEW s \in States, NEW what,
         what \in Reasons \cup {None}, table = "record" => what \in Reasons
  PROVE  /\ ToPostgres(table, s, what) \in Seq(ProperWrites)
         /\ postgres => ToPostgres(table, s, what) = To(table, s, what)
<1>1. To(table, s, what) \in Seq(ProperWrites)
  BY OneWrite
<1>2. <<>> \in Seq(ProperWrites)
  BY EmptySeq
<1> QED BY <1>1, <1>2 DEF ToPostgres

LEMMA Pair ==
  ASSUME NEW s \in Seq(ProperWrites), NEW t \in Seq(ProperWrites), Len(s) = 1, Len(t) = 1
  PROVE  s \o t \in Seq(ProperWrites) /\ Len(s \o t) = 2 /\ (s \o t)[1] = s[1] /\ (s \o t)[2] = t[1]
<1>1. s \o t \in Seq(ProperWrites) /\ Len(s \o t) = 1 + 1
      /\ \A i \in 1 .. 1 + 1 : (s \o t)[i] = IF i <= 1 THEN s[i] ELSE t[i - 1]
  BY ConcatProperties
<1> QED BY <1>1

LEMMA SaveWrites ==
  ASSUME NEW s \in States
  PROVE  /\ Save(s) \in Seq(ProperWrites)
         /\ postgres => /\ Len(Save(s)) = 2
                        /\ Save(s)[1] = [to |-> "active", state |-> s, what |-> None]
                        /\ Save(s)[2] = [to |-> "history", state |-> s, what |-> None]
                        /\ Save(s)[1].to = "active" /\ Save(s)[1].state = s
                        /\ Save(s)[2].to = "history" /\ Save(s)[2].state = s
<1>1. To("active", s, None) \in Seq(ProperWrites) /\ ToPostgres("history", s, None) \in Seq(ProperWrites)
  BY OneWrite, MaybeWrite
<1>2. Save(s) \in Seq(ProperWrites)
  BY <1>1, ConcatProperties DEF Save
<1>3. ASSUME postgres
      PROVE  /\ Len(Save(s)) = 2
             /\ Save(s)[1] = [to |-> "active", state |-> s, what |-> None]
             /\ Save(s)[2] = [to |-> "history", state |-> s, what |-> None]
  <2>1. Save(s) = To("active", s, None) \o To("history", s, None)
    BY <1>3, MaybeWrite DEF Save
  <2>2. /\ Len(To("active", s, None)) = 1 /\ Len(To("history", s, None)) = 1
        /\ To("active", s, None)[1] = [to |-> "active", state |-> s, what |-> None]
        /\ To("history", s, None)[1] = [to |-> "history", state |-> s, what |-> None]
        /\ To("history", s, None) \in Seq(ProperWrites)
    BY OneWrite
  <2> QED BY <1>1, <2>1, <2>2, Pair
<1> QED BY <1>2, <1>3

LEMMA CloseWrites ==
  ASSUME NEW s \in States, s # NoState
  PROVE  /\ Close(s) \in Seq(ProperWrites)
         /\ postgres => /\ Len(Close(s)) = 2
                        /\ Close(s)[1] = [to |-> "history", state |-> In(s, "closed"), what |-> None]
                        /\ Close(s)[2] = [to |-> "active", state |-> NoState, what |-> None]
                        /\ Close(s)[1].to = "history" /\ Close(s)[1].state = In(s, "closed")
                        /\ Close(s)[2].to = "active" /\ Close(s)[2].state = NoState
<1>0. In(s, "closed") \in States /\ NoState \in States
  BY InPhase, StateFacts DEF Phases
<1> DEFINE c == In(s, "closed")
<1> HIDE DEF c
<1>a. c \in States
  BY <1>0 DEF c
<1>1. To("active", NoState, None) \in Seq(ProperWrites) /\ ToPostgres("history", c, None) \in Seq(ProperWrites)
  BY <1>0, <1>a, OneWrite, MaybeWrite
<1>2. Close(s) \in Seq(ProperWrites)
  BY <1>1, ConcatProperties DEF Close, c
<1>3. ASSUME postgres
      PROVE  /\ Len(Close(s)) = 2
             /\ Close(s)[1] = [to |-> "history", state |-> c, what |-> None]
             /\ Close(s)[2] = [to |-> "active", state |-> NoState, what |-> None]
  <2>1. Close(s) = To("history", c, None) \o To("active", NoState, None)
    BY <1>3, <1>a, MaybeWrite DEF Close, c
  <2>2. /\ Len(To("active", NoState, None)) = 1 /\ Len(To("history", c, None)) = 1
        /\ To("active", NoState, None)[1] = [to |-> "active", state |-> NoState, what |-> None]
        /\ To("history", c, None)[1] = [to |-> "history", state |-> c, what |-> None]
        /\ To("history", c, None) \in Seq(ProperWrites)
    BY <1>0, <1>a, OneWrite
  <2> QED BY <1>1, <2>1, <2>2, Pair
<1> QED BY <1>2, <1>3 DEF c
-----------------------------------------------------------------------------
(* What a tick, a settlement and a start have to write.                    *)
LEMMA SavePlan ==
  ASSUME NEW a \in States, a # NoState, a.phase = "active", NEW s, Follows(a, s), NEW prompt, postgres,
         s.phase = "closing" => prompt[a.game] = "closing"
  PROVE  Plan(Save(s), a, prompt)
<1>1. s \in States /\ s.game = a.game
  BY DEF Follows
<1>2. /\ Len(Save(s)) = 2
      /\ Save(s)[1] = [to |-> "active", state |-> s, what |-> None]
      /\ Save(s)[2] = [to |-> "history", state |-> s, what |-> None]
  BY <1>1, SaveWrites
<1> DEFINE todo == Save(s)
<1> HIDE DEF todo
<1>3. Len(todo) = 2 /\ todo[1].to = "active" /\ todo[1].state = s /\ todo[2].to = "history" /\ todo[2].state = s
  BY <1>2 DEF todo
<1>4. Plan(todo, a, prompt)
  BY <1>1, <1>3 DEF Plan
<1> QED BY <1>4 DEF todo

LEMMA Prefixed ==
  ASSUME NEW a, NEW todo \in Seq(ProperWrites), NEW p, Plan(todo, a, p), Len(todo) > 1, NEW prompt,
         NEW s \in States, s.game = a.game, NEW what \in {"hint", "closing"}, p[a.game] = what
  PROVE  /\ To("pending", s, what) \o todo \in Seq(ProperWrites)
         /\ Len(To("pending", s, what) \o todo) > 1
         /\ Plan(To("pending", s, what) \o todo, a, prompt)
<1> DEFINE w == To("pending", s, what)
           long == w \o todo
<1>1. w \in Seq(ProperWrites) /\ Len(w) = 1 /\ w[1].to = "pending" /\ w[1].state = s /\ w[1].what = what
  BY PromptWrite
<1> HIDE DEF w
<1>2. Len(todo) \in Nat
  BY LenProperties
<1>3. long \in Seq(ProperWrites) /\ Len(long) = 1 + Len(todo) /\ long[1] = w[1]
      /\ \A i \in 2..Len(todo) + 1 : long[i] = todo[i - 1]
  BY <1>1, Front
<1> HIDE DEF long
<1>4. /\ long[1].to = "pending" /\ long[1].state = s /\ long[1].what = what
      /\ \A i \in 2..Len(long) : long[i] = todo[i - 1] /\ i - 1 \in 1..Len(todo)
  BY <1>1, <1>2, <1>3
<1>5. ASSUME NEW i \in 1..Len(long)
      PROVE  /\ long[i].state.game = a.game
             /\ i = Len(long) => long[i].to = "history"
             /\ i = Len(long) - 1 =>
                  /\ long[i].to = "active" /\ Follows(a, long[i].state)
                  /\ long[i].state.phase = "closing" =>
                       (IF i = 1 THEN prompt[a.game] ELSE long[i - 1].what) = "closing"
             /\ i < Len(long) - 1 => long[i].to = "pending"
  <2>1. CASE i = 1
    BY <1>2, <1>3, <1>4, <2>1
  <2>2. CASE i \in 2..Len(long)
    <3>1. long[i] = todo[i - 1] /\ i - 1 \in 1..Len(todo) /\ Len(long) = 1 + Len(todo) /\ i \in Nat
      BY <1>2, <1>3, <1>4, <2>2
    <3>2. /\ todo[i - 1].state.game = a.game
          /\ i - 1 = Len(todo) => todo[i - 1].to = "history"
          /\ i - 1 = Len(todo) - 1 =>
               /\ todo[i - 1].to = "active" /\ Follows(a, todo[i - 1].state)
               /\ todo[i - 1].state.phase = "closing" =>
                    (IF i - 1 = 1 THEN p[a.game] ELSE todo[i - 1 - 1].what) = "closing"
          /\ i - 1 < Len(todo) - 1 => todo[i - 1].to = "pending"
      BY <3>1 DEF Plan
    <3>3. i # 1 /\ (i - 1 = 1 => long[i - 1].what = p[a.game])
      BY <1>4, <2>2
    <3>4. i - 1 # 1 => long[i - 1] = todo[i - 1 - 1]
      <4>1. i - 1 # 1 => i - 1 \in 2..Len(long)
        BY <1>2, <1>3, <2>2
      <4> QED BY <1>4, <4>1
    <3> QED BY <1>2, <3>1, <3>2, <3>3, <3>4
  <2> QED BY <2>1, <2>2, <1>2, <1>3
<1>6. Plan(long, a, prompt)
  BY <1>5, <1>3 DEF Plan
<1> QED BY <1>2, <1>3, <1>6 DEF long, w

(* A list that is a tick's, of an ACTIVE game.                             *)
Sound(todo, a, prompt) ==
  todo \in Seq(ProperWrites) /\ Len(todo) > 1 /\ Plan(todo, a, prompt)

Told(what) == [g \in Games |-> what]

LEMMA SaveSound ==
  ASSUME NEW a \in States, a # NoState, a.phase = "active", postgres, NEW s \in States, Follows(a, s), NEW prompt,
         s.phase = "closing" => prompt[a.game] = "closing"
  PROVE  Sound(Save(s), a, prompt)
<1>1. Save(s) \in Seq(ProperWrites) /\ Len(Save(s)) = 2
  BY SaveWrites
<1>2. Plan(Save(s), a, prompt)
  BY SavePlan
<1>3. Len(Save(s)) > 1
  BY <1>1
<1> QED BY <1>1, <1>2, <1>3 DEF Sound

LEMMA PrefixSound ==
  ASSUME NEW a, NEW todo, NEW p, Sound(todo, a, p), NEW prompt,
         NEW s \in States, s.game = a.game, NEW what \in {"hint", "closing"}, p[a.game] = what
  PROVE  Sound(To("pending", s, what) \o todo, a, prompt)
BY Prefixed DEF Sound

(* The state a round leaves.                                               *)
Judged(a, ko, close, win) ==
  [a EXCEPT !.turns = Bump(@), !.phase = IF ko \/ close THEN "closing" ELSE @, !.won = WonBy(a, win)]

LEMMA JudgedState ==
  ASSUME NEW a \in States, a # NoState, NEW ko \in BOOLEAN, NEW close \in BOOLEAN, NEW win \in BOOLEAN,
         NEW s, s = Judged(a, ko, close, win)
  PROVE  /\ s \in States /\ s # NoState /\ s.game = a.game /\ a.game \in Games
         /\ s.phase = (IF ko \/ close THEN "closing" ELSE a.phase)
         /\ a.phase = "active" => Follows(a, s)
<1> DEFINE turns == Bump(a.turns)
           phase == IF ko \/ close THEN "closing" ELSE a.phase
           won == WonBy(a, win)
<1>1. a \in [game : Games, phase : Phases, turns : 0..MaxTurns, won : BOOLEAN]
  BY DEF States
<1>2. turns \in 0..MaxTurns /\ turns \in {a.turns, a.turns + 1}
  BY <1>1, MaxTurnsAssumption DEF Bump
<1>3. phase \in Phases /\ (a.phase = "active" => phase \in {"active", "closing"})
  BY <1>1 DEF Phases
<1>4. won \in BOOLEAN
  BY <1>1 DEF WonBy
<1>5. s = [a EXCEPT !.turns = turns, !.phase = phase, !.won = won]
  BY <1>1 DEF Judged
<1> HIDE DEF turns, phase, won
<1>6. s.game = a.game /\ s.phase = phase /\ s.turns = turns /\ s.won = won
  BY <1>1, <1>5
<1>7. s \in States
  BY <1>1, <1>2, <1>3, <1>4, <1>5 DEF States
<1>8. s # NoState
  BY <1>1, <1>6, <1>7, StateFacts
<1>9. a.phase = "active" => Follows(a, s)
  BY <1>2, <1>3, <1>6, <1>7 DEF Follows
<1>10. s.phase = IF ko \/ close THEN "closing" ELSE a.phase
  BY <1>6 DEF phase
<1>12. a.game \in Games
  BY <1>1
<1>13. s.game = a.game
  BY <1>6
<1> QED BY Zenon, <1>7, <1>8, <1>9, <1>10, <1>12, <1>13

LEMMA JudgedWon ==
  ASSUME NEW a \in States, a # NoState, NEW ko, NEW close, NEW win, NEW s, s = Judged(a, ko, close, win)
  PROVE  s.won = WonBy(a, win)
<1> DEFINE won == WonBy(a, win)
<1>1. a \in [game : Games, phase : Phases, turns : 0..MaxTurns, won : BOOLEAN]
  BY DEF States
<1>2. s = [a EXCEPT !.turns = Bump(@), !.phase = IF ko \/ close THEN "closing" ELSE @, !.won = won]
  BY DEF Judged
<1> HIDE DEF won
<1>3. s.won = won
  BY <1>1, <1>2
<1> QED BY <1>3 DEF won

LEMMA JudgedOpen ==
  ASSUME NEW a \in States, a # NoState, a.phase = "active", NEW ko, NEW close, ~ko, ~close, NEW win,
         NEW s, s = Judged(a, ko, close, win)
  PROVE  s.phase = "active"
<1>1. a \in [game : Games, phase : Phases, turns : 0..MaxTurns, won : BOOLEAN]
  BY DEF States
<1>2. s = [a EXCEPT !.turns = Bump(@), !.phase = a.phase, !.won = WonBy(a, win)]
  BY DEF Judged
<1> QED BY <1>1, <1>2

LEMMA VerdictTyped ==
  ASSUME NEW a \in States, a # NoState, NEW ko \in BOOLEAN, NEW close \in BOOLEAN, NEW inject \in BOOLEAN,
         NEW win \in BOOLEAN, NEW repeat \in BOOLEAN
  PROVE  Verdict(a, ko, close, inject, win, repeat) \in Seq(ProperWrites)
<1> DEFINE s == Judged(a, ko, close, win)
           c == In(s, "closing")
           hint == To("pending", s, "hint")
           end == To("pending", s, "closing")
<1>1. s \in States /\ s # NoState
  BY JudgedState
<1>2. c \in States
  BY <1>1, InPhase DEF Phases
<1> HIDE DEF s
<1>3. hint \in Seq(ProperWrites) /\ end \in Seq(ProperWrites) /\ <<>> \in Seq(ProperWrites)
  BY <1>1, PromptWrite, EmptySeq
<1>4. Save(s) \in Seq(ProperWrites) /\ Save(c) \in Seq(ProperWrites)
  BY <1>1, <1>2, SaveWrites
<1> HIDE DEF c, hint, end
<1>5. /\ hint \o Save(s) \in Seq(ProperWrites) /\ end \o Save(s) \in Seq(ProperWrites)
      /\ end \o Save(c) \in Seq(ProperWrites) /\ <<>> \o Save(s) \in Seq(ProperWrites)
  BY <1>3, <1>4, ConcatProperties
<1>6. Triggered(s, repeat) \in Seq(ProperWrites)
  BY <1>5 DEF Triggered, c, hint, end
<1> DEFINE rest == IF inject THEN hint \o Save(s) ELSE IF close /\ ~ko THEN end \o Save(s) ELSE Triggered(s, repeat)
           first == IF ko THEN end ELSE <<>>
<1>7. rest \in Seq(ProperWrites) /\ first \in Seq(ProperWrites)
  BY <1>3, <1>5, <1>6
<1>8. Verdict(a, ko, close, inject, win, repeat) = first \o rest
  BY DEF Verdict, Judged, s, hint, end
<1> HIDE DEF rest, first
<1> QED BY <1>7, <1>8, ConcatProperties

LEMMA VerdictSound ==
  ASSUME NEW a \in States, a # NoState, a.phase = "active", postgres,
         NEW ko \in BOOLEAN, NEW close \in BOOLEAN, NEW inject \in BOOLEAN,
         NEW win \in BOOLEAN, NEW repeat \in BOOLEAN, NEW prompt,
         ko \/ close => ~inject, ko => ~repeat /\ ~WonBy(a, win)
  PROVE  Sound(Verdict(a, ko, close, inject, win, repeat), a, prompt)
<1> DEFINE s == Judged(a, ko, close, win)
           c == In(s, "closing")
           hint == To("pending", s, "hint")
           end == To("pending", s, "closing")
           rest == IF inject THEN hint \o Save(s) ELSE IF close /\ ~ko THEN end \o Save(s) ELSE Triggered(s, repeat)
           first == IF ko THEN end ELSE <<>>
<1>0. s = Judged(a, ko, close, win)
  OBVIOUS
<1>2. Verdict(a, ko, close, inject, win, repeat) = first \o rest
  BY DEF Verdict, Judged
<1> HIDE DEF s
<1>1. s \in States /\ s # NoState /\ s.game = a.game /\ a.game \in Games /\ Follows(a, s)
  BY <1>0, JudgedState
<1>w. s.won = WonBy(a, win)
  BY <1>0, JudgedWon
<1>3. c \in States /\ c.game = a.game /\ Follows(a, c)
  BY <1>1, InPhase DEF Follows, Phases
<1> HIDE DEF c
<1>4. \A what : Told(what)[a.game] = what
  BY <1>1 DEF Told
<1>5. Sound(Save(s), a, Told("closing")) /\ Sound(Save(c), a, Told("closing"))
  BY <1>1, <1>3, <1>4, SaveSound
<1>6. \A p : Sound(end \o Save(s), a, p) /\ Sound(end \o Save(c), a, p)
  BY <1>1, <1>4, <1>5, PrefixSound
<1>7. ~ko /\ ~close => \A p : Sound(Save(s), a, p) /\ Sound(hint \o Save(s), a, p)
  <2>1. ASSUME ~ko, ~close PROVE s.phase # "closing"
    BY <1>0, <2>1, JudgedOpen
  <2>2. ASSUME ~ko, ~close PROVE \A p : Sound(Save(s), a, p)
    BY <1>1, <2>1, <2>2, SaveSound
  <2>3. ASSUME ~ko, ~close PROVE \A p : Sound(hint \o Save(s), a, p)
    <3>1. Sound(Save(s), a, Told("hint"))
      BY <2>2, <2>3
    <3> QED BY <1>1, <1>4, <3>1, PrefixSound
  <2> QED BY <2>2, <2>3
<1>8. <<>> \o Save(s) = Save(s)
  BY <1>1, SaveWrites, ConcatEmptySeq
<1> HIDE DEF hint, end
<1>9. CASE ko
  <2>1. rest = Triggered(s, repeat) /\ ~s.won /\ ~repeat
    BY <1>w, <1>9
  <2>2. CASE Ending(s.turns)
    <3>1. rest = end \o Save(c)
      BY <2>1, <2>2 DEF Triggered, end, c
    <3>2. Sound(rest, a, Told("closing"))
      BY <1>6, <3>1
    <3>3. Sound(end \o rest, a, prompt)
      BY <1>1, <1>4, <3>2, PrefixSound DEF end
    <3> QED BY <1>2, <1>9, <3>3
  <2>3. CASE ~Ending(s.turns)
    <3>1. rest = Save(s)
      BY <1>8, <2>1, <2>3 DEF Triggered
    <3> QED BY <1>2, <1>6, <1>9, <3>1
  <2> QED BY <2>2, <2>3
<1>10. CASE ~ko
  <2>1. Sound(rest, a, prompt)
    <3>1. CASE close
      BY <1>6, <1>10, <3>1
    <3>2. CASE ~close
      <4>1. CASE inject
        BY <1>7, <1>10, <3>2, <4>1
      <4>2. CASE ~inject
        <5>1. rest = Triggered(s, repeat)
          BY <3>2, <4>2
        <5>2. Triggered(s, repeat) \in {hint \o Save(s), end \o Save(c), Save(s)}
          BY <1>8 DEF Triggered, hint, end, c
        <5> QED BY <1>6, <1>7, <1>10, <3>2, <5>1, <5>2
      <4> QED BY <4>1, <4>2
    <3> QED BY <3>1, <3>2
  <2>2. rest \in Seq(ProperWrites) /\ <<>> \o rest = rest
    BY <2>1, ConcatEmptySeq DEF Sound
  <2> QED BY <1>2, <1>10, <2>1, <2>2
<1> QED BY <1>9, <1>10

(* What mark_roast_complete has to write.                                  *)
Settlement(a, reason) ==
  Save(In(a, "settled")) \o ToPostgres("record", a, reason)
    \o (IF reason = "completed" THEN To("card", a, None) ELSE <<>>)

LEMMA SettlementWrites ==
  ASSUME NEW a \in States, a # NoState, NEW reason \in Reasons, NEW rec
  PROVE  /\ Settlement(a, reason) \in Seq(ProperWrites)
         /\ postgres /\ a.phase \in {"active", "closing"} /\ rec[a.game] = None =>
              Settling(Settlement(a, reason), a, rec, 3) /\ Settlement(a, reason) # <<>>
<1> DEFINE s == In(a, "settled")
           begun == Save(s) \o ToPostgres("record", a, reason)
           card == IF reason = "completed" THEN To("card", a, None) ELSE <<>>
<1>1. s \in States /\ s.game = a.game
  BY InPhase DEF Phases
<1>2. Settlement(a, reason) = begun \o card
  BY DEF Settlement
<1>3. /\ card \in Seq(ProperWrites) /\ Len(card) \in {0, 1}
      /\ Len(card) = 1 => card[1].to = "card" /\ card[1].state = a
  <2>1. CASE reason = "completed"
    BY <2>1, CardWrite
  <2>2. CASE reason # "completed"
    BY <2>2, EmptySeq
  <2> QED BY <2>1, <2>2
<1> HIDE DEF s, card
<1>4. Save(s) \in Seq(ProperWrites) /\ ToPostgres("record", a, reason) \in Seq(ProperWrites)
  BY <1>1, SaveWrites, MaybeWrite
<1>5. begun \in Seq(ProperWrites) /\ begun \o card \in Seq(ProperWrites)
  BY <1>3, <1>4, ConcatProperties
<1>6. ASSUME postgres, a.phase \in {"active", "closing"}, rec[a.game] = None
      PROVE  Settling(begun \o card, a, rec, 3) /\ begun \o card # <<>>
  <2>1. /\ Len(Save(s)) = 2 /\ Save(s)[1].to = "active" /\ Save(s)[1].state = s
        /\ Save(s)[2].to = "history" /\ Save(s)[2].state = s
    BY <1>1, <1>6, SaveWrites
  <2> DEFINE r == ToPostgres("record", a, reason)
  <2>2. Len(r) = 1 /\ r[1].to = "record" /\ r[1].state = a
    <3>1. r = To("record", a, reason)
      BY <1>6, MaybeWrite
    <3> QED BY <3>1, RecordWrite
  <2>3. begun = Save(s) \o r /\ r \in Seq(ProperWrites)
    BY <1>4
  <2> HIDE DEF r, begun
  <2>4. Len(begun) = 3 /\ begun[1] = Save(s)[1] /\ begun[2] = Save(s)[2] /\ begun[3] = r[1]
    BY <1>4, <2>1, <2>2, <2>3, Third
  <2>5. /\ Len(begun) = 3 /\ begun[1].to = "active" /\ begun[1].state = s
        /\ begun[2].to = "history" /\ begun[2].state = s /\ begun[3].to = "record" /\ begun[3].state = a
    BY <2>1, <2>2, <2>4
  <2> DEFINE all == begun \o card
  <2>6. Len(all) = 3 + Len(card) /\ all[1] = begun[1] /\ all[2] = begun[2] /\ all[3] = begun[3]
        /\ (Len(card) = 1 => all[4] = card[1])
    BY <1>3, <1>5, <2>5, Fourth
  <2> HIDE DEF all
  <2>7. Len(all) \in {3, 4} /\ all[1] = begun[1] /\ all[2] = begun[2] /\ all[3] = begun[3]
        /\ (Len(all) = 4 => all[4].to = "card" /\ all[4].state = a)
    <3>1. CASE Len(card) = 0
      BY <2>6, <3>1
    <3>2. CASE Len(card) = 1
      BY <1>3, <2>6, <3>2
    <3> QED BY <1>3, <3>1, <3>2
  <2>8. Settling(all, a, rec, 3)
    BY <1>1, <1>6, <2>5, <2>7 DEF Settling, s
  <2>9. all # <<>>
    BY <2>7, NotEmpty
  <2> QED BY <2>8, <2>9 DEF all
<1> QED BY <1>2, <1>5, <1>6

(* What a start has to write.                                              *)
Beginning(a) == (IF a = NoState THEN <<>> ELSE Close(a)) \o To("active", NewGame, None)

LEMMA BeginningWrites ==
  ASSUME NEW a \in States, started \in 0..GameCount, started < GameCount, NEW hist, NEW rec
  PROVE  /\ Beginning(a) \in Seq(ProperWrites)
         /\ postgres /\ a.game # started + 1 /\ rec[started + 1] = None =>
              /\ \E k \in 0..2 : Starting(Beginning(a), a, hist, rec, started + 1, k)
              /\ Coming(Beginning(a), started + 1)
<1> DEFINE new == To("active", NewGame, None)
<1>1. /\ new \in Seq(ProperWrites) /\ Len(new) = 1
      /\ new[1].to = "active" /\ new[1].state = NewGame
  BY GameBegins, StateWrite
<1>2. NewGame = [game |-> started + 1, phase |-> "active", turns |-> 0, won |-> FALSE] /\ started + 1 > 0 /\ NewGame.game = started + 1
  BY CountAssumption DEF NewGame
<1> HIDE DEF new
<1>3. CASE a = NoState
  <2>1. Beginning(a) = new
    BY <1>1, <1>3, ConcatEmptySeq DEF Beginning, new
  <2>2. new # <<>>
    BY <1>1, NotEmpty
  <2>3. ASSUME postgres, a.game # started + 1, rec[started + 1] = None
        PROVE  Starting(new, a, hist, rec, started + 1, 0)
    <3>1. new[1].state = [game |-> started + 1, phase |-> "active", turns |-> 0, won |-> FALSE]
      BY <1>1, <1>2
    <3>2. Len(new) = 1 /\ new[1].to = "active" /\ a = NoState /\ rec[started + 1] = None /\ a.game # started + 1
      BY <1>1, <1>3, <2>3
    <3> QED BY <1>2, <3>1, <3>2 DEF Starting
  <2>4. Coming(new, started + 1)
    BY <1>1, <1>2, <2>2 DEF Coming
  <2> QED BY <1>1, <2>1, <2>3, <2>4
<1>4. CASE a # NoState
  <2>1. /\ Close(a) \in Seq(ProperWrites)
        /\ postgres => /\ Len(Close(a)) = 2
                       /\ Close(a)[1].to = "history" /\ Close(a)[1].state = In(a, "closed")
                       /\ Close(a)[2].to = "active" /\ Close(a)[2].state = NoState
    BY <1>4, CloseWrites
  <2> DEFINE all == Close(a) \o new
  <2>2. Beginning(a) = all
    BY <1>4 DEF Beginning, new
  <2>3. all \in Seq(ProperWrites)
    BY <1>1, <2>1, ConcatProperties
  <2>4. ASSUME postgres, a.game # started + 1, rec[started + 1] = None
        PROVE  Starting(all, a, hist, rec, started + 1, 2) /\ Coming(all, started + 1)
    <3>1. Len(all) = 3 /\ all[1] = Close(a)[1] /\ all[2] = Close(a)[2] /\ all[3] = new[1]
      <4>1. Len(Close(a)) = 2
        BY <2>1, <2>4
      <4> QED BY <1>1, <2>1, <4>1, Third
    <3> HIDE DEF all
    <3>2. all # <<>>
      BY <3>1, NotEmpty
    <3>3. Starting(all, a, hist, rec, started + 1, 2)
      BY <1>1, <1>2, <1>4, <2>1, <2>4, <3>1 DEF Starting
    <3> QED BY <1>1, <1>2, <3>1, <3>2, <3>3 DEF Coming
  <2> QED BY <2>2, <2>3, <2>4
<1> QED BY <1>3, <1>4
-----------------------------------------------------------------------------
(* What the actions do, field by field.                                    *)
TurnIs(r, step, own, todo) ==
  /\ turn' \in [Turns -> TurnRows]
  /\ turn'[r].step = step /\ turn'[r].own = own /\ turn'[r].todo = todo
  /\ \A q \in Turns \ {r} : turn'[q] = turn[q]

TickIs(t, own, todo) ==
  /\ tick' \in [Ticks -> TickRows]
  /\ tick'[t].own = own /\ tick'[t].todo = todo
  /\ \A u \in Ticks \ {t} : tick'[u] = tick[u]

Steps == {"idle", "loaded", "told", "talking"}

LEMMA RowFacts ==
  /\ NoTurn \in TurnRows /\ NoTick \in TickRows
  /\ NoTurn.step = "idle" /\ NoTurn.own = NoState /\ NoTurn.todo = <<>>
  /\ NoTick.own = NoState /\ NoTick.todo = <<>>
  /\ \A x \in TurnRows : x.step = "idle" /\ x.own = NoState /\ x.todo = <<>> => x = NoTurn
  /\ \A x \in TickRows : x.own = NoState /\ x.todo = <<>> => x = NoTick
<1>1. <<>> \in Seq(ProperWrites) /\ NoState \in States
  BY EmptySeq, StateFacts
<1> QED BY <1>1 DEF NoTurn, NoTick, TurnRows, TickRows

LEMMA TurnRow ==
  ASSUME RowsOK, NEW r \in Turns
  PROVE  turn[r] \in TurnRows /\ turn[r].step \in Steps /\ turn[r].own \in States /\ turn[r].todo \in Seq(ProperWrites)
BY DEF RowsOK, TurnRows, Steps

LEMMA TickRow ==
  ASSUME RowsOK, NEW t \in Ticks
  PROVE  tick[t] \in TickRows /\ tick[t].own \in States /\ tick[t].todo \in Seq(ProperWrites)
BY DEF RowsOK, TickRows

LEMMA TurnChanges ==
  ASSUME RowsOK, NEW r \in Turns, NEW step \in Steps, NEW own \in States, NEW todo \in Seq(ProperWrites)
  PROVE  /\ turn' = [turn EXCEPT ![r].step = step] => TurnIs(r, step, turn[r].own, turn[r].todo)
         /\ turn' = [turn EXCEPT ![r].todo = todo] => TurnIs(r, turn[r].step, turn[r].own, todo)
         /\ turn' = [turn EXCEPT ![r].step = step, ![r].own = own] => TurnIs(r, step, own, turn[r].todo)
         /\ turn' = [turn EXCEPT ![r].step = step, ![r].own = own, ![r].todo = todo] => TurnIs(r, step, own, todo)
         /\ turn' = [turn EXCEPT ![r] = NoTurn] => TurnIs(r, "idle", NoState, <<>>) /\ turn'[r] = NoTurn
<1>1. turn \in [Turns -> TurnRows]
  BY DEF RowsOK
<1>2. ASSUME turn' = [turn EXCEPT ![r].step = step]
      PROVE  TurnIs(r, step, turn[r].own, turn[r].todo)
  BY <1>1, <1>2 DEF TurnIs, TurnRows, Steps
<1>3. ASSUME turn' = [turn EXCEPT ![r].todo = todo]
      PROVE  TurnIs(r, turn[r].step, turn[r].own, todo)
  BY <1>1, <1>3 DEF TurnIs, TurnRows
<1>4. ASSUME turn' = [turn EXCEPT ![r].step = step, ![r].own = own]
      PROVE  TurnIs(r, step, own, turn[r].todo)
  BY <1>1, <1>4 DEF TurnIs, TurnRows, Steps
<1>5. ASSUME turn' = [turn EXCEPT ![r].step = step, ![r].own = own, ![r].todo = todo]
      PROVE  TurnIs(r, step, own, todo)
  BY <1>1, <1>5 DEF TurnIs, TurnRows, Steps
<1>6. ASSUME turn' = [turn EXCEPT ![r] = NoTurn]
      PROVE  TurnIs(r, "idle", NoState, <<>>) /\ turn'[r] = NoTurn
  BY <1>1, <1>6, RowFacts DEF TurnIs
<1> QED BY <1>2, <1>3, <1>4, <1>5, <1>6

LEMMA TickChanges ==
  ASSUME RowsOK, NEW t \in Ticks, NEW own \in States, NEW todo \in Seq(ProperWrites)
  PROVE  /\ tick' = [tick EXCEPT ![t].own = own] => TickIs(t, own, tick[t].todo)
         /\ tick' = [tick EXCEPT ![t].todo = todo] => TickIs(t, tick[t].own, todo)
         /\ tick' = [tick EXCEPT ![t] = [own |-> own, todo |-> todo]] => TickIs(t, own, todo)
<1>1. tick \in [Ticks -> TickRows]
  BY DEF RowsOK
<1>2. ASSUME tick' = [tick EXCEPT ![t].own = own]
      PROVE  TickIs(t, own, tick[t].todo)
  BY <1>1, <1>2 DEF TickIs, TickRows
<1>3. ASSUME tick' = [tick EXCEPT ![t].todo = todo]
      PROVE  TickIs(t, tick[t].own, todo)
  BY <1>1, <1>3 DEF TickIs, TickRows
<1>4. ASSUME tick' = [tick EXCEPT ![t] = [own |-> own, todo |-> todo]]
      PROVE  TickIs(t, own, todo)
  BY <1>1, <1>4 DEF TickIs, TickRows
<1> QED BY <1>2, <1>3, <1>4

LEMMA HeadTail ==
  ASSUME NEW s \in Seq(ProperWrites), s # <<>>
  PROVE  /\ Head(s) = s[1] /\ Head(s) \in ProperWrites /\ 1 \in 1..Len(s) /\ Len(s) \in Nat
         /\ Tail(s) \in Seq(ProperWrites) /\ Len(Tail(s)) = Len(s) - 1
         /\ \A k \in 1..Len(Tail(s)) : Tail(s)[k] = s[k + 1] /\ k + 1 \in 1..Len(s)
<1>1. Len(s) \in Nat /\ Len(s) # 0
  BY EmptySeq, LenProperties
<1>2. /\ Head(s) \in ProperWrites /\ Tail(s) \in Seq(ProperWrites) /\ Len(Tail(s)) = Len(s) - 1
      /\ \A k \in 1..Len(Tail(s)) : Tail(s)[k] = s[k + 1]
  BY HeadTailProperties
<1>3. Head(s) = s[1]
  OBVIOUS
<1> QED BY <1>1, <1>2, <1>3

LEMMA WriteTypes ==
  ASSUME StoredOK, NEW w \in ProperWrites, Write(w), UNCHANGED <<postgres, started>>
  PROVE  StoredOK'
<1> DEFINE g == w.state.game
<1>1. /\ w.to \in {"active", "history", "record", "card", "pending"} /\ w.state \in States
      /\ w.to = "record" => w.what \in Reasons
      /\ w.to = "pending" => w.what \in {"hint", "closing"}
      /\ w.to = "card" => w.state # NoState
  BY DEF ProperWrites, Writes, Proper
<1>2. g \in Games => w.state.phase \in Phases
  <2>1. g \in Games => g # None
    BY CountAssumption, NoneFacts DEF Games
  <2> QED BY <1>1, <2>1, StateFacts
<1>3. w.to = "card" => g \in Games
  BY <1>1, StateFacts
<1>4. active' \in States
  BY <1>1 DEF StoredOK, Write
<1>5. history' \in [Games -> Phases \cup {None}]
  <2>1. CASE w.to = "history"
    <3>1. history' = [history EXCEPT ![g] = w.state.phase]
      BY <2>1 DEF Write
    <3> QED BY <1>2, <3>1 DEF StoredOK
  <2>2. CASE w.to # "history"
    BY <2>2 DEF StoredOK, Write
  <2> QED BY <2>1, <2>2
<1>6. record' \in [Games -> Reasons \cup {None}]
  <2>1. CASE w.to = "record"
    <3>1. record' = [record EXCEPT ![g] = w.what]
      BY <2>1 DEF Write
    <3> QED BY <1>1, <2>1, <3>1 DEF StoredOK
  <2>2. CASE w.to # "record"
    BY <2>2 DEF StoredOK, Write
  <2> QED BY <2>1, <2>2
<1>7. cards' \in [Games -> 0..CardCount]
  <2>1. cards \in [Games -> 0..CardCount] /\ CardCount = 2
    BY DEF StoredOK, CardCount
  <2>2. CASE w.to = "card" /\ cards[g] < CardCount
    <3>1. g \in Games /\ cards' = [cards EXCEPT ![g] = @ + 1]
      BY <1>3, <2>2 DEF Write
    <3> QED BY <2>1, <2>2, <3>1
  <2>3. CASE ~(w.to = "card" /\ cards[g] < CardCount)
    BY <2>1, <2>3 DEF Write
  <2> QED BY <2>2, <2>3
<1>8. pending' \in [Games -> {"hint", "closing", None}]
  <2>1. CASE w.to = "pending"
    <3>1. pending' = [pending EXCEPT ![g] = w.what]
      BY <2>1 DEF Write
    <3> QED BY <1>1, <2>1, <3>1 DEF StoredOK
  <2>2. CASE w.to # "pending"
    BY <2>2 DEF StoredOK, Write
  <2> QED BY <2>1, <2>2
<1> QED BY <1>4, <1>5, <1>6, <1>7, <1>8 DEF StoredOK

LEMMA StoredStays == StoredOK /\ UNCHANGED <<postgres, stored, started>> => StoredOK'
BY DEF StoredOK, stored

LEMMA TurnWritesDoes ==
  ASSUME TypeInv, NEW r \in Turns, TurnWrites(r), UNCHANGED postgres
  PROVE  /\ turn[r].todo # <<>> /\ Write(Head(turn[r].todo)) /\ UNCHANGED <<started, tick>>
         /\ TurnIs(r, turn[r].step, turn[r].own, Tail(turn[r].todo)) /\ StoredOK'
<1>1. turn[r].todo # <<>> /\ Write(Head(turn[r].todo)) /\ UNCHANGED <<started, tick>>
      /\ turn' = [turn EXCEPT ![r].todo = Tail(turn[r].todo)]
  BY DEF TurnWrites
<1>2. turn[r].todo \in Seq(ProperWrites) /\ turn[r].own \in States /\ turn[r].step \in Steps
  BY TurnRow DEF TypeInv
<1>3. Head(turn[r].todo) \in ProperWrites /\ Tail(turn[r].todo) \in Seq(ProperWrites)
  BY <1>1, <1>2, HeadTail
<1>4. StoredOK'
  BY <1>1, <1>3, WriteTypes DEF TypeInv
<1>5. TurnIs(r, turn[r].step, turn[r].own, Tail(turn[r].todo))
  BY <1>1, <1>2, <1>3, TurnChanges DEF TypeInv
<1> QED BY <1>1, <1>4, <1>5

LEMMA TickWritesDoes ==
  ASSUME TypeInv, NEW t \in Ticks, TickWrites(t), UNCHANGED postgres
  PROVE  /\ tick[t].todo # <<>> /\ Write(Head(tick[t].todo)) /\ UNCHANGED <<started, turn>>
         /\ TickIs(t, tick[t].own, Tail(tick[t].todo)) /\ StoredOK'
<1>1. tick[t].todo # <<>> /\ Write(Head(tick[t].todo)) /\ UNCHANGED <<started, turn>>
      /\ tick' = [tick EXCEPT ![t].todo = Tail(tick[t].todo)]
  BY DEF TickWrites
<1>2. tick[t].todo \in Seq(ProperWrites) /\ tick[t].own \in States
  BY TickRow DEF TypeInv
<1>3. Head(tick[t].todo) \in ProperWrites /\ Tail(tick[t].todo) \in Seq(ProperWrites)
  BY <1>1, <1>2, HeadTail
<1>4. StoredOK'
  BY <1>1, <1>3, WriteTypes DEF TypeInv
<1>5. TickIs(t, tick[t].own, Tail(tick[t].todo))
  BY <1>1, <1>2, <1>3, TickChanges DEF TypeInv
<1> QED BY <1>1, <1>4, <1>5

LEMMA BeginTurnDoes ==
  ASSUME TypeInv, NEW r \in Turns, BeginTurn(r)
  PROVE  /\ turn[r].step = "idle" /\ turn[r].todo = <<>> /\ UNCHANGED <<stored, started, tick>>
         /\ TurnIs(r, "loaded", active, <<>>)
<1>1. active \in States /\ "loaded" \in Steps
  BY DEF TypeInv, StoredOK, Steps
<1>2. turn[r].todo \in Seq(ProperWrites)
  BY TurnRow DEF TypeInv
<1>3. turn[r].step = "idle" /\ turn[r].todo = <<>> /\ UNCHANGED <<stored, started, tick>>
      /\ turn' = [turn EXCEPT ![r].step = "loaded", ![r].own = active]
  BY DEF BeginTurn
<1> QED BY <1>1, <1>2, <1>3, TurnChanges DEF TypeInv

LEMMA StepDoes ==
  ASSUME TypeInv, NEW r \in Turns, NEW step \in Steps, Step(r, step)
  PROVE  TurnIs(r, step, turn[r].own, turn[r].todo)
<1>1. turn[r].own \in States /\ turn[r].todo \in Seq(ProperWrites)
  BY TurnRow DEF TypeInv
<1>2. turn' = [turn EXCEPT ![r].step = step]
  BY DEF Step
<1> QED BY <1>1, <1>2, TurnChanges DEF TypeInv

LEMMA FreeChatDoes ==
  ASSUME TypeInv, NEW r \in Turns, FreeChat(r)
  PROVE  /\ turn[r].step = "loaded" /\ turn[r].own = NoState /\ UNCHANGED <<stored, started, tick>>
         /\ TurnIs(r, "talking", turn[r].own, turn[r].todo)
<1>1. "talking" \in Steps
  BY DEF Steps
<1> QED BY <1>1, StepDoes DEF FreeChat

Farewell(a) == IF a = NoState THEN <<>> ELSE Close(a)

LEMMA FarewellWrites == ASSUME NEW a \in States PROVE Farewell(a) \in Seq(ProperWrites)
BY CloseWrites, EmptySeq DEF Farewell

LEMMA CloseRoastDoes ==
  ASSUME TypeInv, NEW r \in Turns, CloseRoast(r)
  PROVE  /\ turn[r].step = "loaded" /\ turn[r].own.phase \in {"settled", "closed"}
         /\ UNCHANGED <<stored, started, tick>> /\ TurnIs(r, "talking", NoState, Farewell(active))
<1>1. "talking" \in Steps /\ NoState \in States
  BY StateFacts DEF Steps
<1>2. Farewell(active) \in Seq(ProperWrites)
  BY FarewellWrites DEF TypeInv, StoredOK
<1>3. turn[r].step = "loaded" /\ turn[r].own.phase \in {"settled", "closed"} /\ UNCHANGED <<stored, started, tick>>
      /\ turn' = [turn EXCEPT ![r].step = "talking", ![r].own = NoState, ![r].todo = Farewell(active)]
  BY DEF CloseRoast, Farewell
<1> QED BY <1>1, <1>2, <1>3, TurnChanges DEF TypeInv

LEMMA GetPromptDoes ==
  ASSUME TypeInv, NEW r \in Turns, GetPrompt(r)
  PROVE  /\ turn[r].step = "loaded" /\ turn[r].own.phase \in {"active", "closing"}
         /\ UNCHANGED <<stored, started, tick>>
         /\ \E step \in {"talking", "told"} : TurnIs(r, step, turn[r].own, turn[r].todo)
<1>1. {"talking", "told"} \subseteq Steps
  BY DEF Steps
<1>2. PICK step \in {"talking", "told"} : Step(r, step)
  BY DEF GetPrompt
<1>3. TurnIs(r, step, turn[r].own, turn[r].todo)
  BY <1>1, <1>2, StepDoes
<1> QED BY <1>3 DEF GetPrompt

LEMMA DeletePromptDoes ==
  ASSUME TypeInv, NEW r \in Turns, DeletePrompt(r), UNCHANGED postgres
  PROVE  /\ turn[r].step = "told" /\ UNCHANGED <<active, history, record, cards, started, tick>>
         /\ TurnIs(r, "talking", turn[r].own, turn[r].todo) /\ StoredOK'
<1>1. "talking" \in Steps
  BY DEF Steps
<1>2. turn[r].step = "told" /\ UNCHANGED <<active, history, record, cards, started, tick>> /\ Step(r, "talking")
  BY DEF DeletePrompt
<1>3. pending' \in [Games -> {"hint", "closing", None}]
  BY DEF DeletePrompt, TypeInv, StoredOK
<1>4. StoredOK'
  BY <1>2, <1>3 DEF TypeInv, StoredOK
<1> QED BY <1>1, <1>2, <1>4, StepDoes

LEMMA MarkRoastCompleteDoes ==
  ASSUME TypeInv, NEW r \in Turns, NEW reason \in Reasons, MarkRoastComplete(r, reason)
  PROVE  /\ turn[r].step = "talking" /\ turn[r].todo = <<>> /\ active.phase \in {"active", "closing"}
         /\ active # NoState /\ UNCHANGED <<stored, started, tick>>
         /\ TurnIs(r, "talking", turn[r].own, Settlement(active, reason))
         /\ Settlement(active, reason) \in Seq(ProperWrites)
<1>1. turn[r].own \in States /\ turn[r].step \in Steps /\ active \in States
  BY TurnRow DEF TypeInv, StoredOK
<1>2. turn[r].step = "talking" /\ turn[r].todo = <<>> /\ active.phase \in {"active", "closing"}
      /\ UNCHANGED <<stored, started, tick>>
      /\ turn' = [turn EXCEPT ![r].todo = Settlement(active, reason)]
  BY DEF MarkRoastComplete, Settlement
<1>3. active # NoState
  BY <1>2, StateFacts
<1>4. Settlement(active, reason) \in Seq(ProperWrites)
  BY <1>1, <1>3, SettlementWrites
<1>5. TurnIs(r, turn[r].step, turn[r].own, Settlement(active, reason))
  BY <1>1, <1>2, <1>4, TurnChanges DEF TypeInv
<1> QED BY <1>2, <1>3, <1>4, <1>5

LEMMA StartRoastDoes ==
  ASSUME TypeInv, NEW r \in Turns, StartRoast(r), UNCHANGED postgres
  PROVE  /\ turn[r].todo = <<>> /\ started < GameCount /\ started' = started + 1 /\ UNCHANGED <<stored, tick>>
         /\ TurnIs(r, turn[r].step, turn[r].own, Beginning(active))
         /\ Beginning(active) \in Seq(ProperWrites) /\ StoredOK'
<1>1. turn[r].own \in States /\ turn[r].step \in Steps /\ active \in States /\ started \in 0..GameCount
  BY TurnRow DEF TypeInv, StoredOK
<1>2. turn[r].todo = <<>> /\ started < GameCount /\ started' = started + 1 /\ UNCHANGED <<stored, tick>>
      /\ turn' = [turn EXCEPT ![r].todo = Beginning(active)]
  BY DEF StartRoast, Activate, Beginning
<1>3. Beginning(active) \in Seq(ProperWrites)
  BY <1>1, <1>2, BeginningWrites
<1>4. started' \in 0..GameCount
  BY <1>1, <1>2, CountAssumption
<1>5. StoredOK'
  BY <1>2, <1>4 DEF TypeInv, StoredOK, stored
<1> QED BY <1>1, <1>2, <1>3, <1>5, TurnChanges DEF TypeInv

LEMMA StartOverTypes ==
  ASSUME TypeInv, NEW r \in Turns, StartOver(r), UNCHANGED postgres
  PROVE  TypeInv'
<1>1. turn[r].own \in States /\ turn[r].step \in Steps /\ started \in 0..GameCount
  BY TurnRow DEF TypeInv, StoredOK
<1>2. started < GameCount /\ started' = started + 1 /\ UNCHANGED <<stored, tick>>
      /\ turn' = [turn EXCEPT ![r].todo = <<>> \o To("active", NewGame, None)]
  BY DEF StartOver, Activate
<1>3. <<>> \o To("active", NewGame, None) \in Seq(ProperWrites)
  <2>1. To("active", NewGame, None) \in Seq(ProperWrites)
    BY <1>1, <1>2, GameBegins, StateWrite
  <2> QED BY <2>1, ConcatEmptySeq
<1>4. started' \in 0..GameCount
  BY <1>1, <1>2, CountAssumption
<1>5. StoredOK'
  BY <1>2, <1>4 DEF TypeInv, StoredOK, stored
<1>6. turn' \in [Turns -> TurnRows]
  BY <1>1, <1>2, <1>3, TurnChanges DEF TypeInv, TurnIs
<1> QED BY <1>2, <1>5, <1>6 DEF TypeInv, RowsOK

LEMMA TurnGone ==
  ASSUME TypeInv, NEW r \in Turns, turn' = [turn EXCEPT ![r] = NoTurn]
  PROVE  TurnIs(r, "idle", NoState, <<>>) /\ turn'[r] = NoTurn
<1>1. "idle" \in Steps /\ NoState \in States /\ <<>> \in Seq(ProperWrites)
  BY StateFacts, EmptySeq DEF Steps
<1> QED BY <1>1, TurnChanges DEF TypeInv

LEMMA EndRoundDoes ==
  ASSUME TypeInv, NEW r \in Turns, NEW t \in Ticks, EndRound(r, t)
  PROVE  /\ turn[r].step = "talking" /\ turn[r].todo = <<>> /\ Playing(turn[r].own) /\ tick[t] = NoTick
         /\ UNCHANGED <<stored, started>> /\ TurnIs(r, "idle", NoState, <<>>) /\ turn'[r] = NoTurn
         /\ TickIs(t, turn[r].own, <<>>)
<1>1. turn[r].own \in States /\ tick[t].todo \in Seq(ProperWrites) /\ <<>> \in Seq(ProperWrites)
  BY TurnRow, TickRow, EmptySeq DEF TypeInv
<1>2. /\ turn[r].step = "talking" /\ turn[r].todo = <<>> /\ Playing(turn[r].own) /\ tick[t] = NoTick
      /\ UNCHANGED <<stored, started>>
      /\ tick' = [tick EXCEPT ![t].own = turn[r].own] /\ turn' = [turn EXCEPT ![r] = NoTurn]
  BY DEF EndRound
<1>3. TickIs(t, turn[r].own, tick[t].todo)
  BY <1>1, <1>2, TickChanges DEF TypeInv
<1> QED BY <1>2, <1>3, TurnGone, RowFacts

LEMMA DecideDoes ==
  ASSUME TypeInv, NEW t \in Ticks, NEW ko \in BOOLEAN, NEW close \in BOOLEAN, NEW inject \in BOOLEAN,
         NEW win \in BOOLEAN, NEW repeat \in BOOLEAN, Decide(t, ko, close, inject, win, repeat)
  PROVE  /\ tick[t].own # NoState /\ UNCHANGED <<stored, started, turn>>
         /\ Verdict(tick[t].own, ko, close, inject, win, repeat) \in Seq(ProperWrites)
         /\ TickIs(t, NoState, Verdict(tick[t].own, ko, close, inject, win, repeat))
<1> DEFINE todo == Verdict(tick[t].own, ko, close, inject, win, repeat)
<1>1. tick[t].own \in States /\ NoState \in States
  BY TickRow, StateFacts DEF TypeInv
<1>2. tick[t].own # NoState /\ UNCHANGED <<stored, started, turn>>
      /\ tick' = [tick EXCEPT ![t] = [own |-> NoState, todo |-> todo]]
  BY DEF Decide
<1>3. todo \in Seq(ProperWrites)
  BY <1>1, <1>2, VerdictTyped
<1> HIDE DEF todo
<1>4. TickIs(t, NoState, todo)
  BY <1>1, <1>2, <1>3, TickChanges DEF TypeInv
<1> QED BY <1>2, <1>3, <1>4 DEF todo

LEMMA JudgeDoes ==
  ASSUME TypeInv, NEW t \in Ticks, Judge(t)
  PROVE  /\ tick[t].own # NoState /\ UNCHANGED <<stored, started, turn>>
         /\ \E todo \in Seq(ProperWrites) : TickIs(t, NoState, todo)
<1>1. PICK ko \in BOOLEAN, win \in BOOLEAN, repeat \in BOOLEAN, close \in BOOLEAN, inject \in BOOLEAN :
        Decide(t, ko, close, inject, win, repeat)
  BY DEF Judge, InDebate
<1> QED BY <1>1, DecideDoes

(* A round that closes the game gives no hint.                             *)
LEMMA OneVoiceDoes ==
  ASSUME TypeInv, NEW t \in Ticks, JudgeInOneVoice(t)
  PROVE  /\ Judge(t)
         /\ \E todo \in Seq(ProperWrites) :
              /\ TickIs(t, NoState, todo)
              /\ postgres /\ tick[t].own.phase = "active" => \A prompt : Sound(todo, tick[t].own, prompt)
<1>1. PICK ko \in InDebate, win \in InDebate, repeat \in InDebate, close \in BOOLEAN, inject \in BOOLEAN :
        /\ ko \/ close => ~inject
        /\ ko => ~repeat /\ ~WonBy(tick[t].own, win)
        /\ Decide(t, ko, close, inject, win, repeat)
  BY DEF JudgeInOneVoice
<1>2. ko \in BOOLEAN /\ win \in BOOLEAN /\ repeat \in BOOLEAN
  BY DEF InDebate
<1>3. Judge(t)
  BY <1>1 DEF Judge
<1>4. tick[t].own \in States
  BY TickRow DEF TypeInv
<1> DEFINE todo == Verdict(tick[t].own, ko, close, inject, win, repeat)
<1>5. tick[t].own # NoState /\ todo \in Seq(ProperWrites) /\ TickIs(t, NoState, todo)
  BY <1>1, <1>2, DecideDoes
<1>6. postgres /\ tick[t].own.phase = "active" => \A prompt : Sound(todo, tick[t].own, prompt)
  BY <1>1, <1>2, <1>4, <1>5, VerdictSound
<1> HIDE DEF todo
<1> QED BY <1>3, <1>5, <1>6
-----------------------------------------------------------------------------
(* Types, whatever overlaps and fails.                                     *)
LEMMA ProperAreWrites == Seq(ProperWrites) \subseteq Seq(Writes)
<1>1. ASSUME NEW s \in Seq(ProperWrites) PROVE s \in Seq(Writes)
  <2>1. Len(s) \in Nat /\ s \in [1..Len(s) -> ProperWrites]
    BY LenProperties
  <2>2. s \in [1..Len(s) -> Writes]
    BY <2>1 DEF ProperWrites
  <2> QED BY <2>1, <2>2, SeqDef
<1> QED BY <1>1

LEMMA TypeInvType == TypeInv => TypeOK
<1> SUFFICES ASSUME TypeInv PROVE TypeOK
  OBVIOUS
<1>1. turn \in [Turns -> [step : {"idle", "loaded", "told", "talking"}, own : States, todo : Seq(Writes)]]
  BY ProperAreWrites DEF TypeInv, RowsOK, TurnRows
<1>2. tick \in [Ticks -> [own : States, todo : Seq(Writes)]]
  BY ProperAreWrites DEF TypeInv, RowsOK, TickRows
<1> QED BY <1>1, <1>2 DEF TypeInv, StoredOK, TypeOK

LEMMA TypeBegin == Init => TypeInv
<1> SUFFICES ASSUME Init PROVE TypeInv
  OBVIOUS
<1>1. StoredOK
  BY StateFacts, CountAssumption DEF Init, StoredOK, CardCount
<1>2. RowsOK
  BY RowFacts DEF Init, RowsOK
<1> QED BY <1>1, <1>2 DEF TypeInv

(* A turn alone changes, or a turn and what is stored.                     *)
LEMMA TurnTypes ==
  ASSUME TypeInv, StoredOK', NEW r \in Turns, NEW step, NEW own, NEW todo, TurnIs(r, step, own, todo), UNCHANGED tick
  PROVE  TypeInv'
BY DEF TypeInv, RowsOK, TurnIs

LEMMA QuietTypes ==
  ASSUME TypeInv, NEW r \in Turns, NEW step, NEW own, NEW todo, TurnIs(r, step, own, todo),
         UNCHANGED <<postgres, stored, started, tick>>
  PROVE  TypeInv'
<1>1. StoredOK'
  BY StoredStays DEF TypeInv
<1> QED BY <1>1, TurnTypes

LEMMA FailTypes ==
  ASSUME TypeInv, UNCHANGED postgres, NEW r \in Turns,
         TurnWriteFails(r) \/ ReadFails(r) \/ EndTurn(r) \/ Abandon(r) \/ ToolTimeout(r)
  PROVE  TypeInv'
<1>1. /\ turn[r].own \in States /\ turn[r].todo \in Seq(ProperWrites) /\ turn[r].step \in Steps
      /\ <<>> \in Seq(ProperWrites) /\ NoState \in States /\ "talking" \in Steps
  BY TurnRow, StateFacts, EmptySeq DEF TypeInv, Steps
<1>2. CASE TurnWriteFails(r)
  <2>1. turn[r].todo # <<>> /\ turn' = [turn EXCEPT ![r].todo = Tail(turn[r].todo)]
        /\ UNCHANGED <<stored, started, tick>>
    BY <1>2 DEF TurnWriteFails
  <2>2. Tail(turn[r].todo) \in Seq(ProperWrites)
    BY <1>1, <2>1, HeadTail
  <2>3. TurnIs(r, turn[r].step, turn[r].own, Tail(turn[r].todo))
    BY <1>1, <2>1, <2>2, TurnChanges DEF TypeInv
  <2> QED BY <2>1, <2>3, QuietTypes
<1>3. CASE ReadFails(r)
  <2>1. PICK own \in {turn[r].own, NoState} :
          turn' = [turn EXCEPT ![r].step = "talking", ![r].own = own]
    BY <1>3 DEF ReadFails
  <2>2. UNCHANGED <<stored, started, tick>>
    BY <1>3 DEF ReadFails
  <2>3. TurnIs(r, "talking", own, turn[r].todo)
    BY <1>1, <2>1, TurnChanges DEF TypeInv
  <2> QED BY <2>2, <2>3, QuietTypes
<1>4. CASE EndTurn(r) \/ Abandon(r)
  <2>1. turn' = [turn EXCEPT ![r] = NoTurn] /\ UNCHANGED <<stored, started, tick>>
    BY <1>4 DEF EndTurn, Abandon
  <2> QED BY <2>1, TurnGone, QuietTypes
<1>5. CASE ToolTimeout(r)
  <2>1. turn' = [turn EXCEPT ![r].todo = <<>>] /\ UNCHANGED <<stored, started, tick>>
    BY <1>5 DEF ToolTimeout
  <2>2. TurnIs(r, turn[r].step, turn[r].own, <<>>)
    BY <1>1, <2>1, TurnChanges DEF TypeInv
  <2> QED BY <2>1, <2>2, QuietTypes
<1> QED BY <1>2, <1>3, <1>4, <1>5

LEMMA TalkTypes ==
  ASSUME TypeInv, UNCHANGED postgres, NEW r \in Turns,
         \/ BeginTurn(r) \/ Open(r) \/ Hear(r) \/ FinishRound(r)
         \/ ToolStartsRoast(r) \/ ApiStartsRoast(r) \/ TurnWrites(r)
         \/ \E reason \in Reasons : MarkRoastComplete(r, reason)
  PROVE  TypeInv'
<1>1. CASE BeginTurn(r)
  BY <1>1, BeginTurnDoes, QuietTypes
<1>2. CASE FreeChat(r)
  BY <1>2, FreeChatDoes, QuietTypes
<1>3. CASE CloseRoast(r)
  BY <1>3, CloseRoastDoes, QuietTypes
<1>4. CASE GetPrompt(r)
  <2>1. PICK step \in {"talking", "told"} : TurnIs(r, step, turn[r].own, turn[r].todo)
    BY <1>4, GetPromptDoes
  <2>2. UNCHANGED <<stored, started, tick>>
    BY <1>4, GetPromptDoes
  <2> QED BY <2>1, <2>2, QuietTypes
<1>5. CASE DeletePrompt(r)
  BY <1>5, DeletePromptDoes, TurnTypes
<1>6. CASE FinishRound(r)
  <2>1. PICK t \in Ticks : EndRound(r, t)
    BY <1>6 DEF FinishRound
  <2>2. UNCHANGED <<stored, started>> /\ TurnIs(r, "idle", NoState, <<>>) /\ TickIs(t, turn[r].own, <<>>)
    BY <2>1, EndRoundDoes
  <2>3. StoredOK'
    BY <2>2, StoredStays DEF TypeInv
  <2> QED BY <2>2, <2>3 DEF TypeInv, RowsOK, TurnIs, TickIs
<1>7. CASE ToolStartsRoast(r) \/ ApiStartsRoast(r)
  <2>1. StartRoast(r)
    BY <1>7 DEF ToolStartsRoast, ApiStartsRoast
  <2>2. TurnIs(r, turn[r].step, turn[r].own, Beginning(active)) /\ StoredOK' /\ UNCHANGED tick
    BY <2>1, StartRoastDoes
  <2> QED BY <2>2, TurnTypes
<1>8. CASE TurnWrites(r)
  <2>1. TurnIs(r, turn[r].step, turn[r].own, Tail(turn[r].todo)) /\ StoredOK' /\ UNCHANGED tick
    BY <1>8, TurnWritesDoes
  <2> QED BY <2>1, TurnTypes
<1>9. CASE \E reason \in Reasons : MarkRoastComplete(r, reason)
  BY <1>9, MarkRoastCompleteDoes, QuietTypes
<1> QED BY <1>1, <1>2, <1>3, <1>4, <1>5, <1>6, <1>7, <1>8, <1>9 DEF Open, Hear

LEMMA TickTypes ==
  ASSUME TypeInv, UNCHANGED postgres, NEW t \in Ticks, Judge(t) \/ TickWrites(t) \/ TickWriteFails(t)
  PROVE  TypeInv'
<1>1. CASE Judge(t)
  <2>1. PICK todo \in Seq(ProperWrites) : TickIs(t, NoState, todo)
    BY <1>1, JudgeDoes
  <2>2. UNCHANGED <<stored, started, turn>>
    BY <1>1, JudgeDoes
  <2>3. StoredOK'
    BY <2>2, StoredStays DEF TypeInv
  <2> QED BY <2>1, <2>2, <2>3 DEF TypeInv, RowsOK, TickIs
<1>2. CASE TickWrites(t)
  <2>1. TickIs(t, tick[t].own, Tail(tick[t].todo)) /\ StoredOK' /\ UNCHANGED turn
    BY <1>2, TickWritesDoes
  <2> QED BY <2>1 DEF TypeInv, RowsOK, TickIs
<1>3. CASE TickWriteFails(t)
  <2>1. tick[t].todo # <<>> /\ tick' = [tick EXCEPT ![t].todo = Tail(tick[t].todo)]
        /\ UNCHANGED <<stored, started, turn>>
    BY <1>3 DEF TickWriteFails
  <2>2. tick[t].own \in States /\ tick[t].todo \in Seq(ProperWrites)
    BY TickRow DEF TypeInv
  <2>3. Tail(tick[t].todo) \in Seq(ProperWrites)
    BY <2>1, <2>2, HeadTail
  <2>4. TickIs(t, tick[t].own, Tail(tick[t].todo))
    BY <2>1, <2>2, <2>3, TickChanges DEF TypeInv
  <2>5. StoredOK'
    BY <2>1, StoredStays DEF TypeInv
  <2> QED BY <2>1, <2>4, <2>5 DEF TypeInv, RowsOK, TickIs
<1> QED BY <1>1, <1>2, <1>3

LEMMA TypeStep == TypeInv /\ [Next]_<<vars, postgres>> => TypeInv'
<1> SUFFICES ASSUME TypeInv, [Next]_<<vars, postgres>>
             PROVE  TypeInv'
  OBVIOUS
<1>1. CASE UNCHANGED <<vars, postgres>>
  <2>1. UNCHANGED <<postgres, stored, started, turn, tick>>
    BY <1>1 DEF vars
  <2> QED BY <2>1, StoredStays DEF TypeInv, RowsOK
<1>2. CASE Next
  <2>1. GameStep /\ UNCHANGED postgres
    BY <1>2 DEF Next
  <2>2. ASSUME NEW r \in Turns,
               \/ BeginTurn(r) \/ Open(r) \/ Hear(r) \/ EndTurn(r) \/ FinishRound(r)
               \/ ToolStartsRoast(r) \/ ApiStartsRoast(r)
               \/ \E reason \in Reasons : MarkRoastComplete(r, reason)
               \/ TurnWrites(r) \/ TurnWriteFails(r) \/ ReadFails(r) \/ StartOver(r)
               \/ Abandon(r) \/ ToolTimeout(r)
        PROVE  TypeInv'
    BY <2>1, <2>2, TalkTypes, FailTypes, StartOverTypes
  <2>3. ASSUME NEW t \in Ticks, Judge(t) \/ TickWrites(t) \/ TickWriteFails(t)
        PROVE  TypeInv'
    BY <2>1, <2>3, TickTypes
  <2>4. CASE Restart
    <3>1. UNCHANGED <<stored, started>> /\ turn' \in [Turns -> TurnRows] /\ tick' \in [Ticks -> TickRows]
      BY <2>4, RowFacts DEF Restart
    <3> QED BY <2>1, <3>1, StoredStays DEF TypeInv, RowsOK
  <2>5. CASE Expire
    <3>1. UNCHANGED <<history, record, cards, pending, started, turn, tick>> /\ active' \in States
      BY <2>5, StateFacts DEF Expire
    <3> QED BY <2>1, <3>1 DEF TypeInv, RowsOK, StoredOK
  <2> QED BY <2>1, <2>2, <2>3, <2>4, <2>5 DEF GameStep
<1> QED BY <1>1, <1>2

(* Whatever overlaps, times out or fails to be read or written, what is in *)
(* Redis, in the copies of it and in what is still to be written are       *)
(* states of games, and a prompt, a record or a phase is one of those      *)
(* there are (the coroutines of base.py, state.py and tools/roast.py).     *)
THEOREM RoastTypes == Spec => []TypeOK
<1> QED BY TypeBegin, TypeStep, TypeInvType, PTL DEF Spec
-----------------------------------------------------------------------------
(* The first write of a list, and what the list is after it.               *)
LEMMA TailIsNone ==
  ASSUME NEW todo \in Seq(ProperWrites), todo # <<>>
  PROVE  Len(todo) = 1 => Tail(todo) = <<>>
<1>1. Tail(todo) \in Seq(ProperWrites) /\ Len(Tail(todo)) = Len(todo) - 1
  BY HeadTail
<1>2. Len(todo) = 1 => Len(Tail(todo)) = 0
  BY <1>1
<1> QED BY <1>1, <1>2, EmptySeq

LEMMA PlanGoesOn ==
  ASSUME NEW todo \in Seq(ProperWrites), todo # <<>>, NEW a, NEW prompt, Plan(todo, a, prompt), NEW b, NEW prompt2,
         b.game = a.game, b # NoState, Len(todo) > 2 => b = a,
         Len(todo) > 2 => prompt2[a.game] = todo[1].what
  PROVE  Plan(Tail(todo), b, prompt2)
<1> DEFINE rest == Tail(todo)
<1>1. /\ Len(todo) \in Nat /\ Len(rest) = Len(todo) - 1
      /\ \A k \in 1..Len(rest) : rest[k] = todo[k + 1] /\ k + 1 \in 1..Len(todo)
  BY HeadTail
<1> HIDE DEF rest
<1>2. Len(rest) > 1 => b.phase = "active" /\ b = a
  BY <1>1 DEF Plan
<1>3. ASSUME NEW i \in 1..Len(rest)
      PROVE  /\ rest[i].state.game = b.game
             /\ i = Len(rest) => rest[i].to = "history"
             /\ i = Len(rest) - 1 =>
                  /\ rest[i].to = "active" /\ Follows(b, rest[i].state)
                  /\ rest[i].state.phase = "closing" =>
                       (IF i = 1 THEN prompt2[b.game] ELSE rest[i - 1].what) = "closing"
             /\ i < Len(rest) - 1 => rest[i].to = "pending"
  <2>1. rest[i] = todo[i + 1] /\ i + 1 \in 1..Len(todo) /\ i \in Nat
    BY <1>1
  <2>2. CASE i < Len(rest)
    <3>1. Len(rest) > 1 /\ Len(todo) > 2
      BY <1>1, <2>1, <2>2
    <3>2. /\ todo[i + 1].state.game = a.game
          /\ i + 1 = Len(todo) - 1 =>
               /\ todo[i + 1].to = "active" /\ Follows(a, todo[i + 1].state)
               /\ todo[i + 1].state.phase = "closing" =>
                    (IF i + 1 = 1 THEN prompt[a.game] ELSE todo[i + 1 - 1].what) = "closing"
          /\ i + 1 < Len(todo) - 1 => todo[i + 1].to = "pending"
      BY <2>1 DEF Plan
    <3>3. i + 1 # 1 /\ i + 1 - 1 = i
      BY <2>1
    <3>4. i = 1 => prompt2[b.game] = todo[i].what
      BY <3>1
    <3>5. i # 1 => rest[i - 1] = todo[i]
      <4>1. i # 1 => i - 1 \in 1..Len(rest) /\ i - 1 + 1 = i
        BY <1>1, <2>1
      <4> QED BY <1>1, <4>1
    <3> QED BY <1>1, <1>2, <2>1, <2>2, <3>1, <3>2, <3>3, <3>4, <3>5
  <2>3. CASE i = Len(rest)
    BY <1>1, <2>1, <2>3 DEF Plan
  <2> QED BY <1>1, <2>1, <2>2, <2>3
<1>4. Plan(rest, b, prompt2)
  BY <1>2, <1>3 DEF Plan
<1> QED BY <1>4 DEF rest

LEMMA SettlingGoesOn ==
  ASSUME NEW todo \in Seq(ProperWrites), todo # <<>>, NEW a \in States, NEW rec, NEW k, Settling(todo, a, rec, k)
  PROVE  /\ k = 3 => /\ Head(todo).to = "active" /\ Head(todo).state = In(a, "settled")
                     /\ Settling(Tail(todo), In(a, "settled"), rec, 2)
         /\ k = 2 => /\ Head(todo).to = "history" /\ Head(todo).state.game = a.game
                     /\ Settling(Tail(todo), a, rec, 1)
         /\ k = 1 => /\ Head(todo).to = "record" /\ Head(todo).state.game = a.game
                     /\ \A rec2 : Settling(Tail(todo), a, rec2, 0)
         /\ k = 0 => Head(todo).to = "card" /\ Tail(todo) = <<>>
<1> DEFINE rest == Tail(todo)
<1>1. /\ Len(todo) \in Nat /\ Len(rest) = Len(todo) - 1 /\ Head(todo) = todo[1] /\ 1 \in 1..Len(todo)
      /\ \A j \in 1..Len(rest) : rest[j] = todo[j + 1] /\ j + 1 \in 1..Len(todo)
  BY HeadTail
<1>2. k \in {Len(todo), Len(todo) - 1} /\ k \in 0..3 /\ a # NoState
  BY DEF Settling
<1>3. ASSUME NEW b, b = IF k = 3 THEN In(a, "settled") ELSE a
      PROVE  b # NoState /\ b.game = a.game /\ (k > 0 => b.phase = "settled")
  <2>1. CASE k = 3
    BY <1>2, <1>3, <2>1, InPhase DEF Phases
  <2>2. CASE k # 3
    BY <1>2, <1>3, <2>2 DEF Settling
  <2> QED BY <2>1, <2>2
<1>4. /\ k = 3 => todo[1].to = "active" /\ todo[1].state = In(a, "settled")
      /\ k = 2 => todo[1].to = "history" /\ todo[1].state.game = a.game
      /\ k = 1 => todo[1].to = "record" /\ todo[1].state.game = a.game
      /\ k = 0 => todo[1].to = "card"
  <2>1. /\ todo[1].state.game = a.game
        /\ 1 = k - 2 => todo[1].to = "active" /\ todo[1].state = In(a, "settled")
        /\ 1 = k - 1 => todo[1].to = "history"
        /\ 1 = k => todo[1].to = "record"
        /\ 1 > k => todo[1].to = "card"
    BY <1>1 DEF Settling
  <2> QED BY <1>2, <2>1
<1>5. k = 0 => rest = <<>>
  <2>1. k = 0 => Len(todo) = 1
    BY <1>1, <1>2
  <2> QED BY <2>1, TailIsNone
<1> HIDE DEF rest
<1>6. ASSUME NEW b, b = IF k = 3 THEN In(a, "settled") ELSE a, NEW rec2, k > 1 => rec2 = rec, NEW n, n = k - 1, k > 0
      PROVE  Settling(rest, b, rec2, n)
  <2>1. n \in {Len(rest), Len(rest) - 1} /\ n \in 0..3 /\ n # 3 /\ k = n + 1
    BY <1>1, <1>2, <1>6
  <2>2. n > 0 => rec2[b.game] = None
    BY <1>2, <1>3, <1>6, <2>1 DEF Settling
  <2>3. ASSUME NEW i \in 1..Len(rest)
        PROVE  /\ rest[i].state.game = b.game
               /\ i = n - 2 => rest[i].to = "active" /\ rest[i].state = In(b, "settled")
               /\ i = n - 1 => rest[i].to = "history"
               /\ i = n => rest[i].to = "record"
               /\ i > n => rest[i].to = "card"
    <3>1. rest[i] = todo[i + 1] /\ i + 1 \in 1..Len(todo) /\ i \in Nat /\ i > 0
      BY <1>1
    <3>2. i # n - 2
      BY <2>1, <3>1
    <3>3. /\ i = n - 1 => i + 1 = k - 1
          /\ i = n => i + 1 = k
          /\ i > n => i + 1 > k
      BY <1>2, <2>1, <3>1
    <3> QED BY <1>3, <1>6, <3>1, <3>2, <3>3 DEF Settling
  <2> QED BY <1>3, <1>6, <2>1, <2>2, <2>3 DEF Settling
<1>7. k = 3 => Settling(rest, In(a, "settled"), rec, 2)
  BY <1>6
<1>8. k = 2 => Settling(rest, a, rec, 1)
  BY <1>6
<1>9. k = 1 => \A rec2 : Settling(rest, a, rec2, 0)
  BY <1>6
<1> QED BY <1>1, <1>4, <1>5, <1>7, <1>8, <1>9 DEF rest

LEMMA StartingGoesOn ==
  ASSUME NEW todo \in Seq(ProperWrites), todo # <<>>, NEW a, NEW hist, NEW rec, NEW last, NEW k,
         Starting(todo, a, hist, rec, last, k), None # last
  PROVE  /\ k = 2 => /\ Head(todo).to = "history" /\ Head(todo).state = In(a, "closed")
                     /\ \A hist2 : hist2[a.game] = "closed" => Starting(Tail(todo), a, hist2, rec, last, 1)
         /\ k = 1 => /\ Head(todo).to = "active" /\ Head(todo).state = NoState
                     /\ Starting(Tail(todo), NoState, hist, rec, last, 0)
         /\ k = 0 => /\ Head(todo).to = "active" /\ Tail(todo) = <<>> /\ Len(todo) = 1
                     /\ Head(todo).state = [game |-> last, phase |-> "active", turns |-> 0, won |-> FALSE]
                     /\ rec[last] = None /\ a = NoState
<1> DEFINE rest == Tail(todo)
<1>1. /\ Len(todo) \in Nat /\ Len(rest) = Len(todo) - 1 /\ Head(todo) = todo[1] /\ 1 \in 1..Len(todo)
      /\ \A j \in 1..Len(rest) : rest[j] = todo[j + 1] /\ j + 1 \in 1..Len(todo)
  BY HeadTail
<1>2. k \in {Len(todo), Len(todo) - 1} /\ k \in 0..2 /\ (k > 0 <=> a # NoState)
  BY DEF Starting
<1>3. /\ k = 2 => todo[1].to = "history" /\ todo[1].state = In(a, "closed")
      /\ k = 1 => todo[1].to = "active" /\ todo[1].state = NoState
      /\ k = 0 => /\ todo[1].to = "active"
                  /\ todo[1].state = [game |-> last, phase |-> "active", turns |-> 0, won |-> FALSE]
  <2>1. /\ 1 = k - 1 => todo[1].to = "history" /\ todo[1].state = In(a, "closed")
        /\ 1 = k => todo[1].to = "active" /\ todo[1].state = NoState
        /\ 1 > k => /\ todo[1].to = "active"
                    /\ todo[1].state = [game |-> last, phase |-> "active", turns |-> 0, won |-> FALSE]
    BY <1>1 DEF Starting
  <2> QED BY <1>2, <2>1
<1>4. k = 0 => rest = <<>> /\ Len(todo) = 1 /\ rec[last] = None /\ a = NoState
  <2>1. k = 0 => Len(todo) = 1
    BY <1>1, <1>2
  <2> QED BY <1>2, <2>1, TailIsNone DEF Starting
<1> HIDE DEF rest
<1>5. ASSUME NEW b, b = IF k = 1 THEN NoState ELSE a, NEW hist2, k = 2 => hist2[a.game] = "closed", NEW n, n = k - 1, k > 0
      PROVE  Starting(rest, b, hist2, rec, last, n)
  <2>1. n \in {Len(rest), Len(rest) - 1} /\ n \in 0..2 /\ k = n + 1
    BY <1>1, <1>2, <1>5
  <2>2. k \in {1, 2}
    BY <1>2, <1>5
  <2>3. n > 0 <=> b # NoState
    BY <1>2, <1>5, <2>2
  <2>4. n = 1 => hist2[b.game] = "closed"
    BY <1>5, <2>2
  <2>5. Len(rest) > n => rec[last] = None /\ b.game # last /\ last > 0
    <3>1. Len(rest) > n => Len(todo) > k
      BY <1>1, <2>1
    <3> QED BY <1>5, <3>1, StateFacts DEF Starting
  <2>6. ASSUME NEW i \in 1..Len(rest)
        PROVE  /\ i = n - 1 => rest[i].to = "history" /\ rest[i].state = In(b, "closed")
               /\ i = n => rest[i].to = "active" /\ rest[i].state = NoState
               /\ i > n => /\ rest[i].to = "active"
                           /\ rest[i].state = [game |-> last, phase |-> "active", turns |-> 0, won |-> FALSE]
    <3>1. rest[i] = todo[i + 1] /\ i + 1 \in 1..Len(todo) /\ i \in Nat /\ i > 0
      BY <1>1
    <3>2. i # n - 1
      BY <2>1, <2>2, <3>1
    <3>3. (i = n => i + 1 = k) /\ (i > n => i + 1 > k)
      BY <2>1, <3>1
    <3> QED BY <3>1, <3>2, <3>3 DEF Starting
  <2> QED BY <2>1, <2>3, <2>4, <2>5, <2>6 DEF Starting
<1>6. k = 2 => \A hist2 : hist2[a.game] = "closed" => Starting(rest, a, hist2, rec, last, 1)
  BY <1>5
<1>7. k = 1 => Starting(rest, NoState, hist, rec, last, 0)
  BY <1>5
<1> QED BY <1>1, <1>3, <1>4, <1>6, <1>7 DEF rest
-----------------------------------------------------------------------------
(* Calm play, step by step.                                                *)
StepGood == GoesForward /\ Announced /\ RecordKept

LEMMA SameIsGood == StoredOK /\ UNCHANGED <<active, record>> => StepGood
<1> SUFFICES ASSUME StoredOK, UNCHANGED <<active, record>> PROVE StepGood
  OBVIOUS
<1>1. Rank(active.phase) \in Nat
  BY DEF Rank
<1>2. Rank(active.phase) <= Rank(active'.phase)
  BY <1>1
<1> QED BY <1>2 DEF StepGood, GoesForward, Announced, RecordKept

LEMMA IdleTicks ==
  ASSUME OneTask, RowsOK, NEW r \in Turns, turn[r].step # "idle" \/ turn[r].todo # <<>>
  PROVE  \A t \in Ticks : tick[t] = NoTick
BY RowFacts DEF OneTask

(* A turn goes on, no tick runs, nothing is stored.                        *)
LEMMA TurnCalm ==
  ASSUME OneVoice, TypeInv, CalmInv, NEW r \in Turns, NEW step, NEW own, NEW todo, TurnIs(r, step, own, todo),
         UNCHANGED <<postgres, stored, started, tick>>, \A t \in Ticks : tick[t] = NoTick,
         todo = turn[r].todo \/ turn[r].todo = <<>>,
         TurnFine(turn'[r], active, history, record, started)
  PROVE  CalmInv' /\ StepGood
<1>1. \A q \in Turns : q = r
  BY DEF OneVoice
<1>2. UNCHANGED <<active, history, record, cards, pending>>
  BY DEF stored
<1>3. OneTask'
  BY DEF OneTask
<1>4. Past'
  <2>1. ASSUME NEW g, NEW q \in Turns, Coming(turn[q].todo, g) PROVE Coming(turn'[q].todo, g)
    BY <1>1, <2>1 DEF Coming, TurnIs
  <2> QED BY <1>2, <2>1 DEF CalmInv, Past
<1>5. \A t \in Ticks : TickFine(tick'[t], active', pending')
  BY <1>2 DEF CalmInv
<1>6. StepGood
  BY <1>2, SameIsGood DEF TypeInv
<1> QED BY <1>1, <1>2, <1>3, <1>4, <1>5, <1>6 DEF CalmInv

LEMMA OpenCalm ==
  ASSUME OneVoice, TypeInv, CalmInv, UNCHANGED postgres, NEW r \in Turns,
         (BeginTurn(r) /\ Settled) \/ FreeChat(r) \/ CloseRoast(r) \/ GetPrompt(r)
  PROVE  CalmInv' /\ StepGood
<1>1. TurnFine(turn[r], active, history, record, started) /\ OneTask /\ RowsOK /\ active \in States /\ postgres
  BY DEF CalmInv, TypeInv, StoredOK
<1>2. Writing(<<>>, active, history, record, started)
  BY DEF Writing
<1>3. CASE BeginTurn(r) /\ Settled
  <2>1. /\ turn[r].todo = <<>> /\ UNCHANGED <<stored, started, tick>> /\ TurnIs(r, "loaded", active, <<>>)
    BY <1>3, BeginTurnDoes
  <2>2. TurnFine(turn'[r], active, history, record, started)
    BY <1>2, <2>1 DEF TurnFine, TurnIs
  <2> QED BY <1>3, <2>1, <2>2, TurnCalm DEF Settled
<1>4. CASE FreeChat(r)
  <2>1. /\ turn[r].step = "loaded" /\ turn[r].own = NoState /\ UNCHANGED <<stored, started, tick>>
        /\ TurnIs(r, "talking", turn[r].own, turn[r].todo)
    BY <1>4, FreeChatDoes
  <2>2. ~Playing(NoState)
    BY StateFacts DEF Playing
  <2>3. turn[r].todo = <<>> /\ TurnFine(turn'[r], active, history, record, started)
    BY <1>1, <2>1, <2>2 DEF TurnFine, TurnIs
  <2> QED BY <1>1, <2>1, <2>3, IdleTicks, TurnCalm
<1>5. CASE CloseRoast(r)
  <2>1. /\ turn[r].step = "loaded" /\ turn[r].own.phase \in {"settled", "closed"}
        /\ UNCHANGED <<stored, started, tick>> /\ TurnIs(r, "talking", NoState, Farewell(active))
    BY <1>5, CloseRoastDoes
  <2>2. turn[r].todo = <<>> /\ turn[r].own = active /\ active # NoState
    BY <1>1, <2>1, StateFacts DEF TurnFine
  <2>3. ~Playing(NoState)
    BY StateFacts DEF Playing
  <2>4. Starting(Close(active), active, history, record, started, 2)
    <3>1. /\ Len(Close(active)) = 2
          /\ Close(active)[1].to = "history" /\ Close(active)[1].state = In(active, "closed")
          /\ Close(active)[2].to = "active" /\ Close(active)[2].state = NoState
      BY <1>1, <2>2, CloseWrites
    <3> QED BY <2>2, <3>1 DEF Starting
  <2>5. Writing(Farewell(active), active, history, record, started)
    BY <2>2, <2>4 DEF Farewell, Writing
  <2>6. TurnFine(turn'[r], active, history, record, started)
    BY <2>1, <2>3, <2>5 DEF TurnFine, TurnIs
  <2> QED BY <1>1, <2>1, <2>2, <2>6, IdleTicks, TurnCalm
<1>6. CASE GetPrompt(r)
  <2>1. PICK step \in {"talking", "told"} : TurnIs(r, step, turn[r].own, turn[r].todo)
    BY <1>6, GetPromptDoes
  <2>2. turn[r].step = "loaded" /\ turn[r].own.phase \in {"active", "closing"} /\ UNCHANGED <<stored, started, tick>>
    BY <1>6, GetPromptDoes
  <2>3. turn[r].own = active /\ turn[r].own # NoState /\ turn[r].todo = <<>>
    BY <1>1, <2>2, StateFacts DEF TurnFine
  <2>4. TurnFine(turn'[r], active, history, record, started)
    BY <1>2, <2>1, <2>3 DEF TurnFine, TurnIs
  <2> QED BY <1>1, <2>1, <2>2, <2>4, IdleTicks, TurnCalm
<1> QED BY <1>3, <1>4, <1>5, <1>6

LEMMA DeletePromptCalm ==
  ASSUME OneVoice, TypeInv, CalmInv, UNCHANGED postgres, NEW r \in Turns, DeletePrompt(r)
  PROVE  CalmInv' /\ StepGood
<1>1. TurnFine(turn[r], active, history, record, started) /\ OneTask /\ RowsOK /\ Past /\ postgres
  BY DEF CalmInv, TypeInv
<1>2. /\ turn[r].step = "told" /\ UNCHANGED <<active, history, record, cards, started, tick>>
      /\ TurnIs(r, "talking", turn[r].own, turn[r].todo)
  BY DeletePromptDoes
<1>3. \A t \in Ticks : tick[t] = NoTick
  BY <1>1, <1>2, IdleTicks
<1>4. turn[r].todo = <<>> /\ turn[r].own = active
  BY <1>1, <1>2 DEF TurnFine
<1>5. TurnFine(turn'[r], active, history, record, started)
  BY <1>1, <1>2, <1>4 DEF TurnFine, TurnIs
<1>6. \A q \in Turns : q = r
  BY DEF OneVoice
<1>7. OneTask'
  BY <1>2, <1>3 DEF OneTask
<1>8. Past'
  <2>1. ASSUME NEW g, NEW q \in Turns, Coming(turn[q].todo, g) PROVE Coming(turn'[q].todo, g)
    BY <1>2, <1>6, <2>1 DEF TurnIs
  <2> QED BY <1>1, <1>2, <2>1 DEF Past
<1>9. \A t \in Ticks : TickFine(tick'[t], active', pending')
  BY <1>2, <1>3, RowFacts DEF TickFine
<1>10. StepGood
  BY <1>2, SameIsGood DEF TypeInv
<1> QED BY <1>1, <1>2, <1>5, <1>6, <1>7, <1>8, <1>9, <1>10 DEF CalmInv

LEMMA EndCalm ==
  ASSUME OneVoice, TypeInv, CalmInv, UNCHANGED postgres, NEW r \in Turns,
         EndTurn(r) \/ (turn[r].todo = <<>> /\ Abandon(r))
  PROVE  CalmInv' /\ StepGood
<1>1. turn[r] # NoTurn /\ turn[r].todo = <<>> /\ UNCHANGED <<stored, started, tick>>
      /\ turn' = [turn EXCEPT ![r] = NoTurn]
  BY RowFacts DEF EndTurn, Abandon
<1>2. TurnIs(r, "idle", NoState, <<>>) /\ turn'[r] = NoTurn
  BY <1>1, TurnGone
<1>3. \A t \in Ticks : tick[t] = NoTick
  BY <1>1 DEF CalmInv, OneTask
<1>4. TurnFine(turn'[r], active, history, record, started)
  <2>1. ~Playing(NoState)
    BY StateFacts DEF Playing
  <2> QED BY <1>2, <2>1 DEF TurnFine, TurnIs, Writing
<1> QED BY <1>1, <1>2, <1>3, <1>4, TurnCalm

LEMMA SettleCalm ==
  ASSUME OneVoice, TypeInv, CalmInv, UNCHANGED postgres, NEW r \in Turns, ~Playing(turn[r].own),
         NEW reason \in Reasons, MarkRoastComplete(r, reason)
  PROVE  CalmInv' /\ StepGood
<1>1. TurnFine(turn[r], active, history, record, started) /\ OneTask /\ RowsOK /\ Past /\ postgres /\ active \in States
  BY DEF CalmInv, TypeInv, StoredOK
<1>2. /\ turn[r].step = "talking" /\ turn[r].todo = <<>> /\ active.phase \in {"active", "closing"}
      /\ active # NoState /\ UNCHANGED <<stored, started, tick>>
      /\ TurnIs(r, "talking", turn[r].own, Settlement(active, reason))
  BY MarkRoastCompleteDoes
<1>3. record[active.game] = None
  BY <1>1, <1>2, StateFacts DEF Past
<1>4. Settling(Settlement(active, reason), active, record, 3)
  BY <1>1, <1>2, <1>3, SettlementWrites
<1>5. Writing(Settlement(active, reason), active, history, record, started)
  BY <1>4 DEF Writing
<1>6. TurnFine(turn'[r], active, history, record, started)
  BY <1>2, <1>5 DEF TurnFine, TurnIs
<1> QED BY <1>1, <1>2, <1>6, IdleTicks, TurnCalm

LEMMA StartCalm ==
  ASSUME OneVoice, TypeInv, CalmInv, UNCHANGED postgres, NEW r \in Turns,
         (~Playing(turn[r].own) /\ ToolStartsRoast(r)) \/ (Settled /\ ApiStartsRoast(r))
  PROVE  CalmInv' /\ StepGood
<1>1. TurnFine(turn[r], active, history, record, started) /\ OneTask /\ RowsOK /\ Past /\ postgres /\ active \in States
      /\ started \in 0..GameCount
  BY DEF CalmInv, TypeInv, StoredOK
<1>2. /\ StartRoast(r) /\ turn[r].step \in {"idle", "talking"}
      /\ turn[r].step = "talking" => ~Playing(turn[r].own)
      /\ turn[r].step = "idle" => Settled
  BY DEF ToolStartsRoast, ApiStartsRoast
<1>3. /\ turn[r].todo = <<>> /\ started < GameCount /\ started' = started + 1 /\ UNCHANGED <<stored, tick>>
      /\ TurnIs(r, turn[r].step, turn[r].own, Beginning(active))
  BY <1>2, StartRoastDoes
<1>4. UNCHANGED <<active, history, record, cards, pending>>
  BY <1>3 DEF stored
<1>5. \A t \in Ticks : tick[t] = NoTick
  BY <1>1, <1>2, IdleTicks DEF Settled
<1>6. ~Playing(turn[r].own)
  BY <1>1, <1>2, StateFacts DEF TurnFine, Playing
<1>7. active.game # started + 1
  <2>1. CASE active = NoState
    BY <1>1, <2>1, CountAssumption, NoneFacts, StateFacts
  <2>2. CASE active # NoState
    <3>1. active.game \in Nat /\ active.game <= started
      BY <1>1, <2>2, StateFacts, CountAssumption DEF Past, Games
    <3> QED BY <1>1, <3>1
  <2> QED BY <2>1, <2>2
<1>8. record[started + 1] = None
  <2>1. started + 1 \in Games /\ ~(started + 1 <= started)
    BY <1>1, <1>3, CountAssumption DEF Games
  <2> QED BY <1>1, <2>1 DEF Past
<1>9. /\ \E k \in 0..2 : Starting(Beginning(active), active, history, record, started + 1, k)
      /\ Coming(Beginning(active), started + 1)
  BY <1>1, <1>3, <1>7, <1>8, BeginningWrites
<1>10. Writing(Beginning(active), active, history, record, started + 1)
  BY <1>9 DEF Writing
<1>11. TurnFine(turn'[r], active', history', record', started')
  BY <1>1, <1>2, <1>3, <1>4, <1>6, <1>10 DEF TurnFine, TurnIs
<1>12. \A q \in Turns : q = r
  BY DEF OneVoice
<1>13. OneTask'
  BY <1>3, <1>5 DEF OneTask
<1>14. Past'
  <2>1. active' # NoState => active'.game <= started'
    <3>1. active # NoState => active.game \in Nat /\ active.game <= started
      BY <1>1, StateFacts, CountAssumption DEF Past, Games
    <3> QED BY <1>1, <1>3, <1>4, <3>1
  <2>2. ASSUME NEW g \in Games, record'[g] # None
        PROVE  g <= started' /\ (g = active'.game => active'.phase \notin {"active", "closing"})
    <3>1. g <= started /\ (g = active.game => active.phase \notin {"active", "closing"})
      BY <1>1, <1>4, <2>2 DEF Past
    <3> QED BY <1>1, <1>3, <1>4, <2>2, <3>1, CountAssumption DEF Games
  <2>3. ASSUME NEW g \in 1..started'
        PROVE  history'[g] = "closed" \/ g = active'.game \/ \E q \in Turns : Coming(turn'[q].todo, g)
    <3>1. CASE g = started + 1
      BY <1>3, <1>9, <3>1 DEF TurnIs
    <3>2. CASE g \in 1..started
      <4>1. \A q \in Turns : ~Coming(turn[q].todo, g)
        BY <1>3, <1>12 DEF Coming
      <4> QED BY <1>1, <1>4, <3>2, <4>1 DEF Past
    <3> QED BY <1>1, <1>3, <2>3, <3>1, <3>2
  <2> QED BY <2>1, <2>2, <2>3 DEF Past
<1>15. \A t \in Ticks : TickFine(tick'[t], active', pending')
  BY <1>3, <1>5, RowFacts DEF TickFine
<1>16. StepGood
  BY <1>4, SameIsGood DEF TypeInv
<1> QED BY <1>1, <1>11, <1>12, <1>13, <1>14, <1>15, <1>16 DEF CalmInv

LEMMA IdleTurnFine ==
  ASSUME NEW hist, NEW rec, NEW a, NEW last
  PROVE  TurnFine(NoTurn, a, hist, rec, last)
BY RowFacts, StateFacts DEF TurnFine, Writing, Playing

LEMMA EndRoundCalm ==
  ASSUME OneVoice, TypeInv, CalmInv, UNCHANGED postgres, NEW r \in Turns, FinishRound(r)
  PROVE  CalmInv' /\ StepGood
<1>1. TurnFine(turn[r], active, history, record, started) /\ OneTask /\ RowsOK /\ Past /\ postgres
  BY DEF CalmInv, TypeInv
<1>2. PICK t \in Ticks : EndRound(r, t)
  BY DEF FinishRound
<1>3. /\ turn[r].step = "talking" /\ turn[r].todo = <<>> /\ Playing(turn[r].own) /\ tick[t] = NoTick
      /\ UNCHANGED <<stored, started>> /\ TurnIs(r, "idle", NoState, <<>>) /\ turn'[r] = NoTurn
      /\ TickIs(t, turn[r].own, <<>>)
  BY <1>2, EndRoundDoes
<1>4. UNCHANGED <<active, history, record, cards, pending>>
  BY <1>3 DEF stored
<1>5. \A u \in Ticks : tick[u] = NoTick
  BY <1>1, <1>3, IdleTicks
<1>6. turn[r].own = active
  BY <1>1, <1>3 DEF TurnFine
<1>7. \A q \in Turns : q = r
  BY DEF OneVoice
<1>8. OneTask'
  BY <1>3, <1>5, <1>7 DEF OneTask, TickIs
<1>9. Past'
  <2>1. ASSUME NEW g, NEW q \in Turns PROVE ~Coming(turn[q].todo, g)
    BY <1>3, <1>7 DEF Coming
  <2> QED BY <1>1, <1>3, <1>4, <2>1 DEF Past
<1>10. ASSUME NEW u \in Ticks PROVE TickFine(tick'[u], active', pending')
  <2>1. CASE u = t
    BY <1>3, <1>4, <1>6, <2>1 DEF TickFine, TickIs
  <2>2. CASE u # t
    BY <1>3, <1>5, <2>2, RowFacts DEF TickFine, TickIs
  <2> QED BY <2>1, <2>2
<1>11. \A q \in Turns : TurnFine(turn'[q], active', history', record', started')
  BY <1>3, <1>7, IdleTurnFine
<1>12. StepGood
  BY <1>4, SameIsGood DEF TypeInv
<1> QED BY <1>1, <1>8, <1>9, <1>10, <1>11, <1>12 DEF CalmInv

LEMMA JudgeCalm ==
  ASSUME TypeInv, CalmInv, UNCHANGED postgres, NEW t \in Ticks, JudgeInOneVoice(t)
  PROVE  CalmInv' /\ StepGood
<1>1. TickFine(tick[t], active, pending) /\ OneTask /\ RowsOK /\ Past /\ postgres
  BY DEF CalmInv, TypeInv
<1>2. tick[t].own # NoState /\ UNCHANGED <<stored, started, turn>>
  BY OneVoiceDoes, JudgeDoes
<1>3. PICK todo \in Seq(ProperWrites) :
        /\ TickIs(t, NoState, todo)
        /\ postgres /\ tick[t].own.phase = "active" => \A prompt : Sound(todo, tick[t].own, prompt)
  BY OneVoiceDoes
<1>4. UNCHANGED <<active, history, record, cards, pending>>
  BY <1>2 DEF stored
<1>5. tick[t] # NoTick /\ tick[t].own = active /\ active.phase = "active"
  BY <1>1, <1>2, RowFacts DEF TickFine, Playing
<1>6. (\A r \in Turns : turn[r] = NoTurn) /\ \A u \in Ticks : u # t => tick[u] = NoTick
  BY <1>1, <1>5 DEF OneTask
<1>7. Plan(todo, active, pending)
  BY <1>1, <1>3, <1>5 DEF Sound
<1>8. OneTask'
  BY <1>2, <1>3, <1>6 DEF OneTask, TickIs
<1>9. Past'
  BY <1>1, <1>2, <1>4 DEF Past
<1>10. ASSUME NEW u \in Ticks PROVE TickFine(tick'[u], active', pending')
  <2>1. CASE u = t
    BY <1>3, <1>4, <1>7, <2>1 DEF TickFine, TickIs
  <2>2. CASE u # t
    BY <1>3, <1>6, <2>2, RowFacts DEF TickFine, TickIs
  <2> QED BY <2>1, <2>2
<1>11. \A q \in Turns : TurnFine(turn'[q], active', history', record', started')
  BY <1>2, <1>6, IdleTurnFine
<1>12. StepGood
  BY <1>4, SameIsGood DEF TypeInv
<1> QED BY <1>1, <1>8, <1>9, <1>10, <1>11, <1>12 DEF CalmInv

(* A round on, or the end of a game, is a step forward.                    *)
LEMMA RanksRise ==
  /\ Rank("active") <= Rank("active") /\ Rank("active") <= Rank("closing")
  /\ \A phase \in {"active", "closing"} : Rank(phase) <= Rank("settled")
BY DEF Rank

LEMMA RoundIsGood ==
  ASSUME active.phase = "active", Follows(active, active'), UNCHANGED record,
         active'.phase = "closing" => pending[active.game] = "closing"
  PROVE  StepGood
<1>1. active'.phase \in {"active", "closing"} /\ active'.turns \in {active.turns, active.turns + 1}
  BY DEF Follows
<1>2. Rank(active.phase) <= Rank(active'.phase)
  BY <1>1, RanksRise
<1> QED BY <1>1, <1>2 DEF StepGood, GoesForward, Announced, RecordKept

LEMMA TickWritesCalm ==
  ASSUME TypeInv, CalmInv, UNCHANGED postgres, NEW t \in Ticks, TickWrites(t)
  PROVE  CalmInv' /\ StepGood
<1> DEFINE todo == tick[t].todo
           w == Head(todo)
           n == Len(todo)
<1>1. TickFine(tick[t], active, pending) /\ OneTask /\ RowsOK /\ Past /\ postgres /\ StoredOK
  BY DEF CalmInv, TypeInv
<1>2. /\ todo # <<>> /\ Write(w) /\ UNCHANGED <<started, turn>>
      /\ TickIs(t, tick[t].own, Tail(todo)) /\ StoredOK'
  BY TickWritesDoes
<1>3. todo \in Seq(ProperWrites)
  BY TickRow DEF TypeInv
<1>4. Plan(todo, active, pending) /\ tick[t].own = NoState
  BY <1>1, <1>2 DEF TickFine
<1>5. tick[t] # NoTick
  BY <1>2, RowFacts
<1>6. (\A r \in Turns : turn[r] = NoTurn) /\ \A u \in Ticks : u # t => tick[u] = NoTick
  BY <1>1, <1>5 DEF OneTask
<1>7. w = todo[1] /\ w \in ProperWrites /\ 1 \in 1..n /\ n \in Nat
  BY <1>2, <1>3, HeadTail
<1>8. /\ w.to \in {"active", "history", "record", "card", "pending"}
      /\ w.to = "pending" => w.what \in {"hint", "closing"}
  BY <1>7 DEF ProperWrites, Writes, Proper
<1> HIDE DEF w, n
<1>9. /\ w.state.game = active.game
      /\ n = 1 => w.to = "history"
      /\ n = 2 => /\ w.to = "active" /\ Follows(active, w.state) /\ active.phase = "active"
                  /\ w.state.phase = "closing" => pending[active.game] = "closing"
      /\ n > 2 => w.to = "pending"
  <2>1. /\ todo[1].state.game = active.game
        /\ 1 = n => todo[1].to = "history"
        /\ 1 = n - 1 => /\ todo[1].to = "active" /\ Follows(active, todo[1].state)
                        /\ todo[1].state.phase = "closing" => pending[active.game] = "closing"
        /\ 1 < n - 1 => todo[1].to = "pending"
        /\ n > 1 => active.phase = "active"
    BY <1>4, <1>7 DEF Plan, n
  <2> QED BY <1>7, <2>1
<1>10. active # NoState /\ active.game \in Games
  BY <1>1, <1>4, StateFacts DEF Plan, StoredOK
<1>11. OneTask'
  BY <1>2, <1>6 DEF OneTask, TickIs
<1>12. \A q \in Turns : TurnFine(turn'[q], active', history', record', started')
  BY <1>2, <1>6, IdleTurnFine
<1>13. SUFFICES Past' /\ Plan(Tail(todo), active', pending') /\ StepGood
  <2>1. ASSUME Plan(Tail(todo), active', pending'), NEW u \in Ticks PROVE TickFine(tick'[u], active', pending')
    <3>1. CASE u = t
      BY <1>2, <1>4, <2>1, <3>1 DEF TickFine, TickIs
    <3>2. CASE u # t
      BY <1>2, <1>6, <3>2, RowFacts DEF TickFine, TickIs
    <3> QED BY <3>1, <3>2
  <2> QED BY <1>1, <1>11, <1>12, <2>1 DEF CalmInv
<1>14. CASE n = 1
  <2>1. /\ history' = [history EXCEPT ![active.game] = w.state.phase]
        /\ UNCHANGED <<active, record, cards, pending>>
    BY <1>2, <1>9, <1>14 DEF Write
  <2>2. \A g \in Games : g # active.game => history'[g] = history[g]
    BY <1>1, <2>1 DEF StoredOK
  <2>3. Past'
    <3>1. 1..started \subseteq Games
      BY <1>1, CountAssumption DEF StoredOK, Games
    <3> QED BY <1>1, <1>2, <2>1, <2>2, <3>1 DEF Past
  <2>4. Plan(Tail(todo), active', pending')
    <3>1. ~(Len(todo) > 2)
      BY <1>14 DEF n
    <3>2. todo \in Seq(ProperWrites) /\ Plan(todo, active, pending) /\ todo # <<>>
      BY <1>2, <1>3, <1>4
    <3>3. active'.game = active.game /\ active' # NoState
      BY <1>10, <2>1
    <3> HIDE DEF todo
    <3> QED BY <3>1, <3>2, <3>3, PlanGoesOn
  <2>5. StepGood
    BY <1>1, <2>1, SameIsGood
  <2> QED BY <2>3, <2>4, <2>5
<1>15. CASE n = 2
  <2>1. active' = w.state /\ UNCHANGED <<history, record, cards, pending>>
    BY <1>2, <1>9, <1>15 DEF Write
  <2>2. Follows(active, active') /\ active.phase = "active" /\ (active'.phase = "closing" => pending[active.game] = "closing")
    BY <1>9, <1>15, <2>1
  <2>3. active'.game = active.game /\ active' # NoState
    BY <1>10, <2>2, StateFacts DEF Follows
  <2>4. Past'
    BY <1>1, <1>2, <1>10, <2>1, <2>2, <2>3 DEF Past
  <2>5. Plan(Tail(todo), active', pending')
    <3>1. ~(Len(todo) > 2)
      BY <1>15 DEF n
    <3>2. todo \in Seq(ProperWrites) /\ Plan(todo, active, pending) /\ todo # <<>>
      BY <1>2, <1>3, <1>4
    <3> HIDE DEF todo
    <3> QED BY <2>3, <3>1, <3>2, PlanGoesOn
  <2>6. StepGood
    BY <2>1, <2>2, RoundIsGood
  <2> QED BY <2>4, <2>5, <2>6
<1>16. CASE n > 2
  <2>1. /\ pending' = [pending EXCEPT ![active.game] = w.what]
        /\ UNCHANGED <<active, history, record, cards>>
    BY <1>2, <1>9, <1>16 DEF Write
  <2>2. pending'[active.game] = todo[1].what
    BY <1>1, <1>7, <1>10, <2>1 DEF StoredOK
  <2>3. Past'
    BY <1>1, <1>2, <2>1 DEF Past
  <2>4. Plan(Tail(todo), active', pending')
    <3>1. Plan(todo, active, pending) /\ todo # <<>> /\ active' = active
      BY <1>2, <1>4, <2>1
    <3> HIDE DEF todo
    <3> QED BY <1>3, <1>10, <2>2, <3>1, PlanGoesOn
  <2>5. StepGood
    BY <1>1, <2>1, SameIsGood
  <2> QED BY <2>3, <2>4, <2>5
<1> QED BY <1>7, <1>14, <1>15, <1>16

LEMMA SettlementBringsNone ==
  ASSUME NEW todo \in Seq(ProperWrites), todo # <<>>, NEW a, NEW rec, NEW k \in 0..3, Settling(todo, a, rec, k), NEW g
  PROVE  ~Coming(todo, g)
<1>1. Len(todo) \in 1..Len(todo) /\ Len(todo) >= k /\ Len(todo) \in Nat
  <2>1. Len(todo) # 0 /\ Len(todo) \in Nat
    BY EmptySeq, LenProperties
  <2> QED BY <2>1 DEF Settling
<1>2. (Len(todo) = k => todo[Len(todo)].to = "record") /\ (Len(todo) > k => todo[Len(todo)].to = "card")
  BY <1>1 DEF Settling
<1>3. Len(todo) = k \/ Len(todo) > k
  BY <1>1
<1> QED BY <1>2, <1>3 DEF Coming

LEMMA TurnWritesCalm ==
  ASSUME OneVoice, TypeInv, CalmInv, UNCHANGED postgres, NEW r \in Turns, TurnWrites(r)
  PROVE  CalmInv' /\ StepGood
<1> DEFINE todo == turn[r].todo
           w == Head(todo)
           rest == Tail(todo)
<1>1. TurnFine(turn[r], active, history, record, started) /\ OneTask /\ RowsOK /\ Past /\ postgres /\ StoredOK
  BY DEF CalmInv, TypeInv
<1>2. /\ todo # <<>> /\ Write(w) /\ UNCHANGED <<started, tick>>
      /\ TurnIs(r, turn[r].step, turn[r].own, rest) /\ StoredOK'
  BY TurnWritesDoes
<1>3. todo \in Seq(ProperWrites)
  BY TurnRow DEF TypeInv
<1>4. \A t \in Ticks : tick[t] = NoTick
  BY <1>1, <1>2, IdleTicks
<1>5. \A q \in Turns : q = r
  BY DEF OneVoice
<1>6. /\ rest \in Seq(ProperWrites) /\ Len(rest) = Len(todo) - 1 /\ Len(todo) \in Nat
      /\ \A k \in 1..Len(rest) : rest[k] = todo[k + 1]
  BY <1>2, <1>3, HeadTail
<1>7. turn'[r].todo = rest
  BY <1>2 DEF TurnIs
<1>8. active \in States /\ started \in Nat /\ 1..started \subseteq Games /\ started # None
  BY <1>1, CountAssumption, NoneFacts DEF StoredOK, Games
<1>9. active # NoState => active.game \in Games
  BY <1>8, StateFacts
<1>10. (\E k \in 0..3 : Settling(todo, active, record, k))
       \/ \E k \in 0..2 : Starting(todo, active, history, record, started, k)
  BY <1>1, <1>2 DEF TurnFine, Writing
<1>0. turn[r].todo = todo /\ w = Head(todo) /\ rest = Tail(todo)
  OBVIOUS
<1> HIDE DEF todo, w, rest
<1>11. SUFFICES Past' /\ Writing(rest, active', history', record', started) /\ StepGood
  <2>1. ASSUME Writing(rest, active', history', record', started) PROVE TurnFine(turn'[r], active', history', record', started')
    <3>1. turn[r].step \in {"idle", "talking"} /\ ~Playing(turn[r].own) /\ (turn[r].step = "idle" => turn[r].own = NoState)
      BY <1>0, <1>1, <1>2 DEF TurnFine
    <3> QED BY <1>2, <2>1, <3>1 DEF TurnFine, TurnIs
  <2>2. OneTask'
    BY <1>2, <1>4 DEF OneTask
  <2>3. \A t \in Ticks : TickFine(tick'[t], active', pending')
    BY <1>2, <1>4, RowFacts DEF TickFine
  <2> QED BY <1>1, <1>5, <2>1, <2>2, <2>3 DEF CalmInv
<1>12. ASSUME NEW g, Coming(todo, g), Len(todo) > 1 PROVE Coming(rest, g)
  <2>1. Len(rest) \in 1..Len(rest) /\ Len(rest) # 0 /\ Len(rest) + 1 = Len(todo)
    <3>1. Len(rest) = Len(todo) - 1 /\ Len(todo) \in Nat /\ Len(todo) > 1
      BY <1>6, <1>12
    <3> QED BY <3>1
  <2>2. rest[Len(rest)] = todo[Len(todo)]
    BY <1>6, <2>1
  <2>3. rest # <<>>
    BY <2>1, NotEmpty
  <2> QED BY <1>12, <2>2, <2>3 DEF Coming
<1>13. ASSUME NEW k \in 0..3, Settling(todo, active, record, k)
       PROVE  Past' /\ Writing(rest, active', history', record', started) /\ StepGood
  <2>1. active # NoState /\ active.game \in Games
    BY <1>9, <1>13 DEF Settling
  <2>2. ASSUME NEW g, NEW q \in Turns PROVE ~Coming(turn[q].todo, g)
    <3>1. ~Coming(todo, g)
      BY <1>2, <1>3, <1>13, SettlementBringsNone
    <3> QED BY <1>0, <1>5, <3>1
  <2>3. \A g \in 1..started : history[g] = "closed" \/ g = active.game
    BY <1>1, <2>2 DEF Past
  <2>4. CASE k = 3
    <3>1. w.to = "active" /\ w.state = In(active, "settled") /\ Settling(rest, In(active, "settled"), record, 2)
      BY <1>0, <1>2, <1>3, <1>8, <1>13, <2>4, SettlingGoesOn
    <3>2. active' = In(active, "settled") /\ UNCHANGED <<history, record, cards, pending>>
      BY <1>2, <3>1 DEF Write
    <3>3. /\ active'.game = active.game /\ active'.phase = "settled" /\ active'.turns = active.turns /\ active' # NoState
          /\ active.phase \in {"active", "closing"}
      BY <1>8, <1>13, <2>1, <2>4, <3>2, InPhase DEF Phases, Settling
    <3>4. Past'
      BY <1>1, <1>2, <2>1, <2>3, <3>2, <3>3 DEF Past
    <3>5. Writing(rest, active', history', record', started)
      BY <3>1, <3>2 DEF Writing
    <3>6. StepGood
      BY <3>2, <3>3, RanksRise DEF StepGood, GoesForward, Announced, RecordKept
    <3> QED BY <3>4, <3>5, <3>6
  <2>5. CASE k = 2
    <3>1. w.to = "history" /\ w.state.game = active.game /\ Settling(rest, active, record, 1)
      BY <1>0, <1>2, <1>3, <1>8, <1>13, <2>5, SettlingGoesOn
    <3>2. history' = [history EXCEPT ![active.game] = w.state.phase] /\ UNCHANGED <<active, record, cards, pending>>
      BY <1>2, <3>1 DEF Write
    <3>3. \A g \in Games : g # active.game => history'[g] = history[g]
      BY <1>1, <3>2 DEF StoredOK
    <3>4. Past'
      BY <1>1, <1>2, <1>8, <2>3, <3>2, <3>3 DEF Past
    <3>5. Writing(rest, active', history', record', started)
      BY <3>1, <3>2 DEF Writing
    <3> QED BY <1>1, <3>2, <3>4, <3>5, SameIsGood
  <2>6. CASE k = 1
    <3>1. w.to = "record" /\ w.state.game = active.game /\ \A rec2 : Settling(rest, active, rec2, 0)
      BY <1>0, <1>2, <1>3, <1>8, <1>13, <2>6, SettlingGoesOn
    <3>2. record' = [record EXCEPT ![active.game] = w.what] /\ UNCHANGED <<active, history, cards, pending>>
      BY <1>2, <3>1 DEF Write
    <3>3. \A g \in Games : g # active.game => record'[g] = record[g]
      BY <1>1, <3>2 DEF StoredOK
    <3>4. record[active.game] = None /\ active.phase = "settled" /\ active.game <= started
      BY <1>1, <1>13, <2>1, <2>6 DEF Settling, Past
    <3>5. Past'
      BY <1>1, <1>2, <2>1, <2>3, <3>2, <3>3, <3>4 DEF Past
    <3>6. Writing(rest, active', history', record', started)
      BY <3>1, <3>2 DEF Writing
    <3>7. RecordKept
      BY <3>3, <3>4 DEF RecordKept
    <3>8. GoesForward /\ Announced
      <4>1. Rank(active.phase) <= Rank(active'.phase)
        BY <3>2, <3>4 DEF Rank
      <4> QED BY <3>2, <4>1 DEF GoesForward, Announced
    <3> QED BY <3>5, <3>6, <3>7, <3>8 DEF StepGood
  <2>7. CASE k = 0
    <3>1. w.to = "card" /\ rest = <<>>
      BY <1>0, <1>2, <1>3, <1>8, <1>13, <2>7, SettlingGoesOn
    <3>2. UNCHANGED <<active, history, record, pending>>
      BY <1>2, <3>1 DEF Write
    <3>3. Past'
      BY <1>1, <1>2, <2>3, <3>2 DEF Past
    <3> QED BY <1>1, <3>1, <3>2, <3>3, SameIsGood DEF Writing
  <2> QED BY <2>4, <2>5, <2>6, <2>7
<1>14. ASSUME NEW k \in 0..2, Starting(todo, active, history, record, started, k)
       PROVE  Past' /\ Writing(rest, active', history', record', started) /\ StepGood
  <2>1. CASE k = 2
    <3>1. active # NoState /\ active.game \in Games
      BY <1>9, <1>14, <2>1 DEF Starting
    <3>2. \A hist2 : hist2[active.game] = "closed" => Starting(rest, active, hist2, record, started, 1)
      BY <1>0, <1>2, <1>3, <1>8, <1>14, <2>1, StartingGoesOn
    <3>3. w.to = "history" /\ w.state = In(active, "closed")
      <4>1. [history EXCEPT ![active.game] = "closed"][active.game] = "closed"
        BY <1>1, <3>1 DEF StoredOK
      <4> QED BY <1>0, <1>2, <1>3, <1>8, <1>14, <2>1, <4>1, StartingGoesOn
    <3>4. history' = [history EXCEPT ![active.game] = "closed"] /\ UNCHANGED <<active, record, cards, pending>>
      <4>1. w.state.game = active.game /\ w.state.phase = "closed"
        BY <1>8, <3>1, <3>3, InPhase DEF Phases
      <4> QED BY <1>2, <3>3, <4>1 DEF Write
    <3>5. history'[active.game] = "closed" /\ \A g \in Games : g # active.game => history'[g] = history[g]
      BY <1>1, <3>1, <3>4 DEF StoredOK
    <3>6. Len(todo) > 1
      BY <1>6, <1>14, <2>1 DEF Starting
    <3>7. Past'
      BY <1>0, <1>1, <1>2, <1>5, <1>7, <1>8, <1>12, <3>4, <3>5, <3>6 DEF Past
    <3>8. Starting(rest, active', history', record', started, 1)
      BY <3>2, <3>4, <3>5
    <3>9. Writing(rest, active', history', record', started)
      BY <3>8 DEF Writing
    <3> QED BY <1>1, <3>4, <3>7, <3>9, SameIsGood
  <2>2. CASE k = 1
    <3>1. active # NoState /\ active.game \in Games /\ history[active.game] = "closed"
      BY <1>9, <1>14, <2>2 DEF Starting
    <3>2. /\ w.to = "active" /\ w.state = NoState
          /\ Starting(rest, NoState, history, record, started, 0)
      BY <1>0, <1>2, <1>3, <1>8, <1>14, <2>2, StartingGoesOn
    <3>3. active' = NoState /\ UNCHANGED <<history, record, cards, pending>>
      BY <1>2, <3>2 DEF Write
    <3>4. active'.game = None /\ active'.phase = "none" /\ active.game # None
      BY <1>8, <3>1, <3>3, StateFacts
    <3>5. Past'
      <4>1. ASSUME NEW g \in 1..started
            PROVE  history'[g] = "closed" \/ g = active'.game \/ \E q \in Turns : Coming(turn'[q].todo, g)
        <5>1. CASE history[g] = "closed" \/ g = active.game
          BY <3>1, <3>3, <5>1
        <5>2. CASE Coming(todo, g)
          <6>1. CASE Len(todo) > 1
            BY <1>7, <1>12, <5>2, <6>1
          <6>2. CASE ~(Len(todo) > 1)
            <7>1. Len(todo) = 1 /\ todo[1].state = NoState
              <8>1. Len(todo) # 0
                BY <1>2, <1>3, EmptySeq
              <8>2. Len(todo) = 1
                BY <1>6, <6>2, <8>1
              <8>3. 1 \in 1..Len(todo)
                BY <8>2
              <8> QED BY <1>14, <2>2, <8>2, <8>3 DEF Starting
            <7>2. g = None
              BY <5>2, <7>1, StateFacts DEF Coming
            <7> QED BY <1>8, <7>2, CountAssumption, NoneFacts
          <6> QED BY <6>1, <6>2
        <5> QED BY <1>0, <1>1, <1>5, <5>1, <5>2 DEF Past
      <4>2. \A g \in Games : record'[g] # None =>
              g <= started' /\ (g = active'.game => active'.phase \notin {"active", "closing"})
        BY <1>1, <1>2, <3>3, <3>4 DEF Past
      <4> QED BY <1>2, <3>3, <4>1, <4>2 DEF Past
    <3>6. Writing(rest, active', history', record', started)
      BY <3>2, <3>3 DEF Writing
    <3>7. StepGood
      BY <3>3, <3>4 DEF StepGood, GoesForward, Announced, RecordKept
    <3> QED BY <3>5, <3>6, <3>7
  <2>3. CASE k = 0
    <3>1. /\ w.to = "active" /\ rest = <<>> /\ Len(todo) = 1
          /\ w.state = [game |-> started, phase |-> "active", turns |-> 0, won |-> FALSE]
          /\ record[started] = None /\ active = NoState
      <4>1. Starting(todo, active, history, record, started, 0) /\ todo # <<>> /\ None # started
        BY <1>2, <1>8, <1>14, <2>3
      <4>2. /\ Head(todo).to = "active" /\ Tail(todo) = <<>> /\ Len(todo) = 1
            /\ Head(todo).state = [game |-> started, phase |-> "active", turns |-> 0, won |-> FALSE]
            /\ record[started] = None /\ active = NoState
        BY <1>3, <4>1, StartingGoesOn
      <4> QED BY <1>0, <4>2
    <3>2. active' = [game |-> started, phase |-> "active", turns |-> 0, won |-> FALSE] /\ UNCHANGED <<history, record, cards, pending>>
      BY <1>2, <3>1 DEF Write
    <3>3. active'.game = started /\ active'.phase = "active" /\ active.game = None /\ active.phase = "none"
      BY <3>1, <3>2, StateFacts
    <3>4. Past'
      <4>1. ASSUME NEW g \in 1..started
            PROVE  history'[g] = "closed" \/ g = active'.game
        <5>1. g # None
          BY <1>8, NoneFacts, CountAssumption
        <5>2. CASE Coming(todo, g)
          <6>1. todo[1].state.game = g /\ w = todo[1]
            BY <1>2, <1>3, <3>1, <5>2, <1>0, HeadTail DEF Coming
          <6> QED BY <3>1, <3>3, <6>1
        <5>3. CASE history[g] = "closed"
          BY <3>2, <5>3
        <5> QED BY <1>0, <1>1, <1>5, <3>1, <3>3, <5>1, <5>2, <5>3 DEF Past
      <4>2. ASSUME NEW g \in Games, record'[g] # None
            PROVE  g <= started' /\ (g = active'.game => active'.phase \notin {"active", "closing"})
        BY <1>1, <1>2, <3>1, <3>2, <3>3, <4>2 DEF Past
      <4>3. active'.game <= started'
        BY <1>2, <1>8, <3>3
      <4> QED BY <1>2, <4>1, <4>2, <4>3 DEF Past
    <3>5. StepGood
      BY <1>8, <3>1, <3>2, <3>3 DEF StepGood, GoesForward, Announced, RecordKept
    <3> QED BY <3>1, <3>4, <3>5 DEF Writing
  <2> QED BY <2>1, <2>2, <2>3
<1> QED BY <1>10, <1>13, <1>14

LEMMA CalmSteps ==
  ASSUME OneVoice, TypeInv, CalmInv, CalmNext
  PROVE  CalmInv' /\ StepGood
<1>1. CalmStep /\ UNCHANGED postgres
  BY DEF CalmNext
<1>2. CASE \E t \in Ticks : JudgeInOneVoice(t) \/ TickWrites(t)
  BY <1>1, <1>2, JudgeCalm, TickWritesCalm
<1>3. ASSUME NEW r \in Turns,
             (Settled /\ BeginTurn(r)) \/ Open(r) \/ Hear(r)
      PROVE  CalmInv' /\ StepGood
  BY <1>1, <1>3, OpenCalm, DeletePromptCalm DEF Open, Hear
<1>4. ASSUME NEW r \in Turns,
             \/ Settled /\ ApiStartsRoast(r)
             \/ ~Playing(turn[r].own) /\ (ToolStartsRoast(r) \/ \E reason \in Reasons : MarkRoastComplete(r, reason))
      PROVE  CalmInv' /\ StepGood
  BY <1>1, <1>4, StartCalm, SettleCalm
<1>5. ASSUME NEW r \in Turns,
             EndTurn(r) \/ FinishRound(r) \/ TurnWrites(r) \/ (turn[r].todo = <<>> /\ Abandon(r))
      PROVE  CalmInv' /\ StepGood
  BY <1>1, <1>5, EndCalm, EndRoundCalm, TurnWritesCalm
<1> QED BY <1>1, <1>2, <1>3, <1>4, <1>5 DEF CalmStep

-----------------------------------------------------------------------------
(* The cards of calm play.                                                 *)
NoCards(todo) == \A i \in 1..Len(todo) : todo[i].to # "card"

LEMMA OneNoCard ==
  ASSUME NEW table, table # "card", NEW s, NEW what
  PROVE  NoCards(To(table, s, what))
BY DEF To, NoCards

LEMMA NoCardsJoin ==
  ASSUME NEW s \in Seq(ProperWrites), NEW t \in Seq(ProperWrites), NoCards(s), NoCards(t)
  PROVE  NoCards(s \o t)
<1>1. Len(s) \in Nat /\ Len(t) \in Nat
  BY LenProperties
<1>2. Len(s \o t) = Len(s) + Len(t)
      /\ \A i \in 1..Len(s) + Len(t) : (s \o t)[i] = IF i <= Len(s) THEN s[i] ELSE t[i - Len(s)]
  BY ConcatProperties
<1>3. ASSUME NEW i \in 1..Len(s) + Len(t) PROVE (s \o t)[i].to # "card"
  <2>1. CASE i <= Len(s)
    BY <1>1, <1>2, <2>1 DEF NoCards
  <2>2. CASE ~(i <= Len(s))
    <3>1. i - Len(s) \in 1..Len(t)
      BY <1>1, <2>2
    <3> QED BY <1>2, <2>2, <3>1 DEF NoCards
  <2> QED BY <2>1, <2>2
<1> QED BY <1>2, <1>3 DEF NoCards

LEMMA CloseNoCards ==
  ASSUME NEW a \in States, a # NoState
  PROVE  NoCards(Close(a))
<1>1. In(a, "closed") \in States /\ NoState \in States
  BY InPhase, StateFacts DEF Phases
<1> DEFINE h == ToPostgres("history", In(a, "closed"), None)
           n == To("active", NoState, None)
<1>2. h \in Seq(ProperWrites)
  BY <1>1, MaybeWrite
<1>3. n \in Seq(ProperWrites)
  BY <1>1, StateWrite
<1>4. NoCards(h)
  <2>1. NoCards(<<>>)
    BY DEF NoCards
  <2> QED BY <2>1, OneNoCard DEF ToPostgres
<1>5. NoCards(n)
  BY OneNoCard
<1>6. Close(a) = h \o n
  BY DEF Close
<1> HIDE DEF h, n
<1> QED BY <1>2, <1>3, <1>4, <1>5, <1>6, NoCardsJoin

LEMMA BeginningNoCards ==
  ASSUME NEW a \in States, started \in 0..GameCount, started < GameCount
  PROVE  NoCards(Beginning(a))
<1> DEFINE n == To("active", NewGame, None)
           c == IF a = NoState THEN <<>> ELSE Close(a)
<1>1. n \in Seq(ProperWrites)
  BY GameBegins, StateWrite
<1>2. NoCards(n)
  BY OneNoCard
<1>3. c \in Seq(ProperWrites) /\ NoCards(c)
  <2>1. <<>> \in Seq(ProperWrites) /\ NoCards(<<>>)
    BY EmptySeq DEF NoCards
  <2> QED BY <2>1, CloseWrites, CloseNoCards
<1>4. Beginning(a) = c \o n
  BY DEF Beginning
<1> HIDE DEF n, c
<1> QED BY <1>1, <1>2, <1>3, <1>4, NoCardsJoin

(* Of a settlement, the card comes after the record that says "completed". *)
LEMMA SettlementCards ==
  ASSUME NEW a \in States, a # NoState, NEW reason \in Reasons, postgres
  PROVE  LET all == Settlement(a, reason) IN \A i \in 1..Len(all) : all[i].to = "card" =>
           /\ i = 4 /\ Len(all) = 4 /\ all[3].to = "record" /\ all[3].what = "completed"
           /\ all[3].state.game = all[4].state.game
<1> DEFINE s == In(a, "settled")
           r == ToPostgres("record", a, reason)
           card == IF reason = "completed" THEN To("card", a, None) ELSE <<>>
           begun == Save(s) \o r
           all == begun \o card
<1>1. s \in States
  BY InPhase DEF Phases
<1>2. Settlement(a, reason) = all
  BY DEF Settlement
<1>3. /\ card \in Seq(ProperWrites) /\ Len(card) \in {0, 1}
      /\ Len(card) = 1 => reason = "completed" /\ card[1].state = a
  <2>1. CASE reason = "completed"
    BY <2>1, CardWrite
  <2>2. CASE reason # "completed"
    BY <2>2, EmptySeq
  <2> QED BY <2>1, <2>2
<1>4. /\ r \in Seq(ProperWrites) /\ Len(r) = 1
      /\ r[1].to = "record" /\ r[1].state = a /\ r[1].what = reason
  <2>1. r = To("record", a, reason)
    BY MaybeWrite
  <2>2. To("record", a, reason)[1].what = reason
    BY DEF To
  <2> QED BY <2>1, <2>2, RecordWrite
<1> HIDE DEF s, card, r
<1>5. /\ Save(s) \in Seq(ProperWrites) /\ Len(Save(s)) = 2
      /\ Save(s)[1].to = "active" /\ Save(s)[2].to = "history"
  BY <1>1, SaveWrites
<1>6. begun \in Seq(ProperWrites) /\ Len(begun) = 3
      /\ begun[1] = Save(s)[1] /\ begun[2] = Save(s)[2] /\ begun[3] = r[1]
  BY <1>4, <1>5, Third
<1> HIDE DEF begun
<1>7. Len(all) = 3 + Len(card) /\ all[1] = begun[1] /\ all[2] = begun[2] /\ all[3] = begun[3]
      /\ (Len(card) = 1 => all[4] = card[1])
  BY <1>3, <1>6, Fourth
<1> HIDE DEF all
<1>8. ASSUME NEW i \in 1..Len(all), all[i].to = "card"
      PROVE  /\ i = 4 /\ Len(all) = 4 /\ all[3].to = "record" /\ all[3].what = "completed"
             /\ all[3].state.game = all[4].state.game
  <2>1. i \notin {1, 2, 3}
    BY <1>4, <1>5, <1>6, <1>7, <1>8
  <2>2. Len(card) = 1 /\ i = 4
    <3>1. i \in 1..3 + Len(card) /\ i \notin {1, 2, 3} /\ Len(card) \in {0, 1}
      BY <1>3, <1>7, <1>8, <2>1
    <3>2. CASE Len(card) = 0
      BY <3>1, <3>2
    <3>3. CASE Len(card) = 1
      BY <3>1, <3>3
    <3> QED BY <3>1, <3>2, <3>3
  <2> QED BY <1>3, <1>4, <1>6, <1>7, <2>2
<1> QED BY <1>2, <1>8

LEMMA CardsKept ==
  ASSUME CardsInv, UNCHANGED <<record, cards>>,
         \A q \in Turns : turn'[q].todo = turn[q].todo \/ NoCards(turn'[q].todo)
  PROVE  CardsInv'
<1>1. OneCard'
  BY DEF CardsInv, OneCard
<1>2. ASSUME NEW q \in Turns, NEW i \in 1..Len(turn'[q].todo), turn'[q].todo[i].to = "card"
      PROVE  CardDue(turn'[q].todo, i, record', cards')
  <2>1. turn'[q].todo = turn[q].todo
    BY <1>2 DEF NoCards
  <2> QED BY <1>2, <2>1 DEF CardsInv, CardDue
<1> QED BY <1>1, <1>2 DEF CardsInv

LEMMA TickWritesCards ==
  ASSUME TypeInv, CalmInv, CardsInv, UNCHANGED postgres, NEW t \in Ticks, TickWrites(t)
  PROVE  CardsInv'
<1> DEFINE todo == tick[t].todo
<1>1. todo # <<>> /\ Write(Head(todo)) /\ UNCHANGED <<started, turn>>
  BY TickWritesDoes
<1>2. todo \in Seq(ProperWrites)
  BY TickRow DEF TypeInv
<1>3. Plan(todo, active, pending)
  BY <1>1 DEF CalmInv, TickFine
<1>4. Head(todo) = todo[1] /\ 1 \in 1..Len(todo) /\ Len(todo) \in Nat
  BY <1>1, <1>2, HeadTail
<1>5. Head(todo).to \in {"history", "active", "pending"}
  <2>1. 1 = Len(todo) \/ 1 = Len(todo) - 1 \/ 1 < Len(todo) - 1
    <3> DEFINE n == Len(todo)
    <3>1. n \in Nat /\ 1 \in 1..n
      BY <1>4
    <3> HIDE DEF n
    <3>2. 1 = n \/ 1 = n - 1 \/ 1 < n - 1
      BY <3>1
    <3> QED BY <3>2 DEF n
  <2>2. /\ 1 = Len(todo) => todo[1].to = "history"
        /\ 1 = Len(todo) - 1 => todo[1].to = "active"
        /\ 1 < Len(todo) - 1 => todo[1].to = "pending"
    BY <1>3, <1>4 DEF Plan
  <2> QED BY <1>4, <2>1, <2>2
<1>6. UNCHANGED <<record, cards>>
  BY <1>1, <1>5 DEF Write
<1> QED BY <1>1, <1>6, CardsKept

(* A record is written of a game that has none.                            *)
LEMMA RecordIsNew ==
  ASSUME TypeInv, CalmInv, NEW r \in Turns, turn[r].todo # <<>>, Head(turn[r].todo).to = "record"
  PROVE  LET g == Head(turn[r].todo).state.game IN g \in Games /\ record[g] = None
<1> DEFINE todo == turn[r].todo
<1>1. todo \in Seq(ProperWrites) /\ active \in States /\ todo # <<>>
  BY TurnRow DEF TypeInv, StoredOK
<1>2. Head(todo) = todo[1] /\ 1 \in 1..Len(todo) /\ Len(todo) \in Nat
  BY <1>1, HeadTail
<1>3. Writing(todo, active, history, record, started)
  BY DEF CalmInv, TurnFine
<1>4. todo[1].to = "record"
  BY <1>2
<1> HIDE DEF todo
<1>5. ASSUME NEW k \in 0..2, Starting(todo, active, history, record, started, k)
      PROVE  FALSE
  <2>1. 1 = k - 1 \/ 1 = k \/ 1 > k
    BY <1>5
  <2>2. todo[1].to \in {"history", "active"}
    BY <1>2, <1>5, <2>1 DEF Starting
  <2> QED BY <1>4, <2>2
<1>6. ASSUME NEW k \in 0..3, Settling(todo, active, record, k)
      PROVE  todo[1].state.game = active.game /\ active.game \in Games /\ record[active.game] = None
  <2>1. 1 = k - 2 \/ 1 = k - 1 \/ 1 = k \/ 1 > k
    BY <1>6
  <2>2. k = 1
    BY <1>2, <1>4, <1>6, <2>1 DEF Settling
  <2> QED BY <1>1, <1>2, <1>6, <2>2, StateFacts DEF Settling
<1> QED BY <1>1, <1>2, <1>3, <1>5, <1>6 DEF Writing, todo

LEMMA TurnWritesCards ==
  ASSUME OneVoice, TypeInv, CalmInv, CardsInv, UNCHANGED postgres, NEW r \in Turns, TurnWrites(r)
  PROVE  CardsInv'
<1> DEFINE todo == turn[r].todo
           w == Head(todo)
           rest == Tail(todo)
           g == w.state.game
<1>1. todo # <<>> /\ Write(w) /\ turn'[r].todo = rest
  BY TurnWritesDoes DEF TurnIs
<1>2. todo \in Seq(ProperWrites) /\ StoredOK
  BY TurnRow DEF TypeInv
<1>3. /\ w = todo[1] /\ 1 \in 1..Len(todo) /\ Len(todo) \in Nat
      /\ rest \in Seq(ProperWrites) /\ Len(rest) = Len(todo) - 1
      /\ \A i \in 1..Len(rest) : rest[i] = todo[i + 1] /\ i + 1 \in 1..Len(todo)
  BY <1>1, <1>2, HeadTail
<1>4. \A q \in Turns : q = r
  BY DEF OneVoice
<1>5. \A i \in 1..Len(todo) : todo[i].to = "card" => CardDue(todo, i, record, cards)
  BY DEF CardsInv
<1>6. cards \in [Games -> 0..CardCount] /\ CardCount = 2 /\ record \in [Games -> Reasons \cup {None}] /\ OneCard
  BY <1>2 DEF StoredOK, CardCount, CardsInv
<1>7. w.to = "record" => g \in Games /\ record[g] = None
  BY <1>1, RecordIsNew
<1>8. w.to = "card" => g \in Games
  <2>1. w \in ProperWrites
    BY <1>1, <1>2, HeadTail
  <2> QED BY <2>1, StateFacts DEF ProperWrites, Writes, Proper
<1> HIDE DEF todo, w, rest
<1>9. SUFFICES OneCard' /\ \A i \in 1..Len(rest) : rest[i].to = "card" => CardDue(rest, i, record', cards')
  <2>1. ASSUME OneCard', \A i \in 1..Len(rest) : rest[i].to = "card" => CardDue(rest, i, record', cards'), NEW q \in Turns,
               NEW i \in 1..Len(turn'[q].todo), turn'[q].todo[i].to = "card"
        PROVE  CardDue(turn'[q].todo, i, record', cards')
    <3>1. turn'[q].todo = rest
      BY <1>1, <1>4
    <3> QED BY <2>1, <3>1
  <2> QED BY <2>1 DEF CardsInv
<1>10. ASSUME NEW i \in 1..Len(rest), rest[i].to = "card"
       PROVE  /\ i \in Nat /\ i = Len(rest) /\ rest[i] = todo[i + 1]
              /\ todo[i].to = "record" /\ todo[i].what = "completed" /\ todo[i].state.game = rest[i].state.game
              /\ i > 1 => rest[i - 1] = todo[i]
  <2>1. i \in Nat /\ rest[i] = todo[i + 1] /\ i + 1 \in 1..Len(todo) /\ i + 1 > 1 /\ i + 1 - 1 = i
    BY <1>3
  <2>2. CardDue(todo, i + 1, record, cards)
    BY <1>5, <1>10, <2>1
  <2>3. i > 1 => rest[i - 1] = todo[i]
    <3>1. i > 1 => i - 1 \in 1..Len(rest) /\ i - 1 + 1 = i
      BY <1>3, <2>1
    <3> QED BY <1>3, <3>1
  <2>4. i = Len(rest)
    <3>1. i + 1 = Len(todo)
      BY <2>2 DEF CardDue
    <3> QED BY <1>3, <2>1, <3>1
  <2>5. /\ todo[i].to = "record" /\ todo[i].what = "completed" /\ todo[i].state.game = todo[i + 1].state.game
    BY <2>1, <2>2 DEF CardDue
  <2> QED BY <2>1, <2>3, <2>4, <2>5
<1>11. CASE w.to = "card"
  <2>1. CardDue(todo, 1, record, cards)
    BY <1>3, <1>5, <1>11
  <2>2. Len(todo) = 1 /\ record[g] = "completed" /\ cards[g] = 0
    BY <1>3, <2>1 DEF CardDue
  <2>3. cards' = [cards EXCEPT ![g] = @ + 1] /\ UNCHANGED record
    BY <1>1, <1>6, <1>11, <2>2 DEF Write
  <2>4. OneCard'
    BY <1>6, <1>8, <1>11, <2>2, <2>3 DEF OneCard
  <2>5. Len(rest) = 0
    BY <1>3, <2>2
  <2> QED BY <2>4, <2>5
<1>12. CASE w.to = "record"
  <2>1. record' = [record EXCEPT ![g] = w.what] /\ UNCHANGED cards
    BY <1>1, <1>12 DEF Write
  <2>2. g \in Games /\ record[g] = None /\ None # "completed"
    BY <1>7, <1>12, NoneAssumption
  <2>3. cards[g] = 0
    BY <1>6, <2>2 DEF OneCard
  <2>4. OneCard'
    BY <1>6, <2>1, <2>2, <2>3 DEF OneCard
  <2>5. ASSUME NEW i \in 1..Len(rest), rest[i].to = "card" PROVE CardDue(rest, i, record', cards')
    <3>1. /\ i \in Nat /\ i = Len(rest)
          /\ todo[i].to = "record" /\ todo[i].what = "completed" /\ todo[i].state.game = rest[i].state.game
          /\ i > 1 => rest[i - 1] = todo[i]
      BY <1>10, <2>5
    <3>2. i = 1 => record'[rest[i].state.game] = "completed" /\ cards'[rest[i].state.game] = 0
      <4>1. i = 1 => rest[i].state.game = g /\ w.what = "completed"
        BY <1>3, <3>1
      <4> QED BY <1>6, <2>1, <2>2, <2>3, <4>1
    <3> QED BY <3>1, <3>2 DEF CardDue
  <2> QED BY <2>4, <2>5
<1>13. CASE w.to \notin {"card", "record"}
  <2>1. UNCHANGED <<record, cards>>
    BY <1>1, <1>13 DEF Write
  <2>2. OneCard'
    BY <1>6, <2>1 DEF OneCard
  <2>3. ASSUME NEW i \in 1..Len(rest), rest[i].to = "card" PROVE CardDue(rest, i, record', cards')
    <3>1. /\ i \in Nat /\ i = Len(rest)
          /\ todo[i].to = "record" /\ todo[i].what = "completed" /\ todo[i].state.game = rest[i].state.game
          /\ i > 1 => rest[i - 1] = todo[i]
      BY <1>10, <2>3
    <3>2. i # 1
      BY <1>3, <1>13, <3>1
    <3> QED BY <3>1, <3>2 DEF CardDue
  <2> QED BY <2>2, <2>3
<1> QED BY <1>11, <1>12, <1>13

LEMMA CardsStep ==
  ASSUME OneVoice, TypeInv, CalmInv, CardsInv, CalmNext
  PROVE  CardsInv'
<1>1. CalmStep /\ UNCHANGED postgres
  BY DEF CalmNext
<1>2. RowsOK /\ active \in States /\ started \in 0..GameCount /\ postgres
  BY DEF TypeInv, StoredOK, CalmInv
<1>3. NoCards(<<>>)
  BY DEF NoCards
<1>4. ASSUME NEW r \in Turns, NEW step, NEW own, NEW todo, TurnIs(r, step, own, todo),
             UNCHANGED <<record, cards>>, todo = turn[r].todo \/ NoCards(todo)
      PROVE  CardsInv'
  <2>1. \A q \in Turns : turn'[q].todo = turn[q].todo \/ NoCards(turn'[q].todo)
    BY <1>4 DEF TurnIs
  <2> QED BY <1>4, <2>1, CardsKept
<1>5. ASSUME UNCHANGED stored PROVE UNCHANGED <<record, cards>>
  BY <1>5 DEF stored
<1>6. ASSUME NEW t \in Ticks, JudgeInOneVoice(t) \/ TickWrites(t) PROVE CardsInv'
  <2>1. CASE TickWrites(t)
    BY <1>1, <2>1, TickWritesCards
  <2>2. CASE JudgeInOneVoice(t)
    <3>1. UNCHANGED <<stored, started, turn>>
      BY <2>2, OneVoiceDoes, JudgeDoes
    <3> QED BY <1>5, <3>1, CardsKept
  <2> QED BY <1>6, <2>1, <2>2
<1>7. ASSUME NEW r \in Turns, BeginTurn(r) \/ Open(r) \/ Hear(r) PROVE CardsInv'
  <2>1. CASE BeginTurn(r)
    <3>1. UNCHANGED <<stored, started, tick>> /\ TurnIs(r, "loaded", active, <<>>)
      BY <2>1, BeginTurnDoes
    <3> QED BY <1>3, <1>4, <1>5, <3>1
  <2>2. CASE FreeChat(r)
    <3>1. UNCHANGED <<stored, started, tick>> /\ TurnIs(r, "talking", turn[r].own, turn[r].todo)
      BY <2>2, FreeChatDoes
    <3> QED BY <1>4, <1>5, <3>1
  <2>3. CASE CloseRoast(r)
    <3>1. UNCHANGED <<stored, started, tick>> /\ TurnIs(r, "talking", NoState, Farewell(active))
      BY <2>3, CloseRoastDoes
    <3>2. NoCards(Farewell(active))
      BY <1>2, <1>3, CloseNoCards DEF Farewell
    <3> QED BY <1>4, <1>5, <3>1, <3>2
  <2>4. CASE GetPrompt(r)
    <3>1. PICK step \in {"talking", "told"} : TurnIs(r, step, turn[r].own, turn[r].todo)
      BY <2>4, GetPromptDoes
    <3>2. UNCHANGED <<stored, started, tick>>
      BY <2>4, GetPromptDoes
    <3> QED BY <1>4, <1>5, <3>1, <3>2
  <2>5. CASE DeletePrompt(r)
    <3>1. TurnIs(r, "talking", turn[r].own, turn[r].todo)
      BY <1>1, <2>5, DeletePromptDoes
    <3>2. UNCHANGED <<record, cards>>
      BY <2>5 DEF DeletePrompt
    <3> QED BY <1>4, <3>1, <3>2
  <2> QED BY <1>7, <2>1, <2>2, <2>3, <2>4, <2>5 DEF Open, Hear
<1>8. ASSUME NEW r \in Turns, ApiStartsRoast(r) \/ ToolStartsRoast(r) PROVE CardsInv'
  <2>1. StartRoast(r)
    BY <1>8 DEF ApiStartsRoast, ToolStartsRoast
  <2>2. started < GameCount /\ UNCHANGED <<stored, tick>>
        /\ TurnIs(r, turn[r].step, turn[r].own, Beginning(active))
    BY <1>1, <2>1, StartRoastDoes
  <2>3. NoCards(Beginning(active))
    BY <1>2, <2>2, BeginningNoCards
  <2> QED BY <1>4, <1>5, <2>2, <2>3
<1>9. ASSUME NEW r \in Turns, NEW reason \in Reasons, MarkRoastComplete(r, reason) PROVE CardsInv'
  <2> DEFINE all == Settlement(active, reason)
  <2>1. active # NoState /\ UNCHANGED <<stored, started, tick>> /\ TurnIs(r, "talking", turn[r].own, all)
    BY <1>9, MarkRoastCompleteDoes
  <2>2. \A i \in 1..Len(all) : all[i].to = "card" =>
           /\ i = 4 /\ Len(all) = 4 /\ all[3].to = "record" /\ all[3].what = "completed"
           /\ all[3].state.game = all[4].state.game
    BY <1>2, <2>1, SettlementCards
  <2> HIDE DEF all
  <2>3. \A q \in Turns : turn'[q].todo = all
    BY <2>1 DEF OneVoice, TurnIs
  <2>4. ASSUME NEW i \in 1..Len(all), all[i].to = "card" PROVE CardDue(all, i, record', cards')
    BY <2>2, <2>4 DEF CardDue
  <2>5. OneCard'
    BY <1>5, <2>1 DEF CardsInv, OneCard
  <2>6. ASSUME NEW q \in Turns, NEW i \in 1..Len(turn'[q].todo), turn'[q].todo[i].to = "card"
        PROVE  CardDue(turn'[q].todo, i, record', cards')
    BY <2>3, <2>4, <2>6
  <2> QED BY <2>5, <2>6 DEF CardsInv
<1>10. ASSUME NEW r \in Turns, EndTurn(r) \/ FinishRound(r) \/ Abandon(r) PROVE CardsInv'
  <2>1. CASE EndTurn(r) \/ Abandon(r)
    <3>1. UNCHANGED stored /\ turn' = [turn EXCEPT ![r] = NoTurn]
      BY <2>1 DEF EndTurn, Abandon
    <3>2. TurnIs(r, "idle", NoState, <<>>)
      BY <3>1, TurnGone
    <3> QED BY <1>3, <1>4, <1>5, <3>1, <3>2
  <2>2. CASE FinishRound(r)
    <3>1. PICK t \in Ticks : EndRound(r, t)
      BY <2>2 DEF FinishRound
    <3>2. UNCHANGED <<stored, started>> /\ TurnIs(r, "idle", NoState, <<>>)
      BY <3>1, EndRoundDoes
    <3> QED BY <1>3, <1>4, <1>5, <3>2
  <2> QED BY <1>10, <2>1, <2>2
<1>11. ASSUME NEW r \in Turns, TurnWrites(r) PROVE CardsInv'
  BY <1>1, <1>11, TurnWritesCards
<1> QED BY <1>1, <1>6, <1>7, <1>8, <1>9, <1>10, <1>11 DEF CalmStep

LEMMA CalmIsPlay == TypeInv /\ CalmNext => Next
BY OneVoiceDoes DEF CalmNext, CalmStep, Next, GameStep

LEMMA CalmClosedBefore ==
  ASSUME OneVoice, TypeInv, CalmInv
  PROVE  ReplacedWasClosed
<1> SUFFICES ASSUME NEW g \in Games, active # NoState, g < active.game
             PROVE  history[g] = "closed"
  BY DEF ReplacedWasClosed
<1>1. Past /\ active \in States /\ started \in Nat /\ RowsOK
  BY CountAssumption DEF CalmInv, TypeInv, StoredOK
<1>2. active.game \in Nat /\ active.game <= started /\ g \in Nat /\ g > 0 /\ g # None
  BY <1>1, StateFacts, CountAssumption, NoneFacts DEF Past, Games
<1>3. g \in 1..started /\ g # active.game /\ g # started
  BY <1>1, <1>2
<1>4. ASSUME NEW r \in Turns, Coming(turn[r].todo, g)
      PROVE  FALSE
  <2> DEFINE todo == turn[r].todo
  <2>1. todo \in Seq(ProperWrites) /\ todo # <<>> /\ Writing(todo, active, history, record, started)
    BY <1>1, <1>4, TurnRow DEF CalmInv, TurnFine, Coming
  <2>2. Coming(todo, g)
    BY <1>4
  <2> HIDE DEF todo
  <2>3. PICK k \in 0..2 : Starting(todo, active, history, record, started, k)
    BY <2>1, <2>2, SettlementBringsNone DEF Writing
  <2>4. Len(todo) \in 1..Len(todo) /\ Len(todo) \in Nat
    <3>1. Len(todo) # 0 /\ Len(todo) \in Nat
      BY <2>1, EmptySeq, LenProperties
    <3> QED BY <3>1
  <2>5. Len(todo) = k \/ Len(todo) > k
    BY <2>3, <2>4 DEF Starting
  <2>6. Len(todo) = k => todo[Len(todo)].state = NoState
    BY <2>3, <2>4 DEF Starting
  <2>7. Len(todo) > k => todo[Len(todo)].state.game = started
    BY <2>3, <2>4 DEF Starting
  <2> QED BY <1>2, <1>3, <2>2, <2>5, <2>6, <2>7, StateFacts DEF Coming
<1> QED BY <1>1, <1>3, <1>4 DEF Past

LEMMA RoastBegin == MCInit => TypeInv /\ RoastInv
<1> SUFFICES ASSUME MCInit PROVE TypeInv /\ RoastInv
  OBVIOUS
<1>1. TypeInv
  BY TypeBegin DEF MCInit
<1>3. CardsInv
  <2>1. cards = [g \in Games |-> 0] /\ turn = [r \in Turns |-> NoTurn]
    BY DEF MCInit, Init
  <2>2. OneCard
    BY <2>1 DEF OneCard
  <2>3. \A r \in Turns : Len(turn[r].todo) = 0
    BY <2>1, RowFacts, EmptySeq
  <2> QED BY <2>2, <2>3 DEF CardsInv
<1>2. ASSUME calm PROVE CalmInv
  <2>1. /\ active = NoState /\ started = 0 /\ turn = [r \in Turns |-> NoTurn] /\ tick = [t \in Ticks |-> NoTick]
        /\ record = [g \in Games |-> None] /\ postgres
    BY <1>2 DEF MCInit, Init
  <2>2. OneTask
    BY <2>1 DEF OneTask
  <2>3. Past
    BY <2>1 DEF Past
  <2>4. \A t \in Ticks : TickFine(tick[t], active, pending)
    BY <2>1, RowFacts DEF TickFine
  <2> QED BY <2>1, <2>2, <2>3, <2>4, IdleTurnFine DEF CalmInv
<1> QED BY <1>1, <1>2, <1>3 DEF RoastInv

LEMMA CardsStay == CardsInv /\ UNCHANGED <<vars, postgres>> => CardsInv'
<1> SUFFICES ASSUME CardsInv, UNCHANGED <<vars, postgres>> PROVE CardsInv'
  OBVIOUS
<1> QED BY CardsKept DEF vars, stored

LEMMA CalmStays == CalmInv /\ UNCHANGED <<vars, postgres>> => CalmInv'
<1> SUFFICES ASSUME CalmInv, UNCHANGED <<vars, postgres>> PROVE CalmInv'
  OBVIOUS
<1>1. UNCHANGED <<postgres, active, history, record, cards, pending, started, turn, tick>>
  BY DEF vars, stored
<1>2. OneTask' /\ Past'
  BY <1>1 DEF CalmInv, OneTask, Past
<1> QED BY <1>1, <1>2 DEF CalmInv

LEMMA RoastStep ==
  ASSUME OneVoice, TypeInv, RoastInv, [MCNext]_<<vars, postgres, calm>>
  PROVE  /\ TypeInv' /\ RoastInv'
         /\ calm => [StepGood]_vars /\ OneCard' /\ ReplacedWasClosed'
<1>1. CASE UNCHANGED <<vars, postgres, calm>>
  <2>1. TypeInv'
    BY <1>1, TypeStep
  <2>2. calm => CalmInv' /\ CardsInv'
    BY <1>1, CalmStays, CardsStay DEF RoastInv
  <2>3. calm => ReplacedWasClosed'
    <3>1. TypeInv /\ CalmInv => ReplacedWasClosed
      BY CalmClosedBefore
    <3> QED BY <1>1, <3>1 DEF RoastInv, ReplacedWasClosed, vars, stored
  <2> QED BY <1>1, <2>1, <2>2, <2>3 DEF RoastInv, CardsInv
<1>2. CASE MCNext
  <2>1. Next \/ CalmNext
    BY <1>2 DEF MCNext
  <2>2. TypeInv'
    BY <2>1, TypeStep, CalmIsPlay
  <2>3. calm => CalmInv' /\ StepGood /\ CardsInv'
    BY <1>2, CalmSteps, CardsStep DEF MCNext, RoastInv
  <2>4. calm => ReplacedWasClosed'
    <3>1. (TypeInv /\ CalmInv => ReplacedWasClosed)'
      BY CalmClosedBefore, PTL
    <3> QED BY <2>2, <2>3, <3>1
  <2> QED BY <1>2, <2>2, <2>3, <2>4 DEF MCNext, RoastInv, CardsInv
<1> QED BY <1>1, <1>2

LEMMA RoastAlways ==
  ASSUME OneVoice
  PROVE  MCSpec => [][calm => StepGood /\ OneCard' /\ ReplacedWasClosed']_vars
<1>1. TypeInv /\ RoastInv /\ [MCNext]_<<vars, postgres, calm>> => (TypeInv /\ RoastInv)'
  BY RoastStep
<1>2. TypeInv /\ RoastInv /\ [MCNext]_<<vars, postgres, calm>> => [calm => StepGood /\ OneCard' /\ ReplacedWasClosed']_vars
  <2>1. ASSUME TypeInv, RoastInv, [MCNext]_<<vars, postgres, calm>>, calm, ~UNCHANGED vars
        PROVE  StepGood /\ OneCard' /\ ReplacedWasClosed'
    <3>1. [StepGood]_vars /\ OneCard' /\ ReplacedWasClosed'
      BY <2>1, RoastStep
    <3> QED BY <2>1, <3>1
  <2> QED BY <2>1
<1> QED BY <1>1, <1>2, RoastBegin, PTL DEF MCSpec

(* In games played as designed by one voice, however many and however      *)
(* long: a game goes ACTIVE, CLOSING, SETTLED, and a round is counted once *)
(* and while it is ACTIVE (tick and mark_roast_complete, base.py and       *)
(* tools/roast.py).                                                        *)
THEOREM GamesGoForward == ASSUME OneVoice PROVE MCSpec => CalmGoesForward
<1>1. [calm => StepGood /\ OneCard' /\ ReplacedWasClosed']_vars => [calm => GoesForward]_vars
  BY DEF StepGood
<1> QED BY <1>1, RoastAlways, PTL DEF CalmGoesForward

(* When such a game turns CLOSING, by a knockout, by the director or by    *)
(* its last round, the prompt stored for the actor is the one that says so *)
(* and not a hint (_emit and the director's close, base.py).               *)
THEOREM ClosingIsAnnounced == ASSUME OneVoice PROVE MCSpec => CalmAnnounced
<1>1. [calm => StepGood /\ OneCard' /\ ReplacedWasClosed']_vars => [calm => Announced]_vars
  BY DEF StepGood
<1> QED BY <1>1, RoastAlways, PTL DEF CalmAnnounced

(* How such a game ended is written once, by mark_roast_complete, and      *)
(* never written over; a game has one card if it was completed and none if *)
(* it was quit; and the games before the one that is played are CLOSED in  *)
(* the history (RoastState.start and close_roast, state.py).               *)
THEOREM GamesEndOnce == ASSUME OneVoice PROVE MCSpec => CalmEndedOnce
<1>1. [calm => StepGood /\ OneCard' /\ ReplacedWasClosed']_vars => [calm => RecordKept /\ OneCard' /\ ReplacedWasClosed']_vars
  BY DEF StepGood
<1> QED BY <1>1, RoastAlways, PTL DEF CalmEndedOnce
=============================================================================
