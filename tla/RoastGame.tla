------------------------------ MODULE RoastGame ------------------------------
(***************************************************************************)
(* The roast game of one user (pigagent: agent.py, roast/*, tools/roast.py)*)
(* against Redis and Postgres.                                             *)
(*                                                                         *)
(* A turn loads the RoastState from Redis, takes the pending prompt,       *)
(* streams the reply (whose tool calls may start or settle a game) and, if *)
(* its copy is ACTIVE, leaves a tick behind: a background task that asks   *)
(* the director and then saves that copy, whatever Redis holds by then.    *)
(* The voice connection runs a turn at a time; the REST API runs turns of  *)
(* its own.  What a process has still to write, one await at a time, is    *)
(* its todo.                                                               *)
(***************************************************************************)
EXTENDS Naturals, Sequences

CONSTANTS
  Turns,      \* turns that can be under way at once
  Ticks,      \* bounds the ticks under way at once
  GameCount,  \* bounds the games started
  MaxTurns,   \* GameMode.max_turns (8 in both modes)
  Debate,     \* the mode: debate, or roast_together
  None

ASSUME CountAssumption == GameCount \in Nat
ASSUME MaxTurnsAssumption == MaxTurns \in Nat \ {0}
ASSUME OptionsAssumption == Debate \in BOOLEAN
ASSUME NoneAssumption == None \notin Nat \cup {"completed", "quit", "hint", "closing"}

Games == 1 .. GameCount

VARIABLES
  postgres, \* the agent has a pg_pool, throughout
  active,   \* roast:state:active:{user_id}, the RoastState in Redis
  history,  \* roast_states: the phase stored of a game
  record,   \* roast_history: how a game was settled
  cards,    \* settlement events of a game published to the App
  pending,  \* roast:{id}:pending_prompt
  started,  \* games started so far: the next roast_instance_id
  turn,     \* generate_reply calls
  tick      \* _tick_roast tasks

stored == <<active, history, record, cards, pending>>
vars == <<stored, started, turn, tick>>

(* won: the condition of user_won, strong points that only grow.           *)
NoState == [game |-> None, phase |-> "none", turns |-> 0, won |-> FALSE]
In(state, phase) == [state EXCEPT !.phase = phase]

NoTurn == [step |-> "idle", own |-> NoState, todo |-> <<>>]
NoTick == [own |-> NoState, todo |-> <<>>]

-----------------------------------------------------------------------------
(* Writes, and what they do. *)

(* Bounds the cards counted. *)
CardCount == 2

To(table, state, what) == <<[to |-> table, state |-> state, what |-> what]>>

ToPostgres(table, state, what) == IF postgres THEN To(table, state, what) ELSE <<>>

Save(state)  == To("active", state, None) \o ToPostgres("history", state, None)
Close(state) == ToPostgres("history", In(state, "closed"), None) \o To("active", NoState, None)

Write(w) == LET g == w.state.game IN
  /\ active'  = IF w.to = "active" THEN w.state ELSE active
  /\ history' = IF w.to = "history" THEN [history EXCEPT ![g] = w.state.phase] ELSE history
  /\ record'  = IF w.to = "record" THEN [record EXCEPT ![g] = w.what] ELSE record
  /\ cards'   = IF w.to = "card" /\ cards[g] < CardCount THEN [cards EXCEPT ![g] = @ + 1] ELSE cards
  /\ pending' = IF w.to = "pending" THEN [pending EXCEPT ![g] = w.what] ELSE pending

TurnWrites(r) ==
  /\ turn[r].todo # <<>>
  /\ Write(Head(turn[r].todo))
  /\ turn' = [turn EXCEPT ![r].todo = Tail(@)]
  /\ UNCHANGED <<started, tick>>

TickWrites(t) ==
  /\ tick[t].todo # <<>>
  /\ Write(Head(tick[t].todo))
  /\ tick' = [tick EXCEPT ![t].todo = Tail(@)]
  /\ UNCHANGED <<started, turn>>

(* Every write logs and swallows its error. *)
TurnWriteFails(r) ==
  /\ turn[r].todo # <<>>
  /\ turn' = [turn EXCEPT ![r].todo = Tail(@)]
  /\ UNCHANGED <<stored, started, tick>>

TickWriteFails(t) ==
  /\ tick[t].todo # <<>>
  /\ tick' = [tick EXCEPT ![t].todo = Tail(@)]
  /\ UNCHANGED <<stored, started, turn>>

-----------------------------------------------------------------------------
(* generate_reply *)

BeginTurn(r) ==
  /\ turn[r].step = "idle" /\ turn[r].todo = <<>>
  /\ turn' = [turn EXCEPT ![r].step = "loaded", ![r].own = active]
  /\ UNCHANGED <<stored, started, tick>>

Step(r, step) == turn' = [turn EXCEPT ![r].step = step]

FreeChat(r) ==
  /\ turn[r].step = "loaded" /\ turn[r].own = NoState
  /\ Step(r, "talking")
  /\ UNCHANGED <<stored, started, tick>>

(* close_roast loads the state again and closes that. *)
CloseRoast(r) ==
  /\ turn[r].step = "loaded" /\ turn[r].own.phase \in {"settled", "closed"}
  /\ turn' = [turn EXCEPT ![r].step = "talking", ![r].own = NoState,
                          ![r].todo = IF active = NoState THEN <<>> ELSE Close(active)]
  /\ UNCHANGED <<stored, started, tick>>

(* consume: get, then delete. *)
GetPrompt(r) ==
  /\ turn[r].step = "loaded" /\ turn[r].own.phase \in {"active", "closing"}
  /\ Step(r, IF pending[turn[r].own.game] = None THEN "talking" ELSE "told")
  /\ UNCHANGED <<stored, started, tick>>

DeletePrompt(r) ==
  /\ turn[r].step = "told"
  /\ pending' = [pending EXCEPT ![turn[r].own.game] = None]
  /\ Step(r, "talking")
  /\ UNCHANGED <<active, history, record, cards, started, tick>>

(* A read fails: free chat in the middle of a game, or no prompt. *)
ReadFails(r) ==
  /\ turn[r].step \in {"loaded", "told"}
  /\ \E own \in {turn[r].own, NoState} :
       turn' = [turn EXCEPT ![r].step = "talking", ![r].own = own]
  /\ UNCHANGED <<stored, started, tick>>

(* mutant: mark_roast_complete settles a settled game again *)
SettleAgain(r, reason) ==
  /\ turn[r].step = "talking" /\ turn[r].todo = <<>>
  /\ active # NoState
  /\ turn' = [turn EXCEPT ![r].todo =
       Save(In(active, "settled")) \o ToPostgres("record", active, reason)
         \o (IF reason = "completed" THEN To("card", active, None) ELSE <<>>)]
  /\ UNCHANGED <<stored, started, tick>>

(* The tool mark_roast_complete. *)
MarkRoastComplete(r, reason) ==
  /\ turn[r].step = "talking" /\ turn[r].todo = <<>>
  /\ active.phase \in {"active", "closing"}
  /\ turn' = [turn EXCEPT ![r].todo =
       Save(In(active, "settled")) \o ToPostgres("record", active, reason)
         \o (IF reason = "completed" THEN To("card", active, None) ELSE <<>>)]
  /\ UNCHANGED <<stored, started, tick>>

(* activate_roast: what came before is closed, then the new game saved. *)
NewGame == [game |-> started + 1, phase |-> "active", turns |-> 0, won |-> FALSE]

Activate(r, closing) ==
  /\ turn[r].todo = <<>> /\ started < GameCount
  /\ started' = started + 1
  /\ turn' = [turn EXCEPT ![r].todo = closing \o To("active", NewGame, None)]
  /\ UNCHANGED <<stored, tick>>

(* RoastState.start when its read fails: the previous game is not closed. *)
StartOver(r) == turn[r].step \in {"idle", "talking"} /\ Activate(r, <<>>)

StartRoast(r) == Activate(r, IF active = NoState THEN <<>> ELSE Close(active))

(* The tool start_roast, in a turn; the API's start_roast, whose opening   *)
(* reply is a turn that follows.                                           *)
ToolStartsRoast(r) == turn[r].step = "talking" /\ StartRoast(r)

ApiStartsRoast(r) == turn[r].step = "idle" /\ StartRoast(r)

(* mutant: a turn ticks in CLOSING as well *)
PlayingOrClosing(state) == state.phase \in {"active", "closing"}

(* _stream_roast and tick both look at the copy. *)
Playing(state) == state.phase = "active"

EndTurn(r) ==
  /\ turn[r].step = "talking" /\ turn[r].todo = <<>> /\ ~Playing(turn[r].own)
  /\ turn' = [turn EXCEPT ![r] = NoTurn]
  /\ UNCHANGED <<stored, started, tick>>

EndRound(r, t) ==
  /\ turn[r].step = "talking" /\ turn[r].todo = <<>> /\ Playing(turn[r].own)
  /\ tick[t] = NoTick
  /\ tick' = [tick EXCEPT ![t].own = turn[r].own]
  /\ turn' = [turn EXCEPT ![r] = NoTurn]
  /\ UNCHANGED <<stored, started>>

(* The turn is interrupted or cancelled, the client is gone. *)
Abandon(r) ==
  /\ turn[r] # NoTurn
  /\ turn' = [turn EXCEPT ![r] = NoTurn]
  /\ UNCHANGED <<stored, started, tick>>

(* The executor times a tool out between two of its awaits. *)
ToolTimeout(r) ==
  /\ turn[r].step = "talking" /\ turn[r].todo # <<>>
  /\ turn' = [turn EXCEPT ![r].todo = <<>>]
  /\ UNCHANGED <<stored, started, tick>>

-----------------------------------------------------------------------------
(* GameMode.tick *)

(* Counted up to MaxTurns, which is all that Ending asks. *)
Bump(turns) == IF turns < MaxTurns THEN turns + 1 ELSE turns

(* The trigger ending_max_turns. *)
Ending(turns) == turns >= MaxTurns

(* What debate alone has: knockouts, users that win or repeat themselves.  *)
InDebate == IF Debate THEN BOOLEAN ELSE {FALSE}

(* A user cannot win before half of the rounds (turn 4 of 8). *)
WonBy(own, win) == own.won \/ (win /\ 2 * Bump(own.turns) >= MaxTurns)

(* mutant: ending_max_turns does not affect the phase *)
TriggeredStaysActive(s, repeat) ==
  IF s.won THEN To("pending", s, "hint") \o Save(s)
  ELSE IF Ending(s.turns) THEN To("pending", s, "closing") \o Save(s)
  ELSE (IF repeat THEN To("pending", s, "hint") ELSE <<>>) \o Save(s)

(* mutant: the state is saved before the prompt is written *)
TriggeredLate(s, repeat) ==
  IF s.won THEN Save(s) \o To("pending", s, "hint")
  ELSE IF Ending(s.turns) THEN Save(In(s, "closing")) \o To("pending", s, "closing")
  ELSE Save(s) \o (IF repeat THEN To("pending", s, "hint") ELSE <<>>)

(* The first trigger that matches: user_won, ending_max_turns, user_repeat. *)
Triggered(s, repeat) ==
  IF s.won THEN To("pending", s, "hint") \o Save(s)
  ELSE IF Ending(s.turns) THEN To("pending", s, "closing") \o Save(In(s, "closing"))
  ELSE (IF repeat THEN To("pending", s, "hint") ELSE <<>>) \o Save(s)

(* The director's answer: ko is debate's hook, inject a hint for the next  *)
(* turn; a director that fails answers nothing.  One prompt is kept: what  *)
(* is written last is all the actor reads.                                 *)
Verdict(own, ko, close, inject, win, repeat) ==
  LET s == [own EXCEPT !.turns = Bump(@), !.phase = IF ko \/ close THEN "closing" ELSE @,
                       !.won = WonBy(own, win)]
  IN (IF ko THEN To("pending", s, "closing") ELSE <<>>)
     \o (IF inject THEN To("pending", s, "hint") \o Save(s)
         ELSE IF close /\ ~ko THEN To("pending", s, "closing") \o Save(s)
         ELSE Triggered(s, repeat))

Decide(t, ko, close, inject, win, repeat) ==
  /\ tick[t].own # NoState
  /\ tick' = [tick EXCEPT ![t] =
       [own |-> NoState, todo |-> Verdict(tick[t].own, ko, close, inject, win, repeat)]]
  /\ UNCHANGED <<stored, started, turn>>

Judge(t) == \E ko, win, repeat \in InDebate, close, inject \in BOOLEAN :
  Decide(t, ko, close, inject, win, repeat)

-----------------------------------------------------------------------------
(* The agent restarts. *)
Restart ==
  /\ turn' = [r \in Turns |-> NoTurn]
  /\ tick' = [t \in Ticks |-> NoTick]
  /\ UNCHANGED <<stored, started>>

(* A day without a save. *)
Expire ==
  /\ \A r \in Turns : turn[r] = NoTurn
  /\ \A t \in Ticks : tick[t] = NoTick
  /\ active' = NoState
  /\ UNCHANGED <<history, record, cards, pending, started, turn, tick>>

Init ==
  /\ postgres \in BOOLEAN
  /\ active = NoState
  /\ history = [g \in Games |-> None]
  /\ record = [g \in Games |-> None]
  /\ cards = [g \in Games |-> 0]
  /\ pending = [g \in Games |-> None]
  /\ started = 0
  /\ turn = [r \in Turns |-> NoTurn]
  /\ tick = [t \in Ticks |-> NoTick]

Reasons == {"completed", "quit"}

Open(r) == FreeChat(r) \/ CloseRoast(r)
Hear(r) == GetPrompt(r) \/ DeletePrompt(r)
FinishRound(r) == \E t \in Ticks : EndRound(r, t)

GameStep ==
  \/ \E r \in Turns :
       \/ BeginTurn(r) \/ Open(r) \/ Hear(r) \/ EndTurn(r) \/ FinishRound(r)
       \/ ToolStartsRoast(r) \/ ApiStartsRoast(r)
       \/ \E reason \in Reasons : MarkRoastComplete(r, reason)
       \/ TurnWrites(r) \/ TurnWriteFails(r) \/ ReadFails(r) \/ StartOver(r)
       \/ Abandon(r) \/ ToolTimeout(r)
  \/ \E t \in Ticks : Judge(t) \/ TickWrites(t) \/ TickWriteFails(t)
  \/ Restart \/ Expire

Next == GameStep /\ UNCHANGED postgres

(* The user keeps talking and hears some replies out, a turn makes         *)
(* finitely many tool calls, tasks run.                                    *)
Fairness ==
  /\ \A r \in Turns :
       /\ SF_vars(BeginTurn(r)) /\ SF_vars(GetPrompt(r)) /\ SF_vars(DeletePrompt(r))
       /\ SF_vars(EndTurn(r)) /\ SF_vars(FinishRound(r))
       /\ WF_vars(Open(r) \/ TurnWrites(r))
  /\ \A t \in Ticks : WF_vars(Judge(t)) /\ WF_vars(TickWrites(t))

Spec == Init /\ [][Next]_<<vars, postgres>>

FairSpec == Spec /\ Fairness

(* Rounds as the game was designed: a tick is over before the next turn,   *)
(* tools are called in CLOSING or in free chat, a round that closes the    *)
(* game gives no hint as well, writes succeed, and the user is back within *)
(* a day.                                                                  *)
Settled == \A t \in Ticks : tick[t] = NoTick

JudgeInOneVoice(t) == \E ko, win, repeat \in InDebate, close, inject \in BOOLEAN :
  /\ ko \/ close => ~inject
  /\ ko => ~repeat /\ ~WonBy(tick[t].own, win)
  /\ Decide(t, ko, close, inject, win, repeat)

CalmStep ==
  \/ \E r \in Turns :
       \/ Settled /\ BeginTurn(r)
       \/ Settled /\ ApiStartsRoast(r)
       \/ /\ ~Playing(turn[r].own)
          /\ ToolStartsRoast(r) \/ \E reason \in Reasons : MarkRoastComplete(r, reason)
       \/ Open(r) \/ Hear(r) \/ EndTurn(r) \/ FinishRound(r) \/ TurnWrites(r)
       \/ turn[r].todo = <<>> /\ Abandon(r)
  \/ \E t \in Ticks : JudgeInOneVoice(t) \/ TickWrites(t)

CalmNext == CalmStep /\ UNCHANGED postgres
-----------------------------------------------------------------------------
Phases == {"active", "closing", "settled", "closed"}
States == [game : Games, phase : Phases, turns : 0 .. MaxTurns, won : BOOLEAN] \cup {NoState}
Writes == [to : {"active", "history", "record", "card", "pending"}, state : States,
           what : Reasons \cup {"hint", "closing", None}]

(* Type invariant: a game in Redis has been started, and every copy of a   *)
(* state is one of a game.                                                 *)
TypeOK ==
  /\ postgres \in BOOLEAN
  /\ active \in States
  /\ history \in [Games -> Phases \cup {None}]
  /\ record \in [Games -> Reasons \cup {None}]
  /\ cards \in [Games -> 0 .. CardCount]
  /\ pending \in [Games -> {"hint", "closing", None}]
  /\ started \in 0 .. GameCount
  /\ turn \in [Turns -> [step : {"idle", "loaded", "told", "talking"}, own : States,
                         todo : Seq(Writes)]]
  /\ tick \in [Ticks -> [own : States, todo : Seq(Writes)]]

(* A write that changes nothing may fail, an idle tick has nothing to lose. *)
TicksFail == \E t \in Ticks :
  (Restart \/ TickWriteFails(t)) /\ tick'[t] # tick[t] /\ ~TickWrites(t)

(* The last round's prompt is the director's or user_won's: both come      *)
(* before ending_max_turns.                                                *)
HidesLimit(t) == \E ko, win, repeat \in InDebate, close, inject \in BOOLEAN :
  /\ Ending(Bump(tick[t].own.turns))
  /\ inject \/ WonBy(tick[t].own, win)
  /\ Decide(t, ko, close, inject, win, repeat)

LimitHidden == \E t \in Ticks : HidesLimit(t)

(* With overlapping rounds losing each other's counts, every game still    *)
(* leaves ACTIVE as long as the user goes on talking, once the agent and   *)
(* Redis have stopped failing and nothing comes before ending_max_turns    *)
(* any more (tick).  A director that injects in every last round, or a     *)
(* user who has won, keeps the game ACTIVE for ever: nothing is claimed.   *)
GameOver == <>[][~TicksFail /\ ~LimitHidden]_vars => \A g \in Games :
  active.game = g /\ active.phase = "active" ~> ~(active.game = g /\ active.phase = "active")

Rank(phase) == CASE phase = "active" -> 0 [] phase = "closing" -> 1
                 [] phase = "settled" -> 2 [] OTHER -> 3

(* A game goes ACTIVE, CLOSING, SETTLED, and a round is counted once, in   *)
(* ACTIVE only (Phase, tick and mark_roast_complete).                      *)
GoesForward == active.game = active'.game /\ active # NoState =>
  /\ Rank(active.phase) <= Rank(active'.phase)
  /\ active'.turns # active.turns => active.phase = "active" /\ active'.turns = active.turns + 1

(* A new game is played only once the games before it are CLOSED in the    *)
(* history (RoastState.start and close_roast save, then delete).           *)
ReplacedWasClosed == \A g \in Games :
  active # NoState /\ g < active.game => history[g] = "closed"

(* When a game turns CLOSING, the prompt the actor's next turn will read   *)
(* is the one that says so, and not a hint (_emit and the director's close *)
(* write the prompt, then save).                                           *)
Announced == active.phase = "active" /\ active'.phase = "closing" => pending[active.game] = "closing"

(* How a game ended is decided once (mark_roast_complete settles ACTIVE    *)
(* and CLOSING games only).                                                *)
RecordKept == \A g \in Games : record[g] # None => record'[g] = record[g]

(* The App gets one card of a game, and none of a game that was quit.      *)
OneCard == \A g \in Games :
  cards[g] <= 1 /\ (cards[g] = 1 => record[g] = "completed")
=============================================================================
