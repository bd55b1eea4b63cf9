------------------------------ MODULE SttStream ------------------------------
(***************************************************************************)
(* The stream of a session to its speech recogniser (voice/pipecat/        *)
(* stt_bridge.py with providers/stt/assemblyai.py or deepgram.py).  Every  *)
(* mic frame opens the stream if it is not open; a loop of its own reads   *)
(* it, ends when the server or the network does, and closes what it has    *)
(* captured; the last reply is pushed to the decoder as context; the end   *)
(* of the session closes the connection.  The transcripts pass the echo    *)
(* gate, whose verdict comes from voice/pipecat/vad_bridge.py.             *)
(*                                                                         *)
(* A context is the number of the reply it is from: 1 for the reply in the *)
(* persisted history, 0 for none.                                          *)
(***************************************************************************)
EXTENDS Integers, Sequences

CONSTANTS
  OpenCount,   \* bounds the connections of a session
  PushCount,   \* bounds the replies it makes
  CallCount    \* bounds the callbacks waiting to run

ASSUME SttAssumption == {OpenCount, PushCount, CallCount} \subseteq Nat

VARIABLES
  provider,    \* "external" (AssemblyAI) or "vad" (Deepgram): turn_end_signal
  sttOpen,     \* conn._stt_open
  recent,      \* the last attempt to open was less than _RECONNECT_BACKOFF_S ago
  sockets,     \* per connection: what it is, the context its server has
  loops,       \* _receive_loop of each
  ws,          \* conn._aai_ws and _aai_http, or _dg_socket; 0 for None
  task,        \* conn._aai_task, by its connection
  feed,        \* _feed: where it awaits, and the context its connection was opened with
  lastContext, \* the bridge's _last_context
  connContext, \* conn._aai_agent_context
  newest,      \* the last reply that was pushed, and where _feed was then
  closing,     \* cleanup: "no", "begun" or "over"; the connection it took
  calls,       \* callbacks scheduled on the pipeline's loop
  gate,        \* client_is_speaking, its first 300 ms, vad_voice_active, vad_wired
  userTurn     \* what the turn layer has been told

sttVars == <<provider, sttOpen, recent, sockets, loops, ws, task, feed, lastContext, connContext,
             newest, closing, calls, gate, userTurn>>

-----------------------------------------------------------------------------
Sockets == 1..OpenCount

SttInit ==
  /\ provider \in {"external", "vad"}
  /\ sttOpen = FALSE /\ recent = FALSE /\ ws = 0 /\ task = 0
  /\ sockets = [s \in Sockets |-> [at |-> "none", context |-> 0]]
  /\ loops = [s \in Sockets |-> "none"]
  /\ feed = [at |-> "idle", context |-> 0]
  /\ lastContext = 0 /\ connContext = 0 /\ newest = [reply |-> 0, during |-> "idle"]
  /\ closing = [at |-> "no", ws |-> 0]
  /\ calls = <<>> /\ userTurn = "none"
  /\ gate = [speaking |-> FALSE, grace |-> FALSE, voice |-> FALSE, wired |-> TRUE]

(* What every action of the stream leaves alone. *)
gateVars == <<calls, gate, userTurn>>

SupportsContext == provider = "external"

Running == closing.at = "no"

-----------------------------------------------------------------------------
(* Contexts.                                                               *)

(* update_context: a server that is still there gets it. *)
Updated(socks, to, context) ==
  IF to # 0 /\ socks[to].at = "open" THEN [socks EXCEPT ![to].context = context] ELSE socks

(* The end of _feed: what is known is pushed again, as it may have come    *)
(* while the connection was made; what is not known is loaded.             *)
(* mutant: a context the connection was opened without is not pushed *)
SeedIfLoaded(socks, to) ==
  /\ sockets' = socks /\ UNCHANGED connContext
  /\ feed' = [at |-> IF lastContext = 0 THEN "loading" ELSE "idle", context |-> 0]

Seed(socks, to) ==
  IF lastContext = 0
  THEN /\ sockets' = socks /\ UNCHANGED connContext
       /\ feed' = [at |-> "loading", context |-> 0]
  ELSE /\ feed' = [at |-> "idle", context |-> 0]
       /\ IF SupportsContext
          THEN sockets' = Updated(socks, to, lastContext) /\ connContext' = lastContext
          ELSE sockets' = socks /\ UNCHANGED connContext

(* _context_loader returns, has nothing, fails or is out of time.  What it *)
(* returns replaces a reply that was pushed meanwhile.                     *)
Loaded(context) ==
  LET known == IF context = 0 THEN lastContext ELSE context IN
  /\ Running /\ feed.at = "loading" /\ context \in {0, 1}
  /\ lastContext' = known /\ feed' = [feed EXCEPT !.at = "idle"]
  /\ IF known # 0 /\ SupportsContext
     THEN sockets' = Updated(sockets, ws, known) /\ connContext' = known
     ELSE UNCHANGED <<sockets, connContext>>
  /\ UNCHANGED <<provider, sttOpen, recent, loops, ws, task, newest, closing, gateVars>>

(* push_context, with the reply the TTS bridge has just spoken. *)
PushContext ==
  LET context == IF newest.reply = 0 THEN 2 ELSE newest.reply + 1 IN
  /\ SupportsContext /\ Running /\ context <= PushCount + 1
  /\ newest' = [reply |-> context, during |-> feed.at]
  /\ lastContext' = context /\ connContext' = context
  /\ sockets' = Updated(sockets, ws, context)
  /\ UNCHANGED <<provider, sttOpen, recent, loops, ws, task, feed, closing, gateVars>>

-----------------------------------------------------------------------------
(* The stream.                                                             *)

FreshSocket == {s \in Sockets : sockets[s].at = "none" /\ \A r \in 1..(s - 1) : sockets[r].at # "none"}

(* A frame finds the stream not open: it asks for a connection, or only    *)
(* seeds the context if the last attempt was a moment ago.                 *)
FrameOpens ==
  /\ Running /\ feed.at = "idle" /\ ~sttOpen /\ SupportsContext
  /\ \/ /\ ~recent /\ FreshSocket # {} /\ recent' = TRUE
        /\ feed' = [at |-> "connecting", context |-> connContext]
        /\ UNCHANGED <<sockets, connContext>>
     \/ recent /\ Seed(sockets, ws) /\ UNCHANGED recent
  /\ UNCHANGED <<provider, sttOpen, loops, ws, task, lastContext, newest, closing, gateVars>>

Connected(s) ==
  /\ Running /\ feed.at = "connecting" /\ s \in FreshSocket
  /\ sttOpen' = TRUE /\ ws' = s /\ task' = s /\ loops' = [loops EXCEPT ![s] = "reading"]
  /\ Seed([sockets EXCEPT ![s] = [at |-> "open", context |-> feed.context]], s)
  /\ UNCHANGED <<provider, recent, lastContext, newest, closing, gateVars>>

(* Without a key, or refused: not tried again in this session. *)
ConnectFails ==
  /\ Running /\ feed.at = "connecting" /\ sttOpen' = TRUE /\ ws' = 0
  /\ Seed(sockets, 0)
  /\ UNCHANGED <<provider, recent, loops, task, lastContext, newest, closing, gateVars>>

BackoffEnds ==
  /\ recent /\ feed.at # "connecting" /\ recent' = FALSE
  /\ UNCHANGED <<provider, sttOpen, sockets, loops, ws, task, feed, lastContext, connContext,
                 newest, closing, gateVars>>

ServerDrops(s) ==
  /\ sockets[s].at = "open" /\ sockets' = [sockets EXCEPT ![s].at = "dead"]
  /\ UNCHANGED <<provider, sttOpen, recent, loops, ws, task, feed, lastContext, connContext,
                 newest, closing, gateVars>>

(* The loop of a stream ends: its server is gone, it has been silent for   *)
(* 120 s, or the loop is cancelled.                                        *)
LoopEnds(s) ==
  /\ loops[s] \in {"reading", "cancelled"} /\ provider = "external"
  /\ sttOpen' = FALSE /\ loops' = [loops EXCEPT ![s] = "closing"]
  /\ UNCHANGED <<provider, recent, sockets, ws, task, feed, lastContext, connContext, newest,
                 closing, gateVars>>

(* mutant: the connection in use is closed, not the one this loop read *)
CurrentOne(s) == ws

Captured(s) == s

RefAfter(s) == IF ws = s THEN 0 ELSE ws

LoopCloses(s) ==
  /\ loops[s] = "closing" /\ loops' = [loops EXCEPT ![s] = "done"]
  /\ sockets' = [r \in Sockets |-> IF r = Captured(s) THEN [sockets[r] EXCEPT !.at = "closed"]
                                   ELSE sockets[r]]
  /\ ws' = RefAfter(s)
  /\ UNCHANGED <<provider, sttOpen, recent, task, feed, lastContext, connContext, newest, closing,
                 gateVars>>

(* Deepgram: the connection is made within the frame, read in a thread,    *)
(* and not made again.                                                     *)
DeepgramOpens(s) ==
  /\ Running /\ feed.at = "idle" /\ ~sttOpen /\ provider = "vad" /\ s \in FreshSocket
  /\ sttOpen' = TRUE
  /\ \/ /\ ws' = s /\ loops' = [loops EXCEPT ![s] = "reading"]
        /\ Seed([sockets EXCEPT ![s].at = "open"], s)
     \/ Seed(sockets, 0) /\ UNCHANGED <<ws, loops>>
  /\ UNCHANGED <<provider, recent, task, lastContext, newest, closing, gateVars>>

-----------------------------------------------------------------------------
(* The end of the session: cleanup, with _feed stopped first.  A loop that *)
(* is cancelled while it closes has closed its connection.                 *)
CleanupBegins ==
  /\ Running /\ closing' = [at |-> "begun", ws |-> ws]
  /\ feed' = [at |-> "idle", context |-> 0]
  /\ IF task = 0 THEN UNCHANGED <<loops, sockets>>
     ELSE CASE loops[task] = "reading" -> /\ loops' = [loops EXCEPT ![task] = "cancelled"]
                                          /\ UNCHANGED sockets
            [] loops[task] = "closing" -> /\ loops' = [loops EXCEPT ![task] = "done"]
                                          /\ sockets' = [sockets EXCEPT ![task].at = "closed"]
            [] OTHER -> UNCHANGED <<loops, sockets>>
  /\ UNCHANGED <<provider, sttOpen, recent, ws, task, lastContext, connContext, newest, gateVars>>

CleanupEnds ==
  /\ closing.at = "begun" /\ closing' = [closing EXCEPT !.at = "over"]
  /\ sockets' = [s \in Sockets |-> IF s = closing.ws THEN [sockets[s] EXCEPT !.at = "closed"]
                                   ELSE sockets[s]]
  /\ loops' = [s \in Sockets |-> IF s = closing.ws /\ provider = "vad" THEN "done" ELSE loops[s]]
  /\ ws' = IF provider = "vad" THEN 0 ELSE ws
  /\ sttOpen' = FALSE
  /\ UNCHANGED <<provider, recent, task, feed, lastContext, connContext, newest, gateVars>>

-----------------------------------------------------------------------------
(* Transcripts, and the gate they pass.                                    *)

streamVars == <<provider, sttOpen, recent, sockets, loops, ws, task, feed, lastContext,
                connContext, newest, closing>>

(* _dispatch, on_message: AssemblyAI ends the turn with its final. *)
Dispatches(s) ==
  /\ loops[s] = "reading" /\ sockets[s].at = "open" /\ Len(calls) < CallCount
  /\ calls' \in {Append(calls, "interim")} \cup
       (IF provider = "external" THEN {calls \o <<"final", "end">>}
        ELSE {Append(calls, "final"), Append(calls, "end")})
  /\ UNCHANGED <<streamVars, gate, userTurn>>

EchoSuppressed == gate.speaking /\ gate.wired /\ (gate.grace \/ ~gate.voice)

(* _on_stt_interim, _on_stt_final, _on_utterance_end. *)
Callback ==
  /\ calls # <<>> /\ calls' = Tail(calls)
  /\ userTurn' = IF EchoSuppressed THEN userTurn
                 ELSE IF Head(calls) = "end" THEN "stopped" ELSE "open"
  /\ UNCHANGED <<streamVars, gate>>

(* last_is_voice after a frame: a voice that is loud enough; between the   *)
(* thresholds it stays what it was.                                        *)
FrameVoice(p, loud) ==
  IF ~loud \/ p = "low" THEN {FALSE} ELSE IF p = "high" THEN {TRUE} ELSE BOOLEAN

(* The verdict is held for half a second after a voice; a VAD that has     *)
(* none disarms the gate.                                                  *)
Verdict(p, loud) ==
  /\ Running /\ p \in {"high", "between", "low", "none"}
  /\ IF p = "none" THEN gate' = [gate EXCEPT !.wired = FALSE]
     ELSE \E found \in FrameVoice(p, loud) : \E held \in {TRUE, found} :
            gate' = [gate EXCEPT !.voice = found \/ (held /\ @)]
  /\ UNCHANGED <<streamVars, calls, userTurn>>

ReplyPlays ==
  /\ gate' \in {[gate EXCEPT !.speaking = ~@, !.grace = ~gate.speaking], [gate EXCEPT !.grace = FALSE]}
  /\ UNCHANGED <<streamVars, calls, userTurn>>

SttNext ==
  \/ FrameOpens \/ ConnectFails \/ BackoffEnds \/ CleanupBegins \/ CleanupEnds
  \/ PushContext \/ (\E c \in {0, 1} : Loaded(c)) \/ Callback \/ ReplyPlays
  \/ (\E p \in {"high", "between", "low", "none"}, loud \in BOOLEAN : Verdict(p, loud))
  \/ \E s \in Sockets : Connected(s) \/ DeepgramOpens(s) \/ ServerDrops(s) \/ LoopEnds(s)
                          \/ LoopCloses(s) \/ Dispatches(s)

SttSpec == SttInit /\ [][SttNext]_sttVars

-----------------------------------------------------------------------------
(* Properties.                                                             *)

(* Type invariant.                                                         *)
SttTypeOK ==
  /\ provider \in {"external", "vad"} /\ {sttOpen, recent} \subseteq BOOLEAN
  /\ sockets \in [Sockets -> [at : {"none", "open", "dead", "closed"}, context : 0..(PushCount + 1)]]
  /\ loops \in [Sockets -> {"none", "reading", "cancelled", "closing", "done"}]
  /\ {ws, task} \subseteq Sockets \cup {0}
  /\ closing \in [at : {"no", "begun", "over"}, ws : Sockets \cup {0}]
  /\ feed \in [at : {"idle", "connecting", "loading"}, context : 0..(PushCount + 1)]
  /\ {lastContext, connContext} \subseteq 0..(PushCount + 1)
  /\ newest \in [reply : 0..(PushCount + 1), during : {"idle", "connecting", "loading"}]
  /\ calls \in Seq({"interim", "final", "end"}) /\ Len(calls) <= CallCount + 1
  /\ gate \in [speaking : BOOLEAN, grace : BOOLEAN, voice : BOOLEAN, wired : BOOLEAN]
  /\ userTurn \in {"none", "open", "stopped"}

(* However a reconnect and the end of the old loop meet, the stream that   *)
(* is being read is the one that the microphone feeds, and the only one    *)
(* ("a reconnect that completed while we were closing would otherwise be   *)
(* clobbered").                                                            *)
StreamIsFed == \A s \in Sockets :
  loops[s] = "reading" /\ Running => sttOpen /\ ws = s /\ sockets[s].at # "closed"

(* No connection outlives its session: "billing is by open time".          *)
NoStrayStream ==
  closing.at = "over" /\ (\A s \in Sockets : loops[s] \notin {"cancelled", "closing"}) =>
    \A s \in Sockets : sockets[s].at # "open"

AtRest == Running /\ feed.at = "idle" /\ ws # 0 /\ sockets[ws].at = "open" /\ SupportsContext

(* Whenever the context was pushed, before, while or after the connection  *)
(* was made, the decoder has the one the bridge holds, and that is the     *)
(* newest reply of the session ("prefers the in-session context"), unless  *)
(* that was pushed while the history was being loaded.                     *)
DecoderInStep == AtRest =>
  /\ sockets[ws].context = lastContext
  /\ newest.reply # 0 /\ newest.during # "loading" => lastContext = newest.reply

(* The stream that is read is the one that is fed, and none is left over   *)
(* (assemblyai.py:172-185, 250-262).                                       *)
OneStream == StreamIsFed /\ NoStrayStream
=============================================================================
