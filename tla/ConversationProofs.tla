------------------------- MODULE ConversationProofs -------------------------
(***************************************************************************)
(* Theorems of SttStream and SpeechOut, the ways of a voice from the       *)
(* microphone to the transcript and from the reply to the speaker, and of  *)
(* ConversationContext, what is remembered of what was said, for every     *)
(* number of connections, replies, words, frames, turns and sessions.      *)
(*                                                                         *)
(* That the decoder is in step rests on which connection is fed and which  *)
(* read (SttInv); that a reply is recorded as heard, on how many samples   *)
(* each stage has had (SpeechInv) and on the arithmetic of shares that are *)
(* rounded down; that turns keep numbers of their own, on the order in     *)
(* which numbers reach the stores and what each of them has of those       *)
(* behind the anchors (CtxInvariant); that free chat is kept, on a place   *)
(* in it: all summaries a recovery may start from tell of what is before   *)
(* it, and each store that is up, and the session at work, have the turns  *)
(* behind it (FreeOk).                                                     *)
(***************************************************************************)
EXTENDS SttStream, SpeechOut, ConversationContext, Induction, FiniteSetTheorems, SequenceTheorems, TLAPS
-----------------------------------------------------------------------------
(* The microphone and the transcripts (SttStream).                         *)

Contexts == 0..(PushCount + 1)
NewestRow   == [reply : Contexts, during : {"idle", "connecting", "loading"}]
FeedRow     == [at : {"idle", "connecting", "loading"}, context : Contexts]
SocketRow   == [at : {"none", "open", "dead", "closed"}, context : Contexts]
LoopStates  == {"none", "reading", "cancelled", "closing", "done"}

(* While the session lasts, a stream that is read is the one that is fed,  *)
(* and nothing is being connected; a loop of AssemblyAI is the task that   *)
(* cleanup cancels, Deepgram has no task.                                  *)
ReadIsFed ==
  /\ Running /\ feed.at = "connecting" => ~sttOpen
  /\ Running => \A s \in Sockets : loops[s] # "cancelled"
  /\ provider = "vad" => feed.at # "connecting" /\ task = 0
                         /\ \A s \in Sockets : loops[s] \in {"none", "reading", "done"}
  /\ \A s \in Sockets : loops[s] = "reading" /\ Running =>
       /\ sttOpen /\ ws = s /\ sockets[s].at \in {"open", "dead"}
       /\ provider = "external" => task = s

(* An open connection has a loop that closes it, or cleanup does.          *)
OpenIsLoops ==
  /\ \A s \in Sockets : sockets[s].at = "open" => loops[s] \in {"reading", "cancelled", "closing"}
  /\ \A s \in Sockets : loops[s] = "reading" /\ closing.at = "begun" => provider = "vad" /\ closing.ws = s
  /\ closing.at = "over" => \A s \in Sockets : loops[s] # "reading"

(* A server that is there has the context that is held; none has one while *)
(* none is known.                                                          *)
InContext ==
  /\ lastContext = 0 => connContext = 0 /\ feed.context = 0 /\ \A s \in Sockets : sockets[s].context = 0
  /\ Running /\ provider = "external" /\ ws # 0 /\ sockets[ws].at = "open" =>
       sockets[ws].context = lastContext

(* What is held is the newest reply, but for one pushed during a load.     *)
NewestIsHeld ==
  /\ lastContext = 0 => newest.reply = 0
  /\ newest.reply # 0 /\ feed.at = "loading" => newest.during = "loading"
  /\ newest.reply # 0 /\ newest.during # "loading" => lastContext = newest.reply

SttInv == SttTypeOK /\ ReadIsFed /\ OpenIsLoops /\ InContext

-----------------------------------------------------------------------------
LEMMA SttBasics ==
  /\ PushCount \in Nat /\ CallCount \in Nat /\ OpenCount \in Nat
  /\ 0 \in Contexts /\ 1 \in Contexts /\ 0 \notin Sockets
BY SttAssumption DEF Contexts, Sockets

(* What a server that is told has afterwards, and the others.              *)
LEMMA UpdatedFacts ==
  ASSUME NEW socks \in [Sockets -> SocketRow], NEW to \in Sockets \cup {0}, NEW c \in Contexts
  PROVE  /\ Updated(socks, to, c) \in [Sockets -> SocketRow]
         /\ \A s \in Sockets : Updated(socks, to, c)[s].at = socks[s].at
         /\ to # 0 /\ socks[to].at = "open" => Updated(socks, to, c)[to].context = c
<1>1. CASE to # 0 /\ socks[to].at = "open"
  <2> DEFINE f == [socks[to] EXCEPT !.context = c]
  <2>1. to \in Sockets /\ socks[to] \in SocketRow
    BY <1>1
  <2>2. f \in SocketRow /\ f.at = socks[to].at /\ f.context = c
    BY <2>1 DEF SocketRow
  <2>3. Updated(socks, to, c) = [socks EXCEPT ![to] = f]
    BY <1>1, <2>1 DEF Updated
  <2> HIDE DEF f
  <2>4. \A s \in Sockets : Updated(socks, to, c)[s] = IF s = to THEN f ELSE socks[s]
    BY <2>1, <2>3
  <2>5. Updated(socks, to, c) \in [Sockets -> SocketRow]
    BY <2>2, <2>3
  <2> QED BY <2>1, <2>2, <2>4, <2>5
<1>2. CASE ~(to # 0 /\ socks[to].at = "open")
  BY <1>2 DEF Updated
<1> QED BY <1>1, <1>2

(* The end of _feed leaves the server it is about with what is known.      *)
LEMMA SeedFacts ==
  ASSUME NEW socks \in [Sockets -> SocketRow], NEW to \in Sockets \cup {0},
         lastContext \in Contexts, connContext \in Contexts, Seed(socks, to)
  PROVE  /\ sockets' \in [Sockets -> SocketRow] /\ feed' \in FeedRow /\ connContext' \in Contexts
         /\ feed'.at # "connecting" /\ feed'.context = 0
         /\ \A s \in Sockets : sockets'[s].at = socks[s].at
         /\ lastContext = 0 => sockets' = socks /\ connContext' = connContext
         /\ lastContext # 0 /\ provider = "external" /\ to # 0 /\ socks[to].at = "open" =>
              sockets'[to].context = lastContext
<1>1. CASE lastContext = 0
  <2>1. sockets' = socks /\ connContext' = connContext /\ feed' = [at |-> "loading", context |-> 0]
    BY <1>1 DEF Seed
  <2> QED BY <1>1, <2>1, SttBasics DEF FeedRow
<1>2. CASE lastContext # 0
  <2>1. feed' = [at |-> "idle", context |-> 0]
    BY <1>2 DEF Seed
  <2>2. feed' \in FeedRow /\ feed'.at # "connecting" /\ feed'.context = 0
    BY <2>1, SttBasics DEF FeedRow
  <2>3. CASE provider = "external"
    <3>1. sockets' = Updated(socks, to, lastContext) /\ connContext' = lastContext
      BY <1>2, <2>3 DEF Seed, SupportsContext
    <3> QED BY <1>2, <2>2, <3>1, UpdatedFacts
  <2>4. CASE provider # "external"
    <3>1. sockets' = socks /\ connContext' = connContext
      BY <1>2, <2>4 DEF Seed, SupportsContext
    <3> QED BY <1>2, <2>2, <2>4, <3>1
  <2> QED BY <2>3, <2>4
<1> QED BY <1>1, <1>2

LEMMA SttRows ==
  ASSUME SttTypeOK
  PROVE  /\ sockets \in [Sockets -> SocketRow] /\ loops \in [Sockets -> LoopStates] /\ feed \in FeedRow
         /\ lastContext \in Contexts /\ connContext \in Contexts /\ newest \in NewestRow
         /\ ws \in Sockets \cup {0} /\ task \in Sockets \cup {0}
         /\ closing \in [at : {"no", "begun", "over"}, ws : Sockets \cup {0}]
         /\ provider \in {"external", "vad"} /\ sttOpen \in BOOLEAN /\ recent \in BOOLEAN
BY DEF SttTypeOK, SocketRow, LoopStates, FeedRow, NewestRow, Contexts

(* The stream after a step, of the right types; the gate unchanged.        *)
StreamRows ==
  /\ sockets \in [Sockets -> SocketRow] /\ loops \in [Sockets -> LoopStates] /\ feed \in FeedRow
  /\ lastContext \in Contexts /\ connContext \in Contexts /\ newest \in NewestRow
  /\ ws \in Sockets \cup {0} /\ task \in Sockets \cup {0}
  /\ closing \in [at : {"no", "begun", "over"}, ws : Sockets \cup {0}]
  /\ sttOpen \in BOOLEAN /\ recent \in BOOLEAN

LEMMA StreamTypes ==
  ASSUME SttTypeOK, StreamRows', UNCHANGED <<provider, gateVars>>
  PROVE  SttTypeOK'
BY SMTT(30) DEF SttTypeOK, StreamRows, SocketRow, LoopStates, FeedRow, NewestRow, Contexts, gateVars

-----------------------------------------------------------------------------
(* The contexts.                                                           *)

LEMMA ContextSteps ==
  ASSUME SttInv, PushContext \/ \E c \in {0, 1} : Loaded(c)
  PROVE  SttInv'
<1>1. /\ UNCHANGED <<provider, sttOpen, loops, ws, task, closing, recent, gateVars>> /\ Running
      /\ StreamRows /\ provider \in {"external", "vad"}
  BY SttRows DEF PushContext, Loaded, SttInv, StreamRows
<1>2. \E c \in Contexts, n \in NewestRow, f \in FeedRow :
        /\ c = 0 => lastContext = 0
        /\ lastContext' = c /\ newest' = n /\ feed' = f
        /\ f.at # "connecting" \/ f = feed
        /\ feed.context = 0 => f.context = 0
        /\ IF c # 0 /\ SupportsContext
           THEN sockets' = Updated(sockets, ws, c) /\ connContext' = c
           ELSE sockets' = sockets /\ connContext' = connContext
  <2>1. CASE PushContext
    <3> DEFINE c == IF newest.reply = 0 THEN 2 ELSE newest.reply + 1
               n == [reply |-> c, during |-> feed.at]
    <3>1. c \in Contexts /\ c # 0
      BY <1>1, <2>1, SttBasics DEF PushContext, StreamRows, Contexts, NewestRow
    <3>2. lastContext' = c /\ newest' = n /\ feed' = feed /\ feed \in FeedRow /\ connContext' = c
          /\ sockets' = Updated(sockets, ws, c) /\ SupportsContext
      BY <1>1, <2>1 DEF PushContext, StreamRows
    <3>3. n \in NewestRow
      BY <3>1, <3>2 DEF NewestRow, FeedRow
    <3> HIDE DEF c, n
    <3> QED BY <3>1, <3>2, <3>3
  <2>2. ASSUME NEW x \in {0, 1}, Loaded(x)
        PROVE \E c \in Contexts, n \in NewestRow, f \in FeedRow :
                /\ c = 0 => lastContext = 0
                /\ lastContext' = c /\ newest' = n /\ feed' = f
                /\ f.at # "connecting" \/ f = feed
                /\ feed.context = 0 => f.context = 0
                /\ IF c # 0 /\ SupportsContext
                   THEN sockets' = Updated(sockets, ws, c) /\ connContext' = c
                   ELSE sockets' = sockets /\ connContext' = connContext
    <3> DEFINE c == IF x = 0 THEN lastContext ELSE x
               f == [feed EXCEPT !.at = "idle"]
    <3>1. c \in Contexts /\ (c = 0 => lastContext = 0)
      BY <1>1, SttBasics DEF StreamRows
    <3>2. f \in FeedRow /\ f.at = "idle" /\ f.context = feed.context
      BY <1>1 DEF StreamRows, FeedRow
    <3>3. lastContext' = c /\ feed' = f /\ newest' = newest /\ newest \in NewestRow
          /\ IF c # 0 /\ SupportsContext
             THEN sockets' = Updated(sockets, ws, c) /\ connContext' = c
             ELSE sockets' = sockets /\ connContext' = connContext
      BY <1>1, <2>2 DEF Loaded, StreamRows
    <3> HIDE DEF c, f
    <3> QED BY <3>1, <3>2, <3>3
  <2> QED BY <2>1, <2>2
<1>3. PICK c \in Contexts, n \in NewestRow, f \in FeedRow :
        /\ c = 0 => lastContext = 0
        /\ lastContext' = c /\ newest' = n /\ feed' = f
        /\ f.at # "connecting" \/ f = feed
        /\ feed.context = 0 => f.context = 0
        /\ IF c # 0 /\ SupportsContext
           THEN sockets' = Updated(sockets, ws, c) /\ connContext' = c
           ELSE sockets' = sockets /\ connContext' = connContext
  BY <1>2
<1>4. /\ sockets' \in [Sockets -> SocketRow] /\ connContext' \in Contexts
      /\ \A s \in Sockets : sockets'[s].at = sockets[s].at
  <2>1. sockets \in [Sockets -> SocketRow] /\ connContext \in Contexts /\ ws \in Sockets \cup {0}
    BY <1>1 DEF StreamRows
  <2>2. CASE c # 0 /\ SupportsContext
    <3>1. sockets' = Updated(sockets, ws, c) /\ connContext' = c /\ c \in Contexts
      BY <1>3, <2>2
    <3> QED BY <2>1, <3>1, UpdatedFacts
  <2>3. CASE ~(c # 0 /\ SupportsContext)
    <3>1. sockets' = sockets /\ connContext' = connContext
      BY <1>3, <2>3
    <3> QED BY <2>1, <3>1
  <2> QED BY <2>2, <2>3
<1>5. SttTypeOK'
  BY <1>1, <1>3, <1>4, StreamTypes DEF SttInv, StreamRows
<1>6. ReadIsFed'
  BY <1>1, <1>3, <1>4 DEF SttInv, ReadIsFed, Running
<1>7. OpenIsLoops'
  BY <1>1, <1>4 DEF SttInv, OpenIsLoops
<1>8. InContext'
  <2>1. CASE c = 0
    <3>1. sockets' = sockets /\ connContext' = connContext /\ lastContext = 0 /\ lastContext' = 0
          /\ (feed.context = 0 => feed'.context = 0)
      BY <1>3, <2>1
    <3>2. InContext
      BY DEF SttInv
    <3> QED BY <1>1, <3>1, <3>2 DEF InContext, Running
  <2>2. CASE c # 0
    <3>1. provider = "external" /\ ws # 0 /\ sockets[ws].at = "open" => sockets'[ws].context = c
      BY <1>1, <1>3, <2>2, UpdatedFacts DEF StreamRows, SupportsContext
    <3>2. lastContext' = c /\ ws' = ws /\ provider' = provider
      BY <1>1, <1>3
    <3>3. ws # 0 => sockets'[ws].at = sockets[ws].at
      BY <1>1, <1>4 DEF StreamRows
    <3> QED BY <2>2, <3>1, <3>2, <3>3 DEF InContext
  <2> QED BY <2>1, <2>2
<1> QED BY <1>5, <1>6, <1>7, <1>8 DEF SttInv

-----------------------------------------------------------------------------
(* Connections.                                                            *)

LEMMA FrameOpensStep ==
  ASSUME SttInv, FrameOpens PROVE SttInv'
<1>0. /\ UNCHANGED <<provider, sttOpen, loops, ws, task, lastContext, newest, closing, gateVars>>
      /\ StreamRows /\ provider = "external" /\ ~sttOpen /\ feed.at = "idle"
  BY SttRows DEF FrameOpens, SttInv, StreamRows, SupportsContext
<1>1. CASE /\ ~recent /\ FreshSocket # {} /\ recent' = TRUE
           /\ feed' = [at |-> "connecting", context |-> connContext]
           /\ UNCHANGED <<sockets, connContext>>
  <2>1. feed' \in FeedRow /\ feed'.at = "connecting" /\ feed'.context = connContext
    BY <1>0, <1>1 DEF StreamRows, FeedRow
  <2>2. SttTypeOK'
    BY <1>0, <1>1, <2>1, StreamTypes DEF SttInv, StreamRows
  <2>3. ReadIsFed' /\ OpenIsLoops' /\ InContext'
    BY <1>0, <1>1, <2>1 DEF SttInv, ReadIsFed, OpenIsLoops, InContext, Running
  <2> QED BY <2>2, <2>3 DEF SttInv
<1>2. CASE recent /\ Seed(sockets, ws) /\ UNCHANGED recent
  <2>1. /\ sockets' \in [Sockets -> SocketRow] /\ feed' \in FeedRow /\ connContext' \in Contexts
        /\ feed'.at # "connecting" /\ feed'.context = 0
        /\ \A s \in Sockets : sockets'[s].at = sockets[s].at
        /\ lastContext = 0 => sockets' = sockets /\ connContext' = connContext
        /\ lastContext # 0 /\ provider = "external" /\ ws # 0 /\ sockets[ws].at = "open" =>
             sockets'[ws].context = lastContext
    BY <1>0, <1>2, SeedFacts DEF StreamRows
  <2>2. SttTypeOK'
    BY <1>0, <1>2, <2>1, StreamTypes DEF SttInv, StreamRows
  <2>3. ReadIsFed' /\ OpenIsLoops'
    BY <1>0, <1>2, <2>1 DEF SttInv, ReadIsFed, OpenIsLoops, Running
  <2>4. InContext'
    <3>1. ws # 0 => sockets'[ws].at = sockets[ws].at
      BY <1>0, <2>1 DEF StreamRows
    <3> QED BY <1>0, <2>1, <3>1 DEF SttInv, InContext, Running
  <2> QED BY <2>2, <2>3, <2>4 DEF SttInv
<1> QED BY <1>1, <1>2 DEF FrameOpens

LEMMA OpensStep ==
  ASSUME SttInv, NEW s \in Sockets, Connected(s) \/ DeepgramOpens(s) PROVE SttInv'
<1>0. /\ UNCHANGED <<provider, recent, lastContext, newest, closing, gateVars>> /\ sttOpen' = TRUE
      /\ StreamRows /\ Running /\ sockets[s].at = "none" /\ ReadIsFed /\ OpenIsLoops /\ InContext
      /\ provider \in {"external", "vad"}
  BY SttRows DEF Connected, DeepgramOpens, SttInv, StreamRows, FreshSocket
(* No other stream is read.                                                *)
<1>1. ~sttOpen /\ \A r \in Sockets : loops[r] # "reading"
  BY <1>0 DEF ReadIsFed, Connected, DeepgramOpens
<1>2. CASE \/ Connected(s)
           \/ provider = "vad" /\ ws' = s /\ loops' = [loops EXCEPT ![s] = "reading"] /\ task' = task
              /\ Seed([sockets EXCEPT ![s].at = "open"], s)
  <2> DEFINE c == IF Connected(s) THEN feed.context ELSE sockets[s].context
             x == [at |-> "open", context |-> c]
             socks == [sockets EXCEPT ![s] = x]
  <2>1. c \in Contexts /\ (lastContext = 0 => c = 0)
    BY <1>0 DEF StreamRows, FeedRow, SocketRow, InContext
  <2> HIDE DEF c
  <2>2. x \in SocketRow /\ x.at = "open" /\ x.context = c
    BY <2>1 DEF SocketRow
  <2>3. /\ Seed(socks, s) /\ ws' = s /\ loops' = [loops EXCEPT ![s] = "reading"]
        /\ task' = IF provider = "external" THEN s ELSE task
    <3>1. CASE Connected(s)
      BY <1>0, <3>1 DEF Connected, ReadIsFed, c
    <3>2. CASE ~Connected(s)
      <4>1. [sockets EXCEPT ![s].at = "open"] = socks
        <5>1. sockets[s] \in SocketRow
          BY <1>0 DEF StreamRows
        <5>2. [sockets[s] EXCEPT !.at = "open"] = x
          BY <3>2, <5>1 DEF SocketRow, c
        <5> QED BY <5>2
      <4> QED BY <1>2, <3>2, <4>1
    <3> QED BY <3>1, <3>2
  <2> HIDE DEF x
  <2>4. socks \in [Sockets -> SocketRow] /\ socks[s] = x /\ \A r \in Sockets : r # s => socks[r] = sockets[r]
    BY <1>0, <2>2 DEF StreamRows
  <2> HIDE DEF socks
  <2>5. /\ sockets' \in [Sockets -> SocketRow] /\ feed' \in FeedRow /\ connContext' \in Contexts
        /\ feed'.at # "connecting" /\ feed'.context = 0
        /\ \A r \in Sockets : sockets'[r].at = socks[r].at
        /\ lastContext = 0 => sockets' = socks /\ connContext' = connContext
        /\ lastContext # 0 /\ provider = "external" /\ s # 0 /\ socks[s].at = "open" =>
             sockets'[s].context = lastContext
    BY <1>0, <2>3, <2>4, SeedFacts DEF StreamRows
  <2>6. loops' \in [Sockets -> LoopStates] /\ loops'[s] = "reading"
        /\ \A r \in Sockets : r # s => loops'[r] = loops[r]
    BY <1>0, <2>3 DEF StreamRows, LoopStates
  <2>7. SttTypeOK'
    BY <1>0, <2>3, <2>5, <2>6, StreamTypes DEF SttInv, StreamRows
  <2>8. ReadIsFed'
    BY <1>0, <1>1, <2>2, <2>3, <2>4, <2>5, <2>6 DEF ReadIsFed
  <2>9. OpenIsLoops'
    BY <1>0, <1>1, <2>4, <2>5, <2>6 DEF OpenIsLoops, Running
  <2>10. InContext'
    <3>1. CASE lastContext = 0
      BY <1>0, <2>1, <2>2, <2>3, <2>4, <2>5, <3>1 DEF InContext
    <3>2. CASE lastContext # 0
      BY <1>0, <2>2, <2>3, <2>4, <2>5, <3>2, SttBasics DEF InContext
    <3> QED BY <3>1, <3>2
  <2> QED BY <2>7, <2>8, <2>9, <2>10 DEF SttInv
<1>3. CASE provider = "vad" /\ Seed(sockets, 0) /\ UNCHANGED <<ws, loops, task>>
  <2>1. /\ sockets' \in [Sockets -> SocketRow] /\ feed' \in FeedRow /\ connContext' \in Contexts
        /\ feed'.at # "connecting" /\ feed'.context = 0
        /\ \A r \in Sockets : sockets'[r].at = sockets[r].at
        /\ lastContext = 0 => sockets' = sockets /\ connContext' = connContext
    BY <1>0, <1>3, SeedFacts DEF StreamRows
  <2>2. SttTypeOK'
    BY <1>0, <1>3, <2>1, StreamTypes DEF SttInv, StreamRows
  <2>3. ReadIsFed' /\ OpenIsLoops'
    BY <1>0, <1>1, <1>3, <2>1 DEF ReadIsFed, OpenIsLoops
  <2>4. InContext'
    BY <1>0, <1>3, <2>1 DEF InContext
  <2> QED BY <2>2, <2>3, <2>4 DEF SttInv
<1> QED BY <1>2, <1>3 DEF DeepgramOpens

LEMMA ConnectFailsStep ==
  ASSUME SttInv, ConnectFails PROVE SttInv'
<1>0. /\ UNCHANGED <<provider, recent, loops, task, lastContext, newest, closing, gateVars>>
      /\ sttOpen' = TRUE /\ ws' = 0 /\ Running /\ feed.at = "connecting" /\ Seed(sockets, 0)
      /\ StreamRows /\ ReadIsFed /\ OpenIsLoops /\ InContext
  BY SttRows DEF ConnectFails, SttInv, StreamRows
<1>1. ~sttOpen /\ \A r \in Sockets : loops[r] # "reading"
  BY <1>0 DEF ReadIsFed
<1>2. /\ sockets' \in [Sockets -> SocketRow] /\ feed' \in FeedRow /\ connContext' \in Contexts
      /\ feed'.at # "connecting" /\ feed'.context = 0
      /\ \A r \in Sockets : sockets'[r].at = sockets[r].at
      /\ lastContext = 0 => sockets' = sockets /\ connContext' = connContext
  BY <1>0, SeedFacts DEF StreamRows
<1>3. SttTypeOK'
  BY <1>0, <1>2, StreamTypes DEF SttInv, StreamRows
<1>4. ReadIsFed' /\ OpenIsLoops'
  BY <1>0, <1>1, <1>2 DEF ReadIsFed, OpenIsLoops
<1>5. InContext'
  BY <1>0, <1>2 DEF InContext
<1> QED BY <1>3, <1>4, <1>5 DEF SttInv

-----------------------------------------------------------------------------
(* Loops, servers, the clock.                                              *)

LEMMA LoopSteps ==
  ASSUME SttInv, BackoffEnds \/ \E s \in Sockets : ServerDrops(s) \/ LoopEnds(s) \/ LoopCloses(s)
  PROVE  SttInv'
<1>0. /\ UNCHANGED <<provider, task, feed, lastContext, connContext, newest, closing, gateVars>>
      /\ StreamRows /\ ReadIsFed /\ OpenIsLoops /\ InContext
  BY SttRows DEF BackoffEnds, ServerDrops, LoopEnds, LoopCloses, SttInv, StreamRows
<1>1. CASE BackoffEnds
  <2>1. UNCHANGED <<sttOpen, sockets, loops, ws>> /\ recent' = FALSE
    BY <1>1 DEF BackoffEnds
  <2>2. SttTypeOK'
    BY <1>0, <2>1, StreamTypes DEF SttInv, StreamRows
  <2>3. ReadIsFed' /\ OpenIsLoops' /\ InContext'
    BY <1>0, <2>1 DEF ReadIsFed, OpenIsLoops, InContext, Running
  <2> QED BY <2>2, <2>3 DEF SttInv
<1>2. ASSUME NEW s \in Sockets, ServerDrops(s) PROVE SttInv'
  <2> DEFINE f == [sockets[s] EXCEPT !.at = "dead"]
  <2>1. sockets' = [sockets EXCEPT ![s] = f] /\ UNCHANGED <<sttOpen, recent, loops, ws>>
    BY <1>2 DEF ServerDrops
  <2>2. f \in SocketRow /\ f.at = "dead" /\ f.context = sockets[s].context
    BY <1>0 DEF StreamRows, SocketRow
  <2> HIDE DEF f
  <2>3. sockets' \in [Sockets -> SocketRow] /\ sockets'[s] = f
        /\ \A r \in Sockets : r # s => sockets'[r] = sockets[r]
    BY <1>0, <2>1, <2>2 DEF StreamRows
  <2>4. SttTypeOK'
    BY <1>0, <2>1, <2>3, StreamTypes DEF SttInv, StreamRows
  <2>5. ReadIsFed'
    BY <1>0, <2>1, <2>2, <2>3 DEF ReadIsFed, Running
  <2>6. OpenIsLoops'
    BY <1>0, <2>1, <2>2, <2>3 DEF OpenIsLoops
  <2>7. InContext'
    BY <1>0, <2>1, <2>2, <2>3 DEF InContext, Running, StreamRows
  <2> QED BY <2>4, <2>5, <2>6, <2>7 DEF SttInv
<1>3. ASSUME NEW s \in Sockets, LoopEnds(s) PROVE SttInv'
  <2>1. /\ sttOpen' = FALSE /\ loops' = [loops EXCEPT ![s] = "closing"] /\ UNCHANGED <<recent, sockets, ws>>
        /\ loops[s] \in {"reading", "cancelled"} /\ provider = "external"
    BY <1>3 DEF LoopEnds
  <2>2. loops' \in [Sockets -> LoopStates] /\ loops'[s] = "closing"
        /\ \A r \in Sockets : r # s => loops'[r] = loops[r]
    BY <1>0, <2>1 DEF StreamRows, LoopStates
  <2>3. SttTypeOK'
    BY <1>0, <2>1, <2>2, StreamTypes DEF SttInv, StreamRows
(* What ends is the stream that is fed, or one that cleanup has cancelled. *)
  <2>4. Running => \A r \in Sockets : loops'[r] # "reading"
    <3> SUFFICES ASSUME Running, NEW r \in Sockets, loops'[r] = "reading" PROVE FALSE
      OBVIOUS
    <3>1. r # s /\ loops[r] = "reading" /\ task = r
      BY <1>0, <2>1, <2>2 DEF ReadIsFed
    <3>2. loops[s] = "cancelled"
      BY <1>0, <2>1, <3>1 DEF ReadIsFed
    <3> QED BY <3>2, <1>0 DEF ReadIsFed
  <2>5. ReadIsFed'
    BY <1>0, <2>1, <2>2, <2>4 DEF ReadIsFed, Running
  <2>6. OpenIsLoops'
    BY <1>0, <2>1, <2>2 DEF OpenIsLoops
  <2>7. InContext'
    BY <1>0, <2>1 DEF InContext, Running
  <2> QED BY <2>3, <2>5, <2>6, <2>7 DEF SttInv
<1>4. ASSUME NEW s \in Sockets, LoopCloses(s) PROVE SttInv'
  <2> DEFINE f == [sockets[s] EXCEPT !.at = "closed"]
  <2>1. /\ loops[s] = "closing" /\ loops' = [loops EXCEPT ![s] = "done"] /\ ws' \in {0, ws}
        /\ (ws # s => ws' = ws) /\ UNCHANGED <<sttOpen, recent>>
        /\ sockets' = [r \in Sockets |-> IF r = s THEN [sockets[r] EXCEPT !.at = "closed"] ELSE sockets[r]]
    BY <1>4 DEF LoopCloses, Captured, RefAfter
  <2>2. f \in SocketRow /\ f.at = "closed" /\ f.context = sockets[s].context
    BY <1>0 DEF StreamRows, SocketRow
  <2>3. sockets'[s] = f /\ \A r \in Sockets : r # s => sockets'[r] = sockets[r]
    BY <2>1
  <2> HIDE DEF f
  <2>4. sockets' \in [Sockets -> SocketRow]
    BY <1>0, <2>1, <2>2, <2>3 DEF StreamRows
  <2>5. loops' \in [Sockets -> LoopStates] /\ loops'[s] = "done"
        /\ \A r \in Sockets : r # s => loops'[r] = loops[r]
    BY <1>0, <2>1 DEF StreamRows, LoopStates
  <2>6. SttTypeOK'
    BY <1>0, <2>1, <2>4, <2>5, SttBasics, StreamTypes DEF SttInv, StreamRows
  <2>7. ReadIsFed'
    BY <1>0, <2>1, <2>3, <2>5 DEF ReadIsFed, Running
  <2>8. OpenIsLoops'
    BY <1>0, <2>1, <2>2, <2>3, <2>5 DEF OpenIsLoops
  <2>9. InContext'
    BY <1>0, <2>1, <2>2, <2>3 DEF InContext, Running, StreamRows
  <2> QED BY <2>6, <2>7, <2>8, <2>9 DEF SttInv
<1> QED BY <1>1, <1>2, <1>3, <1>4

-----------------------------------------------------------------------------
(* The end of the session.                                                 *)

LEMMA CleanupBeginsStep ==
  ASSUME SttInv, CleanupBegins PROVE SttInv'
<1>0. /\ UNCHANGED <<provider, sttOpen, recent, ws, task, lastContext, connContext, newest, gateVars>>
      /\ closing' = [at |-> "begun", ws |-> ws] /\ feed' = [at |-> "idle", context |-> 0] /\ Running
      /\ StreamRows /\ ReadIsFed /\ OpenIsLoops /\ InContext /\ provider \in {"external", "vad"}
  BY SttRows DEF CleanupBegins, SttInv, StreamRows
<1>1. /\ closing' \in [at : {"no", "begun", "over"}, ws : Sockets \cup {0}] /\ closing'.at = "begun"
      /\ closing'.ws = ws /\ feed' \in FeedRow /\ feed'.at = "idle" /\ feed'.context = 0
  BY <1>0, SttBasics DEF StreamRows, FeedRow
(* The task is cancelled, or ends with its connection closed.              *)
<1>2. /\ sockets' \in [Sockets -> SocketRow] /\ loops' \in [Sockets -> LoopStates]
      /\ \A s \in Sockets :
           \/ sockets'[s] = sockets[s] /\ loops'[s] = loops[s] /\ (s = task => loops[s] # "reading")
           \/ s = task /\ sockets'[s] = sockets[s] /\ loops'[s] = "cancelled" /\ loops[s] = "reading"
           \/ s = task /\ loops'[s] = "done" /\ loops[s] = "closing"
              /\ sockets'[s].at = "closed" /\ sockets'[s].context = sockets[s].context
  <2>0. sockets \in [Sockets -> SocketRow] /\ loops \in [Sockets -> LoopStates] /\ task \in Sockets \cup {0}
    BY <1>0 DEF StreamRows
  <2>1. CASE task = 0 \/ loops[task] \notin {"reading", "closing"}
    <3>1. sockets' = sockets /\ loops' = loops
      BY <2>1 DEF CleanupBegins
    <3> QED BY <2>0, <2>1, <3>1, SttBasics
  <2>2. CASE task # 0 /\ loops[task] = "reading"
    <3>1. loops' = [loops EXCEPT ![task] = "cancelled"] /\ sockets' = sockets
      BY <2>2 DEF CleanupBegins
    <3> QED BY <2>0, <2>2, <3>1 DEF LoopStates
  <2>3. CASE task # 0 /\ loops[task] = "closing"
    <3> DEFINE f == [sockets[task] EXCEPT !.at = "closed"]
    <3>1. loops' = [loops EXCEPT ![task] = "done"] /\ sockets' = [sockets EXCEPT ![task] = f]
      BY <2>3 DEF CleanupBegins
    <3>2. f \in SocketRow /\ f.at = "closed" /\ f.context = sockets[task].context
      BY <2>0, <2>3 DEF SocketRow
    <3> HIDE DEF f
    <3> QED BY <2>0, <2>3, <3>1, <3>2 DEF LoopStates
  <2> QED BY <2>1, <2>2, <2>3
<1>3. SttTypeOK'
  BY <1>0, <1>1, <1>2, StreamTypes DEF SttInv, StreamRows
<1>4. ~Running'
  BY <1>1 DEF Running
<1>5. ReadIsFed'
  <2>1. provider = "vad" => \A s \in Sockets : loops'[s] \in {"none", "reading", "done"}
    BY <1>0, <1>2, SttBasics DEF ReadIsFed
  <2> QED BY <1>0, <1>1, <1>4, <2>1 DEF ReadIsFed
<1>6. OpenIsLoops'
  <2>1. \A s \in Sockets : sockets'[s].at = "open" => loops'[s] \in {"reading", "cancelled", "closing"}
    BY <1>0, <1>2 DEF OpenIsLoops
  <2>2. \A s \in Sockets : loops'[s] = "reading" => provider = "vad" /\ ws = s
    BY <1>0, <1>2 DEF ReadIsFed
  <2> QED BY <1>0, <1>1, <2>1, <2>2 DEF OpenIsLoops
<1>7. InContext'
  BY <1>0, <1>1, <1>2, <1>4 DEF InContext
<1> QED BY <1>3, <1>5, <1>6, <1>7 DEF SttInv

LEMMA CleanupEndsStep ==
  ASSUME SttInv, CleanupEnds PROVE SttInv'
<1>0. /\ UNCHANGED <<provider, recent, task, feed, lastContext, connContext, newest, gateVars>>
      /\ closing.at = "begun" /\ closing' = [closing EXCEPT !.at = "over"] /\ sttOpen' = FALSE
      /\ sockets' = [s \in Sockets |-> IF s = closing.ws THEN [sockets[s] EXCEPT !.at = "closed"]
                                       ELSE sockets[s]]
      /\ loops' = [s \in Sockets |-> IF s = closing.ws /\ provider = "vad" THEN "done" ELSE loops[s]]
      /\ ws' \in {0, ws}
      /\ StreamRows /\ ReadIsFed /\ OpenIsLoops /\ InContext
  BY SttRows DEF CleanupEnds, SttInv, StreamRows
<1>1. /\ closing' \in [at : {"no", "begun", "over"}, ws : Sockets \cup {0}] /\ closing'.at = "over"
  BY <1>0 DEF StreamRows
<1>2. ASSUME NEW s \in Sockets
      PROVE  /\ sockets'[s] \in SocketRow /\ sockets'[s].context = sockets[s].context
             /\ sockets'[s].at = (IF s = closing.ws THEN "closed" ELSE sockets[s].at)
             /\ loops'[s] = (IF s = closing.ws /\ provider = "vad" THEN "done" ELSE loops[s])
  <2>1. sockets[s] \in SocketRow
    BY <1>0 DEF StreamRows
  <2>2. sockets'[s] = IF s = closing.ws THEN [sockets[s] EXCEPT !.at = "closed"] ELSE sockets[s]
    BY <1>0
  <2> QED BY <1>0, <2>1, <2>2 DEF SocketRow
<1>3. sockets' \in [Sockets -> SocketRow] /\ loops' \in [Sockets -> LoopStates]
  <2>1. loops' \in [Sockets -> LoopStates]
    BY <1>0 DEF StreamRows, LoopStates
  <2>2. sockets' = [s \in Sockets |-> sockets'[s]]
    BY <1>0
  <2> QED BY <1>2, <2>1, <2>2
<1>4. SttTypeOK'
  BY <1>0, <1>1, <1>3, SttBasics, StreamTypes DEF SttInv, StreamRows
<1>5. ~Running'
  BY <1>1 DEF Running
<1>6. ReadIsFed'
  BY <1>0, <1>2, <1>5 DEF ReadIsFed
<1>7. OpenIsLoops'
  <2>1. \A s \in Sockets : loops'[s] # "reading"
    BY <1>0, <1>2 DEF OpenIsLoops
  <2>2. \A s \in Sockets : sockets'[s].at = "open" => loops'[s] \in {"reading", "cancelled", "closing"}
    BY <1>0, <1>2 DEF OpenIsLoops
  <2> QED BY <1>1, <2>1, <2>2 DEF OpenIsLoops
<1>8. InContext'
  BY <1>0, <1>2, <1>5 DEF InContext
<1> QED BY <1>4, <1>6, <1>7, <1>8 DEF SttInv

(* Transcripts and the gate touch nothing of the stream.                   *)
LEMMA GateSteps ==
  ASSUME SttInv,
         \/ Callback \/ ReplyPlays \/ \E s \in Sockets : Dispatches(s)
         \/ \E p \in {"high", "between", "low", "none"}, loud \in BOOLEAN : Verdict(p, loud)
  PROVE  SttInv'
<1>0. calls \in Seq({"interim", "final", "end"}) /\ Len(calls) <= CallCount + 1 /\ Len(calls) \in Nat
      /\ gate \in [speaking : BOOLEAN, grace : BOOLEAN, voice : BOOLEAN, wired : BOOLEAN]
      /\ userTurn \in {"none", "open", "stopped"}
  BY LenProperties DEF SttInv, SttTypeOK
<1>1. UNCHANGED streamVars
  BY DEF Callback, ReplyPlays, Dispatches, Verdict
<1>2. calls' \in Seq({"interim", "final", "end"}) /\ Len(calls') <= CallCount + 1
  <2>1. CASE Callback
    <3>1. calls # <<>> /\ calls' = Tail(calls)
      BY <2>1 DEF Callback
    <3>2. calls' \in Seq({"interim", "final", "end"}) /\ Len(calls') = Len(calls) - 1
      BY <1>0, <3>1, HeadTailProperties
    <3> QED BY <1>0, <3>2, SttBasics
  <2>2. ASSUME NEW s \in Sockets, Dispatches(s)
        PROVE calls' \in Seq({"interim", "final", "end"}) /\ Len(calls') <= CallCount + 1
    <3>1. Len(calls) < CallCount
      BY <2>2 DEF Dispatches
    <3>2. \/ \E x \in {"interim", "final", "end"} : calls' = Append(calls, x)
          \/ calls' = calls \o <<"final", "end">>
      BY <2>2 DEF Dispatches
    <3>3. CASE \E x \in {"interim", "final", "end"} : calls' = Append(calls, x)
      <4>1. calls' \in Seq({"interim", "final", "end"}) /\ Len(calls') = Len(calls) + 1
        BY <1>0, <3>3, AppendProperties
      <4> QED BY <1>0, <3>1, <4>1, SttBasics
    <3>4. CASE calls' = calls \o <<"final", "end">>
      <4>1. <<"final", "end">> \in Seq({"interim", "final", "end"}) /\ Len(<<"final", "end">>) = 2
        OBVIOUS
      <4>2. calls' \in Seq({"interim", "final", "end"}) /\ Len(calls') = Len(calls) + Len(<<"final", "end">>)
        BY <1>0, <3>4, <4>1, ConcatProperties
      <4> QED BY <1>0, <3>1, <4>1, <4>2, SttBasics
    <3> QED BY <3>2, <3>3, <3>4
  <2>3. CASE ReplyPlays
    BY <1>0, <2>3 DEF ReplyPlays
  <2>4. ASSUME NEW p \in {"high", "between", "low", "none"}, NEW loud \in BOOLEAN, Verdict(p, loud)
        PROVE calls' \in Seq({"interim", "final", "end"}) /\ Len(calls') <= CallCount + 1
    BY <1>0, <2>4 DEF Verdict
  <2> QED BY <2>1, <2>2, <2>3, <2>4
<1>3. gate' \in [speaking : BOOLEAN, grace : BOOLEAN, voice : BOOLEAN, wired : BOOLEAN]
  <2>1. CASE ReplyPlays
    BY <1>0, <2>1 DEF ReplyPlays
  <2>2. ASSUME NEW p \in {"high", "between", "low", "none"}, NEW loud \in BOOLEAN, Verdict(p, loud)
        PROVE gate' \in [speaking : BOOLEAN, grace : BOOLEAN, voice : BOOLEAN, wired : BOOLEAN]
    <3>1. CASE p = "none"
      BY <1>0, <2>2, <3>1 DEF Verdict
    <3>2. CASE p # "none"
      <4>1. PICK found \in BOOLEAN, held \in BOOLEAN : gate' = [gate EXCEPT !.voice = found \/ (held /\ @)]
        BY <2>2, <3>2 DEF Verdict, FrameVoice
      <4> DEFINE x == found \/ (held /\ gate.voice)
      <4>2. gate' = [gate EXCEPT !.voice = x] /\ x \in BOOLEAN
        BY <4>1
      <4> HIDE DEF x
      <4> QED BY <1>0, <4>2
    <3> QED BY <3>1, <3>2
  <2>3. CASE Callback \/ \E s \in Sockets : Dispatches(s)
    BY <1>0, <2>3 DEF Callback, Dispatches
  <2> QED BY <2>1, <2>2, <2>3
<1>4. userTurn' \in {"none", "open", "stopped"}
  BY <1>0 DEF Callback, ReplyPlays, Dispatches, Verdict
<1>5. SttTypeOK'
  BY <1>1, <1>2, <1>3, <1>4 DEF SttInv, SttTypeOK, streamVars
<1>6. ReadIsFed' /\ OpenIsLoops' /\ InContext'
  BY <1>1 DEF SttInv, ReadIsFed, OpenIsLoops, InContext, Running, streamVars
<1> QED BY <1>5, <1>6 DEF SttInv

LEMMA SttStep ==
  ASSUME SttInv, [SttNext]_sttVars PROVE SttInv'
<1>1. CASE UNCHANGED sttVars
  BY <1>1 DEF sttVars, SttInv, SttTypeOK, ReadIsFed, OpenIsLoops, InContext, Running
<1>2. CASE SttNext
  BY <1>2, ContextSteps, FrameOpensStep, OpensStep, ConnectFailsStep, LoopSteps, CleanupBeginsStep,
     CleanupEndsStep, GateSteps DEF SttNext
<1> QED BY <1>1, <1>2

LEMMA SttBegin == SttInit => SttInv
<1> SUFFICES ASSUME SttInit PROVE SttInv
  OBVIOUS
<1>1. /\ sockets = [s \in Sockets |-> [at |-> "none", context |-> 0]] /\ loops = [s \in Sockets |-> "none"]
      /\ feed = [at |-> "idle", context |-> 0] /\ closing = [at |-> "no", ws |-> 0]
      /\ provider \in {"external", "vad"} /\ sttOpen = FALSE /\ recent = FALSE /\ ws = 0 /\ task = 0
      /\ lastContext = 0 /\ connContext = 0 /\ calls = <<>> /\ userTurn = "none"
      /\ newest = [reply |-> 0, during |-> "idle"]
      /\ gate = [speaking |-> FALSE, grace |-> FALSE, voice |-> FALSE, wired |-> TRUE]
  BY DEF SttInit
<1>2. [at |-> "none", context |-> 0] \in SocketRow /\ feed \in FeedRow
      /\ closing \in [at : {"no", "begun", "over"}, ws : Sockets \cup {0}] /\ newest \in NewestRow
  BY <1>1, SttBasics DEF SocketRow, FeedRow, NewestRow
<1>3. sockets \in [Sockets -> SocketRow] /\ loops \in [Sockets -> LoopStates]
  BY <1>1, <1>2 DEF LoopStates
<1>4. calls \in Seq({"interim", "final", "end"}) /\ Len(calls) <= CallCount + 1
  BY <1>1, SttBasics
<1>5. SttTypeOK
  BY <1>1, <1>2, <1>3, <1>4, SttBasics DEF SttTypeOK, SocketRow, LoopStates, FeedRow, NewestRow, Contexts
<1>6. ReadIsFed /\ OpenIsLoops /\ InContext
  BY <1>1, SttBasics DEF ReadIsFed, OpenIsLoops, InContext
<1> QED BY <1>5, <1>6 DEF SttInv

LEMMA SttInvariance == SttSpec => []SttInv
<1>1. SttInv /\ [SttNext]_sttVars => SttInv'
  BY SttStep
<1> QED BY <1>1, SttBegin, PTL DEF SttSpec

(* Connections, loops, contexts and transcripts are well typed, for every  *)
(* number of connections, replies and callbacks.                           *)
THEOREM SttTypes == SttSpec => []SttTypeOK
<1>1. SttInv => SttTypeOK
  BY DEF SttInv
<1> QED BY <1>1, SttInvariance, PTL

(* However a reconnect and the end of the old loop meet, the stream that is*)
(* read is the one the microphone feeds; and once the session has been     *)
(* cleaned up and its loops are over, no connection is left open           *)
(* (assemblyai.py:172-185, 250-262).                                       *)
THEOREM OneStreamOnly == SttSpec => []OneStream
<1>1. SttInv => OneStream
  <2> SUFFICES ASSUME SttInv PROVE OneStream
    OBVIOUS
  <2>1. StreamIsFed
    BY DEF SttInv, ReadIsFed, StreamIsFed
  <2>2. NoStrayStream
    BY DEF SttInv, OpenIsLoops, NoStrayStream
  <2> QED BY <2>1, <2>2 DEF OneStream
<1> QED BY <1>1, SttInvariance, PTL

(* What the bridge holds, and what was pushed.                             *)
LEMMA NewestStays ==
  ASSUME SttInv, NewestIsHeld, UNCHANGED <<lastContext, newest>>,
         feed'.at = "loading" => feed.at = "loading" \/ lastContext = 0
  PROVE  NewestIsHeld'
BY DEF NewestIsHeld

LEMMA SeedLoads ==
  ASSUME NEW socks, NEW to, Seed(socks, to), feed'.at = "loading" PROVE lastContext = 0
<1> SUFFICES ASSUME lastContext # 0 PROVE FALSE
  OBVIOUS
<1>1. feed' = [at |-> "idle", context |-> 0]
  BY DEF Seed
<1> QED BY <1>1

LEMMA NewestStep ==
  ASSUME SttInv, NewestIsHeld, [SttNext]_sttVars PROVE NewestIsHeld'
<1>0. feed \in FeedRow /\ newest \in NewestRow /\ lastContext \in Contexts
  BY SttRows DEF SttInv
<1>1. CASE UNCHANGED sttVars
  BY <1>1, NewestStays DEF sttVars
<1>2. CASE PushContext
  <2> DEFINE c == IF newest.reply = 0 THEN 2 ELSE newest.reply + 1
  <2>1. newest' = [reply |-> c, during |-> feed.at] /\ lastContext' = c /\ feed' = feed
    BY <1>2 DEF PushContext
  <2>2. c # 0
    BY <1>0, SttBasics DEF NewestRow, Contexts
  <2> HIDE DEF c
  <2>3. newest'.reply = c /\ newest'.during = feed.at
    BY <2>1
  <2> QED BY <2>1, <2>2, <2>3 DEF NewestIsHeld
<1>3. ASSUME NEW x \in {0, 1}, Loaded(x) PROVE NewestIsHeld'
  <2>1. /\ feed.at = "loading" /\ newest' = newest /\ feed' = [feed EXCEPT !.at = "idle"]
        /\ lastContext' = IF x = 0 THEN lastContext ELSE x
    BY <1>3 DEF Loaded
  <2>2. feed'.at = "idle"
    BY <1>0, <2>1 DEF FeedRow
  <2>3. newest.reply # 0 => newest.during = "loading"
    BY <2>1 DEF NewestIsHeld
  <2> QED BY <2>1, <2>2, <2>3 DEF NewestIsHeld
<1>4. CASE FrameOpens
  <2>1. feed'.at = "loading" => lastContext = 0
    <3>1. CASE feed' = [at |-> "connecting", context |-> connContext]
      BY <3>1
    <3>2. CASE Seed(sockets, ws)
      BY <3>2, SeedLoads
    <3> QED BY <1>4, <3>1, <3>2 DEF FrameOpens
  <2> QED BY <1>4, <2>1, NewestStays DEF FrameOpens
<1>5. ASSUME NEW s \in Sockets, Connected(s) \/ DeepgramOpens(s) PROVE NewestIsHeld'
  <2>1. UNCHANGED <<lastContext, newest>> /\ \E socks, to : Seed(socks, to)
    BY <1>5 DEF Connected, DeepgramOpens
  <2> QED BY <2>1, SeedLoads, NewestStays
<1>6. CASE ConnectFails
  BY <1>6, SeedLoads, NewestStays DEF ConnectFails
<1>7. CASE CleanupBegins
  <2>1. feed'.at = "idle"
    BY <1>7 DEF CleanupBegins
  <2> QED BY <1>7, <2>1, NewestStays DEF CleanupBegins
<1>8. CASE BackoffEnds \/ CleanupEnds \/ \E s \in Sockets : ServerDrops(s) \/ LoopEnds(s) \/ LoopCloses(s)
  BY <1>8, NewestStays DEF BackoffEnds, CleanupEnds, ServerDrops, LoopEnds, LoopCloses
<1>9. CASE \/ Callback \/ ReplyPlays \/ \E s \in Sockets : Dispatches(s)
           \/ \E p \in {"high", "between", "low", "none"}, loud \in BOOLEAN : Verdict(p, loud)
  BY <1>9, NewestStays DEF Callback, ReplyPlays, Dispatches, Verdict, streamVars
<1> QED BY <1>1, <1>2, <1>3, <1>4, <1>5, <1>6, <1>7, <1>8, <1>9 DEF SttNext

(* The decoder has the context the bridge holds, whether it was pushed     *)
(* before, while or after the connection was made, and that is the newest  *)
(* reply, but for one that was pushed while the history was being loaded   *)
(* (stt_bridge.py:113-124, 223-242).                                       *)
THEOREM DecoderStaysInStep == SttSpec => []DecoderInStep
<1>1. SttInit => NewestIsHeld
  BY DEF SttInit, NewestIsHeld
<1>2. SttInv /\ NewestIsHeld /\ [SttNext]_sttVars => NewestIsHeld'
  BY NewestStep
<1>3. SttInv /\ NewestIsHeld => DecoderInStep
  BY SttBasics DEF SttInv, SttTypeOK, InContext, NewestIsHeld, DecoderInStep, AtRest, SupportsContext
<1> QED BY <1>1, <1>2, <1>3, SttInvariance, PTL DEF SttSpec

-----------------------------------------------------------------------------
(* The speech of a reply (SpeechOut).                                      *)

(* What is queued, pulled, rendered, sent and played of a reply, the       *)
(* phases of the two tasks, and that nothing rendered is lost on the way.  *)
Counts ==
  /\ queued \in 0..WordCount /\ stamped \in 0..WordCount /\ received \in Nat /\ pending \in Nat
  /\ hand \in Nat /\ sent \in Nat /\ played \in Nat /\ record \in Nat
  /\ fed \in [pulled : 0..WordCount, pushed : 0..WordCount] /\ fed.pushed <= fed.pulled
  /\ producer \in {"running", "done"} /\ feeder \in {"running", "done", "failed", "cut"}
  /\ mode \in {"stream", "rest", "ending", "over"} /\ reason \in {"none", "stream_failed", "barge_in"}
  /\ rest \in BOOLEAN /\ started \in BOOLEAN

Phases ==
  /\ feeder = "done" => producer = "done"
  /\ mode \in {"rest", "over"} => hand = 0
  /\ mode = "rest" => rest
  /\ rest => mode # "stream"
  /\ ~started => hand = 0 /\ played = 0
  /\ mode # "over" => reason # "barge_in"
  /\ rest /\ mode \in {"ending", "over"} => producer = "done"

FramesKept ==
  ~rest =>
    /\ mode = "stream" => sent + hand + pending = received \div FrameLen
    /\ mode = "ending" /\ reason = "none" => (sent + hand) * FrameLen >= received
    /\ mode = "over" /\ reason = "none" => sent * FrameLen >= received

WholeRecord == mode = "over" /\ reason = "none" /\ feeder = "done" /\ ~rest => record = Text[queued]

SpeechInv == Counts /\ Phases /\ FramesKept /\ WholeRecord /\ CutRecordsSent /\ SpokenOnce

LEMMA Bounds ==
  /\ FrameLen \in Nat \ {0} /\ WordCount \in Nat /\ Warmup \in Nat /\ ChunkSizes \subseteq Nat
  /\ Said \in [0..WordCount -> Nat] /\ Said[0] = 0
  /\ Text \in [0..WordCount -> Nat] /\ Text[0] = 0
BY SpeechAssumption
LEMMA UpTo == ASSUME NEW w \in 0..WordCount PROVE Said[w] \in Nat /\ Text[w] \in Nat
BY Bounds

LEMMA SpeechInitially == SpeechInit => SpeechInv
<1> SUFFICES ASSUME SpeechInit PROVE SpeechInv
  OBVIOUS
<1>0. mode = "stream" /\ ~rest /\ hand = 0 /\ played = 0 /\ feeder = "running" /\ reason = "none"
  BY DEF SpeechInit
<1>1. Counts /\ Phases /\ WholeRecord /\ CutRecordsSent /\ SpokenOnce
  <2>1. Counts
    <3>1. 0 \in 0..WordCount
      BY Bounds
    <3>2. fed \in [pulled : 0..WordCount, pushed : 0..WordCount] /\ fed.pushed <= fed.pulled
      <4>1. fed = [pulled |-> 0, pushed |-> 0]
        BY DEF SpeechInit
      <4> QED BY <3>1, <4>1
    <3>3. rest \in BOOLEAN /\ started \in BOOLEAN
      BY DEF SpeechInit
    <3> QED BY <3>1, <3>2, <3>3 DEF SpeechInit, Counts
  <2>2. Phases
    BY <1>0 DEF Phases
  <2>3. WholeRecord /\ CutRecordsSent /\ SpokenOnce
    BY <1>0 DEF WholeRecord, CutRecordsSent, SpokenOnce
  <2> QED BY <2>1, <2>2, <2>3
<1>2. FramesKept
  BY Bounds DEF SpeechInit, FramesKept
<1> QED BY <1>1, <1>2 DEF SpeechInv

(* The words that are spoken have a last one. *)
LEMMA PrefixIsSent ==
  ASSUME Counts
  PROVE  SpokenPrefix \in 0..stamped /\ Said[SpokenPrefix] <= Samples
<1>1. Samples \in Nat /\ stamped \in Nat
  BY Bounds, MulNat DEF Counts, Samples
<1>2. 0 \in SpokenWords /\ SpokenWords \subseteq Nat /\ \A w \in SpokenWords : w <= stamped
  BY <1>1, Bounds DEF SpokenWords
<1>3. PICK w \in SpokenWords : \A v \in SpokenWords : v <= w
  <2> HIDE DEF SpokenWords
  <2> QED BY <1>1, <1>2, Greatest
<1>4. SpokenPrefix \in SpokenWords
  BY <1>3 DEF SpokenPrefix
<1> QED BY <1>4 DEF SpokenWords

(* What is cut from a text of c characters. *)
LEMMA TruncatedIs ==
  ASSUME Counts, NEW c \in Nat, NEW r \in Truncated(c)
  PROVE  /\ r \in Nat
         /\ Samples \in Nat /\ Synthesized \in Nat
         /\ \/ r = 0
            \/ 100 * Samples >= 99 * Synthesized
            \/ Synthesized # 0 /\ r <= (c * Samples) \div Synthesized
<1>1. Samples \in Nat /\ Synthesized \in Nat
  <2>1. Said[queued] \in Nat
    BY UpTo DEF Counts
  <2> QED BY Bounds, MulNat, <2>1 DEF Counts, Samples, Synthesized
<1>2. CASE Synthesized = 0 \/ sent = 0
  BY <1>1, <1>2 DEF Truncated
<1>3. CASE ~(Synthesized = 0 \/ sent = 0) /\ 100 * Samples >= 99 * Synthesized
  <2>1. r = c
    BY <1>3 DEF Truncated
  <2> QED BY <1>1, <1>3, <2>1
<1>4. CASE ~(Synthesized = 0 \/ sent = 0) /\ ~(100 * Samples >= 99 * Synthesized)
  <2> DEFINE q == (c * Samples) \div Synthesized
  <2>1. q \in Nat
    BY <1>1, <1>4, MulNat, DivFacts
  <2>2. r \in 0..q
    BY <1>4 DEF Truncated
  <2>3. r \in Nat /\ r <= q
    <3> HIDE DEF q
    <3> QED BY <2>1, <2>2
  <2> QED BY <1>1, <1>4, <2>3
<1> QED BY <1>2, <1>3, <1>4

(* A reply synthesized as a whole: what its record owes to its own audio. *)
LEMMA TruncatedIsSent ==
  ASSUME Counts, rest, NEW w \in 0..queued, NEW r \in Truncated(Text[w]), Text[w] <= Text[queued]
  PROVE  \/ 100 * Samples >= 99 * Said[queued]
         \/ r * Said[queued] <= Text[queued] * Samples
<1>1. Text[w] \in Nat /\ Text[queued] \in Nat /\ Said[queued] \in Nat /\ received \in Nat
  BY UpTo, Bounds DEF Counts
<1>2. /\ r \in Nat /\ Samples \in Nat /\ Synthesized \in Nat
      /\ \/ r = 0
         \/ 100 * Samples >= 99 * Synthesized
         \/ Synthesized # 0 /\ r <= (Text[w] * Samples) \div Synthesized
  BY <1>1, TruncatedIs
<1>3. Said[queued] <= Synthesized
  BY <1>1 DEF Synthesized
<1>4. Text[w] * Samples <= Text[queued] * Samples
  BY <1>1, <1>2, MulMono
<1>5. /\ Text[w] * Samples \in Nat /\ Text[queued] * Samples \in Nat
      /\ r * Said[queued] \in Nat
  BY <1>1, <1>2, MulNat
<1>6. CASE r = 0
  BY <1>1, <1>5, <1>6
<1>7. CASE 100 * Samples >= 99 * Synthesized
  BY <1>1, <1>2, <1>3, <1>7
<1>8. CASE Synthesized # 0 /\ r <= (Text[w] * Samples) \div Synthesized
  <2>1. r * Said[queued] <= Text[w] * Samples
    BY <1>1, <1>2, <1>3, <1>8, ShareIsSent
  <2> QED BY <1>4, <1>5, <2>1
<1> QED BY <1>2, <1>6, <1>7, <1>8

LEMMA ConsumedIsNat ==
  ASSUME Counts PROVE Consumed \in 0..WordCount
BY Bounds DEF Counts, Consumed

(* The stream's end: what is left in hand completes what was received. *)
LEMMA StreamEndsKeeps ==
  ASSUME SpeechInv, Receiving, NEW f \in {"running", "done", "failed", "cut"},
         f = "done" => producer = "done", StreamEnds(f)
  PROVE  SpeechInv'
<1>1. TailFrames \in {0, 1}
  BY DEF TailFrames
<1>2. Counts'
  BY <1>1 DEF SpeechInv, Counts, StreamEnds
<1>3. rest = FALSE /\ hand = 0 /\ sent + pending = received \div FrameLen
  BY DEF SpeechInv, Counts, Phases, FramesKept, Receiving
<1>4. Phases'
  <2>1. ~started' => hand' = 0 /\ played' = 0
    <3>1. CASE pending + TailFrames > 0
      BY <3>1 DEF StreamEnds
    <3>2. CASE ~(pending + TailFrames > 0)
      <4>1. hand' = 0 /\ started' = started /\ played' = played
        BY <1>1, <3>2 DEF SpeechInv, Counts, StreamEnds
      <4> QED BY <4>1 DEF SpeechInv, Phases
    <3> QED BY <3>1, <3>2
  <2>2. mode' = "ending" /\ reason' = reason /\ producer' = producer /\ feeder' = f /\ rest' = rest
    BY DEF StreamEnds
  <2>3. reason # "barge_in"
    BY DEF SpeechInv, Phases, Receiving
  <2>4. ~rest'
    BY <1>3, <2>2
  <2> QED BY <2>1, <2>2, <2>3, <2>4 DEF Phases
<1>5. FramesKept'
  <2> DEFINE q == received \div FrameLen
             all == sent + (pending + TailFrames)
  <2>1. /\ q \in Nat
        /\ q * FrameLen <= received
        /\ received < (q * FrameLen) + FrameLen
        /\ received % FrameLen = 0 => q * FrameLen = received
    BY Bounds, DivFacts DEF SpeechInv, Counts
  <2>2. all = q + TailFrames
    BY <1>1, <1>3 DEF SpeechInv, Counts
  <2>3. all * FrameLen >= received
    <3> HIDE DEF q, all
    <3>1. CASE received % FrameLen = 0
      BY <2>1, <2>2, <3>1, Bounds DEF TailFrames, SpeechInv, Counts
    <3>2. CASE ~(received % FrameLen = 0)
      <4>1. all = q + 1
        BY <2>2, <3>2 DEF TailFrames
      <4>2. (q + 1) * FrameLen = (q * FrameLen) + FrameLen
        BY <2>1, Bounds
      <4>3. q * FrameLen \in Nat
        BY <2>1, Bounds, MulNat
      <4> QED BY <2>1, <4>1, <4>2, <4>3, Bounds DEF SpeechInv, Counts
    <3> QED BY <3>1, <3>2
  <2> HIDE DEF q
  <2> QED BY <2>3, <1>3 DEF FramesKept, StreamEnds
<1>6. WholeRecord' /\ CutRecordsSent' /\ SpokenOnce'
  BY <1>3 DEF SpeechInv, WholeRecord, CutRecordsSent, SpokenOnce, StreamEnds
<1> QED BY <1>2, <1>4, <1>5, <1>6 DEF SpeechInv

LEMMA StreamFailsKeeps ==
  ASSUME SpeechInv, StreamFails
  PROVE  SpeechInv'
<1>1. Counts' /\ Phases'
  BY DEF SpeechInv, Counts, Phases, StreamFails, Receiving, MayRepeat
<1>2. FramesKept' /\ WholeRecord' /\ CutRecordsSent' /\ SpokenOnce'
  BY DEF SpeechInv, Counts, Phases, FramesKept, WholeRecord, CutRecordsSent, SpokenOnce,
         StreamFails, Receiving, MayRepeat
<1> QED BY <1>1, <1>2 DEF SpeechInv

LEMMA ChunkKeeps ==
  ASSUME SpeechInv, NEW n \in Nat, Chunk(n)
  PROVE  SpeechInv'
<1> DEFINE frames == Completed(n)
<1>1. /\ frames \in Nat
      /\ received' = received + n
      /\ received' \in Nat
      /\ (received \div FrameLen) + frames = (received + n) \div FrameLen
      /\ received \div FrameLen \in Nat
  <2>1. received \in Nat /\ received + n \in Nat /\ received <= received + n
    BY DEF SpeechInv, Counts
  <2>2. received \div FrameLen \in Nat /\ (received + n) \div FrameLen \in Nat
    BY <2>1, Bounds, DivFacts
  <2>3. received \div FrameLen <= (received + n) \div FrameLen
    BY <2>1, Bounds, DivMono
  <2> QED BY <2>1, <2>2, <2>3 DEF Completed, Chunk
<1>2. /\ Receiving
      /\ \/ started /\ hand' = frames /\ UNCHANGED <<pending, started>>
         \/ ~started /\ started' = TRUE /\ hand' = pending + frames /\ pending' = 0
         \/ ~started /\ pending' = pending + frames /\ UNCHANGED <<started, hand>>
      /\ UNCHANGED <<queued, producer, fed, feeder, stamped, mode, rest, sent, played, reason, record>>
  BY DEF Chunk
<1> HIDE DEF frames
<1>3. Counts'
  <2>1. CASE started
    BY <1>1, <1>2, <2>1 DEF SpeechInv, Counts
  <2>2. CASE ~started /\ started' = TRUE /\ hand' = pending + frames /\ pending' = 0
    BY <1>1, <1>2, <2>2 DEF SpeechInv, Counts
  <2>3. CASE ~started /\ pending' = pending + frames /\ UNCHANGED <<started, hand>>
    BY <1>1, <1>2, <2>3 DEF SpeechInv, Counts
  <2> QED BY <1>2, <2>1, <2>2, <2>3
<1>4. Phases'
  BY <1>1, <1>2 DEF SpeechInv, Counts, Phases, Receiving
<1>5. FramesKept'
  <2>1. mode' = "stream" /\ rest' = FALSE
    BY <1>2 DEF SpeechInv, Counts, Phases, Receiving
  <2>2. sent + hand + pending = received \div FrameLen /\ hand = 0
    BY <1>2 DEF SpeechInv, Counts, Phases, FramesKept, Receiving
  <2>3. sent' + hand' + pending' = (received \div FrameLen) + frames
    BY <1>1, <1>2, <2>2 DEF SpeechInv, Counts
  <2>4. sent' + hand' + pending' = received' \div FrameLen
    BY <1>1, <2>3
  <2> QED BY <2>1, <2>4 DEF FramesKept
<1>6. WholeRecord' /\ CutRecordsSent' /\ SpokenOnce'
  BY <1>2 DEF SpeechInv, Counts, Phases, WholeRecord, CutRecordsSent, SpokenOnce, Receiving
<1> QED BY <1>3, <1>4, <1>5, <1>6 DEF SpeechInv

LEMMA RestKeeps ==
  ASSUME SpeechInv, RestSynthesizes
  PROVE  SpeechInv'
<1> DEFINE frames == Said[queued] \div FrameLen
<1>1. frames \in Nat
  BY Bounds, UpTo, DivFacts DEF SpeechInv, Counts
<1>2. /\ mode = "rest" /\ mode' = "ending" /\ hand' \in {0, frames}
      /\ started' = (started \/ hand' > 0)
      /\ UNCHANGED <<queued, producer, fed, feeder, received, stamped, rest, pending, sent, played, reason, record>>
  BY DEF RestSynthesizes
<1> HIDE DEF frames
<1>3. Counts' /\ Phases'
  <2>1. hand' \in Nat
    BY <1>1, <1>2
  <2>2. started' \in BOOLEAN /\ (~started' => hand' = 0 /\ played' = 0)
    <3>1. CASE hand' > 0
      BY <1>2, <3>1
    <3>2. CASE ~(hand' > 0)
      <4>1. hand' = 0 /\ started' = started /\ played' = played
        BY <1>2, <2>1, <3>2 DEF SpeechInv, Counts
      <4> QED BY <4>1 DEF SpeechInv, Counts, Phases
    <3> QED BY <3>1, <3>2
  <2>3. Counts'
    BY <1>2, <2>1, <2>2 DEF SpeechInv, Counts
  <2>4. Phases'
    <3>1. producer = "done" /\ UNCHANGED <<producer, feeder, rest, reason>> /\ mode = "rest" /\ mode' = "ending"
      BY <1>2 DEF RestSynthesizes
    <3>2. rest /\ reason # "barge_in"
      BY <1>2 DEF SpeechInv, Phases
    <3> QED BY <2>2, <3>1, <3>2 DEF Phases
  <2> QED BY <2>3, <2>4
<1>4. FramesKept' /\ WholeRecord' /\ CutRecordsSent' /\ SpokenOnce'
  BY <1>1, <1>2 DEF SpeechInv, Counts, Phases, FramesKept, WholeRecord, CutRecordsSent, SpokenOnce
<1> QED BY <1>3, <1>4 DEF SpeechInv

LEMMA SendFrameKeeps ==
  ASSUME SpeechInv, SendFrame
  PROVE  SpeechInv'
<1>1. /\ hand > 0 /\ hand' = hand - 1 /\ sent' = sent + 1
      /\ played' = IF rest THEN played ELSE played + 1
      /\ UNCHANGED <<queued, producer, fed, feeder, received, stamped, mode, rest, started, pending, reason, record>>
  BY DEF SendFrame
<1>2. Counts' /\ Phases'
  BY <1>1 DEF SpeechInv, Counts, Phases
<1>3. mode \in {"stream", "ending"} /\ sent' + hand' = sent + hand
  BY <1>1 DEF SpeechInv, Counts, Phases
<1>4. FramesKept'
  BY <1>1, <1>2, <1>3 DEF SpeechInv, Counts, FramesKept
<1>5. WholeRecord' /\ CutRecordsSent' /\ SpokenOnce'
  BY <1>1, <1>3 DEF SpeechInv, Counts, WholeRecord, CutRecordsSent, SpokenOnce
<1> QED BY <1>2, <1>4, <1>5 DEF SpeechInv

LEMMA DrainedKeeps ==
  ASSUME SpeechInv, Drained
  PROVE  SpeechInv'
<1>1. /\ mode = "ending" /\ hand = 0 /\ mode' = "over" /\ record' = Text[HolderFull]
      /\ UNCHANGED <<queued, producer, fed, feeder, received, stamped, rest, started, pending, hand, sent, played, reason>>
  BY DEF Drained
<1>2. Counts' /\ Phases'
  <2>1. HolderFull \in 0..WordCount
    BY Bounds DEF SpeechInv, Counts, HolderFull
  <2>2. record' \in Nat
    BY <1>1, <2>1, UpTo
  <2> QED BY <1>1, <2>2 DEF SpeechInv, Counts, Phases
<1>3. FramesKept'
  <2>1. (sent + hand) = sent
    BY <1>1 DEF SpeechInv, Counts
  <2> QED BY <1>1, <2>1 DEF SpeechInv, FramesKept
<1>4. WholeRecord' /\ SpokenOnce'
  BY <1>1 DEF SpeechInv, Counts, Phases, WholeRecord, SpokenOnce, HolderFull
<1>5. reason # "barge_in"
  BY <1>1 DEF SpeechInv, Phases
<1>6. CutRecordsSent'
  BY <1>1, <1>5 DEF CutRecordsSent
<1> QED BY <1>2, <1>3, <1>4, <1>6 DEF SpeechInv

LEMMA CutShortKeeps ==
  ASSUME SpeechInv, CutShort
  PROVE  SpeechInv'
<1> DEFINE base == IF ~rest THEN Consumed ELSE IF mode = "ending" THEN HolderFull ELSE queued
<1>1. /\ mode # "over" /\ mode' = "over" /\ hand' = 0
      /\ producer' = IF mode = "ending" THEN producer ELSE "done"
      /\ reason' = IF reason = "none" THEN "barge_in" ELSE reason
      /\ record' \in IF stamped > 0 /\ ~rest THEN {Text[SpokenPrefix]} ELSE Truncated(Text[base])
      /\ UNCHANGED <<queued, fed, feeder, received, stamped, rest, started, pending, sent, played>>
  BY DEF CutShort
<1>2. base \in 0..WordCount /\ (rest => base \in 0..queued)
  BY ConsumedIsNat, Bounds DEF SpeechInv, Counts, HolderFull
<1> HIDE DEF base
<1>3. record' \in Nat
  <2>1. CASE stamped > 0 /\ ~rest
    <3>1. SpokenPrefix \in 0..WordCount
      BY PrefixIsSent, Bounds DEF SpeechInv, Counts
    <3>2. record' = Text[SpokenPrefix]
      BY <1>1, <2>1
    <3> QED BY <3>1, <3>2, UpTo
  <2>2. CASE ~(stamped > 0 /\ ~rest)
    <3>1. record' \in Truncated(Text[base])
      BY <1>1, <2>2
    <3>2. Text[base] \in Nat
      BY <1>2, UpTo
    <3> QED BY <3>1, <3>2, TruncatedIs DEF SpeechInv
  <2> QED BY <2>1, <2>2
<1>4. Counts'
  BY <1>1, <1>3 DEF SpeechInv, Counts
<1>5. Phases'
  BY <1>1 DEF SpeechInv, Counts, Phases
<1>6. FramesKept' /\ WholeRecord' /\ SpokenOnce'
  BY <1>1 DEF SpeechInv, Counts, Phases, FramesKept, WholeRecord, SpokenOnce
<1>7. CutRecordsSent'
  <2>0. Samples' = Samples /\ stamped' = stamped /\ queued' = queued /\ rest' = rest
    BY <1>1 DEF Samples
  <2>1. CASE stamped > 0 /\ ~rest
    <3>1. SpokenPrefix \in 0..stamped /\ Said[SpokenPrefix] <= Samples
      BY PrefixIsSent DEF SpeechInv
    <3>2. record' = Text[SpokenPrefix]
      BY <1>1, <2>1
    <3> QED BY <2>0, <2>1, <3>1, <3>2 DEF CutRecordsSent
  <2>2. CASE rest
    <3>1. record' \in Truncated(Text[base])
      BY <1>1, <2>2
    <3>2. base \in 0..queued /\ Text[base] <= Text[queued]
      <4>1. base \in 0..queued /\ base \in 0..WordCount /\ queued \in 0..WordCount /\ base <= queued
        BY <1>2, <2>2, Bounds DEF SpeechInv, Counts
      <4>2. \A v, w \in 0..WordCount : v <= w => Text[v] <= Text[w]
        BY SpeechAssumption
      <4> QED BY <4>1, <4>2
    <3>3. \/ 100 * Samples >= 99 * Said[queued]
          \/ record' * Said[queued] <= Text[queued] * Samples
      BY <2>2, <3>1, <3>2, TruncatedIsSent DEF SpeechInv
    <3> QED BY <2>0, <2>2, <3>3 DEF CutRecordsSent
  <2>3. CASE ~(stamped > 0) /\ ~rest
    BY <2>0, <2>3 DEF CutRecordsSent
  <2> QED BY <2>1, <2>2, <2>3 DEF SpeechInv, Counts
<1> QED BY <1>4, <1>5, <1>6, <1>7 DEF SpeechInv

LEMMA TextKeeps ==
  ASSUME SpeechInv, ProducerSays \/ ProducerEnds \/ Feeds
  PROVE  SpeechInv'
<1>1. CASE ProducerSays
  <2>1. queued' \in 0..WordCount
    BY <1>1, Bounds DEF SpeechInv, Counts, ProducerSays
  <2>2. Counts' /\ Phases'
    BY <1>1, <2>1 DEF SpeechInv, Counts, Phases, ProducerSays
  <2>3. FramesKept' /\ WholeRecord' /\ SpokenOnce'
    BY <1>1 DEF SpeechInv, Counts, Phases, FramesKept, WholeRecord, SpokenOnce, ProducerSays
  <2>4. CutRecordsSent'
    <3>1. ~(mode = "over" /\ rest)
      BY <1>1 DEF SpeechInv, Phases, ProducerSays
    <3>2. UNCHANGED <<mode, rest, reason, stamped, record, Samples>>
      BY <1>1 DEF ProducerSays, Samples
    <3> QED BY <3>1, <3>2 DEF SpeechInv, CutRecordsSent
  <2> QED BY <2>2, <2>3, <2>4 DEF SpeechInv
<1>2. CASE ProducerEnds
  <2>1. Counts' /\ Phases'
    BY <1>2 DEF SpeechInv, Counts, Phases, ProducerEnds
  <2>2. FramesKept' /\ WholeRecord' /\ CutRecordsSent' /\ SpokenOnce'
    BY <1>2 DEF SpeechInv, Counts, Phases, FramesKept, WholeRecord, CutRecordsSent, SpokenOnce,
                ProducerEnds, Samples
  <2> QED BY <2>1, <2>2 DEF SpeechInv
<1>3. CASE Feeds
  <2>0. /\ fed \in [pulled : 0..WordCount, pushed : 0..WordCount] /\ fed.pushed <= fed.pulled
        /\ queued \in 0..WordCount /\ WordCount \in Nat
    BY Bounds DEF SpeechInv, Counts
  <2>1. fed' \in [pulled : 0..WordCount, pushed : 0..WordCount] /\ fed'.pushed <= fed'.pulled
    <3>1. fed.pulled \in 0..WordCount /\ fed.pushed \in 0..WordCount
      BY <2>0
    <3>2. CASE fed' = [pulled |-> fed.pulled + 1, pushed |-> fed.pushed + 1] /\ fed.pulled < queued
      <4> DEFINE a == fed.pulled
                 b == fed.pushed
      <4>1. a + 1 \in 0..WordCount /\ b + 1 \in 0..WordCount /\ b + 1 <= a + 1
        <5>1. a \in 0..WordCount /\ b \in 0..WordCount /\ b <= a /\ a < queued
          BY <2>0, <3>1, <3>2
        <5> HIDE DEF a, b
        <5> QED BY <2>0, <5>1
      <4>2. fed' = [pulled |-> a + 1, pushed |-> b + 1]
        BY <3>2
      <4> HIDE DEF a, b
      <4> QED BY <4>1, <4>2
    <3>3. CASE fed' = [fed EXCEPT !.pulled = @ + 1] /\ fed.pulled < queued
      <4> DEFINE a == fed.pulled
                 b == fed.pushed
      <4>1. a + 1 \in 0..WordCount /\ b \in 0..WordCount /\ b <= a + 1
        <5>1. a \in 0..WordCount /\ b \in 0..WordCount /\ b <= a /\ a < queued
          BY <2>0, <3>1, <3>3
        <5> HIDE DEF a, b
        <5> QED BY <2>0, <5>1
      <4>2. fed' = [pulled |-> a + 1, pushed |-> b]
        BY <2>0, <3>3
      <4> HIDE DEF a, b
      <4> QED BY <4>1, <4>2
    <3>4. CASE fed' = fed
      BY <2>0, <3>4
    <3> QED BY <1>3, <3>2, <3>3, <3>4 DEF Feeds
  <2>2. Counts'
    BY <1>3, <2>1 DEF Feeds, SpeechInv, Counts
  <2>3. Phases'
    BY <1>3 DEF SpeechInv, Counts, Phases, Feeds
  <2>4. FramesKept' /\ WholeRecord' /\ CutRecordsSent' /\ SpokenOnce'
    BY <1>3 DEF SpeechInv, Counts, Phases, FramesKept, WholeRecord, CutRecordsSent, SpokenOnce,
                Feeds, Samples
  <2> QED BY <2>2, <2>3, <2>4 DEF SpeechInv
<1> QED BY <1>1, <1>2, <1>3

LEMMA TimestampsKeeps ==
  ASSUME SpeechInv, Timestamps
  PROVE  SpeechInv'
<1>0. stamped' \in 0..WordCount
  BY Bounds DEF Timestamps, SpeechInv, Counts
<1>1. Counts' /\ Phases'
  BY <1>0 DEF SpeechInv, Counts, Phases, Timestamps
<1>2. FramesKept' /\ WholeRecord' /\ CutRecordsSent' /\ SpokenOnce'
  BY DEF SpeechInv, Counts, Phases, FramesKept, WholeRecord, CutRecordsSent, SpokenOnce,
         Timestamps, Receiving, Samples
<1> QED BY <1>1, <1>2 DEF SpeechInv

LEMMA SpeechStep == SpeechInv /\ [SpeechNext]_speechVars => SpeechInv'
<1> SUFFICES ASSUME SpeechInv, [SpeechNext]_speechVars PROVE SpeechInv'
  OBVIOUS
<1>1. CASE ProducerSays \/ ProducerEnds \/ Feeds
  BY <1>1, TextKeeps
<1>2. CASE Timestamps
  BY <1>2, TimestampsKeeps
<1>3. CASE StreamFails
  BY <1>3, StreamFailsKeeps
<1>4. CASE Done
  <2>1. Receiving /\ StreamEnds(feeder) /\ feeder \in {"done", "failed"}
    BY <1>4 DEF Done
  <2>2. feeder = "done" => producer = "done"
    BY DEF SpeechInv, Phases
  <2> QED BY <2>1, <2>2, StreamEndsKeeps
<1>5. CASE TimesOut
  <2> DEFINE f == IF feeder = "running" THEN "cut" ELSE feeder
  <2>1. CASE Receiving /\ StreamEnds(f)
    <3>1. f \in {"running", "done", "failed", "cut"} /\ (f = "done" => producer = "done")
      BY DEF SpeechInv, Counts, Phases
    <3> HIDE DEF f
    <3> QED BY <2>1, <3>1, StreamEndsKeeps
  <2>2. CASE StreamFails
    BY <2>2, StreamFailsKeeps
  <2> QED BY <1>5, <2>1, <2>2 DEF TimesOut
<1>6. CASE RestSynthesizes
  BY <1>6, RestKeeps
<1>7. CASE SendFrame
  BY <1>7, SendFrameKeeps
<1>8. CASE Drained
  BY <1>8, DrainedKeeps
<1>9. CASE CutShort
  BY <1>9, CutShortKeeps
<1>10. ASSUME NEW n \in ChunkSizes, Chunk(n) PROVE SpeechInv'
  <2>1. n \in Nat
    BY Bounds
  <2> QED BY <1>10, <2>1, ChunkKeeps
<1>11. CASE UNCHANGED speechVars
  <2> USE <1>11 DEF speechVars
  <2>1. Counts' /\ Phases'
    BY DEF SpeechInv, Counts, Phases
  <2>2. FramesKept' /\ WholeRecord' /\ CutRecordsSent' /\ SpokenOnce'
    BY DEF SpeechInv, FramesKept, WholeRecord, CutRecordsSent, SpokenOnce, Samples
  <2> QED BY <2>1, <2>2 DEF SpeechInv
<1> QED
  BY <1>1, <1>2, <1>3, <1>4, <1>5, <1>6, <1>7, <1>8, <1>9, <1>10, <1>11 DEF SpeechNext

LEMMA SpeechMeans == SpeechInv => ReplyAsHeard
<1> SUFFICES ASSUME SpeechInv PROVE ReplyAsHeard
  OBVIOUS
<1>1. WholeReply
  BY DEF SpeechInv, Counts, FramesKept, WholeRecord, WholeReply, Samples
<1> QED BY <1>1 DEF SpeechInv, ReplyAsHeard

(* A reply that is over says in its record what the user heard: all of it  *)
(* if nothing cut it short; no word past those sent if something did and   *)
(* the words' ends are known; and, of one synthesized as a whole, no       *)
(* larger a share of its text than of its audio was sent, until 99 in a    *)
(* hundred of it were.  Every word is spoken once, and the frames sent     *)
(* hold all that the engine rendered: for every length of each word, in    *)
(* characters and in samples, of the frames, the chunks and the warm-up.   *)
THEOREM ReplyIsAsHeard == SpeechSpec => []ReplyAsHeard
<1>1. SpeechSpec => []SpeechInv
  BY SpeechInitially, SpeechStep, PTL DEF SpeechSpec
<1> QED BY <1>1, SpeechMeans, PTL

-----------------------------------------------------------------------------
(* The conversation (ConversationContext): its types.                      *)

(* What a record, a summary, a write, a job and a manager may be once u    *)
(* utterances have been said: numbers and texts of no later ones.          *)
CtxRids == Games \cup {None}
CtxRecords(u) == [turn : {-2, -1} \cup 1..u, ids : SUBSET (1..u), rid : CtxRids]
CtxReal(u) == [turn : 1..u, ids : SUBSET (1..u), rid : CtxRids]
CtxSums(u) == [end : 0..u, l3 : SUBSET (1..u), l4 : SUBSET (1..u), rid : CtxRids, prompt : 0..u,
               rules : SUBSET (1..u)]
CtxWrites(u) == [put : {"turn"}, what : CtxReal(u)] \cup [put : {"summary"}, what : CtxSums(u)]
CtxTask(u) == Seq(CtxWrites(u)) \ {<<>>}
CtxJob(u) == [records : Seq(CtxRecords(u)), l3 : SUBSET (1..u), l4 : SUBSET (1..u)]
CtxMgr(u) == [open : BOOLEAN, turns : Seq(CtxRecords(u)), sums : CtxSums(u), loaded : BOOLEAN,
              load : {"no", "redis", "pg"}, data : CtxSums(u), add : {"no", "redis", "pg", "push"},
              n : 0..u]

CtxTyped ==
  /\ said \in Seq(CtxRids) /\ Len(said) <= TurnCount
  /\ mgr \in [Managers -> CtxMgr(Len(said))]
  /\ jobs \subseteq CtxJob(Len(said))
  /\ redisTasks \in Seq(CtxTask(Len(said))) /\ pgTasks \in Seq(CtxTask(Len(said)))
  /\ redis \in [turns : Seq(CtxReal(Len(said))), sum : CtxSums(Len(said))]
  /\ pg \in [rows : SUBSET CtxReal(Len(said)), sums : SUBSET CtxSums(Len(said))]

LEMMA CtxBounds ==
  /\ MaxTurns \in Nat /\ Window \in Nat /\ Window >= 1 /\ TurnCount \in Nat /\ RoastMin \in Nat
  /\ MemoryTurns \in Nat /\ Calm \in BOOLEAN
BY WindowAssumption, BoundsAssumption, FaultAssumption

(* What could be said so far can be said later on.                         *)
LEMMA CtxGrows ==
  ASSUME NEW u \in Nat, NEW v \in Nat, u <= v
  PROVE /\ CtxRecords(u) \subseteq CtxRecords(v) /\ CtxReal(u) \subseteq CtxReal(v)
        /\ CtxReal(u) \subseteq CtxRecords(u) /\ CtxSums(u) \subseteq CtxSums(v)
        /\ CtxTask(u) \subseteq CtxTask(v) /\ CtxJob(u) \subseteq CtxJob(v)
        /\ CtxMgr(u) \subseteq CtxMgr(v)
<1>1. 1..u \subseteq 1..v /\ 0..u \subseteq 0..v /\ SUBSET (1..u) \subseteq SUBSET (1..v)
  OBVIOUS
<1>2. CtxRecords(u) \subseteq CtxRecords(v) /\ CtxReal(u) \subseteq CtxReal(v) /\ CtxReal(u) \subseteq CtxRecords(u)
  BY <1>1 DEF CtxRecords, CtxReal
<1>3. CtxSums(u) \subseteq CtxSums(v)
  BY <1>1 DEF CtxSums
<1>4. CtxWrites(u) \subseteq CtxWrites(v)
  BY <1>2, <1>3 DEF CtxWrites
<1>5. Seq(CtxWrites(u)) \subseteq Seq(CtxWrites(v)) /\ Seq(CtxRecords(u)) \subseteq Seq(CtxRecords(v))
  BY <1>2, <1>4, SeqMonotonic
<1>6. CtxTask(u) \subseteq CtxTask(v)
  BY <1>5 DEF CtxTask
<1>7. CtxJob(u) \subseteq CtxJob(v)
  BY <1>1, <1>5 DEF CtxJob
<1>8. CtxMgr(u) \subseteq CtxMgr(v)
  BY <1>1, <1>3, <1>5 DEF CtxMgr
<1> QED BY <1>2, <1>3, <1>6, <1>7, <1>8

LEMMA CtxNothing ==
  ASSUME NEW u \in Nat
  PROVE NoSummary \in CtxSums(u) /\ Closed \in CtxMgr(u)
<1>1. None \in CtxRids /\ 0 \in 0..u /\ {} \in SUBSET (1..u)
  BY DEF CtxRids
<1>2. NoSummary \in CtxSums(u)
  BY <1>1 DEF NoSummary, CtxSums
<1>3. <<>> \in Seq(CtxRecords(u))
  OBVIOUS
<1>4. Closed \in CtxMgr(u)
  BY <1>1, <1>2, <1>3 DEF Closed, CtxMgr
<1> QED BY <1>2, <1>4

-----------------------------------------------------------------------------
(* The operators on records.                                               *)

LEMMA LastNFacts ==
  ASSUME NEW A, NEW s \in Seq(A), NEW n \in Nat, n >= 1
  PROVE /\ LastN(s, n) \in Seq(A)
        /\ Len(LastN(s, n)) = IF Len(s) > n THEN n ELSE Len(s)
        /\ Len(s) <= n => LastN(s, n) = s
        /\ Len(s) > n => \A i \in 1..n : LastN(s, n)[i] = s[i + Len(s) - n]
        /\ s # <<>> => LastN(s, n) # <<>> /\ Last(LastN(s, n)) = Last(s)
<1>1. Len(s) \in Nat
  OBVIOUS
<1>2. CASE Len(s) <= n
  BY <1>1, <1>2 DEF LastN
<1>3. CASE Len(s) > n
  <2> DEFINE k == Len(s) - n + 1
             t == SubSeq(s, k, Len(s))
  <2>1. k \in 1..Len(s) /\ LastN(s, n) = t /\ Len(s) - k + 1 = n
    BY <1>1, <1>3 DEF LastN
  <2>2. \A i \in k..Len(s) : s[i] \in A
    BY <1>1, <2>1
  <2>3. t \in Seq(A) /\ Len(t) = n /\ \A i \in 1..n : t[i] = s[k + i - 1]
    <3> HIDE DEF k
    <3>1. k \in Int /\ Len(s) \in Int /\ k <= Len(s)
      BY <1>1, <2>1
    <3> QED BY <2>1, <2>2, <3>1, SubSeqProperties
  <2>4. t # <<>> /\ t[n] = s[Len(s)] /\ s # <<>>
    <3>1. n \in 1..n /\ k + n - 1 = Len(s)
      BY <1>1, <2>1
    <3> HIDE DEF t, k
    <3> QED BY <1>1, <2>3, <3>1, <1>3
  <2>5. \A i \in 1..n : t[i] = s[i + Len(s) - n]
    <3>1. \A i \in 1..n : k + i - 1 = i + Len(s) - n
      BY <1>1
    <3> HIDE DEF t, k
    <3> QED BY <2>3, <3>1
  <2> HIDE DEF t, k
  <2> QED BY <1>1, <1>3, <2>1, <2>3, <2>4, <2>5 DEF Last
<1> QED BY <1>1, <1>2, <1>3

LEMMA AfterIn ==
  ASSUME NEW u \in Nat, NEW rs \in Seq(CtxRecords(u)), NEW a \in Nat
  PROVE After(rs, a) \in Seq(CtxReal(u)) /\ Real(rs) \in Seq(CtxReal(u))
<1>1. ASSUME NEW b \in Nat PROVE After(rs, b) \in Seq(CtxReal(u))
  <2> DEFINE P == {i \in DOMAIN rs : rs[i].turn > b}
  <2>1. ASSUME NEW i \in 1..Len(rs), i \in P PROVE rs[i] \in CtxReal(u)
    <3>1. rs[i] \in CtxRecords(u) /\ rs[i].turn > b
      BY <2>1
    <3>2. rs[i].turn \in 1..u
      BY <3>1 DEF CtxRecords
    <3> QED BY <3>1, <3>2 DEF CtxRecords, CtxReal
  <2> HIDE DEF P
  <2>2. Pick(rs, P) \in Seq(CtxReal(u))
    BY <2>1, PickIn
  <2> QED BY <2>2 DEF After, P
<1> QED BY <1>1 DEF Real

LEMMA VirtualIn ==
  ASSUME NEW u \in Nat, NEW rs \in Seq(CtxRecords(u))
  PROVE Virtual(rs) \in Seq(CtxRecords(u)) /\ \A i \in 1..Len(Virtual(rs)) : Virtual(rs)[i].turn <= 0
<1> DEFINE P == {i \in DOMAIN rs : rs[i].turn <= 0}
           B == {r \in CtxRecords(u) : r.turn <= 0}
<1>1. \A i \in 1..Len(rs) : i \in P => rs[i] \in B
  OBVIOUS
<1>2. Pick(rs, P) \in Seq(B)
  <2> HIDE DEF P, B
  <2> QED BY <1>1, PickIn
<1>3. B \subseteq CtxRecords(u) /\ \A r \in B : r.turn <= 0
  OBVIOUS
<1> HIDE DEF B
<1>4. Pick(rs, P) \in Seq(CtxRecords(u)) /\ \A i \in 1..Len(Pick(rs, P)) : Pick(rs, P)[i] \in B
  <2> HIDE DEF P
  <2> QED BY <1>2, <1>3, SeqMonotonic
<1> QED BY <1>3, <1>4 DEF Virtual

(* Records that carry summaries, in front of real ones, are not real.      *)
LEMMA RealBehind ==
  ASSUME NEW u \in Nat, NEW a \in Seq(CtxRecords(u)), NEW b \in Seq(CtxReal(u)),
         \A i \in 1..Len(a) : a[i].turn <= 0
  PROVE Real(a \o b) = b
<1> DEFINE P == {i \in DOMAIN (a \o b) : (a \o b)[i].turn > 0}
<1>1. b \in Seq(CtxRecords(u))
  BY CtxGrows, SeqMonotonic
<1>2. /\ Len(a) \in Nat /\ Len(b) \in Nat /\ (a \o b) \in Seq(CtxRecords(u))
      /\ DOMAIN (a \o b) = 1..(Len(a) + Len(b))
      /\ \A i \in 1..(Len(a) + Len(b)) : (a \o b)[i] = IF i <= Len(a) THEN a[i] ELSE b[i - Len(a)]
  BY <1>1, ConcatProperties, LenProperties
<1>3. ASSUME NEW i \in 1..Len(a) PROVE i \notin P
  <2>1. a[i] \in CtxRecords(u) /\ (a \o b)[i] = a[i] /\ a[i].turn <= 0
    BY <1>2
  <2>2. a[i].turn \in Int
    BY <2>1 DEF CtxRecords
  <2> QED BY <2>1, <2>2
<1>4. ASSUME NEW j \in 1..Len(b) PROVE Len(a) + j \in P
  <2>1. b[j] \in CtxReal(u) /\ (a \o b)[Len(a) + j] = b[j] /\ Len(a) + j \in 1..(Len(a) + Len(b))
    BY <1>2
  <2>2. b[j].turn > 0
    BY <2>1 DEF CtxReal
  <2> QED BY <1>2, <2>1, <2>2
<1>5. Pick(a \o b, P) = b
  <2> HIDE DEF P
  <2> QED BY <1>1, <1>3, <1>4, PickSecond
<1> QED BY <1>5 DEF Real, After

LEMMA RealIsAll ==
  ASSUME NEW u \in Nat, NEW b \in Seq(CtxReal(u))
  PROVE Real(b) = b
<1>1. <<>> \in Seq(CtxRecords(u)) /\ <<>> \o b = b /\ \A i \in 1..Len(<<>>) : <<>>[i].turn <= 0
  BY EmptySeq
<1>2. Real(<<>> \o b) = b
  BY <1>1, RealBehind
<1> QED BY <1>1, <1>2

LEMMA RealAppend ==
  ASSUME NEW u \in Nat, NEW rs \in Seq(CtxRecords(u)), NEW r \in CtxReal(u)
  PROVE Real(Append(rs, r)) = Append(Real(rs), r)
<1> DEFINE P == {i \in DOMAIN rs : rs[i].turn > 0}
           Q == {i \in DOMAIN Append(rs, r) : Append(rs, r)[i].turn > 0}
<1>1. r \in CtxRecords(u) /\ r.turn > 0 /\ Len(rs) \in Nat
  BY DEF CtxReal, CtxRecords
<1>2. DOMAIN Append(rs, r) = 1..(Len(rs) + 1) /\ Append(rs, r)[Len(rs) + 1] = r
      /\ \A i \in 1..Len(rs) : Append(rs, r)[i] = rs[i]
  BY <1>1
<1>3. Len(rs) + 1 \in Q /\ \A i \in 1..Len(rs) : i \in P <=> i \in Q
  BY <1>1, <1>2
<1>4. Pick(Append(rs, r), Q) = Append(Pick(rs, P), r)
  <2> HIDE DEF P, Q
  <2> QED BY <1>1, <1>3, PickAppend
<1> QED BY <1>4 DEF Real, After

LEMMA HotFacts ==
  ASSUME NEW u \in Nat, NEW rs \in Seq(CtxRecords(u))
  PROVE /\ Hot(rs, Window) \in Seq(CtxRecords(u))
        /\ Real(Hot(rs, Window)) = LastN(Real(rs), Window)
<1>1. Virtual(rs) \in Seq(CtxRecords(u)) /\ \A i \in 1..Len(Virtual(rs)) : Virtual(rs)[i].turn <= 0
  BY VirtualIn
<1>2. LastN(Real(rs), Window) \in Seq(CtxReal(u))
  BY AfterIn, LastNFacts, CtxBounds
<1>3. LastN(Real(rs), Window) \in Seq(CtxRecords(u))
  BY <1>2, CtxGrows, SeqMonotonic
<1>4. Hot(rs, Window) \in Seq(CtxRecords(u))
  BY <1>1, <1>3, ConcatProperties DEF Hot
<1> QED BY <1>1, <1>2, <1>4, RealBehind DEF Hot

LEMMA LastTurnIn ==
  ASSUME NEW u \in Nat, NEW rs \in Seq(CtxRecords(u))
  PROVE /\ LastTurn(rs) \in 0..u
        /\ LastTurn(rs) > 0 <=> Real(rs) # <<>>
        /\ LastRid(rs) \in CtxRids
<1>1. Real(rs) \in Seq(CtxReal(u))
  BY AfterIn
<1>2. Real(rs) # <<>> => Last(Real(rs)) \in CtxReal(u)
  BY <1>1 DEF Last
<1>3. rs # <<>> => Last(rs) \in CtxRecords(u)
  BY DEF Last
<1> QED BY <1>2, <1>3 DEF LastTurn, LastRid, CtxReal, CtxRecords, CtxRids

LEMMA IdsIn ==
  ASSUME NEW u \in Nat, NEW rs \in Seq(CtxRecords(u))
  PROVE Ids(rs) \subseteq 1..u
<1>1. \A i \in DOMAIN rs : rs[i].ids \subseteq 1..u
  <2>1. \A i \in DOMAIN rs : rs[i] \in CtxRecords(u)
    OBVIOUS
  <2> QED BY <2>1 DEF CtxRecords
<1> QED BY <1>1 DEF Ids

(* What Postgres answers.                                                  *)
LEMMA PgLastFacts ==
  ASSUME CtxTyped
  PROVE /\ PgRows \subseteq CtxReal(Len(said))
        /\ PgLast \in 0..Len(said)
        /\ \A r \in PgRows : r.turn \in 1..PgLast
        /\ PgLast > 0 => \E r \in PgRows : r.turn = PgLast
<1> DEFINE u == Len(said)
           T == {r.turn : r \in PgRows}
<1>1. u \in Nat /\ PgRows \subseteq CtxReal(u)
  BY DEF CtxTyped, PgRows
<1>2. \A r \in PgRows : r.turn \in 1..u
  BY <1>1 DEF CtxReal
<1> HIDE DEF u
<1>3. T \subseteq Nat /\ \A t \in T : t <= u /\ t >= 1
  BY <1>1, <1>2
<1>4. CASE T = {}
  <2>1. PgLast = 0 /\ PgRows = {}
    BY <1>4 DEF PgLast
  <2> QED BY <1>1, <2>1 DEF u
<1>5. CASE T # {}
  <2>1. PgLast = CHOOSE t \in T : \A v \in T : v <= t
    BY <1>5 DEF PgLast
  <2>2. \E t \in T : \A v \in T : v <= t
    <3> HIDE DEF T
    <3> QED BY <1>1, <1>3, <1>5, Greatest
  <2>3. PgLast \in T /\ \A v \in T : v <= PgLast
    <3> HIDE DEF T
    <3> QED BY <2>1, <2>2
  <2> QED BY <1>1, <1>2, <1>3, <2>3 DEF u
<1> QED BY <1>4, <1>5

PgAfter(a) == {r.turn : r \in {q \in PgRows : q.turn > a}}

(* The first rows after the anchor, in order; all of them if they fit.     *)
LEMMA PgTurnsFacts ==
  ASSUME CtxTyped, NEW a \in Nat
  PROVE /\ PgTurns(a) \in Seq(CtxReal(Len(said))) /\ Len(PgTurns(a)) <= Window
        /\ \A i \in 1..Len(PgTurns(a)) : PgTurns(a)[i] \in PgRows /\ PgTurns(a)[i].turn > a
        /\ \A i, j \in 1..Len(PgTurns(a)) : i < j => PgTurns(a)[i].turn < PgTurns(a)[j].turn
        /\ PgTurns(a) = <<>> <=> PgAfter(a) = {}
        /\ IsFiniteSet(PgAfter(a))
        /\ Cardinality(PgAfter(a)) <= Window =>
             /\ \A n \in PgAfter(a) : \E i \in 1..Len(PgTurns(a)) : PgTurns(a)[i].turn = n
             /\ PgTurns(a) # <<>> => Last(PgTurns(a)).turn = PgLast
<1> DEFINE u == Len(said)
           all == [t \in 1..PgLast |-> t]
           P == PgAfter(a)
           num == Pick(all, P)
           k == IF Len(num) > Window THEN Window ELSE Len(num)
           first == SubSeq(num, 1, k)
           p == [i \in DOMAIN first |-> CHOOSE r \in PgRows : r.turn = first[i]]
<1>1. /\ PgRows \subseteq CtxReal(u) /\ u \in Nat /\ PgLast \in 0..u
      /\ \A r \in PgRows : r.turn \in 1..PgLast
      /\ PgLast > 0 => \E r \in PgRows : r.turn = PgLast
  <2>1. u \in Nat
    BY DEF CtxTyped
  <2> QED BY <2>1, PgLastFacts
<1>2. all \in Seq(Nat) /\ Len(all) = PgLast /\ \A t \in 1..PgLast : all[t] = t
  BY <1>1
<1>3. P \subseteq 1..PgLast /\ \A n \in P : n > a /\ \E r \in PgRows : r.turn = n
  BY <1>1 DEF PgAfter
<1>4. IsFiniteSet(P)
  <2>1. IsFiniteSet(1..PgLast)
    BY <1>1, FS_Interval
  <2> HIDE DEF P
  <2> QED BY <1>3, <2>1, FS_Subset
<1> HIDE DEF u, all, P
<1>5. PICK e : Embeds(e, num, all, P)
  BY <1>2, PickEmbeds
<1>6. num \in Seq(Nat) /\ Len(num) \in Nat
  BY <1>2, PickTypes
<1>7. \A i \in 1..Len(num) : num[i] = e[i] /\ num[i] \in P
  BY <1>2, <1>5 DEF Embeds
<1>8. /\ \A i, j \in 1..Len(num) : i < j => num[i] < num[j]
      /\ \A n \in P : \E j \in 1..Len(num) : num[j] = n
  BY <1>2, <1>3, <1>5, <1>7 DEF Embeds
<1>9. num = <<>> <=> P = {}
  BY <1>2, <1>3, PickNone
<1>10. Len(num) <= Cardinality(P)
  <2>1. \A i \in 1..Len(all) : i \in P => i \in P
    OBVIOUS
  <2> QED BY <1>2, <1>4, <2>1, PickCount
<1>11. num # <<>> => num[Len(num)] = PgLast
  <2>1. SUFFICES ASSUME num # <<>> PROVE num[Len(num)] = PgLast
    OBVIOUS
  <2>2. PICK n \in P : TRUE
    BY <1>9, <2>1
  <2>3. PgLast > a /\ PgLast > 0
    BY <1>1, <1>3, <2>2
  <2>4. PgLast \in P /\ all # <<>> /\ Len(all) = PgLast
    BY <1>1, <1>2, <2>3 DEF P, PgAfter
  <2>5. num[Len(num)] = all[Len(all)]
    BY <1>2, <2>4, PickLast
  <2> QED BY <1>1, <1>2, <2>3, <2>4, <2>5
<1> HIDE DEF num
<1>12. /\ k \in 0..Len(num) /\ first \in Seq(Nat) /\ Len(first) = k /\ DOMAIN first = 1..k
       /\ \A i \in 1..k : first[i] = num[i]
  BY <1>6, CtxBounds
<1>13. k <= Window /\ (Len(num) <= Window => k = Len(num)) /\ (k = 0 <=> num = <<>>) /\ k \in Nat
  BY <1>6, CtxBounds
<1> HIDE DEF k, first
<1>14. /\ DOMAIN p = 1..k
       /\ \A i \in 1..k : p[i] \in PgRows /\ p[i].turn = num[i] /\ p[i].turn > a
  <2>1. ASSUME NEW i \in 1..k PROVE p[i] \in PgRows /\ p[i].turn = num[i] /\ num[i] > a
    <3>1. i \in 1..Len(num) /\ first[i] = num[i]
      BY <1>6, <1>12, <1>13
    <3>2. num[i] > a /\ \E r \in PgRows : r.turn = num[i]
      BY <1>3, <1>7, <3>1
    <3>3. p[i] = CHOOSE r \in PgRows : r.turn = first[i]
      BY <1>12
    <3> QED BY <3>1, <3>2, <3>3
  <2> QED BY <1>12, <2>1
<1>15. p \in Seq(CtxReal(u)) /\ Len(p) = k
  <2>1. p \in [1..k -> CtxReal(u)]
    <3>1. p = [i \in DOMAIN first |-> p[i]]
      OBVIOUS
    <3> HIDE DEF p
    <3> QED BY <1>1, <1>12, <1>14, <3>1
  <2> HIDE DEF p
  <2> QED BY <1>13, <2>1
<1>16. PgTurns(a) = p
  BY DEF PgTurns, first, k, num, all, P, PgAfter
<1> HIDE DEF p
<1>17. Cardinality(P) <= Window => k = Len(num)
  <2>1. Cardinality(P) \in Nat
    BY <1>4, FS_CardinalityType
  <2> QED BY <1>6, <1>10, <1>13, <2>1, CtxBounds
<1>18. \A i, j \in 1..k : i < j => p[i].turn < p[j].turn
  <2>1. \A i \in 1..k : i \in 1..Len(num)
    BY <1>6, <1>12, <1>13
  <2> QED BY <1>8, <1>14, <2>1
<1>19. p = <<>> <=> P = {}
  <2>1. p = <<>> <=> k = 0
    BY <1>15
  <2> QED BY <1>9, <1>13, <2>1
<1>20. Cardinality(P) <= Window => \A n \in P : \E i \in 1..k : p[i].turn = n
  BY <1>8, <1>14, <1>17
<1>21. Cardinality(P) <= Window /\ p # <<>> => Last(p).turn = PgLast
  <2>1. SUFFICES ASSUME Cardinality(P) <= Window, p # <<>> PROVE Last(p).turn = PgLast
    OBVIOUS
  <2>2. k = Len(num) /\ k \in 1..k /\ num # <<>>
    BY <1>9, <1>13, <1>17, <1>19, <2>1
  <2>3. p[k].turn = PgLast
    BY <1>11, <1>14, <2>2
  <2> QED BY <1>15, <2>3 DEF Last
<1> QED BY <1>4, <1>13, <1>14, <1>15, <1>16, <1>18, <1>19, <1>20, <1>21 DEF P, u

(* The newest summary there is.                                            *)
LEMMA PgSummaryFacts ==
  ASSUME CtxTyped, NEW s \in CtxSums(Len(said))
  PROVE /\ PgSummary(s) \in CtxSums(Len(said))
        /\ Up("pg") /\ pg.sums # {} => /\ PgSummary(s) \in pg.sums
                                       /\ \A o \in pg.sums : o.end <= PgSummary(s).end
        /\ ~(Up("pg") /\ pg.sums # {}) => PgSummary(s) = s
<1>1. Len(said) \in Nat /\ pg.sums \subseteq CtxSums(Len(said))
  BY DEF CtxTyped
<1>2. CASE Up("pg") /\ pg.sums # {}
  <2> DEFINE T == {o.end : o \in pg.sums}
  <2>1. T # {} /\ T \subseteq Nat /\ \A t \in T : t <= Len(said)
    <3>1. \A o \in pg.sums : o.end \in 0..Len(said)
      BY <1>1 DEF CtxSums
    <3> QED BY <1>1, <1>2, <3>1
  <2>2. \E t \in T : \A v \in T : v <= t
    <3> HIDE DEF T
    <3> QED BY <1>1, <2>1, Greatest
  <2>3. \E o \in pg.sums : \A q \in pg.sums : q.end <= o.end
    BY <2>2
  <2>4. PgSummary(s) = CHOOSE o \in pg.sums : \A q \in pg.sums : q.end <= o.end
    BY <1>2 DEF PgSummary
  <2> QED BY <1>1, <1>2, <2>3, <2>4
<1>3. CASE ~(Up("pg") /\ pg.sums # {})
  BY <1>3 DEF PgSummary
<1> QED BY <1>2, <1>3

(* What Redis answers.                                                     *)
LEMMA RedisFacts ==
  ASSUME CtxTyped
  PROVE RedisTurns \in Seq(CtxReal(Len(said))) /\ RedisTurns \in Seq(CtxRecords(Len(said)))
        /\ RedisSummary \in CtxSums(Len(said))
<1>1. Len(said) \in Nat /\ redis \in [turns : Seq(CtxReal(Len(said))), sum : CtxSums(Len(said))]
  BY DEF CtxTyped
<1>2. RedisTurns \in Seq(CtxReal(Len(said)))
  BY <1>1 DEF RedisTurns
<1>3. RedisSummary \in CtxSums(Len(said))
  BY <1>1, CtxNothing DEF RedisSummary
<1> QED BY <1>1, <1>2, <1>3, CtxGrows, SeqMonotonic

-----------------------------------------------------------------------------
(* What assemble makes of the records.                                     *)

LEMMA WithSummaryFacts ==
  ASSUME NEW u \in Nat, NEW data \in CtxSums(u), NEW rs \in Seq(CtxRecords(u))
  PROVE WithSummary(data, rs) \in Seq(CtxRecords(u)) /\ WithSummary(data, rs) # <<>>
        /\ \A v \in Seq(CtxRecords(u)), b \in Seq(CtxReal(u)) :
             rs = v \o b /\ (\A i \in 1..Len(v) : v[i].turn <= 0) => Real(WithSummary(data, rs)) = b
<1> DEFINE r3 == [turn |-> -2, ids |-> data.l3, rid |-> None]
           r4 == [turn |-> -1, ids |-> data.l4, rid |-> data.rid]
           s4 == IF data.l4 = {} THEN <<>> ELSE <<r4>>
           a == <<r3>> \o s4
<1>1. r3 \in CtxRecords(u) /\ r4 \in CtxRecords(u) /\ r3.turn <= 0 /\ r4.turn <= 0
  BY DEF CtxSums, CtxRecords, CtxRids
<1> HIDE DEF r3, r4
<1>2. a \in Seq(CtxRecords(u)) /\ a # <<>> /\ \A i \in 1..Len(a) : a[i].turn <= 0
  <2>1. s4 \in Seq(CtxRecords(u)) /\ Len(s4) \in Nat /\ \A i \in 1..Len(s4) : s4[i].turn <= 0
    BY <1>1
  <2>2. <<r3>> \in Seq(CtxRecords(u)) /\ Len(<<r3>>) = 1 /\ <<r3>>[1] = r3
    BY <1>1
  <2> HIDE DEF s4
  <2>3. a \in Seq(CtxRecords(u)) /\ Len(a) = 1 + Len(s4)
        /\ \A i \in 1..(1 + Len(s4)) : a[i] = IF i <= 1 THEN <<r3>>[i] ELSE s4[i - 1]
    BY <2>1, <2>2, ConcatProperties
  <2> HIDE DEF a
  <2>4. ASSUME NEW i \in 1..Len(a) PROVE a[i].turn <= 0
    <3>1. CASE i = 1
      BY <1>1, <2>1, <2>2, <2>3, <3>1
    <3>2. CASE i # 1
      <4>1. i - 1 \in 1..Len(s4) /\ a[i] = s4[i - 1]
        BY <2>1, <2>3, <3>2
      <4> QED BY <2>1, <4>1
    <3> QED BY <3>1, <3>2
  <2> QED BY <2>1, <2>3, <2>4
<1>3. WithSummary(data, rs) = a \o rs
  <2>1. <<r3>> \in Seq(CtxRecords(u)) /\ s4 \in Seq(CtxRecords(u))
    BY <1>1
  <2> QED BY DEF WithSummary, r3, r4
<1> HIDE DEF a
<1>4. a \o rs \in Seq(CtxRecords(u)) /\ a \o rs # <<>>
  BY <1>2, ConcatProperties, ConcatEqualIffEmpty
<1>5. ASSUME NEW v \in Seq(CtxRecords(u)), NEW b \in Seq(CtxReal(u)), rs = v \o b,
             \A i \in 1..Len(v) : v[i].turn <= 0
      PROVE Real(a \o rs) = b
  <2>1. b \in Seq(CtxRecords(u))
    BY CtxGrows, SeqMonotonic
  <2>2. a \o rs = (a \o v) \o b
    <3>1. a \in Seq(CtxRecords(u))
      BY <1>2
    <3>2. (a \o v) \o b = a \o (v \o b)
      BY <1>5, <2>1, <3>1, ConcatAssociative
    <3> QED BY <1>5, <3>2
  <2>3. a \o v \in Seq(CtxRecords(u)) /\ Len(a \o v) = Len(a) + Len(v) /\ Len(a) \in Nat /\ Len(v) \in Nat
        /\ \A i \in 1..(Len(a) + Len(v)) : (a \o v)[i] = IF i <= Len(a) THEN a[i] ELSE v[i - Len(a)]
    BY <1>2, ConcatProperties
  <2>4. ASSUME NEW i \in 1..Len(a \o v) PROVE (a \o v)[i].turn <= 0
    <3>1. CASE i <= Len(a)
      BY <1>2, <2>3, <3>1
    <3>2. CASE ~(i <= Len(a))
      <4>1. i - Len(a) \in 1..Len(v)
        BY <2>3, <3>2
      <4> QED BY <1>5, <2>3, <3>2, <4>1
    <3> QED BY <3>1, <3>2
  <2>5. Real((a \o v) \o b) = b
    BY <2>3, <2>4, RealBehind
  <2> QED BY <2>2, <2>5
<1> QED BY <1>3, <1>4, <1>5

LEMMA GameTurnsIn ==
  ASSUME NEW u \in Nat, NEW rs \in Seq(CtxRecords(u)), NEW rid
  PROVE /\ GameTurns(rs, rid) \in Seq(CtxReal(u))
        /\ (\E i \in 1..Len(rs) : rs[i].turn > 0 /\ rs[i].rid = rid) => GameTurns(rs, rid) # <<>>
<1> DEFINE P == {i \in DOMAIN rs : rs[i].turn > 0 /\ rs[i].rid = rid}
<1>1. ASSUME NEW i \in 1..Len(rs), i \in P PROVE rs[i] \in CtxReal(u)
  <2>1. rs[i] \in CtxRecords(u) /\ rs[i].turn > 0
    BY <1>1
  <2> QED BY <2>1 DEF CtxRecords, CtxReal
<1>2. (\E i \in 1..Len(rs) : rs[i].turn > 0 /\ rs[i].rid = rid) => \E i \in 1..Len(rs) : i \in P
  OBVIOUS
<1>3. /\ Pick(rs, P) \in Seq(CtxReal(u))
      /\ ((\E i \in 1..Len(rs) : i \in P) => Pick(rs, P) # <<>>)
  <2> HIDE DEF P
  <2> QED BY <1>1, PickIn, PickNone
<1> QED BY <1>2, <1>3 DEF GameTurns

LEMMA UnifiedIn ==
  ASSUME NEW u \in Nat, NEW list \in Seq(CtxRecords(u)), NEW memory \in Seq(CtxRecords(u))
  PROVE Unified(list, memory) \in Seq(CtxRecords(u))
<1> DEFINE game == GameTurns(memory, LastRid(list))
<1>1. game \in Seq(CtxReal(u))
  BY GameTurnsIn
<1>2. game # <<>> => Head(game) \in CtxRecords(u)
  <2>1. CtxReal(u) \subseteq CtxRecords(u)
    BY CtxGrows
  <2> HIDE DEF game
  <2> QED BY <1>1, <2>1
<1>3. game # <<>> => <<Head(game)>> \o list \in Seq(CtxRecords(u))
  <2> HIDE DEF game
  <2> QED BY <1>2, ConcatProperties
<1> QED BY <1>3 DEF Unified

LEMMA StartedIn ==
  ASSUME NEW u \in Nat, jobs \subseteq CtxJob(u), NEW records \in Seq(CtxRecords(u)), NEW data \in CtxSums(u),
         NEW js \in Started(records, data)
  PROVE js \subseteq CtxJob(u)
<1>1. [records |-> records, l3 |-> data.l3, l4 |-> data.l4] \in CtxJob(u)
  BY DEF CtxJob, CtxSums
<1> QED BY <1>1 DEF Started

-----------------------------------------------------------------------------
(* What the compressor makes of them.                                      *)

LEMMA VirtualTextIn ==
  ASSUME NEW u \in Nat, NEW rs \in Seq(CtxRecords(u)), NEW turn, NEW otherwise \in SUBSET (1..u)
  PROVE VirtualText(rs, turn, otherwise) \in SUBSET (1..u)
<1> DEFINE found == Pick(rs, {i \in DOMAIN rs : rs[i].turn = turn})
<1>1. found \in Seq(CtxRecords(u))
  BY PickTypes
<1> HIDE DEF found
<1>2. found # <<>> => Last(found) \in CtxRecords(u)
  BY <1>1 DEF Last
<1> QED BY <1>2 DEF VirtualText, CtxRecords, found

LEMMA ToldIn ==
  ASSUME NEW u \in Nat, NEW rs \in Seq(CtxRecords(u)), NEW existing \in SUBSET (1..u), NEW ok
  PROVE Told(existing, rs, ok) \in SUBSET (1..u)
BY IdsIn DEF Told

LEMMA CompressedIn ==
  ASSUME CtxTyped, NEW job \in jobs, NEW ok \in BOOLEAN, NEW enough \in BOOLEAN, Real(job.records) # <<>>
  PROVE Compressed(job, ok, enough) \in CtxSums(Len(said))
<1> DEFINE u == Len(said)
           turns == Real(job.records)
<1>1. u \in Nat /\ job \in CtxJob(u)
  BY DEF CtxTyped
<1> HIDE DEF u
<1>2. job.records \in Seq(CtxRecords(u)) /\ job.l3 \in SUBSET (1..u) /\ job.l4 \in SUBSET (1..u)
  BY <1>1 DEF CtxJob
<1>3. turns \in Seq(CtxReal(u)) /\ turns \in Seq(CtxRecords(u)) /\ turns # <<>>
  BY <1>1, <1>2, AfterIn, CtxGrows, SeqMonotonic
<1> HIDE DEF turns
<1>4. Last(turns) \in CtxReal(u) /\ Len(turns) \in 1..Len(turns)
  BY <1>3 DEF Last
<1>5. Last(turns).turn \in 1..u /\ Last(turns).rid \in CtxRids
  BY <1>4 DEF CtxReal
<1>6. FreeChat(job, ok) \in CtxSums(u)
  <2> DEFINE l3 == Told(VirtualText(job.records, -2, job.l3), turns, ok)
             e == Last(turns).turn
  <2>1. l3 \in SUBSET (1..u) /\ e \in 0..u
    BY <1>1, <1>2, <1>3, <1>5, VirtualTextIn, ToldIn
  <2>2. NoSummary \in CtxSums(u)
    BY <1>1, CtxNothing
  <2>3. FreeChat(job, ok) = [NoSummary EXCEPT !.end = e, !.l3 = l3]
    BY DEF FreeChat, turns
  <2> HIDE DEF l3, e
  <2> QED BY <2>1, <2>2, <2>3 DEF CtxSums
<1>7. Roast(job, ok, enough) \in CtxSums(u)
  <2> DEFINE rid == Last(turns).rid
             first == Head(GameTurns(turns, rid))
             s == RedisSummary
             known == s.rid = rid /\ s.prompt > 0 /\ s.prompt < first.turn
             prompt == IF known THEN s.prompt ELSE first.turn
             before == Pick(turns, {i \in DOMAIN turns : turns[i].turn < prompt})
             after == Pick(turns, {i \in DOMAIN turns : turns[i].turn > prompt /\ turns[i].rid = rid})
             told3 == VirtualText(job.records, -2, job.l3)
             told4 == VirtualText(job.records, -1, job.l4)
             due == enough /\ after # <<>> /\ (told4 = {} => Len(after) >= RoastMin)
             end == IF Last(turns).turn < prompt THEN prompt ELSE Last(turns).turn
             l3 == IF before = <<>> THEN told3 ELSE Told(told3, before, ok)
             l4 == IF due THEN Told(told4, after, ok) ELSE {}
             rules == IF known THEN s.rules ELSE first.ids
  <2>1. first \in CtxReal(u)
    <3>1. GameTurns(turns, rid) \in Seq(CtxReal(u))
      BY <1>1, <1>3, GameTurnsIn
    <3>2. GameTurns(turns, rid) # <<>>
      <4>1. turns[Len(turns)].turn > 0 /\ turns[Len(turns)].rid = rid
        BY <1>5 DEF Last
      <4> QED BY <1>1, <1>3, <1>4, <4>1, GameTurnsIn
    <3> QED BY <3>1, <3>2
  <2>2. s \in CtxSums(u)
    BY RedisFacts DEF u
  <2>3. prompt \in 0..u /\ rules \in SUBSET (1..u)
    BY <1>1, <2>1, <2>2 DEF CtxReal, CtxSums
  <2>4. end \in 0..u
    <3> HIDE DEF prompt
    <3> QED BY <1>1, <1>5, <2>3
  <2>5. told3 \in SUBSET (1..u) /\ told4 \in SUBSET (1..u)
    BY <1>1, <1>2, VirtualTextIn
  <2>6. before \in Seq(CtxRecords(u)) /\ after \in Seq(CtxRecords(u))
    BY <1>3, PickTypes
  <2>7. l3 \in SUBSET (1..u) /\ l4 \in SUBSET (1..u)
    <3> HIDE DEF told3, told4, before, after, due
    <3> QED BY <1>1, <2>5, <2>6, ToldIn
  <2>8. Roast(job, ok, enough) = [end |-> end, l3 |-> l3, l4 |-> l4, rid |-> rid, prompt |-> prompt,
                                  rules |-> rules]
    BY DEF Roast, turns
  <2> HIDE DEF end, l3, l4, rid, prompt, rules
  <2>9. rid \in CtxRids
    BY <1>5 DEF rid
  <2> QED BY <2>3, <2>4, <2>7, <2>8, <2>9 DEF CtxSums
<1> QED BY <1>6, <1>7 DEF Compressed, u

(* The tasks.                                                              *)

LEMMA AdvanceIn ==
  ASSUME NEW u \in Nat, NEW tasks \in Seq(CtxTask(u)), NEW i \in DOMAIN tasks
  PROVE Advance(tasks, i) \in Seq(CtxTask(u)) /\ Head(tasks[i]) \in CtxWrites(u)
<1>1. tasks[i] \in Seq(CtxWrites(u)) /\ tasks[i] # <<>> /\ i \in 1..Len(tasks) /\ Len(tasks) \in Nat
      /\ tasks[i] \in CtxTask(u)
  BY DEF CtxTask
<1>2. Head(tasks[i]) \in CtxWrites(u)
  BY <1>1
<1>3. CASE Len(tasks[i]) = 1
  <2>1. SubSeq(tasks, 1, i - 1) \in Seq(CtxTask(u)) /\ SubSeq(tasks, i + 1, Len(tasks)) \in Seq(CtxTask(u))
    <3>1. \A j \in 1..(i - 1) : tasks[j] \in CtxTask(u)
      BY <1>1
    <3>2. \A j \in (i + 1)..Len(tasks) : tasks[j] \in CtxTask(u)
      BY <1>1
    <3>3. 1 \in Int /\ i - 1 \in Int /\ i + 1 \in Int /\ Len(tasks) \in Int
      BY <1>1
    <3> QED BY <3>1, <3>2, <3>3, SubSeqProperties
  <2> QED BY <1>2, <1>3, <2>1, ConcatProperties DEF Advance, RemoveAt
<1>4. CASE Len(tasks[i]) # 1
  <2>1. Tail(tasks[i]) \in CtxTask(u)
    <3>1. Tail(tasks[i]) \in Seq(CtxWrites(u)) /\ Len(Tail(tasks[i])) = Len(tasks[i]) - 1 /\ Len(tasks[i]) \in Nat
      BY <1>1, HeadTailProperties
    <3>2. Len(Tail(tasks[i])) # 0
      BY <1>4, <3>1
    <3>3. Tail(tasks[i]) # <<>>
      <4> DEFINE t == Tail(tasks[i])
      <4>1. Len(t) # 0
        BY <3>2
      <4> HIDE DEF t
      <4>2. t # <<>>
        BY <4>1
      <4> QED BY <4>2 DEF t
    <3> QED BY <3>1, <3>3 DEF CtxTask
  <2>2. Advance(tasks, i) = [tasks EXCEPT ![i] = Tail(tasks[i])]
    BY <1>4 DEF Advance, ReplaceAt
  <2> QED BY <1>1, <1>2, <2>1, <2>2, ExceptSeq
<1> QED BY <1>2, <1>3, <1>4

LEMMA TasksIn ==
  ASSUME NEW u \in Nat, NEW tasks \in Seq(CtxTask(u)), NEW w \in CtxWrites(u)
  PROVE Append(tasks, <<w>>) \in Seq(CtxTask(u))
<1>1. <<w>> \in CtxTask(u)
  BY DEF CtxTask
<1> QED BY <1>1

LEMMA RewarmIn ==
  ASSUME NEW u \in Nat, NEW data \in CtxSums(u), NEW rs \in Seq(CtxReal(u))
  PROVE /\ Rewarm(data, rs) \in CtxTask(u) /\ Len(Rewarm(data, rs)) = Len(rs) + 1
        /\ Rewarm(data, rs)[1] = [put |-> "summary", what |-> data]
        /\ \A i \in 1..Len(rs) : Rewarm(data, rs)[i + 1] = [put |-> "turn", what |-> rs[i]]
<1> DEFINE w == [put |-> "summary", what |-> data]
           t == [i \in DOMAIN rs |-> [put |-> "turn", what |-> rs[i]]]
           p == <<w>> \o t
<1>1. w \in CtxWrites(u)
  BY DEF CtxWrites
<1>2. \A r \in CtxReal(u) : [put |-> "turn", what |-> r] \in CtxWrites(u)
  BY DEF CtxWrites
<1>3. t \in Seq(CtxWrites(u)) /\ Len(t) = Len(rs) /\ Len(rs) \in Nat
      /\ \A i \in 1..Len(rs) : t[i] = [put |-> "turn", what |-> rs[i]]
  BY <1>2
<1> HIDE DEF w, t
<1>4. <<w>> \in Seq(CtxWrites(u)) /\ Len(<<w>>) = 1 /\ <<w>>[1] = w
  BY <1>1
<1>5. p \in Seq(CtxWrites(u)) /\ Len(p) = 1 + Len(t)
      /\ \A i \in 1..(1 + Len(t)) : p[i] = IF i <= 1 THEN <<w>>[i] ELSE t[i - 1]
  BY <1>3, <1>4, ConcatProperties
<1>6. Rewarm(data, rs) = p
  BY DEF Rewarm, w, t
<1> HIDE DEF p
<1>7. p \in CtxTask(u) /\ Len(p) = Len(rs) + 1 /\ p[1] = w
  BY <1>3, <1>4, <1>5 DEF CtxTask
<1>8. ASSUME NEW i \in 1..Len(rs) PROVE p[i + 1] = [put |-> "turn", what |-> rs[i]]
  <2>1. i + 1 \in 1..(1 + Len(t)) /\ ~(i + 1 <= 1) /\ (i + 1) - 1 = i
    BY <1>3
  <2>2. p[i + 1] = t[i]
    BY <1>5, <2>1
  <2> QED BY <1>3, <2>2
<1> QED BY <1>6, <1>7, <1>8 DEF w

-----------------------------------------------------------------------------
(* The steps of a manager, field by field.                                 *)

MgrSet(m, x) == mgr' = [mgr EXCEPT ![m] = x]

LEMMA MgrStays ==
  ASSUME NEW u \in Nat, NEW v \in Nat, u <= v, mgr \in [Managers -> CtxMgr(u)],
         NEW m \in Managers, NEW x \in CtxMgr(v), MgrSet(m, x)
  PROVE mgr' \in [Managers -> CtxMgr(v)] /\ mgr'[m] = x /\ \A o \in Managers : o # m => mgr'[o] = mgr[o]
BY CtxGrows DEF MgrSet

LEMMA MgrIn ==
  ASSUME CtxTyped, NEW m \in Managers
  PROVE /\ mgr[m] \in CtxMgr(Len(said)) /\ mgr[m].turns \in Seq(CtxRecords(Len(said)))
        /\ mgr[m].sums \in CtxSums(Len(said)) /\ mgr[m].data \in CtxSums(Len(said))
        /\ mgr[m].data.end \in 0..Len(said) /\ mgr[m].n \in 0..Len(said) /\ Len(said) \in Nat
<1>1. mgr[m] \in CtxMgr(Len(said)) /\ Len(said) \in Nat
  BY DEF CtxTyped
<1> QED BY <1>1 DEF CtxMgr, CtxSums

(* A turn is said: one more utterance, one more record everywhere.         *)
NewTurn(m, n, r) ==
  /\ r \in CtxReal(Len(said) + 1) /\ r.turn = n /\ Len(said') = Len(said) + 1
  /\ said' \in Seq(CtxRids) /\ Len(said') <= TurnCount
  /\ MgrSet(m, [mgr[m] EXCEPT !.turns = Append(@, r), !.add = "no", !.n = 0])
  /\ redisTasks' = Append(redisTasks, <<[put |-> "turn", what |-> r]>>)
  /\ pgTasks' = Append(pgTasks, <<[put |-> "turn", what |-> r]>>)

LEMMA PushDoes ==
  ASSUME CtxTyped, NEW m \in Managers, NEW n \in 1..(Len(said) + 1), Len(said) < TurnCount,
         NEW u \in Nat, NEW history \in Seq(CtxRecords(u)), Push(m, n, history)
  PROVE \E r : NewTurn(m, n, r)
<1>1. PICK rid \in Rids(history) : LET r == [turn |-> n, ids |-> {Len(said) + 1}, rid |-> rid] IN
        /\ said' = Append(said, rid)
        /\ mgr' = [mgr EXCEPT ![m].turns = Append(@, r), ![m].add = "no", ![m].n = 0]
        /\ redisTasks' = Append(redisTasks, <<[put |-> "turn", what |-> r]>>)
        /\ pgTasks' = Append(pgTasks, <<[put |-> "turn", what |-> r]>>)
  BY DEF Push
<1> DEFINE r == [turn |-> n, ids |-> {Len(said) + 1}, rid |-> rid]
<1>2. rid \in CtxRids
  BY <1>1, LastTurnIn DEF Rids, CtxRids
<1>3. said \in Seq(CtxRids) /\ Len(said) \in Nat /\ said' = Append(said, rid)
  BY <1>1 DEF CtxTyped
<1>4. said' \in Seq(CtxRids) /\ Len(said') = Len(said) + 1 /\ Len(said') <= TurnCount
  BY <1>2, <1>3, CtxBounds
<1>5. r \in CtxReal(Len(said) + 1) /\ r.turn = n
  BY <1>2, <1>3 DEF CtxReal
<1>6. MgrSet(m, [mgr[m] EXCEPT !.turns = Append(@, r), !.add = "no", !.n = 0])
  <2>1. mgr \in [Managers -> CtxMgr(Len(said))]
    BY DEF CtxTyped
  <2>2. mgr[m] \in CtxMgr(Len(said))
    BY <2>1
  <2> HIDE DEF r
  <2> QED BY <1>1, <2>1, <2>2 DEF MgrSet, CtxMgr, r
<1> QED BY <1>1, <1>4, <1>5, <1>6 DEF NewTurn

(* The context is ready: list is what is read, fin the manager after.      *)
Finished(memory, data, rs) ==
  [memory EXCEPT !.turns = IF data.l3 = {} THEN @ ELSE WithSummary(data, rs),
                 !.sums = IF data.l3 = {} THEN @ ELSE NoSummary,
                 !.load = "no", !.data = NoSummary, !.loaded = TRUE]

LEMMA FinishDoes ==
  ASSUME CtxTyped, NEW m \in Managers, NEW memory \in CtxMgr(Len(said)), NEW data \in CtxSums(Len(said)),
         NEW rs \in Seq(CtxRecords(Len(said))), Finish(m, memory, data, rs)
  PROVE /\ MgrSet(m, Finished(memory, data, rs)) /\ Finished(memory, data, rs) \in CtxMgr(Len(said))
        /\ Finished(memory, data, rs).turns = IF data.l3 = {} THEN memory.turns ELSE WithSummary(data, rs)
        /\ Finished(memory, data, rs).sums = IF data.l3 = {} THEN memory.sums ELSE NoSummary
        /\ Finished(memory, data, rs).load = "no" /\ Finished(memory, data, rs).data = NoSummary
        /\ Finished(memory, data, rs).loaded = TRUE /\ Finished(memory, data, rs).open = memory.open
        /\ Finished(memory, data, rs).add = memory.add /\ Finished(memory, data, rs).n = memory.n
        /\ jobs' \subseteq CtxJob(Len(said))
<1> DEFINE u == Len(said)
           list == IF data.l3 = {} THEN rs ELSE WithSummary(data, rs)
           held == IF data.l3 = {} THEN memory.turns ELSE list
<1>1. u \in Nat /\ jobs \subseteq CtxJob(u) /\ memory.turns \in Seq(CtxRecords(u)) /\ memory.sums \in CtxSums(u)
  BY DEF CtxTyped, CtxMgr
<1> HIDE DEF u
<1>2. WithSummary(data, rs) \in Seq(CtxRecords(u)) /\ NoSummary \in CtxSums(u)
  BY <1>1, WithSummaryFacts, CtxNothing DEF u
<1>3. list \in Seq(CtxRecords(u)) /\ held \in Seq(CtxRecords(u))
  BY <1>1, <1>2 DEF u
<1>4. jobs' \in Started(Unified(list, held), data)
  BY DEF Finish
<1> HIDE DEF list, held
<1>5. jobs' \subseteq CtxJob(u)
  <2>1. Unified(list, held) \in Seq(CtxRecords(u)) /\ data \in CtxSums(u)
    BY <1>1, <1>3, UnifiedIn DEF u
  <2> QED BY <1>1, <1>4, <2>1, StartedIn
<1>6. MgrSet(m, Finished(memory, data, rs))
  BY DEF Finish, Finished, MgrSet
<1> DEFINE turns == IF data.l3 = {} THEN memory.turns ELSE WithSummary(data, rs)
           sums == IF data.l3 = {} THEN memory.sums ELSE NoSummary
<1>7. turns \in Seq(CtxRecords(u)) /\ sums \in CtxSums(u)
  BY <1>1, <1>2
<1>8. Finished(memory, data, rs) = [open |-> memory.open, turns |-> turns, sums |-> sums, loaded |-> TRUE,
         load |-> "no", data |-> NoSummary, add |-> memory.add, n |-> memory.n]
  <2>1. memory = [open |-> memory.open, turns |-> memory.turns, sums |-> memory.sums, loaded |-> memory.loaded,
           load |-> memory.load, data |-> memory.data, add |-> memory.add, n |-> memory.n]
    BY DEF CtxMgr
  <2>2. Finished(memory, data, rs) = [memory EXCEPT !.turns = turns, !.sums = sums, !.load = "no",
           !.data = NoSummary, !.loaded = TRUE]
    BY <2>1 DEF Finished
  <2> HIDE DEF turns, sums
  <2> QED BY <2>1, <2>2
<1> HIDE DEF turns, sums
<1>9. Finished(memory, data, rs) \in CtxMgr(u)
  BY <1>2, <1>7, <1>8 DEF CtxMgr, u
<1> QED BY <1>5, <1>6, <1>8, <1>9 DEF u, turns, sums

LEMMA OpenTyped ==
  ASSUME CtxTyped, NEW m \in Managers, Open(m) \/ EndSession(m)
  PROVE CtxTyped'
<1>1. Len(said) \in Nat
  BY DEF CtxTyped
<1>2. Closed \in CtxMgr(Len(said)) /\ [Closed EXCEPT !.open = TRUE] \in CtxMgr(Len(said))
  <2>1. Closed \in CtxMgr(Len(said))
    BY <1>1, CtxNothing
  <2> HIDE DEF Closed
  <2> QED BY <2>1 DEF CtxMgr
<1>3. mgr' = [mgr EXCEPT ![m] = [Closed EXCEPT !.open = TRUE]] \/ mgr' = [mgr EXCEPT ![m] = Closed]
  BY DEF Open, EndSession
<1>4. mgr' \in [Managers -> CtxMgr(Len(said))]
  <2> HIDE DEF Closed
  <2> QED BY <1>2, <1>3 DEF CtxTyped
<1>5. /\ jobs' \in {jobs, {}} /\ redisTasks' \in {redisTasks, <<>>} /\ pgTasks' \in {pgTasks, <<>>}
      /\ said' = said /\ redis' = redis /\ pg' = pg
  BY DEF Open, EndSession
<1>6. <<>> \in Seq(CtxTask(Len(said)))
  OBVIOUS
<1> QED BY <1>4, <1>5, <1>6 DEF CtxTyped

LEMMA NewTurnTyped ==
  ASSUME CtxTyped, NEW m \in Managers, NEW n, NEW r, NewTurn(m, n, r), UNCHANGED <<jobs, redis, pg>>
  PROVE CtxTyped'
<1> DEFINE u == Len(said)
           v == Len(said')
           x == [mgr[m] EXCEPT !.turns = Append(@, r), !.add = "no", !.n = 0]
           w == [put |-> "turn", what |-> r]
<1>1. u \in Nat /\ v = u + 1 /\ v \in Nat /\ u <= v /\ r \in CtxReal(v) /\ r \in CtxRecords(v)
  <2>1. u \in Nat /\ v = u + 1 /\ r \in CtxReal(u + 1)
    BY DEF CtxTyped, NewTurn
  <2>2. v \in Nat /\ u <= v /\ r \in CtxReal(v)
    BY <2>1
  <2> QED BY <2>1, <2>2, CtxGrows
<1>2. /\ CtxReal(u) \subseteq CtxReal(v) /\ CtxSums(u) \subseteq CtxSums(v) /\ CtxTask(u) \subseteq CtxTask(v)
      /\ CtxJob(u) \subseteq CtxJob(v) /\ CtxMgr(u) \subseteq CtxMgr(v)
  BY <1>1, CtxGrows
<1>3. mgr[m] \in CtxMgr(v)
  BY <1>2, MgrIn
<1>4. MgrSet(m, x) /\ redisTasks' = Append(redisTasks, <<w>>) /\ pgTasks' = Append(pgTasks, <<w>>)
      /\ said' \in Seq(CtxRids) /\ Len(said') <= TurnCount
  BY DEF NewTurn
<1>5. mgr \in [Managers -> CtxMgr(u)] /\ jobs \subseteq CtxJob(u) /\ redisTasks \in Seq(CtxTask(u)) /\ pgTasks \in Seq(CtxTask(u))
      /\ redis \in [turns : Seq(CtxReal(u)), sum : CtxSums(u)]
      /\ pg \in [rows : SUBSET CtxReal(u), sums : SUBSET CtxSums(u)]
  BY DEF CtxTyped
<1>6. w \in CtxWrites(v)
  BY <1>1 DEF CtxWrites
<1> HIDE DEF u, v, w
<1>7. x \in CtxMgr(v)
  <2> DEFINE t == Append(mgr[m].turns, r)
  <2>1. t \in Seq(CtxRecords(v)) /\ 0 \in 0..v
    BY <1>1, <1>3 DEF CtxMgr
  <2>2. x = [mgr[m] EXCEPT !.turns = t, !.add = "no", !.n = 0]
    OBVIOUS
  <2> HIDE DEF t, x
  <2> QED BY <1>3, <2>1, <2>2 DEF CtxMgr
<1> HIDE DEF x
<1>8. mgr' \in [Managers -> CtxMgr(v)]
  BY <1>1, <1>4, <1>5, <1>7, MgrStays
<1>9. redisTasks \in Seq(CtxTask(v)) /\ pgTasks \in Seq(CtxTask(v))
  BY <1>2, <1>5, SeqMonotonic
<1>10. redisTasks' \in Seq(CtxTask(v)) /\ pgTasks' \in Seq(CtxTask(v))
  BY <1>1, <1>4, <1>6, <1>9, TasksIn
<1>11. Seq(CtxReal(u)) \subseteq Seq(CtxReal(v))
  BY <1>2, SeqMonotonic
<1>12. redis' \in [turns : Seq(CtxReal(v)), sum : CtxSums(v)] /\ pg' \in [rows : SUBSET CtxReal(v), sums : SUBSET CtxSums(v)]
  BY <1>2, <1>5, <1>11
<1>13. jobs' \subseteq CtxJob(v)
  BY <1>2, <1>5
<1> QED BY <1>4, <1>8, <1>10, <1>12, <1>13 DEF CtxTyped, v

(* One of the two ways to add a turn.                                      *)
LEMMA AddsTurn ==
  ASSUME CtxTyped, NEW m \in Managers
  PROVE /\ AddTurn(m) /\ LastTurn(mgr[m].turns) > 0 =>
             \E r : NewTurn(m, LastTurn(mgr[m].turns) + 1, r)
        /\ AddCold(m) => \E r : NewTurn(m, mgr[m].n + 1, r)
<1>1. /\ Len(said) \in Nat /\ mgr[m].turns \in Seq(CtxRecords(Len(said))) /\ mgr[m].n \in 0..Len(said)
  BY MgrIn
<1>2. LastTurn(mgr[m].turns) \in 0..Len(said)
  BY <1>1, LastTurnIn
<1>3. ASSUME AddTurn(m), LastTurn(mgr[m].turns) > 0 PROVE \E r : NewTurn(m, LastTurn(mgr[m].turns) + 1, r)
  <2>1. Push(m, LastTurn(mgr[m].turns) + 1, mgr[m].turns) /\ Len(said) < TurnCount
    BY <1>3 DEF AddTurn, MayAdd
  <2>2. LastTurn(mgr[m].turns) + 1 \in 1..(Len(said) + 1)
    BY <1>1, <1>2
  <2> QED BY <1>1, <2>1, <2>2, PushDoes
<1>4. ASSUME AddCold(m) PROVE \E r : NewTurn(m, mgr[m].n + 1, r)
  <2> DEFINE history == IF mgr[m].turns = <<>> THEN RedisTurns ELSE mgr[m].turns
  <2>1. Push(m, mgr[m].n + 1, history) /\ Len(said) < TurnCount
    BY <1>4 DEF AddCold
  <2>2. history \in Seq(CtxRecords(Len(said)))
    BY <1>1, RedisFacts
  <2>3. mgr[m].n + 1 \in 1..(Len(said) + 1)
    BY <1>1
  <2> HIDE DEF history
  <2> QED BY <1>1, <2>1, <2>2, <2>3, PushDoes
<1> QED BY <1>3, <1>4

(* The steps of a manager that store nothing.                              *)
LEMMA MgrTyped ==
  ASSUME CtxTyped, NEW m \in Managers, NEW x \in CtxMgr(Len(said)), MgrSet(m, x), jobs' \subseteq CtxJob(Len(said)),
         redisTasks' \in Seq(CtxTask(Len(said))), UNCHANGED <<said, pgTasks, redis, pg>>
  PROVE CtxTyped'
<1>1. mgr' \in [Managers -> CtxMgr(Len(said))]
  BY DEF CtxTyped, MgrSet
<1> QED BY <1>1 DEF CtxTyped

LEMMA AskTyped ==
  ASSUME CtxTyped, NEW m \in Managers,
         AddAsksRedis(m) \/ AddAsksPg(m) \/ LoadCold(m) \/ (AddTurn(m) /\ ~(LastTurn(mgr[m].turns) > 0))
  PROVE CtxTyped'
<1>1. mgr[m] \in CtxMgr(Len(said)) /\ Len(said) \in Nat /\ mgr[m].sums \in CtxSums(Len(said))
  BY MgrIn
<1>2. PgLast \in 0..Len(said) /\ RedisSummary \in CtxSums(Len(said)) /\ RedisTurns \in Seq(CtxReal(Len(said)))
  BY PgLastFacts, RedisFacts
<1>3. jobs \subseteq CtxJob(Len(said)) /\ redisTasks \in Seq(CtxTask(Len(said)))
      /\ mgr \in [Managers -> CtxMgr(Len(said))]
  BY DEF CtxTyped
<1>4. CASE AddAsksRedis(m)
  <2> DEFINE n == IF RedisTurns = <<>> THEN 0 ELSE Last(RedisTurns).turn
             a == IF n = 0 THEN "pg" ELSE "push"
             x == [mgr[m] EXCEPT !.n = n, !.add = a]
  <2>1. n \in 0..Len(said)
    <3>1. RedisTurns # <<>> => Last(RedisTurns) \in CtxReal(Len(said))
      BY <1>2 DEF Last
    <3> QED BY <1>1, <3>1 DEF CtxReal
  <2>2. mgr' = [mgr EXCEPT ![m].n = n, ![m].add = a] /\ UNCHANGED <<said, jobs, redisTasks, pgTasks, redis, pg>>
    BY <1>4 DEF AddAsksRedis
  <2>3. a \in {"no", "redis", "pg", "push"}
    OBVIOUS
  <2> HIDE DEF n, a
  <2>4. x \in CtxMgr(Len(said)) /\ MgrSet(m, x)
    BY <1>1, <1>3, <2>1, <2>2, <2>3 DEF CtxMgr, MgrSet
  <2> QED BY <1>3, <2>2, <2>4, MgrTyped
<1>5. CASE AddAsksPg(m)
  <2> DEFINE x == [mgr[m] EXCEPT !.n = PgLast, !.add = "push"]
  <2>1. mgr' = [mgr EXCEPT ![m].n = PgLast, ![m].add = "push"] /\ UNCHANGED <<said, jobs, redisTasks, pgTasks, redis, pg>>
    BY <1>5 DEF AddAsksPg
  <2>2. x \in CtxMgr(Len(said)) /\ MgrSet(m, x)
    BY <1>1, <1>2, <1>3, <2>1 DEF CtxMgr, MgrSet
  <2> QED BY <1>3, <2>1, <2>2, MgrTyped
<1>6. CASE LoadCold(m)
  <2> DEFINE data == IF mgr[m].sums = NoSummary THEN RedisSummary ELSE mgr[m].sums
             x == [mgr[m] EXCEPT !.load = "redis", !.data = data, !.sums = data]
  <2>1. data \in CtxSums(Len(said))
    BY <1>1, <1>2
  <2>2. mgr' = [mgr EXCEPT ![m].load = "redis", ![m].data = data, ![m].sums = data]
        /\ UNCHANGED <<said, jobs, redisTasks, pgTasks, redis, pg>>
    BY <1>6 DEF LoadCold
  <2> HIDE DEF data
  <2>3. x \in CtxMgr(Len(said)) /\ MgrSet(m, x)
    BY <1>1, <1>3, <2>1, <2>2 DEF CtxMgr, MgrSet
  <2> QED BY <1>3, <2>2, <2>3, MgrTyped
<1>7. CASE AddTurn(m) /\ ~(LastTurn(mgr[m].turns) > 0)
  <2> DEFINE x == [mgr[m] EXCEPT !.add = "redis"]
  <2>1. mgr' = [mgr EXCEPT ![m].add = "redis"] /\ UNCHANGED <<said, jobs, redisTasks, pgTasks, redis, pg>>
    BY <1>7 DEF AddTurn
  <2>2. x \in CtxMgr(Len(said)) /\ MgrSet(m, x)
    BY <1>1, <1>3, <2>1 DEF CtxMgr, MgrSet
  <2> QED BY <1>3, <2>1, <2>2, MgrTyped
<1> QED BY <1>4, <1>5, <1>6, <1>7

(* The loads, and what they read.                                          *)
Filled(m, rs, data) == [mgr[m] EXCEPT !.turns = rs, !.sums = data]

LEMMA FilledIn ==
  ASSUME CtxTyped, NEW m \in Managers, NEW rs \in Seq(CtxReal(Len(said))), NEW data \in CtxSums(Len(said))
  PROVE /\ Filled(m, rs, data) \in CtxMgr(Len(said)) /\ rs \in Seq(CtxRecords(Len(said)))
        /\ Filled(m, rs, data).turns = rs /\ Filled(m, rs, data).sums = data
        /\ Filled(m, rs, data).open = mgr[m].open /\ Filled(m, rs, data).add = mgr[m].add
        /\ Filled(m, rs, data).n = mgr[m].n
<1>1. mgr[m] \in CtxMgr(Len(said)) /\ Len(said) \in Nat
  BY MgrIn
<1>2. rs \in Seq(CtxRecords(Len(said)))
  BY <1>1, CtxGrows, SeqMonotonic
<1> QED BY <1>1, <1>2 DEF Filled, CtxMgr

RedisLoad(m) == LastN(After(RedisTurns, mgr[m].data.end), Window)

LEMMA LoadsRead ==
  ASSUME CtxTyped, NEW m \in Managers
  PROVE /\ RedisLoad(m) \in Seq(CtxReal(Len(said)))
        /\ PgSummary(mgr[m].data) \in CtxSums(Len(said)) /\ PgSummary(mgr[m].data).end \in Nat
        /\ PgTurns(PgSummary(mgr[m].data).end) \in Seq(CtxReal(Len(said)))
<1>1. RedisTurns \in Seq(CtxRecords(Len(said))) /\ mgr[m].data \in CtxSums(Len(said)) /\ mgr[m].data.end \in Nat
      /\ Len(said) \in Nat
  BY MgrIn, RedisFacts
<1>2. RedisLoad(m) \in Seq(CtxReal(Len(said)))
  BY <1>1, AfterIn, LastNFacts, CtxBounds DEF RedisLoad
<1>3. PgSummary(mgr[m].data) \in CtxSums(Len(said))
  BY <1>1, PgSummaryFacts
<1>4. PgSummary(mgr[m].data).end \in Nat
  BY <1>3 DEF CtxSums
<1> QED BY <1>2, <1>3, <1>4, PgTurnsFacts

LEMMA LoadTyped ==
  ASSUME CtxTyped, NEW m \in Managers, LoadWarm(m) \/ LoadRedis(m) \/ LoadPg(m)
  PROVE CtxTyped'
<1> DEFINE u == Len(said)
<1>1. mgr[m] \in CtxMgr(u) /\ u \in Nat /\ mgr[m].sums \in CtxSums(u) /\ mgr[m].turns \in Seq(CtxRecords(u))
      /\ mgr[m].data \in CtxSums(u)
  BY MgrIn
<1>2. jobs \subseteq CtxJob(u) /\ redisTasks \in Seq(CtxTask(u)) /\ mgr \in [Managers -> CtxMgr(u)]
  BY DEF CtxTyped
<1>3. ASSUME NEW memory \in CtxMgr(u), NEW data \in CtxSums(u), NEW rs \in Seq(CtxRecords(u)),
             Finish(m, memory, data, rs), redisTasks' \in Seq(CtxTask(u)), UNCHANGED <<said, pgTasks, redis, pg>>
      PROVE CtxTyped'
  BY <1>3, FinishDoes, MgrTyped
<1>4. CASE LoadWarm(m)
  <2>1. Hot(mgr[m].turns, Window) \in Seq(CtxRecords(u))
    BY <1>1, HotFacts
  <2>2. Finish(m, mgr[m], mgr[m].sums, Hot(mgr[m].turns, Window)) /\ UNCHANGED <<said, redisTasks, pgTasks, redis, pg>>
    BY <1>4 DEF LoadWarm
  <2>3. redisTasks' \in Seq(CtxTask(u)) /\ UNCHANGED <<said, pgTasks, redis, pg>>
    BY <1>2, <2>2
  <2> HIDE DEF u
  <2> QED BY <1>1, <1>3, <2>1, <2>2, <2>3
<1>5. CASE LoadRedis(m)
  <2> DEFINE rs == RedisLoad(m)
             x == [mgr[m] EXCEPT !.load = "pg"]
  <2>1. rs \in Seq(CtxReal(u)) /\ Filled(m, rs, mgr[m].data) \in CtxMgr(u) /\ rs \in Seq(CtxRecords(u))
    BY <1>1, LoadsRead, FilledIn
  <2>2. /\ rs = <<>> => mgr' = [mgr EXCEPT ![m].load = "pg"] /\ UNCHANGED jobs
        /\ rs # <<>> => Finish(m, Filled(m, rs, mgr[m].data), mgr[m].data, rs)
        /\ UNCHANGED <<said, redisTasks, pgTasks, redis, pg>>
    BY <1>5 DEF LoadRedis, RedisLoad, Filled
  <2> HIDE DEF rs
  <2>3. CASE rs = <<>>
    <3>1. x \in CtxMgr(u) /\ MgrSet(m, x)
      BY <1>1, <1>2, <2>2, <2>3 DEF CtxMgr, MgrSet
    <3>2. jobs' \subseteq CtxJob(u) /\ redisTasks' \in Seq(CtxTask(u)) /\ UNCHANGED <<said, pgTasks, redis, pg>>
      BY <1>2, <2>2, <2>3
    <3> QED BY <3>1, <3>2, MgrTyped
  <2>4. CASE rs # <<>>
    <3>1. redisTasks' \in Seq(CtxTask(u)) /\ UNCHANGED <<said, pgTasks, redis, pg>>
      BY <1>2, <2>2
    <3> HIDE DEF u
    <3> QED BY <1>1, <1>3, <2>1, <2>2, <2>4, <3>1
  <2> QED BY <2>3, <2>4
<1>6. CASE LoadPg(m)
  <2> DEFINE data == PgSummary(mgr[m].data)
             rs == PgTurns(data.end)
  <2>1. data \in CtxSums(u) /\ rs \in Seq(CtxReal(u))
    BY LoadsRead
  <2>2. /\ rs = <<>> => Finish(m, mgr[m], data, rs) /\ UNCHANGED redisTasks
        /\ rs # <<>> => Finish(m, Filled(m, rs, data), data, rs)
                        /\ redisTasks' = Append(redisTasks, Rewarm(data, rs))
        /\ UNCHANGED <<said, pgTasks, redis, pg>>
    BY <1>6 DEF LoadPg, Filled
  <2> HIDE DEF data, rs
  <2>3. Filled(m, rs, data) \in CtxMgr(u) /\ rs \in Seq(CtxRecords(u))
    BY <1>1, <2>1, FilledIn
  <2>4. redisTasks' \in Seq(CtxTask(u)) /\ UNCHANGED <<said, pgTasks, redis, pg>>
    <3>1. Rewarm(data, rs) \in CtxTask(u)
      BY <1>1, <2>1, RewarmIn
    <3> QED BY <1>2, <2>2, <3>1
  <2> HIDE DEF u
  <2> QED BY <1>1, <1>3, <2>1, <2>2, <2>3, <2>4
<1> QED BY <1>4, <1>5, <1>6

LEMMA CompressDoes ==
  ASSUME CtxTyped, NEW job \in jobs, Compress(job)
  PROVE /\ UNCHANGED <<mgr, said, redis, pg>> /\ jobs' \subseteq jobs
        /\ \/ UNCHANGED <<redisTasks, pgTasks>>
           \/ \E s \in CtxSums(Len(said)) :
                /\ redisTasks' = Append(redisTasks, <<[put |-> "summary", what |-> s]>>)
                /\ pgTasks' = Append(pgTasks, <<[put |-> "summary", what |-> s]>>)
<1>1. UNCHANGED <<mgr, said, redis, pg>> /\ jobs' \subseteq jobs
  BY DEF Compress
<1>2. CASE Real(job.records) = <<>>
  BY <1>1, <1>2 DEF Compress
<1>3. CASE Real(job.records) # <<>>
  <2>1. PICK ok \in BOOLEAN, enough \in BOOLEAN :
          LET put == <<[put |-> "summary", what |-> Compressed(job, ok, enough)]>> IN
          redisTasks' = Append(redisTasks, put) /\ pgTasks' = Append(pgTasks, put)
    BY <1>3 DEF Compress
  <2>2. Compressed(job, ok, enough) \in CtxSums(Len(said))
    BY <1>3, CompressedIn
  <2> QED BY <1>1, <2>1, <2>2
<1> QED BY <1>2, <1>3

LEMMA CompressTyped == ASSUME CtxTyped, NEW job \in jobs, Compress(job) PROVE CtxTyped'
<1>1. /\ UNCHANGED <<mgr, said, redis, pg>> /\ jobs' \subseteq jobs
      /\ \/ UNCHANGED <<redisTasks, pgTasks>>
         \/ \E s \in CtxSums(Len(said)) :
              /\ redisTasks' = Append(redisTasks, <<[put |-> "summary", what |-> s]>>)
              /\ pgTasks' = Append(pgTasks, <<[put |-> "summary", what |-> s]>>)
  BY CompressDoes
<1>2. Len(said) \in Nat /\ redisTasks \in Seq(CtxTask(Len(said))) /\ pgTasks \in Seq(CtxTask(Len(said)))
  BY DEF CtxTyped
<1>3. redisTasks' \in Seq(CtxTask(Len(said))) /\ pgTasks' \in Seq(CtxTask(Len(said)))
  <2>1. ASSUME NEW s \in CtxSums(Len(said)), NEW tasks \in Seq(CtxTask(Len(said)))
        PROVE Append(tasks, <<[put |-> "summary", what |-> s]>>) \in Seq(CtxTask(Len(said)))
    <3>1. [put |-> "summary", what |-> s] \in CtxWrites(Len(said))
      BY DEF CtxWrites
    <3> QED BY <1>2, <3>1, TasksIn
  <2> QED BY <1>1, <1>2, <2>1
<1> QED BY <1>1, <1>3 DEF CtxTyped

LEMMA WriteIs ==
  ASSUME NEW u \in Nat, NEW w \in CtxWrites(u)
  PROVE (w.put = "turn" /\ w.what \in CtxReal(u)) \/ (w.put = "summary" /\ w.what \in CtxSums(u))
BY DEF CtxWrites

LEMMA RedisWriteTyped == ASSUME CtxTyped, NEW i \in DOMAIN redisTasks, RedisWrite(i) PROVE CtxTyped'
<1> DEFINE u == Len(said)
           w == Head(redisTasks[i])
<1>1. u \in Nat /\ redisTasks \in Seq(CtxTask(u)) /\ redis.turns \in Seq(CtxReal(u)) /\ redis.sum \in CtxSums(u)
      /\ redis \in [turns : Seq(CtxReal(u)), sum : CtxSums(u)]
  BY DEF CtxTyped
<1> HIDE DEF u
<1>2. Advance(redisTasks, i) \in Seq(CtxTask(u)) /\ w \in CtxWrites(u)
  BY <1>1, AdvanceIn
<1>3. /\ redisTasks' = Advance(redisTasks, i) /\ UNCHANGED <<mgr, said, jobs, pgTasks, pg>>
      /\ \/ redis' = redis
         \/ w.put = "turn" /\ redis' = [redis EXCEPT !.turns = LastN(Append(redis.turns, w.what), Window)]
         \/ w.put # "turn" /\ redis' = [redis EXCEPT !.sum = w.what]
  BY <1>1 DEF RedisWrite
<1> HIDE DEF w
<1>4. ASSUME w.what \in CtxReal(u) PROVE LastN(Append(redis.turns, w.what), Window) \in Seq(CtxReal(u))
  <2>1. Append(redis.turns, w.what) \in Seq(CtxReal(u))
    BY <1>1, <1>4
  <2> QED BY <2>1, LastNFacts, CtxBounds
<1>5. redis' \in [turns : Seq(CtxReal(u)), sum : CtxSums(u)]
  <2> DEFINE t == LastN(Append(redis.turns, w.what), Window)
  <2> HIDE DEF t
  <2>1. w.put = "turn" => t \in Seq(CtxReal(u))
    BY <1>1, <1>2, <1>4, WriteIs DEF t
  <2>2. w.put # "turn" => w.what \in CtxSums(u)
    BY <1>1, <1>2, WriteIs
  <2>3. \/ redis' = redis
        \/ w.put = "turn" /\ redis' = [redis EXCEPT !.turns = t]
        \/ w.put # "turn" /\ redis' = [redis EXCEPT !.sum = w.what]
    BY <1>3 DEF t
  <2> QED BY <1>1, <2>1, <2>2, <2>3
<1>6. redisTasks' \in Seq(CtxTask(u))
  BY <1>2, <1>3
<1> QED BY <1>3, <1>5, <1>6 DEF CtxTyped, u

LEMMA PgWriteTyped == ASSUME CtxTyped, NEW i \in DOMAIN pgTasks, PgWrite(i) PROVE CtxTyped'
<1> DEFINE u == Len(said)
           w == Head(pgTasks[i])
<1>1. u \in Nat /\ pgTasks \in Seq(CtxTask(u)) /\ pg.rows \subseteq CtxReal(u) /\ pg.sums \subseteq CtxSums(u)
      /\ pg \in [rows : SUBSET CtxReal(u), sums : SUBSET CtxSums(u)]
  BY DEF CtxTyped
<1> HIDE DEF u
<1>2. Advance(pgTasks, i) \in Seq(CtxTask(u)) /\ w \in CtxWrites(u)
  BY <1>1, AdvanceIn
<1>3. /\ pgTasks' = Advance(pgTasks, i) /\ UNCHANGED <<mgr, said, jobs, redisTasks, redis>>
      /\ \/ pg' = pg
         \/ w.put = "turn" /\ pg' = [pg EXCEPT !.rows = WithRow(pg.rows, w.what)]
         \/ w.put # "turn" /\ pg' = [pg EXCEPT !.sums = WithSummaryRow(pg.sums, w.what)]
  BY <1>1 DEF PgWrite
<1> HIDE DEF w
<1>4. /\ w.put = "turn" => WithRow(pg.rows, w.what) \subseteq CtxReal(u)
      /\ w.put # "turn" => WithSummaryRow(pg.sums, w.what) \subseteq CtxSums(u)
  BY <1>1, <1>2, WriteIs DEF WithRow, WithSummaryRow
<1>5. pg' \in [rows : SUBSET CtxReal(u), sums : SUBSET CtxSums(u)]
  BY <1>1, <1>3, <1>4
<1>6. pgTasks' \in Seq(CtxTask(u))
  BY <1>2, <1>3
<1> QED BY <1>3, <1>5, <1>6 DEF CtxTyped, u

LEMMA ExpiresTyped == ASSUME CtxTyped, RedisExpires PROVE CtxTyped'
<1>1. Len(said) \in Nat
  BY DEF CtxTyped
<1>2. NoSummary \in CtxSums(Len(said)) /\ <<>> \in Seq(CtxReal(Len(said)))
  BY <1>1, CtxNothing
<1>3. redis' = [turns |-> <<>>, sum |-> NoSummary] /\ UNCHANGED <<mgr, said, jobs, redisTasks, pgTasks, pg>>
  BY DEF RedisExpires
<1> HIDE DEF NoSummary
<1> QED BY <1>2, <1>3 DEF CtxTyped

LEMMA CtxTypesBegin == ContextInit => CtxTyped
<1> SUFFICES ASSUME ContextInit PROVE CtxTyped
  OBVIOUS
<1>1. said = <<>> /\ Len(said) = 0 /\ said \in Seq(CtxRids) /\ Len(said) <= TurnCount
  BY CtxBounds DEF ContextInit
<1>2. Closed \in CtxMgr(0) /\ NoSummary \in CtxSums(0)
  BY CtxNothing
<1>3. mgr = [m \in Managers |-> Closed] /\ redis = [turns |-> <<>>, sum |-> NoSummary]
      /\ jobs = {} /\ redisTasks = <<>> /\ pgTasks = <<>> /\ pg = [rows |-> {}, sums |-> {}]
  BY DEF ContextInit
<1> HIDE DEF Closed, NoSummary
<1>4. mgr \in [Managers -> CtxMgr(0)]
  BY <1>2, <1>3
<1>5. redis \in [turns : Seq(CtxReal(0)), sum : CtxSums(0)]
  BY <1>2, <1>3
<1>6. redisTasks \in Seq(CtxTask(0)) /\ pgTasks \in Seq(CtxTask(0))
  BY <1>3
<1>7. pg \in [rows : SUBSET CtxReal(0), sums : SUBSET CtxSums(0)] /\ jobs \subseteq CtxJob(0)
  BY <1>3
<1> QED BY <1>1, <1>4, <1>5, <1>6, <1>7 DEF CtxTyped

LEMMA CtxTypesStep == CtxTyped /\ [ContextNext]_contextVars => CtxTyped'
<1> SUFFICES ASSUME CtxTyped, [ContextNext]_contextVars PROVE CtxTyped'
  OBVIOUS
<1>1. CASE UNCHANGED contextVars
  BY <1>1 DEF CtxTyped, contextVars
<1>2. ASSUME NEW m \in Managers, AddTurn(m) \/ AddCold(m) PROVE CtxTyped'
  <2>1. CASE AddTurn(m) /\ LastTurn(mgr[m].turns) > 0
    <3>1. UNCHANGED <<jobs, redis, pg>>
      BY <2>1 DEF AddTurn
    <3> QED BY <2>1, <3>1, AddsTurn, NewTurnTyped
  <2>2. CASE AddTurn(m) /\ ~(LastTurn(mgr[m].turns) > 0)
    BY <2>2, AskTyped
  <2>3. CASE AddCold(m)
    <3>1. UNCHANGED <<jobs, redis, pg>>
      BY <2>3 DEF AddCold
    <3> QED BY <2>3, <3>1, AddsTurn, NewTurnTyped
  <2> QED BY <1>2, <2>1, <2>2, <2>3
<1>3. CASE ContextNext
  <2>1. ASSUME NEW m \in Managers,
               \/ Open(m) \/ EndSession(m)
               \/ AddTurn(m) \/ AddAsksRedis(m) \/ AddAsksPg(m) \/ AddCold(m)
               \/ LoadWarm(m) \/ LoadCold(m) \/ LoadRedis(m) \/ LoadPg(m)
        PROVE CtxTyped'
    BY <1>2, <2>1, OpenTyped, AskTyped, LoadTyped
  <2> QED BY <1>3, <2>1, CompressTyped, RedisWriteTyped, PgWriteTyped, ExpiresTyped DEF ContextNext
<1> QED BY <1>1, <1>3

LEMMA CtxTypesMean == CtxTyped => ContextTypeOK
<1> SUFFICES ASSUME CtxTyped PROVE ContextTypeOK
  OBVIOUS
<1> DEFINE u == Len(said)
           v == TurnCount
<1>1. u \in Nat /\ v \in Nat /\ u <= v
  BY CtxBounds DEF CtxTyped
<1> HIDE DEF u, v
<1>2. CtxRecords(v) = Records /\ CtxSums(v) = Summaries
  BY DEF CtxRecords, CtxSums, CtxRids, Records, Summaries, TurnNumbers, Utterances, v
<1>3. CtxReal(u) \subseteq Records /\ CtxSums(u) \subseteq Summaries /\ CtxMgr(u) \subseteq CtxMgr(v) /\ CtxJob(u) \subseteq CtxJob(v)
  <2>1. CtxReal(v) \subseteq CtxRecords(v)
    BY <1>1, CtxGrows
  <2> QED BY <1>1, <1>2, <2>1, CtxGrows
<1>4. mgr \in [Managers -> CtxMgr(v)]
  BY <1>3 DEF CtxTyped, u
<1>5. CtxMgr(v) = [open : BOOLEAN, turns : Seq(Records), sums : Summaries,
        loaded : BOOLEAN, load : {"no", "redis", "pg"}, data : Summaries,
        add : {"no", "redis", "pg", "push"}, n : 0 .. TurnCount]
  BY <1>2 DEF CtxMgr, v
<1>6. \A job \in jobs : job.records \in Seq(Records) /\ job.l3 \subseteq Utterances
  BY <1>2, <1>3 DEF CtxTyped, CtxJob, Utterances, u, v
<1>7. redis.turns \in Seq(CtxReal(u)) /\ redis.sum \in CtxSums(u) /\ pg.sums \subseteq CtxSums(u) /\ pg.rows \subseteq CtxReal(u)
  BY DEF CtxTyped, u
<1>8. redis.turns \in Seq(Records)
  BY <1>3, <1>7, SeqMonotonic
<1>9. Virtual(redis.turns) = <<>>
  <2> DEFINE P == {i \in DOMAIN redis.turns : redis.turns[i].turn <= 0}
  <2>1. ASSUME NEW i \in 1..Len(redis.turns) PROVE i \notin P
    <3>1. redis.turns[i] \in CtxReal(u)
      BY <1>7
    <3>2. redis.turns[i].turn \in 1..u
      BY <3>1 DEF CtxReal
    <3> QED BY <1>1, <3>2
  <2> HIDE DEF P
  <2>2. Pick(redis.turns, P) = <<>>
    BY <1>7, <2>1, PickNone
  <2> QED BY <2>2 DEF Virtual, P
<1>10. \A r \in pg.rows : r \in Records /\ r.turn > 0
  <2>1. \A r \in CtxReal(u) : r.turn > 0
    BY DEF CtxReal
  <2> QED BY <1>3, <1>7, <2>1
<1> QED BY <1>3, <1>4, <1>5, <1>6, <1>7, <1>8, <1>9, <1>10 DEF ContextTypeOK, CtxTyped, CtxRids

LEMMA CtxAlwaysTyped == ContextSpec => []CtxTyped
BY CtxTypesBegin, CtxTypesStep, PTL DEF ContextSpec

(* Type correctness: no store holds a virtual record, and no number or text *)
(* is of an utterance that was not said.                                   *)
THEOREM ContextTypes == ContextSpec => []ContextTypeOK
BY CtxAlwaysTyped, CtxTypesMean, PTL

-----------------------------------------------------------------------------
(* What Postgres holds, and will hold when its tasks are done.             *)

(* The numbers and the anchors that Postgres has once the first k of its   *)
(* tasks are done, and the numbers behind every anchor.                    *)
NumsAt(rows, tasks, k) == {r.turn : r \in rows}
  \cup {tasks[i][1].what.turn : i \in {j \in 1..k : tasks[j][1].put = "turn"}}
AnchorsAt(sums, tasks, k) == {0} \cup {s.end : s \in sums}
  \cup {tasks[i][1].what.end : i \in {j \in 1..k : tasks[j][1].put = "summary"}}
FreshAt(rows, sums, tasks, k) ==
  {n \in NumsAt(rows, tasks, k) : \A a \in AnchorsAt(sums, tasks, k) : a < n}

(* A task is one write; what is behind the anchors fits the window at any  *)
(* time; a number to come is above all before it.                          *)
PgOk(rows, sums, tasks) ==
  /\ \A i \in 1..Len(tasks) : Len(tasks[i]) = 1
  /\ \A k \in 0..Len(tasks) : Cardinality(FreshAt(rows, sums, tasks, k)) <= Window
  /\ \A i \in 1..Len(tasks) : tasks[i][1].put = "turn" =>
       \A n \in NumsAt(rows, tasks, i - 1) : n < tasks[i][1].what.turn

PgTyped(u, rows, sums, tasks) ==
  u \in Nat /\ rows \subseteq CtxReal(u) /\ sums \subseteq CtxSums(u) /\ tasks \in Seq(CtxTask(u))

LEMMA PgTaskIs ==
  ASSUME NEW u \in Nat, NEW tasks \in Seq(CtxTask(u)), NEW i \in 1..Len(tasks)
  PROVE /\ tasks[i][1] \in CtxWrites(u)
        /\ tasks[i][1].put = "turn" => tasks[i][1].what \in CtxReal(u) /\ tasks[i][1].what.turn \in 1..u
        /\ tasks[i][1].put = "summary" => tasks[i][1].what \in CtxSums(u) /\ tasks[i][1].what.end \in 0..u
        /\ tasks[i][1].put \in {"turn", "summary"}
        /\ Head(tasks[i]) = tasks[i][1]
<1>1. tasks[i] \in Seq(CtxWrites(u)) /\ tasks[i] # <<>>
  BY DEF CtxTask
<1>2. tasks[i][1] \in CtxWrites(u) /\ Head(tasks[i]) = tasks[i][1]
  BY <1>1
<1> DEFINE w == tasks[i][1]
<1> HIDE DEF w
<1>3. w \in CtxWrites(u)
  BY <1>2 DEF w
<1>4. (w.put = "turn" /\ w.what \in CtxReal(u)) \/ (w.put = "summary" /\ w.what \in CtxSums(u))
  BY <1>3, WriteIs
<1>5. \A r \in CtxReal(u) : r.turn \in 1..u
  BY DEF CtxReal
<1>6. \A s \in CtxSums(u) : s.end \in 0..u
  BY DEF CtxSums
<1> QED BY <1>2, <1>4, <1>5, <1>6 DEF w

LEMMA PgNumbers ==
  ASSUME NEW u, NEW rows, NEW sums, NEW tasks, PgTyped(u, rows, sums, tasks), NEW k \in 0..Len(tasks)
  PROVE /\ NumsAt(rows, tasks, k) \subseteq 1..u /\ AnchorsAt(sums, tasks, k) \subseteq 0..u
        /\ FreshAt(rows, sums, tasks, k) \subseteq NumsAt(rows, tasks, k)
        /\ IsFiniteSet(FreshAt(rows, sums, tasks, k))
<1>1. u \in Nat /\ Len(tasks) \in Nat /\ tasks \in Seq(CtxTask(u))
  BY DEF PgTyped
<1>2. \A i \in 1..k : i \in 1..Len(tasks)
  BY <1>1
<1>3. \A r \in rows : r.turn \in 1..u
  BY DEF PgTyped, CtxReal
<1>4. \A s \in sums : s.end \in 0..u
  BY DEF PgTyped, CtxSums
<1>5. NumsAt(rows, tasks, k) \subseteq 1..u
  BY <1>1, <1>2, <1>3, PgTaskIs DEF NumsAt
<1>6. AnchorsAt(sums, tasks, k) \subseteq 0..u
  BY <1>1, <1>2, <1>4, PgTaskIs DEF AnchorsAt
<1>7. FreshAt(rows, sums, tasks, k) \subseteq NumsAt(rows, tasks, k)
  BY DEF FreshAt
<1>8. IsFiniteSet(1..u)
  BY <1>1, FS_Interval
<1>9. IsFiniteSet(FreshAt(rows, sums, tasks, k))
  <2> DEFINE F == FreshAt(rows, sums, tasks, k)
  <2>1. F \subseteq 1..u
    BY <1>5, <1>7
  <2> HIDE DEF F
  <2> QED BY <1>8, <2>1, FS_Subset DEF F
<1> QED BY <1>5, <1>6, <1>7, <1>9

(* One more task changes nothing of what the tasks before it leave.        *)
OneMore(u, rows, sums, tasks, w, more, l) ==
  /\ PgTyped(u, rows, sums, more) /\ Len(more) = l + 1 /\ l \in Nat
  /\ more[l + 1] = <<w>> /\ \A i \in 1..l : more[i] = tasks[i]
  /\ \A k \in 0..l : /\ NumsAt(rows, more, k) = NumsAt(rows, tasks, k)
                     /\ AnchorsAt(sums, more, k) = AnchorsAt(sums, tasks, k)
                     /\ FreshAt(rows, sums, more, k) = FreshAt(rows, sums, tasks, k)
  /\ NumsAt(rows, more, l + 1) =
       IF w.put = "turn" THEN NumsAt(rows, tasks, l) \cup {w.what.turn} ELSE NumsAt(rows, tasks, l)
  /\ AnchorsAt(sums, more, l + 1) =
       IF w.put = "summary" THEN AnchorsAt(sums, tasks, l) \cup {w.what.end} ELSE AnchorsAt(sums, tasks, l)

LEMMA AppendsTask ==
  ASSUME NEW u, NEW rows, NEW sums, NEW tasks, PgTyped(u, rows, sums, tasks), NEW w \in CtxWrites(u),
         NEW more, more = Append(tasks, <<w>>), NEW l, l = Len(tasks)
  PROVE OneMore(u, rows, sums, tasks, w, more, l)
<1>1. u \in Nat /\ tasks \in Seq(CtxTask(u)) /\ l \in Nat
  BY DEF PgTyped
<1>2. PgTyped(u, rows, sums, more)
  BY <1>1, TasksIn DEF PgTyped
<1>3. Len(more) = l + 1 /\ more[l + 1] = <<w>> /\ \A i \in 1..l : more[i] = tasks[i]
  BY <1>1
<1>4. ASSUME NEW k \in 0..l PROVE /\ NumsAt(rows, more, k) = NumsAt(rows, tasks, k)
                                  /\ AnchorsAt(sums, more, k) = AnchorsAt(sums, tasks, k)
  <2>1. \A i \in 1..k : more[i] = tasks[i]
    BY <1>1, <1>3
  <2> QED BY <2>1 DEF NumsAt, AnchorsAt
<1>5. \A k \in 0..l : FreshAt(rows, sums, more, k) = FreshAt(rows, sums, tasks, k)
  BY <1>4 DEF FreshAt
<1>6. \A i \in 1..(l + 1) : (i \in 1..l /\ more[i] = tasks[i]) \/ (i = l + 1 /\ more[i][1] = w)
  BY <1>1, <1>3
<1>7. \A i \in 1..l : i \in 1..(l + 1) /\ more[i] = tasks[i]
  BY <1>1, <1>3
<1>8. l + 1 \in 1..(l + 1) /\ more[l + 1][1] = w
  BY <1>1, <1>3
<1>9. NumsAt(rows, more, l + 1) =
        IF w.put = "turn" THEN NumsAt(rows, tasks, l) \cup {w.what.turn} ELSE NumsAt(rows, tasks, l)
  BY <1>6, <1>7, <1>8 DEF NumsAt
<1>10. AnchorsAt(sums, more, l + 1) =
         IF w.put = "summary" THEN AnchorsAt(sums, tasks, l) \cup {w.what.end} ELSE AnchorsAt(sums, tasks, l)
  BY <1>6, <1>7, <1>8 DEF AnchorsAt
<1> QED BY <1>1, <1>2, <1>3, <1>4, <1>5, <1>9, <1>10 DEF OneMore

LEMMA PgTakesTurn ==
  ASSUME NEW u, NEW rows, NEW sums, NEW tasks, PgTyped(u, rows, sums, tasks), NEW r \in CtxReal(u),
         PgOk(rows, sums, tasks), \A n \in NumsAt(rows, tasks, Len(tasks)) : n < r.turn,
         Cardinality(FreshAt(rows, sums, tasks, Len(tasks))) < Window
  PROVE LET more == Append(tasks, <<[put |-> "turn", what |-> r]>>) IN
        /\ PgOk(rows, sums, more)
        /\ NumsAt(rows, more, Len(more)) = NumsAt(rows, tasks, Len(tasks)) \cup {r.turn}
        /\ AnchorsAt(sums, more, Len(more)) = AnchorsAt(sums, tasks, Len(tasks))
        /\ FreshAt(rows, sums, more, Len(more)) \subseteq FreshAt(rows, sums, tasks, Len(tasks)) \cup {r.turn}
<1> DEFINE w == [put |-> "turn", what |-> r]
           more == Append(tasks, <<w>>)
           l == Len(tasks)
<1>1. w \in CtxWrites(u) /\ w.put = "turn" /\ w.what = r /\ w.put # "summary"
  BY DEF CtxWrites
<1> HIDE DEF w
<1>2. /\ PgTyped(u, rows, sums, more) /\ Len(more) = l + 1 /\ l \in Nat
      /\ more[l + 1] = <<w>> /\ \A i \in 1..l : more[i] = tasks[i]
      /\ \A k \in 0..l : /\ NumsAt(rows, more, k) = NumsAt(rows, tasks, k)
                         /\ AnchorsAt(sums, more, k) = AnchorsAt(sums, tasks, k)
                         /\ FreshAt(rows, sums, more, k) = FreshAt(rows, sums, tasks, k)
      /\ NumsAt(rows, more, l + 1) = NumsAt(rows, tasks, l) \cup {r.turn}
      /\ AnchorsAt(sums, more, l + 1) = AnchorsAt(sums, tasks, l)
  <2>1. /\ PgTyped(u, rows, sums, more) /\ Len(more) = l + 1 /\ l \in Nat
        /\ more[l + 1] = <<w>> /\ \A i \in 1..l : more[i] = tasks[i]
        /\ \A k \in 0..l : /\ NumsAt(rows, more, k) = NumsAt(rows, tasks, k)
                           /\ AnchorsAt(sums, more, k) = AnchorsAt(sums, tasks, k)
                           /\ FreshAt(rows, sums, more, k) = FreshAt(rows, sums, tasks, k)
        /\ NumsAt(rows, more, l + 1) =
             IF w.put = "turn" THEN NumsAt(rows, tasks, l) \cup {w.what.turn} ELSE NumsAt(rows, tasks, l)
        /\ AnchorsAt(sums, more, l + 1) =
             IF w.put = "summary" THEN AnchorsAt(sums, tasks, l) \cup {w.what.end} ELSE AnchorsAt(sums, tasks, l)
    <3>1. more = Append(tasks, <<w>>) /\ l = Len(tasks)
      OBVIOUS
    <3> HIDE DEF more, l
    <3>2. OneMore(u, rows, sums, tasks, w, more, l)
      BY <1>1, <3>1, AppendsTask
    <3> QED BY <3>2 DEF OneMore
  <2> HIDE DEF more, l
  <2>2. NumsAt(rows, more, l + 1) = NumsAt(rows, tasks, l) \cup {r.turn}
    BY <1>1, <2>1
  <2>3. AnchorsAt(sums, more, l + 1) = AnchorsAt(sums, tasks, l)
    BY <1>1, <2>1
  <2> QED BY <2>1, <2>2, <2>3
<1> HIDE DEF more, l
<1> DEFINE F == FreshAt(rows, sums, tasks, l)
<1>3. FreshAt(rows, sums, more, l + 1) \subseteq F \cup {r.turn}
  BY <1>2 DEF FreshAt
<1>4. IsFiniteSet(F) /\ Cardinality(F) < Window /\ Cardinality(F) \in Nat
  BY <1>2, PgNumbers, FS_CardinalityType DEF l
<1>5. Cardinality(FreshAt(rows, sums, more, l + 1)) <= Window
  <2> DEFINE G == FreshAt(rows, sums, more, l + 1)
  <2> HIDE DEF F, G
  <2>1. G \subseteq F \cup {r.turn}
    BY <1>3 DEF G
  <2>2. IsFiniteSet(F \cup {r.turn}) /\ Cardinality(F \cup {r.turn}) <= Cardinality(F) + 1
    <3>1. IsFiniteSet(F \cup {r.turn})
          /\ Cardinality(F \cup {r.turn}) = IF r.turn \in F THEN Cardinality(F) ELSE Cardinality(F) + 1
      BY <1>4, FS_AddElement
    <3> QED BY <1>4, <3>1
  <2>3. Cardinality(G) <= Cardinality(F \cup {r.turn}) /\ IsFiniteSet(G)
    BY <2>1, <2>2, FS_Subset
  <2>4. Cardinality(G) \in Nat /\ Cardinality(F \cup {r.turn}) \in Nat
    BY <2>2, <2>3, FS_CardinalityType
  <2> QED BY <1>4, <2>2, <2>3, <2>4, CtxBounds DEF G
<1>6. \A k \in 0..(l + 1) : k \in 0..l \/ k = l + 1
  BY <1>2
<1>7. \A i \in 1..(l + 1) : (i \in 1..l /\ i - 1 \in 0..l) \/ i = l + 1
  BY <1>2
<1>8. \A i \in 1..Len(more) : Len(more[i]) = 1
  <2>1. \A i \in 1..l : Len(tasks[i]) = 1
    BY DEF PgOk, l
  <2>2. Len(<<w>>) = 1
    OBVIOUS
  <2> QED BY <1>2, <1>7, <2>1, <2>2
<1>9. \A k \in 0..Len(more) : Cardinality(FreshAt(rows, sums, more, k)) <= Window
  BY <1>2, <1>5, <1>6 DEF PgOk, l
<1>10. ASSUME NEW i \in 1..Len(more), more[i][1].put = "turn", NEW n \in NumsAt(rows, more, i - 1)
       PROVE n < more[i][1].what.turn
  <2>1. CASE i \in 1..l
    BY <1>2, <1>7, <1>10, <2>1 DEF PgOk, l
  <2>2. CASE i = l + 1
    <3>1. more[i][1] = w /\ i - 1 = l /\ l \in 0..l
      BY <1>2, <2>2
    <3> QED BY <1>1, <1>2, <1>10, <3>1 DEF l
  <2> QED BY <1>2, <1>7, <2>1, <2>2
<1>11. PgOk(rows, sums, more)
  BY <1>8, <1>9, <1>10 DEF PgOk
<1> QED BY <1>2, <1>3, <1>11 DEF more, l, w

LEMMA PgTakesSummary ==
  ASSUME NEW u, NEW rows, NEW sums, NEW tasks, PgTyped(u, rows, sums, tasks), NEW s \in CtxSums(u),
         PgOk(rows, sums, tasks)
  PROVE LET more == Append(tasks, <<[put |-> "summary", what |-> s]>>) IN
        /\ PgOk(rows, sums, more)
        /\ NumsAt(rows, more, Len(more)) = NumsAt(rows, tasks, Len(tasks))
        /\ AnchorsAt(sums, more, Len(more)) = AnchorsAt(sums, tasks, Len(tasks)) \cup {s.end}
        /\ FreshAt(rows, sums, more, Len(more)) \subseteq FreshAt(rows, sums, tasks, Len(tasks))
<1> DEFINE w == [put |-> "summary", what |-> s]
           more == Append(tasks, <<w>>)
           l == Len(tasks)
<1>1. w \in CtxWrites(u) /\ w.put = "summary" /\ w.what = s /\ w.put # "turn"
  BY DEF CtxWrites
<1> HIDE DEF w
<1>2. /\ PgTyped(u, rows, sums, more) /\ Len(more) = l + 1 /\ l \in Nat
      /\ more[l + 1] = <<w>> /\ \A i \in 1..l : more[i] = tasks[i]
      /\ \A k \in 0..l : /\ NumsAt(rows, more, k) = NumsAt(rows, tasks, k)
                         /\ AnchorsAt(sums, more, k) = AnchorsAt(sums, tasks, k)
                         /\ FreshAt(rows, sums, more, k) = FreshAt(rows, sums, tasks, k)
      /\ NumsAt(rows, more, l + 1) = NumsAt(rows, tasks, l)
      /\ AnchorsAt(sums, more, l + 1) = AnchorsAt(sums, tasks, l) \cup {s.end}
  <2>1. /\ PgTyped(u, rows, sums, more) /\ Len(more) = l + 1 /\ l \in Nat
        /\ more[l + 1] = <<w>> /\ \A i \in 1..l : more[i] = tasks[i]
        /\ \A k \in 0..l : /\ NumsAt(rows, more, k) = NumsAt(rows, tasks, k)
                           /\ AnchorsAt(sums, more, k) = AnchorsAt(sums, tasks, k)
                           /\ FreshAt(rows, sums, more, k) = FreshAt(rows, sums, tasks, k)
        /\ NumsAt(rows, more, l + 1) =
             IF w.put = "turn" THEN NumsAt(rows, tasks, l) \cup {w.what.turn} ELSE NumsAt(rows, tasks, l)
        /\ AnchorsAt(sums, more, l + 1) =
             IF w.put = "summary" THEN AnchorsAt(sums, tasks, l) \cup {w.what.end} ELSE AnchorsAt(sums, tasks, l)
    <3>1. more = Append(tasks, <<w>>) /\ l = Len(tasks)
      OBVIOUS
    <3> HIDE DEF more, l
    <3>2. OneMore(u, rows, sums, tasks, w, more, l)
      BY <1>1, <3>1, AppendsTask
    <3> QED BY <3>2 DEF OneMore
  <2> HIDE DEF more, l
  <2>2. NumsAt(rows, more, l + 1) = NumsAt(rows, tasks, l)
    BY <1>1, <2>1
  <2>3. AnchorsAt(sums, more, l + 1) = AnchorsAt(sums, tasks, l) \cup {s.end}
    BY <1>1, <2>1
  <2> QED BY <2>1, <2>2, <2>3
<1> HIDE DEF more, l
<1> DEFINE F == FreshAt(rows, sums, tasks, l)
           G == FreshAt(rows, sums, more, l + 1)
<1>3. G \subseteq F
  BY <1>2 DEF FreshAt
<1>4. IsFiniteSet(F) /\ Cardinality(F) <= Window /\ Cardinality(F) \in Nat
  BY <1>2, PgNumbers, FS_CardinalityType DEF l, PgOk
<1>5. Cardinality(G) <= Window
  <2> HIDE DEF F, G
  <2>1. Cardinality(G) <= Cardinality(F) /\ IsFiniteSet(G)
    BY <1>3, <1>4, FS_Subset
  <2>2. Cardinality(G) \in Nat
    BY <2>1, FS_CardinalityType
  <2> QED BY <1>4, <2>1, <2>2, CtxBounds
<1>6. \A k \in 0..(l + 1) : k \in 0..l \/ k = l + 1
  BY <1>2
<1>7. \A i \in 1..(l + 1) : (i \in 1..l /\ i - 1 \in 0..l) \/ i = l + 1
  BY <1>2
<1>8. \A i \in 1..Len(more) : Len(more[i]) = 1
  <2>1. \A i \in 1..l : Len(tasks[i]) = 1
    BY DEF PgOk, l
  <2>2. Len(<<w>>) = 1
    OBVIOUS
  <2> QED BY <1>2, <1>7, <2>1, <2>2
<1>9. \A k \in 0..Len(more) : Cardinality(FreshAt(rows, sums, more, k)) <= Window
  BY <1>2, <1>5, <1>6 DEF PgOk, l
<1>10. ASSUME NEW i \in 1..Len(more), more[i][1].put = "turn", NEW n \in NumsAt(rows, more, i - 1)
       PROVE n < more[i][1].what.turn
  <2>1. CASE i \in 1..l
    BY <1>2, <1>7, <1>10, <2>1 DEF PgOk, l
  <2>2. CASE i = l + 1
    BY <1>1, <1>2, <1>10, <2>2
  <2> QED BY <1>2, <1>7, <2>1, <2>2
<1>11. PgOk(rows, sums, more)
  BY <1>8, <1>9, <1>10 DEF PgOk
<1> QED BY <1>2, <1>3, <1>11 DEF more, l, w

(* The first task is done: the others come one place earlier.              *)
LEMMA FirstDone ==
  ASSUME NEW u \in Nat, NEW tasks \in Seq(CtxTask(u)), tasks # <<>>, Len(tasks[1]) = 1
  PROVE /\ Len(Advance(tasks, 1)) = Len(tasks) - 1 /\ Len(tasks) \in Nat \ {0}
        /\ \A i \in 1..(Len(tasks) - 1) : Advance(tasks, 1)[i] = tasks[i + 1]
<1>1. Advance(tasks, 1) = SubSeq(tasks, 1, 1 - 1) \o SubSeq(tasks, 1 + 1, Len(tasks))
  BY DEF Advance, RemoveAt
<1> QED BY <1>1, FirstRemoved

(* Postgres writes: what it has after all its tasks stays the same.        *)
LEMMA PgWrites ==
  ASSUME NEW u, NEW rows, NEW sums, NEW tasks, PgTyped(u, rows, sums, tasks), PgOk(rows, sums, tasks),
         tasks # <<>>, NEW rows2, NEW sums2,
         IF tasks[1][1].put = "turn"
         THEN rows2 = WithRow(rows, tasks[1][1].what) /\ sums2 = sums
         ELSE rows2 = rows /\ sums2 = WithSummaryRow(sums, tasks[1][1].what)
  PROVE /\ PgOk(rows2, sums2, Advance(tasks, 1))
        /\ Len(Advance(tasks, 1)) = Len(tasks) - 1
        /\ \A i \in 1..(Len(tasks) - 1) : Advance(tasks, 1)[i] = tasks[i + 1]
        /\ NumsAt(rows2, Advance(tasks, 1), Len(tasks) - 1) = NumsAt(rows, tasks, Len(tasks))
        /\ AnchorsAt(sums2, Advance(tasks, 1), Len(tasks) - 1) = AnchorsAt(sums, tasks, Len(tasks))
        /\ FreshAt(rows2, sums2, Advance(tasks, 1), Len(tasks) - 1) = FreshAt(rows, sums, tasks, Len(tasks))
<1> DEFINE left == Advance(tasks, 1)
           l == Len(tasks)
           w == tasks[1][1]
<1>1. u \in Nat /\ tasks \in Seq(CtxTask(u)) /\ l \in Nat \ {0} /\ 1 \in 1..l
  BY DEF PgTyped
<1>2. Len(left) = l - 1 /\ \A i \in 1..(l - 1) : left[i] = tasks[i + 1]
  BY <1>1, FirstDone DEF PgOk
<1>3. w.put \in {"turn", "summary"} /\ (w.put = "turn" => w.what.turn \in 1..u)
  BY <1>1, PgTaskIs
<1>4. {r.turn : r \in rows2} = {r.turn : r \in rows} \cup (IF w.put = "turn" THEN {w.what.turn} ELSE {})
  BY DEF WithRow
<1>5. {s.end : s \in sums2} = {s.end : s \in sums} \cup (IF w.put = "turn" THEN {} ELSE {w.what.end})
  BY DEF WithSummaryRow
<1> HIDE DEF left, l, w
<1>6. ASSUME NEW k \in 0..(l - 1)
      PROVE /\ NumsAt(rows2, left, k) = NumsAt(rows, tasks, k + 1)
            /\ AnchorsAt(sums2, left, k) = AnchorsAt(sums, tasks, k + 1)
  <2>1. \A i \in 1..k : i + 1 \in 1..(k + 1) /\ left[i] = tasks[i + 1]
    BY <1>1, <1>2
  <2>2. \A i \in 1..(k + 1) : (i = 1 /\ tasks[i][1] = w) \/ (i - 1 \in 1..k /\ left[i - 1] = tasks[i])
    <3>1. ASSUME NEW i \in 1..(k + 1), i # 1 PROVE i - 1 \in 1..k /\ left[i - 1] = tasks[i]
      <4>1. i - 1 \in 1..k /\ i - 1 \in 1..(l - 1) /\ (i - 1) + 1 = i
        BY <1>1, <3>1
      <4> QED BY <1>2, <4>1
    <3> QED BY <3>1 DEF w
  <2>3. 1 \in 1..(k + 1) /\ tasks[1][1] = w
    BY <1>1 DEF w
  <2> DEFINE R2 == {r.turn : r \in rows2}
             R1 == {r.turn : r \in rows}
             S2 == {s.end : s \in sums2}
             S1 == {s.end : s \in sums}
  <2> HIDE DEF R1, R2, S1, S2
  <2>4. NumsAt(rows2, left, k) = NumsAt(rows, tasks, k + 1)
    <3>1. NumsAt(rows2, left, k) = R2 \cup {left[i][1].what.turn : i \in {j \in 1..k : left[j][1].put = "turn"}}
          /\ NumsAt(rows, tasks, k + 1) =
                R1 \cup {tasks[i][1].what.turn : i \in {j \in 1..(k + 1) : tasks[j][1].put = "turn"}}
      BY DEF NumsAt, R1, R2
    <3>2. R2 = R1 \cup (IF w.put = "turn" THEN {w.what.turn} ELSE {})
      BY <1>4 DEF R1, R2
    <3>3. ASSUME NEW n \in NumsAt(rows2, left, k) PROVE n \in NumsAt(rows, tasks, k + 1)
      BY <2>1, <2>3, <3>1, <3>2
    <3>4. ASSUME NEW n \in NumsAt(rows, tasks, k + 1) PROVE n \in NumsAt(rows2, left, k)
      BY <2>2, <3>1, <3>2
    <3> QED BY <3>3, <3>4
  <2>5. AnchorsAt(sums2, left, k) = AnchorsAt(sums, tasks, k + 1)
    <3>1. AnchorsAt(sums2, left, k) =
                {0} \cup S2 \cup {left[i][1].what.end : i \in {j \in 1..k : left[j][1].put = "summary"}}
          /\ AnchorsAt(sums, tasks, k + 1) =
                {0} \cup S1 \cup {tasks[i][1].what.end : i \in {j \in 1..(k + 1) : tasks[j][1].put = "summary"}}
      BY DEF AnchorsAt, S1, S2
    <3>2. S2 = S1 \cup (IF w.put = "turn" THEN {} ELSE {w.what.end})
      BY <1>5 DEF S1, S2
    <3>3. ASSUME NEW n \in AnchorsAt(sums2, left, k) PROVE n \in AnchorsAt(sums, tasks, k + 1)
      BY <1>3, <2>1, <2>3, <3>1, <3>2
    <3>4. ASSUME NEW n \in AnchorsAt(sums, tasks, k + 1) PROVE n \in AnchorsAt(sums2, left, k)
      BY <1>3, <2>2, <3>1, <3>2
    <3> QED BY <3>3, <3>4
  <2> QED BY <2>4, <2>5
<1>7. \A k \in 0..(l - 1) : FreshAt(rows2, sums2, left, k) = FreshAt(rows, sums, tasks, k + 1)
  BY <1>6 DEF FreshAt
<1>8. \A i \in 1..(l - 1) : Len(left[i]) = 1
  <2>1. \A i \in 1..(l - 1) : i + 1 \in 1..l
    BY <1>1
  <2> QED BY <1>2, <2>1 DEF PgOk, l
<1>9. \A k \in 0..(l - 1) : Cardinality(FreshAt(rows2, sums2, left, k)) <= Window
  <2>1. \A k \in 0..(l - 1) : k + 1 \in 0..l
    BY <1>1
  <2> QED BY <1>7, <2>1 DEF PgOk, l
<1>10. ASSUME NEW i \in 1..(l - 1), left[i][1].put = "turn", NEW n \in NumsAt(rows2, left, i - 1)
       PROVE n < left[i][1].what.turn
  <2>1. i + 1 \in 1..l /\ i - 1 \in 0..(l - 1) /\ (i - 1) + 1 = i /\ (i + 1) - 1 = i
    BY <1>1
  <2>2. n \in NumsAt(rows, tasks, i) /\ tasks[i + 1][1].put = "turn" /\ left[i] = tasks[i + 1]
    BY <1>2, <1>6, <1>10, <2>1
  <2> QED BY <2>1, <2>2 DEF PgOk, l
<1>11. PgOk(rows2, sums2, left)
  BY <1>2, <1>8, <1>9, <1>10 DEF PgOk
<1>12. l - 1 \in 0..(l - 1) /\ (l - 1) + 1 = l
  BY <1>1
<1>13. NumsAt(rows2, left, l - 1) = NumsAt(rows, tasks, l)
       /\ AnchorsAt(sums2, left, l - 1) = AnchorsAt(sums, tasks, l)
       /\ FreshAt(rows2, sums2, left, l - 1) = FreshAt(rows, sums, tasks, l)
  BY <1>6, <1>7, <1>12
<1> QED BY <1>2, <1>11, <1>13 DEF left, l

-----------------------------------------------------------------------------
(* What the tasks of a store still have to write.                          *)

(* The numbers of the turns that tasks have still to write, in the order   *)
(* in which they will, and the anchors of the summaries.                   *)
CtxAt(tasks, i, k) == i \in 1..Len(tasks) /\ k \in 1..Len(tasks[i])
CtxTurnAt(tasks, i, k) == CtxAt(tasks, i, k) /\ tasks[i][k].put = "turn"
CtxDue(tasks) == {n \in Nat : \E i \in Nat, k \in Nat :
                    CtxTurnAt(tasks, i, k) /\ tasks[i][k].what.turn = n}
CtxAscends(tasks) == \A i \in Nat, k \in Nat, j \in Nat, l \in Nat :
  CtxTurnAt(tasks, i, k) /\ CtxTurnAt(tasks, j, l) /\ (i < j \/ (i = j /\ k < l))
    => tasks[i][k].what.turn < tasks[j][l].what.turn
CtxEndsBelow(tasks, A) == \A i \in Nat, k \in Nat :
  CtxAt(tasks, i, k) /\ tasks[i][k].put = "summary" => \E a \in A : tasks[i][k].what.end <= a

CtxOwn(T) == {n \in Nat : \E k \in 1..Len(T) : T[k].put = "turn" /\ T[k].what.turn = n}

LEMMA DueIs ==
  ASSUME NEW u \in Nat, NEW tasks \in Seq(CtxTask(u)), NEW i \in Nat, NEW k \in Nat, CtxAt(tasks, i, k)
  PROVE /\ tasks[i][k].put \in {"turn", "summary"}
        /\ tasks[i][k].put = "turn" => tasks[i][k].what.turn \in 1..u /\ tasks[i][k].what.turn \in CtxDue(tasks)
        /\ tasks[i][k].put = "summary" => tasks[i][k].what.end \in 0..u
<1>1. tasks[i] \in Seq(CtxWrites(u))
  BY DEF CtxAt, CtxTask
<1>2. tasks[i][k] \in CtxWrites(u)
  BY <1>1 DEF CtxAt
<1> DEFINE w == tasks[i][k]
<1> HIDE DEF w
<1>3. (w.put = "turn" /\ w.what \in CtxReal(u)) \/ (w.put = "summary" /\ w.what \in CtxSums(u))
  BY <1>2, WriteIs DEF w
<1>4. w.put = "turn" => w.what.turn \in 1..u
  BY <1>3 DEF CtxReal
<1>5. w.put = "summary" => w.what.end \in 0..u
  BY <1>3 DEF CtxSums
<1>6. w.put = "turn" => w.what.turn \in CtxDue(tasks)
  BY <1>4 DEF CtxDue, CtxTurnAt, w
<1> QED BY <1>3, <1>4, <1>5, <1>6 DEF w

(* A task more.                                                            *)
LEMMA DueMore ==
  ASSUME NEW u \in Nat, NEW tasks \in Seq(CtxTask(u)), NEW T \in CtxTask(u), NEW own, own = CtxOwn(T)
  PROVE /\ CtxDue(Append(tasks, T)) = CtxDue(tasks) \cup own
        /\ /\ CtxAscends(tasks) /\ \A d \in CtxDue(tasks), o \in own : d < o
           /\ \A k, l \in 1..Len(T) : k < l /\ T[k].put = "turn" /\ T[l].put = "turn"
                => T[k].what.turn < T[l].what.turn
           => CtxAscends(Append(tasks, T))
        /\ \A A : /\ CtxEndsBelow(tasks, A)
                  /\ \A k \in 1..Len(T) : T[k].put = "summary" => \E a \in A : T[k].what.end <= a
                  => CtxEndsBelow(Append(tasks, T), A)
<1> DEFINE more == Append(tasks, T)
           l0 == Len(tasks)
<1>1. l0 \in Nat /\ Len(more) = l0 + 1 /\ more[l0 + 1] = T /\ \A i \in 1..l0 : more[i] = tasks[i]
  OBVIOUS
<1>2. more \in Seq(CtxTask(u)) /\ Len(T) \in Nat
  BY DEF CtxTask
<1> HIDE DEF more
<1>3. ASSUME NEW i \in Nat, NEW k \in Nat
      PROVE CtxAt(more, i, k) <=> CtxAt(tasks, i, k) \/ (i = l0 + 1 /\ k \in 1..Len(T))
  <2>1. i \in 1..Len(more) <=> i \in 1..l0 \/ i = l0 + 1
    BY <1>1
  <2>2. CASE i \in 1..l0
    BY <1>1, <2>1, <2>2 DEF CtxAt
  <2>3. CASE i = l0 + 1
    BY <1>1, <2>1, <2>3 DEF CtxAt
  <2>4. CASE i \notin 1..l0 /\ i # l0 + 1
    BY <2>1, <2>4 DEF CtxAt
  <2> QED BY <2>2, <2>3, <2>4
<1>4. \A i \in Nat, k \in Nat : CtxAt(tasks, i, k) => i < l0 + 1 /\ more[i] = tasks[i]
  BY <1>1 DEF CtxAt
<1>5. \A k \in 1..Len(T) : k \in Nat
  BY <1>2
<1>6. l0 + 1 \in Nat
  BY <1>1
<1> HIDE DEF l0
<1>7. CtxDue(more) = CtxDue(tasks) \cup own
  <2>1. ASSUME NEW n \in CtxDue(more) PROVE n \in CtxDue(tasks) \cup own
    <3>1. PICK i \in Nat, k \in Nat : CtxTurnAt(more, i, k) /\ more[i][k].what.turn = n /\ n \in Nat
      BY <2>1 DEF CtxDue
    <3> QED BY <1>1, <1>3, <1>4, <3>1 DEF CtxDue, CtxTurnAt, CtxOwn
  <2>2. ASSUME NEW n \in CtxDue(tasks) PROVE n \in CtxDue(more)
    <3>1. PICK i \in Nat, k \in Nat : CtxTurnAt(tasks, i, k) /\ tasks[i][k].what.turn = n /\ n \in Nat
      BY <2>2 DEF CtxDue
    <3> QED BY <1>3, <1>4, <3>1 DEF CtxDue, CtxTurnAt
  <2>3. ASSUME NEW n \in own PROVE n \in CtxDue(more)
    <3>1. PICK k \in 1..Len(T) : T[k].put = "turn" /\ T[k].what.turn = n /\ n \in Nat
      BY <2>3 DEF CtxOwn
    <3> QED BY <1>1, <1>3, <1>5, <1>6, <3>1 DEF CtxDue, CtxTurnAt
  <2> QED BY <2>1, <2>2, <2>3
<1>8. ASSUME CtxAscends(tasks), \A d \in CtxDue(tasks), o \in own : d < o,
             \A k, l \in 1..Len(T) : k < l /\ T[k].put = "turn" /\ T[l].put = "turn"
                => T[k].what.turn < T[l].what.turn
      PROVE CtxAscends(more)
  <2> SUFFICES ASSUME NEW i \in Nat, NEW k \in Nat, NEW j \in Nat, NEW l \in Nat,
                      CtxTurnAt(more, i, k), CtxTurnAt(more, j, l), i < j \/ (i = j /\ k < l)
               PROVE more[i][k].what.turn < more[j][l].what.turn
    BY DEF CtxAscends
  <2>1. CtxAt(more, i, k) /\ CtxAt(more, j, l) /\ more[i][k].put = "turn" /\ more[j][l].put = "turn"
    BY DEF CtxTurnAt
  <2>2. CASE CtxAt(tasks, i, k) /\ CtxAt(tasks, j, l)
    BY <1>4, <1>8, <2>1, <2>2 DEF CtxAscends, CtxTurnAt
  <2>3. CASE CtxAt(tasks, i, k) /\ j = l0 + 1 /\ l \in 1..Len(T)
    <3>1. more[i][k].what.turn \in CtxDue(tasks)
      BY <1>4, <2>1, <2>3, DueIs
    <3>2. more[j][l].what.turn \in own
      <4>1. more[j][l].what.turn \in Nat
        BY <1>2, <2>1, DueIs
      <4> QED BY <1>1, <2>1, <2>3, <4>1 DEF CtxOwn
    <3> QED BY <1>8, <3>1, <3>2
  <2>4. CASE i = l0 + 1 /\ k \in 1..Len(T) /\ j = l0 + 1 /\ l \in 1..Len(T)
    BY <1>1, <1>6, <1>8, <2>1, <2>4
  <2>5. CASE i = l0 + 1 /\ CtxAt(tasks, j, l)
    BY <1>4, <1>6, <2>5
  <2> QED BY <1>3, <2>1, <2>2, <2>3, <2>4, <2>5
<1>9. ASSUME NEW A, CtxEndsBelow(tasks, A), \A k \in 1..Len(T) : T[k].put = "summary" => \E a \in A : T[k].what.end <= a
      PROVE CtxEndsBelow(more, A)
  BY <1>1, <1>3, <1>4, <1>9 DEF CtxEndsBelow
<1> QED BY <1>7, <1>8, <1>9 DEF more

(* The first write is done: it was the least due.                          *)
LEMMA DueLess ==
  ASSUME NEW u \in Nat, NEW tasks \in Seq(CtxTask(u)), tasks # <<>>, NEW w, w = Head(tasks[1])
  PROVE /\ Advance(tasks, 1) \in Seq(CtxTask(u)) /\ CtxDue(Advance(tasks, 1)) \subseteq CtxDue(tasks)
        /\ CtxAscends(tasks) => CtxAscends(Advance(tasks, 1))
        /\ w.put = "turn" \/ w.put = "summary"
        /\ w.put = "turn" => w.what \in CtxReal(u) /\ w.what.turn \in CtxDue(tasks)
        /\ w.put = "summary" => w.what \in CtxSums(u) /\ CtxDue(Advance(tasks, 1)) = CtxDue(tasks)
        /\ CtxAscends(tasks) /\ w.put = "turn" =>
             /\ \A d \in CtxDue(tasks) : w.what.turn <= d
             /\ CtxDue(Advance(tasks, 1)) = CtxDue(tasks) \ {w.what.turn}
        /\ \A A : CtxEndsBelow(tasks, A) =>
             /\ CtxEndsBelow(Advance(tasks, 1), A)
             /\ w.put = "summary" => \E a \in A : w.what.end <= a
<1> DEFINE left == Advance(tasks, 1)
           l0 == Len(tasks)
           d0 == IF Len(tasks[1]) = 1 THEN 1 ELSE 0
           d1(i) == IF Len(tasks[1]) # 1 /\ i = 1 THEN 1 ELSE 0
<1>1. l0 \in Nat \ {0} /\ 1 \in DOMAIN tasks /\ 1 \in 1..l0
  OBVIOUS
<1>2. left \in Seq(CtxTask(u)) /\ w \in CtxWrites(u)
  BY <1>1, AdvanceIn
<1>3. tasks[1] \in Seq(CtxWrites(u)) /\ tasks[1] # <<>> /\ w = tasks[1][1] /\ Len(tasks[1]) \in Nat \ {0}
  BY <1>1 DEF CtxTask
<1>4. CtxAt(tasks, 1, 1)
  BY <1>1, <1>3 DEF CtxAt
(* The place of a write before.                                            *)
<1>5. ASSUME NEW i \in Nat, NEW k \in Nat
      PROVE /\ CtxAt(left, i, k) => /\ CtxAt(tasks, i + d0, k + d1(i)) /\ left[i][k] = tasks[i + d0][k + d1(i)]
                                    /\ ~(i + d0 = 1 /\ k + d1(i) = 1)
            /\ CtxAt(tasks, i, k) /\ ~(i = 1 /\ k = 1) =>
                 \E j \in Nat, l \in Nat : i = j + d0 /\ k = l + d1(j) /\ CtxAt(left, j, l)
  <2>1. CASE Len(tasks[1]) = 1
    <3>1. Len(left) = l0 - 1 /\ \A j \in 1..(l0 - 1) : left[j] = tasks[j + 1]
      BY <2>1, FirstDone
    <3>2. d0 = 1 /\ \A j : d1(j) = 0
      BY <2>1
    <3> HIDE DEF left, d0, d1
    <3>3. ASSUME CtxAt(left, i, k) PROVE CtxAt(tasks, i + 1, k) /\ left[i][k] = tasks[i + 1][k] /\ i + 1 # 1
      <4>1. i \in 1..(l0 - 1) /\ i + 1 \in 1..l0 /\ i + 1 # 1
        BY <1>1, <3>1, <3>3 DEF CtxAt
      <4> QED BY <3>1, <3>3, <4>1 DEF CtxAt
    <3>4. ASSUME CtxAt(tasks, i, k), ~(i = 1 /\ k = 1) PROVE \E j \in Nat : i = j + 1 /\ CtxAt(left, j, k)
      <4>1. i # 1
        BY <2>1, <3>4 DEF CtxAt
      <4>2. i - 1 \in 1..(l0 - 1) /\ i = (i - 1) + 1 /\ i - 1 \in Nat
        BY <1>1, <3>4, <4>1 DEF CtxAt
      <4>3. left[i - 1] = tasks[i]
        BY <3>1, <4>2
      <4>4. CtxAt(left, i - 1, k)
        BY <3>1, <3>4, <4>2, <4>3 DEF CtxAt
      <4> QED BY <4>2, <4>4
    <3>5. k + 0 = k
      OBVIOUS
    <3> QED BY <3>2, <3>3, <3>4, <3>5
  <2>2. CASE Len(tasks[1]) # 1
    <3>1. left = [tasks EXCEPT ![1] = Tail(tasks[1])]
      BY <2>2 DEF Advance, ReplaceAt
    <3>2. Len(left) = l0 /\ left[1] = Tail(tasks[1]) /\ \A j \in 2..l0 : left[j] = tasks[j]
      BY <1>1, <3>1
    <3>3. Len(Tail(tasks[1])) = Len(tasks[1]) - 1
          /\ \A j \in 1..(Len(tasks[1]) - 1) : Tail(tasks[1])[j] = tasks[1][j + 1]
      BY <1>3, HeadTailProperties
    <3>4. d0 = 0 /\ d1(1) = 1 /\ \A j : j # 1 => d1(j) = 0
      BY <2>2
    <3> HIDE DEF left, d0, d1
    <3>5. CASE i = 1
      <4>1. CtxAt(left, 1, k) <=> k \in 1..(Len(tasks[1]) - 1)
        BY <1>1, <3>2, <3>3 DEF CtxAt
      <4>2. CtxAt(left, 1, k) => CtxAt(tasks, 1, k + 1) /\ left[1][k] = tasks[1][k + 1] /\ k + 1 # 1
        BY <1>1, <1>3, <3>2, <3>3, <4>1 DEF CtxAt
      <4>3. ASSUME CtxAt(tasks, 1, k), k # 1 PROVE \E l \in Nat : k = l + 1 /\ CtxAt(left, 1, l)
        <5>1. k - 1 \in 1..(Len(tasks[1]) - 1) /\ k = (k - 1) + 1 /\ k - 1 \in Nat
          BY <1>3, <4>3 DEF CtxAt
        <5>2. CtxAt(left, 1, k - 1)
          BY <1>1, <3>2, <3>3, <5>1 DEF CtxAt
        <5> QED BY <5>1, <5>2
      <4>4. 1 + 0 = 1
        OBVIOUS
      <4> QED BY <3>4, <3>5, <4>2, <4>3, <4>4
    <3>6. CASE i # 1
      <4>1. i \in 1..l0 => i \in 2..l0
        BY <1>1, <3>6
      <4>2. CtxAt(left, i, k) <=> CtxAt(tasks, i, k)
        BY <3>2, <4>1 DEF CtxAt
      <4>3. CtxAt(left, i, k) => left[i][k] = tasks[i][k]
        BY <3>2, <4>1 DEF CtxAt
      <4>4. i + 0 = i /\ k + 0 = k
        OBVIOUS
      <4> QED BY <3>4, <3>6, <4>2, <4>3, <4>4
    <3> QED BY <3>5, <3>6
  <2> QED BY <2>1, <2>2
<1>6. d0 \in 0..1 /\ (\A i : d1(i) \in 0..1) /\ \A i \in Nat, j \in Nat : i < j => i + d0 < j + d0
  BY <1>3
<1> HIDE DEF left, d0, d1
<1>7. w.put \in {"turn", "summary"} /\ (w.put = "turn" => w.what.turn \in CtxDue(tasks))
  BY <1>3, <1>4, DueIs
<1>8. CtxDue(left) \subseteq CtxDue(tasks)
  <2>1. ASSUME NEW n \in CtxDue(left) PROVE n \in CtxDue(tasks)
    <3>1. PICK i \in Nat, k \in Nat : CtxTurnAt(left, i, k) /\ left[i][k].what.turn = n /\ n \in Nat
      BY <2>1 DEF CtxDue
    <3>2. i + d0 \in Nat /\ k + d1(i) \in Nat
      BY <1>6
    <3>3. CtxAt(tasks, i + d0, k + d1(i)) /\ left[i][k] = tasks[i + d0][k + d1(i)]
      BY <1>5, <3>1 DEF CtxTurnAt
    <3>4. CtxTurnAt(tasks, i + d0, k + d1(i)) /\ tasks[i + d0][k + d1(i)].what.turn = n
      BY <3>1, <3>3 DEF CtxTurnAt
    <3> QED BY <3>1, <3>2, <3>4 DEF CtxDue
  <2> QED BY <2>1
<1>9. ASSUME NEW n \in CtxDue(tasks), n \notin CtxDue(left) PROVE w.put = "turn" /\ n = w.what.turn
  <2>1. PICK i \in Nat, k \in Nat : CtxTurnAt(tasks, i, k) /\ tasks[i][k].what.turn = n /\ n \in Nat
    BY <1>9 DEF CtxDue
  <2>2. ASSUME ~(i = 1 /\ k = 1) PROVE FALSE
    <3>1. PICK j \in Nat, l \in Nat : i = j + d0 /\ k = l + d1(j) /\ CtxAt(left, j, l)
      BY <1>5, <2>1, <2>2 DEF CtxTurnAt
    <3>2. left[j][l] = tasks[i][k]
      BY <1>5, <3>1
    <3> QED BY <1>9, <2>1, <3>1, <3>2 DEF CtxDue, CtxTurnAt
  <2> QED BY <1>3, <2>1, <2>2 DEF CtxTurnAt
<1>10. ASSUME CtxAscends(tasks) PROVE CtxAscends(left)
  <2> SUFFICES ASSUME NEW i \in Nat, NEW k \in Nat, NEW j \in Nat, NEW l \in Nat,
                      CtxTurnAt(left, i, k), CtxTurnAt(left, j, l), i < j \/ (i = j /\ k < l)
               PROVE left[i][k].what.turn < left[j][l].what.turn
    BY DEF CtxAscends
  <2>1. CtxTurnAt(tasks, i + d0, k + d1(i)) /\ CtxTurnAt(tasks, j + d0, l + d1(j))
        /\ left[i][k] = tasks[i + d0][k + d1(i)] /\ left[j][l] = tasks[j + d0][l + d1(j)]
    BY <1>5 DEF CtxTurnAt
  <2>2. i + d0 \in Nat /\ k + d1(i) \in Nat /\ j + d0 \in Nat /\ l + d1(j) \in Nat
    BY <1>6
  <2>3. i + d0 < j + d0 \/ (i + d0 = j + d0 /\ k + d1(i) < l + d1(j))
    BY <1>6
  <2> QED BY <1>10, <2>1, <2>2, <2>3 DEF CtxAscends
<1>11. ASSUME CtxAscends(tasks), w.put = "turn"
       PROVE /\ \A d \in CtxDue(tasks) : w.what.turn <= d
             /\ \A d \in CtxDue(left) : w.what.turn < d
  <2>1. ASSUME NEW i \in Nat, NEW k \in Nat, CtxTurnAt(tasks, i, k), ~(i = 1 /\ k = 1)
        PROVE w.what.turn < tasks[i][k].what.turn
    <3>1. 1 < i \/ (1 = i /\ 1 < k)
      BY <2>1 DEF CtxTurnAt, CtxAt
    <3>2. CtxTurnAt(tasks, 1, 1) /\ w = tasks[1][1]
      BY <1>3, <1>4, <1>11 DEF CtxTurnAt
    <3> QED BY <1>11, <2>1, <3>1, <3>2 DEF CtxAscends
  <2>2. w.what.turn \in Nat
    BY <1>7, <1>11 DEF CtxDue
  <2>3. ASSUME NEW d \in CtxDue(tasks) PROVE w.what.turn <= d
    <3>1. PICK i \in Nat, k \in Nat : CtxTurnAt(tasks, i, k) /\ tasks[i][k].what.turn = d /\ d \in Nat
      BY <2>3 DEF CtxDue
    <3> QED BY <1>3, <2>1, <2>2, <3>1
  <2>4. ASSUME NEW d \in CtxDue(left) PROVE w.what.turn < d
    <3>1. PICK i \in Nat, k \in Nat : CtxTurnAt(left, i, k) /\ left[i][k].what.turn = d /\ d \in Nat
      BY <2>4 DEF CtxDue
    <3>2. i + d0 \in Nat /\ k + d1(i) \in Nat
      BY <1>6
    <3>3. CtxAt(tasks, i + d0, k + d1(i)) /\ left[i][k] = tasks[i + d0][k + d1(i)]
          /\ ~(i + d0 = 1 /\ k + d1(i) = 1)
      BY <1>5, <3>1 DEF CtxTurnAt
    <3>4. CtxTurnAt(tasks, i + d0, k + d1(i)) /\ tasks[i + d0][k + d1(i)].what.turn = d
      BY <3>1, <3>3 DEF CtxTurnAt
    <3> QED BY <2>1, <3>2, <3>3, <3>4
  <2> QED BY <2>3, <2>4
<1>12. ASSUME NEW A, CtxEndsBelow(tasks, A)
       PROVE CtxEndsBelow(left, A) /\ (w.put = "summary" => \E a \in A : w.what.end <= a)
  <2>1. w.put = "summary" => \E a \in A : w.what.end <= a
    BY <1>3, <1>4, <1>12 DEF CtxEndsBelow
  <2>2. ASSUME NEW i \in Nat, NEW k \in Nat, CtxAt(left, i, k), left[i][k].put = "summary"
        PROVE \E a \in A : left[i][k].what.end <= a
    <3>1. i + d0 \in Nat /\ k + d1(i) \in Nat
      BY <1>6
    <3>2. CtxAt(tasks, i + d0, k + d1(i)) /\ left[i][k] = tasks[i + d0][k + d1(i)]
      BY <1>5, <2>2
    <3>3. \E a \in A : tasks[i + d0][k + d1(i)].what.end <= a
      BY <1>12, <2>2, <3>1, <3>2 DEF CtxEndsBelow
    <3> QED BY <3>2, <3>3
  <2> QED BY <2>1, <2>2 DEF CtxEndsBelow
<1>13. CtxAscends(tasks) /\ w.put = "turn" => CtxDue(left) = CtxDue(tasks) \ {w.what.turn}
  <2> SUFFICES ASSUME CtxAscends(tasks), w.put = "turn" PROVE CtxDue(left) = CtxDue(tasks) \ {w.what.turn}
    OBVIOUS
  <2>1. w.what.turn \in Nat
    BY <1>7 DEF CtxDue
  <2>2. w.what.turn \notin CtxDue(left)
    BY <1>11, <2>1
  <2> QED BY <1>8, <1>9, <2>2
<1>14. (w.put = "turn" => w.what \in CtxReal(u)) /\ (w.put = "summary" => w.what \in CtxSums(u))
  BY <1>2, WriteIs
<1>15. w.put = "summary" => CtxDue(left) = CtxDue(tasks)
  <2>1. w.put = "summary" => w.put # "turn"
    OBVIOUS
  <2> QED BY <1>8, <1>9, <2>1
<1> QED BY <1>2, <1>7, <1>8, <1>10, <1>11, <1>12, <1>13, <1>14, <1>15 DEF left

-----------------------------------------------------------------------------
(* What Redis holds of it.                                                 *)

(* The list in Redis, t, while the numbers in D are still to be written to *)
(* it: N is all the numbers there are, F the ones behind every anchor.  A  *)
(* number that is too early in t comes again or is still due; what is      *)
(* written last is the newest; F is there, but for what a full list dropped.*)
RedisOrder(t, D, N) ==
  /\ Len(t) <= Window /\ D \subseteq N /\ \A i \in 1..Len(t) : t[i].turn \in N
  /\ \A i, j \in 1..Len(t) : i < j /\ t[j].turn < t[i].turn =>
       t[i].turn \in D \/ \E k \in 1..Len(t) : j < k /\ t[k].turn = t[i].turn
  /\ \A i \in 1..Len(t) : \A d \in D : d < t[i].turn => t[i].turn \in D
RedisNewest(t, D, N) ==
  /\ D # {} => \E d \in D : \A n \in N : n <= d
  /\ D = {} /\ t # <<>> => \A n \in N : n <= t[Len(t)].turn
RedisCovers(t, D, F) == D # {} \/ t # <<>> => \A n \in F :
  \/ n \in D \/ \E i \in 1..Len(t) : t[i].turn = n
  \/ Len(t) = Window /\ (\A d \in D : n < d) /\ \A i \in 1..Len(t) : n < t[i].turn
RedisOk(t, D, N, F) == RedisOrder(t, D, N) /\ RedisNewest(t, D, N) /\ RedisCovers(t, D, F)

LEMMA RedisFewer ==
  ASSUME NEW t, NEW D, NEW N, NEW F, NEW G, RedisOk(t, D, N, F), G \subseteq F
  PROVE RedisOk(t, D, N, G)
BY DEF RedisOk, RedisCovers

LEMMA RedisEmpty ==
  ASSUME NEW N, NEW F
  PROVE RedisOk(<<>>, {}, N, F)
<1>1. Len(<<>>) = 0 /\ 0 <= Window
  BY CtxBounds
<1> QED BY <1>1 DEF RedisOk, RedisOrder, RedisNewest, RedisCovers

(* A turn is said.                                                         *)
LEMMA RedisTakesTurn ==
  ASSUME NEW A, NEW t \in Seq(A), NEW D, NEW N, N \subseteq Nat, NEW F, F \subseteq N, RedisOk(t, D, N, F),
         NEW n \in Nat, \A x \in N : x < n, NEW G, G \subseteq F \cup {n},
         t = <<>> /\ D = {} => F = {}
  PROVE RedisOk(t, D \cup {n}, N \cup {n}, G)
<1> DEFINE E == D \cup {n}
           M == N \cup {n}
<1>1. RedisOrder(t, E, M)
  <2>1. Len(t) <= Window /\ E \subseteq M /\ \A i \in 1..Len(t) : t[i].turn \in N /\ t[i].turn \in M
    BY DEF RedisOk, RedisOrder
  <2>2. \A i, j \in 1..Len(t) : i < j /\ t[j].turn < t[i].turn =>
          t[i].turn \in E \/ \E k \in 1..Len(t) : j < k /\ t[k].turn = t[i].turn
    BY DEF RedisOk, RedisOrder
  <2>3. ASSUME NEW i \in 1..Len(t), NEW d \in E, d < t[i].turn PROVE t[i].turn \in E
    <3>1. CASE d = n
      <4>1. t[i].turn \in Nat /\ t[i].turn < n
        BY <2>1
      <4> QED BY <2>3, <3>1, <4>1
    <3>2. CASE d \in D
      BY <2>3, <3>2 DEF RedisOk, RedisOrder
    <3> QED BY <3>1, <3>2
  <2> QED BY <2>1, <2>2, <2>3 DEF RedisOrder
<1>2. RedisNewest(t, E, M)
  <2>1. n \in E /\ \A x \in M : x <= n
    OBVIOUS
  <2> QED BY <2>1 DEF RedisNewest
<1>3. RedisCovers(t, E, G)
  <2>1. ASSUME NEW x \in G, x # n
        PROVE \/ x \in E \/ \E i \in 1..Len(t) : t[i].turn = x
              \/ Len(t) = Window /\ (\A d \in E : x < d) /\ \A i \in 1..Len(t) : x < t[i].turn
    <3>1. x \in F /\ x < n
      BY <2>1
    <3>2. D # {} \/ t # <<>>
      BY <3>1
    <3> QED BY <3>1, <3>2 DEF RedisOk, RedisCovers
  <2> QED BY <2>1 DEF RedisCovers
<1> QED BY <1>1, <1>2, <1>3 DEF RedisOk

(* Postgres warms Redis up again.                                          *)
LEMMA RedisIsWarmed ==
  ASSUME NEW A, NEW t \in Seq(A), NEW N, N \subseteq Nat, NEW F, NEW G, RedisOk(t, {}, N, F),
         NEW D, NEW e, D = {x \in N : e < x}, e \in Nat, G \subseteq D,
         \E d \in D : \A n \in N : n <= d
  PROVE RedisOk(t, D, N, G)
<1>1. RedisOrder(t, D, N)
  <2>1. Len(t) <= Window /\ D \subseteq N /\ \A i \in 1..Len(t) : t[i].turn \in N
    BY DEF RedisOk, RedisOrder
  <2>2. \A i, j \in 1..Len(t) : i < j /\ t[j].turn < t[i].turn =>
          t[i].turn \in D \/ \E k \in 1..Len(t) : j < k /\ t[k].turn = t[i].turn
    BY DEF RedisOk, RedisOrder
  <2>3. ASSUME NEW i \in 1..Len(t), NEW d \in D, d < t[i].turn PROVE t[i].turn \in D
    <3>1. t[i].turn \in N /\ t[i].turn \in Nat /\ d \in Nat /\ e < d
      BY <2>1
    <3>2. e < t[i].turn
      BY <2>3, <3>1
    <3> QED BY <3>1, <3>2
  <2> QED BY <2>1, <2>2, <2>3 DEF RedisOrder
<1>2. RedisNewest(t, D, N)
  BY DEF RedisNewest
<1>3. RedisCovers(t, D, G)
  BY DEF RedisCovers
<1> QED BY <1>1, <1>2, <1>3 DEF RedisOk

(* The least number that is due is written.                                *)
LEMMA RedisTakes ==
  ASSUME NEW A, NEW t \in Seq(A), NEW w \in A, NEW D, NEW N, N \subseteq Nat, NEW F, F \subseteq N,
         RedisOk(t, D, N, F), w.turn \in D, \A d \in D : w.turn <= d
  PROVE /\ RedisOk(LastN(Append(t, w), Window), D \ {w.turn}, N, F)
        /\ LastN(Append(t, w), Window) # <<>>
<1> DEFINE a == Append(t, w)
           v == LastN(a, Window)
           q == Len(t)
           s == IF q = Window THEN 1 ELSE 0
           E == D \ {w.turn}
           x == w.turn
<1>1. Window \in Nat /\ Window >= 1 /\ q \in Nat /\ q <= Window
  BY CtxBounds DEF RedisOk, RedisOrder
<1>2. a \in Seq(A) /\ Len(a) = q + 1 /\ a[q + 1] = w /\ (\A i \in 1..q : a[i] = t[i]) /\ a # <<>>
  OBVIOUS
<1> HIDE DEF a
<1>3. /\ v \in Seq(A) /\ Len(v) = (IF Len(a) > Window THEN Window ELSE Len(a))
      /\ Len(a) <= Window => v = a
      /\ Len(a) > Window => \A i \in 1..Window : v[i] = a[i + Len(a) - Window]
      /\ v # <<>>
  BY <1>1, <1>2, LastNFacts
<1> HIDE DEF v
<1>4. s \in 0..1 /\ (s = 1 <=> q = Window) /\ (q # Window => s = 0)
  OBVIOUS
<1> HIDE DEF q, s
<1>5. Len(v) \in Nat /\ Len(v) = q + 1 - s /\ Len(v) <= Window /\ (s = 1 => Len(v) = Window)
      /\ \A i \in 1..Len(v) : v[i] = a[i + s]
  <2>1. CASE q = Window
    <3>1. Len(a) > Window /\ Len(v) = Window /\ \A i \in 1..Window : i + Len(a) - Window = i + 1
      BY <1>1, <1>2, <1>3, <2>1
    <3>2. s = 1 /\ \A i \in 1..Window : v[i] = a[i + 1]
      BY <1>3, <1>4, <2>1, <3>1
    <3> QED BY <1>1, <2>1, <3>1, <3>2
  <2>2. CASE q # Window
    <3>1. Len(a) <= Window /\ v = a /\ s = 0
      BY <1>1, <1>2, <1>3, <1>4, <2>2
    <3>2. \A i \in 1..Len(v) : i + 0 = i
      BY <1>1, <1>2, <3>1
    <3>3. Len(v) = q + 1 /\ q + 1 - 0 = q + 1 /\ Len(v) \in Nat
      BY <1>1, <1>2, <3>1
    <3> QED BY <3>1, <3>2, <3>3
  <2> QED BY <2>1, <2>2
<1>6. /\ Len(v) >= 1 /\ v[Len(v)] = w
      /\ \A i \in 1..Len(v) : i < Len(v) => i + s \in 1..q /\ v[i] = t[i + s]
      /\ \A j \in 1..q : j # s => j - s \in 1..Len(v) /\ j - s < Len(v) /\ v[j - s] = t[j]
  <2>1. Len(v) >= 1 /\ Len(v) \in 1..Len(v) /\ Len(v) + s = q + 1
    BY <1>1, <1>4, <1>5
  <2>2. v[Len(v)] = w
    BY <1>2, <1>5, <2>1
  <2>3. ASSUME NEW i \in 1..Len(v), i < Len(v) PROVE i + s \in 1..q /\ v[i] = t[i + s]
    <3>1. i + s \in 1..q
      BY <1>1, <1>4, <1>5, <2>3
    <3> QED BY <1>2, <1>5, <3>1
  <2>4. ASSUME NEW j \in 1..q, j # s PROVE j - s \in 1..Len(v) /\ j - s < Len(v) /\ v[j - s] = t[j]
    <3>1. j - s \in 1..Len(v) /\ j - s < Len(v) /\ (j - s) + s = j
      BY <1>1, <1>4, <1>5, <2>4
    <3> QED BY <1>2, <1>5, <3>1
  <2> QED BY <2>1, <2>2, <2>3, <2>4
<1>7. D \subseteq N /\ (\A i \in 1..q : t[i].turn \in N) /\ x \in N /\ x \in Nat /\ N \subseteq Nat
  BY DEF RedisOk, RedisOrder, q
<1>8. \A i \in 1..q : \A d \in D : d < t[i].turn => t[i].turn \in D
  BY DEF RedisOk, RedisOrder, q
<1>9. \A i, j \in 1..q : i < j /\ t[j].turn < t[i].turn =>
        t[i].turn \in D \/ \E k \in 1..q : j < k /\ t[k].turn = t[i].turn
  BY DEF RedisOk, RedisOrder, q
<1> HIDE DEF x
<1>10. \A i \in 1..q : x < t[i].turn => t[i].turn \in E
  BY <1>7, <1>8 DEF x
<1>11. ASSUME NEW d \in E PROVE x < d /\ d \in D
  <2>1. d \in D /\ d # x /\ x <= d /\ d \in Nat
    BY <1>7 DEF x
  <2> QED BY <1>7, <2>1
<1>12. x \notin E /\ E = D \ {x} /\ x \in D
  BY DEF x
<1> HIDE DEF E
(* What one finds in v.                                                    *)
<1>13. \A i \in 1..Len(v) : (i = Len(v) /\ v[i].turn = x) \/ (i < Len(v) /\ i + s \in 1..q /\ v[i].turn = t[i + s].turn)
  BY <1>5, <1>6 DEF x
<1>14. RedisOrder(v, E, N)
  <2>1. Len(v) <= Window /\ E \subseteq N /\ \A i \in 1..Len(v) : v[i].turn \in N
    BY <1>5, <1>7, <1>11, <1>13
  <2>2. ASSUME NEW i \in 1..Len(v), NEW j \in 1..Len(v), i < j, v[j].turn < v[i].turn
        PROVE v[i].turn \in E \/ \E k \in 1..Len(v) : j < k /\ v[k].turn = v[i].turn
    <3>1. i < Len(v) /\ i + s \in 1..q /\ v[i].turn = t[i + s].turn
      BY <1>5, <1>13, <2>2
    <3>2. CASE j = Len(v)
      BY <1>6, <1>10, <2>2, <3>1, <3>2 DEF x
    <3>3. CASE j < Len(v)
      <4>1. j + s \in 1..q /\ v[j].turn = t[j + s].turn /\ i + s < j + s
        BY <1>4, <1>5, <1>6, <2>2, <3>3
      <4>2. t[i + s].turn \in D \/ \E k \in 1..q : j + s < k /\ t[k].turn = t[i + s].turn
        BY <1>9, <2>2, <3>1, <4>1
      <4>3. CASE t[i + s].turn \in D
        <5>1. CASE t[i + s].turn = x
          <6>1. Len(v) \in 1..Len(v) /\ j < Len(v) /\ v[Len(v)].turn = v[i].turn
            BY <1>5, <1>6, <3>1, <3>3, <5>1 DEF x
          <6> QED BY <6>1
        <5>2. CASE t[i + s].turn # x
          BY <1>12, <3>1, <4>3, <5>2
        <5> QED BY <5>1, <5>2
      <4>4. ASSUME NEW k \in 1..q, j + s < k, t[k].turn = t[i + s].turn
            PROVE \E l \in 1..Len(v) : j < l /\ v[l].turn = v[i].turn
        <5>1. k # s /\ j < k - s
          BY <1>1, <1>4, <1>5, <4>4
        <5>2. k - s \in 1..Len(v) /\ v[k - s] = t[k]
          BY <1>6, <5>1
        <5> QED BY <3>1, <4>4, <5>1, <5>2
      <4> QED BY <4>2, <4>3, <4>4
    <3> QED BY <1>5, <3>2, <3>3
  <2>3. ASSUME NEW i \in 1..Len(v), NEW d \in E, d < v[i].turn PROVE v[i].turn \in E
    <3>1. x < d /\ d \in Nat /\ v[i].turn \in Nat
      BY <1>7, <1>11, <2>1
    <3>2. x < v[i].turn
      BY <1>7, <2>3, <3>1
    <3>3. i + s \in 1..q /\ v[i].turn = t[i + s].turn
      BY <1>7, <1>13, <3>2
    <3> QED BY <1>10, <3>2, <3>3
  <2> QED BY <2>1, <2>2, <2>3 DEF RedisOrder
<1>15. RedisNewest(v, E, N)
  <2>1. PICK d \in D : \A n \in N : n <= d
    BY <1>12 DEF RedisOk, RedisNewest
  <2>2. CASE d \in E
    BY <2>1, <2>2 DEF RedisNewest
  <2>3. CASE d \notin E
    <3>1. d = x
      BY <1>12, <2>3
    <3>2. E = {}
      <4>1. \A b \in E : b <= x /\ x < b /\ b \in Nat
        BY <1>7, <1>11, <2>1, <3>1
      <4> QED BY <1>7, <4>1
    <3>3. v[Len(v)].turn = x
      BY <1>6 DEF x
    <3> QED BY <2>1, <3>1, <3>2, <3>3 DEF RedisNewest
  <2> QED BY <2>2, <2>3
<1>16. RedisCovers(v, E, F)
  <2> SUFFICES ASSUME NEW n \in F
               PROVE \/ n \in E \/ \E i \in 1..Len(v) : v[i].turn = n
                     \/ Len(v) = Window /\ (\A d \in E : n < d) /\ \A i \in 1..Len(v) : n < v[i].turn
    BY DEF RedisCovers
  <2>1. \/ n \in D \/ \E i \in 1..q : t[i].turn = n
        \/ q = Window /\ (\A d \in D : n < d) /\ \A i \in 1..q : n < t[i].turn
    BY <1>12 DEF RedisOk, RedisCovers, q
  <2>2. n \in Nat
    BY <1>7
  <2>3. CASE n \in D
    <3>1. CASE n = x
      <4>1. Len(v) \in 1..Len(v) /\ v[Len(v)].turn = n
        BY <1>5, <1>6, <3>1 DEF x
      <4> QED BY <4>1
    <3> QED BY <1>12, <2>3, <3>1
  <2>4. CASE q = Window /\ (\A d \in D : n < d) /\ \A i \in 1..q : n < t[i].turn
    <3>1. Len(v) = Window
      BY <1>4, <1>5, <2>4
    <3>2. \A d \in E : n < d
      BY <1>11, <2>4
    <3>3. \A i \in 1..Len(v) : n < v[i].turn
      BY <1>12, <1>13, <2>4
    <3> QED BY <3>1, <3>2, <3>3
  <2>5. ASSUME NEW j \in 1..q, t[j].turn = n, n \notin D
        PROVE \/ \E i \in 1..Len(v) : v[i].turn = n
              \/ Len(v) = Window /\ (\A d \in E : n < d) /\ \A i \in 1..Len(v) : n < v[i].turn
    <3>1. CASE j # s
      BY <1>6, <2>5, <3>1
    <3>2. CASE j = s /\ \E k \in 1..q : k # j /\ t[k].turn = n
      BY <1>6, <3>2
    <3>3. CASE j = s /\ \A k \in 1..q : k # j => t[k].turn # n
      <4>1. j = 1 /\ s = 1 /\ Len(v) = Window
        BY <1>4, <1>5, <3>3
      <4>2. \A d \in D : n < d
        <5>1. \A d \in D : ~(d < n) /\ d # n /\ d \in Nat
          BY <1>7, <1>8, <2>5
        <5> QED BY <2>2, <5>1
      <4>3. ASSUME NEW k \in 1..q, k # j PROVE n < t[k].turn
        <5>1. j < k /\ k \in Nat
          BY <1>1, <4>1, <4>3
        <5>2. ASSUME t[k].turn < n PROVE FALSE
          <6>1. \E l \in 1..q : k < l /\ t[l].turn = n
            BY <1>9, <2>5, <5>1, <5>2
          <6>2. PICK l \in 1..q : k < l /\ t[l].turn = n
            BY <6>1
          <6>3. l # j
            BY <1>1, <5>1, <6>2
          <6> QED BY <3>3, <6>2, <6>3
        <5>3. t[k].turn # n /\ t[k].turn \in Nat
          BY <1>7, <3>3, <4>3
        <5> QED BY <2>2, <5>2, <5>3
      <4>4. \A i \in 1..Len(v) : n < v[i].turn
        <5>1. n < x
          BY <1>12, <4>2
        <5>2. ASSUME NEW i \in 1..Len(v), i < Len(v) PROVE n < v[i].turn
          <6>1. i + s \in 1..q /\ i + s # j /\ v[i].turn = t[i + s].turn
            BY <1>6, <4>1, <5>2
          <6> QED BY <4>3, <6>1
        <5> QED BY <1>13, <5>1, <5>2
      <4> QED BY <1>11, <4>1, <4>2, <4>4
    <3> QED BY <3>1, <3>2, <3>3
  <2> QED BY <2>1, <2>3, <2>4, <2>5
<1> QED BY <1>3, <1>14, <1>15, <1>16 DEF RedisOk, v, a, E, x

-----------------------------------------------------------------------------
(* What a session holds of it.                                             *)

RedisGave(u, t, N, F, rs) ==
  /\ rs \in Seq(CtxReal(u)) /\ Len(rs) <= Window
  /\ rs # <<>> => t # <<>> /\ \A n \in N : n <= rs[Len(rs)].turn
  /\ rs # <<>> /\ Len(rs) < Window => \A n \in F : \E i \in 1..Len(rs) : rs[i].turn = n

(* A recovery from Redis ends with the newest turn, and lacks turns behind *)
(* the anchors only when it fills the window.                              *)
LEMMA RedisGives ==
  ASSUME NEW u \in Nat, NEW t \in Seq(CtxReal(u)), NEW N, N \subseteq Nat, NEW F, F \subseteq N,
         RedisOk(t, {}, N, F), NEW e \in Nat, \A n \in F : e < n,
         NEW rs, rs = LastN(After(t, e), Window)
  PROVE RedisGave(u, t, N, F, rs)
<1> DEFINE P == {i \in DOMAIN t : t[i].turn > e}
           p == Pick(t, P)
<1>1. Len(t) \in Nat /\ DOMAIN t = 1..Len(t) /\ Len(t) <= Window /\ Window \in Nat /\ Window >= 1
  BY CtxBounds DEF RedisOk, RedisOrder
<1>2. \A i \in 1..Len(t) : i \in P <=> t[i].turn > e
  BY <1>1
<1> HIDE DEF P
<1>3. p \in Seq(CtxReal(u)) /\ After(t, e) = p
  BY PickTypes DEF After, P
<1>4. Len(p) <= Len(t)
  <2>1. IsFiniteSet(1..Len(t)) /\ Cardinality(1..Len(t)) = Len(t)
    <3>1. \A n \in Nat : IsFiniteSet(1..n) /\ Cardinality(1..n) = n
      BY FS_Interval
    <3> QED BY <1>1, <3>1
  <2>2. \A i \in 1..Len(t) : i \in P => i \in 1..Len(t)
    OBVIOUS
  <2>3. Len(Pick(t, P)) <= Cardinality(1..Len(t))
    BY <2>1, <2>2, PickCount
  <2> QED BY <2>1, <2>3
<1>5. PICK f : Embeds(f, p, t, P)
  BY PickEmbeds
<1>6. p = <<>> <=> \A i \in 1..Len(t) : i \notin P
  BY PickNone
<1> HIDE DEF p
<1>7. Len(p) \in Nat /\ rs = p
  <2>1. Len(p) \in Nat /\ Len(p) <= Window
    BY <1>1, <1>3, <1>4
  <2> QED BY <1>1, <1>3, <2>1, LastNFacts
<1>8. \A i \in 1..Len(t) : t[i].turn \in N /\ t[i].turn \in Nat
  BY DEF RedisOk, RedisOrder
<1>9. ASSUME p # <<>> PROVE t # <<>> /\ \A n \in N : n <= p[Len(p)].turn
  <2>1. PICK i \in 1..Len(t) : i \in P
    BY <1>6, <1>9
  <2>2. t # <<>> /\ Len(t) \in 1..Len(t)
    BY <1>1, <2>1
  <2>3. \A n \in N : n <= t[Len(t)].turn
    BY <2>2 DEF RedisOk, RedisNewest
  <2>4. Len(t) \in P
    <3>1. t[i].turn > e /\ t[i].turn <= t[Len(t)].turn
      BY <1>2, <1>8, <2>1, <2>3
    <3>2. t[Len(t)].turn > e
      BY <1>8, <2>2, <3>1
    <3> QED BY <1>2, <2>2, <3>2
  <2>5. p[Len(p)] = t[Len(t)]
    BY <2>2, <2>4, PickLast DEF p
  <2> QED BY <2>2, <2>3, <2>5
<1>10. ASSUME p # <<>>, Len(p) < Window, NEW n \in F PROVE \E i \in 1..Len(p) : p[i].turn = n
  <2>1. \/ \E i \in 1..Len(t) : t[i].turn = n
        \/ Len(t) = Window /\ \A i \in 1..Len(t) : n < t[i].turn
    BY <1>9, <1>10 DEF RedisOk, RedisCovers
  <2>2. n \in Nat /\ e < n
    BY <1>10
  <2>3. CASE \E i \in 1..Len(t) : t[i].turn = n
    <3>1. PICK i \in 1..Len(t) : t[i].turn = n
      BY <2>3
    <3>2. i \in P
      BY <1>2, <2>2, <3>1
    <3> QED BY <1>5, <3>1, <3>2 DEF Embeds
  <2>4. CASE Len(t) = Window /\ \A i \in 1..Len(t) : n < t[i].turn
    <3>1. \A i \in 1..Len(t) : i \in P
      <4>1. ASSUME NEW i \in 1..Len(t) PROVE i \in P
        <5>1. t[i].turn \in Nat /\ n < t[i].turn
          BY <1>8, <2>4
        <5>2. t[i].turn > e
          BY <2>2, <5>1
        <5> QED BY <1>2, <5>2
      <4> QED BY <4>1
    <3>2. p = t
      BY <3>1, PickWhole DEF p
    <3> QED BY <1>1, <1>10, <2>4, <3>2
  <2> QED BY <2>1, <2>3, <2>4
<1> QED BY <1>1, <1>3, <1>4, <1>7, <1>9, <1>10 DEF RedisGave

-----------------------------------------------------------------------------
(* The session that is open, x: idle says that no turn waits to be stored, *)
(* has that Redis, if it is up, has turns or gets them.                    *)
SessionOk(x, N, F, idle, has) ==
  /\ Real(x.turns) = <<>> => idle
  /\ x.add # "no" => x.loaded /\ x.load = "no" /\ Real(x.turns) = <<>>
  /\ x.load # "no" => x.turns = <<>> /\ x.add = "no"
  /\ x.turns # <<>> => x.loaded
  /\ Len(Real(x.turns)) <= Window
  /\ Real(x.turns) # <<>> => \A n \in N : n <= Real(x.turns)[Len(Real(x.turns))].turn
  /\ x.loaded /\ Len(Real(x.turns)) < Window =>
       \A n \in F : \E i \in 1..Len(Real(x.turns)) : Real(x.turns)[i].turn = n
  /\ x.add = "push" => \A n \in N : n <= x.n
  /\ Real(x.turns) # <<>> => has

LEMMA SessionStays ==
  ASSUME NEW x, NEW N, NEW F, NEW i, NEW h, SessionOk(x, N, F, i, h),
         NEW F2, F2 \subseteq F, NEW i2, i => i2, NEW h2, h => h2
  PROVE SessionOk(x, N, F2, i2, h2)
BY DEF SessionOk

LEMMA NoneReal == Real(<<>>) = <<>>
<1>1. <<>> \in Seq(CtxReal(0)) /\ 0 \in Nat
  OBVIOUS
<1> QED BY <1>1, RealIsAll

LEMMA SessionOpens ==
  ASSUME NEW N, NEW F, NEW i, i, NEW h
  PROVE SessionOk([Closed EXCEPT !.open = TRUE], N, F, i, h)
<1> DEFINE x == [Closed EXCEPT !.open = TRUE]
<1>1. x.turns = <<>> /\ x.add = "no" /\ x.load = "no" /\ x.loaded = FALSE
  BY DEF Closed
<1>2. Len(<<>>) = 0 /\ 0 <= Window
  BY CtxBounds
<1> HIDE DEF x
<1>3. SessionOk(x, N, F, i, h)
  BY <1>1, <1>2, NoneReal DEF SessionOk
<1> QED BY <1>3 DEF x

LEMMA SessionTakesTurn ==
  ASSUME NEW u \in Nat, NEW x \in CtxMgr(u), NEW r \in CtxReal(u), NEW N, N \subseteq Nat, NEW F, NEW i, NEW h,
         SessionOk(x, N, F, i, h), x.loaded, x.load = "no", Len(Real(x.turns)) < Window,
         \A n \in N : n < r.turn, NEW G, G \subseteq F \cup {r.turn}, NEW i2, NEW h2, h2
  PROVE SessionOk([x EXCEPT !.turns = Append(@, r), !.add = "no", !.n = 0], N \cup {r.turn}, G, i2, h2)
<1> DEFINE y == [x EXCEPT !.turns = Append(@, r), !.add = "no", !.n = 0]
           R == Real(x.turns)
           S == Real(y.turns)
<1>1. x.turns \in Seq(CtxRecords(u)) /\ r.turn \in Nat
  BY DEF CtxMgr, CtxReal
<1>2. y.turns = Append(x.turns, r) /\ y.add = "no" /\ y.load = "no" /\ y.loaded
  BY DEF CtxMgr
<1> HIDE DEF y
<1>3. R \in Seq(CtxReal(u)) /\ S = Append(R, r)
  BY <1>1, <1>2, RealAppend, AfterIn
<1> HIDE DEF R, S
<1>4. Len(R) \in Nat /\ Len(S) = Len(R) + 1 /\ S # <<>> /\ S[Len(S)] = r /\ \A j \in 1..Len(R) : S[j] = R[j] /\ j \in 1..Len(S)
  BY <1>3
<1>5. Len(S) <= Window
  BY <1>4, CtxBounds DEF R
<1>6. \A n \in N \cup {r.turn} : n <= S[Len(S)].turn
  BY <1>1, <1>4
<1>7. ASSUME NEW n \in G PROVE \E j \in 1..Len(S) : S[j].turn = n
  <2>1. CASE n = r.turn
    <3>1. Len(S) \in 1..Len(S)
      BY <1>4
    <3> QED BY <1>4, <2>1, <3>1
  <2>2. CASE n \in F
    <3>1. PICK j \in 1..Len(R) : R[j].turn = n
      BY <2>2 DEF SessionOk, R
    <3> QED BY <1>4, <3>1
  <2> QED BY <2>1, <2>2
<1>8. SessionOk(y, N \cup {r.turn}, G, i2, h2)
  <2> USE DEF S
  <2> QED BY <1>2, <1>4, <1>5, <1>6, <1>7 DEF SessionOk
<1> QED BY <1>8 DEF y

(* The number that is asked for: 0 when the store has none.                *)
LEMMA SessionAsks ==
  ASSUME NEW u \in Nat, NEW x \in CtxMgr(u), NEW N, NEW F, NEW i, NEW h, SessionOk(x, N, F, i, h),
         x.loaded, x.load = "no", Real(x.turns) = <<>>,
         NEW y \in CtxMgr(u), y.turns = x.turns, y.loaded = x.loaded, y.load = x.load,
         y.add = "push" => \A n \in N : n <= y.n
  PROVE SessionOk(y, N, F, i, h)
BY DEF SessionOk

(* A load begins, or goes on.                                              *)
LEMMA SessionLoads ==
  ASSUME NEW u \in Nat, NEW x \in CtxMgr(u), NEW N, NEW F, NEW i, NEW h, SessionOk(x, N, F, i, h),
         x.turns = <<>>, x.add = "no",
         NEW y \in CtxMgr(u), y.turns = x.turns, y.loaded = x.loaded, y.add = x.add
  PROVE SessionOk(y, N, F, i, h)
BY DEF SessionOk

(* A load is done: what is read takes the place of nothing, or stays.      *)
LEMMA SessionLoaded ==
  ASSUME NEW x, NEW y, NEW N, NEW F, NEW i, NEW h, NEW R,
         Real(y.turns) = R, y.loaded, y.load = "no", y.add # "no" => R = <<>>,
         y.add = "push" => \A n \in N : n <= y.n,
         R = <<>> => i, R # <<>> => h, Len(R) <= Window,
         R # <<>> => \A n \in N : n <= R[Len(R)].turn,
         Len(R) < Window => \A n \in F : \E j \in 1..Len(R) : R[j].turn = n
  PROVE SessionOk(y, N, F, i, h)
BY DEF SessionOk

(* The invariant that keeps numbers apart while Postgres is up: all the    *)
(* numbers there are, the anchors, and the numbers behind every anchor.    *)
CtxN == NumsAt(pg.rows, pgTasks, Len(pgTasks))
CtxA == AnchorsAt(pg.sums, pgTasks, Len(pgTasks))
CtxF == FreshAt(pg.rows, pg.sums, pgTasks, Len(pgTasks))
CtxIdle == CtxDue(redisTasks) = {} /\ CtxDue(pgTasks) = {}
CtxHas == Up("redis") => redis.turns # <<>> \/ CtxDue(redisTasks) # {}
CtxBelow(e, A) == \E a \in A : e <= a

CtxStores ==
  /\ PgOk(pg.rows, pg.sums, pgTasks)
  /\ CtxDue(redisTasks) \subseteq CtxN /\ CtxAscends(redisTasks)
  /\ CtxBelow(redis.sum.end, CtxA) /\ CtxEndsBelow(redisTasks, CtxA)
  /\ Up("redis") => RedisOk(redis.turns, CtxDue(redisTasks), CtxN, CtxF)
CtxSessions ==
  /\ \A m, o \in Managers : mgr[m].open /\ mgr[o].open => m = o
  /\ \A m \in Managers : CtxBelow(mgr[m].sums.end, CtxA) /\ CtxBelow(mgr[m].data.end, CtxA)
  /\ \A m \in Managers : IF mgr[m].open THEN SessionOk(mgr[m], CtxN, CtxF, CtxIdle, CtxHas)
                         ELSE mgr[m] = Closed

CtxInvariant ==
  /\ CtxTyped
  /\ Up("pg") => CtxStores /\ CtxSessions
  /\ ~Up("pg") => pg.rows = {}

LEMMA CtxKnows ==
  ASSUME CtxTyped
  PROVE /\ PgTyped(Len(said), pg.rows, pg.sums, pgTasks) /\ Len(said) \in Nat
        /\ CtxN \subseteq 1..Len(said) /\ CtxN \subseteq Nat /\ CtxF \subseteq CtxN
        /\ CtxA \subseteq Nat /\ 0 \in CtxA /\ \A n \in CtxF, a \in CtxA : a < n
        /\ redis.turns \in Seq(CtxReal(Len(said))) /\ redisTasks \in Seq(CtxTask(Len(said)))
        /\ pgTasks \in Seq(CtxTask(Len(said)))
<1>1. PgTyped(Len(said), pg.rows, pg.sums, pgTasks) /\ Len(said) \in Nat /\ Len(pgTasks) \in Nat
      /\ redis.turns \in Seq(CtxReal(Len(said))) /\ redisTasks \in Seq(CtxTask(Len(said)))
      /\ pgTasks \in Seq(CtxTask(Len(said)))
  BY DEF PgTyped, CtxTyped
<1>2. Len(pgTasks) \in 0..Len(pgTasks)
  BY <1>1
<1>3. CtxN \subseteq 1..Len(said) /\ CtxA \subseteq 0..Len(said) /\ CtxF \subseteq CtxN
  BY <1>1, <1>2, PgNumbers DEF CtxN, CtxA, CtxF
<1>4. 0 \in CtxA
  BY DEF CtxA, AnchorsAt
<1>5. \A n \in CtxF, a \in CtxA : a < n
  BY DEF CtxF, CtxA, FreshAt
<1>6. 1..Len(said) \subseteq Nat /\ 0..Len(said) \subseteq Nat
  BY <1>1
<1> QED BY <1>1, <1>3, <1>4, <1>5, <1>6

(* An anchor that is known stays behind what is fresh.                     *)
LEMMA BelowIsOld ==
  ASSUME CtxTyped, NEW e \in Nat, CtxBelow(e, CtxA)
  PROVE \A n \in CtxF : e < n
<1>1. PICK a \in CtxA : e <= a
  BY DEF CtxBelow
<1>2. ASSUME NEW n \in CtxF PROVE e < n
  <2>1. a < n /\ a \in Nat /\ n \in Nat
    BY CtxKnows
  <2> QED BY <1>1, <2>1
<1> QED BY <1>2

(* A step of the session that is open, on a memory that becomes x.         *)
LEMMA SessionMoves ==
  ASSUME CtxTyped, CtxSessions, NEW m \in Managers, mgr[m].open,
         NEW x \in CtxMgr(Len(said)), MgrSet(m, x), x.open,
         CtxBelow(x.sums.end, CtxA), CtxBelow(x.data.end, CtxA),
         SessionOk(x, CtxN, CtxF, CtxIdle', CtxHas'), UNCHANGED <<pgTasks, pg, outage>>
  PROVE CtxSessions'
<1>1. CtxN' = CtxN /\ CtxA' = CtxA /\ CtxF' = CtxF
  BY DEF CtxN, CtxA, CtxF
<1>2. mgr'[m] = x /\ \A o \in Managers : o # m => mgr'[o] = mgr[o]
  BY DEF MgrSet, CtxTyped
<1>3. \A o \in Managers : o # m => ~mgr[o].open /\ mgr[o] = Closed
  BY DEF CtxSessions
<1>4. \A o \in Managers : o # m => ~mgr'[o].open /\ mgr'[o] = Closed
  BY <1>2, <1>3
<1>5. \A o \in Managers : CtxBelow(mgr'[o].sums.end, CtxA) /\ CtxBelow(mgr'[o].data.end, CtxA)
  BY <1>2 DEF CtxSessions
<1>6. \A o \in Managers : IF mgr'[o].open THEN SessionOk(mgr'[o], CtxN, CtxF, CtxIdle', CtxHas')
                          ELSE mgr'[o] = Closed
  BY <1>2, <1>4
<1>7. \A o, p \in Managers : mgr'[o].open /\ mgr'[p].open => o = p
  BY <1>4
<1> QED BY <1>1, <1>5, <1>6, <1>7 DEF CtxSessions

LEMMA StoresStay ==
  ASSUME CtxTyped, CtxStores, UNCHANGED <<redisTasks, pgTasks, redis, pg, outage>>
  PROVE CtxStores' /\ CtxIdle' = CtxIdle /\ CtxHas' = CtxHas
<1>1. CtxN' = CtxN /\ CtxA' = CtxA /\ CtxF' = CtxF /\ CtxIdle' = CtxIdle /\ CtxHas' = CtxHas
  BY DEF CtxN, CtxA, CtxF, CtxIdle, CtxHas, Up
<1>2. CtxStores'
  BY <1>1 DEF CtxStores, Up
<1> QED BY <1>1, <1>2

(* A store does something while no session moves.                          *)
LEMMA SessionsStay ==
  ASSUME CtxSessions, UNCHANGED mgr, CtxN' = CtxN, CtxF' \subseteq CtxF, CtxA \subseteq CtxA',
         CtxIdle => CtxIdle', CtxHas => CtxHas'
  PROVE CtxSessions'
<1>1. \A m \in Managers : mgr[m].open => SessionOk(mgr[m], CtxN, CtxF', CtxIdle', CtxHas')
  <2> DEFINE F2 == CtxF'
             i == CtxIdle
             h == CtxHas
             i2 == CtxIdle'
             h2 == CtxHas'
  <2>1. F2 \subseteq CtxF /\ (i => i2) /\ (h => h2) /\ \A m \in Managers : mgr[m].open => SessionOk(mgr[m], CtxN, CtxF, i, h)
    BY DEF CtxSessions
  <2> HIDE DEF F2, i, h, i2, h2
  <2>2. \A m \in Managers : mgr[m].open => SessionOk(mgr[m], CtxN, F2, i2, h2)
    BY <2>1, SessionStays
  <2> QED BY <2>2 DEF F2, i2, h2
<1>2. \A m \in Managers : CtxBelow(mgr[m].sums.end, CtxA') /\ CtxBelow(mgr[m].data.end, CtxA')
  BY DEF CtxSessions, CtxBelow
<1> QED BY <1>1, <1>2 DEF CtxSessions

LEMMA OpenKept ==
  ASSUME CtxTyped, CtxStores, CtxSessions, Calm, NEW m \in Managers, Open(m) \/ EndSession(m)
  PROVE CtxStores' /\ CtxSessions'
<1>1. UNCHANGED <<redisTasks, pgTasks, redis, pg, outage>>
  BY DEF Open, EndSession
<1>2. CtxStores' /\ CtxIdle' = CtxIdle /\ CtxHas' = CtxHas
  BY <1>1, StoresStay
<1>3. mgr \in [Managers -> CtxMgr(Len(said))]
  BY DEF CtxTyped
<1>4. CtxN' = CtxN /\ CtxA' = CtxA /\ CtxF' = CtxF
  BY <1>1 DEF CtxN, CtxA, CtxF
<1>5. CtxBelow(Closed.sums.end, CtxA) /\ CtxBelow(Closed.data.end, CtxA) /\ ~Closed.open
  BY CtxKnows DEF CtxBelow, Closed, NoSummary
<1>6. CASE EndSession(m)
  <2>1. mgr' = [mgr EXCEPT ![m] = Closed]
    BY <1>6 DEF EndSession
  <2>2. mgr'[m] = Closed /\ \A o \in Managers : o # m => mgr'[o] = mgr[o]
    BY <1>3, <2>1
  <2> HIDE DEF Closed
  <2>3. \A o \in Managers : mgr'[o].open => mgr'[o] = mgr[o]
    BY <1>5, <2>2
  <2> QED BY <1>2, <1>4, <1>5, <2>2, <2>3 DEF CtxSessions
<1>7. CASE Open(m)
  <2> DEFINE x == [Closed EXCEPT !.open = TRUE]
  <2>1. mgr' = [mgr EXCEPT ![m] = x] /\ redisTasks = <<>> /\ pgTasks = <<>> /\ \A o \in Managers : ~mgr[o].open
    BY <1>7 DEF Open
  <2>2. mgr'[m] = x /\ \A o \in Managers : o # m => mgr'[o] = mgr[o]
    BY <1>3, <2>1
  <2>3. x.open /\ x.sums = Closed.sums /\ x.data = Closed.data
    BY DEF Closed
  <2>4. CtxIdle
    <3>1. ASSUME NEW i \in Nat, NEW k \in Nat PROVE ~CtxTurnAt(<<>>, i, k)
      BY DEF CtxTurnAt, CtxAt
    <3>2. CtxDue(<<>>) = {}
      BY <3>1 DEF CtxDue
    <3> QED BY <2>1, <3>2 DEF CtxIdle
  <2> DEFINE i == CtxIdle
             h == CtxHas
  <2>5. SessionOk(x, CtxN, CtxF, CtxIdle, CtxHas)
    <3>1. i
      BY <2>4
    <3> HIDE DEF i, h
    <3>2. SessionOk(x, CtxN, CtxF, i, h)
      BY <3>1, SessionOpens
    <3> QED BY <3>2 DEF i, h
  <2> HIDE DEF x, i, h
  <2>6. \A o \in Managers : o # m => ~mgr'[o].open /\ mgr'[o] = Closed
    BY <2>1, <2>2 DEF CtxSessions
  <2>7. \A o \in Managers : CtxBelow(mgr'[o].sums.end, CtxA) /\ CtxBelow(mgr'[o].data.end, CtxA)
    BY <1>5, <2>2, <2>3, <2>6
  <2>8. \A o \in Managers : IF mgr'[o].open THEN SessionOk(mgr'[o], CtxN, CtxF, CtxIdle, CtxHas)
                            ELSE mgr'[o] = Closed
    BY <2>2, <2>3, <2>5, <2>6
  <2>9. \A o, p \in Managers : mgr'[o].open /\ mgr'[p].open => o = p
    BY <2>6
  <2> QED BY <1>2, <1>4, <2>7, <2>8, <2>9 DEF CtxSessions
<1> QED BY <1>6, <1>7

-----------------------------------------------------------------------------
(* A turn is added.                                                        *)

SameDue(tasks, more) == CtxDue(more) = CtxDue(tasks)
KeepsEnds(tasks, more) == \A A : CtxEndsBelow(tasks, A) => CtxEndsBelow(more, A)

(* Tasks that hold one turn, all its own.                                  *)
LEMMA DueOne ==
  ASSUME NEW u \in Nat, NEW tasks \in Seq(CtxTask(u)), NEW r \in CtxReal(u), NEW more,
         more = Append(tasks, <<[put |-> "turn", what |-> r]>>)
  PROVE /\ CtxDue(more) = CtxDue(tasks) \cup {r.turn}
        /\ CtxAscends(tasks) /\ (\A d \in CtxDue(tasks) : d < r.turn) => CtxAscends(more)
        /\ KeepsEnds(tasks, more)
<1> DEFINE w == [put |-> "turn", what |-> r]
           own == CtxOwn(<<w>>)
<1>1. r.turn \in Nat /\ w \in CtxWrites(u) /\ w.put = "turn" /\ w.put # "summary" /\ w.what = r
  BY DEF CtxReal, CtxWrites
<1> HIDE DEF w
<1>2. Len(<<w>>) = 1 /\ <<w>>[1] = w /\ <<w>> \in CtxTask(u) /\ \A k \in 1..Len(<<w>>) : k = 1
  BY <1>1 DEF CtxTask
<1>3. own = {r.turn}
  BY <1>1, <1>2 DEF CtxOwn
<1>4. \A k, l \in 1..Len(<<w>>) : ~(k < l)
  BY <1>2
<1>5. \A k \in 1..Len(<<w>>) : <<w>>[k].put # "summary"
  BY <1>1, <1>2
<1>6. more = Append(tasks, <<w>>)
  BY DEF w
<1> DEFINE T == <<w>>
<1>7. T \in CtxTask(u)
  BY <1>2
<1>8. own = CtxOwn(T)
  OBVIOUS
<1>9. more = Append(tasks, T) /\ (\A k, l \in 1..Len(T) : ~(k < l)) /\ \A k \in 1..Len(T) : T[k].put # "summary"
  BY <1>4, <1>5, <1>6
<1> HIDE DEF T, own
<1>10. CtxDue(more) = CtxDue(tasks) \cup own
  <2>1. CtxDue(Append(tasks, T)) = CtxDue(tasks) \cup own
    BY <1>7, <1>8, DueMore
  <2> QED BY <1>9, <2>1
<1>11. CtxAscends(tasks) /\ (\A d \in CtxDue(tasks), o \in own : d < o) => CtxAscends(more)
  BY <1>7, <1>8, <1>9, DueMore
<1>12. \A A : CtxEndsBelow(tasks, A) => CtxEndsBelow(more, A)
  BY <1>7, <1>8, <1>9, DueMore
<1> QED BY <1>3, <1>10, <1>11, <1>12 DEF KeepsEnds

(* A summary holds no turn.                                                *)
LEMMA DueNone ==
  ASSUME NEW u \in Nat, NEW tasks \in Seq(CtxTask(u)), NEW s \in CtxSums(u), NEW more,
         more = Append(tasks, <<[put |-> "summary", what |-> s]>>)
  PROVE /\ SameDue(tasks, more) /\ (CtxAscends(tasks) => CtxAscends(more))
        /\ \A A : CtxEndsBelow(tasks, A) /\ CtxBelow(s.end, A) => CtxEndsBelow(more, A)
<1> DEFINE w == [put |-> "summary", what |-> s]
           T == <<w>>
           own == {}
<1>1. w \in CtxWrites(u) /\ w.put = "summary" /\ w.put # "turn" /\ w.what = s
  BY DEF CtxWrites
<1> HIDE DEF w
<1>2. Len(T) = 1 /\ T[1] = w /\ T \in CtxTask(u) /\ \A k \in 1..Len(T) : k = 1
  BY <1>1 DEF CtxTask
<1>3. more = Append(tasks, T)
  BY DEF w
<1> HIDE DEF T
<1>4. \A k \in 1..Len(T) : T[k].put # "turn"
  BY <1>1, <1>2
<1>5. own = CtxOwn(T)
  BY <1>4 DEF CtxOwn
<1>6. \A A : CtxBelow(s.end, A) => \A k \in 1..Len(T) : T[k].put = "summary" => \E a \in A : T[k].what.end <= a
  BY <1>1, <1>2 DEF CtxBelow
<1> HIDE DEF own
<1>7. CtxDue(more) = CtxDue(tasks) \cup own /\ \A A : CtxEndsBelow(tasks, A) /\ CtxBelow(s.end, A) => CtxEndsBelow(more, A)
  <2>1. CtxDue(Append(tasks, T)) = CtxDue(tasks) \cup own
    BY <1>2, <1>5, DueMore
  <2>2. ASSUME NEW A, CtxEndsBelow(tasks, A), CtxBelow(s.end, A) PROVE CtxEndsBelow(Append(tasks, T), A)
    <3>1. \A k \in 1..Len(T) : T[k].put = "summary" => \E a \in A : T[k].what.end <= a
      BY <1>6, <2>2
    <3> QED BY <1>2, <1>5, <2>2, <3>1, DueMore
  <2> QED BY <1>3, <2>1, <2>2
<1>8. (\A d \in CtxDue(tasks), o \in own : d < o) /\ CtxAscends(tasks) => CtxAscends(more)
  BY <1>2, <1>3, <1>4, <1>5, DueMore
<1> QED BY <1>7, <1>8 DEF own, SameDue

(* A turn is said.                                                         *)
LEMMA NewTurnKept ==
  ASSUME CtxTyped, CtxTyped', CtxStores, CtxSessions, NEW m \in Managers, mgr[m].open, NEW n, NEW r,
         NewTurn(m, n, r), mgr[m].loaded, mgr[m].load = "no", Len(Real(mgr[m].turns)) < Window,
         \A x \in CtxN : x < n, UNCHANGED <<redis, pg, outage>>
  PROVE CtxStores' /\ CtxSessions'
<1> DEFINE u == Len(said')
           x == mgr[m]
           y == [mgr[m] EXCEPT !.turns = Append(@, r), !.add = "no", !.n = 0]
           w == [put |-> "turn", what |-> r]
<1>1. u \in Nat /\ r \in CtxReal(u) /\ r.turn = n /\ n \in Nat /\ Len(said) \in Nat /\ Len(said) <= u
  <2>1. Len(said) \in Nat /\ u = Len(said) + 1 /\ r \in CtxReal(Len(said) + 1) /\ r.turn = n
    BY CtxKnows DEF NewTurn
  <2>2. u \in Nat /\ r \in CtxReal(u) /\ Len(said) <= u
    BY <2>1
  <2> QED BY <2>1, <2>2 DEF CtxReal
<1>2. x \in CtxMgr(u) /\ x.turns \in Seq(CtxRecords(u)) /\ redisTasks \in Seq(CtxTask(u)) /\ pgTasks \in Seq(CtxTask(u))
      /\ redis.turns \in Seq(CtxReal(u)) /\ pg.rows \subseteq CtxReal(u) /\ pg.sums \subseteq CtxSums(u)
  <2>1. x \in CtxMgr(u)
    BY <1>1, MgrIn, CtxGrows
  <2>2. redisTasks \in Seq(CtxTask(u)) /\ pgTasks \in Seq(CtxTask(u))
    <3>1. CtxTask(Len(said)) \subseteq CtxTask(u)
      BY <1>1, CtxGrows
    <3> QED BY <3>1, CtxKnows, SeqMonotonic
  <2>3. redis.turns \in Seq(CtxReal(u)) /\ pg.rows \subseteq CtxReal(u) /\ pg.sums \subseteq CtxSums(u)
    BY DEF CtxTyped
  <2> QED BY <2>1, <2>2, <2>3 DEF CtxMgr
<1>3. /\ MgrSet(m, y) /\ redisTasks' = Append(redisTasks, <<w>>) /\ pgTasks' = Append(pgTasks, <<w>>)
  BY DEF NewTurn
<1>4. CtxDue(redisTasks') = CtxDue(redisTasks) \cup {n} /\ CtxAscends(redisTasks') /\ \A A : CtxEndsBelow(redisTasks, A) => CtxEndsBelow(redisTasks', A)
  <2>1. \A d \in CtxDue(redisTasks) : d < r.turn
    BY <1>1 DEF CtxStores
  <2>2. CtxAscends(redisTasks)
    BY DEF CtxStores
  <2> DEFINE more == redisTasks'
  <2>3. more = Append(redisTasks, <<[put |-> "turn", what |-> r]>>)
    BY <1>3
  <2> HIDE DEF more, u
  <2>4. CtxDue(more) = CtxDue(redisTasks) \cup {r.turn} /\ CtxAscends(more) /\ \A A : CtxEndsBelow(redisTasks, A) => CtxEndsBelow(more, A)
    <3>1. u \in Nat /\ redisTasks \in Seq(CtxTask(u)) /\ r \in CtxReal(u)
      BY <1>1, <1>2
    <3>2. CtxDue(more) = CtxDue(redisTasks) \cup {r.turn}
      BY <3>1, <2>3, DueOne
    <3>3. CtxAscends(more)
      BY <3>1, <2>1, <2>2, <2>3, DueOne
    <3>4. KeepsEnds(redisTasks, more)
      BY <3>1, <2>3, DueOne
    <3> QED BY <3>2, <3>3, <3>4 DEF KeepsEnds
  <2> QED BY <1>1, <2>4 DEF more
<1>5. PgTyped(u, pg.rows, pg.sums, pgTasks)
  BY <1>1, <1>2 DEF PgTyped
<1> HIDE DEF u, y
<1>6. \A j \in CtxF : \E i \in 1..Len(Real(x.turns)) : Real(x.turns)[i].turn = j
  BY DEF CtxSessions, SessionOk
<1>7. Real(x.turns) \in Seq(CtxReal(u))
  BY <1>1, <1>2, AfterIn
<1>8. Cardinality(CtxF) < Window
  BY <1>6, <1>7, CtxBounds, FewerFit
<1>9. /\ PgOk(pg.rows, pg.sums, pgTasks')
      /\ CtxN' = CtxN \cup {n} /\ CtxA' = CtxA /\ CtxF' \subseteq CtxF \cup {n}
  <2> DEFINE more == Append(pgTasks, <<[put |-> "turn", what |-> r]>>)
  <2>1. /\ PgOk(pg.rows, pg.sums, more)
        /\ NumsAt(pg.rows, more, Len(more)) = NumsAt(pg.rows, pgTasks, Len(pgTasks)) \cup {r.turn}
        /\ AnchorsAt(pg.sums, more, Len(more)) = AnchorsAt(pg.sums, pgTasks, Len(pgTasks))
        /\ FreshAt(pg.rows, pg.sums, more, Len(more)) \subseteq FreshAt(pg.rows, pg.sums, pgTasks, Len(pgTasks)) \cup {r.turn}
    <3>1. PgOk(pg.rows, pg.sums, pgTasks)
      BY DEF CtxStores
    <3>2. \A j \in NumsAt(pg.rows, pgTasks, Len(pgTasks)) : j < r.turn
      BY <1>1 DEF CtxN
    <3>3. Cardinality(FreshAt(pg.rows, pg.sums, pgTasks, Len(pgTasks))) < Window
      BY <1>8 DEF CtxF
    <3> QED BY <1>1, <1>5, <3>1, <3>2, <3>3, PgTakesTurn
  <2>2. pgTasks' = more /\ pg' = pg
    BY <1>3
  <2> HIDE DEF more
  <2> QED BY <1>1, <2>1, <2>2 DEF CtxN, CtxA, CtxF
<1> DEFINE N2 == CtxN'
           F2 == CtxF'
<1>10. N2 = CtxN \cup {n} /\ F2 \subseteq CtxF \cup {n}
  BY <1>9
<1> HIDE DEF N2, F2
<1>11. CtxN \subseteq Nat /\ CtxF \subseteq CtxN
  BY CtxKnows
<1>12. SessionOk(x, CtxN, CtxF, CtxIdle, CtxHas)
  BY DEF CtxSessions
<1>13. Up("redis") => RedisOk(redis.turns, CtxDue(redisTasks) \cup {n}, N2, F2)
  <2> SUFFICES ASSUME Up("redis") PROVE RedisOk(redis.turns, CtxDue(redisTasks) \cup {n}, N2, F2)
    OBVIOUS
  <2>1. RedisOk(redis.turns, CtxDue(redisTasks), CtxN, CtxF)
    BY DEF CtxStores
  <2>2. redis.turns = <<>> /\ CtxDue(redisTasks) = {} => CtxF = {}
    <3> SUFFICES ASSUME redis.turns = <<>>, CtxDue(redisTasks) = {} PROVE CtxF = {}
      OBVIOUS
    <3>1. ~CtxHas
      BY DEF CtxHas
    <3>2. Real(x.turns) = <<>>
      BY <1>12, <3>1 DEF SessionOk
    <3>3. \A i \in 1..Len(Real(x.turns)) : FALSE
      <4>1. 1..Len(<<>>) = {}
        OBVIOUS
      <4> QED BY <3>2, <4>1
    <3> QED BY <1>6, <3>3
  <2> QED BY <1>1, <1>2, <1>10, <1>11, <2>1, <2>2, RedisTakesTurn
<1>14. CtxStores'
  <2>1. CtxDue(redisTasks') \subseteq CtxN'
    BY <1>4, <1>9 DEF CtxStores
  <2>2. CtxBelow(redis.sum.end, CtxA') /\ CtxEndsBelow(redisTasks', CtxA')
    BY <1>4, <1>9 DEF CtxStores
  <2>3. Up("redis")' => RedisOk(redis.turns, CtxDue(redisTasks'), CtxN', CtxF')
    BY <1>4, <1>13 DEF N2, F2, Up
  <2> QED BY <1>4, <1>9, <2>1, <2>2, <2>3 DEF CtxStores
<1> DEFINE i2 == CtxIdle'
           h2 == CtxHas'
<1>15. h2
  BY <1>4 DEF CtxHas
<1> HIDE DEF i2, h2
<1>16. SessionOk(y, N2, F2, i2, h2)
  <2> DEFINE i == CtxIdle
             h == CtxHas
             N == CtxN
             F == CtxF
  <2>1. SessionOk(x, N, F, i, h) /\ x.loaded /\ x.load = "no" /\ Len(Real(x.turns)) < Window /\ N \subseteq Nat
        /\ (\A j \in N : j < r.turn) /\ N2 = N \cup {r.turn} /\ F2 \subseteq F \cup {r.turn}
    BY <1>1, <1>10, <1>11, <1>12
  <2> HIDE DEF i, h, N, F, x
  <2>2. x \in CtxMgr(u) /\ r \in CtxReal(u) /\ u \in Nat
    BY <1>1, <1>2 DEF x
  <2>3. SessionOk([x EXCEPT !.turns = Append(@, r), !.add = "no", !.n = 0], N \cup {r.turn}, F2, i2, h2)
    BY <1>15, <2>1, <2>2, SessionTakesTurn
  <2> QED BY <2>1, <2>3 DEF x, y
<1>17. y.open /\ y.sums = x.sums /\ y.data = x.data
  BY <1>2 DEF CtxMgr, y
<1>18. mgr'[m] = y /\ \A o \in Managers : o # m => mgr'[o] = mgr[o] /\ mgr[o] = Closed /\ ~mgr[o].open
  <2>1. mgr'[m] = y /\ \A o \in Managers : o # m => mgr'[o] = mgr[o]
    BY <1>3 DEF MgrSet, CtxTyped
  <2> QED BY <2>1 DEF CtxSessions
<1>19. CtxSessions'
  <2>1. \A o, p \in Managers : mgr'[o].open /\ mgr'[p].open => o = p
    BY <1>18
  <2>2. \A o \in Managers : CtxBelow(mgr'[o].sums.end, CtxA') /\ CtxBelow(mgr'[o].data.end, CtxA')
    BY <1>9, <1>17, <1>18 DEF CtxSessions
  <2>3. \A o \in Managers : IF mgr'[o].open THEN SessionOk(mgr'[o], N2, F2, i2, h2) ELSE mgr'[o] = Closed
    BY <1>16, <1>17, <1>18
  <2> QED BY <2>1, <2>2, <2>3 DEF CtxSessions, N2, F2, i2, h2
<1> QED BY <1>14, <1>19

(* No turn waits to be stored: Postgres has all the numbers there are.     *)
LEMMA IdleNumbers ==
  ASSUME CtxTyped, CtxStores, CtxDue(pgTasks) = {}, Up("pg")
  PROVE CtxN = {r.turn : r \in PgRows} /\ PgRows = pg.rows
<1>1. ASSUME NEW i \in 1..Len(pgTasks) PROVE pgTasks[i][1].put # "turn"
  <2>1. pgTasks \in Seq(CtxTask(Len(said))) /\ Len(pgTasks[i]) = 1 /\ Len(said) \in Nat
    BY CtxKnows DEF CtxStores, PgOk
  <2>2. CtxAt(pgTasks, i, 1) /\ i \in Nat
    BY <2>1 DEF CtxAt
  <2> QED BY <2>1, <2>2, DueIs
<1> QED BY <1>1 DEF CtxN, NumsAt, PgRows

(* A turn is added, or its number is asked for.                            *)
LEMMA AddKept ==
  ASSUME CtxTyped, CtxTyped', CtxStores, CtxSessions, Calm, MemoryTurns <= Window,
         NEW m \in Managers, Up("pg"),
         AddTurn(m) \/ AddAsksRedis(m) \/ AddAsksPg(m) \/ AddCold(m)
  PROVE CtxStores' /\ CtxSessions'
<1> DEFINE x == mgr[m]
<1>1. x \in CtxMgr(Len(said)) /\ Len(said) \in Nat /\ x.turns \in Seq(CtxRecords(Len(said)))
  BY MgrIn
<1>2. x.add # "no" => x.open
  BY DEF CtxSessions, Closed
<1>3. x.open
  BY <1>2 DEF AddTurn, MayAdd, AddAsksRedis, AddAsksPg, AddCold
<1>4. SessionOk(x, CtxN, CtxF, CtxIdle, CtxHas)
  BY <1>3 DEF CtxSessions
<1>5. Real(x.turns) \in Seq(CtxReal(Len(said)))
  BY <1>1, AfterIn
<1>6. ASSUME NEW y \in CtxMgr(Len(said)), MgrSet(m, y), y.open, y.turns = x.turns, y.loaded = x.loaded, y.load = x.load,
             y.sums = x.sums, y.data = x.data, x.loaded, x.load = "no", Real(x.turns) = <<>>,
             y.add = "push" => \A j \in CtxN : j <= y.n, UNCHANGED <<redisTasks, pgTasks, redis, pg, outage>>
      PROVE CtxStores' /\ CtxSessions'
  <2>1. CtxStores' /\ CtxIdle' = CtxIdle /\ CtxHas' = CtxHas
    BY <1>6, StoresStay
  <2>2. SessionOk(y, CtxN, CtxF, CtxIdle, CtxHas)
    <3> DEFINE i == CtxIdle
               h == CtxHas
               N == CtxN
               F == CtxF
    <3>1. SessionOk(x, N, F, i, h) /\ (y.add = "push" => \A j \in N : j <= y.n)
      BY <1>4, <1>6
    <3> HIDE DEF i, h, N, F, x
    <3>2. SessionOk(y, N, F, i, h)
      BY <1>1, <1>6, <3>1, SessionAsks
    <3> QED BY <3>2 DEF i, h, N, F
  <2>3. CtxBelow(y.sums.end, CtxA) /\ CtxBelow(y.data.end, CtxA)
    BY <1>6 DEF CtxSessions
  <2> QED BY <1>3, <1>6, <2>1, <2>2, <2>3, SessionMoves
<1>7. CASE AddTurn(m) /\ LastTurn(x.turns) > 0
  <2>1. Len(Real(x.turns)) < Window /\ x.loaded /\ x.load = "no" /\ UNCHANGED <<redis, pg, outage>>
    <3>1. Len(Real(x.turns)) < MemoryTurns /\ Len(Real(x.turns)) \in Nat
      BY <1>5, <1>7 DEF AddTurn, MayAdd
    <3>2. x.loaded /\ x.load = "no" /\ UNCHANGED <<redis, pg, outage>>
      BY <1>7 DEF AddTurn, MayAdd
    <3> QED BY <3>1, <3>2, CtxBounds
  <2>2. PICK r : NewTurn(m, LastTurn(x.turns) + 1, r)
    BY <1>7, AddsTurn
  <2>3. \A j \in CtxN : j < LastTurn(x.turns) + 1
    <3>1. Real(x.turns) # <<>> /\ LastTurn(x.turns) \in Nat
      BY <1>1, <1>7, LastTurnIn
    <3>2. LastTurn(x.turns) = Real(x.turns)[Len(Real(x.turns))].turn
      BY <3>1 DEF LastTurn, Last
    <3>3. \A j \in CtxN : j <= LastTurn(x.turns) /\ j \in Nat
      BY <1>4, <3>1, <3>2, CtxKnows DEF SessionOk
    <3> QED BY <3>1, <3>3
  <2> QED BY <1>3, <2>1, <2>2, <2>3, NewTurnKept
<1>8. CASE AddCold(m)
  <2>1. x.add = "push" /\ UNCHANGED <<redis, pg, outage>>
    BY <1>8 DEF AddCold
  <2>2. x.loaded /\ x.load = "no" /\ Real(x.turns) = <<>> /\ \A j \in CtxN : j <= x.n
    BY <1>4, <2>1 DEF SessionOk
  <2>3. Len(Real(x.turns)) < Window
    <3>1. Len(<<>>) = 0 /\ 0 < Window
      BY CtxBounds
    <3> QED BY <2>2, <3>1
  <2>4. PICK r : NewTurn(m, x.n + 1, r)
    BY <1>8, AddsTurn
  <2>5. \A j \in CtxN : j < x.n + 1
    <3>1. \A j \in CtxN : j \in Nat /\ j <= x.n
      BY <2>2, CtxKnows
    <3>2. x.n \in Nat
      BY MgrIn
    <3> QED BY <3>1, <3>2
  <2> QED BY <1>3, <2>1, <2>2, <2>3, <2>4, <2>5, NewTurnKept
<1>9. CASE AddTurn(m) /\ ~(LastTurn(x.turns) > 0)
  <2> DEFINE y == [x EXCEPT !.add = "redis"]
  <2>1. mgr' = [mgr EXCEPT ![m].add = "redis"] /\ UNCHANGED <<redisTasks, pgTasks, redis, pg, outage>> /\ x.loaded /\ x.load = "no"
    BY <1>9 DEF AddTurn, MayAdd
  <2>2. y \in CtxMgr(Len(said)) /\ MgrSet(m, y) /\ y.open = x.open /\ y.turns = x.turns /\ y.loaded = x.loaded
        /\ y.load = x.load /\ y.sums = x.sums /\ y.data = x.data /\ y.add = "redis"
    BY <1>1, <2>1 DEF CtxMgr, MgrSet, CtxTyped
  <2>3. Real(x.turns) = <<>>
    BY <1>1, <1>9, LastTurnIn
  <2> HIDE DEF y, x
  <2> QED BY <1>3, <1>6, <2>1, <2>2, <2>3
<1>10. CASE AddAsksPg(m)
  <2> DEFINE y == [x EXCEPT !.n = PgLast, !.add = "push"]
  <2>1. x.add = "pg" /\ UNCHANGED <<redisTasks, pgTasks, redis, pg, outage>>
        /\ mgr' = [mgr EXCEPT ![m].n = PgLast, ![m].add = "push"]
    BY <1>10 DEF AddAsksPg
  <2>2. x.loaded /\ x.load = "no" /\ Real(x.turns) = <<>> /\ CtxIdle
    BY <1>4, <2>1 DEF SessionOk
  <2>3. PgLast \in 0..Len(said) /\ \A r \in PgRows : r.turn \in 1..PgLast
    BY PgLastFacts
  <2>4. y \in CtxMgr(Len(said)) /\ y.open = x.open /\ y.turns = x.turns /\ y.loaded = x.loaded
        /\ y.load = x.load /\ y.sums = x.sums /\ y.data = x.data /\ y.n = PgLast
    BY <1>1, <2>3 DEF CtxMgr
  <2>5. MgrSet(m, y)
    <3>1. mgr \in [Managers -> CtxMgr(Len(said))]
      BY DEF CtxTyped
    <3>2. mgr' = [mgr EXCEPT ![m].n = PgLast, ![m].add = "push"]
      BY <2>1
    <3>3. mgr[m] \in CtxMgr(Len(said))
      BY <1>1
    <3> QED BY <2>3, <3>1, <3>2, <3>3 DEF MgrSet, CtxMgr
  <2>6. \A j \in CtxN : j <= PgLast
    <3>1. CtxDue(pgTasks) = {}
      BY <2>2 DEF CtxIdle
    <3>2. CtxN = {r.turn : r \in PgRows}
      BY <3>1, IdleNumbers
    <3> QED BY <2>3, <3>2
  <2> HIDE DEF y, x
  <2> QED BY <1>3, <1>6, <2>1, <2>2, <2>4, <2>5, <2>6
<1>11. CASE AddAsksRedis(m)
  <2> DEFINE n == IF RedisTurns = <<>> THEN 0 ELSE Last(RedisTurns).turn
             a == IF n = 0 THEN "pg" ELSE "push"
             y == [x EXCEPT !.n = n, !.add = a]
  <2>1. x.add = "redis" /\ UNCHANGED <<redisTasks, pgTasks, redis, pg, outage>>
        /\ mgr' = [mgr EXCEPT ![m].n = n, ![m].add = a]
    BY <1>11 DEF AddAsksRedis
  <2>2. x.loaded /\ x.load = "no" /\ Real(x.turns) = <<>> /\ CtxIdle
    BY <1>4, <2>1 DEF SessionOk
  <2>3. n \in 0..Len(said) /\ (n # 0 => \A j \in CtxN : j <= n)
    <3>1. CASE RedisTurns = <<>>
      BY <1>1, <3>1
    <3>2. CASE RedisTurns # <<>>
      <4>1. Up("redis") /\ RedisTurns = redis.turns /\ redis.turns \in Seq(CtxReal(Len(said)))
        BY <3>2, CtxKnows DEF RedisTurns
      <4>2. \A j \in CtxN : j <= redis.turns[Len(redis.turns)].turn
        BY <2>2, <3>2, <4>1 DEF CtxStores, CtxIdle, RedisOk, RedisNewest
      <4>3. Last(RedisTurns) = redis.turns[Len(redis.turns)] /\ Last(RedisTurns) \in CtxReal(Len(said))
        BY <3>2, <4>1 DEF Last
      <4>4. Last(RedisTurns).turn \in 1..Len(said)
        BY <4>3 DEF CtxReal
      <4> QED BY <1>1, <3>2, <4>2, <4>3, <4>4
    <3> QED BY <3>1, <3>2
  <2> HIDE DEF n
  <2>4. a \in {"pg", "push"} /\ (a = "push" => n # 0)
    OBVIOUS
  <2> HIDE DEF a
  <2>5. y \in CtxMgr(Len(said)) /\ y.open = x.open /\ y.turns = x.turns /\ y.loaded = x.loaded
        /\ y.load = x.load /\ y.sums = x.sums /\ y.data = x.data /\ y.n = n /\ y.add = a
    BY <1>1, <2>3, <2>4 DEF CtxMgr
  <2>6. MgrSet(m, y)
    <3>1. mgr \in [Managers -> CtxMgr(Len(said))]
      BY DEF CtxTyped
    <3>2. mgr' = [mgr EXCEPT ![m].n = n, ![m].add = a]
      BY <2>1
    <3>3. mgr[m] \in CtxMgr(Len(said))
      BY <1>1
    <3> QED BY <3>1, <3>2, <3>3 DEF MgrSet, CtxMgr
  <2> HIDE DEF y, x
  <2> QED BY <1>3, <1>6, <2>1, <2>2, <2>3, <2>4, <2>5, <2>6
<1> QED BY <1>7, <1>8, <1>9, <1>10, <1>11

-----------------------------------------------------------------------------
(* A context is loaded.                                                    *)

(* A load is done and nothing else moves, or Redis is warmed up with it.   *)
LEMMA LoadDone ==
  ASSUME CtxTyped, CtxSessions, CtxStores', NEW m \in Managers, mgr[m].open,
         NEW memory \in CtxMgr(Len(said)), NEW data \in CtxSums(Len(said)),
         NEW rs \in Seq(CtxRecords(Len(said))), Finish(m, memory, data, rs),
         NEW R, Real(rs) = R, memory.open, memory.add = mgr[m].add, memory.n = mgr[m].n,
         data.l3 = {} => Real(memory.turns) = R, data.l3 # {} => Real(WithSummary(data, rs)) = R,
         CtxBelow(memory.sums.end, CtxA), mgr[m].add # "no" => R = <<>>,
         R = <<>> => CtxIdle', R # <<>> => CtxHas', Len(R) <= Window,
         R # <<>> => \A n \in CtxN : n <= R[Len(R)].turn,
         Len(R) < Window => \A n \in CtxF : \E j \in 1..Len(R) : R[j].turn = n,
         UNCHANGED <<pgTasks, pg, outage>>
  PROVE CtxSessions'
<1> DEFINE y == Finished(memory, data, rs)
<1>1. /\ MgrSet(m, y) /\ y \in CtxMgr(Len(said))
      /\ y.turns = (IF data.l3 = {} THEN memory.turns ELSE WithSummary(data, rs))
      /\ y.sums = (IF data.l3 = {} THEN memory.sums ELSE NoSummary)
      /\ y.load = "no" /\ y.data = NoSummary /\ y.loaded = TRUE /\ y.open = memory.open
      /\ y.add = memory.add /\ y.n = memory.n
  <2>1. y \in CtxMgr(Len(said)) /\ MgrSet(m, y)
    BY FinishDoes
  <2>2. y.turns = (IF data.l3 = {} THEN memory.turns ELSE WithSummary(data, rs))
        /\ y.sums = (IF data.l3 = {} THEN memory.sums ELSE NoSummary)
    BY DEF Finished, CtxMgr
  <2>3. y.load = "no" /\ y.data = NoSummary /\ y.loaded = TRUE
    BY DEF Finished, CtxMgr
  <2>4. y.open = memory.open /\ y.add = memory.add /\ y.n = memory.n
    BY DEF Finished, CtxMgr
  <2> QED BY <2>1, <2>2, <2>3, <2>4
<1> HIDE DEF y
<1>2. Real(y.turns) = R
  BY <1>1
<1>3. CtxBelow(NoSummary.end, CtxA)
  BY CtxKnows DEF CtxBelow, NoSummary
<1>4. CtxBelow(y.sums.end, CtxA) /\ CtxBelow(y.data.end, CtxA)
  BY <1>1, <1>3
<1>5. SessionOk(mgr[m], CtxN, CtxF, CtxIdle, CtxHas)
  BY DEF CtxSessions
<1>6. y.add = "push" => \A n \in CtxN : n <= y.n
  BY <1>1, <1>5 DEF SessionOk
<1>7. SessionOk(y, CtxN, CtxF, CtxIdle', CtxHas')
  <2> DEFINE i == CtxIdle'
             h == CtxHas'
             N == CtxN
             F == CtxF
  <2>1. /\ (R = <<>> => i) /\ (R # <<>> => h) /\ (y.add = "push" => \A n \in N : n <= y.n)
        /\ R # <<>> => \A n \in N : n <= R[Len(R)].turn
        /\ Len(R) < Window => \A n \in F : \E j \in 1..Len(R) : R[j].turn = n
    BY <1>6
  <2>2. y.loaded /\ y.load = "no" /\ (y.add # "no" => R = <<>>) /\ Len(R) <= Window
    BY <1>1
  <2> HIDE DEF i, h, N, F
  <2>3. SessionOk(y, N, F, i, h)
    BY <1>2, <2>1, <2>2, SessionLoaded
  <2> QED BY <2>3 DEF i, h, N, F
<1> QED BY <1>1, <1>4, <1>7, SessionMoves

LEMMA OnlyReal ==
  ASSUME NEW u \in Nat, NEW rs \in Seq(CtxReal(u)), NEW data \in CtxSums(u)
  PROVE Real(rs) = rs /\ Real(WithSummary(data, rs)) = rs
<1>1. rs \in Seq(CtxRecords(u)) /\ <<>> \in Seq(CtxRecords(u))
  BY CtxGrows, SeqMonotonic
<1>2. rs = <<>> \o rs
  BY ConcatEmptySeq
<1>3. \A i \in 1..Len(<<>>) : <<>>[i].turn <= 0
  OBVIOUS
<1>4. Real(WithSummary(data, rs)) = rs
  BY <1>1, <1>2, <1>3, WithSummaryFacts
<1> QED BY <1>4, RealIsAll

LEMMA LoadWarmKept ==
  ASSUME CtxTyped, CtxStores, CtxSessions, NEW m \in Managers, LoadWarm(m)
  PROVE CtxStores' /\ CtxSessions'
<1> DEFINE u == Len(said)
           x == mgr[m]
           R == Real(x.turns)
           rs == Hot(x.turns, Window)
<1>1. x \in CtxMgr(u) /\ u \in Nat /\ x.sums \in CtxSums(u) /\ x.turns \in Seq(CtxRecords(u))
  BY MgrIn
<1>2. /\ Finish(m, x, x.sums, rs) /\ UNCHANGED <<redisTasks, pgTasks, redis, pg, outage>>
      /\ x.open /\ x.load = "no" /\ x.turns # <<>>
  BY DEF LoadWarm
<1>3. SessionOk(x, CtxN, CtxF, CtxIdle, CtxHas) /\ CtxBelow(x.sums.end, CtxA)
  BY <1>2 DEF CtxSessions
<1>4. CtxStores' /\ CtxIdle' = CtxIdle /\ CtxHas' = CtxHas
  BY <1>2, StoresStay
<1>5. R \in Seq(CtxReal(u)) /\ Len(R) <= Window /\ Len(R) \in Nat
  BY <1>1, <1>3, AfterIn DEF SessionOk
<1>6. rs \in Seq(CtxRecords(u)) /\ Real(rs) = R
  <2>1. rs \in Seq(CtxRecords(u)) /\ Real(rs) = LastN(R, Window)
    BY <1>1, HotFacts
  <2>2. LastN(R, Window) = R
    BY <1>5, CtxBounds, LastNFacts
  <2> QED BY <2>1, <2>2
<1>7. Real(WithSummary(x.sums, rs)) = R
  <2>1. Virtual(x.turns) \in Seq(CtxRecords(u)) /\ \A i \in 1..Len(Virtual(x.turns)) : Virtual(x.turns)[i].turn <= 0
    BY <1>1, VirtualIn
  <2>2. rs = Virtual(x.turns) \o R
    <3>1. LastN(R, Window) = R
      BY <1>5, CtxBounds, LastNFacts
    <3> QED BY <3>1 DEF Hot
  <2> HIDE DEF rs, R, x, u
  <2> QED BY <1>1, <1>5, <1>6, <2>1, <2>2, WithSummaryFacts DEF x, u
<1>8. x.loaded
  BY <1>2, <1>3 DEF SessionOk
<1>9. /\ x.add # "no" => R = <<>>
      /\ R = <<>> => CtxIdle
      /\ R # <<>> => CtxHas
      /\ R # <<>> => \A n \in CtxN : n <= R[Len(R)].turn
      /\ Len(R) < Window => \A n \in CtxF : \E j \in 1..Len(R) : R[j].turn = n
  BY <1>3, <1>8 DEF SessionOk
<1> HIDE DEF x, R, rs, u
<1>10. mgr[m] = x /\ u = Len(said) /\ Real(x.turns) = R
  BY DEF x, u, R
<1>11. CtxSessions'
  BY <1>1, <1>2, <1>3, <1>4, <1>5, <1>6, <1>7, <1>9, <1>10, LoadDone
<1> QED BY <1>4, <1>11

LEMMA LoadColdKept ==
  ASSUME CtxTyped, CtxStores, CtxSessions, Calm, NEW m \in Managers, LoadCold(m)
  PROVE CtxStores' /\ CtxSessions'
<1> DEFINE u == Len(said)
           x == mgr[m]
           data == IF x.sums = NoSummary THEN RedisSummary ELSE x.sums
           y == [x EXCEPT !.load = "redis", !.data = data, !.sums = data]
<1>1. x \in CtxMgr(u) /\ u \in Nat /\ x.sums \in CtxSums(u)
  BY MgrIn
<1>2. /\ mgr' = [mgr EXCEPT ![m].load = "redis", ![m].data = data, ![m].sums = data]
      /\ UNCHANGED <<redisTasks, pgTasks, redis, pg, outage>>
      /\ x.open /\ x.load = "no" /\ x.turns = <<>> /\ x.add = "no"
  BY DEF LoadCold
<1>3. SessionOk(x, CtxN, CtxF, CtxIdle, CtxHas) /\ CtxBelow(x.sums.end, CtxA)
  BY <1>2 DEF CtxSessions
<1>4. CtxStores' /\ CtxIdle' = CtxIdle /\ CtxHas' = CtxHas
  BY <1>2, StoresStay
<1>5. data \in CtxSums(u)
  BY <1>1, RedisFacts
<1>6. CtxBelow(data.end, CtxA)
  <2>1. CtxBelow(NoSummary.end, CtxA)
    BY CtxKnows DEF CtxBelow, NoSummary
  <2>2. CtxBelow(RedisSummary.end, CtxA)
    BY <2>1 DEF RedisSummary, CtxStores
  <2> QED BY <1>3, <2>2
<1> HIDE DEF data
<1>7. y \in CtxMgr(u) /\ y.open = x.open /\ y.turns = x.turns /\ y.loaded = x.loaded /\ y.add = x.add
      /\ y.sums = data /\ y.data = data
  BY <1>1, <1>5 DEF CtxMgr
<1>8. MgrSet(m, y)
  <2>1. mgr \in [Managers -> CtxMgr(u)]
    BY DEF CtxTyped
  <2> QED BY <1>1, <1>2, <1>5, <2>1 DEF MgrSet, CtxMgr
<1>9. SessionOk(y, CtxN, CtxF, CtxIdle, CtxHas)
  <2> DEFINE i == CtxIdle
             h == CtxHas
             N == CtxN
             F == CtxF
  <2>1. SessionOk(x, N, F, i, h)
    BY <1>3
  <2> HIDE DEF i, h, N, F, x, y, u
  <2>2. SessionOk(y, N, F, i, h)
    BY <1>1, <1>2, <1>7, <2>1, SessionLoads
  <2> QED BY <2>2 DEF i, h, N, F
<1>10. CtxSessions'
  <2> HIDE DEF y, x
  <2> QED BY <1>2, <1>4, <1>6, <1>7, <1>8, <1>9, SessionMoves DEF x
<1> QED BY <1>4, <1>10

LEMMA LoadRedisKept ==
  ASSUME CtxTyped, CtxStores, CtxSessions, NEW m \in Managers, LoadRedis(m)
  PROVE CtxStores' /\ CtxSessions'
<1> DEFINE u == Len(said)
           x == mgr[m]
           rs == RedisLoad(m)
           filled == Filled(m, rs, x.data)
<1>1. x \in CtxMgr(u) /\ u \in Nat /\ x.data \in CtxSums(u) /\ x.data.end \in Nat /\ x.sums \in CtxSums(u)
  BY MgrIn
<1>2. /\ rs = <<>> => mgr' = [mgr EXCEPT ![m].load = "pg"]
      /\ rs # <<>> => Finish(m, filled, x.data, rs)
      /\ UNCHANGED <<redisTasks, pgTasks, redis, pg, outage>> /\ x.load = "redis"
  BY DEF LoadRedis, RedisLoad, Filled
<1>3. x.open
  BY <1>2 DEF CtxSessions, Closed
<1>4. SessionOk(x, CtxN, CtxF, CtxIdle, CtxHas) /\ CtxBelow(x.sums.end, CtxA) /\ CtxBelow(x.data.end, CtxA)
  BY <1>3 DEF CtxSessions
<1>5. CtxStores' /\ CtxIdle' = CtxIdle /\ CtxHas' = CtxHas
  BY <1>2, StoresStay
<1>6. x.turns = <<>> /\ x.add = "no" /\ CtxIdle
  <2>1. x.turns = <<>> /\ x.add = "no"
    BY <1>2, <1>4 DEF SessionOk
  <2> QED BY <1>4, <2>1, NoneReal DEF SessionOk
<1>7. CASE rs = <<>>
  <2> DEFINE y == [x EXCEPT !.load = "pg"]
  <2>1. y \in CtxMgr(u) /\ y.open = x.open /\ y.turns = x.turns /\ y.loaded = x.loaded /\ y.add = x.add
        /\ y.sums = x.sums /\ y.data = x.data
    BY <1>1 DEF CtxMgr
  <2>2. MgrSet(m, y)
    <3>1. mgr \in [Managers -> CtxMgr(u)]
      BY DEF CtxTyped
    <3>2. mgr' = [mgr EXCEPT ![m].load = "pg"]
      BY <1>2, <1>7
    <3> QED BY <3>1, <3>2, <1>1 DEF MgrSet, CtxMgr
  <2>3. SessionOk(y, CtxN, CtxF, CtxIdle, CtxHas)
    <3> DEFINE i == CtxIdle
               h == CtxHas
               N == CtxN
               F == CtxF
    <3>1. SessionOk(x, N, F, i, h)
      BY <1>4
    <3> HIDE DEF i, h, N, F, x, y, u
    <3>2. SessionOk(y, N, F, i, h)
      BY <1>1, <1>6, <2>1, <3>1, SessionLoads
    <3> QED BY <3>2 DEF i, h, N, F
  <2>4. CtxSessions'
    <3> HIDE DEF y, x, rs
    <3> QED BY <1>2, <1>3, <1>4, <1>5, <2>1, <2>2, <2>3, SessionMoves DEF x
  <2> QED BY <1>5, <2>4
<1>8. CASE rs # <<>>
  <2>1. Up("redis") /\ RedisTurns = redis.turns
    <3>1. ASSUME ~Up("redis") PROVE FALSE
      <4>1. RedisTurns = <<>> /\ <<>> \in Seq(CtxReal(u)) /\ Len(<<>>) = 0 /\ <<>> \in Seq(CtxRecords(u))
        BY <3>1 DEF RedisTurns
      <4>2. \A j \in 1..Len(<<>>) : j \notin {i \in DOMAIN <<>> : <<>>[i].turn > x.data.end}
        OBVIOUS
      <4>3. After(<<>>, x.data.end) = <<>>
        BY <4>1, <4>2, PickNone DEF After
      <4>4. LastN(<<>>, Window) = <<>>
        BY <4>1, CtxBounds DEF LastN
      <4> QED BY <1>8, <4>1, <4>3, <4>4 DEF RedisLoad
    <3> QED BY <3>1 DEF RedisTurns
  <2>2. CtxDue(redisTasks) = {}
    BY <1>6 DEF CtxIdle
  <2>3. RedisOk(redis.turns, {}, CtxN, CtxF)
    BY <2>1, <2>2 DEF CtxStores
  <2>4. \A n \in CtxF : x.data.end < n
    BY <1>1, <1>4, BelowIsOld
  <2>5. rs = LastN(After(redis.turns, x.data.end), Window)
    BY <2>1 DEF RedisLoad
  <2>6. redis.turns \in Seq(CtxReal(u)) /\ CtxN \subseteq Nat /\ CtxF \subseteq CtxN
    BY CtxKnows
  <2> HIDE DEF rs
  <2>7. /\ rs \in Seq(CtxReal(u)) /\ Len(rs) <= Window
        /\ rs # <<>> => redis.turns # <<>> /\ \A n \in CtxN : n <= rs[Len(rs)].turn
        /\ rs # <<>> /\ Len(rs) < Window => \A n \in CtxF : \E i \in 1..Len(rs) : rs[i].turn = n
    <3> DEFINE e == x.data.end
               N == CtxN
               F == CtxF
               t == redis.turns
    <3>1. RedisOk(t, {}, N, F) /\ (\A n \in F : e < n) /\ rs = LastN(After(t, e), Window) /\ e \in Nat /\ u \in Nat
          /\ t \in Seq(CtxReal(u)) /\ N \subseteq Nat /\ F \subseteq N
      BY <1>1, <2>3, <2>4, <2>5, <2>6
    <3> HIDE DEF e, N, F, t, u
    <3>2. RedisGave(u, t, N, F, rs)
      BY <3>1, RedisGives
    <3> QED BY <3>2 DEF N, F, t, RedisGave
  <2>8. Real(rs) = rs /\ Real(WithSummary(x.data, rs)) = rs
    BY <1>1, <2>7, OnlyReal
  <2>9. filled \in CtxMgr(u) /\ rs \in Seq(CtxRecords(u)) /\ filled.turns = rs /\ filled.sums = x.data
        /\ filled.open = x.open /\ filled.add = x.add /\ filled.n = x.n
    BY <1>1, <2>7, FilledIn
  <2>10. CtxHas
    BY <1>8, <2>7 DEF CtxHas
  <2> DEFINE data == x.data
  <2>11. /\ mgr[m].open /\ filled \in CtxMgr(Len(said)) /\ data \in CtxSums(Len(said))
         /\ rs \in Seq(CtxRecords(Len(said))) /\ Finish(m, filled, data, rs)
    BY <1>1, <1>2, <1>3, <1>8, <2>9
  <2>12. /\ Real(rs) = rs /\ filled.open /\ filled.add = mgr[m].add /\ filled.n = mgr[m].n
         /\ Real(filled.turns) = rs /\ Real(WithSummary(data, rs)) = rs
         /\ CtxBelow(filled.sums.end, CtxA) /\ mgr[m].add = "no"
    BY <1>3, <1>4, <1>6, <2>8, <2>9
  <2>13. /\ rs # <<>> /\ CtxHas' /\ Len(rs) <= Window
         /\ \A n \in CtxN : n <= rs[Len(rs)].turn
         /\ Len(rs) < Window => \A n \in CtxF : \E j \in 1..Len(rs) : rs[j].turn = n
         /\ UNCHANGED <<pgTasks, pg, outage>>
    BY <1>2, <1>5, <1>8, <2>7, <2>10
  <2> HIDE DEF filled, data, x, u
  <2>14. CtxSessions'
    BY <1>5, <2>11, <2>12, <2>13, LoadDone
  <2> QED BY <1>5, <2>14
<1> QED BY <1>7, <1>8

DueFrom(tasks, rs) == CtxDue(tasks) = {rs[i].turn : i \in 1..Len(rs)}

(* What warms Redis up: a summary, and the turns in order.                 *)
LEMMA RewarmDue ==
  ASSUME NEW u \in Nat, NEW tasks \in Seq(CtxTask(u)), NEW data \in CtxSums(u), NEW rs \in Seq(CtxReal(u)),
         \A i, j \in 1..Len(rs) : i < j => rs[i].turn < rs[j].turn, CtxDue(tasks) = {},
         NEW more, more = Append(tasks, Rewarm(data, rs))
  PROVE /\ DueFrom(more, rs) /\ (CtxAscends(tasks) => CtxAscends(more))
        /\ \A A : CtxEndsBelow(tasks, A) /\ CtxBelow(data.end, A) => CtxEndsBelow(more, A)
<1> DEFINE T == Rewarm(data, rs)
           own == CtxOwn(T)
<1>1. /\ T \in CtxTask(u) /\ Len(T) = Len(rs) + 1
      /\ T[1] = [put |-> "summary", what |-> data]
      /\ \A i \in 1..Len(rs) : T[i + 1] = [put |-> "turn", what |-> rs[i]]
  BY RewarmIn
<1> HIDE DEF T
<1>2. Len(rs) \in Nat /\ \A i \in 1..Len(rs) : rs[i].turn \in Nat
  <2>1. \A i \in 1..Len(rs) : rs[i] \in CtxReal(u)
    OBVIOUS
  <2>2. 1..u \subseteq Nat
    OBVIOUS
  <2> QED BY <2>1, <2>2 DEF CtxReal
<1>3. \A k \in 1..Len(T) : k = 1 \/ (k - 1 \in 1..Len(rs) /\ k = (k - 1) + 1 /\ k \in Int)
  BY <1>1, <1>2
<1>4. T[1].put = "summary" /\ T[1].what = data /\ T[1].put # "turn"
  BY <1>1
<1>5. \A k \in 1..Len(T) : k # 1 => T[k].put = "turn" /\ T[k].put # "summary" /\ T[k].what = rs[k - 1]
  <2> SUFFICES ASSUME NEW k \in 1..Len(T), k # 1
               PROVE T[k].put = "turn" /\ T[k].put # "summary" /\ T[k].what = rs[k - 1]
    OBVIOUS
  <2>1. T[k] = [put |-> "turn", what |-> rs[k - 1]]
    BY <1>1, <1>3
  <2> QED BY <2>1
<1>6. own = {rs[i].turn : i \in 1..Len(rs)}
  <2>1. ASSUME NEW n \in own PROVE n \in {rs[i].turn : i \in 1..Len(rs)}
    <3>1. PICK k \in 1..Len(T) : T[k].put = "turn" /\ T[k].what.turn = n
      BY <2>1 DEF CtxOwn
    <3> QED BY <1>3, <1>4, <1>5, <3>1
  <2>2. ASSUME NEW i \in 1..Len(rs) PROVE rs[i].turn \in own
    <3>1. i + 1 \in 1..Len(T)
      BY <1>1, <1>2
    <3>2. T[i + 1] = [put |-> "turn", what |-> rs[i]]
      BY <1>1
    <3>3. T[i + 1].put = "turn" /\ T[i + 1].what = rs[i]
      BY <3>2
    <3> QED BY <1>2, <3>1, <3>3 DEF CtxOwn
  <2> QED BY <2>1, <2>2
<1>7. \A k, l \in 1..Len(T) : k < l /\ T[k].put = "turn" /\ T[l].put = "turn" => T[k].what.turn < T[l].what.turn
  <2> SUFFICES ASSUME NEW k \in 1..Len(T), NEW l \in 1..Len(T), k < l, T[k].put = "turn", T[l].put = "turn"
               PROVE T[k].what.turn < T[l].what.turn
    OBVIOUS
  <2>1. k # 1 /\ l # 1
    BY <1>4
  <2>2. k - 1 \in 1..Len(rs) /\ l - 1 \in 1..Len(rs) /\ k - 1 < l - 1
    BY <1>3, <2>1
  <2>3. T[k].what = rs[k - 1] /\ T[l].what = rs[l - 1]
    BY <1>5, <2>1
  <2> QED BY <2>2, <2>3
<1> HIDE DEF own
<1>8. own = CtxOwn(T) /\ more = Append(tasks, T)
  BY DEF own, T
<1>9. CtxDue(more) = own
  <2>1. CtxDue(Append(tasks, T)) = CtxDue(tasks) \cup own
    <3>1. u \in Nat /\ tasks \in Seq(CtxTask(u)) /\ T \in CtxTask(u)
      BY <1>1
    <3> QED BY ONLY <1>8, <3>1, DueMore
  <2> QED BY <1>8, <2>1
<1>10. CtxAscends(tasks) => CtxAscends(more)
  <2>1. \A d \in CtxDue(tasks), o \in own : d < o
    OBVIOUS
  <2> QED BY <1>1, <1>7, <1>8, <2>1, DueMore
<1>11. ASSUME NEW A, CtxEndsBelow(tasks, A), CtxBelow(data.end, A) PROVE CtxEndsBelow(more, A)
  <2>1. \A k \in 1..Len(T) : T[k].put = "summary" => \E a \in A : T[k].what.end <= a
    BY <1>4, <1>5, <1>11 DEF CtxBelow
  <2>2. CtxEndsBelow(Append(tasks, T), A)
    BY <1>1, <1>8, <1>11, <2>1, DueMore
  <2> QED BY <1>8, <2>2
<1> QED BY <1>6, <1>9, <1>10, <1>11 DEF DueFrom

(* What Postgres has behind the anchor of its summary, when no turn waits  *)
(* to be stored: all that is fresh, in order, and it fits the window.      *)
PgGives(e, rs, N, F) ==
  /\ e \in Nat /\ rs \in Seq(CtxReal(Len(said))) /\ Len(rs) <= Window /\ CtxBelow(e, CtxA)
  /\ {rs[i].turn : i \in 1..Len(rs)} = {n \in N : e < n}
  /\ \A i, j \in 1..Len(rs) : i < j => rs[i].turn < rs[j].turn
  /\ \A n \in F : \E i \in 1..Len(rs) : rs[i].turn = n
  /\ rs # <<>> => \A n \in N : n <= rs[Len(rs)].turn

LEMMA PgGivesAll ==
  ASSUME CtxTyped, CtxStores, CtxDue(pgTasks) = {}, Up("pg"), NEW s \in CtxSums(Len(said)), CtxBelow(s.end, CtxA),
         NEW e, e = PgSummary(s).end
  PROVE PgGives(e, PgTurns(e), CtxN, CtxF)
<1> DEFINE rs == PgTurns(e)
           u == Len(said)
<1>1. /\ PgTyped(u, pg.rows, pg.sums, pgTasks) /\ u \in Nat /\ CtxN \subseteq Nat /\ CtxF \subseteq CtxN
      /\ CtxA \subseteq Nat /\ 0 \in CtxA /\ Len(pgTasks) \in Nat
  BY CtxKnows DEF PgTyped
<1>2. CtxN = {r.turn : r \in PgRows} /\ PgRows = pg.rows
  BY IdleNumbers
<1>3. PgSummary(s) \in CtxSums(u) /\ e \in Nat
  <2>1. PgSummary(s) \in CtxSums(u)
    BY PgSummaryFacts
  <2> QED BY <2>1 DEF CtxSums
<1>4. CtxBelow(e, CtxA)
  <2>1. CASE pg.sums # {}
    <3>1. PgSummary(s) \in pg.sums
      BY <2>1, PgSummaryFacts
    <3>2. e \in CtxA
      BY <3>1 DEF CtxA, AnchorsAt
    <3> QED BY <1>3, <3>2 DEF CtxBelow
  <2>2. CASE pg.sums = {}
    BY <2>2, PgSummaryFacts
  <2> QED BY <2>1, <2>2
<1>5. \A o \in pg.sums : o.end <= e
  BY PgSummaryFacts
<1> DEFINE P == PgAfter(e)
           G == FreshAt(pg.rows, pg.sums, pgTasks, 0)
<1>6. P = {n \in CtxN : e < n}
  <2>1. \A n \in CtxN : n \in Nat /\ (n > e <=> e < n)
    BY <1>1, <1>3
  <2> QED BY <1>2, <2>1 DEF PgAfter
<1>7. P \subseteq G
  <2> SUFFICES ASSUME NEW n \in P PROVE n \in G
    OBVIOUS
  <2>1. n \in CtxN /\ e < n /\ n \in Nat
    BY <1>1, <1>6
  <2>2. n \in NumsAt(pg.rows, pgTasks, 0)
    BY <1>2, <2>1 DEF NumsAt
  <2>3. AnchorsAt(pg.sums, pgTasks, 0) = {0} \cup {o.end : o \in pg.sums}
    BY DEF AnchorsAt
  <2>4. \A o \in pg.sums : o.end \in Nat
    BY <1>1 DEF PgTyped, CtxSums
  <2>5. \A a \in AnchorsAt(pg.sums, pgTasks, 0) : a < n
    BY <1>3, <1>5, <2>1, <2>3, <2>4
  <2> QED BY <2>2, <2>5 DEF FreshAt
<1> HIDE DEF P, G, rs, u
<1>8. IsFiniteSet(G) /\ Cardinality(G) <= Window
  <2>1. 0 \in 0..Len(pgTasks)
    BY <1>1
  <2>2. IsFiniteSet(G)
    BY <1>1, <2>1, PgNumbers DEF G, u
  <2> QED BY <2>1, <2>2 DEF CtxStores, PgOk, G
<1>9. Cardinality(P) <= Window
  <2>1. IsFiniteSet(P) /\ Cardinality(P) <= Cardinality(G)
    BY <1>7, <1>8, FS_Subset
  <2>2. Cardinality(P) \in Nat /\ Cardinality(G) \in Nat
    BY <1>8, <2>1, FS_CardinalityType
  <2> QED BY <1>8, <2>1, <2>2, CtxBounds
<1>10. /\ rs \in Seq(CtxReal(u)) /\ Len(rs) <= Window
       /\ \A i \in 1..Len(rs) : rs[i] \in PgRows /\ rs[i].turn > e
       /\ \A i, j \in 1..Len(rs) : i < j => rs[i].turn < rs[j].turn
  BY <1>3, PgTurnsFacts DEF rs, u
<1>11. /\ \A n \in P : \E i \in 1..Len(rs) : rs[i].turn = n
       /\ rs # <<>> => Last(rs).turn = PgLast
  <2>1. Cardinality(PgAfter(e)) <= Window
    BY <1>9 DEF P
  <2> QED BY <1>3, <2>1, PgTurnsFacts DEF rs, P
<1>12. {rs[i].turn : i \in 1..Len(rs)} = {n \in CtxN : e < n}
  <2>1. \A i \in 1..Len(rs) : rs[i].turn \in CtxN /\ rs[i].turn \in Nat /\ e < rs[i].turn
    BY <1>1, <1>2, <1>3, <1>10
  <2> QED BY <1>6, <1>11, <2>1
<1>13. \A n \in CtxF : e < n
  BY <1>3, <1>4, BelowIsOld
<1>14. \A n \in CtxF : \E i \in 1..Len(rs) : rs[i].turn = n
  BY <1>1, <1>6, <1>11, <1>13
<1>15. rs # <<>> => \A n \in CtxN : n <= rs[Len(rs)].turn
  <2>1. PgLast \in 0..Len(said) /\ \A r \in PgRows : r.turn \in 1..PgLast
    BY PgLastFacts
  <2>2. \A n \in CtxN : n <= PgLast
    BY <1>2, <2>1
  <2> QED BY <1>11, <2>2 DEF Last
<1> QED BY <1>3, <1>4, <1>10, <1>12, <1>14, <1>15 DEF PgGives, rs, u

LEMMA LoadPgKept ==
  ASSUME CtxTyped, CtxStores, CtxSessions, Up("pg"), NEW m \in Managers, LoadPg(m)
  PROVE CtxStores' /\ CtxSessions'
<1> DEFINE u == Len(said)
           x == mgr[m]
           data == PgSummary(x.data)
           e == data.end
           rs == PgTurns(e)
           filled == Filled(m, rs, data)
<1>1. x \in CtxMgr(u) /\ u \in Nat /\ x.data \in CtxSums(u) /\ x.sums \in CtxSums(u) /\ data \in CtxSums(u)
  BY MgrIn, LoadsRead
<1>2. /\ rs = <<>> => Finish(m, x, data, rs) /\ UNCHANGED redisTasks
      /\ rs # <<>> => Finish(m, filled, data, rs) /\ redisTasks' = Append(redisTasks, Rewarm(data, rs))
      /\ UNCHANGED <<pgTasks, redis, pg, outage>> /\ x.load = "pg"
  BY DEF LoadPg, Filled
<1>3. x.open
  BY <1>2 DEF CtxSessions, Closed
<1>4. SessionOk(x, CtxN, CtxF, CtxIdle, CtxHas) /\ CtxBelow(x.sums.end, CtxA) /\ CtxBelow(x.data.end, CtxA)
  BY <1>3 DEF CtxSessions
<1>5. x.turns = <<>> /\ x.add = "no" /\ CtxIdle
  <2>1. x.turns = <<>> /\ x.add = "no"
    BY <1>2, <1>4 DEF SessionOk
  <2> QED BY <1>4, <2>1, NoneReal DEF SessionOk
<1>6. CtxDue(redisTasks) = {} /\ CtxDue(pgTasks) = {}
  BY <1>5 DEF CtxIdle
<1>7. PgGives(e, rs, CtxN, CtxF)
  BY <1>1, <1>4, <1>6, PgGivesAll
<1> HIDE DEF rs, data
<1>8. Real(rs) = rs /\ Real(WithSummary(data, rs)) = rs
  BY <1>1, <1>7, OnlyReal DEF PgGives
<1>9. filled \in CtxMgr(u) /\ rs \in Seq(CtxRecords(u)) /\ filled.turns = rs /\ filled.sums = data
      /\ filled.open = x.open /\ filled.add = x.add /\ filled.n = x.n
  BY <1>1, <1>7, FilledIn DEF PgGives
<1>10. CASE rs = <<>>
  <2>1. CtxStores' /\ CtxIdle' = CtxIdle /\ CtxHas' = CtxHas
    BY <1>2, <1>10, StoresStay
  <2>2. /\ mgr[m].open /\ x \in CtxMgr(Len(said)) /\ data \in CtxSums(Len(said))
        /\ rs \in Seq(CtxRecords(Len(said))) /\ Finish(m, x, data, rs)
    BY <1>1, <1>2, <1>3, <1>9, <1>10
  <2>3. /\ Real(rs) = rs /\ x.open /\ x.add = mgr[m].add /\ x.n = mgr[m].n
        /\ Real(x.turns) = rs /\ Real(WithSummary(data, rs)) = rs
        /\ CtxBelow(x.sums.end, CtxA) /\ mgr[m].add = "no"
    BY <1>3, <1>4, <1>5, <1>8, <1>10
  <2>4. /\ rs = <<>> /\ CtxIdle' /\ Len(rs) <= Window
        /\ \A n \in CtxF : \E j \in 1..Len(rs) : rs[j].turn = n
        /\ UNCHANGED <<pgTasks, pg, outage>>
    BY <1>2, <1>5, <1>7, <1>10, <2>1 DEF PgGives
  <2> HIDE DEF filled, x, u
  <2>5. CtxSessions'
    BY <2>1, <2>2, <2>3, <2>4, LoadDone
  <2> QED BY <2>1, <2>5
<1>11. CASE rs # <<>>
  <2> DEFINE more == redisTasks'
             D == CtxDue(more)
  <2>1. more = Append(redisTasks, Rewarm(data, rs)) /\ UNCHANGED <<pgTasks, redis, pg, outage>>
    BY <1>2, <1>11
  <2>2. redisTasks \in Seq(CtxTask(u)) /\ redis.turns \in Seq(CtxReal(u)) /\ CtxN \subseteq Nat
        /\ e \in Nat /\ rs \in Seq(CtxReal(u)) /\ CtxBelow(data.end, CtxA)
        /\ \A i, j \in 1..Len(rs) : i < j => rs[i].turn < rs[j].turn
    BY <1>7, CtxKnows DEF PgGives
  <2> HIDE DEF more
  <2>3. D = {rs[i].turn : i \in 1..Len(rs)} /\ (CtxAscends(redisTasks) => CtxAscends(more))
        /\ (CtxEndsBelow(redisTasks, CtxA) => CtxEndsBelow(more, CtxA))
    <3> DEFINE A == CtxA
    <3> HIDE DEF A
    <3>1. u \in Nat /\ data \in CtxSums(u) /\ CtxDue(redisTasks) = {}
      BY <1>1, <1>6
    <3>2. CtxBelow(data.end, A)
      BY <2>2 DEF A
    <3> HIDE DEF u
    <3>3. DueFrom(more, rs)
      BY <2>1, <2>2, <3>1, RewarmDue
    <3>4. CtxAscends(redisTasks) => CtxAscends(more)
      BY <2>1, <2>2, <3>1, RewarmDue
    <3>5. CtxEndsBelow(redisTasks, A) => CtxEndsBelow(more, A)
      BY <2>1, <2>2, <3>1, <3>2, RewarmDue
    <3> QED BY <3>3, <3>4, <3>5 DEF A, DueFrom
  <2> HIDE DEF D
  <2>4. D = {n \in CtxN : e < n}
    BY <1>7, <2>3 DEF PgGives
  <2>5. CtxF \subseteq D
    BY <1>7, <2>3 DEF PgGives
  <2>6. \E d \in D : \A n \in CtxN : n <= d
    <3>1. Len(rs) \in 1..Len(rs)
      BY <1>11, <2>2
    <3>2. rs[Len(rs)].turn \in D /\ \A n \in CtxN : n <= rs[Len(rs)].turn
      BY <1>7, <1>11, <2>3, <3>1 DEF PgGives
    <3> QED BY <3>2
  <2>7. CtxN' = CtxN /\ CtxA' = CtxA /\ CtxF' = CtxF
    BY <2>1 DEF CtxN, CtxA, CtxF
  <2>8. Up("redis") => RedisOk(redis.turns, D, CtxN, CtxF)
    <3> SUFFICES ASSUME Up("redis") PROVE RedisOk(redis.turns, D, CtxN, CtxF)
      OBVIOUS
    <3>1. RedisOk(redis.turns, {}, CtxN, CtxF)
      BY <1>6 DEF CtxStores
    <3> DEFINE t == redis.turns
               N == CtxN
               F == CtxF
    <3>2. /\ t \in Seq(CtxReal(u)) /\ N \subseteq Nat /\ RedisOk(t, {}, N, F) /\ D = {n \in N : e < n} /\ e \in Nat
          /\ F \subseteq D /\ \E d \in D : \A n \in N : n <= d
      BY <2>2, <2>4, <2>5, <2>6, <3>1
    <3> HIDE DEF t, N, F, u, e
    <3>3. RedisOk(t, D, N, F)
      BY <3>2, RedisIsWarmed
    <3> QED BY <3>3 DEF t, N, F
  <2>9. CtxStores'
    <3>1. CtxDue(redisTasks') = D /\ CtxAscends(redisTasks') /\ CtxEndsBelow(redisTasks', CtxA)
      BY <2>3 DEF CtxStores, D, more
    <3>2. D \subseteq CtxN
      BY <2>4
    <3> QED BY <2>1, <2>7, <2>8, <3>1, <3>2 DEF CtxStores, Up
  <2>10. CtxHas'
    BY <2>6 DEF CtxHas, D, more
  <2>11. /\ mgr[m].open /\ filled \in CtxMgr(Len(said)) /\ data \in CtxSums(Len(said))
         /\ rs \in Seq(CtxRecords(Len(said))) /\ Finish(m, filled, data, rs)
    BY <1>1, <1>2, <1>3, <1>9, <1>11
  <2>12. /\ Real(rs) = rs /\ filled.open /\ filled.add = mgr[m].add /\ filled.n = mgr[m].n
         /\ Real(filled.turns) = rs /\ Real(WithSummary(data, rs)) = rs
         /\ CtxBelow(filled.sums.end, CtxA) /\ mgr[m].add = "no"
    BY <1>3, <1>5, <1>8, <1>9, <2>2
  <2>13. /\ rs # <<>> /\ CtxHas' /\ Len(rs) <= Window
         /\ \A n \in CtxN : n <= rs[Len(rs)].turn
         /\ \A n \in CtxF : \E j \in 1..Len(rs) : rs[j].turn = n
         /\ UNCHANGED <<pgTasks, pg, outage>>
    BY <1>7, <1>11, <2>1, <2>10 DEF PgGives
  <2> HIDE DEF filled, x, u, e
  <2>14. CtxSessions'
    BY <2>9, <2>11, <2>12, <2>13, LoadDone
  <2> QED BY <2>9, <2>14
<1> QED BY <1>10, <1>11

-----------------------------------------------------------------------------
(* Summaries, the tasks, and the invariant.                                *)

(* The compressor, and the tasks of the stores.                            *)
LEMMA CompressKept ==
  ASSUME CtxTyped, CtxStores, CtxSessions, NEW job \in jobs, Compress(job)
  PROVE CtxStores' /\ CtxSessions'
<1>1. UNCHANGED <<mgr, redis, pg, outage>>
  BY DEF Compress
<1>2. CASE UNCHANGED <<redisTasks, pgTasks>>
  <2>1. CtxStores' /\ CtxIdle' = CtxIdle /\ CtxHas' = CtxHas
    BY <1>1, <1>2, StoresStay
  <2>2. CtxN' = CtxN /\ CtxA' = CtxA /\ CtxF' = CtxF
    BY <1>1, <1>2 DEF CtxN, CtxA, CtxF
  <2> QED BY <1>1, <2>1, <2>2, SessionsStay
<1>3. ASSUME NEW s \in CtxSums(Len(said)),
             redisTasks' = Append(redisTasks, <<[put |-> "summary", what |-> s]>>),
             pgTasks' = Append(pgTasks, <<[put |-> "summary", what |-> s]>>)
      PROVE CtxStores' /\ CtxSessions'
  <2> DEFINE u == Len(said)
             rt == redisTasks'
             pt == pgTasks'
  <2>1. u \in Nat /\ redisTasks \in Seq(CtxTask(u)) /\ pgTasks \in Seq(CtxTask(u))
        /\ PgTyped(u, pg.rows, pg.sums, pgTasks) /\ CtxA \subseteq Nat /\ s.end \in Nat
    <3>1. s.end \in 0..Len(said) /\ Len(said) \in Nat
      BY <1>3, CtxKnows DEF CtxSums
    <3> QED BY <3>1, CtxKnows
  <2>2. rt = Append(redisTasks, <<[put |-> "summary", what |-> s]>>)
        /\ pt = Append(pgTasks, <<[put |-> "summary", what |-> s]>>) /\ s \in CtxSums(u)
    BY <1>3
  <2> HIDE DEF u, rt, pt
  <2>3. /\ PgOk(pg.rows, pg.sums, pt)
        /\ NumsAt(pg.rows, pt, Len(pt)) = CtxN
        /\ AnchorsAt(pg.sums, pt, Len(pt)) = CtxA \cup {s.end}
        /\ FreshAt(pg.rows, pg.sums, pt, Len(pt)) \subseteq CtxF
    <3> DEFINE more == Append(pgTasks, <<[put |-> "summary", what |-> s]>>)
    <3>1. PgOk(pg.rows, pg.sums, pgTasks)
      BY DEF CtxStores
    <3>2. /\ PgOk(pg.rows, pg.sums, more)
          /\ NumsAt(pg.rows, more, Len(more)) = NumsAt(pg.rows, pgTasks, Len(pgTasks))
          /\ AnchorsAt(pg.sums, more, Len(more)) = AnchorsAt(pg.sums, pgTasks, Len(pgTasks)) \cup {s.end}
          /\ FreshAt(pg.rows, pg.sums, more, Len(more)) \subseteq FreshAt(pg.rows, pg.sums, pgTasks, Len(pgTasks))
      BY <2>1, <2>2, <3>1, PgTakesSummary
    <3> HIDE DEF more
    <3>3. pt = more
      BY <2>2 DEF more
    <3> QED BY <3>2, <3>3 DEF CtxN, CtxA, CtxF
  <2>4. CtxN' = CtxN /\ CtxA' = CtxA \cup {s.end} /\ CtxF' \subseteq CtxF /\ PgOk(pg.rows, pg.sums, pgTasks)'
    BY <1>1, <2>3 DEF CtxN, CtxA, CtxF, pt
  <2> DEFINE A2 == CtxA \cup {s.end}
  <2>5. /\ CtxDue(rt) = CtxDue(redisTasks) /\ (CtxAscends(redisTasks) => CtxAscends(rt))
        /\ CtxDue(pt) = CtxDue(pgTasks)
    <3>1. SameDue(redisTasks, rt) /\ (CtxAscends(redisTasks) => CtxAscends(rt))
      BY <2>1, <2>2, DueNone
    <3>2. SameDue(pgTasks, pt)
      BY <2>1, <2>2, DueNone
    <3> QED BY <3>1, <3>2 DEF SameDue
  <2>6. CtxBelow(s.end, A2) /\ \A e : CtxBelow(e, CtxA) => CtxBelow(e, A2)
    <3>1. s.end <= s.end
      BY <2>1
    <3> QED BY <3>1 DEF CtxBelow
  <2>7. CtxEndsBelow(redisTasks, A2)
    BY DEF CtxStores, CtxEndsBelow
  <2> HIDE DEF A2
  <2>8. CtxEndsBelow(rt, A2)
    BY <2>1, <2>2, <2>6, <2>7, DueNone
  <2> DEFINE F2 == CtxF'
  <2>9. Up("redis") => RedisOk(redis.turns, CtxDue(redisTasks), CtxN, F2)
    <3>1. F2 \subseteq CtxF
      BY <2>4
    <3> HIDE DEF F2
    <3> QED BY <3>1, RedisFewer DEF CtxStores
  <2>10. CtxStores'
    <3>1. CtxDue(redisTasks') = CtxDue(redisTasks) /\ CtxAscends(redisTasks') /\ CtxEndsBelow(redisTasks', A2)
      BY <2>5, <2>8 DEF CtxStores, rt
    <3>2. CtxDue(redisTasks) \subseteq CtxN /\ CtxBelow(redis.sum.end, A2)
      BY <2>6 DEF CtxStores
    <3> QED BY <1>1, <2>4, <2>9, <3>1, <3>2 DEF CtxStores, Up, A2
  <2>11. (CtxIdle => CtxIdle') /\ (CtxHas => CtxHas')
    BY <1>1, <2>5 DEF CtxIdle, CtxHas, Up, rt, pt
  <2>12. CtxA \subseteq CtxA'
    BY <2>4
  <2>13. CtxSessions'
    BY <1>1, <2>4, <2>11, <2>12, SessionsStay
  <2> QED BY <2>10, <2>13
<1> QED BY <1>2, <1>3, CompressDoes

LEMMA RedisWriteKept ==
  ASSUME CtxTyped, CtxStores, CtxSessions, Calm, NEW i \in DOMAIN redisTasks, RedisWrite(i)
  PROVE CtxStores' /\ CtxSessions'
<1> DEFINE u == Len(said)
           w == Head(redisTasks[1])
           left == Advance(redisTasks, 1)
           t == redis.turns
           D == CtxDue(redisTasks)
<1>1. u \in Nat /\ redisTasks \in Seq(CtxTask(u)) /\ t \in Seq(CtxReal(u)) /\ CtxN \subseteq Nat /\ CtxF \subseteq CtxN
      /\ redisTasks # <<>> /\ redis \in [turns : Seq(CtxReal(u)), sum : CtxSums(u)]
  <2>1. redisTasks # <<>> /\ redis \in [turns : Seq(CtxReal(u)), sum : CtxSums(u)]
    BY CtxKnows DEF CtxTyped
  <2> QED BY <2>1, CtxKnows
<1>2. i = 1 /\ redisTasks' = left /\ UNCHANGED <<mgr, said, pgTasks, pg, outage>>
  BY DEF RedisWrite
<1>3. redis' = CASE ~Up("redis") -> redis
                [] Up("redis") /\ w.put = "turn" -> [redis EXCEPT !.turns = LastN(Append(@, w.what), Window)]
                [] OTHER -> [redis EXCEPT !.sum = w.what]
  BY <1>2 DEF RedisWrite
<1>4. /\ CtxDue(left) \subseteq D /\ CtxAscends(left) /\ CtxEndsBelow(left, CtxA)
      /\ w.put = "turn" \/ w.put = "summary"
      /\ w.put = "turn" => w.what \in CtxReal(u) /\ w.what.turn \in D
      /\ w.put = "turn" => (\A d \in D : w.what.turn <= d) /\ CtxDue(left) = D \ {w.what.turn}
      /\ w.put = "summary" => w.what \in CtxSums(u) /\ CtxDue(left) = D
      /\ w.put = "summary" => CtxBelow(w.what.end, CtxA)
  <2>1. CtxAscends(redisTasks) /\ CtxEndsBelow(redisTasks, CtxA)
    BY DEF CtxStores
  <2> DEFINE A == CtxA
             r == left
             f == w
  <2>2. CtxEndsBelow(redisTasks, A) /\ f = Head(redisTasks[1])
    BY <2>1
  <2> HIDE DEF A, f, u
  <2>3. /\ CtxEndsBelow(r, A)
        /\ f.put = "summary" => \E a \in A : f.what.end <= a
    BY <1>1, <2>2, DueLess
  <2>4. /\ CtxDue(r) \subseteq CtxDue(redisTasks) /\ CtxAscends(r)
        /\ f.put = "turn" \/ f.put = "summary"
        /\ f.put = "turn" => f.what \in CtxReal(u) /\ f.what.turn \in CtxDue(redisTasks)
        /\ f.put = "summary" => f.what \in CtxSums(u) /\ CtxDue(r) = CtxDue(redisTasks)
    BY <1>1, <2>1, <2>2, DueLess
  <2>5. f.put = "turn" => (\A d \in CtxDue(redisTasks) : f.what.turn <= d) /\ CtxDue(r) = CtxDue(redisTasks) \ {f.what.turn}
    BY <1>1, <2>1, <2>2, DueLess
  <2> QED BY <2>3, <2>4, <2>5 DEF A, f, u, CtxBelow
<1>5. CtxN' = CtxN /\ CtxA' = CtxA /\ CtxF' = CtxF
  BY <1>2 DEF CtxN, CtxA, CtxF
<1> DEFINE v == LastN(Append(t, w.what), Window)
<1>6. /\ ~Up("redis") => redis' = redis
      /\ Up("redis") /\ w.put = "turn" => redis'.turns = v /\ redis'.sum = redis.sum
      /\ Up("redis") /\ w.put = "summary" => redis'.turns = t /\ redis'.sum = w.what
  <2>1. CASE ~Up("redis")
    BY <1>3, <2>1
  <2>2. CASE Up("redis") /\ w.put = "turn"
    <3>1. redis' = [redis EXCEPT !.turns = v]
      BY <1>3, <2>2
    <3> HIDE DEF v
    <3> QED BY <1>1, <2>2, <3>1
  <2>3. CASE Up("redis") /\ w.put = "summary"
    <3>1. redis' = [redis EXCEPT !.sum = w.what]
      BY <1>3, <2>3
    <3> QED BY <1>1, <2>3, <3>1
  <2> QED BY <1>4, <2>1, <2>2, <2>3
<1>7. CtxDue(left) \subseteq CtxN /\ CtxDue(redisTasks') = CtxDue(left) /\ Up("redis")' = Up("redis")
  BY <1>2, <1>4 DEF CtxStores, Up
<1>8. Up("redis") /\ w.put = "turn" => RedisOk(v, CtxDue(left), CtxN, CtxF) /\ v # <<>>
  <2> SUFFICES ASSUME Up("redis"), w.put = "turn"
               PROVE RedisOk(v, CtxDue(left), CtxN, CtxF) /\ v # <<>>
    OBVIOUS
  <2> DEFINE f == w.what
             N == CtxN
             F == CtxF
             E == CtxDue(left)
  <2>1. /\ f \in CtxReal(u) /\ t \in Seq(CtxReal(u)) /\ N \subseteq Nat /\ F \subseteq N /\ RedisOk(t, D, N, F)
        /\ f.turn \in D /\ (\A d \in D : f.turn <= d) /\ E = D \ {f.turn}
        /\ v = LastN(Append(t, f), Window)
    BY <1>1, <1>4 DEF CtxStores
  <2> HIDE DEF f, N, F, D, t, E, u, v
  <2>2. RedisOk(LastN(Append(t, f), Window), D \ {f.turn}, N, F) /\ LastN(Append(t, f), Window) # <<>>
    BY <2>1, RedisTakes
  <2>3. RedisOk(v, E, N, F) /\ v # <<>>
    BY <2>1, <2>2
  <2> QED BY <2>3 DEF N, F, E
<1> HIDE DEF left, w, v, D, u, t
<1>9. Up("redis") => RedisOk(redis'.turns, CtxDue(left), CtxN, CtxF)
  <2>1. CASE Up("redis") /\ w.put = "turn"
    BY <1>6, <1>8, <2>1
  <2>2. CASE Up("redis") /\ w.put = "summary"
    BY <1>4, <1>6, <2>2 DEF CtxStores, t, D
  <2> QED BY <1>4, <2>1, <2>2
<1>10. CtxBelow(redis'.sum.end, CtxA)
  <2>1. redis'.sum = redis.sum \/ (redis'.sum = w.what /\ w.put = "summary")
    BY <1>4, <1>6
  <2> QED BY <1>4, <2>1 DEF CtxStores
<1>11. CtxStores'
  BY <1>2, <1>4, <1>5, <1>7, <1>9, <1>10 DEF CtxStores
<1>12. CtxIdle => CtxIdle'
  BY <1>2, <1>4, <1>7 DEF CtxIdle, D
<1>13. CtxHas => CtxHas'
  <2>1. CASE Up("redis") /\ w.put = "turn"
    BY <1>6, <1>8, <2>1 DEF CtxHas
  <2>2. CASE Up("redis") /\ w.put = "summary"
    BY <1>4, <1>6, <1>7, <2>2 DEF CtxHas, t, D
  <2> QED BY <1>4, <1>7, <2>1, <2>2 DEF CtxHas
<1>14. CtxSessions'
  BY <1>2, <1>5, <1>12, <1>13, SessionsStay
<1> QED BY <1>11, <1>14

LEMMA PgWriteKept ==
  ASSUME CtxTyped, CtxStores, CtxSessions, Calm, Up("pg"), NEW i \in DOMAIN pgTasks, PgWrite(i)
  PROVE CtxStores' /\ CtxSessions'
<1> DEFINE u == Len(said)
           w == pgTasks[1][1]
           left == Advance(pgTasks, 1)
           rows == pg.rows
           sums == pg.sums
<1>1. u \in Nat /\ pgTasks \in Seq(CtxTask(u)) /\ PgTyped(u, rows, sums, pgTasks) /\ pgTasks # <<>>
      /\ pg \in [rows : SUBSET CtxReal(u), sums : SUBSET CtxSums(u)] /\ Len(pgTasks) \in Nat
  <2>1. pgTasks # <<>> /\ pg \in [rows : SUBSET CtxReal(u), sums : SUBSET CtxSums(u)]
    BY CtxKnows DEF CtxTyped
  <2> QED BY <2>1, CtxKnows
<1>2. Head(pgTasks[1]) = w /\ w.put \in {"turn", "summary"}
  <2>1. 1 \in 1..Len(pgTasks)
    BY <1>1
  <2> QED BY <1>1, <2>1, PgTaskIs
<1>3. i = 1 /\ pgTasks' = left /\ UNCHANGED <<mgr, said, redisTasks, redis, outage>>
  BY DEF PgWrite
<1>4. pg' = IF w.put = "turn" THEN [pg EXCEPT !.rows = WithRow(@, w.what)]
            ELSE [pg EXCEPT !.sums = WithSummaryRow(@, w.what)]
  BY <1>2, <1>3 DEF PgWrite
<1> DEFINE rows2 == pg'.rows
           sums2 == pg'.sums
<1>5. IF w.put = "turn" THEN rows2 = WithRow(rows, w.what) /\ sums2 = sums
      ELSE rows2 = rows /\ sums2 = WithSummaryRow(sums, w.what)
  <2> DEFINE r == WithRow(rows, w.what)
             s == WithSummaryRow(sums, w.what)
  <2>1. pg' = IF w.put = "turn" THEN [pg EXCEPT !.rows = r] ELSE [pg EXCEPT !.sums = s]
    BY <1>4
  <2> HIDE DEF r, s, w
  <2>2. IF w.put = "turn" THEN rows2 = r /\ sums2 = sums ELSE rows2 = rows /\ sums2 = s
    BY <1>1, <2>1
  <2> QED BY <2>2 DEF r, s, w
<1> HIDE DEF u, left
<1>6. /\ PgOk(rows2, sums2, left) /\ Len(left) = Len(pgTasks) - 1
      /\ NumsAt(rows2, left, Len(left)) = CtxN
      /\ AnchorsAt(sums2, left, Len(left)) = CtxA
      /\ FreshAt(rows2, sums2, left, Len(left)) = CtxF
  <2>1. PgOk(rows, sums, pgTasks)
    BY DEF CtxStores
  <2> HIDE DEF rows, sums, rows2, sums2
  <2>2. /\ PgOk(rows2, sums2, Advance(pgTasks, 1))
        /\ Len(Advance(pgTasks, 1)) = Len(pgTasks) - 1
        /\ NumsAt(rows2, Advance(pgTasks, 1), Len(pgTasks) - 1) = NumsAt(rows, pgTasks, Len(pgTasks))
        /\ AnchorsAt(sums2, Advance(pgTasks, 1), Len(pgTasks) - 1) = AnchorsAt(sums, pgTasks, Len(pgTasks))
        /\ FreshAt(rows2, sums2, Advance(pgTasks, 1), Len(pgTasks) - 1) = FreshAt(rows, sums, pgTasks, Len(pgTasks))
    BY <1>1, <1>5, <2>1, PgWrites
  <2> QED BY <2>2 DEF left, rows, sums, CtxN, CtxA, CtxF
<1>7. CtxN' = CtxN /\ CtxA' = CtxA /\ CtxF' = CtxF /\ PgOk(pg.rows, pg.sums, pgTasks)'
  BY <1>3, <1>6 DEF CtxN, CtxA, CtxF
<1>8. CtxDue(left) \subseteq CtxDue(pgTasks)
  BY <1>1, DueLess DEF left
<1>9. CtxStores' /\ CtxHas' = CtxHas /\ (CtxIdle => CtxIdle')
  <2>1. CtxHas' = CtxHas
    BY <1>3 DEF CtxHas, Up
  <2>2. CtxIdle => CtxIdle'
    BY <1>3, <1>8 DEF CtxIdle
  <2>3. CtxStores'
    BY <1>3, <1>7 DEF CtxStores, Up
  <2> QED BY <2>1, <2>2, <2>3
<1>10. CtxSessions'
  BY <1>3, <1>7, <1>9, SessionsStay
<1> QED BY <1>9, <1>10

LEMMA ExpiresKept ==
  ASSUME CtxTyped, CtxStores, CtxSessions, RedisExpires
  PROVE CtxStores' /\ CtxSessions'
<1>1. redisTasks = <<>> /\ (\A m \in Managers : ~mgr[m].open) /\ UNCHANGED <<mgr, redisTasks, pgTasks, pg, outage>>
      /\ redis' = [turns |-> <<>>, sum |-> NoSummary]
  BY DEF RedisExpires
<1>2. CtxN' = CtxN /\ CtxA' = CtxA /\ CtxF' = CtxF
  BY <1>1 DEF CtxN, CtxA, CtxF
<1>3. CtxDue(redisTasks) = {}
  <2>1. ASSUME NEW i \in Nat, NEW k \in Nat PROVE ~CtxTurnAt(<<>>, i, k)
    BY DEF CtxTurnAt, CtxAt
  <2>2. CtxDue(<<>>) = {}
    BY <2>1 DEF CtxDue
  <2> QED BY <1>1, <2>2
<1>4. redis'.turns = <<>> /\ redis'.sum.end = 0
  BY <1>1 DEF NoSummary
<1>5. CtxBelow(0, CtxA)
  BY CtxKnows DEF CtxBelow
<1>6. RedisOk(<<>>, {}, CtxN, CtxF)
  BY RedisEmpty
<1>7. CtxStores'
  BY <1>1, <1>2, <1>3, <1>4, <1>5, <1>6 DEF CtxStores
<1>8. CtxSessions'
  BY <1>1, <1>2 DEF CtxSessions
<1> QED BY <1>7, <1>8

-----------------------------------------------------------------------------
LEMMA CtxBegins == ContextInit => CtxInvariant
<1> SUFFICES ASSUME ContextInit PROVE CtxInvariant
  OBVIOUS
<1>1. CtxTyped
  BY CtxTypesBegin
<1>2. /\ mgr = [m \in Managers |-> Closed] /\ redis = [turns |-> <<>>, sum |-> NoSummary]
      /\ redisTasks = <<>> /\ pgTasks = <<>> /\ pg = [rows |-> {}, sums |-> {}]
  BY DEF ContextInit
<1>3. pg.rows = {} /\ pg.sums = {} /\ redis.turns = <<>> /\ redis.sum = NoSummary /\ Len(pgTasks) = 0
  BY <1>2
<1>4. \A k \in 0..0 : NumsAt({}, <<>>, k) = {} /\ FreshAt({}, {}, <<>>, k) = {}
  BY DEF NumsAt, FreshAt
<1>5. CtxN = {} /\ CtxF = {} /\ 0 \in CtxA
  BY <1>2, <1>3, <1>4, CtxKnows, <1>1 DEF CtxN, CtxF
<1>6. PgOk(pg.rows, pg.sums, pgTasks)
  <2>1. Cardinality({}) = 0 /\ 0 <= Window
    BY CtxBounds, FS_EmptySet
  <2>2. Len(<<>>) = 0 /\ 1..0 = {}
    OBVIOUS
  <2>3. \A k \in 0..0 : Cardinality(FreshAt({}, {}, <<>>, k)) <= Window
    BY <1>4, <2>1
  <2>4. PgOk({}, {}, <<>>)
    BY <2>2, <2>3 DEF PgOk
  <2> QED BY <1>2, <1>3, <2>4
<1>7. CtxDue(redisTasks) = {} /\ CtxAscends(redisTasks) /\ CtxEndsBelow(redisTasks, CtxA)
  <2>1. ASSUME NEW i \in Nat, NEW k \in Nat PROVE ~CtxTurnAt(<<>>, i, k) /\ ~CtxAt(<<>>, i, k)
    BY DEF CtxTurnAt, CtxAt
  <2>2. CtxDue(<<>>) = {} /\ CtxAscends(<<>>) /\ CtxEndsBelow(<<>>, CtxA)
    BY <2>1 DEF CtxDue, CtxAscends, CtxEndsBelow
  <2> QED BY <1>2, <2>2
<1>8. CtxBelow(NoSummary.end, CtxA)
  BY <1>5 DEF CtxBelow, NoSummary
<1>9. CtxStores
  <2>1. RedisOk(<<>>, {}, CtxN, CtxF)
    BY RedisEmpty
  <2> QED BY <1>3, <1>6, <1>7, <1>8, <2>1 DEF CtxStores
<1>10. CtxSessions
  <2>1. ~Closed.open /\ Closed.sums = NoSummary /\ Closed.data = NoSummary
    BY DEF Closed
  <2> HIDE DEF Closed, NoSummary
  <2> QED BY <1>2, <1>8, <2>1 DEF CtxSessions
<1> QED BY <1>1, <1>3, <1>9, <1>10 DEF CtxInvariant

LEMMA CtxGoesOn ==
  ASSUME Calm, MemoryTurns <= Window
  PROVE CtxInvariant /\ [ContextNext]_contextVars => CtxInvariant'
<1> SUFFICES ASSUME CtxInvariant, [ContextNext]_contextVars PROVE CtxInvariant'
  OBVIOUS
<1>1. CtxTyped /\ CtxTyped'
  BY CtxTypesStep DEF CtxInvariant
<1>2. outage' = outage
  BY DEF ContextNext, contextVars, Open, EndSession, AddTurn, AddAsksRedis, AddAsksPg, AddCold,
         LoadWarm, LoadCold, LoadRedis, LoadPg, Compress, RedisWrite, PgWrite, RedisExpires
<1>3. CASE ~Up("pg")
  <2>1. pg' = pg
    BY <1>3 DEF ContextNext, contextVars, Open, EndSession, AddTurn, AddAsksRedis, AddAsksPg, AddCold,
         LoadWarm, LoadCold, LoadRedis, LoadPg, Compress, RedisWrite, PgWrite, RedisExpires
  <2> QED BY <1>1, <1>2, <1>3, <2>1 DEF CtxInvariant, Up
<1>4. CASE Up("pg")
  <2>1. CtxStores /\ CtxSessions
    BY <1>4 DEF CtxInvariant
  <2>2. CtxStores' /\ CtxSessions'
    <3>1. CASE UNCHANGED contextVars
      <4>1. UNCHANGED <<mgr, redisTasks, pgTasks, redis, pg, outage>>
        BY <3>1 DEF contextVars
      <4>2. CtxStores' /\ CtxIdle' = CtxIdle /\ CtxHas' = CtxHas
        BY <1>1, <2>1, <4>1, StoresStay
      <4>3. CtxN' = CtxN /\ CtxA' = CtxA /\ CtxF' = CtxF
        BY <4>1 DEF CtxN, CtxA, CtxF
      <4> QED BY <2>1, <4>1, <4>2, <4>3, SessionsStay
    <3>2. ASSUME NEW m \in Managers, Open(m) \/ EndSession(m) PROVE CtxStores' /\ CtxSessions'
      BY <1>1, <2>1, <3>2, OpenKept
    <3>3. ASSUME NEW m \in Managers, AddTurn(m) \/ AddAsksRedis(m) \/ AddAsksPg(m) \/ AddCold(m)
          PROVE CtxStores' /\ CtxSessions'
      BY <1>1, <1>4, <2>1, <3>3, AddKept
    <3>4. ASSUME NEW m \in Managers, LoadWarm(m) PROVE CtxStores' /\ CtxSessions'
      BY <1>1, <2>1, <3>4, LoadWarmKept
    <3>5. ASSUME NEW m \in Managers, LoadCold(m) PROVE CtxStores' /\ CtxSessions'
      BY <1>1, <2>1, <3>5, LoadColdKept
    <3>6. ASSUME NEW m \in Managers, LoadRedis(m) PROVE CtxStores' /\ CtxSessions'
      BY <1>1, <2>1, <3>6, LoadRedisKept
    <3>7. ASSUME NEW m \in Managers, LoadPg(m) PROVE CtxStores' /\ CtxSessions'
      BY <1>1, <1>4, <2>1, <3>7, LoadPgKept
    <3>8. ASSUME NEW job \in jobs, Compress(job) PROVE CtxStores' /\ CtxSessions'
      BY <1>1, <2>1, <3>8, CompressKept
    <3>9. ASSUME NEW i \in DOMAIN redisTasks, RedisWrite(i) PROVE CtxStores' /\ CtxSessions'
      BY <1>1, <2>1, <3>9, RedisWriteKept
    <3>10. ASSUME NEW i \in DOMAIN pgTasks, PgWrite(i) PROVE CtxStores' /\ CtxSessions'
      BY <1>1, <1>4, <2>1, <3>10, PgWriteKept
    <3>11. CASE RedisExpires
      BY <1>1, <2>1, <3>11, ExpiresKept
    <3> QED BY <3>1, <3>2, <3>3, <3>4, <3>5, <3>6, <3>7, <3>8, <3>9, <3>10, <3>11 DEF ContextNext
  <2> QED BY <1>1, <1>2, <1>4, <2>2 DEF CtxInvariant, Up
<1> QED BY <1>3, <1>4

LEMMA CtxMeans == CtxInvariant => NumbersNotReused
<1> SUFFICES ASSUME CtxInvariant, NEW i \in DOMAIN pgTasks, NEW k \in DOMAIN pgTasks[i],
                    pgTasks[i][k].put = "turn", NEW r \in pg.rows, r.turn = pgTasks[i][k].what.turn
             PROVE r = pgTasks[i][k].what
  BY DEF NumbersNotReused
<1>1. Up("pg") /\ CtxTyped /\ CtxStores
  BY DEF CtxInvariant
<1>2. PgTyped(Len(said), pg.rows, pg.sums, pgTasks) /\ pgTasks \in Seq(CtxTask(Len(said))) /\ Len(said) \in Nat
  BY <1>1, CtxKnows
<1>3. i \in 1..Len(pgTasks) /\ Len(pgTasks[i]) = 1 /\ pgTasks[i] \in Seq(CtxWrites(Len(said)))
  BY <1>1, <1>2 DEF CtxStores, PgOk, CtxTask
<1>4. k = 1
  BY <1>3
<1>5. \A n \in NumsAt(pg.rows, pgTasks, i - 1) : n < pgTasks[i][1].what.turn
  BY <1>1, <1>3, <1>4 DEF CtxStores, PgOk
<1>6. r.turn < pgTasks[i][1].what.turn
  BY <1>5 DEF NumsAt
<1>7. r.turn \in Nat
  <2>1. r \in CtxReal(Len(said))
    BY <1>2 DEF PgTyped
  <2> QED BY <1>2, <2>1 DEF CtxReal
<1> QED BY <1>4, <1>6, <1>7

(* While one session follows another (Calm) and none outgrows the window,  *)
(* no turn is given the number of another one that is stored, for which    *)
(* Postgres would drop it without a word: whichever store is down, Redis expired or not, the memory warm, *)
(* recovered or cold, and any number of compressions under way (add_turn,  *)
(* assemble, ON CONFLICT DO NOTHING).                                      *)
THEOREM NumbersStayUnique ==
  ASSUME Calm, MemoryTurns <= Window
  PROVE ContextSpec => []NumbersNotReused
<1>1. CtxInvariant /\ [ContextNext]_contextVars => CtxInvariant'
  BY CtxGoesOn
<1> QED BY <1>1, CtxBegins, CtxMeans, PTL DEF ContextSpec

-----------------------------------------------------------------------------
(* Free chat is kept: what is told of it.                                  *)

(* What free chat leaves behind: of the utterances h, the ones outside of  *)
(* games up to e; the records that are of one utterance, its own; and the  *)
(* summaries that tell of all before their anchor that is not of a game.   *)
FreeOf(h, e) == {i \in 1..Len(h) : i <= e /\ h[i] = None}
CtxOwned(h) == {r \in CtxReal(Len(h)) : r.ids = {r.turn} /\ r.rid = h[r.turn]}
CtxSound(h) == {s \in CtxSums(Len(h)) :
  /\ FreeOf(h, s.end) \subseteq s.l3
  /\ s.end > 0 => s.rid = h[s.end]
  /\ s.rid # None /\ s.prompt > 0 => h[s.prompt] = s.rid}

(* Of the records in X: the real ones are their utterances' own, all from  *)
(* a to b are there, and what carries the summary (else o) tells of the    *)
(* free chat up to e.                                                      *)
OwnTurns(X, h) == \A r \in X : r.turn > 0 => r \in CtxOwned(h)
HasTurns(X, a, b) == \A n \in Nat : a < n /\ n <= b => \E r \in X : r.turn = n
TellsFree(X, o, h, e) ==
  /\ \A r \in X : r.turn = -2 => FreeOf(h, e) \subseteq r.ids
  /\ FreeOf(h, e) \subseteq o \/ \E r \in X : r.turn = -2

(* X and Y have the same elements.                                         *)
Alike(X, Y) == \A x : x \in X <=> x \in Y

LEMMA AlikeKeeps ==
  ASSUME NEW X, NEW Y, Alike(X, Y)
  PROVE /\ \A h : OwnTurns(X, h) => OwnTurns(Y, h)
        /\ \A a, b : HasTurns(X, a, b) => HasTurns(Y, a, b)
        /\ \A o, h, e : TellsFree(X, o, h, e) => TellsFree(Y, o, h, e)
<1>1. X = Y
  BY DEF Alike
<1> QED BY <1>1

LEMMA PickHas ==
  ASSUME NEW A, NEW s \in Seq(A), NEW P
  PROVE \A x : x \in ToSet(Pick(s, P)) <=> \E i \in 1..Len(s) : i \in P /\ s[i] = x
<1> DEFINE p == Pick(s, P)
<1>1. PICK e : Embeds(e, p, s, P)
  BY PickEmbeds
<1>2. p \in Seq(A)
  BY PickTypes
<1> HIDE DEF p
<1>3. \A x : x \in ToSet(p) <=> \E j \in 1..Len(p) : p[j] = x
  BY <1>2 DEF ToSet
<1>4. ASSUME NEW x, NEW j \in 1..Len(p), p[j] = x PROVE \E i \in 1..Len(s) : i \in P /\ s[i] = x
  BY <1>1, <1>4 DEF Embeds
<1>5. ASSUME NEW x, NEW i \in 1..Len(s), i \in P, s[i] = x PROVE \E j \in 1..Len(p) : p[j] = x
  <2>1. PICK j \in 1..Len(p) : e[j] = i
    BY <1>1, <1>5 DEF Embeds
  <2> QED BY <1>1, <1>5, <2>1 DEF Embeds
<1>6. \A x : x \in ToSet(p) <=> \E i \in 1..Len(s) : i \in P /\ s[i] = x
  BY <1>3, <1>4, <1>5
<1> QED BY <1>6 DEF p

LEMMA AfterHas ==
  ASSUME NEW A, NEW s \in Seq(A), NEW a
  PROVE \A x : x \in ToSet(After(s, a)) <=> x \in ToSet(s) /\ x.turn > a
<1> DEFINE P == {i \in DOMAIN s : s[i].turn > a}
<1>1. \A x : x \in ToSet(Pick(s, P)) <=> \E i \in 1..Len(s) : i \in P /\ s[i] = x
  BY PickHas
<1>2. DOMAIN s = 1..Len(s)
  OBVIOUS
<1>3. \A x : x \in ToSet(s) <=> \E i \in 1..Len(s) : s[i] = x
  BY <1>2 DEF ToSet
<1> QED BY <1>1, <1>2, <1>3 DEF After

LEMMA SumHas ==
  ASSUME NEW A, NEW s \in Seq(A), NEW t \in Seq(A)
  PROVE \A x : x \in ToSet(s \o t) <=> x \in ToSet(s) \/ x \in ToSet(t)
<1>1. s \o t \in Seq(A) /\ Len(s \o t) = Len(s) + Len(t) /\ Len(s) \in Nat /\ Len(t) \in Nat
  OBVIOUS
<1>2. /\ \A i \in 1..Len(s) : i \in 1..Len(s \o t) /\ (s \o t)[i] = s[i]
      /\ \A j \in 1..Len(t) : Len(s) + j \in 1..Len(s \o t) /\ (s \o t)[Len(s) + j] = t[j]
  BY <1>1
<1>3. ASSUME NEW i \in 1..Len(s \o t), i \notin 1..Len(s) PROVE i - Len(s) \in 1..Len(t) /\ i = Len(s) + (i - Len(s))
  BY <1>1, <1>3
<1>4. /\ \A x : x \in ToSet(s) <=> \E i \in 1..Len(s) : s[i] = x
      /\ \A x : x \in ToSet(t) <=> \E i \in 1..Len(t) : t[i] = x
      /\ \A x : x \in ToSet(s \o t) <=> \E i \in 1..Len(s \o t) : (s \o t)[i] = x
  BY <1>1 DEF ToSet
<1>5. ASSUME NEW i \in 1..Len(s \o t) PROVE (s \o t)[i] \in ToSet(s) \/ (s \o t)[i] \in ToSet(t)
  <2>1. CASE i \in 1..Len(s)
    BY <1>2, <1>4, <2>1
  <2>2. CASE i \notin 1..Len(s)
    <3>1. i - Len(s) \in 1..Len(t) /\ (s \o t)[i] = t[i - Len(s)]
      BY <1>2, <1>3, <2>2
    <3> QED BY <1>4, <3>1
  <2> QED BY <2>1, <2>2
<1> QED BY <1>2, <1>4, <1>5

LEMMA AppendHas ==
  ASSUME NEW A, NEW s \in Seq(A), NEW r \in A
  PROVE \A x : x \in ToSet(Append(s, r)) <=> x \in ToSet(s) \/ x = r
<1>1. Append(s, r) = s \o <<r>> /\ <<r>> \in Seq(A)
  OBVIOUS
<1>2. \A x : x \in ToSet(<<r>>) <=> x = r
  BY DEF ToSet
<1> QED BY <1>1, <1>2, SumHas

(* A list that fits the window is sent as a whole.                         *)
LEMMA HotHas ==
  ASSUME NEW u \in Nat, NEW rs \in Seq(CtxRecords(u)), Len(Real(rs)) <= Window
  PROVE Alike(ToSet(Hot(rs, Window)), ToSet(rs))
<1> DEFINE P == {i \in DOMAIN rs : rs[i].turn <= 0}
<1>1. \A x : x \in ToSet(Pick(rs, P)) <=> \E i \in 1..Len(rs) : i \in P /\ rs[i] = x
  BY PickHas
<1>2. DOMAIN rs = 1..Len(rs) /\ \A i \in 1..Len(rs) : rs[i].turn \in Int
  <2>1. \A i \in 1..Len(rs) : rs[i] \in CtxRecords(u)
    OBVIOUS
  <2>2. \A r \in CtxRecords(u) : r.turn \in Int
    BY DEF CtxRecords
  <2> QED BY <2>1, <2>2
<1>3. \A x : x \in ToSet(rs) <=> \E i \in 1..Len(rs) : rs[i] = x
  BY <1>2 DEF ToSet
<1>4. \A x : x \in ToSet(Virtual(rs)) <=> x \in ToSet(rs) /\ x.turn <= 0
  BY <1>1, <1>2, <1>3 DEF Virtual
<1>5. \A x : x \in ToSet(Real(rs)) <=> x \in ToSet(rs) /\ x.turn > 0
  BY AfterHas DEF Real
<1>6. Virtual(rs) \in Seq(CtxRecords(u)) /\ Real(rs) \in Seq(CtxRecords(u))
  <2>1. Real(rs) \in Seq(CtxReal(u))
    BY AfterIn, CtxBounds
  <2>2. CtxReal(u) \subseteq CtxRecords(u)
    BY CtxGrows
  <2> QED BY <2>1, <2>2, VirtualIn, SeqMonotonic
<1>7. LastN(Real(rs), Window) = Real(rs)
  BY <1>6, LastNFacts, CtxBounds
<1>8. \A x : x \in ToSet(Hot(rs, Window)) <=> x \in ToSet(Virtual(rs)) \/ x \in ToSet(Real(rs))
  BY <1>6, <1>7, SumHas DEF Hot
<1>9. \A x : x \in ToSet(rs) => x.turn \in Int
  BY <1>2, <1>3
<1> QED BY <1>4, <1>5, <1>8, <1>9 DEF Alike

(* The summary's layers, in front of the records.                          *)
LEMMA WithSummaryHas ==
  ASSUME NEW u \in Nat, NEW data \in CtxSums(u), NEW rs \in Seq(CtxRecords(u)), NEW h, NEW o, NEW e
  PROVE LET X == ToSet(WithSummary(data, rs)) IN
        /\ OwnTurns(ToSet(rs), h) => OwnTurns(X, h)
        /\ \A a, b : HasTurns(ToSet(rs), a, b) => HasTurns(X, a, b)
        /\ FreeOf(h, e) \subseteq data.l3 /\ (\A r \in ToSet(rs) : r.turn = -2 => FreeOf(h, e) \subseteq r.ids)
             => TellsFree(X, o, h, e)
<1> DEFINE v3 == [turn |-> -2, ids |-> data.l3, rid |-> None]
           v4 == [turn |-> -1, ids |-> data.l4, rid |-> data.rid]
           w == IF data.l4 = {} THEN <<>> ELSE <<v4>>
           A == CtxRecords(u)
<1>1. v3 \in A /\ v4 \in A
  BY DEF CtxRecords, CtxRids, CtxSums
<1>4. v3.turn = -2 /\ v4.turn = -1 /\ v3.ids = data.l3 /\ ~(v3.turn > 0) /\ ~(v4.turn > 0) /\ v4.turn # -2
  OBVIOUS
<1> DEFINE X == ToSet(WithSummary(data, rs))
<1>5. WithSummary(data, rs) = <<v3>> \o w \o rs
  BY DEF WithSummary
<1> HIDE DEF v3, v4, A
<1>6. <<v3>> \in Seq(A) /\ w \in Seq(A) /\ <<v3>> \o w \in Seq(A)
  BY <1>1
<1>7. (\A x : x \in ToSet(<<v3>>) <=> x = v3) /\ (\A x : x \in ToSet(w) => x = v4)
  BY DEF ToSet
<1> HIDE DEF w
<1>8. \A x : x \in ToSet(<<v3>> \o w) <=> x \in ToSet(<<v3>>) \/ x \in ToSet(w)
  BY <1>6, SumHas
<1>9. \A x : x \in X <=> x \in ToSet(<<v3>> \o w) \/ x \in ToSet(rs)
  <2>1. rs \in Seq(A)
    BY DEF A
  <2> QED BY <1>5, <1>6, <2>1, SumHas
<1> HIDE DEF X
<1>10. (\A x \in X : x = v3 \/ x = v4 \/ x \in ToSet(rs)) /\ v3 \in X /\ \A x \in ToSet(rs) : x \in X
  BY <1>7, <1>8, <1>9
<1>11. OwnTurns(ToSet(rs), h) => OwnTurns(X, h)
  BY <1>4, <1>10 DEF OwnTurns
<1>12. \A a, b : HasTurns(ToSet(rs), a, b) => HasTurns(X, a, b)
  BY <1>10 DEF HasTurns
<1>13. FreeOf(h, e) \subseteq data.l3 /\ (\A r \in ToSet(rs) : r.turn = -2 => FreeOf(h, e) \subseteq r.ids)
         => TellsFree(X, o, h, e)
  BY <1>4, <1>10 DEF TellsFree
<1> QED BY <1>11, <1>12, <1>13 DEF X

(* What is kept last is what is at the last position that is kept.         *)
LEMMA PickEnds ==
  ASSUME NEW A, NEW s \in Seq(A), NEW P
  PROVE /\ \A k \in 1..Len(s) : k \in P /\ (\A i \in 1..Len(s) : i \in P => i <= k) =>
             Pick(s, P) # <<>> /\ Last(Pick(s, P)) = s[k]
        /\ Pick(s, P) # <<>> => \E k \in 1..Len(s) :
             k \in P /\ (\A i \in 1..Len(s) : i \in P => i <= k) /\ Last(Pick(s, P)) = s[k]
<1> DEFINE p == Pick(s, P)
<1>1. PICK e : Embeds(e, p, s, P)
  BY PickEmbeds
<1>2. p \in Seq(A)
  BY PickTypes
<1> HIDE DEF p
<1>3. Len(p) \in Nat /\ Len(s) \in Nat /\ (p # <<>> => Len(p) \in 1..Len(p)) /\ Last(p) = p[Len(p)]
      /\ \A j \in 1..Len(p) : p # <<>> /\ j <= Len(p)
  BY <1>2 DEF Last
<1>4. ASSUME NEW k \in 1..Len(s), k \in P, \A i \in 1..Len(s) : i \in P => i <= k
      PROVE p # <<>> /\ Last(p) = s[k]
  <2>1. PICK j \in 1..Len(p) : e[j] = k
    BY <1>1, <1>4 DEF Embeds
  <2>2. Len(p) \in 1..Len(p)
    BY <1>3, <2>1
  <2>3. e[Len(p)] \in 1..Len(s) /\ e[Len(p)] \in P /\ p[Len(p)] = s[e[Len(p)]]
    BY <1>1, <2>2 DEF Embeds
  <2>4. e[Len(p)] <= k
    BY <1>4, <2>3
  <2>5. j = Len(p)
    <3>1. j < Len(p) => e[j] < e[Len(p)]
      BY <1>1, <2>2 DEF Embeds
    <3>2. ~(j < Len(p))
      BY <2>1, <2>3, <2>4, <3>1
    <3> QED BY <1>3, <3>2
  <2> QED BY <1>3, <2>1, <2>3, <2>5
<1>5. ASSUME p # <<>> PROVE \E k \in 1..Len(s) :
        k \in P /\ (\A i \in 1..Len(s) : i \in P => i <= k) /\ Last(p) = s[k]
  <2> DEFINE k == e[Len(p)]
  <2>1. k \in 1..Len(s) /\ k \in P /\ p[Len(p)] = s[k]
    BY <1>1, <1>3, <1>5 DEF Embeds
  <2>2. ASSUME NEW i \in 1..Len(s), i \in P PROVE i <= k
    <3>1. PICK j \in 1..Len(p) : e[j] = i
      BY <1>1, <2>2 DEF Embeds
    <3>2. j < Len(p) => e[j] < e[Len(p)]
      BY <1>1, <1>3, <1>5 DEF Embeds
    <3>3. j = Len(p) \/ j < Len(p)
      BY <1>3
    <3> QED BY <2>1, <3>1, <3>2, <3>3
  <2> HIDE DEF k
  <2> QED BY <1>3, <2>1, <2>2
<1> QED BY <1>4, <1>5 DEF p

(* A record in front leaves what is last.                                  *)
LEMMA RealFront ==
  ASSUME NEW u \in Nat, NEW g \in CtxRecords(u), NEW rs \in Seq(CtxRecords(u)), Real(rs) # <<>>
  PROVE Real(<<g>> \o rs) # <<>> /\ Last(Real(<<g>> \o rs)) = Last(Real(rs))
<1> DEFINE s == <<g>> \o rs
           P == {i \in DOMAIN rs : rs[i].turn > 0}
           Q == {i \in DOMAIN s : s[i].turn > 0}
<1>1. s \in Seq(CtxRecords(u)) /\ Len(s) = Len(rs) + 1 /\ Len(rs) \in Nat
      /\ \A i \in 1..Len(rs) : s[i + 1] = rs[i] /\ i + 1 \in 1..Len(s)
  OBVIOUS
<1>2. \A i \in 1..Len(rs) : i \in P <=> rs[i].turn > 0
  OBVIOUS
<1>3. \A i \in 1..Len(s) : i \in Q <=> s[i].turn > 0
  BY <1>1
<1>4. Real(rs) = Pick(rs, P) /\ Real(s) = Pick(s, Q)
  BY DEF Real, After
<1> HIDE DEF P, Q, s
<1>5. PICK k \in 1..Len(rs) : k \in P /\ (\A i \in 1..Len(rs) : i \in P => i <= k) /\ Last(Pick(rs, P)) = rs[k]
  BY <1>4, PickEnds
<1>6. k + 1 \in 1..Len(s) /\ k + 1 \in Q /\ s[k + 1] = rs[k]
  BY <1>1, <1>2, <1>3, <1>5
<1>7. ASSUME NEW i \in 1..Len(s), i \in Q PROVE i <= k + 1
  <2>1. CASE i = 1
    BY <2>1
  <2>2. CASE i # 1
    <3>1. i - 1 \in 1..Len(rs) /\ (i - 1) + 1 = i
      BY <1>1, <2>2
    <3>2. s[i] = rs[i - 1]
      BY <1>1, <3>1
    <3>3. i - 1 \in P
      BY <1>2, <1>3, <1>7, <3>1, <3>2
    <3>4. i - 1 <= k
      BY <1>5, <3>1, <3>3
    <3> QED BY <3>4
  <2> QED BY <2>1, <2>2
<1>8. Pick(s, Q) # <<>> /\ Last(Pick(s, Q)) = s[k + 1]
  BY <1>1, <1>6, <1>7, PickEnds
<1> QED BY <1>4, <1>5, <1>6, <1>8 DEF s

(* The rules of a game in front: a record of the memory, once more.        *)
LEMMA UnifiedHas ==
  ASSUME NEW u \in Nat, NEW list \in Seq(CtxRecords(u)), NEW memory \in Seq(CtxRecords(u))
  PROVE /\ \A x \in ToSet(list) : x \in ToSet(Unified(list, memory))
        /\ \A x \in ToSet(Unified(list, memory)) :
             x \in ToSet(list) \/ (x \in ToSet(memory) /\ x.turn > 0)
        /\ Real(list) # <<>> => Real(Unified(list, memory)) # <<>> /\ Last(Real(Unified(list, memory))) = Last(Real(list))
<1> DEFINE game == GameTurns(memory, LastRid(list))
<1>1. CASE LastRid(list) = None \/ game = <<>>
  BY <1>1 DEF Unified
<1>2. CASE ~(LastRid(list) = None \/ game = <<>>)
  <2> DEFINE g == Head(game)
             P == {i \in DOMAIN memory : memory[i].turn > 0 /\ memory[i].rid = LastRid(list)}
  <2>1. Unified(list, memory) = <<g>> \o list
    BY <1>2 DEF Unified
  <2>2. game \in Seq(CtxReal(u)) /\ game # <<>>
    BY <1>2, GameTurnsIn
  <2>3. \A x : x \in ToSet(game) <=> \E i \in 1..Len(memory) : i \in P /\ memory[i] = x
    BY PickHas DEF GameTurns
  <2>4. DOMAIN memory = 1..Len(memory)
    OBVIOUS
  <2> HIDE DEF game
  <2>5. g \in CtxReal(u) /\ g \in ToSet(game)
    <3>1. g = game[1] /\ 1 \in DOMAIN game /\ game[1] \in CtxReal(u)
      BY <2>2
    <3> QED BY <3>1 DEF ToSet
  <2> HIDE DEF g
  <2>6. g \in ToSet(memory) /\ g.turn > 0
    <3>1. PICK i \in 1..Len(memory) : i \in P /\ memory[i] = g
      BY <2>3, <2>5
    <3> QED BY <2>4, <3>1 DEF ToSet
  <2>7. g \in CtxRecords(u) /\ CtxReal(u) \subseteq CtxRecords(u)
    BY <2>5, CtxGrows
  <2>8. <<g>> \in Seq(CtxRecords(u)) /\ \A x : x \in ToSet(<<g>>) <=> x = g
    BY <2>7 DEF ToSet
  <2>9. \A x : x \in ToSet(<<g>> \o list) <=> x \in ToSet(<<g>>) \/ x \in ToSet(list)
    BY <2>8, SumHas
  <2>10. Real(list) # <<>> => Real(<<g>> \o list) # <<>> /\ Last(Real(<<g>> \o list)) = Last(Real(list))
    BY <2>7, RealFront
  <2> QED BY <2>1, <2>6, <2>8, <2>9, <2>10
<1> QED BY <1>1, <1>2

-----------------------------------------------------------------------------
(* What must hold for that.                                                *)

(* The turns of a game are next to each other.                             *)
Together(h) == \A i, j, k \in 1..Len(h) : i < j /\ j < k /\ h[i] = h[k] /\ h[i] # None => h[j] = h[i]

(* The turns, and the summaries, that tasks have still to write.           *)
PutsTurns(tasks, W) == \A i \in 1..Len(tasks) : \A k \in 1..Len(tasks[i]) :
  tasks[i][k].put = "turn" => tasks[i][k].what \in W
PutsSums(tasks, S) == \A i \in 1..Len(tasks) : \A k \in 1..Len(tasks[i]) :
  tasks[i][k].put = "summary" => tasks[i][k].what \in S

(* Every record there is, and every summary.                               *)
RecordsOwn ==
  /\ OwnTurns(ToSet(redis.turns), said) /\ pg.rows \subseteq CtxOwned(said)
  /\ PutsTurns(redisTasks, CtxOwned(said)) /\ PutsTurns(pgTasks, CtxOwned(said))
  /\ \A m \in Managers : OwnTurns(ToSet(mgr[m].turns), said)
  /\ \A job \in jobs : OwnTurns(ToSet(job.records), said)
RedisSumsIn(S) == redis.sum \in S /\ PutsSums(redisTasks, S)
AllSumsIn(S) ==
  /\ RedisSumsIn(S) /\ pg.sums \subseteq S /\ PutsSums(pgTasks, S)
  /\ \A m \in Managers : mgr[m].sums \in S /\ mgr[m].data \in S
EndsTo(L) == {s \in CtxSums(TurnCount) : s.end <= L}
EndsFrom(e) == {s \in CtxSums(TurnCount) : e <= s.end}

(* A compression has all there is from what it knows of, up to its last    *)
(* turn, and no summary tells of later ones.                               *)
JobTells(job, h) == LET R == Real(job.records) IN R # <<>> =>
  /\ \E e \in 0..Last(R).turn :
       TellsFree(ToSet(job.records), job.l3, h, e) /\ HasTurns(ToSet(job.records), e, Last(R).turn)
  /\ \A r \in ToSet(job.records) : r.turn <= Last(R).turn
JobLate(job, f) == LET R == Real(job.records) IN
  R # <<>> => f <= Last(R).turn /\ AllSumsIn(EndsTo(Last(R).turn))

(* The list in Redis, t, with the numbers in D still to be written, holds  *)
(* what was said after f: up to m now, and the rest is due.                *)
RedisKeeps(t, D, u, f) ==
  /\ Len(t) <= Window
  /\ D = {} /\ u > 0 => t # <<>> /\ t[Len(t)].turn = u
  /\ \E m \in f..u : /\ D = (m + 1)..u /\ m - f <= Len(t)
                     /\ \A n \in (f + 1)..m : t[Len(t) - (m - n)].turn = n

FreeStores(f) ==
  /\ Up("pg") => CtxN = 1..Len(said)
  /\ CtxAscends(redisTasks)
  /\ Up("redis") => /\ Len(said) - f <= Window
                    /\ RedisKeeps(redis.turns, CtxDue(redisTasks), Len(said), f)
                    /\ RedisSumsIn(EndsFrom(f))

(* What the session that is open, x, holds; and what it may find in Redis  *)
(* as long as it has nothing.                                              *)
FreeHeld(x, f) ==
  /\ x.add # "no" => x.loaded /\ x.load = "no" /\ Real(x.turns) = <<>>
  /\ x.load # "no" => x.turns = <<>> /\ x.add = "no"
  /\ x.turns # <<>> => x.loaded /\ (x.sums.l3 = {} \/ FreeOf(said, f) \subseteq x.sums.l3)
  /\ Len(Real(x.turns)) <= Window
  /\ Real(x.turns) # <<>> => Last(Real(x.turns)).turn = Len(said) /\ Last(x.turns) = Last(Real(x.turns))
  /\ x.turns # <<>> /\ Real(x.turns) = <<>> =>
       LastRid(x.turns) = None \/ (said # <<>> /\ LastRid(x.turns) = said[Len(said)])
  /\ x.add = "push" => x.n = Len(said)
  /\ x.add = "pg" /\ Up("redis") => said = <<>>
  /\ x.loaded => /\ TellsFree(ToSet(x.turns), x.sums.l3, said, f)
                 /\ HasTurns(ToSet(x.turns), f, Len(said))
RedisQuiet == \/ redisTasks = <<>>
              \/ /\ jobs = {} /\ Len(redisTasks) = 1 /\ Len(redisTasks[1]) = 1
                 /\ redisTasks[1][1].put = "summary" /\ redis.sum.end <= redisTasks[1][1].what.end
FreeWaits(x, f) ==
  /\ Real(x.turns) = <<>> => CtxIdle
  /\ x.turns = <<>> =>
       /\ RedisQuiet /\ (x.load # "no" => x.sums = x.data)
       /\ Up("redis") /\ x.load # "no" => f <= x.data.end /\ RedisSumsIn(EndsFrom(x.data.end))
       /\ Up("redis") /\ x.sums # NoSummary => f <= x.sums.end /\ RedisSumsIn(EndsFrom(x.sums.end))
       /\ Up("redis") /\ x.load = "pg" => x.data.end = Len(said)

FreeAt(f) ==
  /\ FreeStores(f) /\ \A job \in jobs : JobLate(job, f)
  /\ \A m \in Managers : mgr[m].open => FreeHeld(mgr[m], f) /\ FreeWaits(mgr[m], f)

FreeBase ==
  /\ Together(said) /\ RecordsOwn /\ AllSumsIn(CtxSound(said))
  /\ jobs = {} \/ \E job \in jobs : jobs = {job}
  /\ \A job \in jobs : JobTells(job, said)
  /\ \A m, o \in Managers : mgr[m].open /\ mgr[o].open => m = o
  /\ \A m \in Managers : ~mgr[m].open => mgr[m] = Closed

FreeOk == FreeBase /\ \E f \in 0..Len(said) : FreeAt(f)

-----------------------------------------------------------------------------
(* The tasks.                                                              *)

LEMMA PutsMore ==
  ASSUME NEW u \in Nat, NEW tasks \in Seq(CtxTask(u)), NEW T \in CtxTask(u), NEW more, more = Append(tasks, T)
  PROVE /\ \A W : PutsTurns(tasks, W) /\ (\A k \in 1..Len(T) : T[k].put = "turn" => T[k].what \in W)
             => PutsTurns(more, W)
        /\ \A S : PutsSums(tasks, S) /\ (\A k \in 1..Len(T) : T[k].put = "summary" => T[k].what \in S)
             => PutsSums(more, S)
<1>1. Len(more) = Len(tasks) + 1 /\ Len(tasks) \in Nat /\ more[Len(tasks) + 1] = T
      /\ \A i \in 1..Len(tasks) : more[i] = tasks[i]
  OBVIOUS
<1>2. ASSUME NEW i \in 1..Len(more) PROVE i \in 1..Len(tasks) \/ i = Len(tasks) + 1
  BY <1>1
<1>3. ASSUME NEW W, PutsTurns(tasks, W), \A k \in 1..Len(T) : T[k].put = "turn" => T[k].what \in W
      PROVE PutsTurns(more, W)
  BY <1>1, <1>2, <1>3 DEF PutsTurns
<1>4. ASSUME NEW S, PutsSums(tasks, S), \A k \in 1..Len(T) : T[k].put = "summary" => T[k].what \in S
      PROVE PutsSums(more, S)
  BY <1>1, <1>2, <1>4 DEF PutsSums
<1> QED BY <1>3, <1>4

LEMMA PutsLess ==
  ASSUME NEW u \in Nat, NEW tasks \in Seq(CtxTask(u)), tasks # <<>>, NEW left, left = Advance(tasks, 1),
         NEW w, w = Head(tasks[1])
  PROVE /\ \A W : PutsTurns(tasks, W) => PutsTurns(left, W) /\ (w.put = "turn" => w.what \in W)
        /\ \A S : PutsSums(tasks, S) => PutsSums(left, S) /\ (w.put = "summary" => w.what \in S)
        /\ Len(tasks) = 1 /\ Len(tasks[1]) = 1 => left = <<>>
<1> DEFINE l0 == Len(tasks)
<1>1. l0 \in Nat \ {0} /\ 1 \in 1..l0
  OBVIOUS
<1>2. tasks[1] \in Seq(CtxWrites(u)) /\ tasks[1] # <<>>
  BY <1>1 DEF CtxTask
<1>3. w = tasks[1][1] /\ 1 \in 1..Len(tasks[1]) /\ Len(tasks[1]) \in Nat \ {0}
  BY <1>2
<1>4. left \in Seq(CtxTask(u))
  BY <1>1, AdvanceIn
<1>5. ASSUME NEW i \in 1..Len(left), NEW k \in 1..Len(left[i])
      PROVE \E j \in 1..l0 : \E l \in 1..Len(tasks[j]) : left[i][k] = tasks[j][l]
  <2>1. CASE Len(tasks[1]) = 1
    <3>1. Len(left) = l0 - 1 /\ \A j \in 1..(l0 - 1) : left[j] = tasks[j + 1]
      BY <2>1, FirstDone
    <3>2. i + 1 \in 1..l0 /\ left[i] = tasks[i + 1]
      BY <1>1, <3>1
    <3> QED BY <3>2
  <2>2. CASE Len(tasks[1]) # 1
    <3>1. left = [tasks EXCEPT ![1] = Tail(tasks[1])]
      BY <2>2 DEF Advance, ReplaceAt
    <3>2. Len(left) = l0 /\ left[1] = Tail(tasks[1]) /\ \A j \in 1..l0 : j # 1 => left[j] = tasks[j]
      <4>1. DOMAIN tasks = 1..l0 /\ DOMAIN left = 1..Len(left) /\ Len(left) \in Nat
        BY <1>4
      <4>2. DOMAIN left = DOMAIN tasks
        BY <3>1
      <4>3. left[1] = Tail(tasks[1]) /\ \A j \in DOMAIN tasks : j # 1 => left[j] = tasks[j]
        BY <1>1, <3>1, <4>1
      <4>4. Len(left) = l0
        <5>1. Len(left) \in 1..l0 \/ Len(left) = 0
          BY <4>1, <4>2
        <5>2. l0 \in 1..Len(left)
          BY <1>1, <4>1, <4>2
        <5> QED BY <1>1, <4>1, <5>1, <5>2
      <4> QED BY <4>1, <4>3, <4>4
    <3>3. Len(Tail(tasks[1])) = Len(tasks[1]) - 1
          /\ \A j \in 1..(Len(tasks[1]) - 1) : Tail(tasks[1])[j] = tasks[1][j + 1]
      BY <1>2, HeadTailProperties
    <3>4. CASE i = 1
      <4>1. k \in 1..(Len(tasks[1]) - 1)
        BY <1>3, <3>2, <3>3, <3>4
      <4>2. k + 1 \in 1..Len(tasks[1])
        BY <1>3, <4>1
      <4>3. left[i][k] = tasks[1][k + 1]
        BY <3>2, <3>3, <3>4, <4>1
      <4> QED BY <1>1, <4>2, <4>3
    <3>5. CASE i # 1
      BY <3>2, <3>5
    <3> QED BY <3>4, <3>5
  <2> QED BY <2>1, <2>2
<1>6. ASSUME Len(tasks) = 1, Len(tasks[1]) = 1 PROVE left = <<>>
  <2>1. Len(left) = 0
    BY <1>6, FirstDone
  <2> QED BY <1>4, <2>1
<1> HIDE DEF l0
<1>7. ASSUME NEW W, PutsTurns(tasks, W) PROVE PutsTurns(left, W) /\ (w.put = "turn" => w.what \in W)
  <2>1. w.put = "turn" => w.what \in W
    BY <1>1, <1>3, <1>7 DEF PutsTurns, l0
  <2>2. ASSUME NEW i \in 1..Len(left), NEW k \in 1..Len(left[i]), left[i][k].put = "turn"
        PROVE left[i][k].what \in W
    <3>1. PICK j \in 1..l0 : \E l \in 1..Len(tasks[j]) : left[i][k] = tasks[j][l]
      BY <1>5
    <3>2. PICK l \in 1..Len(tasks[j]) : left[i][k] = tasks[j][l]
      BY <3>1
    <3> QED BY <1>7, <2>2, <3>2 DEF PutsTurns, l0
  <2> QED BY <2>1, <2>2 DEF PutsTurns
<1>8. ASSUME NEW S, PutsSums(tasks, S) PROVE PutsSums(left, S) /\ (w.put = "summary" => w.what \in S)
  <2>1. w.put = "summary" => w.what \in S
    BY <1>1, <1>3, <1>8 DEF PutsSums, l0
  <2>2. ASSUME NEW i \in 1..Len(left), NEW k \in 1..Len(left[i]), left[i][k].put = "summary"
        PROVE left[i][k].what \in S
    <3>1. PICK j \in 1..l0 : \E l \in 1..Len(tasks[j]) : left[i][k] = tasks[j][l]
      BY <1>5
    <3>2. PICK l \in 1..Len(tasks[j]) : left[i][k] = tasks[j][l]
      BY <3>1
    <3> QED BY <1>8, <2>2, <3>2 DEF PutsSums, l0
  <2> QED BY <2>1, <2>2 DEF PutsSums
<1> QED BY <1>6, <1>7, <1>8

LEMMA PutsWider ==
  ASSUME NEW tasks
  PROVE /\ \A W, V : PutsTurns(tasks, W) /\ W \subseteq V => PutsTurns(tasks, V)
        /\ \A S, V : PutsSums(tasks, S) /\ S \subseteq V => PutsSums(tasks, V)
BY DEF PutsTurns, PutsSums

-----------------------------------------------------------------------------
(* One more utterance leaves what was said before.                         *)

OneMoreSaid(h, g) == h \in Seq(CtxRids) /\ g \in Seq(CtxRids) /\ Len(g) = Len(h) + 1
                     /\ \A i \in 1..Len(h) : g[i] = h[i]

LEMMA SaidGrows ==
  ASSUME NEW h, NEW g, OneMoreSaid(h, g)
  PROVE /\ \A e \in Nat : e <= Len(h) => FreeOf(g, e) = FreeOf(h, e)
        /\ CtxOwned(h) \subseteq CtxOwned(g) /\ CtxSound(h) \subseteq CtxSound(g)
        /\ \A X : OwnTurns(X, h) => OwnTurns(X, g)
<1>1. Len(h) \in Nat /\ Len(g) \in Nat /\ Len(h) <= Len(g) /\ Len(g) = Len(h) + 1
  BY DEF OneMoreSaid
<1>2. ASSUME NEW e \in Nat, e <= Len(h) PROVE FreeOf(g, e) = FreeOf(h, e)
  <2>1. ASSUME NEW i \in Nat, i <= e PROVE i \in 1..Len(g) <=> i \in 1..Len(h)
    BY <1>1, <1>2, <2>1
  <2> QED BY <1>1, <2>1 DEF FreeOf, OneMoreSaid
<1>3. CtxReal(Len(h)) \subseteq CtxReal(Len(g)) /\ CtxSums(Len(h)) \subseteq CtxSums(Len(g))
  BY <1>1, CtxGrows
<1>4. CtxOwned(h) \subseteq CtxOwned(g)
  <2>1. \A r \in CtxReal(Len(h)) : r.turn \in 1..Len(h)
    BY DEF CtxReal
  <2> QED BY <1>3, <2>1 DEF CtxOwned, OneMoreSaid
<1>5. CtxSound(h) \subseteq CtxSound(g)
  <2> SUFFICES ASSUME NEW s \in CtxSound(h) PROVE s \in CtxSound(g)
    OBVIOUS
  <2>1. s \in CtxSums(Len(h)) /\ s.end \in 0..Len(h) /\ s.prompt \in 0..Len(h)
    BY DEF CtxSound, CtxSums
  <2>2. FreeOf(g, s.end) \subseteq s.l3
    <3>1. FreeOf(g, s.end) = FreeOf(h, s.end)
      BY <1>1, <1>2, <2>1
    <3> QED BY <3>1 DEF CtxSound
  <2>3. s.end > 0 => s.end \in 1..Len(h)
    BY <1>1, <2>1
  <2>4. s.prompt > 0 => s.prompt \in 1..Len(h)
    BY <1>1, <2>1
  <2>5. s.end > 0 => s.rid = g[s.end]
    BY <2>3 DEF CtxSound, OneMoreSaid
  <2>6. s.rid # None /\ s.prompt > 0 => g[s.prompt] = s.rid
    BY <2>4 DEF CtxSound, OneMoreSaid
  <2> QED BY <1>3, <2>1, <2>2, <2>5, <2>6 DEF CtxSound
<1>6. \A X : OwnTurns(X, h) => OwnTurns(X, g)
  BY <1>4 DEF OwnTurns
<1> QED BY <1>2, <1>4, <1>5, <1>6

(* A game goes on with the next turn, or is over.                          *)
LEMMA GamesTogether ==
  ASSUME NEW h, NEW g, OneMoreSaid(h, g), Together(h),
         g[Len(g)] = None \/ g[Len(g)] \notin ToSet(h) \/ (h # <<>> /\ g[Len(g)] = h[Len(h)])
  PROVE Together(g)
<1>1. Len(h) \in Nat /\ Len(g) = Len(h) + 1
  BY DEF OneMoreSaid
<1> SUFFICES ASSUME NEW i \in 1..Len(g), NEW j \in 1..Len(g), NEW k \in 1..Len(g),
                    i < j, j < k, g[i] = g[k], g[i] # None
             PROVE g[j] = g[i]
  BY DEF Together
<1>2. i \in 1..Len(h) /\ j \in 1..Len(h) /\ g[i] = h[i] /\ g[j] = h[j]
  BY <1>1 DEF OneMoreSaid
<1>3. CASE k \in 1..Len(h)
  BY <1>2, <1>3 DEF Together, OneMoreSaid
<1>4. CASE k \notin 1..Len(h)
  <2>1. k = Len(g) /\ Len(h) \in 1..Len(h)
    BY <1>1, <1>2, <1>4
  <2>2. h[i] \in ToSet(h)
    BY <1>2 DEF OneMoreSaid, ToSet
  <2>3. h[i] = h[Len(h)]
    BY <1>2, <2>1, <2>2
  <2>4. CASE j = Len(h)
    BY <1>2, <2>3, <2>4
  <2>5. CASE j # Len(h)
    <3>1. j < Len(h)
      BY <1>1, <1>2, <2>5
    <3> QED BY <1>2, <2>1, <2>3, <3>1 DEF Together
  <2> QED BY <2>4, <2>5
<1> QED BY <1>3, <1>4

(* Numbers that are all found in s are no more than s has.                 *)
LEMMA SpanFits ==
  ASSUME NEW A, NEW s \in Seq(A), NEW f \in Nat, NEW u \in Nat, f <= u, HasTurns(ToSet(s), f, u)
  PROVE u - f <= Len(s)
<1> DEFINE F == (f + 1)..u
           g == [n \in F |-> CHOOSE i \in 1..Len(s) : s[i].turn = n]
<1>1. \A n \in F : \E i \in 1..Len(s) : s[i].turn = n
  BY DEF HasTurns, ToSet
<1>2. \A n \in F : g[n] \in 1..Len(s) /\ s[g[n]].turn = n
  BY <1>1
<1>3. g \in Injection(F, 1..Len(s))
  <2>1. g \in [F -> 1..Len(s)]
    BY <1>2
  <2>2. \A a, b \in F : g[a] = g[b] => a = b
    BY <1>2
  <2> HIDE DEF g
  <2> QED BY <2>1, <2>2 DEF Injection, IsInjective
<1>4. IsFiniteSet(1..Len(s)) /\ Cardinality(1..Len(s)) = Len(s)
  <2>1. Len(s) \in Nat
    OBVIOUS
  <2>2. ASSUME NEW l \in Nat PROVE IsFiniteSet(1..l) /\ Cardinality(1..l) = l
    <3>1. Cardinality(1..l) = IF 1 > l THEN 0 ELSE l - 1 + 1
      BY FS_Interval
    <3> QED BY <3>1, FS_Interval
  <2> QED BY <2>1, <2>2
<1>5. Cardinality(F) <= Len(s)
  <2> HIDE DEF g
  <2> QED BY <1>3, <1>4, FS_Injection
<1>6. Cardinality(F) = u - f
  <2>1. CASE f = u
    <3>1. F = {}
      BY <2>1
    <3> QED BY <2>1, <3>1, FS_EmptySet
  <2>2. CASE f # u
    <3>1. f + 1 \in Int /\ u \in Int /\ f + 1 <= u
      BY <2>2
    <3>2. Cardinality((f + 1)..u) = u - (f + 1) + 1
      BY <3>1, FS_Interval
    <3> QED BY <3>2
  <2> QED BY <2>1, <2>2
<1> QED BY <1>5, <1>6

(* Summaries that are sound end with what was said.                        *)
LEMMA SoundEnds ==
  ASSUME CtxTyped
  PROVE /\ \A s \in CtxSound(said) : s \in EndsTo(Len(said)) /\ s.end \in 0..Len(said) /\ s \in CtxSums(Len(said))
        /\ NoSummary \in CtxSound(said) /\ \A L \in Nat : NoSummary \in EndsTo(L)
<1>1. Len(said) \in Nat /\ Len(said) <= TurnCount /\ TurnCount \in Nat
  BY CtxBounds DEF CtxTyped
<1>2. CtxSums(Len(said)) \subseteq CtxSums(TurnCount)
  BY <1>1, CtxGrows
<1>3. \A s \in CtxSums(Len(said)) : s.end \in 0..Len(said)
  BY DEF CtxSums
<1>4. NoSummary.end = 0 /\ NoSummary.rid = None /\ NoSummary.l3 = {}
  BY DEF NoSummary
<1>5. FreeOf(said, 0) = {}
  BY <1>1 DEF FreeOf
<1>6. NoSummary \in CtxSums(Len(said)) /\ NoSummary \in CtxSums(TurnCount)
  BY <1>1, CtxNothing
<1> HIDE DEF NoSummary
<1>7. NoSummary \in CtxSound(said)
  BY <1>4, <1>5, <1>6 DEF CtxSound
<1>8. \A L \in Nat : NoSummary \in EndsTo(L)
  BY <1>4, <1>6 DEF EndsTo
<1>9. ASSUME NEW s \in CtxSound(said) PROVE s \in EndsTo(Len(said)) /\ s.end \in 0..Len(said) /\ s \in CtxSums(Len(said))
  <2>1. s \in CtxSums(Len(said))
    BY DEF CtxSound
  <2> QED BY <1>1, <1>2, <1>3, <2>1 DEF EndsTo
<1> QED BY <1>7, <1>8, <1>9

LEMMA SumsWider ==
  ASSUME NEW S, NEW V, S \subseteq V
  PROVE AllSumsIn(S) => AllSumsIn(V)
BY PutsWider DEF AllSumsIn, RedisSumsIn

-----------------------------------------------------------------------------
(* A compression begins: of all there is, up to the newest turn.           *)
NewJob(job) ==
  /\ OwnTurns(ToSet(job.records), said) /\ JobTells(job, said)
  /\ Real(job.records) # <<>> => Last(Real(job.records)).turn = Len(said)
JobsMove == jobs' = jobs \/ (jobs = {} /\ \E job : jobs' = {job} /\ NewJob(job))

(* A step of a session, to x, while nothing is said.                       *)
LEMMA ManagerMoves ==
  ASSUME CtxTyped, CtxTyped', FreeBase, NEW f \in 0..Len(said), FreeAt(f), NEW e \in 0..Len(said),
         NEW m \in Managers, NEW x \in CtxMgr(Len(said)), MgrSet(m, x),
         UNCHANGED <<said, pgTasks, redis, pg, outage>>, JobsMove,
         \A o \in Managers : mgr[o].open => o = m,
         IF x.open THEN FreeHeld(x, e) /\ FreeWaits(x, e)' ELSE x = Closed,
         OwnTurns(ToSet(x.turns), said), PutsTurns(redisTasks', CtxOwned(said)),
         \A S : AllSumsIn(S) /\ NoSummary \in S => x.sums \in S /\ x.data \in S /\ PutsSums(redisTasks', S),
         FreeStores(e)', e = f \/ \A L \in Nat : AllSumsIn(EndsTo(L)) => e <= L
  PROVE FreeOk'
<1> DEFINE u == Len(said)
<1>1. u \in Nat /\ mgr \in [Managers -> CtxMgr(u)] /\ said' = said
  BY DEF CtxTyped
<1>2. mgr'[m] = x /\ \A o \in Managers : o # m => mgr'[o] = mgr[o]
  BY <1>1, MgrStays
<1>3. ASSUME NEW S, AllSumsIn(S), NoSummary \in S PROVE AllSumsIn(S)'
  <2>1. \A o \in Managers : mgr'[o].sums \in S /\ mgr'[o].data \in S
    BY <1>2, <1>3 DEF AllSumsIn
  <2>2. PutsSums(redisTasks', S)
    BY <1>3
  <2> QED BY <1>3, <2>1, <2>2 DEF AllSumsIn, RedisSumsIn
<1>4. AllSumsIn(CtxSound(said))'
  <2>1. PICK S : S = CtxSound(said)
    OBVIOUS
  <2>2. AllSumsIn(S)'
    BY <1>3, <2>1, SoundEnds DEF FreeBase
  <2>3. CtxSound(said)' = S
    BY <1>1, <2>1 DEF CtxSound, FreeOf
  <2> QED BY <2>2, <2>3 DEF AllSumsIn, RedisSumsIn
<1>5. \A job \in jobs' : job \in jobs \/ (jobs = {} /\ NewJob(job))
  BY DEF JobsMove
<1>6. jobs' = {} \/ \E job \in jobs' : jobs' = {job}
  BY DEF JobsMove, FreeBase
<1>7. RecordsOwn'
  <2>1. CtxOwned(said)' = CtxOwned(said)
    BY <1>1 DEF CtxOwned
  <2>2. \A o \in Managers : OwnTurns(ToSet(mgr'[o].turns), said)
    BY <1>2 DEF FreeBase, RecordsOwn
  <2>3. \A job \in jobs' : OwnTurns(ToSet(job.records), said)
    BY <1>5 DEF FreeBase, RecordsOwn, NewJob
  <2>4. /\ OwnTurns(ToSet(redis.turns), said) /\ pg.rows \subseteq CtxOwned(said)
        /\ PutsTurns(pgTasks, CtxOwned(said))
    BY DEF FreeBase, RecordsOwn
  <2> QED BY <1>1, <2>1, <2>2, <2>3, <2>4 DEF RecordsOwn
<1>8. \A job \in jobs' : JobTells(job, said)
  BY <1>5 DEF FreeBase, NewJob
<1>9. \A o, p \in Managers : mgr'[o].open /\ mgr'[p].open => o = p
  BY <1>2
<1>10. \A o \in Managers : ~mgr'[o].open => mgr'[o] = Closed
  BY <1>2 DEF FreeBase
<1>11. FreeBase'
  BY <1>1, <1>4, <1>6, <1>7, <1>8, <1>9, <1>10 DEF FreeBase
<1>12. ASSUME NEW job \in jobs' PROVE JobLate(job, e)'
  <2> DEFINE R == Real(job.records)
             L == Last(R).turn
  <2> SUFFICES ASSUME R # <<>> PROVE e <= L /\ AllSumsIn(EndsTo(L))'
    BY DEF JobLate
  <2>1. R \in Seq(CtxReal(u))
    <3>1. job \in CtxJob(u)
      BY <1>1, <1>12 DEF CtxTyped
    <3>2. job.records \in Seq(CtxRecords(u))
      BY <3>1 DEF CtxJob
    <3> QED BY <1>1, <3>2, AfterIn
  <2>2. L \in 1..u
    <3>1. Last(R) \in CtxReal(u)
      BY <2>1 DEF Last
    <3> QED BY <3>1 DEF CtxReal
  <2>3. AllSumsIn(EndsTo(L)) /\ e <= L
    <3>1. CASE job \in jobs
      BY <2>2, <3>1 DEF FreeAt, JobLate
    <3>2. CASE job \notin jobs
      <4>1. L = u
        BY <1>5, <3>2 DEF NewJob
      <4>2. CtxSound(said) \subseteq EndsTo(u)
        BY SoundEnds
      <4>3. AllSumsIn(EndsTo(u))
        BY <4>2, SumsWider DEF FreeBase
      <4> QED BY <1>1, <4>1, <4>3
    <3> QED BY <3>1, <3>2
  <2>4. PICK S : S = EndsTo(L)
    OBVIOUS
  <2>5. AllSumsIn(S)'
    BY <1>3, <2>2, <2>3, <2>4, SoundEnds
  <2> QED BY <2>3, <2>4, <2>5
<1>13. (\A o \in Managers : mgr[o].open => FreeHeld(mgr[o], e) /\ FreeWaits(mgr[o], e))'
  <2> SUFFICES ASSUME NEW o \in Managers, mgr'[o].open PROVE FreeHeld(mgr[o], e)' /\ FreeWaits(mgr[o], e)'
    OBVIOUS
  <2>1. mgr'[o] = x /\ x.open
    BY <1>2
  <2>2. FreeHeld(x, e) /\ FreeWaits(x, e)'
    BY <2>1
  <2>3. FreeHeld(mgr[o], e)'
    BY <1>1, <2>1, <2>2 DEF FreeHeld, Up
  <2>4. FreeWaits(mgr[o], e)'
    BY <2>1, <2>2 DEF FreeWaits, RedisSumsIn
  <2> QED BY <2>3, <2>4
<1>14. FreeAt(e)'
  BY <1>12, <1>13 DEF FreeAt
<1> QED BY <1>1, <1>11, <1>14 DEF FreeOk

(* The instance the theorem is about: sessions one after another, none of  *)
(* more turns than the window, at most one compression under way, a model  *)
(* that answers, never both stores down.                                   *)
OneAtATime ==
  /\ Calm /\ MemoryTurns <= Window /\ JobCount = 1 /\ ModelFails = FALSE
  /\ \A o \in Outages : ~({"redis", "pg"} \subseteq o)
StoresAlike == UNCHANGED <<said, redisTasks, pgTasks, redis, pg, outage>>

LEMMA StoresStayFree ==
  ASSUME FreeBase, NEW f, FreeStores(f), StoresAlike
  PROVE /\ FreeStores(f)' /\ PutsTurns(redisTasks', CtxOwned(said))
        /\ \A S : AllSumsIn(S) => PutsSums(redisTasks', S)
        /\ jobs' = jobs => \A x : FreeWaits(x, f) => FreeWaits(x, f)'
<1>1. FreeStores(f)'
  BY DEF StoresAlike, FreeStores, Up, CtxN, RedisSumsIn
<1>2. PutsTurns(redisTasks', CtxOwned(said))
  BY DEF StoresAlike, FreeBase, RecordsOwn
<1>3. \A S : AllSumsIn(S) => PutsSums(redisTasks', S)
  BY DEF StoresAlike, AllSumsIn, RedisSumsIn
<1>4. ASSUME jobs' = jobs, NEW x, FreeWaits(x, f) PROVE FreeWaits(x, f)'
  BY <1>4 DEF StoresAlike, FreeWaits, CtxIdle, RedisQuiet, RedisSumsIn, Up
<1> QED BY <1>1, <1>2, <1>3, <1>4

(* A step that changes no more than the memory of a session.               *)
LEMMA MemoryMoves ==
  ASSUME CtxTyped, CtxTyped', FreeBase, NEW f \in 0..Len(said), FreeAt(f),
         NEW m \in Managers, NEW x \in CtxMgr(Len(said)), MgrSet(m, x), StoresAlike, UNCHANGED jobs,
         \A o \in Managers : mgr[o].open => o = m,
         IF x.open THEN FreeHeld(x, f) /\ FreeWaits(x, f) ELSE x = Closed,
         OwnTurns(ToSet(x.turns), said), \A S : AllSumsIn(S) /\ NoSummary \in S => x.sums \in S /\ x.data \in S
  PROVE FreeOk'
<1>1. FreeStores(f)
  BY DEF FreeAt
<1>2. JobsMove /\ UNCHANGED <<said, pgTasks, redis, pg, outage>>
  BY DEF JobsMove, StoresAlike
<1>3. /\ FreeStores(f)' /\ PutsTurns(redisTasks', CtxOwned(said))
      /\ \A S : AllSumsIn(S) => PutsSums(redisTasks', S)
      /\ FreeWaits(x, f) => FreeWaits(x, f)'
  BY <1>1, StoresStayFree
<1>4. IF x.open THEN FreeHeld(x, f) /\ FreeWaits(x, f)' ELSE x = Closed
  BY <1>3
<1>5. \A S : AllSumsIn(S) /\ NoSummary \in S => x.sums \in S /\ x.data \in S /\ PutsSums(redisTasks', S)
  BY <1>3
<1> QED BY <1>2, <1>3, <1>4, <1>5, ManagerMoves

LEMMA DueNothing == CtxDue(<<>>) = {} /\ ToSet(<<>>) = {}
<1>1. ASSUME NEW i \in Nat, NEW k \in Nat PROVE ~CtxTurnAt(<<>>, i, k)
  BY DEF CtxTurnAt, CtxAt
<1> QED BY <1>1 DEF CtxDue, ToSet

LEMMA OpenFree ==
  ASSUME OneAtATime, CtxTyped, CtxTyped', FreeOk, NEW m \in Managers, Open(m) \/ EndSession(m)
  PROVE FreeOk'
<1>1. PICK f \in 0..Len(said) : FreeAt(f)
  BY DEF FreeOk
<1>2. FreeBase /\ Calm /\ Len(said) \in Nat
  BY DEF FreeOk, OneAtATime, CtxTyped
<1>3. StoresAlike /\ UNCHANGED jobs
  BY <1>2 DEF Open, EndSession, StoresAlike
<1>4. Closed \in CtxMgr(Len(said)) /\ ~Closed.open /\ Closed.turns = <<>> /\ Closed.sums = NoSummary
      /\ Closed.data = NoSummary
  BY <1>2, CtxNothing DEF Closed
<1>5. OwnTurns(ToSet(<<>>), said)
  BY DueNothing DEF OwnTurns
<1>6. CASE EndSession(m)
  <2>1. PICK x : x = Closed
    OBVIOUS
  <2>2. MgrSet(m, x) /\ mgr[m].open
    BY <1>6, <2>1 DEF EndSession, MgrSet
  <2>3. \A o \in Managers : mgr[o].open => o = m
    BY <1>2, <2>2 DEF FreeBase
  <2> HIDE DEF Closed
  <2> QED BY <1>1, <1>2, <1>3, <1>4, <1>5, <2>1, <2>2, <2>3, MemoryMoves
<1>7. CASE Open(m)
  <2>1. PICK x : x = [Closed EXCEPT !.open = TRUE]
    OBVIOUS
  <2>2. MgrSet(m, x) /\ redisTasks = <<>> /\ pgTasks = <<>> /\ \A o \in Managers : ~mgr[o].open
    BY <1>2, <1>7, <2>1 DEF Open, MgrSet
  <2>3. x.open /\ x.turns = <<>> /\ x.sums = NoSummary /\ x.data = NoSummary /\ x.add = "no" /\ x.load = "no"
        /\ ~x.loaded
    BY <2>1 DEF Closed
  <2>4. x \in CtxMgr(Len(said))
    BY <1>4, <2>1 DEF CtxMgr
  <2>5. FreeHeld(x, f)
    BY <2>3, NoneReal, CtxBounds DEF FreeHeld
  <2>6. FreeWaits(x, f)
    BY <2>2, <2>3, DueNothing DEF FreeWaits, CtxIdle, RedisQuiet
  <2> HIDE DEF Closed
  <2> QED BY <1>1, <1>2, <1>3, <1>5, <2>2, <2>3, <2>4, <2>5, <2>6, MemoryMoves
<1> QED BY <1>6, <1>7

-----------------------------------------------------------------------------
(* While no turn waits to be stored, the last in Redis is the newest.      *)
LEMMA RedisLast ==
  ASSUME CtxTyped, NEW f \in Nat, FreeStores(f), Up("redis"), CtxDue(redisTasks) = {}
  PROVE /\ RedisTurns = redis.turns /\ RedisSummary = redis.sum
        /\ RedisTurns = <<>> <=> Len(said) = 0
        /\ RedisTurns # <<>> => /\ Last(RedisTurns).turn = Len(said) /\ Last(RedisTurns) \in ToSet(redis.turns)
                                /\ redis.turns[Len(redis.turns)].turn = Len(said)
<1>1. redis.turns \in Seq(CtxReal(Len(said))) /\ Len(said) \in Nat
  BY DEF CtxTyped
<1>2. RedisTurns = redis.turns /\ RedisSummary = redis.sum
  BY DEF RedisTurns, RedisSummary
<1>3. redis.turns # <<>> => Last(redis.turns) = redis.turns[Len(redis.turns)] /\ Len(redis.turns) \in DOMAIN redis.turns
                            /\ Last(redis.turns) \in CtxReal(Len(said))
  BY <1>1 DEF Last
<1>4. redis.turns # <<>> => Len(said) # 0
  BY <1>1, <1>3 DEF CtxReal
<1>5. Len(said) > 0 => redis.turns # <<>> /\ redis.turns[Len(redis.turns)].turn = Len(said)
  BY DEF FreeStores, RedisKeeps
<1>6. redis.turns # <<>> => Last(redis.turns) \in ToSet(redis.turns)
  BY <1>3 DEF ToSet
<1> QED BY <1>1, <1>2, <1>3, <1>4, <1>5, <1>6

(* What is left of a session that is at work.                              *)
LEMMA AtWork ==
  ASSUME CtxTyped, FreeBase, NEW f, FreeAt(f), NEW m \in Managers, mgr[m].open
  PROVE /\ FreeHeld(mgr[m], f) /\ FreeWaits(mgr[m], f) /\ \A o \in Managers : mgr[o].open => o = m
        /\ OwnTurns(ToSet(mgr[m].turns), said)
        /\ \A S : AllSumsIn(S) => mgr[m].sums \in S /\ mgr[m].data \in S
BY DEF FreeAt, FreeBase, RecordsOwn, AllSumsIn

(* The number for a turn is asked for.                                     *)
LEMMA AsksFree ==
  ASSUME OneAtATime, CtxTyped, CtxTyped', FreeOk, NEW m \in Managers, mgr[m].open,
         NEW x \in CtxMgr(Len(said)), MgrSet(m, x), StoresAlike, UNCHANGED jobs,
         mgr[m].loaded, mgr[m].load = "no", Real(mgr[m].turns) = <<>>,
         x.open, x.turns = mgr[m].turns, x.sums = mgr[m].sums, x.loaded, x.load = "no", x.data = mgr[m].data,
         x.add = "push" => x.n = Len(said), x.add = "pg" /\ Up("redis") => said = <<>>
  PROVE FreeOk'
<1>1. PICK f \in 0..Len(said) : FreeAt(f)
  BY DEF FreeOk
<1>2. FreeBase
  BY DEF FreeOk
<1>3. /\ FreeHeld(mgr[m], f) /\ FreeWaits(mgr[m], f) /\ \A o \in Managers : mgr[o].open => o = m
      /\ OwnTurns(ToSet(mgr[m].turns), said)
      /\ \A S : AllSumsIn(S) => mgr[m].sums \in S /\ mgr[m].data \in S
  BY <1>1, <1>2, AtWork
<1>4. FreeHeld(x, f)
  BY <1>3 DEF FreeHeld
<1>5. FreeWaits(x, f)
  BY <1>3 DEF FreeWaits
<1> QED BY <1>1, <1>2, <1>3, <1>4, <1>5, MemoryMoves

LEMMA AskFree ==
  ASSUME OneAtATime, CtxInvariant, CtxTyped', FreeOk, outage \in Outages, NEW m \in Managers,
         (AddTurn(m) /\ ~(LastTurn(mgr[m].turns) > 0)) \/ AddAsksRedis(m) \/ AddAsksPg(m)
  PROVE FreeOk'
<1> USE DEF MgrSet
<1>1. PICK f \in 0..Len(said) : FreeAt(f)
  BY DEF FreeOk
<1>2. CtxTyped /\ FreeBase /\ Calm /\ (Up("redis") \/ Up("pg")) /\ Len(said) \in Nat
  BY DEF FreeOk, CtxInvariant, CtxTyped, OneAtATime, Up
<1>3. mgr[m] \in CtxMgr(Len(said)) /\ StoresAlike /\ UNCHANGED jobs
  BY <1>2, MgrIn DEF AddTurn, AddAsksRedis, AddAsksPg, StoresAlike
<1>4. mgr[m].open
  BY <1>2 DEF AddTurn, MayAdd, AddAsksRedis, AddAsksPg, FreeBase, Closed
<1>5. FreeHeld(mgr[m], f) /\ FreeWaits(mgr[m], f)
  BY <1>1, <1>2, <1>4, AtWork
<1>6. CASE AddTurn(m) /\ ~(LastTurn(mgr[m].turns) > 0)
  <2>1. PICK x : x = [mgr[m] EXCEPT !.add = "redis"]
    OBVIOUS
  <2>2. Real(mgr[m].turns) = <<>> /\ mgr[m].loaded /\ mgr[m].load = "no"
    <3>1. mgr[m].turns \in Seq(CtxRecords(Len(said)))
      BY <1>2, MgrIn
    <3>2. Real(mgr[m].turns) = <<>>
      BY <1>2, <1>6, <3>1, LastTurnIn
    <3> QED BY <1>2, <1>6, <3>2 DEF AddTurn, MayAdd
  <2>3. MgrSet(m, x)
    BY <1>6, <2>1 DEF AddTurn
  <2>4. x \in CtxMgr(Len(said)) /\ x.add = "redis" /\ x.open /\ x.turns = mgr[m].turns /\ x.sums = mgr[m].sums
        /\ x.loaded /\ x.load = "no" /\ x.data = mgr[m].data
    BY <1>3, <1>4, <2>1, <2>2 DEF CtxMgr
  <2> QED BY <1>2, <1>3, <1>4, <2>2, <2>3, <2>4, AsksFree
<1>7. CASE AddAsksRedis(m)
  <2>1. PICK n : n = IF RedisTurns = <<>> THEN 0 ELSE Last(RedisTurns).turn
    OBVIOUS
  <2>2. PICK x : x = [mgr[m] EXCEPT !.n = n, !.add = IF n = 0 THEN "pg" ELSE "push"]
    OBVIOUS
  <2>3. Real(mgr[m].turns) = <<>> /\ mgr[m].loaded /\ mgr[m].load = "no" /\ CtxDue(redisTasks) = {}
    BY <1>5, <1>7 DEF AddAsksRedis, FreeHeld, FreeWaits, CtxIdle
  <2>4. MgrSet(m, x)
    BY <1>7, <2>1, <2>2 DEF AddAsksRedis
  <2>5. (n # 0 => n = Len(said)) /\ n \in 0..Len(said) /\ (n = 0 /\ Up("redis") => Len(said) = 0)
    <3>1. CASE Up("redis")
      <4>1. FreeStores(f)
        BY <1>1 DEF FreeAt
      <4> QED BY <1>2, <2>1, <2>3, <3>1, <4>1, RedisLast
    <3>2. CASE ~Up("redis")
      BY <1>2, <2>1, <3>2 DEF RedisTurns
    <3> QED BY <3>1, <3>2
  <2>6. n = 0 /\ Up("redis") => said = <<>>
    BY <1>2, <2>5 DEF CtxTyped
  <2>7. x \in CtxMgr(Len(said)) /\ x.n = n /\ x.add = (IF n = 0 THEN "pg" ELSE "push") /\ x.open
        /\ x.turns = mgr[m].turns /\ x.sums = mgr[m].sums /\ x.loaded /\ x.load = "no" /\ x.data = mgr[m].data
    BY <1>3, <1>4, <2>2, <2>3, <2>5 DEF CtxMgr
  <2> QED BY <1>2, <1>3, <1>4, <2>3, <2>4, <2>5, <2>6, <2>7, AsksFree
<1>8. CASE AddAsksPg(m)
  <2>1. PICK n : n = PgLast
    OBVIOUS
  <2>2. PICK x : x = [mgr[m] EXCEPT !.n = n, !.add = "push"]
    OBVIOUS
  <2>3. Real(mgr[m].turns) = <<>> /\ mgr[m].loaded /\ mgr[m].load = "no" /\ CtxIdle
        /\ (Up("redis") => said = <<>>)
    BY <1>5, <1>8 DEF AddAsksPg, FreeHeld, FreeWaits
  <2>4. MgrSet(m, x)
    BY <1>8, <2>1, <2>2 DEF AddAsksPg
  <2>5. n \in 0..Len(said) /\ n = Len(said)
    <3>1. n \in 0..Len(said) /\ \A r \in PgRows : r.turn \in 1..n
      BY <1>2, <2>1, PgLastFacts
    <3>2. CASE Up("redis")
      BY <2>3, <3>1, <3>2
    <3>3. CASE Up("pg")
      <4>1. CtxN = {r.turn : r \in PgRows} /\ CtxN = 1..Len(said)
        <5>1. CtxN = 1..Len(said)
          BY <1>1, <3>3 DEF FreeAt, FreeStores
        <5> QED BY <1>2, <2>3, <3>3, <5>1, IdleNumbers DEF CtxInvariant, CtxIdle
      <4>2. Len(said) > 0 => \E r \in PgRows : r.turn = Len(said)
        BY <1>2, <4>1
      <4> QED BY <1>2, <3>1, <4>2
    <3> QED BY <1>2, <3>2, <3>3
  <2>6. x \in CtxMgr(Len(said)) /\ x.n = n /\ x.add = "push" /\ x.open
        /\ x.turns = mgr[m].turns /\ x.sums = mgr[m].sums /\ x.loaded /\ x.load = "no" /\ x.data = mgr[m].data
    BY <1>3, <1>4, <2>2, <2>3, <2>5 DEF CtxMgr
  <2> QED BY <1>2, <1>3, <1>4, <2>3, <2>4, <2>5, <2>6, AsksFree
<1> QED BY <1>6, <1>7, <1>8

(* Nothing is real where no record is.                                     *)
LEMMA RealNone ==
  ASSUME NEW u \in Nat, NEW rs \in Seq(CtxRecords(u))
  PROVE Real(rs) = <<>> <=> \A x \in ToSet(rs) : ~(x.turn > 0)
<1>1. \A x : x \in ToSet(Real(rs)) <=> x \in ToSet(rs) /\ x.turn > 0
  BY AfterHas DEF Real
<1>2. Real(rs) \in Seq(CtxReal(u))
  BY AfterIn
<1>3. Real(rs) # <<>> => Real(rs)[1] \in ToSet(Real(rs))
  BY <1>2 DEF ToSet
<1>4. Real(rs) = <<>> => ToSet(Real(rs)) = {}
  BY DEF ToSet
<1> QED BY <1>1, <1>3, <1>4

(* A load that is done may start a compression, if none is under way.      *)
LEMMA StartsFree ==
  ASSUME OneAtATime, CtxTyped, FreeBase, NEW data \in CtxSums(Len(said)), NEW e \in 0..Len(said),
         NEW list \in Seq(CtxRecords(Len(said))), NEW memory \in Seq(CtxRecords(Len(said))),
         jobs' \in Started(Unified(list, memory), data),
         OwnTurns(ToSet(list), said), OwnTurns(ToSet(memory), said),
         TellsFree(ToSet(list), data.l3, said, e), HasTurns(ToSet(list), e, Len(said)),
         Real(list) # <<>> => Last(Real(list)).turn = Len(said), Real(list) = <<>> => Real(memory) = <<>>
  PROVE JobsMove
<1> DEFINE u == Len(said)
           records == Unified(list, memory)
           job == [records |-> records, l3 |-> data.l3, l4 |-> data.l4]
           X == ToSet(records)
<1>1. u \in Nat /\ JobCount = 1
  BY DEF CtxTyped, OneAtATime
<1>2. jobs' = jobs \/ (jobs = {} /\ jobs' = {job})
  <2>1. jobs # {} => Cardinality(jobs) = 1
    BY FS_Singleton DEF FreeBase
  <2> QED BY <1>1, <2>1 DEF Started
<1>3. records \in Seq(CtxRecords(u))
  BY <1>1, UnifiedIn
<1>4. /\ \A x \in ToSet(list) : x \in X
      /\ \A x \in X : x \in ToSet(list) \/ (x \in ToSet(memory) /\ x.turn > 0)
      /\ Real(list) # <<>> => Real(records) # <<>> /\ Last(Real(records)) = Last(Real(list))
  BY <1>1, UnifiedHas
<1>5. job.records = records /\ job.l3 = data.l3
  OBVIOUS
<1>6. \A x \in X : x.turn \in Int /\ x.turn <= u
  <2>1. \A x \in X : x \in CtxRecords(u)
    BY <1>3 DEF ToSet
  <2>2. \A r \in CtxRecords(u) : r.turn \in Int /\ r.turn <= u
    BY <1>1 DEF CtxRecords
  <2> QED BY <2>1, <2>2
<1> HIDE DEF records, job
<1>7. Real(records) # <<>> => Last(Real(records)).turn = u
  <2>1. CASE Real(list) # <<>>
    BY <1>4, <2>1
  <2>2. CASE Real(list) = <<>>
    <3>1. \A x \in X : ~(x.turn > 0)
      BY <1>1, <1>4, <2>2, RealNone
    <3> QED BY <1>1, <1>3, <3>1, RealNone
  <2> QED BY <2>1, <2>2
<1> HIDE DEF u, X
<1>8. OwnTurns(X, said)
  BY <1>4 DEF OwnTurns
<1>9. TellsFree(X, data.l3, said, e) /\ HasTurns(X, e, u)
  <2>1. \A x \in X : x.turn = -2 => x \in ToSet(list)
    BY <1>4, <1>6
  <2>2. TellsFree(X, data.l3, said, e)
    BY <1>4, <2>1 DEF TellsFree
  <2>3. HasTurns(X, e, u)
    BY <1>4 DEF HasTurns, u
  <2> QED BY <2>2, <2>3
<1>10. NewJob(job)
  <2>1. Real(records) # <<>> =>
          /\ e \in 0..Last(Real(records)).turn
          /\ TellsFree(X, job.l3, said, e) /\ HasTurns(X, e, Last(Real(records)).turn)
          /\ \A r \in X : r.turn <= Last(Real(records)).turn
    BY <1>5, <1>6, <1>7, <1>9 DEF u
  <2>2. JobTells(job, said)
    BY <1>5, <2>1 DEF JobTells, X
  <2> QED BY <1>5, <1>7, <1>8, <2>2 DEF NewJob, X, u
<1> QED BY <1>2, <1>10 DEF JobsMove

-----------------------------------------------------------------------------
(* A load begins, or Redis has nothing behind the anchor.                  *)
LEMMA LoadColdFree ==
  ASSUME OneAtATime, CtxTyped, CtxTyped', FreeOk, NEW m \in Managers, LoadCold(m)
  PROVE FreeOk'
<1>1. PICK f \in 0..Len(said) : FreeAt(f)
  BY DEF FreeOk
<1>2. FreeBase /\ Calm /\ StoresAlike /\ UNCHANGED jobs
  BY DEF FreeOk, OneAtATime, LoadCold, StoresAlike
<1>3. mgr[m] \in CtxMgr(Len(said)) /\ mgr[m].sums \in CtxSums(Len(said)) /\ RedisSummary \in CtxSums(Len(said))
  BY MgrIn, RedisFacts
<1>4. mgr[m].open /\ mgr[m].load = "no" /\ mgr[m].turns = <<>> /\ mgr[m].add = "no"
  BY <1>2 DEF LoadCold
<1>5. /\ FreeHeld(mgr[m], f) /\ FreeWaits(mgr[m], f) /\ \A o \in Managers : mgr[o].open => o = m
      /\ OwnTurns(ToSet(mgr[m].turns), said)
      /\ \A S : AllSumsIn(S) => mgr[m].sums \in S /\ mgr[m].data \in S
  BY <1>1, <1>2, <1>4, AtWork
<1>6. PICK data : data = IF mgr[m].sums = NoSummary THEN RedisSummary ELSE mgr[m].sums
  OBVIOUS
<1>7. PICK x : x = [mgr[m] EXCEPT !.load = "redis", !.data = data, !.sums = data]
  OBVIOUS
<1>8. MgrSet(m, x)
  <2>1. mgr \in [Managers -> CtxMgr(Len(said))]
    BY DEF CtxTyped
  <2>2. mgr' = [mgr EXCEPT ![m].load = "redis", ![m].data = data, ![m].sums = data]
    BY <1>6 DEF LoadCold
  <2> QED BY <1>3, <1>7, <2>1, <2>2 DEF MgrSet, CtxMgr
<1>9. x \in CtxMgr(Len(said)) /\ x.open /\ x.turns = <<>> /\ x.add = "no" /\ x.load = "redis"
      /\ x.sums = data /\ x.data = data /\ x.loaded = mgr[m].loaded
  BY <1>3, <1>4, <1>6, <1>7 DEF CtxMgr
<1>10. ASSUME NEW S, AllSumsIn(S), NoSummary \in S PROVE data \in S
  BY <1>5, <1>6, <1>10 DEF AllSumsIn, RedisSumsIn, RedisSummary
<1>11. FreeOf(said, f) \subseteq mgr[m].sums.l3 => FreeOf(said, f) \subseteq data.l3
  <2>1. NoSummary.l3 = {}
    BY DEF NoSummary
  <2> QED BY <1>6, <2>1
<1>12. FreeHeld(x, f)
  <2>1. x.loaded => TellsFree(ToSet(<<>>), x.sums.l3, said, f) /\ HasTurns(ToSet(<<>>), f, Len(said))
    BY <1>4, <1>5, <1>9, <1>11, DueNothing DEF FreeHeld, TellsFree
  <2> QED BY <1>9, <2>1, NoneReal, CtxBounds DEF FreeHeld
<1>13. FreeWaits(x, f)
  <2>1. CtxIdle /\ RedisQuiet
    BY <1>4, <1>5, NoneReal DEF FreeWaits
  <2>2. Up("redis") => f <= data.end /\ RedisSumsIn(EndsFrom(data.end))
    <3> SUFFICES ASSUME Up("redis") PROVE f <= data.end /\ RedisSumsIn(EndsFrom(data.end))
      OBVIOUS
    <3>1. CASE mgr[m].sums # NoSummary
      BY <1>4, <1>5, <1>6, <3>1 DEF FreeWaits
    <3>2. CASE mgr[m].sums = NoSummary
      <4>1. data = redis.sum
        BY <1>6, <3>2 DEF RedisSummary
      <4>2. RedisSumsIn(EndsFrom(f))
        BY <1>1 DEF FreeAt, FreeStores
      <4>3. f <= data.end /\ data \in CtxSums(TurnCount)
        BY <4>1, <4>2 DEF RedisSumsIn, EndsFrom
      <4>4. data \in EndsFrom(data.end)
        <5>1. data.end \in Nat
          BY <4>3, CtxBounds DEF CtxSums
        <5> QED BY <4>3, <5>1 DEF EndsFrom
      <4>5. PutsSums(redisTasks, EndsFrom(data.end))
        <5>1. PutsSums(redisTasks, CtxSums(TurnCount))
          BY <4>2, PutsWider DEF RedisSumsIn, EndsFrom
        <5> QED BY <2>1, <4>1, <5>1 DEF PutsSums, RedisQuiet, EndsFrom
      <4> QED BY <4>1, <4>3, <4>4, <4>5 DEF RedisSumsIn
    <3> QED BY <3>1, <3>2
  <2> QED BY <1>9, <2>1, <2>2 DEF FreeWaits
<1>14. OwnTurns(ToSet(x.turns), said)
  BY <1>4, <1>5, <1>9
<1>15. \A S : AllSumsIn(S) /\ NoSummary \in S => x.sums \in S /\ x.data \in S
  BY <1>9, <1>10
<1> QED BY <1>1, <1>2, <1>5, <1>8, <1>9, <1>12, <1>13, <1>14, <1>15, MemoryMoves

(* What a recovery from Redis finds.                                       *)
LEMMA RedisLoads ==
  ASSUME CtxTyped, FreeBase, NEW f \in 0..Len(said), FreeStores(f), CtxDue(redisTasks) = {}, NEW m \in Managers,
         NEW e, e = mgr[m].data.end, NEW rs, rs = RedisLoad(m)
  PROVE /\ rs \in Seq(CtxReal(Len(said))) /\ e \in 0..Len(said)
        /\ rs = <<>> /\ Up("redis") => e = Len(said)
        /\ rs # <<>> => /\ Up("redis") /\ Len(rs) <= Window /\ Last(rs).turn = Len(said)
                        /\ OwnTurns(ToSet(rs), said) /\ (f <= e => HasTurns(ToSet(rs), e, Len(said)))
<1> DEFINE u == Len(said)
           t == redis.turns
<1>1. u \in Nat /\ t \in Seq(CtxReal(u)) /\ t \in Seq(CtxRecords(u)) /\ e \in 0..u /\ Window >= 1 /\ Window \in Nat
  <2>1. t \in Seq(CtxReal(u)) /\ u \in Nat
    BY DEF CtxTyped
  <2>2. CtxReal(u) \subseteq CtxRecords(u)
    BY <2>1, CtxGrows
  <2>3. t \in Seq(CtxRecords(u))
    BY <2>1, <2>2, SeqMonotonic
  <2> QED BY <2>1, <2>3, MgrIn, CtxBounds
<1>2. rs \in Seq(CtxReal(u))
  BY LoadsRead
<1>3. CASE ~Up("redis")
  <2>1. RedisTurns = <<>>
    BY <1>3 DEF RedisTurns
  <2>2. After(<<>>, e) = <<>>
    <3>1. <<>> \in Seq(CtxRecords(u)) /\ \A j \in 1..Len(<<>>) : j \notin {i \in DOMAIN <<>> : <<>>[i].turn > e}
      OBVIOUS
    <3> QED BY <3>1, PickNone DEF After
  <2>3. rs = <<>>
    BY <1>1, <2>1, <2>2 DEF RedisLoad, LastN
  <2> QED BY <1>1, <1>2, <1>3, <2>3
<1>4. CASE Up("redis")
  <2>1. RedisTurns = t /\ (t = <<>> <=> u = 0) /\ (t # <<>> => t[Len(t)].turn = u)
    BY <1>1, <1>4, RedisLast
  <2>2. PICK a : a = After(t, e)
    OBVIOUS
  <2>3. a \in Seq(CtxReal(u)) /\ \A x : x \in ToSet(a) <=> x \in ToSet(t) /\ x.turn > e
    <3>1. a \in Seq(CtxReal(u))
      <4>1. e \in Nat
        BY <1>1
      <4> HIDE DEF t, u
      <4> QED BY <1>1, <2>2, <4>1, AfterIn
    <3>2. \A x : x \in ToSet(After(t, e)) <=> x \in ToSet(t) /\ x.turn > e
      BY <1>1, AfterHas
    <3> QED BY <2>2, <3>1, <3>2
  <2>4. rs = LastN(a, Window) /\ Len(a) <= Window
    <3>1. rs = LastN(a, Window)
      BY <2>1, <2>2 DEF RedisLoad
    <3>2. Len(a) <= Len(t)
      <4>1. PICK P : a = Pick(t, P)
        BY <2>2 DEF After
      <4>2. IsFiniteSet(1..Len(t)) /\ Cardinality(1..Len(t)) = Len(t)
        <5>1. Len(t) \in Nat
          BY <1>1
        <5>2. ASSUME NEW l \in Nat PROVE IsFiniteSet(1..l) /\ Cardinality(1..l) = l
          <6>1. Cardinality(1..l) = IF 1 > l THEN 0 ELSE l - 1 + 1
            BY FS_Interval
          <6> QED BY <6>1, FS_Interval
        <5> HIDE DEF t
        <5> QED BY <5>1, <5>2
      <4> HIDE DEF t, u
      <4> QED BY <1>1, <4>1, <4>2, PickCount
    <3>3. Len(t) <= Window
      BY <1>4 DEF FreeStores, RedisKeeps
    <3> QED BY <1>1, <2>3, <3>1, <3>2, <3>3
  <2>5. rs = a
    BY <1>1, <2>3, <2>4, LastNFacts
  <2>6. t # <<>> => Len(t) \in 1..Len(t) /\ t[Len(t)] \in ToSet(t)
    BY <1>1 DEF ToSet
  <2>7. ASSUME rs = <<>> PROVE e = u
    <3>1. ToSet(a) = {}
      BY <2>5, <2>7 DEF ToSet
    <3>2. u > 0 => ~(u > e)
      BY <2>1, <2>3, <2>6, <3>1
    <3> QED BY <1>1, <3>2
  <2>8. ASSUME rs # <<>> PROVE /\ Len(rs) <= Window /\ Last(rs).turn = u /\ OwnTurns(ToSet(rs), said)
                               /\ (f <= e => HasTurns(ToSet(rs), e, u))
    <3>1. t # <<>> /\ u > e
      <4>1. a[1] \in ToSet(a) /\ a[1] \in CtxReal(u)
        BY <2>3, <2>5, <2>8 DEF ToSet
      <4>2. a[1] \in ToSet(t) /\ a[1].turn > e /\ a[1].turn <= u /\ a[1].turn \in Nat
        BY <2>3, <4>1 DEF CtxReal
      <4>3. t # <<>>
        BY <4>2 DEF ToSet
      <4> QED BY <1>1, <4>2, <4>3
    <3>2. Last(a) = t[Len(t)]
      <4> DEFINE P == {i \in DOMAIN t : t[i].turn > e}
      <4>1. Len(t) \in P
        BY <1>1, <2>1, <2>6, <3>1
      <4>2. a = Pick(t, P)
        BY <2>2 DEF After
      <4> HIDE DEF P
      <4> QED BY <1>1, <3>1, <4>1, <4>2, PickLast DEF Last
    <3>3. OwnTurns(ToSet(rs), said)
      BY <2>3, <2>5 DEF OwnTurns, FreeBase, RecordsOwn
    <3>4. ASSUME f <= e PROVE HasTurns(ToSet(rs), e, u)
      <4> SUFFICES ASSUME NEW n \in Nat, e < n, n <= u PROVE \E r \in ToSet(a) : r.turn = n
        BY <2>5 DEF HasTurns
      <4>1. PICK k \in f..u : CtxDue(redisTasks) = (k + 1)..u /\ k - f <= Len(t)
                              /\ \A i \in (f + 1)..k : t[Len(t) - (k - i)].turn = i
        BY <1>4 DEF FreeStores, RedisKeeps
      <4>2. k = u
        <5>1. u \notin (k + 1)..u
          BY <4>1
        <5> QED BY <1>1, <5>1
      <4>3. n \in (f + 1)..k
        BY <1>1, <3>4, <4>2
      <4>4. Len(t) - (k - n) \in 1..Len(t)
        BY <1>1, <4>1, <4>3
      <4>5. t[Len(t) - (k - n)] \in ToSet(t) /\ t[Len(t) - (k - n)].turn = n
        BY <1>1, <4>1, <4>3, <4>4 DEF ToSet
      <4> QED BY <2>3, <4>5
    <3> QED BY <2>1, <2>4, <2>5, <3>1, <3>2, <3>3, <3>4
  <2> QED BY <1>1, <1>2, <1>4, <2>7, <2>8
<1> QED BY <1>3, <1>4

LEMMA WithSummaryLast ==
  ASSUME NEW u \in Nat, NEW data \in CtxSums(u), NEW rs \in Seq(CtxRecords(u))
  PROVE /\ rs # <<>> => Last(WithSummary(data, rs)) = Last(rs)
        /\ rs = <<>> => LastRid(WithSummary(data, rs)) = IF data.l4 = {} THEN None ELSE data.rid
<1> DEFINE v3 == [turn |-> -2, ids |-> data.l3, rid |-> None]
           v4 == [turn |-> -1, ids |-> data.l4, rid |-> data.rid]
           w == IF data.l4 = {} THEN <<>> ELSE <<v4>>
           A == CtxRecords(u)
<1>1. v3 \in A /\ v4 \in A
  BY DEF CtxRecords, CtxRids, CtxSums
<1>2. WithSummary(data, rs) = <<v3>> \o w \o rs /\ rs \in Seq(A)
  BY DEF WithSummary
<1>3. v3.rid = None /\ v4.rid = data.rid
  OBVIOUS
<1> HIDE DEF v3, v4, A
<1>4. <<v3>> \o w \in Seq(A) /\ <<v3>> \o w # <<>>
      /\ Last(<<v3>> \o w) = IF data.l4 = {} THEN v3 ELSE v4
  BY <1>1 DEF Last
<1> HIDE DEF w
<1>5. ASSUME rs # <<>> PROVE Last(<<v3>> \o w \o rs) = Last(rs)
  BY <1>2, <1>4, <1>5 DEF Last
<1>6. ASSUME rs = <<>> PROVE <<v3>> \o w \o rs = <<v3>> \o w
  BY <1>4, <1>6
<1> QED BY <1>2, <1>3, <1>4, <1>5, <1>6 DEF LastRid

(* The manager after: x.                                                   *)
IsFinished(x, memory, data, rs) ==
  /\ data.l3 = {} => x.turns = memory.turns /\ x.sums = memory.sums
  /\ data.l3 # {} => x.turns = WithSummary(data, rs) /\ x.sums = NoSummary
  /\ x.load = "no" /\ x.data = NoSummary /\ x.loaded = TRUE
  /\ x.open = memory.open /\ x.add = memory.add /\ x.n = memory.n

LEMMA FinishIs ==
  ASSUME CtxTyped, NEW m \in Managers, NEW memory \in CtxMgr(Len(said)), NEW data \in CtxSums(Len(said)),
         NEW rs \in Seq(CtxRecords(Len(said))), Finish(m, memory, data, rs), NEW x, x = Finished(memory, data, rs)
  PROVE MgrSet(m, x) /\ x \in CtxMgr(Len(said)) /\ IsFinished(x, memory, data, rs)
<1>1. x \in CtxMgr(Len(said)) /\ MgrSet(m, x)
  BY FinishDoes
<1>2. /\ data.l3 = {} => x.turns = memory.turns /\ x.sums = memory.sums
      /\ data.l3 # {} => x.turns = WithSummary(data, rs) /\ x.sums = NoSummary
  BY DEF Finished, CtxMgr
<1>3. x.load = "no" /\ x.data = NoSummary /\ x.loaded = TRUE
  BY DEF Finished, CtxMgr
<1>4. x.open = memory.open /\ x.add = memory.add /\ x.n = memory.n
  BY DEF Finished, CtxMgr
<1> QED BY <1>1, <1>2, <1>3, <1>4 DEF IsFinished

(* A load that finds turns, rs, up to the newest.                          *)
LEMMA LoadFills ==
  ASSUME OneAtATime, CtxTyped, FreeBase, NEW m \in Managers, mgr[m].open, mgr[m].add = "no",
         NEW data \in CtxSound(said), NEW rs \in Seq(CtxReal(Len(said))), rs # <<>>, Len(rs) <= Window,
         Last(rs).turn = Len(said), OwnTurns(ToSet(rs), said), HasTurns(ToSet(rs), data.end, Len(said)),
         Finish(m, Filled(m, rs, data), data, rs)
  PROVE /\ JobsMove
        /\ \E x \in CtxMgr(Len(said)) :
             /\ MgrSet(m, x) /\ x.open /\ x.turns # <<>> /\ Real(x.turns) # <<>> /\ FreeHeld(x, data.end)
             /\ OwnTurns(ToSet(x.turns), said) /\ x.sums \in {data, NoSummary} /\ x.data = NoSummary
<1> DEFINE u == Len(said)
           e == data.end
<1>1. u \in Nat /\ data \in CtxSums(u) /\ e \in 0..u /\ FreeOf(said, e) \subseteq data.l3
  BY SoundEnds DEF CtxTyped, CtxSound
<1>2. PICK memory : memory = Filled(m, rs, data)
  OBVIOUS
<1>3. memory \in CtxMgr(u) /\ rs \in Seq(CtxRecords(u)) /\ memory.turns = rs /\ memory.sums = data
      /\ memory.open /\ memory.add = "no"
  BY <1>1, <1>2, FilledIn
<1>4. PICK x : x = Finished(memory, data, rs)
  OBVIOUS
<1>5. /\ MgrSet(m, x) /\ x \in CtxMgr(u) /\ x.load = "no" /\ x.data = NoSummary
      /\ data.l3 = {} => x.turns = rs /\ x.sums = data
      /\ data.l3 # {} => x.turns = WithSummary(data, rs) /\ x.sums = NoSummary
      /\ x.loaded /\ x.open /\ x.add = "no"
  <2>1. memory \in CtxMgr(Len(said)) /\ data \in CtxSums(Len(said)) /\ rs \in Seq(CtxRecords(Len(said)))
        /\ Finish(m, memory, data, rs)
    BY <1>1, <1>2, <1>3
  <2>2. MgrSet(m, x) /\ x \in CtxMgr(Len(said)) /\ IsFinished(x, memory, data, rs)
    BY <1>4, <2>1, FinishIs
  <2> QED BY <1>3, <2>2 DEF IsFinished
<1>6. WithSummary(data, rs) \in Seq(CtxRecords(u)) /\ WithSummary(data, rs) # <<>>
      /\ Last(WithSummary(data, rs)) = Last(rs) /\ Real(WithSummary(data, rs)) = rs /\ Real(rs) = rs
  BY <1>1, <1>3, WithSummaryFacts, WithSummaryLast, OnlyReal
<1>7. x.turns \in Seq(CtxRecords(u)) /\ x.turns # <<>> /\ Last(x.turns) = Last(rs) /\ Real(x.turns) = rs
  BY <1>3, <1>5, <1>6
<1>8. \A r \in ToSet(rs) : r.turn # -2
  <2>1. \A r \in CtxReal(u) : r.turn # -2
    BY <1>1 DEF CtxReal
  <2> QED BY <2>1 DEF ToSet
<1>9. ASSUME NEW o, FreeOf(said, e) \subseteq o \/ data.l3 # {}
      PROVE OwnTurns(ToSet(x.turns), said) /\ HasTurns(ToSet(x.turns), e, u) /\ TellsFree(ToSet(x.turns), o, said, e)
  <2>1. CASE data.l3 = {}
    BY <1>5, <1>8, <1>9, <2>1 DEF TellsFree
  <2>2. CASE data.l3 # {}
    <3> DEFINE X == ToSet(WithSummary(data, rs))
    <3>1. /\ OwnTurns(ToSet(rs), said) => OwnTurns(X, said)
          /\ \A a, b : HasTurns(ToSet(rs), a, b) => HasTurns(X, a, b)
          /\ TellsFree(X, o, said, e)
      BY <1>1, <1>3, <1>8, WithSummaryHas
    <3> QED BY <1>5, <2>2, <3>1
  <2> QED BY <2>1, <2>2
<1>10. FreeOf(said, e) \subseteq data.l3 /\ (FreeOf(said, e) \subseteq x.sums.l3 \/ data.l3 # {}) /\ x.sums.l3 = {}
  BY <1>1, <1>5 DEF NoSummary
<1>11. /\ OwnTurns(ToSet(x.turns), said) /\ HasTurns(ToSet(x.turns), e, u)
       /\ TellsFree(ToSet(x.turns), data.l3, said, e) /\ TellsFree(ToSet(x.turns), x.sums.l3, said, e)
  BY <1>9, <1>10
<1>12. FreeHeld(x, e)
  BY <1>5, <1>7, <1>10, <1>11 DEF FreeHeld
<1>13. jobs' \in Started(Unified(x.turns, x.turns), data)
  BY <1>2, <1>3, <1>5 DEF Finish
<1>14. JobsMove
  BY <1>1, <1>7, <1>11, <1>13, StartsFree
<1> QED BY <1>5, <1>7, <1>11, <1>12, <1>14

LEMMA LoadRedisFree ==
  ASSUME OneAtATime, CtxTyped, CtxTyped', FreeOk, NEW m \in Managers, LoadRedis(m)
  PROVE FreeOk'
<1>1. PICK f \in 0..Len(said) : FreeAt(f)
  BY DEF FreeOk
<1>2. FreeBase /\ StoresAlike /\ mgr[m].load = "redis" /\ FreeStores(f) /\ Len(said) \in Nat
  BY <1>1 DEF FreeOk, LoadRedis, StoresAlike, FreeAt, CtxTyped
<1>3. mgr[m].open
  BY <1>2 DEF FreeBase, Closed
<1>4. /\ FreeHeld(mgr[m], f) /\ FreeWaits(mgr[m], f) /\ \A o \in Managers : mgr[o].open => o = m
      /\ OwnTurns(ToSet(mgr[m].turns), said)
      /\ \A S : AllSumsIn(S) => mgr[m].sums \in S /\ mgr[m].data \in S
  BY <1>1, <1>2, <1>3, AtWork
<1>5. mgr[m].turns = <<>> /\ mgr[m].add = "no"
  BY <1>2, <1>4 DEF FreeHeld
<1>6. CtxIdle /\ CtxDue(redisTasks) = {}
  BY <1>4, <1>5, NoneReal DEF FreeWaits, CtxIdle
<1>7. PICK rs : rs = RedisLoad(m)
  OBVIOUS
<1>8. PICK data : data = mgr[m].data
  OBVIOUS
<1>9. /\ rs \in Seq(CtxReal(Len(said))) /\ data.end \in 0..Len(said)
      /\ rs = <<>> /\ Up("redis") => data.end = Len(said)
      /\ rs # <<>> => /\ Up("redis") /\ Len(rs) <= Window /\ Last(rs).turn = Len(said)
                      /\ OwnTurns(ToSet(rs), said) /\ (f <= data.end => HasTurns(ToSet(rs), data.end, Len(said)))
  BY <1>2, <1>6, <1>7, <1>8, RedisLoads
<1>10. CASE rs = <<>>
  <2>1. PICK x : x = [mgr[m] EXCEPT !.load = "pg"]
    OBVIOUS
  <2>2. mgr[m] \in CtxMgr(Len(said))
    BY MgrIn
  <2>3. x \in CtxMgr(Len(said)) /\ x.open /\ x.turns = <<>> /\ x.add = "no" /\ x.load = "pg"
        /\ x.sums = mgr[m].sums /\ x.data = data /\ x.loaded = mgr[m].loaded
    BY <1>3, <1>5, <1>8, <2>1, <2>2 DEF CtxMgr
  <2>4. MgrSet(m, x) /\ UNCHANGED jobs
    <3>1. mgr' = [mgr EXCEPT ![m].load = "pg"] /\ UNCHANGED jobs
      BY <1>7, <1>10 DEF LoadRedis, RedisLoad
    <3>2. mgr \in [Managers -> CtxMgr(Len(said))]
      BY DEF CtxTyped
    <3> QED BY <2>1, <2>2, <3>1, <3>2 DEF MgrSet, CtxMgr
  <2>5. FreeHeld(x, f)
    BY <1>4, <1>5, <2>3 DEF FreeHeld
  <2>6. FreeWaits(x, f)
    BY <1>2, <1>4, <1>5, <1>8, <1>9, <1>10, <2>3 DEF FreeWaits
  <2>7. OwnTurns(ToSet(x.turns), said) /\ \A S : AllSumsIn(S) /\ NoSummary \in S => x.sums \in S /\ x.data \in S
    BY <1>4, <1>5, <1>8, <2>3
  <2> QED BY <1>1, <1>2, <1>4, <2>3, <2>4, <2>5, <2>6, <2>7, MemoryMoves
<1>11. CASE rs # <<>>
  <2>1. f <= data.end /\ RedisSumsIn(EndsFrom(data.end))
    BY <1>2, <1>4, <1>5, <1>8, <1>9, <1>11 DEF FreeWaits
  <2>2. data \in CtxSound(said)
    BY <1>2, <1>4, <1>8 DEF FreeBase
  <2>3. Finish(m, Filled(m, rs, data), data, rs)
    BY <1>7, <1>8, <1>11 DEF LoadRedis, RedisLoad, Filled
  <2>4. JobsMove /\ \E x \in CtxMgr(Len(said)) :
             /\ MgrSet(m, x) /\ x.open /\ x.turns # <<>> /\ Real(x.turns) # <<>> /\ FreeHeld(x, data.end)
             /\ OwnTurns(ToSet(x.turns), said) /\ x.sums \in {data, NoSummary} /\ x.data = NoSummary
    BY <1>2, <1>3, <1>5, <1>9, <1>11, <2>1, <2>2, <2>3, LoadFills
  <2>5. PICK x \in CtxMgr(Len(said)) :
             /\ MgrSet(m, x) /\ x.open /\ x.turns # <<>> /\ Real(x.turns) # <<>> /\ FreeHeld(x, data.end)
             /\ OwnTurns(ToSet(x.turns), said) /\ x.sums \in {data, NoSummary} /\ x.data = NoSummary
    BY <2>4
  <2>6. FreeWaits(x, data.end)'
    BY <2>5 DEF FreeWaits
  <2>7. FreeStores(data.end)
    <3>1. Up("redis") /\ RedisKeeps(redis.turns, {}, Len(said), f) /\ Len(said) - f <= Window
      BY <1>2, <1>6, <1>9, <1>11 DEF FreeStores
    <3>2. PICK k \in f..Len(said) : {} = (k + 1)..Len(said) /\ k - f <= Len(redis.turns)
                 /\ \A n \in (f + 1)..k : redis.turns[Len(redis.turns) - (k - n)].turn = n
      BY <3>1 DEF RedisKeeps
    <3>3. k = Len(said)
      <4>1. Len(said) \notin (k + 1)..Len(said)
        BY <3>2
      <4> QED BY <1>2, <4>1
    <3>4. Len(redis.turns) \in Nat
      BY DEF CtxTyped
    <3>5. Len(said) \in data.end..Len(said) /\ Len(said) - data.end <= Len(redis.turns)
          /\ Len(said) - data.end <= Window
      BY <1>2, <1>9, <2>1, <3>1, <3>2, <3>3, <3>4, CtxBounds
    <3>6. ASSUME NEW n \in (data.end + 1)..Len(said)
          PROVE redis.turns[Len(redis.turns) - (Len(said) - n)].turn = n
      <4>1. n \in (f + 1)..k
        BY <1>2, <1>9, <2>1, <3>3
      <4> QED BY <3>2, <3>3, <4>1
    <3>7. RedisKeeps(redis.turns, {}, Len(said), data.end)
      BY <3>1, <3>2, <3>3, <3>5, <3>6 DEF RedisKeeps
    <3> QED BY <1>2, <1>6, <2>1, <3>5, <3>7 DEF FreeStores
  <2>8. /\ FreeStores(data.end)' /\ PutsTurns(redisTasks', CtxOwned(said))
        /\ \A S : AllSumsIn(S) => PutsSums(redisTasks', S)
    BY <1>2, <2>7, StoresStayFree
  <2>9. \A S : AllSumsIn(S) /\ NoSummary \in S => x.sums \in S /\ x.data \in S /\ PutsSums(redisTasks', S)
    BY <1>4, <1>8, <2>5, <2>8
  <2>10. \A L \in Nat : AllSumsIn(EndsTo(L)) => data.end <= L
    BY <1>4, <1>8 DEF EndsTo
  <2>11. UNCHANGED <<said, pgTasks, redis, pg, outage>>
    BY <1>2 DEF StoresAlike
  <2> QED BY <1>1, <1>2, <1>4, <1>9, <2>4, <2>5, <2>6, <2>8, <2>9, <2>10, <2>11, ManagerMoves
<1> QED BY <1>10, <1>11

(* A list that fits the window ends as it did.                             *)
LEMMA HotEnds ==
  ASSUME NEW u \in Nat, NEW rs \in Seq(CtxRecords(u)), Len(Real(rs)) <= Window, rs # <<>>,
         Real(rs) # <<>> => Last(rs) = Last(Real(rs))
  PROVE /\ Hot(rs, Window) # <<>> /\ Last(Hot(rs, Window)) = Last(rs)
        /\ Hot(rs, Window) \in Seq(CtxRecords(u)) /\ Real(Hot(rs, Window)) = Real(rs)
<1> DEFINE R == Real(rs)
           V == Virtual(rs)
<1>1. R \in Seq(CtxReal(u)) /\ V \in Seq(CtxRecords(u))
  <2>1. 0 \in Nat
    OBVIOUS
  <2> QED BY <2>1, AfterIn, VirtualIn
<1>2. R \in Seq(CtxRecords(u))
  <2>1. CtxReal(u) \subseteq CtxRecords(u)
    BY CtxGrows
  <2> HIDE DEF R
  <2> QED BY <1>1, <2>1, SeqMonotonic
<1>3. LastN(R, Window) = R
  BY <1>1, CtxBounds, LastNFacts
<1>4. Hot(rs, Window) = V \o R
  BY <1>3 DEF Hot
<1>5. Hot(rs, Window) \in Seq(CtxRecords(u)) /\ Real(Hot(rs, Window)) = R
  BY <1>3, HotFacts
<1>6. CASE R # <<>>
  <2>1. Last(R) = Last(rs)
    BY <1>6
  <2> HIDE DEF R, V
  <2>2. V \o R # <<>> /\ Last(V \o R) = Last(R)
    BY <1>1, <1>2, <1>6 DEF Last
  <2> QED BY <1>4, <1>5, <2>1, <2>2 DEF R
<1>7. CASE R = <<>>
  <2>1. V = rs
    <3> DEFINE P == {i \in DOMAIN rs : rs[i].turn <= 0}
    <3>1. \A x \in ToSet(rs) : ~(x.turn > 0)
      BY <1>7, RealNone
    <3>2. \A i \in 1..Len(rs) : rs[i] \in ToSet(rs) /\ rs[i] \in CtxRecords(u)
      BY DEF ToSet
    <3>3. \A r \in CtxRecords(u) : r.turn \in Int
      BY DEF CtxRecords
    <3>4. \A i \in 1..Len(rs) : i \in P
      BY <3>1, <3>2, <3>3
    <3> HIDE DEF P
    <3>5. Pick(rs, P) = rs
      BY <3>4, PickWhole
    <3> QED BY <3>5 DEF Virtual, P
  <2> HIDE DEF R, V
  <2>2. V \o R = V
    BY <1>1, <1>7
  <2> QED BY <1>4, <1>5, <2>1, <2>2 DEF R
<1> QED BY <1>6, <1>7

LEMMA LoadWarmFree ==
  ASSUME OneAtATime, CtxTyped, CtxTyped', FreeOk, NEW m \in Managers, LoadWarm(m)
  PROVE FreeOk'
<1> DEFINE u == Len(said)
<1>1. PICK f \in 0..u : FreeAt(f)
  BY DEF FreeOk
<1>2. FreeBase /\ StoresAlike /\ FreeStores(f) /\ u \in Nat
      /\ mgr[m].open /\ mgr[m].load = "no" /\ mgr[m].turns # <<>>
  BY <1>1 DEF FreeOk, LoadWarm, StoresAlike, FreeAt, CtxTyped
<1>3. PICK z : z = mgr[m]
  OBVIOUS
<1>4. /\ FreeHeld(z, f) /\ FreeWaits(z, f) /\ \A o \in Managers : mgr[o].open => o = m
      /\ OwnTurns(ToSet(z.turns), said) /\ \A S : AllSumsIn(S) => z.sums \in S /\ z.data \in S
  BY <1>1, <1>2, <1>3, AtWork
<1>5. z \in CtxMgr(u) /\ z.sums \in CtxSums(u) /\ z.turns \in Seq(CtxRecords(u))
      /\ z.open /\ z.load = "no" /\ z.turns # <<>>
  BY <1>2, <1>3, MgrIn
<1>6. PICK data : data = z.sums
  OBVIOUS
<1>7. PICK hot : hot = Hot(z.turns, Window)
  OBVIOUS
<1>8. Len(Real(z.turns)) <= Window /\ (Real(z.turns) # <<>> => Last(z.turns) = Last(Real(z.turns)))
      /\ z.loaded /\ (data.l3 = {} \/ FreeOf(said, f) \subseteq data.l3)
  BY <1>4, <1>5, <1>6 DEF FreeHeld
<1>9. hot # <<>> /\ Last(hot) = Last(z.turns) /\ hot \in Seq(CtxRecords(u)) /\ Real(hot) = Real(z.turns)
  BY <1>2, <1>5, <1>7, <1>8, HotEnds
<1>10. Alike(ToSet(hot), ToSet(z.turns))
  BY <1>2, <1>5, <1>7, <1>8, HotHas
<1>11. /\ OwnTurns(ToSet(hot), said) /\ HasTurns(ToSet(hot), f, u) /\ TellsFree(ToSet(hot), data.l3, said, f)
       /\ HasTurns(ToSet(z.turns), f, u) /\ TellsFree(ToSet(z.turns), data.l3, said, f)
  <2>1. Alike(ToSet(z.turns), ToSet(hot))
    BY <1>10 DEF Alike
  <2>2. HasTurns(ToSet(z.turns), f, u) /\ TellsFree(ToSet(z.turns), data.l3, said, f)
    BY <1>4, <1>6, <1>8 DEF FreeHeld
  <2>3. OwnTurns(ToSet(hot), said)
    BY <1>4, <2>1, AlikeKeeps
  <2>4. HasTurns(ToSet(hot), f, u)
    BY <2>1, <2>2, AlikeKeeps
  <2>5. TellsFree(ToSet(hot), data.l3, said, f)
    BY <2>1, <2>2, AlikeKeeps
  <2> QED BY <2>2, <2>3, <2>4, <2>5
<1>12. Finish(m, z, data, hot)
  BY <1>3, <1>6, <1>7 DEF LoadWarm
<1>13. PICK x : x = Finished(z, data, hot)
  OBVIOUS
<1>14. MgrSet(m, x) /\ x \in CtxMgr(u) /\ IsFinished(x, z, data, hot)
  BY <1>5, <1>6, <1>9, <1>12, <1>13, FinishIs
(* What is read, and what the memory is then.                              *)
<1>15. PICK list : list = IF data.l3 = {} THEN hot ELSE WithSummary(data, hot)
  OBVIOUS
<1>16. PICK after : after = IF data.l3 = {} THEN z.turns ELSE list
  OBVIOUS
<1>17. x.turns = after
  BY <1>14, <1>15, <1>16 DEF IsFinished
<1>18. data.l3 # {} =>
         /\ WithSummary(data, hot) \in Seq(CtxRecords(u)) /\ WithSummary(data, hot) # <<>>
         /\ Last(WithSummary(data, hot)) = Last(hot) /\ Real(WithSummary(data, hot)) = Real(hot)
         /\ OwnTurns(ToSet(WithSummary(data, hot)), said) /\ HasTurns(ToSet(WithSummary(data, hot)), f, u)
         /\ \A o : TellsFree(ToSet(WithSummary(data, hot)), o, said, f)
  <2> SUFFICES ASSUME data.l3 # {}
      PROVE /\ WithSummary(data, hot) \in Seq(CtxRecords(u)) /\ WithSummary(data, hot) # <<>>
            /\ Last(WithSummary(data, hot)) = Last(hot) /\ Real(WithSummary(data, hot)) = Real(hot)
            /\ OwnTurns(ToSet(WithSummary(data, hot)), said) /\ HasTurns(ToSet(WithSummary(data, hot)), f, u)
            /\ \A o : TellsFree(ToSet(WithSummary(data, hot)), o, said, f)
    OBVIOUS
  <2>1. WithSummary(data, hot) \in Seq(CtxRecords(u)) /\ WithSummary(data, hot) # <<>>
        /\ Last(WithSummary(data, hot)) = Last(hot)
    BY <1>2, <1>5, <1>6, <1>9, WithSummaryFacts, WithSummaryLast
  <2>2. Real(WithSummary(data, hot)) = Real(hot)
    <3>1. LastN(Real(z.turns), Window) = Real(z.turns) /\ Real(z.turns) \in Seq(CtxReal(u))
      <4>1. 0 \in Nat
        OBVIOUS
      <4>2. Real(z.turns) \in Seq(CtxReal(u))
        BY <1>2, <1>5, <4>1, AfterIn
      <4> QED BY <1>8, <4>2, CtxBounds, LastNFacts
    <3>2. hot = Virtual(z.turns) \o Real(z.turns)
      BY <1>7, <3>1 DEF Hot
    <3>3. Virtual(z.turns) \in Seq(CtxRecords(u)) /\ \A i \in 1..Len(Virtual(z.turns)) : Virtual(z.turns)[i].turn <= 0
      BY <1>2, <1>5, VirtualIn
    <3> HIDE DEF u
    <3> QED BY <1>2, <1>5, <1>6, <1>9, <3>1, <3>2, <3>3, WithSummaryFacts
  <2>3. FreeOf(said, f) \subseteq data.l3 /\ \A r \in ToSet(hot) : r.turn = -2 => FreeOf(said, f) \subseteq r.ids
    BY <1>8, <1>11 DEF TellsFree
  <2>4. ASSUME NEW o PROVE /\ OwnTurns(ToSet(WithSummary(data, hot)), said)
                           /\ HasTurns(ToSet(WithSummary(data, hot)), f, u)
                           /\ TellsFree(ToSet(WithSummary(data, hot)), o, said, f)
    <3> DEFINE X == ToSet(WithSummary(data, hot))
    <3>1. /\ OwnTurns(ToSet(hot), said) => OwnTurns(X, said)
          /\ \A a, b : HasTurns(ToSet(hot), a, b) => HasTurns(X, a, b)
          /\ TellsFree(X, o, said, f)
      BY <1>2, <1>5, <1>6, <1>9, <2>3, WithSummaryHas
    <3> QED BY <1>11, <3>1
  <2> QED BY <2>1, <2>2, <2>4
<1>19. /\ list \in Seq(CtxRecords(u)) /\ Real(list) = Real(z.turns) /\ OwnTurns(ToSet(list), said)
       /\ HasTurns(ToSet(list), f, u) /\ TellsFree(ToSet(list), data.l3, said, f)
  BY <1>9, <1>11, <1>15, <1>18
<1>20. /\ after \in Seq(CtxRecords(u)) /\ Real(after) = Real(z.turns) /\ OwnTurns(ToSet(after), said)
       /\ HasTurns(ToSet(after), f, u) /\ TellsFree(ToSet(after), x.sums.l3, said, f) /\ after # <<>>
       /\ Last(after) = Last(z.turns) /\ x.sums.l3 = {}
  <2>1. CASE data.l3 = {}
    <3>1. x.sums = data /\ after = z.turns
      BY <1>6, <1>14, <1>16, <2>1 DEF IsFinished
    <3> QED BY <1>4, <1>5, <1>11, <2>1, <3>1
  <2>2. CASE data.l3 # {}
    <3>1. x.sums = NoSummary /\ after = WithSummary(data, hot)
      BY <1>14, <1>15, <1>16, <2>2 DEF IsFinished
    <3>2. NoSummary.l3 = {}
      BY DEF NoSummary
    <3> QED BY <1>9, <1>18, <2>2, <3>1, <3>2
  <2> QED BY <2>1, <2>2
<1>21. x.open /\ x.load = "no" /\ x.loaded /\ x.add = z.add /\ x.n = z.n /\ x.data = NoSummary
       /\ x.sums \in {z.sums, NoSummary}
  BY <1>5, <1>6, <1>14 DEF IsFinished
<1>22. FreeHeld(x, f)
  <2>1. LastRid(x.turns) = LastRid(z.turns)
    BY <1>5, <1>17, <1>20 DEF LastRid
  <2>2. x.turns # <<>> /\ Real(x.turns) = Real(z.turns) /\ Last(x.turns) = Last(z.turns) /\ x.sums.l3 = {}
        /\ HasTurns(ToSet(x.turns), f, u) /\ TellsFree(ToSet(x.turns), x.sums.l3, said, f)
    BY <1>17, <1>20
  <2> QED BY <1>4, <1>5, <1>21, <2>1, <2>2 DEF FreeHeld
<1>23. FreeWaits(x, f)'
  <2>1. Real(x.turns) = <<>> => CtxIdle'
    BY <1>2, <1>4, <1>17, <1>20 DEF FreeWaits, CtxIdle, StoresAlike
  <2> QED BY <1>17, <1>20, <2>1 DEF FreeWaits
<1>24. JobsMove
  <2>1. jobs' \in Started(Unified(list, after), data)
    BY <1>12, <1>15, <1>16 DEF Finish
  <2>2. Real(list) # <<>> => Last(Real(list)).turn = u
    BY <1>4, <1>19 DEF FreeHeld
  <2>3. Real(list) = <<>> => Real(after) = <<>>
    BY <1>19, <1>20
  <2>4. data \in CtxSums(u)
    BY <1>5, <1>6
  <2> QED BY <1>1, <1>2, <1>19, <1>20, <2>1, <2>2, <2>3, <2>4, StartsFree
<1>25. /\ FreeStores(f)' /\ PutsTurns(redisTasks', CtxOwned(said))
       /\ \A S : AllSumsIn(S) => PutsSums(redisTasks', S)
  BY <1>2, StoresStayFree
<1>26. \A S : AllSumsIn(S) /\ NoSummary \in S => x.sums \in S /\ x.data \in S /\ PutsSums(redisTasks', S)
  BY <1>4, <1>21, <1>25
<1>27. UNCHANGED <<said, pgTasks, redis, pg, outage>> /\ OwnTurns(ToSet(x.turns), said)
  BY <1>2, <1>17, <1>20 DEF StoresAlike
<1> QED BY <1>1, <1>2, <1>4, <1>14, <1>21, <1>22, <1>23, <1>24, <1>25, <1>26, <1>27, ManagerMoves

(* The summary and the turns that warm Redis up are the ones that were read. *)
LEMMA RewarmPuts ==
  ASSUME NEW u \in Nat, NEW tasks \in Seq(CtxTask(u)), NEW data \in CtxSums(u), NEW rs \in Seq(CtxReal(u)),
         NEW more, more = Append(tasks, Rewarm(data, rs))
  PROVE /\ \A W : PutsTurns(tasks, W) /\ (\A r \in ToSet(rs) : r \in W) => PutsTurns(more, W)
        /\ \A S : PutsSums(tasks, S) /\ data \in S => PutsSums(more, S)
<1> DEFINE T == Rewarm(data, rs)
<1>1. /\ T \in CtxTask(u) /\ Len(T) = Len(rs) + 1 /\ T[1] = [put |-> "summary", what |-> data]
      /\ \A i \in 1..Len(rs) : T[i + 1] = [put |-> "turn", what |-> rs[i]]
  BY RewarmIn
<1>2. Len(rs) \in Nat /\ \A i \in 1..Len(rs) : rs[i] \in ToSet(rs)
  BY DEF ToSet
<1> HIDE DEF T
<1>3. ASSUME NEW k \in 1..Len(T) PROVE /\ T[k].put = "summary" => T[k].what = data
                                       /\ T[k].put = "turn" => T[k].what \in ToSet(rs)
  <2>1. CASE k = 1
    BY <1>1, <2>1
  <2>2. CASE k # 1
    <3>1. k - 1 \in 1..Len(rs) /\ (k - 1) + 1 = k
      BY <1>1, <1>2, <2>2
    <3>2. T[k] = [put |-> "turn", what |-> rs[k - 1]]
      BY <1>1, <3>1
    <3> QED BY <1>2, <3>1, <3>2
  <2> QED BY <2>1, <2>2
<1>4. more = Append(tasks, T)
  BY DEF T
<1>5. /\ \A W : PutsTurns(tasks, W) /\ (\A k \in 1..Len(T) : T[k].put = "turn" => T[k].what \in W)
             => PutsTurns(more, W)
      /\ \A S : PutsSums(tasks, S) /\ (\A k \in 1..Len(T) : T[k].put = "summary" => T[k].what \in S)
             => PutsSums(more, S)
  BY <1>1, <1>4, PutsMore
<1> QED BY <1>3, <1>5

(* What a recovery from Postgres finds behind the newest summary.          *)
PgFound(data, rs) ==
  /\ data \in CtxSound(said) /\ \A S : AllSumsIn(S) => data \in S
  /\ rs \in Seq(CtxReal(Len(said))) /\ Len(rs) <= Window
  /\ rs = <<>> => data.end = Len(said)
  /\ rs # <<>> => /\ Up("pg") /\ Last(rs).turn = Len(said) /\ OwnTurns(ToSet(rs), said)
                  /\ HasTurns(ToSet(rs), data.end, Len(said))
                  /\ {rs[i].turn : i \in 1..Len(rs)} = (data.end + 1)..Len(said)
                  /\ \A i, j \in 1..Len(rs) : i < j => rs[i].turn < rs[j].turn

LEMMA PgLoads ==
  ASSUME CtxInvariant, FreeBase, NEW f, FreeStores(f), CtxIdle, NEW m \in Managers, NEW data, NEW rs,
         data = PgSummary(mgr[m].data), rs = PgTurns(data.end),
         ~Up("pg") => mgr[m].data.end = Len(said)
  PROVE PgFound(data, rs)
<1> DEFINE u == Len(said)
           e == data.end
<1>1. CtxTyped /\ u \in Nat
  BY DEF CtxInvariant, CtxTyped
<1>2. mgr[m].data \in CtxSums(u) /\ mgr[m].data \in CtxSound(said)
  BY <1>1, MgrIn DEF FreeBase, AllSumsIn
<1>3. /\ data \in CtxSums(u) /\ (~Up("pg") => data = mgr[m].data) /\ (data = mgr[m].data \/ data \in pg.sums)
  BY <1>1, <1>2, PgSummaryFacts
<1>4. ASSUME NEW S, AllSumsIn(S) PROVE data \in S
  BY <1>3, <1>4 DEF AllSumsIn
<1>5. data \in CtxSound(said)
  BY <1>4 DEF FreeBase
<1>6. e \in 0..u
  BY <1>1, <1>5, SoundEnds
<1>7. /\ rs \in Seq(CtxReal(u)) /\ Len(rs) <= Window
      /\ \A i \in 1..Len(rs) : rs[i] \in PgRows
  BY <1>1, <1>6, PgTurnsFacts
<1>8. OwnTurns(ToSet(rs), said)
  <2>1. PgRows \subseteq CtxOwned(said)
    BY DEF PgRows, FreeBase, RecordsOwn
  <2> QED BY <1>7, <2>1 DEF OwnTurns, ToSet
<1>9. CASE ~Up("pg")
  <2>1. PgRows = {}
    BY <1>9 DEF PgRows
  <2>2. rs = <<>>
    <3>1. Len(rs) = 0
      BY <1>7, <2>1
    <3> QED BY <1>7, <3>1
  <2> QED BY <1>3, <1>4, <1>5, <1>7, <1>9, <2>2 DEF PgFound
<1>10. CASE Up("pg")
  <2>1. CtxStores /\ CtxSessions /\ CtxDue(pgTasks) = {} /\ CtxN = 1..u
    BY <1>10 DEF CtxInvariant, CtxIdle, FreeStores
  <2>2. CtxBelow(mgr[m].data.end, CtxA)
    BY <2>1 DEF CtxSessions
  <2>3. PgGives(e, PgTurns(e), CtxN, CtxF)
    BY <1>1, <1>2, <1>10, <2>1, <2>2, PgGivesAll
  <2>4. /\ {rs[i].turn : i \in 1..Len(rs)} = {n \in 1..u : e < n}
        /\ \A i, j \in 1..Len(rs) : i < j => rs[i].turn < rs[j].turn
        /\ rs # <<>> => \A n \in 1..u : n <= rs[Len(rs)].turn
    BY <2>1, <2>3 DEF PgGives
  <2>5. \A n \in Nat : e < n /\ n <= u <=> n \in {k \in 1..u : e < k}
    BY <1>6
  <2>6. HasTurns(ToSet(rs), e, u)
    <3> SUFFICES ASSUME NEW n \in Nat, e < n, n <= u PROVE \E r \in ToSet(rs) : r.turn = n
      BY DEF HasTurns
    <3>1. PICK i \in 1..Len(rs) : rs[i].turn = n
      BY <2>4, <2>5
    <3> QED BY <1>7, <3>1 DEF ToSet
  <2>7. ASSUME rs = <<>> PROVE e = u
    <3>1. ~(e < u)
      BY <1>1, <1>6, <2>4, <2>5, <2>7
    <3> QED BY <1>1, <1>6, <3>1
  <2>8. ASSUME rs # <<>> PROVE Last(rs).turn = u
    <3>1. Len(rs) \in 1..Len(rs) /\ Last(rs) = rs[Len(rs)] /\ rs[Len(rs)] \in CtxReal(u)
      BY <1>7, <2>8 DEF Last
    <3>2. rs[Len(rs)].turn \in 1..u /\ u \in 1..u
      BY <1>1, <3>1 DEF CtxReal
    <3>3. u <= rs[Len(rs)].turn
      BY <2>4, <2>8, <3>2
    <3> QED BY <1>1, <3>1, <3>2, <3>3
  <2>9. {n \in 1..u : e < n} = (e + 1)..u
    BY <1>1, <1>6
  <2> HIDE DEF u, e
  <2>10. u = Len(said) /\ e = data.end
    BY DEF u, e
  <2> QED BY <1>4, <1>5, <1>7, <1>8, <1>10, <2>4, <2>6, <2>7, <2>8, <2>9, <2>10 DEF PgFound
<1> QED BY <1>9, <1>10

LEMMA EndsWider ==
  ASSUME NEW a \in Nat, NEW b \in Nat, a <= b
  PROVE RedisSumsIn(EndsFrom(b)) => RedisSumsIn(EndsFrom(a))
<1>1. EndsFrom(b) \subseteq EndsFrom(a)
  <2>1. \A s \in CtxSums(TurnCount) : s.end \in Nat
    BY CtxBounds DEF CtxSums
  <2> QED BY <2>1 DEF EndsFrom
<1> QED BY <1>1, PutsWider DEF RedisSumsIn

LEMMA LoadPgFree ==
  ASSUME OneAtATime, CtxInvariant, CtxTyped', FreeOk, outage \in Outages, NEW m \in Managers, LoadPg(m)
  PROVE FreeOk'
<1> DEFINE u == Len(said)
<1>1. PICK f \in 0..u : FreeAt(f)
  BY DEF FreeOk
<1>2. CtxTyped /\ FreeBase /\ FreeStores(f) /\ u \in Nat /\ mgr[m].load = "pg"
      /\ UNCHANGED <<said, pgTasks, redis, pg, outage>> /\ (Up("redis") \/ Up("pg"))
  BY <1>1 DEF FreeOk, LoadPg, FreeAt, CtxInvariant, CtxTyped, OneAtATime, Up
<1>3. mgr[m].open
  BY <1>2 DEF FreeBase, Closed
<1>4. /\ FreeHeld(mgr[m], f) /\ FreeWaits(mgr[m], f) /\ \A o \in Managers : mgr[o].open => o = m
      /\ OwnTurns(ToSet(mgr[m].turns), said)
      /\ \A S : AllSumsIn(S) => mgr[m].sums \in S /\ mgr[m].data \in S
  BY <1>1, <1>2, <1>3, AtWork
<1>5. mgr[m].turns = <<>> /\ mgr[m].add = "no"
  BY <1>2, <1>4 DEF FreeHeld
<1>6. CtxIdle /\ CtxDue(redisTasks) = {} /\ RedisQuiet /\ mgr[m].sums = mgr[m].data
      /\ (Up("redis") => mgr[m].data.end = u /\ RedisSumsIn(EndsFrom(u)))
  <2>1. CtxIdle
    BY <1>4, <1>5, NoneReal DEF FreeWaits
  <2> QED BY <1>2, <1>4, <1>5, <2>1 DEF FreeWaits, CtxIdle
<1>7. PICK data : data = PgSummary(mgr[m].data)
  OBVIOUS
<1>8. PICK rs : rs = PgTurns(data.end)
  OBVIOUS
<1>9. /\ data \in CtxSound(said) /\ \A S : AllSumsIn(S) => data \in S
      /\ rs \in Seq(CtxReal(u)) /\ Len(rs) <= Window
      /\ rs = <<>> => data.end = u
      /\ rs # <<>> => /\ Up("pg") /\ Last(rs).turn = u /\ OwnTurns(ToSet(rs), said)
                      /\ HasTurns(ToSet(rs), data.end, u)
                      /\ {rs[i].turn : i \in 1..Len(rs)} = (data.end + 1)..u
                      /\ \A i, j \in 1..Len(rs) : i < j => rs[i].turn < rs[j].turn
  <2>1. ~Up("pg") => mgr[m].data.end = Len(said)
    BY <1>2, <1>6
  <2>2. PgFound(data, rs)
    BY <1>2, <1>6, <1>7, <1>8, <2>1, PgLoads
  <2> QED BY <2>2 DEF PgFound
<1>10. data.end \in 0..u /\ data \in CtxSums(u) /\ FreeOf(said, data.end) \subseteq data.l3
  BY <1>2, <1>9, SoundEnds DEF CtxSound
<1>11. \A L \in Nat : AllSumsIn(EndsTo(L)) => data.end <= L
  BY <1>9 DEF EndsTo
<1>12. CASE rs = <<>>
  <2>1. Finish(m, mgr[m], data, <<>>) /\ UNCHANGED redisTasks /\ StoresAlike
    BY <1>2, <1>7, <1>8, <1>12 DEF LoadPg, StoresAlike
  <2>2. FreeStores(u)
    <3>1. Up("redis") => RedisKeeps(redis.turns, {}, u, u)
      <4>1. Up("redis") => RedisKeeps(redis.turns, {}, u, f)
        BY <1>2, <1>6 DEF FreeStores
      <4>2. {} = (u + 1)..u /\ u \in u..u /\ u - u <= Len(redis.turns) /\ (u + 1)..u = {}
        <5>1. Len(redis.turns) \in Nat
          BY <1>2 DEF CtxTyped
        <5> QED BY <1>2, <5>1
      <4> QED BY <4>1, <4>2 DEF RedisKeeps
    <3>2. u - u <= Window
      BY <1>2, CtxBounds
    <3> QED BY <1>2, <1>6, <3>1, <3>2 DEF FreeStores
  <2>3. /\ FreeStores(u)' /\ PutsTurns(redisTasks', CtxOwned(said))
        /\ \A S : AllSumsIn(S) => PutsSums(redisTasks', S)
        /\ jobs' = jobs => \A x : FreeWaits(x, u) => FreeWaits(x, u)'
    BY <1>2, <2>1, <2>2, StoresStayFree
  <2>4. PICK z : z = mgr[m]
    OBVIOUS
  <2>5. PICK x : x = Finished(z, data, <<>>)
    OBVIOUS
  <2>6. z \in CtxMgr(u) /\ z.turns = <<>> /\ z.add = "no" /\ z.open /\ z.sums = z.data
        /\ (Up("redis") => z.data.end = u)
    BY <1>2, <1>3, <1>5, <1>6, <2>4, MgrIn
  <2>7. MgrSet(m, x) /\ x \in CtxMgr(u) /\ IsFinished(x, z, data, <<>>)
    <3>1. <<>> \in Seq(CtxRecords(u))
      OBVIOUS
    <3> QED BY <1>2, <1>10, <2>1, <2>4, <2>5, <2>6, <3>1, FinishIs
  <2>8. x.open /\ x.load = "no" /\ x.loaded /\ x.add = "no" /\ x.data = NoSummary /\ data.end = u
    BY <1>9, <1>12, <2>6, <2>7 DEF IsFinished
  <2>9. x.sums \in {z.sums, NoSummary}
    BY <2>6, <2>7 DEF IsFinished
  <2>10. \A S : AllSumsIn(S) /\ NoSummary \in S => x.sums \in S /\ x.data \in S /\ PutsSums(redisTasks', S)
    BY <1>4, <2>3, <2>4, <2>8, <2>9
  <2>11. \A L \in Nat : AllSumsIn(EndsTo(L)) => u <= L
    BY <1>11, <2>8
  <2>12. CASE data.l3 = {}
    <3>1. x.turns = <<>> /\ x.sums = z.sums
      BY <2>6, <2>7, <2>12 DEF IsFinished
    <3>2. jobs' = jobs
      <4>1. jobs' \in Started(Unified(<<>>, mgr[m].turns), data)
        BY <2>1, <2>12 DEF Finish
      <4>2. Unified(<<>>, mgr[m].turns) = <<>>
        BY DEF Unified, LastRid
      <4> QED BY <4>1, <4>2 DEF Started
    <3>3. FreeOf(said, u) = {}
      BY <1>10, <2>8, <2>12
    <3>4. TellsFree(ToSet(<<>>), x.sums.l3, said, u) /\ HasTurns(ToSet(<<>>), u, u)
      BY <1>2, <3>3, DueNothing DEF TellsFree, HasTurns
    <3>5. FreeHeld(x, u)
      BY <2>8, <3>1, <3>4, NoneReal, CtxBounds DEF FreeHeld
    <3>6. FreeWaits(x, u)
      BY <1>2, <1>6, <2>6, <2>8, <3>1 DEF FreeWaits
    <3>7. JobsMove /\ OwnTurns(ToSet(x.turns), said) /\ FreeWaits(x, u)'
      BY <1>4, <1>5, <2>3, <3>1, <3>2, <3>6 DEF JobsMove
    <3>8. u \in 0..u
      BY <1>2
    <3> QED BY <1>1, <1>2, <1>4, <2>3, <2>7, <2>8, <2>10, <2>11, <3>5, <3>7, <3>8, ManagerMoves
  <2>13. CASE data.l3 # {}
    <3> DEFINE w == WithSummary(data, <<>>)
    <3>1. x.turns = w /\ x.sums = NoSummary
      BY <2>7, <2>13 DEF IsFinished
    <3>2. <<>> \in Seq(CtxReal(u)) /\ <<>> \in Seq(CtxRecords(u)) /\ ToSet(<<>>) = {}
      BY DueNothing
    <3>3. w \in Seq(CtxRecords(u)) /\ w # <<>> /\ LastRid(w) = IF data.l4 = {} THEN None ELSE data.rid
      BY <1>2, <1>10, <3>2, WithSummaryFacts, WithSummaryLast
    <3>4. Real(w) = <<>>
      BY <1>2, <1>10, <3>2, OnlyReal
    <3>5. ASSUME NEW o PROVE OwnTurns(ToSet(w), said) /\ TellsFree(ToSet(w), o, said, u)
      <4> DEFINE X == ToSet(w)
      <4>1. /\ OwnTurns(ToSet(<<>>), said) => OwnTurns(X, said)
            /\ FreeOf(said, u) \subseteq data.l3 /\ (\A r \in ToSet(<<>>) : r.turn = -2 => FreeOf(said, u) \subseteq r.ids)
                 => TellsFree(X, o, said, u)
        BY <1>2, <1>10, <3>2, WithSummaryHas
      <4>2. OwnTurns(ToSet(<<>>), said)
        BY <3>2 DEF OwnTurns
      <4> QED BY <1>10, <2>8, <3>2, <4>1, <4>2
    <3>6. \A X : HasTurns(X, u, u)
      BY <1>2 DEF HasTurns
    <3>7. LastRid(w) = None \/ (said # <<>> /\ LastRid(w) = said[u])
      <4>1. data.l4 # {} => u > 0
        BY <1>2, <1>10 DEF CtxSums
      <4>2. u > 0 => data.rid = said[u]
        BY <1>9, <2>8 DEF CtxSound
      <4> QED BY <3>3, <4>1, <4>2
    <3> HIDE DEF w
    <3>8. x.sums.l3 = {}
      BY <3>1 DEF NoSummary
    <3>9. FreeHeld(x, u)
      BY <2>8, <3>1, <3>3, <3>4, <3>5, <3>6, <3>7, <3>8, CtxBounds DEF FreeHeld
    <3>10. FreeWaits(x, u)'
      <4>1. CtxIdle'
        BY <1>6, <2>1 DEF CtxIdle, StoresAlike
      <4> QED BY <3>1, <3>3, <4>1 DEF FreeWaits
    <3>11. JobsMove
      <4>1. jobs' \in Started(Unified(w, w), data)
        BY <2>1, <2>13 DEF Finish, w
      <4>2. u \in 0..u
        BY <1>2
      <4> QED BY <1>2, <1>10, <3>3, <3>4, <3>5, <3>6, <4>1, <4>2, StartsFree
    <3>12. u \in 0..u /\ OwnTurns(ToSet(x.turns), said)
      BY <1>2, <3>1, <3>5
    <3> QED BY <1>1, <1>2, <1>4, <2>3, <2>7, <2>8, <2>10, <2>11, <3>9, <3>10, <3>11, <3>12, ManagerMoves
  <2> QED BY <2>12, <2>13
<1>13. CASE rs # <<>>
  <2> DEFINE e == data.end
             more == redisTasks'
  <2>1. Finish(m, Filled(m, rs, data), data, rs) /\ more = Append(redisTasks, Rewarm(data, rs))
    BY <1>7, <1>8, <1>13 DEF LoadPg, Filled
  <2>2. JobsMove /\ \E x \in CtxMgr(Len(said)) :
             /\ MgrSet(m, x) /\ x.open /\ x.turns # <<>> /\ Real(x.turns) # <<>> /\ FreeHeld(x, data.end)
             /\ OwnTurns(ToSet(x.turns), said) /\ x.sums \in {data, NoSummary} /\ x.data = NoSummary
    BY <1>2, <1>3, <1>5, <1>9, <1>13, <2>1, LoadFills
  <2>3. PICK x \in CtxMgr(Len(said)) :
             /\ MgrSet(m, x) /\ x.open /\ x.turns # <<>> /\ Real(x.turns) # <<>> /\ FreeHeld(x, data.end)
             /\ OwnTurns(ToSet(x.turns), said) /\ x.sums \in {data, NoSummary} /\ x.data = NoSummary
    BY <2>2
  <2>4. FreeWaits(x, e)'
    BY <2>3 DEF FreeWaits
  <2>5. redisTasks \in Seq(CtxTask(u)) /\ CtxAscends(redisTasks)
    BY <1>2 DEF CtxTyped, FreeStores
  <2> HIDE DEF more
  <2>6. DueFrom(more, rs) /\ CtxAscends(more)
    <3>1. CtxDue(redisTasks) = {} /\ \A i, j \in 1..Len(rs) : i < j => rs[i].turn < rs[j].turn
      BY <1>6, <1>9, <1>13
    <3> HIDE DEF u
    <3>2. u \in Nat /\ data \in CtxSums(u) /\ rs \in Seq(CtxReal(u))
      BY <1>2, <1>9, <1>10
    <3>3. DueFrom(more, rs)
      BY <2>1, <2>5, <3>1, <3>2, RewarmDue
    <3>4. CtxAscends(redisTasks) => CtxAscends(more)
      BY <2>1, <2>5, <3>1, <3>2, RewarmDue
    <3> QED BY <2>5, <3>3, <3>4
  <2>7. CtxDue(more) = (e + 1)..u
    BY <1>9, <1>13, <2>6 DEF DueFrom
  <2>8. /\ \A W : PutsTurns(redisTasks, W) /\ (\A r \in ToSet(rs) : r \in W) => PutsTurns(more, W)
        /\ \A S : PutsSums(redisTasks, S) /\ data \in S => PutsSums(more, S)
    BY <1>2, <1>9, <1>10, <2>1, <2>5, RewarmPuts
  <2>9. PutsTurns(more, CtxOwned(said))
    <3>1. \A r \in ToSet(rs) : r \in CtxOwned(said)
      <4>1. \A r \in CtxReal(u) : r.turn > 0
        BY DEF CtxReal
      <4>2. \A r \in ToSet(rs) : r \in CtxReal(u)
        BY <1>9 DEF ToSet
      <4> QED BY <1>9, <1>13, <4>1, <4>2 DEF OwnTurns
    <3> QED BY <1>2, <2>8, <3>1 DEF FreeBase, RecordsOwn
  <2>10. \A S : AllSumsIn(S) /\ NoSummary \in S => x.sums \in S /\ x.data \in S /\ PutsSums(more, S)
    BY <1>9, <2>3, <2>8 DEF AllSumsIn, RedisSumsIn
  <2>11. e < u /\ u - e <= Window
    <3>1. u - e <= Len(rs)
      BY <1>2, <1>9, <1>10, <1>13, SpanFits
    <3>2. Len(rs) \in 1..Len(rs)
      BY <1>9, <1>13
    <3>3. rs[Len(rs)].turn \in (e + 1)..u
      BY <1>9, <1>13, <3>2
    <3> QED BY <1>2, <1>9, <1>10, <3>1, <3>2, <3>3, CtxBounds
  <2>12. Up("redis") => RedisKeeps(redis.turns, (e + 1)..u, u, e)
    <3>1. Up("redis") => Len(redis.turns) <= Window
      BY <1>2 DEF FreeStores, RedisKeeps
    <3>2. (e + 1)..u # {} /\ e \in e..u /\ e - e = 0 /\ (e + 1)..e = {}
      <4>1. u \in (e + 1)..u
        BY <1>2, <1>10, <2>11
      <4> QED BY <1>2, <1>10, <2>11, <4>1
    <3>3. Len(redis.turns) \in Nat
      BY <1>2 DEF CtxTyped
    <3> HIDE DEF e, u
    <3> QED BY <3>1, <3>2, <3>3 DEF RedisKeeps
  <2>13. Up("redis") => RedisSumsIn(EndsFrom(e)) /\ data \in EndsFrom(e)
    <3>1. data \in EndsFrom(e)
      <4>1. data \in EndsTo(u)
        BY <1>2, <1>9, SoundEnds
      <4> QED BY <1>2, <1>10, <4>1 DEF EndsTo, EndsFrom
    <3> QED BY <1>2, <1>6, <1>10, <2>11, <3>1, EndsWider
  <2>14. FreeStores(e)'
    <3>1. PICK S : S = EndsFrom(e)
      OBVIOUS
    <3>2. Up("redis") => RedisSumsIn(S)'
      BY <1>2, <2>8, <2>13, <3>1 DEF RedisSumsIn, more
    <3>3. Up("pg") => CtxN' = 1..u
      BY <1>2 DEF FreeStores, CtxN
    <3>4. CtxAscends(redisTasks)' /\ CtxDue(redisTasks)' = (e + 1)..u
      BY <2>6, <2>7 DEF more, CtxAscends, CtxDue, CtxTurnAt, CtxAt
    <3>5. Up("redis") => RedisKeeps(redis.turns, CtxDue(redisTasks), Len(said), e)'
      BY <1>2, <2>12, <3>4 DEF RedisKeeps
    <3>6. Up("redis")' = Up("redis") /\ Up("pg")' = Up("pg") /\ EndsFrom(e)' = S
      BY <1>2, <3>1 DEF Up, EndsFrom
    <3> QED BY <1>2, <2>11, <3>2, <3>3, <3>4, <3>5, <3>6 DEF FreeStores, RedisSumsIn
  <2>15. \A L \in Nat : AllSumsIn(EndsTo(L)) => e <= L
    BY <1>11
  <2>16. e \in 0..Len(said)
    BY <1>10
  <2> HIDE DEF e
  <2> QED BY <1>1, <1>2, <1>4, <2>2, <2>3, <2>4, <2>9, <2>10, <2>14, <2>15, <2>16, ManagerMoves DEF more, e
<1> QED BY <1>12, <1>13

(* A step of the stores, the sessions as they are; s may be a new summary. *)
StoreSumsIn(S) == RedisSumsIn(S) /\ pg.sums \subseteq S /\ PutsSums(pgTasks, S)
StoreRecords(W) ==
  /\ \A r \in ToSet(redis.turns) : r.turn > 0 => r \in W
  /\ pg.rows \subseteq W /\ PutsTurns(redisTasks, W) /\ PutsTurns(pgTasks, W)
WaitsOn ==
  /\ (CtxIdle => CtxIdle') /\ (RedisQuiet => RedisQuiet')
  /\ \A S : (\E e \in Nat : S = EndsFrom(e)) /\ RedisQuiet /\ RedisSumsIn(S) => RedisSumsIn(S)'

LEMMA StoresMove ==
  ASSUME CtxTyped, FreeBase, NEW f \in 0..Len(said), FreeAt(f), UNCHANGED <<mgr, said, outage>>,
         NEW s \in CtxSound(said), jobs' = {} \/ (jobs' = jobs /\ s = NoSummary),
         \A S : AllSumsIn(S) /\ s \in S => StoreSumsIn(S)', \A W : StoreRecords(W) => StoreRecords(W)',
         FreeStores(f)', (\E m \in Managers : mgr[m].open /\ (mgr[m].turns = <<>> \/ Real(mgr[m].turns) = <<>>)) => WaitsOn
  PROVE FreeOk'
<1>1. Len(said) \in Nat
  BY DEF CtxTyped
<1>2. ASSUME NEW S, AllSumsIn(S), s \in S PROVE AllSumsIn(S)'
  <2>1. StoreSumsIn(S)'
    BY <1>2
  <2> QED BY <1>2, <2>1 DEF AllSumsIn, StoreSumsIn
<1>3. AllSumsIn(CtxSound(said))'
  <2>1. PICK S : S = CtxSound(said)
    OBVIOUS
  <2>2. AllSumsIn(S)'
    BY <1>2, <2>1 DEF FreeBase
  <2>3. CtxSound(said)' = S
    BY <2>1 DEF CtxSound, FreeOf
  <2> QED BY <2>2, <2>3 DEF AllSumsIn, RedisSumsIn
<1>4. RecordsOwn'
  <2>1. PICK W : W = CtxOwned(said)
    OBVIOUS
  <2>2. StoreRecords(W)'
    BY <2>1 DEF StoreRecords, FreeBase, RecordsOwn, OwnTurns
  <2>3. CtxOwned(said)' = W
    BY <2>1 DEF CtxOwned
  <2>4. \A m \in Managers : OwnTurns(ToSet(mgr[m].turns), said)'
    BY DEF FreeBase, RecordsOwn, OwnTurns, CtxOwned
  <2>5. \A job \in jobs' : OwnTurns(ToSet(job.records), said')
    BY DEF FreeBase, RecordsOwn
  <2> QED BY <2>2, <2>3, <2>4, <2>5 DEF StoreRecords, RecordsOwn, OwnTurns
<1>5. FreeBase'
  <2>1. jobs' = {} \/ \E job \in jobs' : jobs' = {job}
    BY DEF FreeBase
  <2>2. \A job \in jobs' : JobTells(job, said')
    BY DEF FreeBase
  <2> QED BY <1>3, <1>4, <2>1, <2>2 DEF FreeBase
<1>6. ASSUME NEW job \in jobs' PROVE JobLate(job, f)'
  <2>1. jobs' = jobs /\ s = NoSummary /\ job \in jobs
    BY <1>6
  <2> DEFINE R == Real(job.records)
             L == Last(R).turn
  <2> SUFFICES ASSUME R # <<>> PROVE f <= L /\ AllSumsIn(EndsTo(L))'
    BY DEF JobLate
  <2>2. L \in Nat
    <3>1. job.records \in Seq(CtxRecords(Len(said)))
      BY <2>1 DEF CtxTyped, CtxJob
    <3>2. Last(R) \in CtxReal(Len(said))
      BY <1>1, <3>1, AfterIn DEF Last
    <3> QED BY <3>2 DEF CtxReal
  <2>3. f <= L /\ AllSumsIn(EndsTo(L))
    BY <2>1 DEF FreeAt, JobLate
  <2>4. PICK S : S = EndsTo(L)
    OBVIOUS
  <2>5. AllSumsIn(S)'
    BY <1>2, <2>1, <2>2, <2>3, <2>4, SoundEnds
  <2> QED BY <2>3, <2>4, <2>5
<1>7. ASSUME NEW m \in Managers, mgr[m].open PROVE FreeHeld(mgr[m], f)' /\ FreeWaits(mgr[m], f)'
  <2>1. PICK x : x = mgr[m]
    OBVIOUS
  <2>2. FreeHeld(x, f) /\ FreeWaits(x, f)
    BY <1>7, <2>1 DEF FreeAt
  <2>3. FreeHeld(x, f)'
    BY <2>2 DEF FreeHeld, Up
  <2>4. FreeWaits(x, f)'
    <3>1. CASE x.turns = <<>> \/ Real(x.turns) = <<>>
      <4>1. WaitsOn
        BY <1>7, <2>1, <3>1
      <4>2. RedisQuiet => \A e \in Nat : RedisSumsIn(EndsFrom(e)) => RedisSumsIn(EndsFrom(e))'
        <5> SUFFICES ASSUME RedisQuiet, NEW e \in Nat, RedisSumsIn(EndsFrom(e)) PROVE RedisSumsIn(EndsFrom(e))'
          OBVIOUS
        <5>1. PICK S : S = EndsFrom(e)
          OBVIOUS
        <5>2. RedisSumsIn(S)'
          BY <4>1, <5>1 DEF WaitsOn
        <5>3. EndsFrom(e)' = S
          BY <5>1 DEF EndsFrom
        <5> QED BY <5>2, <5>3 DEF RedisSumsIn
      <4>3. (CtxIdle => CtxIdle') /\ (RedisQuiet => RedisQuiet') /\ Up("redis")' = Up("redis")
        BY <4>1 DEF WaitsOn, Up
      <4>4. x.sums.end \in Nat /\ x.data.end \in Nat
        BY <1>1, <2>1, MgrIn DEF CtxSums
      <4> QED BY <2>2, <4>2, <4>3, <4>4 DEF FreeWaits
    <3>2. CASE ~(x.turns = <<>> \/ Real(x.turns) = <<>>)
      BY <3>2 DEF FreeWaits
    <3> QED BY <3>1, <3>2
  <2>5. FreeHeld(mgr[m], f)'
    BY <2>1, <2>3 DEF FreeHeld
  <2>6. FreeWaits(mgr[m], f)'
    BY <2>1, <2>4 DEF FreeWaits, RedisSumsIn
  <2> QED BY <2>5, <2>6
<1>8. FreeAt(f)'
  <2>1. (\A m \in Managers : mgr[m].open => FreeHeld(mgr[m], f) /\ FreeWaits(mgr[m], f))'
    BY <1>7
  <2> QED BY <1>6, <2>1 DEF FreeAt
<1> QED BY <1>5, <1>8 DEF FreeOk

(* The least number that is due is written.                                *)
LEMMA KeepsTakes ==
  ASSUME NEW A, NEW t \in Seq(A), NEW w \in A, NEW D, NEW u \in Nat, NEW f \in Nat, RedisKeeps(t, D, u, f),
         w.turn \in D, \A d \in D : w.turn <= d, u - f <= Window,
         NEW E, E = D \ {w.turn}, NEW s, s = LastN(Append(t, w), Window)
  PROVE RedisKeeps(s, E, u, f)
<1>1. PICK m \in f..u : /\ D = (m + 1)..u /\ m - f <= Len(t)
                        /\ \A n \in (f + 1)..m : t[Len(t) - (m - n)].turn = n
  BY DEF RedisKeeps
<1> DEFINE l == Len(t)
           a == Append(t, w)
           k == Len(s)
<1>2. Window \in Nat /\ Window >= 1 /\ l \in Nat /\ m \in Nat /\ l <= Window
  BY <1>1, CtxBounds DEF RedisKeeps
<1>3. w.turn = m + 1 /\ m + 1 \in f..u /\ E = (m + 2)..u
  <2>1. w.turn \in (m + 1)..u
    BY <1>1
  <2>2. m + 1 \in D
    BY <1>1, <1>2, <2>1
  <2>3. w.turn = m + 1
    BY <1>2, <2>1, <2>2
  <2>4. \A n : n \in (m + 1)..u /\ n # m + 1 <=> n \in (m + 2)..u
    BY <1>2
  <2>5. \A n : n \in E <=> n \in (m + 2)..u
    BY <1>1, <2>3, <2>4
  <2> QED BY <1>2, <2>1, <2>3, <2>5
<1>4. a \in Seq(A) /\ Len(a) = l + 1 /\ a[l + 1] = w /\ \A i \in 1..l : a[i] = t[i]
  OBVIOUS
<1> HIDE DEF a
<1>5. s = LastN(a, Window)
  BY DEF a
<1>6. k = (IF l + 1 > Window THEN Window ELSE l + 1) /\ k \in Nat \ {0} /\ k <= Window
  BY <1>2, <1>4, <1>5, LastNFacts
<1>7. ASSUME NEW j \in 0..(k - 1) PROVE s[k - j] = a[l + 1 - j]
  <2>1. CASE l + 1 > Window
    <3>1. k - j \in 1..Window /\ k = Window
      BY <1>2, <1>6, <1>7, <2>1
    <3>2. s[k - j] = a[(k - j) + (l + 1) - Window]
      <4>1. Len(a) > Window
        BY <1>4, <2>1
      <4>2. \A i \in 1..Window : LastN(a, Window)[i] = a[i + Len(a) - Window]
        <5> HIDE DEF l
        <5> QED BY <1>2, <1>4, <4>1, LastNFacts
      <4>3. Len(a) = l + 1
        BY <1>4
      <4> HIDE DEF l, k
      <4> QED BY <1>5, <3>1, <4>2, <4>3
    <3>3. (k - j) + (l + 1) - Window = l + 1 - j
      BY <1>2, <1>7, <3>1
    <3> QED BY <3>2, <3>3
  <2>2. CASE ~(l + 1 > Window)
    <3>1. s = a /\ k = l + 1
      BY <1>2, <1>4, <1>5, <1>6, <2>2, LastNFacts
    <3> QED BY <3>1
  <2> QED BY <2>1, <2>2
<1>8. s[k] = w /\ s # <<>>
  <2>1. 0 \in 0..(k - 1) /\ k - 0 = k /\ l + 1 - 0 = l + 1
    BY <1>2, <1>6
  <2>2. s # <<>>
    BY <1>6
  <2> QED BY <1>4, <1>7, <2>1, <2>2
<1>9. (m + 1) - f <= k
  BY <1>1, <1>2, <1>3, <1>6
<1>10. ASSUME NEW n \in (f + 1)..(m + 1) PROVE s[k - ((m + 1) - n)].turn = n
  <2>1. CASE n = m + 1
    <3>1. k - ((m + 1) - n) = k
      BY <1>2, <1>6, <2>1
    <3> QED BY <1>3, <1>8, <2>1, <3>1
  <2>2. CASE n # m + 1
    <3>1. n \in (f + 1)..m /\ (m + 1) - n \in 0..(k - 1) /\ l + 1 - ((m + 1) - n) = l - (m - n)
          /\ l - (m - n) \in 1..l
      BY <1>1, <1>2, <1>6, <1>9, <2>2
    <3>2. s[k - ((m + 1) - n)] = a[l + 1 - ((m + 1) - n)]
      BY <1>7, <3>1
    <3>3. a[l - (m - n)] = t[l - (m - n)]
      BY <1>4, <3>1
    <3>4. t[l - (m - n)].turn = n
      BY <1>1, <3>1
    <3> QED BY <3>1, <3>2, <3>3, <3>4
  <2> QED BY <2>1, <2>2
<1>11. E = {} /\ u > 0 => s # <<>> /\ s[k].turn = u
  <2>1. ASSUME E = {} PROVE m + 1 = u
    <3>1. u \notin (m + 2)..u
      BY <1>3, <2>1
    <3> QED BY <1>2, <1>3, <3>1
  <2> QED BY <1>3, <1>8, <2>1
<1>12. (m + 1) + 1 = m + 2
  BY <1>2
<1> HIDE DEF k
<1> QED
  <2>1. \E q \in f..u : /\ E = (q + 1)..u /\ q - f <= k
                        /\ \A n \in (f + 1)..q : s[k - (q - n)].turn = n
    BY <1>3, <1>9, <1>10, <1>12
  <2> QED BY <1>6, <1>11, <2>1 DEF RedisKeeps, k

(* What is kept of a list was in it.                                       *)
LEMMA LastNHas ==
  ASSUME NEW A, NEW s \in Seq(A)
  PROVE \A x \in ToSet(LastN(s, Window)) : x \in ToSet(s)
<1> SUFFICES ASSUME NEW i \in 1..Len(LastN(s, Window)) PROVE \E j \in 1..Len(s) : LastN(s, Window)[i] = s[j]
  BY DEF ToSet
<1>1. Window \in Nat /\ Window >= 1 /\ Len(s) \in Nat
  BY CtxBounds
<1>2. CASE Len(s) > Window
  <2>1. i \in 1..Window /\ LastN(s, Window)[i] = s[i + Len(s) - Window]
    BY <1>1, <1>2, LastNFacts
  <2>2. i + Len(s) - Window \in 1..Len(s)
    <3>1. \A n, w \in Nat : \A k \in 1..w : n > w => k + n - w \in 1..n
      OBVIOUS
    <3> QED BY ONLY <1>1, <1>2, <2>1, <3>1
  <2> QED BY <2>1, <2>2
<1>3. CASE ~(Len(s) > Window)
  <2>1. LastN(s, Window) = s
    BY <1>1, <1>3, LastNFacts
  <2> QED BY <2>1
<1> QED BY <1>2, <1>3

LEMMA RedisWriteFree ==
  ASSUME OneAtATime, CtxTyped, FreeOk, NEW i \in DOMAIN redisTasks, RedisWrite(i)
  PROVE FreeOk'
<1> DEFINE u == Len(said)
           left == redisTasks'
<1>1. PICK f \in 0..u : FreeAt(f)
  BY DEF FreeOk
<1>2. CtxTyped /\ FreeBase /\ FreeStores(f) /\ u \in Nat /\ redisTasks \in Seq(CtxTask(u)) /\ f \in Nat
  BY <1>1 DEF FreeOk, FreeAt, CtxTyped
<1>3. i = 1 /\ redisTasks # <<>> /\ UNCHANGED <<mgr, said, jobs, pgTasks, pg, outage>>
  BY <1>2 DEF RedisWrite, OneAtATime
<1>4. PICK w : w = Head(redisTasks[1])
  OBVIOUS
<1>5. left = Advance(redisTasks, 1)
  BY <1>3 DEF RedisWrite
<1> HIDE DEF left, u
<1>6. /\ \A W : PutsTurns(redisTasks, W) => PutsTurns(left, W) /\ (w.put = "turn" => w.what \in W)
      /\ \A S : PutsSums(redisTasks, S) => PutsSums(left, S) /\ (w.put = "summary" => w.what \in S)
      /\ Len(redisTasks) = 1 /\ Len(redisTasks[1]) = 1 => left = <<>>
  BY <1>2, <1>3, <1>4, <1>5, PutsLess
<1>7. /\ CtxDue(left) \subseteq CtxDue(redisTasks) /\ CtxAscends(left) /\ (w.put = "turn" \/ w.put = "summary")
      /\ w.put = "summary" => CtxDue(left) = CtxDue(redisTasks)
      /\ w.put = "turn" => /\ w.what \in CtxReal(u) /\ w.what.turn \in CtxDue(redisTasks)
                           /\ \A d \in CtxDue(redisTasks) : w.what.turn <= d
                           /\ CtxDue(left) = CtxDue(redisTasks) \ {w.what.turn}
  <2>1. CtxAscends(redisTasks)
    BY <1>2 DEF FreeStores
  <2> QED BY <1>2, <1>3, <1>4, <1>5, <2>1, DueLess
<1>8. PICK t : t = redis.turns
  OBVIOUS
<1>9. redis \in [turns : Seq(CtxReal(u)), sum : CtxSums(u)] /\ t \in Seq(CtxReal(u))
  BY <1>8 DEF CtxTyped, u
<1>10. PICK s : s = IF Up("redis") /\ w.put = "turn" THEN LastN(Append(t, w.what), Window) ELSE t
  OBVIOUS
<1>11. redis'.turns = s /\ redis'.sum = (IF Up("redis") /\ w.put = "summary" THEN w.what ELSE redis.sum)
  BY <1>3, <1>4, <1>7, <1>8, <1>9, <1>10 DEF RedisWrite
<1>12. ASSUME NEW S, RedisSumsIn(S) PROVE RedisSumsIn(S)'
  BY <1>6, <1>11, <1>12 DEF RedisSumsIn, left
<1>13. \A S : AllSumsIn(S) /\ NoSummary \in S => StoreSumsIn(S)'
  BY <1>3, <1>12 DEF AllSumsIn, StoreSumsIn
<1>14. ASSUME NEW W, StoreRecords(W) PROVE StoreRecords(W)'
  <2>1. PutsTurns(left, W) /\ (w.put = "turn" => w.what \in W)
    BY <1>6, <1>14 DEF StoreRecords
  <2>2. \A r \in ToSet(s) : r.turn > 0 => r \in W
    <3>1. \A r \in ToSet(t) : r.turn > 0 => r \in W
      BY <1>8, <1>14 DEF StoreRecords
    <3>2. CASE Up("redis") /\ w.put = "turn"
      <4>1. w.what \in CtxReal(u)
        BY <1>7, <3>2
      <4>2. \A x : x \in ToSet(Append(t, w.what)) <=> x \in ToSet(t) \/ x = w.what
        BY <1>9, <4>1, AppendHas
      <4>3. \A x \in ToSet(s) : x \in ToSet(Append(t, w.what))
        <5>1. Append(t, w.what) \in Seq(CtxReal(u))
          BY <1>9, <4>1
        <5> QED BY <1>10, <3>2, <5>1, LastNHas
      <4> QED BY <2>1, <3>1, <3>2, <4>2, <4>3
    <3>3. CASE ~(Up("redis") /\ w.put = "turn")
      BY <1>10, <3>1, <3>3
    <3> QED BY <3>2, <3>3
  <2> QED BY <1>3, <1>11, <1>14, <2>1, <2>2 DEF StoreRecords, left
<1>15. Up("redis") => RedisKeeps(s, CtxDue(left), u, f)
  <2> SUFFICES ASSUME Up("redis") PROVE RedisKeeps(s, CtxDue(left), u, f)
    OBVIOUS
  <2>1. RedisKeeps(t, CtxDue(redisTasks), u, f) /\ u - f <= Window
    BY <1>2, <1>8 DEF FreeStores, u
  <2>2. CASE w.put = "turn"
    <3>1. s = LastN(Append(t, w.what), Window)
      BY <1>10, <2>2
    <3> QED BY <1>2, <1>7, <1>9, <2>1, <2>2, <3>1, KeepsTakes
  <2>3. CASE w.put # "turn"
    BY <1>7, <1>10, <2>1, <2>3
  <2> QED BY <2>2, <2>3
<1>16. FreeStores(f)'
  <2>1. PICK S : S = EndsFrom(f)
    OBVIOUS
  <2>2. Up("redis") => RedisSumsIn(S)'
    BY <1>2, <1>12, <2>1 DEF FreeStores
  <2>3. Up("pg") => CtxN' = 1..u
    BY <1>2, <1>3 DEF FreeStores, CtxN, u
  <2>4. CtxAscends(redisTasks)' /\ CtxDue(redisTasks)' = CtxDue(left)
    BY <1>7 DEF left, CtxAscends, CtxDue, CtxTurnAt, CtxAt
  <2>5. Up("redis") => RedisKeeps(redis.turns, CtxDue(redisTasks), Len(said), f)'
    <3>1. PICK D : D = CtxDue(left)
      OBVIOUS
    <3>2. Up("redis") => RedisKeeps(s, D, u, f)
      BY <1>15, <3>1
    <3>3. (redis.turns)' = s /\ CtxDue(redisTasks)' = D /\ Len(said)' = u
      BY <1>3, <1>11, <2>4, <3>1 DEF u
    <3> QED BY <3>2, <3>3 DEF RedisKeeps
  <2>6. Up("redis")' = Up("redis") /\ Up("pg")' = Up("pg") /\ EndsFrom(f)' = S /\ Len(said)' = u
    BY <1>3, <2>1 DEF Up, EndsFrom, u
  <2>7. Up("redis") => u - f <= Window
    BY <1>2 DEF FreeStores, u
  <2> QED BY <2>2, <2>3, <2>4, <2>5, <2>6, <2>7 DEF FreeStores, RedisSumsIn
<1>17. WaitsOn
  <2>1. CtxIdle => CtxIdle'
    <3>1. CtxDue(pgTasks)' = CtxDue(pgTasks) /\ CtxDue(redisTasks)' = CtxDue(left)
      BY <1>3 DEF left, CtxDue, CtxTurnAt, CtxAt
    <3> QED BY <1>7, <3>1 DEF CtxIdle
  <2>2. RedisQuiet => redisTasks' = <<>>
    BY <1>3, <1>6 DEF RedisQuiet, left
  <2>3. RedisQuiet => RedisQuiet'
    BY <2>2 DEF RedisQuiet
  <2> QED BY <1>12, <2>1, <2>3 DEF WaitsOn
<1>18. NoSummary \in CtxSound(said)
  BY SoundEnds
<1> QED BY <1>1, <1>2, <1>3, <1>13, <1>14, <1>16, <1>17, <1>18, StoresMove DEF u

LEMMA PgWriteFree ==
  ASSUME OneAtATime, CtxInvariant, FreeOk, NEW i \in DOMAIN pgTasks, PgWrite(i)
  PROVE FreeOk'
<1> DEFINE u == Len(said)
           left == pgTasks'
<1>1. PICK f \in 0..u : FreeAt(f)
  BY DEF FreeOk
<1>2. CtxTyped /\ FreeBase /\ FreeStores(f) /\ u \in Nat /\ pgTasks \in Seq(CtxTask(u))
  BY <1>1 DEF FreeOk, FreeAt, CtxTyped, CtxInvariant
<1>3. i = 1 /\ pgTasks # <<>> /\ UNCHANGED <<mgr, said, jobs, redisTasks, redis, outage>>
  BY <1>2 DEF PgWrite, OneAtATime
<1>4. PICK w : w = Head(pgTasks[1])
  OBVIOUS
<1>5. left = Advance(pgTasks, 1)
  BY <1>3 DEF PgWrite
<1> HIDE DEF left, u
<1>6. /\ \A W : PutsTurns(pgTasks, W) => PutsTurns(left, W) /\ (w.put = "turn" => w.what \in W)
      /\ \A S : PutsSums(pgTasks, S) => PutsSums(left, S) /\ (w.put = "summary" => w.what \in S)
  BY <1>2, <1>3, <1>4, <1>5, PutsLess
<1>7. CtxDue(left) \subseteq CtxDue(pgTasks) /\ (w.put = "turn" \/ w.put = "summary")
  BY <1>2, <1>3, <1>4, <1>5, DueLess
<1>8. pg \in [rows : SUBSET CtxReal(u), sums : SUBSET CtxSums(u)]
  BY <1>2 DEF CtxTyped, u
<1>9. IF ~Up("pg") THEN pg' = pg
      ELSE IF w.put = "turn" THEN pg'.rows = WithRow(pg.rows, w.what) /\ pg'.sums = pg.sums
      ELSE pg'.rows = pg.rows /\ pg'.sums = WithSummaryRow(pg.sums, w.what)
  BY <1>3, <1>4, <1>7, <1>8 DEF PgWrite
<1>10. \A S : AllSumsIn(S) /\ NoSummary \in S => StoreSumsIn(S)'
  <2> SUFFICES ASSUME NEW S, AllSumsIn(S) PROVE StoreSumsIn(S)'
    OBVIOUS
  <2>1. PutsSums(left, S) /\ (w.put = "summary" => w.what \in S)
    BY <1>6 DEF AllSumsIn
  <2>2. pg'.sums \subseteq S
    BY <1>7, <1>9, <2>1 DEF AllSumsIn, WithSummaryRow
  <2> QED BY <1>3, <2>1, <2>2 DEF AllSumsIn, StoreSumsIn, RedisSumsIn, left
<1>11. ASSUME NEW W, StoreRecords(W) PROVE StoreRecords(W)'
  <2>1. PutsTurns(left, W) /\ (w.put = "turn" => w.what \in W)
    BY <1>6, <1>11 DEF StoreRecords
  <2>2. pg'.rows \subseteq W
    BY <1>9, <1>11, <2>1 DEF StoreRecords, WithRow
  <2> QED BY <1>3, <1>11, <2>1, <2>2 DEF StoreRecords, left
<1>12. FreeStores(f)'
  <2>1. Up("pg") => CtxN' = 1..u
    <3> SUFFICES ASSUME Up("pg") PROVE CtxN' = 1..u
      OBVIOUS
    <3>1. PgOk(pg.rows, pg.sums, pgTasks) /\ PgTyped(u, pg.rows, pg.sums, pgTasks) /\ CtxN = 1..u
      BY <1>2, CtxKnows DEF CtxInvariant, CtxStores, FreeStores, u
    <3>2. w = pgTasks[1][1] /\ Len(pgTasks) \in Nat \ {0}
      BY <1>2, <1>3, <1>4, PgTaskIs
    <3>3. PICK rows2 : rows2 = pg'.rows
      OBVIOUS
    <3>4. PICK sums2 : sums2 = pg'.sums
      OBVIOUS
    <3>5. IF pgTasks[1][1].put = "turn"
          THEN rows2 = WithRow(pg.rows, pgTasks[1][1].what) /\ sums2 = pg.sums
          ELSE rows2 = pg.rows /\ sums2 = WithSummaryRow(pg.sums, pgTasks[1][1].what)
      BY <1>9, <3>2, <3>3, <3>4
    <3>6. /\ Len(Advance(pgTasks, 1)) = Len(pgTasks) - 1
          /\ NumsAt(rows2, Advance(pgTasks, 1), Len(pgTasks) - 1) = NumsAt(pg.rows, pgTasks, Len(pgTasks))
      <4>1. PICK rows : rows = pg.rows
        OBVIOUS
      <4>2. PICK sums : sums = pg.sums
        OBVIOUS
      <4>3. PgTyped(u, rows, sums, pgTasks) /\ PgOk(rows, sums, pgTasks)
        BY <3>1, <4>1, <4>2
      <4>4. IF pgTasks[1][1].put = "turn"
            THEN rows2 = WithRow(rows, pgTasks[1][1].what) /\ sums2 = sums
            ELSE rows2 = rows /\ sums2 = WithSummaryRow(sums, pgTasks[1][1].what)
        BY <3>5, <4>1, <4>2
      <4>5. /\ PgOk(rows2, sums2, Advance(pgTasks, 1))
            /\ Len(Advance(pgTasks, 1)) = Len(pgTasks) - 1
            /\ NumsAt(rows2, Advance(pgTasks, 1), Len(pgTasks) - 1) = NumsAt(rows, pgTasks, Len(pgTasks))
            /\ AnchorsAt(sums2, Advance(pgTasks, 1), Len(pgTasks) - 1) = AnchorsAt(sums, pgTasks, Len(pgTasks))
            /\ FreshAt(rows2, sums2, Advance(pgTasks, 1), Len(pgTasks) - 1) = FreshAt(rows, sums, pgTasks, Len(pgTasks))
        BY <1>3, <4>3, <4>4, PgWrites
      <4> QED BY <4>1, <4>5
    <3>7. CtxN' = NumsAt(rows2, left, Len(left)) /\ CtxN = NumsAt(pg.rows, pgTasks, Len(pgTasks))
      BY <3>3 DEF CtxN, left, NumsAt
    <3> QED BY <1>5, <3>1, <3>6, <3>7
  <2>2. CtxDue(redisTasks)' = CtxDue(redisTasks)
    BY <1>3
  <2> QED BY <1>2, <1>3, <2>1, <2>2 DEF FreeStores, Up, RedisSumsIn, u
<1>13. WaitsOn
  <2>1. CtxIdle => CtxIdle'
    <3>1. CtxDue(redisTasks)' = CtxDue(redisTasks) /\ CtxDue(pgTasks)' = CtxDue(left)
      BY <1>3 DEF left, CtxDue, CtxTurnAt, CtxAt
    <3> QED BY <1>7, <3>1 DEF CtxIdle
  <2> QED BY <1>3, <2>1 DEF WaitsOn, RedisQuiet, RedisSumsIn
<1>14. NoSummary \in CtxSound(said)
  BY SoundEnds, <1>2
<1> QED BY <1>1, <1>2, <1>3, <1>10, <1>11, <1>12, <1>13, <1>14, StoresMove DEF u

(* What a compression makes of the turns: a summary, up to the last turn,  *)
(* that tells of everything before it that is not of a game.               *)
LEMMA VirtualTells ==
  ASSUME NEW u \in Nat, NEW rs \in Seq(CtxRecords(u)), NEW o, NEW h, NEW e, TellsFree(ToSet(rs), o, h, e)
  PROVE FreeOf(h, e) \subseteq VirtualText(rs, -2, o)
<1> DEFINE P == {i \in DOMAIN rs : rs[i].turn = -2}
<1>1. PICK found : found = Pick(rs, P)
  OBVIOUS
<1>2. \A x : x \in ToSet(found) <=> \E i \in 1..Len(rs) : i \in P /\ rs[i] = x
  BY <1>1, PickHas
<1>3. VirtualText(rs, -2, o) = IF found = <<>> THEN o ELSE Last(found).ids
  BY <1>1 DEF VirtualText
<1>4. found \in Seq(CtxRecords(u))
  BY <1>1, PickIn
<1>5. CASE found = <<>>
  <2>1. ToSet(found) = {}
    BY <1>5, DueNothing
  <2>2. ASSUME NEW r \in ToSet(rs), r.turn = -2 PROVE FALSE
    <3>1. PICK i \in 1..Len(rs) : rs[i] = r
      BY DEF ToSet
    <3>2. i \in P
      BY <2>2, <3>1
    <3> HIDE DEF P
    <3> QED BY <1>2, <2>1, <3>1, <3>2
  <2> QED BY <1>3, <1>5, <2>2 DEF TellsFree
<1>6. CASE found # <<>>
  <2>1. Last(found) \in ToSet(found)
    <3>1. Len(found) \in 1..Len(found)
      BY <1>4, <1>6
    <3> QED BY <1>4, <3>1 DEF Last, ToSet
  <2>2. Last(found) \in ToSet(rs) /\ Last(found).turn = -2
    BY <1>2, <2>1 DEF ToSet
  <2> QED BY <1>3, <1>6, <2>2 DEF TellsFree
<1> QED BY <1>5, <1>6

LEMMA RoastIs ==
  ASSUME NEW job, NEW enough, NEW s, s = Roast(job, TRUE, enough)
  PROVE LET turns == Real(job.records)
            rid == Last(turns).rid
            first == Head(GameTurns(turns, rid))
            known == RedisSummary.rid = rid /\ RedisSummary.prompt > 0 /\ RedisSummary.prompt < first.turn
            prompt == IF known THEN RedisSummary.prompt ELSE first.turn
            before == Pick(turns, {i \in DOMAIN turns : turns[i].turn < prompt})
            told3 == VirtualText(job.records, -2, job.l3)
        IN /\ s.end = (IF Last(turns).turn < prompt THEN prompt ELSE Last(turns).turn)
           /\ s.rid = rid /\ s.prompt = prompt
           /\ s.l3 = IF before = <<>> THEN told3 ELSE told3 \cup Ids(before)
BY DEF Roast, Told

LEMMA CompressSound ==
  ASSUME CtxTyped, FreeBase, NEW job \in jobs, NEW enough \in BOOLEAN, Real(job.records) # <<>>,
         NEW s, s = Compressed(job, TRUE, enough)
  PROVE s \in CtxSound(said) /\ s.end = Last(Real(job.records)).turn
<1> DEFINE u == Len(said)
           R == Real(job.records)
           X == ToSet(job.records)
           L == Last(R).turn
           told3 == VirtualText(job.records, -2, job.l3)
<1>1. u \in Nat /\ job \in CtxJob(u) /\ job.records \in Seq(CtxRecords(u)) /\ said \in Seq(CtxRids)
  BY DEF CtxTyped, CtxJob
<1>2. R \in Seq(CtxReal(u)) /\ (\A x : x \in ToSet(R) <=> x \in X /\ x.turn > 0)
  BY <1>1, AfterIn, AfterHas DEF Real
<1>3. Last(R) \in ToSet(R) /\ Last(R) \in CtxReal(u)
  <2>1. Len(R) \in 1..Len(R)
    BY <1>2
  <2> QED BY <1>2, <2>1 DEF Last, ToSet
<1>4. L \in 1..u
  BY <1>3 DEF CtxReal
<1>5. /\ \E e \in 0..L : TellsFree(X, job.l3, said, e) /\ HasTurns(X, e, L)
      /\ \A r \in X : r.turn <= L
  BY DEF FreeBase, JobTells
<1>6. PICK e \in 0..L : TellsFree(X, job.l3, said, e) /\ HasTurns(X, e, L)
  BY <1>5
<1>7. OwnTurns(X, said)
  BY DEF FreeBase, RecordsOwn
<1>8. \A r \in ToSet(R) : r \in CtxReal(u) /\ r.ids = {r.turn} /\ r.rid = said[r.turn] /\ r.turn \in 1..L
  <2> SUFFICES ASSUME NEW r \in ToSet(R) PROVE r \in CtxReal(u) /\ r.ids = {r.turn} /\ r.rid = said[r.turn] /\ r.turn \in 1..L
    OBVIOUS
  <2>1. r \in X /\ r.turn > 0
    BY <1>2
  <2>2. r \in CtxReal(u) /\ r.ids = {r.turn} /\ r.rid = said[r.turn]
    BY <1>7, <2>1 DEF OwnTurns, CtxOwned
  <2>3. r.turn \in Nat /\ r.turn <= L
    BY <1>1, <1>5, <2>1, <2>2 DEF CtxReal
  <2> QED BY <1>4, <2>1, <2>2, <2>3
<1>9. FreeOf(said, e) \subseteq told3
  BY <1>1, <1>6, VirtualTells
<1>10. \A i \in Nat : e < i /\ i <= L => \E r \in ToSet(R) : r.turn = i
  <2> SUFFICES ASSUME NEW i \in Nat, e < i, i <= L PROVE \E r \in ToSet(R) : r.turn = i
    OBVIOUS
  <2>1. PICK r \in X : r.turn = i
    BY <1>6 DEF HasTurns
  <2>2. r.turn > 0
    BY <1>6, <2>1
  <2> QED BY <1>2, <2>1, <2>2
<1>11. s \in CtxSums(u)
  BY CompressedIn
<1>12. Last(R).rid = said[L]
  BY <1>3, <1>8
<1> HIDE DEF u, X, L, told3, R
<1>13. CASE Last(R).rid = None
  <2>1. s = [NoSummary EXCEPT !.end = L, !.l3 = told3 \cup Ids(R)]
    BY <1>13 DEF Compressed, FreeChat, Told, L, told3, R
  <2>2. s.end = L /\ s.l3 = told3 \cup Ids(R) /\ s.rid = None
    BY <2>1 DEF NoSummary
  <2>3. FreeOf(said, L) \subseteq s.l3
    <3> SUFFICES ASSUME NEW i \in FreeOf(said, L) PROVE i \in told3 \cup Ids(R)
      BY <2>2
    <3>1. i \in 1..u /\ i <= L /\ said[i] = None
      BY DEF FreeOf, u
    <3>2. CASE i <= e
      BY <1>9, <3>1, <3>2 DEF FreeOf, u
    <3>3. CASE ~(i <= e)
      <4>1. PICK r \in ToSet(R) : r.turn = i
        BY <1>4, <1>6, <1>10, <3>1, <3>3
      <4>2. i \in r.ids
        BY <1>8, <4>1
      <4>3. i \in Ids(R)
        BY <4>2 DEF Ids, ToSet
      <4> QED BY <4>3
    <3> QED BY <3>2, <3>3
  <2> QED BY <1>11, <1>12, <1>13, <2>2, <2>3 DEF CtxSound, L, u, R
<1>14. CASE Last(R).rid # None
  <2> DEFINE rid == Last(R).rid
  <2>1. rid = Last(R).rid
    OBVIOUS
  <2> HIDE DEF rid
  <2> DEFINE game == GameTurns(R, rid)
  <2>2. game = GameTurns(R, rid)
    OBVIOUS
  <2> HIDE DEF game
  <2>3. game \in Seq(CtxReal(u)) /\ game # <<>>
    <3>1. R \in Seq(CtxRecords(u))
      BY <1>1, <1>2, CtxGrows
    <3>2. \E i \in 1..Len(R) : R[i].turn > 0 /\ R[i].rid = rid
      BY <1>2, <1>3, <2>1 DEF ToSet
    <3> QED BY <1>1, <2>2, <3>1, <3>2, GameTurnsIn
  <2> DEFINE first == Head(game)
  <2>4. first = Head(game)
    OBVIOUS
  <2> HIDE DEF first
  <2>5. first \in ToSet(R) /\ first.rid = rid
    <3>1. first \in ToSet(game)
      BY <2>3, <2>4 DEF ToSet
    <3>2. \A x : x \in ToSet(game) <=> \E i \in 1..Len(R) : i \in {j \in DOMAIN R : R[j].turn > 0 /\ R[j].rid = rid} /\ R[i] = x
      BY <1>2, <2>2, PickHas DEF GameTurns
    <3> QED BY <3>1, <3>2 DEF ToSet
  <2>6. first.turn \in 1..L /\ said[first.turn] = rid
    BY <1>8, <2>5
  <2> DEFINE t == RedisSummary
  <2>7. t = RedisSummary
    OBVIOUS
  <2> HIDE DEF t
  <2>8. t \in CtxSound(said)
    <3>1. NoSummary \in CtxSound(said) /\ redis.sum \in CtxSound(said)
      BY SoundEnds DEF FreeBase, AllSumsIn, RedisSumsIn
    <3> QED BY <2>7, <3>1 DEF RedisSummary
  <2> DEFINE known == t.rid = rid /\ t.prompt > 0 /\ t.prompt < first.turn
  <2> DEFINE prompt == IF known THEN t.prompt ELSE first.turn
  <2>9. prompt = IF known THEN t.prompt ELSE first.turn
    OBVIOUS
  <2> HIDE DEF prompt
  <2>10. prompt \in 1..L /\ said[prompt] = rid
    <3>1. t.prompt \in Nat
      BY <1>1, <2>8 DEF CtxSound, CtxSums
    <3>2. known => said[t.prompt] = rid
      BY <1>14, <2>1, <2>8 DEF CtxSound
    <3> QED BY <1>4, <2>6, <2>9, <3>1, <3>2
  <2> DEFINE before == Pick(R, {i \in DOMAIN R : R[i].turn < prompt})
  <2>11. before = Pick(R, {i \in DOMAIN R : R[i].turn < prompt})
    OBVIOUS
  <2> HIDE DEF before
  <2>12. s.end = (IF Last(R).turn < prompt THEN prompt ELSE Last(R).turn) /\ s.rid = rid /\ s.prompt = prompt
         /\ s.l3 = IF before = <<>> THEN told3 ELSE told3 \cup Ids(before)
    <3>1. s = Roast(job, TRUE, enough)
      BY <1>14 DEF Compressed, R
    <3> QED BY <3>1, RoastIs DEF R, told3, rid, game, first, t, prompt, before
  <2>13. s.end = L
    <3>1. s.end = IF L < prompt THEN prompt ELSE L
      BY <2>12 DEF L
    <3>2. L \in Nat
      BY <1>1, <1>4 DEF u
    <3>3. prompt \in Nat /\ prompt <= L /\ ~(L < prompt)
      BY <2>10, <3>2
    <3> QED BY <3>1, <3>3
  <2>14. FreeOf(said, L) \subseteq s.l3
    <3> SUFFICES ASSUME NEW i \in FreeOf(said, L) PROVE i \in s.l3
      OBVIOUS
    <3>1. i \in 1..u /\ i <= L /\ said[i] = None
      BY DEF FreeOf, u
    <3>2. i # L /\ i # prompt
      BY <1>12, <1>14, <2>1, <2>10, <3>1
    <3>3. ~(prompt < i)
      <4> SUFFICES ASSUME prompt < i PROVE FALSE
        OBVIOUS
      <4>1. i < L /\ prompt \in 1..u /\ L \in 1..u
        BY <1>1, <1>4, <2>10, <3>1, <3>2 DEF u
      <4>2. said[prompt] = said[L] /\ said[prompt] # None
        BY <1>12, <1>14, <2>1, <2>10
      <4>3. said[i] = said[prompt]
        BY <3>1, <4>1, <4>2 DEF FreeBase, Together, u
      <4> QED BY <3>1, <4>2, <4>3
    <3>4. i < prompt
      BY <1>4, <2>10, <3>1, <3>2, <3>3
    <3>5. CASE i <= e
      <4>1. i \in told3
        BY <1>9, <3>1, <3>5 DEF FreeOf, u
      <4> QED BY <2>12, <4>1
    <3>6. CASE ~(i <= e)
      <4>1. PICK r \in ToSet(R) : r.turn = i
        BY <1>4, <1>6, <1>10, <3>1, <3>6
      <4>2. i \in r.ids /\ r.turn < prompt
        BY <1>8, <3>4, <4>1
      <4>3. r \in ToSet(before)
        <5>1. \A x : x \in ToSet(before) <=> \E j \in 1..Len(R) : j \in {k \in DOMAIN R : R[k].turn < prompt} /\ R[j] = x
          BY <1>2, <2>11, PickHas
        <5>2. PICK j \in 1..Len(R) : R[j] = r
          BY <1>2 DEF ToSet
        <5>3. j \in {k \in DOMAIN R : R[k].turn < prompt}
          BY <1>2, <4>2, <5>2
        <5> QED BY <5>1, <5>2, <5>3
      <4>4. before # <<>>
        BY <4>3, DueNothing
      <4>5. i \in Ids(before)
        BY <4>2, <4>3 DEF Ids, ToSet
      <4> QED BY <2>12, <4>4, <4>5
    <3> QED BY <3>5, <3>6
  <2> QED BY <1>11, <1>12, <2>1, <2>10, <2>12, <2>13, <2>14 DEF CtxSound, L, u, R
<1> QED BY <1>13, <1>14

LEMMA CompressFree ==
  ASSUME OneAtATime, CtxTyped, FreeOk, NEW job \in jobs, Compress(job)
  PROVE FreeOk'
<1> DEFINE u == Len(said)
           R == Real(job.records)
           L == Last(R).turn
<1>1. PICK f \in 0..u : FreeAt(f)
  BY DEF FreeOk
<1>2. /\ FreeBase /\ FreeStores(f) /\ u \in Nat /\ f \in Nat
      /\ redisTasks \in Seq(CtxTask(u)) /\ pgTasks \in Seq(CtxTask(u))
  BY <1>1 DEF FreeOk, FreeAt, CtxTyped
<1>3. jobs = {job} /\ jobs' = {} /\ UNCHANGED <<mgr, said, redis, pg, outage>>
  BY <1>2 DEF FreeBase, Compress
<1>4. RedisQuiet => redisTasks = <<>>
  BY DEF RedisQuiet
<1>5. NoSummary \in CtxSound(said)
  BY SoundEnds
<1> HIDE DEF u
<1>6. CASE R = <<>>
  <2>1. UNCHANGED <<redisTasks, pgTasks>>
    BY <1>6 DEF Compress
  <2>2. StoresAlike
    BY <1>3, <2>1 DEF StoresAlike
  <2>3. FreeStores(f)'
    BY <1>2, <2>2, StoresStayFree
  <2>4. \A S : AllSumsIn(S) /\ NoSummary \in S => StoreSumsIn(S)'
    BY <1>3, <2>1 DEF AllSumsIn, StoreSumsIn, RedisSumsIn
  <2>5. \A W : StoreRecords(W) => StoreRecords(W)'
    BY <1>3, <2>1 DEF StoreRecords
  <2>6. WaitsOn
    BY <1>3, <1>4, <2>1 DEF WaitsOn, CtxIdle, RedisQuiet, RedisSumsIn
  <2> QED BY <1>1, <1>2, <1>3, <1>5, <2>3, <2>4, <2>5, <2>6, StoresMove DEF u
<1>7. CASE R # <<>>
  <2>1. PICK enough \in BOOLEAN :
          LET put == <<[put |-> "summary", what |-> Compressed(job, TRUE, enough)]>> IN
          redisTasks' = Append(redisTasks, put) /\ pgTasks' = Append(pgTasks, put)
    BY <1>7 DEF Compress, OneAtATime
  <2>2. PICK s : s = Compressed(job, TRUE, enough)
    OBVIOUS
  <2>3. PICK w : w = [put |-> "summary", what |-> s]
    OBVIOUS
  <2>4. redisTasks' = Append(redisTasks, <<w>>) /\ pgTasks' = Append(pgTasks, <<w>>)
    BY <2>1, <2>2, <2>3
  <2>5. s \in CtxSound(said) /\ s.end = L
    BY <1>2, <1>7, <2>2, CompressSound
  <2>6. s.end \in 0..u /\ s \in CtxSums(u) /\ s \in CtxSums(TurnCount)
    BY <2>5, SoundEnds DEF EndsTo, u
  <2>7. f <= L /\ AllSumsIn(EndsTo(L))
    BY <1>1, <1>7 DEF FreeAt, JobLate
  <2>8. redis.sum.end <= s.end /\ redis.sum.end \in Nat
    <3>1. redis.sum \in EndsTo(L)
      BY <2>7 DEF AllSumsIn, RedisSumsIn
    <3>2. redis.sum \in CtxSums(TurnCount) /\ redis.sum.end <= L
      BY <3>1 DEF EndsTo
    <3> QED BY <2>5, <3>2, CtxBounds DEF CtxSums
  <2> HIDE DEF R, L
  <2>9. w \in CtxWrites(u) /\ <<w>> \in CtxTask(u) /\ Len(<<w>>) = 1 /\ <<w>>[1] = w /\ w.put = "summary" /\ w.what = s
    <3>1. w \in CtxWrites(u)
      BY <2>3, <2>6 DEF CtxWrites
    <3> QED BY <2>3, <3>1 DEF CtxTask
  <2>10. /\ \A W : PutsTurns(redisTasks, W) => PutsTurns(redisTasks', W)
         /\ \A W : PutsTurns(pgTasks, W) => PutsTurns(pgTasks', W)
         /\ \A S : PutsSums(redisTasks, S) /\ s \in S => PutsSums(redisTasks', S)
         /\ \A S : PutsSums(pgTasks, S) /\ s \in S => PutsSums(pgTasks', S)
    <3>1. \A k \in 1..Len(<<w>>) : <<w>>[k] = w
      BY <2>9
    <3>2. PICK T : T = <<w>>
      OBVIOUS
    <3>3. T \in CtxTask(u) /\ \A k \in 1..Len(T) : T[k].put = "summary" /\ T[k].what = s
      BY <2>9, <3>1, <3>2
    <3>4. ASSUME NEW tasks \in Seq(CtxTask(u)), NEW more, more = Append(tasks, T)
          PROVE /\ \A W : PutsTurns(tasks, W) => PutsTurns(more, W)
                /\ \A S : PutsSums(tasks, S) /\ s \in S => PutsSums(more, S)
      <4>1. /\ \A W : PutsTurns(tasks, W) /\ (\A k \in 1..Len(T) : T[k].put = "turn" => T[k].what \in W)
             => PutsTurns(more, W)
            /\ \A S : PutsSums(tasks, S) /\ (\A k \in 1..Len(T) : T[k].put = "summary" => T[k].what \in S)
             => PutsSums(more, S)
        BY <1>2, <3>3, <3>4, PutsMore
      <4> QED BY <3>3, <4>1
    <3> QED BY <1>2, <2>4, <3>2, <3>4
  <2>11. CtxDue(redisTasks)' = CtxDue(redisTasks) /\ CtxDue(pgTasks)' = CtxDue(pgTasks) /\ CtxAscends(redisTasks)'
    <3>1. ASSUME NEW tasks \in Seq(CtxTask(u)), NEW more, more = Append(tasks, <<w>>)
          PROVE CtxDue(more) = CtxDue(tasks) /\ (CtxAscends(tasks) => CtxAscends(more))
      <4>1. SameDue(tasks, more) /\ (CtxAscends(tasks) => CtxAscends(more))
        BY <1>2, <2>3, <2>6, <3>1, DueNone
      <4> QED BY <4>1 DEF SameDue
    <3> DEFINE rt == redisTasks'
               pt == pgTasks'
    <3>2. rt = Append(redisTasks, <<w>>) /\ pt = Append(pgTasks, <<w>>)
      BY <2>4
    <3> HIDE DEF rt, pt
    <3>3. CtxDue(rt) = CtxDue(redisTasks) /\ CtxAscends(rt)
      BY <1>2, <3>1, <3>2 DEF FreeStores
    <3>4. CtxDue(pt) = CtxDue(pgTasks)
      BY <1>2, <3>1, <3>2
    <3>5. CtxDue(redisTasks)' = CtxDue(rt) /\ CtxAscends(redisTasks)' = CtxAscends(rt)
      BY DEF rt, CtxDue, CtxAscends, CtxTurnAt, CtxAt
    <3>6. CtxDue(pgTasks)' = CtxDue(pt)
      BY DEF pt, CtxDue, CtxTurnAt, CtxAt
    <3> QED BY <3>3, <3>4, <3>5, <3>6
  <2>12. CtxN' = CtxN
    <3>1. PICK rows : rows = pg.rows
      OBVIOUS
    <3>2. PICK sums : sums = pg.sums
      OBVIOUS
    <3>3. PICK more : more = pgTasks'
      OBVIOUS
    <3>4. PICK l : l = Len(pgTasks)
      OBVIOUS
    <3>5. PgTyped(u, rows, sums, pgTasks)
      BY <3>1, <3>2, CtxKnows DEF u
    <3>6. OneMore(u, rows, sums, pgTasks, w, more, l)
      BY <2>4, <2>9, <3>3, <3>4, <3>5, AppendsTask
    <3>7. Len(more) = l + 1 /\ NumsAt(rows, more, l + 1) = NumsAt(rows, pgTasks, l)
      BY <2>9, <3>6 DEF OneMore
    <3>8. CtxN' = NumsAt(rows, more, Len(more)) /\ CtxN = NumsAt(rows, pgTasks, l)
      BY <1>3, <3>1, <3>3, <3>4 DEF CtxN, NumsAt
    <3> QED BY <3>7, <3>8
  <2>13. \A S : AllSumsIn(S) /\ s \in S => StoreSumsIn(S)'
    BY <1>3, <2>10 DEF AllSumsIn, StoreSumsIn, RedisSumsIn
  <2>14. \A W : StoreRecords(W) => StoreRecords(W)'
    BY <1>3, <2>10 DEF StoreRecords
  <2>15. FreeStores(f)'
    <3>1. PICK S : S = EndsFrom(f)
      OBVIOUS
    <3>2. s \in S
      BY <2>5, <2>6, <2>7, <3>1 DEF EndsFrom
    <3>3. Up("redis") => RedisSumsIn(S)'
      BY <1>2, <1>3, <2>10, <3>1, <3>2 DEF FreeStores, RedisSumsIn
    <3>4. Up("redis")' = Up("redis") /\ Up("pg")' = Up("pg") /\ EndsFrom(f)' = S /\ Len(said)' = u
      BY <1>3, <3>1 DEF Up, EndsFrom, u
    <3>5. Up("redis") => RedisKeeps(redis.turns, CtxDue(redisTasks), Len(said), f)'
      BY <1>2, <1>3, <2>11 DEF FreeStores, RedisKeeps
    <3> QED BY <1>2, <2>11, <2>12, <3>3, <3>4, <3>5 DEF FreeStores, RedisSumsIn, u
  <2>16. WaitsOn
    <3>1. CtxIdle => CtxIdle'
      BY <2>11 DEF CtxIdle
    <3>2. RedisQuiet => RedisQuiet'
      <4> SUFFICES ASSUME RedisQuiet PROVE RedisQuiet'
        OBVIOUS
      <4>1. redisTasks' = <<<<w>>>>
        BY <1>4, <2>4
      <4>2. Len(redisTasks') = 1 /\ redisTasks'[1] = <<w>> /\ Len(redisTasks'[1]) = 1 /\ redisTasks'[1][1] = w
        BY <4>1
      <4> QED BY <1>3, <2>8, <2>9, <4>2 DEF RedisQuiet
    <3>3. ASSUME NEW S, NEW e \in Nat, S = EndsFrom(e), RedisSumsIn(S) PROVE RedisSumsIn(S)'
      <4>1. e <= redis.sum.end
        BY <3>3 DEF RedisSumsIn, EndsFrom
      <4>2. s \in S
        <5>1. e <= s.end
          BY <2>6, <2>8, <4>1
        <5> QED BY <2>6, <3>3, <5>1 DEF EndsFrom
      <4> QED BY <1>3, <2>10, <3>3, <4>2 DEF RedisSumsIn
    <3> QED BY <3>1, <3>2, <3>3 DEF WaitsOn
  <2> QED BY <1>1, <1>2, <1>3, <2>5, <2>13, <2>14, <2>15, <2>16, StoresMove DEF u
<1> QED BY <1>6, <1>7

(* A turn is said, under the number that is next, in the game of the turn  *)
(* before it, in a game of its own, or in none.                            *)
LastKnown(rid) == rid = None \/ (said # <<>> /\ rid = said[Len(said)])
FreeTurn(m, r) ==
  /\ NewTurn(m, Len(said) + 1, r) /\ r.ids = {Len(said) + 1} /\ r.rid \in CtxRids
  /\ said' = Append(said, r.rid) /\ (LastKnown(r.rid) \/ r.rid \notin ToSet(said))

LEMMA PushIs ==
  ASSUME CtxTyped, NEW m \in Managers, NEW n, n = Len(said) + 1, Len(said) < TurnCount,
         NEW u \in Nat, NEW history \in Seq(CtxRecords(u)), LastKnown(LastRid(history)), Push(m, n, history)
  PROVE \E r : FreeTurn(m, r)
<1>1. PICK rid \in Rids(history) : LET r == [turn |-> n, ids |-> {Len(said) + 1}, rid |-> rid] IN
        /\ said' = Append(said, rid)
        /\ mgr' = [mgr EXCEPT ![m].turns = Append(@, r), ![m].add = "no", ![m].n = 0]
        /\ redisTasks' = Append(redisTasks, <<[put |-> "turn", what |-> r]>>)
        /\ pgTasks' = Append(pgTasks, <<[put |-> "turn", what |-> r]>>)
  BY DEF Push
<1> DEFINE r == [turn |-> n, ids |-> {Len(said) + 1}, rid |-> rid]
<1>2. rid \in CtxRids
  BY <1>1, LastTurnIn DEF Rids, CtxRids
<1>3. said \in Seq(CtxRids) /\ Len(said) \in Nat /\ said' = Append(said, rid)
  BY <1>1 DEF CtxTyped
<1>4. said' \in Seq(CtxRids) /\ Len(said') = Len(said) + 1 /\ Len(said') <= TurnCount
  BY <1>2, <1>3, CtxBounds
<1>5. r \in CtxReal(Len(said) + 1) /\ r.turn = n /\ r.ids = {Len(said) + 1} /\ r.rid = rid
  BY <1>2, <1>3 DEF CtxReal
<1>6. MgrSet(m, [mgr[m] EXCEPT !.turns = Append(@, r), !.add = "no", !.n = 0])
  <2>1. mgr \in [Managers -> CtxMgr(Len(said))]
    BY DEF CtxTyped
  <2>2. mgr[m] \in CtxMgr(Len(said))
    BY <2>1
  <2> HIDE DEF r
  <2> QED BY <1>1, <2>1, <2>2 DEF MgrSet, CtxMgr, r
<1>7. NewTurn(m, Len(said) + 1, r)
  BY <1>1, <1>4, <1>5, <1>6 DEF NewTurn
<1>8. LastKnown(rid) \/ rid \notin ToSet(said)
  BY <1>1 DEF Rids, LastKnown
<1> HIDE DEF r
<1> QED BY <1>2, <1>3, <1>5, <1>7, <1>8 DEF FreeTurn

LEMMA PushFree ==
  ASSUME OneAtATime, CtxTyped, CtxTyped', FreeOk, NEW m \in Managers, mgr[m].open, NEW r, FreeTurn(m, r),
         mgr[m].loaded, mgr[m].load = "no", Len(Real(mgr[m].turns)) < Window,
         UNCHANGED <<jobs, redis, pg, outage>>
  PROVE FreeOk'
<1>1. PICK u : u = Len(said)
  OBVIOUS
<1>2. PICK v : v = u + 1
  OBVIOUS
<1>3. PICK h : h = said
  OBVIOUS
<1>4. PICK g : g = said'
  OBVIOUS
<1>5. PICK x : x = mgr[m]
  OBVIOUS
<1>6. PICK y : y = [x EXCEPT !.turns = Append(@, r), !.add = "no", !.n = 0]
  OBVIOUS
<1>7. PICK w : w = [put |-> "turn", what |-> r]
  OBVIOUS
<1>8. PICK f \in 0..u : FreeAt(f)
  BY <1>1 DEF FreeOk
<1>9. u \in Nat /\ v \in Nat /\ f \in Nat /\ f <= u /\ u <= v /\ FreeBase /\ FreeStores(f)
  BY <1>1, <1>2, <1>8 DEF CtxTyped, FreeOk, FreeAt
<1>10. /\ r \in CtxReal(v) /\ r.turn = v /\ r.ids = {v} /\ r.rid \in CtxRids /\ g = Append(h, r.rid) /\ MgrSet(m, y)
       /\ redisTasks' = Append(redisTasks, <<w>>) /\ pgTasks' = Append(pgTasks, <<w>>)
  BY <1>1, <1>2, <1>3, <1>4, <1>5, <1>6, <1>7 DEF FreeTurn, NewTurn
<1>11. /\ h \in Seq(CtxRids) /\ g \in Seq(CtxRids) /\ Len(h) = u /\ Len(g) = v /\ g[v] = r.rid /\ OneMoreSaid(h, g)
  BY <1>1, <1>2, <1>3, <1>10 DEF CtxTyped, OneMoreSaid
<1>12. /\ \A e \in Nat : e <= u => FreeOf(g, e) = FreeOf(h, e)
       /\ CtxOwned(h) \subseteq CtxOwned(g) /\ CtxSound(h) \subseteq CtxSound(g)
       /\ \A X : OwnTurns(X, h) => OwnTurns(X, g)
  BY <1>11, SaidGrows
<1>13. x \in CtxMgr(u) /\ x.turns \in Seq(CtxRecords(u)) /\ mgr \in [Managers -> CtxMgr(u)]
  BY <1>1, <1>5, MgrIn DEF CtxTyped
<1>14. /\ FreeHeld(x, f) /\ \A o \in Managers : mgr[o].open => o = m
       /\ OwnTurns(ToSet(x.turns), h)
       /\ \A S : AllSumsIn(S) => x.sums \in S /\ x.data \in S
  BY <1>3, <1>5, <1>8, <1>9, AtWork
<1>15. /\ y.turns = Append(x.turns, r) /\ y.add = "no" /\ y.open /\ y.loaded /\ y.load = "no"
       /\ y.sums = x.sums /\ y.data = x.data
  BY <1>5, <1>6, <1>13 DEF CtxMgr
<1>16. y \in CtxMgr(v)
  <2>1. x \in CtxMgr(v) /\ x.turns \in Seq(CtxRecords(v)) /\ r \in CtxRecords(v)
    BY <1>9, <1>10, <1>13, CtxGrows DEF CtxMgr
  <2>2. Append(x.turns, r) \in Seq(CtxRecords(v))
    BY <2>1
  <2>3. 0 \in 0..v
    BY <1>9
  <2> QED BY <1>6, <2>1, <2>2, <2>3 DEF CtxMgr
<1>17. mgr'[m] = y /\ \A o \in Managers : o # m => mgr'[o] = mgr[o]
  BY <1>9, <1>10, <1>13, <1>16, MgrStays
<1>18. /\ redisTasks \in Seq(CtxTask(v)) /\ pgTasks \in Seq(CtxTask(v)) /\ pg.rows \subseteq CtxReal(v)
       /\ pg.sums \subseteq CtxSums(v) /\ redis.turns \in Seq(CtxReal(u))
  <2>1. CtxTask(u) \subseteq CtxTask(v) /\ CtxReal(u) \subseteq CtxReal(v) /\ CtxSums(u) \subseteq CtxSums(v)
    BY <1>9, CtxGrows
  <2>2. redisTasks \in Seq(CtxTask(u)) /\ pgTasks \in Seq(CtxTask(u)) /\ pg.rows \subseteq CtxReal(u)
        /\ pg.sums \subseteq CtxSums(u) /\ redis.turns \in Seq(CtxReal(u))
    BY <1>1 DEF CtxTyped
  <2> QED BY <2>1, <2>2, SeqMonotonic
<1>19. w \in CtxWrites(v) /\ <<w>> \in CtxTask(v) /\ w.put = "turn" /\ w.what = r
  <2>1. w \in CtxWrites(v)
    BY <1>7, <1>10 DEF CtxWrites
  <2> QED BY <1>7, <2>1 DEF CtxTask
<1>20. r \in CtxOwned(g)
  BY <1>10, <1>11 DEF CtxOwned
<1>21. /\ \A W : PutsTurns(redisTasks, W) /\ r \in W => PutsTurns(redisTasks', W)
       /\ \A W : PutsTurns(pgTasks, W) /\ r \in W => PutsTurns(pgTasks', W)
       /\ \A S : PutsSums(redisTasks, S) => PutsSums(redisTasks', S)
       /\ \A S : PutsSums(pgTasks, S) => PutsSums(pgTasks', S)
  <2>1. \A k \in 1..Len(<<w>>) : <<w>>[k] = w
    OBVIOUS
  <2>2. PICK T : T = <<w>>
    OBVIOUS
  <2>3. T \in CtxTask(v) /\ \A k \in 1..Len(T) : T[k].put = "turn" /\ T[k].what = r
    BY <1>19, <2>1, <2>2
  <2>4. ASSUME NEW tasks \in Seq(CtxTask(v)), NEW more, more = Append(tasks, T)
        PROVE /\ \A W : PutsTurns(tasks, W) /\ r \in W => PutsTurns(more, W)
              /\ \A S : PutsSums(tasks, S) => PutsSums(more, S)
    <3>1. /\ \A W : PutsTurns(tasks, W) /\ (\A k \in 1..Len(T) : T[k].put = "turn" => T[k].what \in W)
             => PutsTurns(more, W)
          /\ \A S : PutsSums(tasks, S) /\ (\A k \in 1..Len(T) : T[k].put = "summary" => T[k].what \in S)
             => PutsSums(more, S)
      BY <1>9, <2>3, <2>4, PutsMore
    <3> QED BY <2>3, <3>1
  <2> QED BY <1>10, <1>18, <2>2, <2>4
<1>22. ASSUME NEW S, AllSumsIn(S) PROVE AllSumsIn(S)'
  <2>1. \A o \in Managers : mgr'[o].sums \in S /\ mgr'[o].data \in S
    BY <1>14, <1>15, <1>17, <1>22 DEF AllSumsIn
  <2> QED BY <1>21, <1>22, <2>1 DEF AllSumsIn, RedisSumsIn
<1>23. AllSumsIn(CtxSound(said))'
  <2>1. PICK V : V = CtxSound(g)
    OBVIOUS
  <2>2. AllSumsIn(CtxSound(h))
    BY <1>3, <1>9 DEF FreeBase
  <2>3. AllSumsIn(V)
    BY <1>12, <2>1, <2>2, SumsWider
  <2>4. AllSumsIn(V)'
    BY <1>22, <2>3
  <2>5. CtxSound(said)' = V
    BY <1>4, <2>1 DEF CtxSound, FreeOf
  <2> QED BY <2>4, <2>5 DEF AllSumsIn, RedisSumsIn
<1>24. RecordsOwn'
  <2>1. PICK W : W = CtxOwned(g)
    OBVIOUS
  <2>2. PICK V : V = CtxOwned(h)
    OBVIOUS
  <2>3. /\ OwnTurns(ToSet(redis.turns), h) /\ pg.rows \subseteq V
        /\ PutsTurns(redisTasks, V) /\ PutsTurns(pgTasks, V)
        /\ \A o \in Managers : OwnTurns(ToSet(mgr[o].turns), h)
        /\ \A job \in jobs : OwnTurns(ToSet(job.records), h)
    BY <1>3, <1>9, <2>2 DEF FreeBase, RecordsOwn
  <2>4. PutsTurns(redisTasks, W) /\ PutsTurns(pgTasks, W) /\ r \in W
    BY <1>12, <1>20, <2>1, <2>2, <2>3, PutsWider
  <2>5. PutsTurns(redisTasks', W) /\ PutsTurns(pgTasks', W)
    BY <1>21, <2>4
  <2>6. OwnTurns(ToSet(y.turns), g)
    <3>1. OwnTurns(ToSet(x.turns), g)
      BY <1>12, <1>14
    <3>2. \A z : z \in ToSet(Append(x.turns, r)) <=> z \in ToSet(x.turns) \/ z = r
      <4>1. x.turns \in Seq(CtxRecords(v)) /\ r \in CtxRecords(v)
        BY <1>9, <1>10, <1>13, CtxGrows DEF CtxMgr
      <4> QED BY <4>1, AppendHas
    <3> QED BY <1>15, <1>20, <3>1, <3>2 DEF OwnTurns
  <2>7. \A o \in Managers : OwnTurns(ToSet(mgr'[o].turns), g)
    BY <1>12, <1>17, <2>3, <2>6
  <2>8. \A job \in jobs' : OwnTurns(ToSet(job.records), g)
    BY <1>12, <2>3
  <2>9. OwnTurns(ToSet(redis.turns), g) /\ pg.rows \subseteq W
    BY <1>12, <2>1, <2>2, <2>3
  <2>10. CtxOwned(said)' = W
    BY <1>4, <2>1 DEF CtxOwned
  <2> QED BY <1>4, <2>1, <2>5, <2>7, <2>8, <2>9, <2>10 DEF RecordsOwn, OwnTurns
<1>25. Together(g)
  <2>1. Together(h)
    BY <1>3, <1>9 DEF FreeBase
  <2>2. g[Len(g)] = None \/ g[Len(g)] \notin ToSet(h) \/ (h # <<>> /\ g[Len(g)] = h[Len(h)])
    BY <1>3, <1>11 DEF FreeTurn, LastKnown
  <2> QED BY <1>11, <2>1, <2>2, GamesTogether
<1>26. ASSUME NEW job \in jobs, Real(job.records) # <<>> PROVE Last(Real(job.records)).turn \in 1..u
  <2>1. job.records \in Seq(CtxRecords(u))
    BY <1>1, <1>26 DEF CtxTyped, CtxJob
  <2>2. Last(Real(job.records)) \in CtxReal(u)
    BY <1>9, <1>26, <2>1, AfterIn DEF Last
  <2> QED BY <2>2 DEF CtxReal
<1>27. ASSUME NEW job \in jobs PROVE JobTells(job, g)
  <2> DEFINE L == Last(Real(job.records)).turn
             X == ToSet(job.records)
  <2> SUFFICES ASSUME Real(job.records) # <<>>
               PROVE /\ \E e \in 0..L : TellsFree(X, job.l3, g, e) /\ HasTurns(X, e, L)
                     /\ \A q \in X : q.turn <= L
    BY DEF JobTells
  <2>1. L \in 1..u
    BY <1>26
  <2>2. JobTells(job, h)
    BY <1>3, <1>9 DEF FreeBase
  <2>3. (\E e \in 0..L : TellsFree(X, job.l3, h, e) /\ HasTurns(X, e, L)) /\ \A q \in X : q.turn <= L
    BY <2>2 DEF JobTells
  <2> HIDE DEF L, X
  <2>4. PICK e \in 0..L : TellsFree(X, job.l3, h, e) /\ HasTurns(X, e, L)
    BY <2>3
  <2>5. FreeOf(g, e) = FreeOf(h, e)
    BY <1>9, <1>12, <2>1, <2>4
  <2>6. TellsFree(X, job.l3, g, e)
    BY <2>4, <2>5 DEF TellsFree
  <2> QED BY <2>3, <2>4, <2>6
<1>28. FreeBase'
  <2>1. jobs' = {} \/ \E job \in jobs' : jobs' = {job}
    BY <1>9 DEF FreeBase
  <2>2. \A o, p \in Managers : mgr'[o].open /\ mgr'[p].open => o = p
    BY <1>14, <1>17
  <2>3. \A o \in Managers : ~mgr'[o].open => mgr'[o] = Closed
    BY <1>9, <1>15, <1>17 DEF FreeBase
  <2> QED BY <1>4, <1>23, <1>24, <1>25, <1>27, <2>1, <2>2, <2>3 DEF FreeBase
<1>29. ASSUME NEW job \in jobs' PROVE JobLate(job, f)'
  <2> DEFINE L == Last(Real(job.records)).turn
  <2> SUFFICES ASSUME Real(job.records) # <<>> PROVE f <= L /\ AllSumsIn(EndsTo(L))'
    BY DEF JobLate
  <2>1. f <= L /\ AllSumsIn(EndsTo(L))
    BY <1>8, <1>29 DEF FreeAt, JobLate
  <2>2. PICK S : S = EndsTo(L)
    OBVIOUS
  <2>3. AllSumsIn(S)'
    BY <1>22, <2>1, <2>2
  <2> QED BY <2>1, <2>2, <2>3
<1>30. TellsFree(ToSet(x.turns), x.sums.l3, h, f) /\ HasTurns(ToSet(x.turns), f, u)
       /\ (x.sums.l3 = {} \/ FreeOf(h, f) \subseteq x.sums.l3 \/ x.turns = <<>>)
  BY <1>1, <1>3, <1>5, <1>14 DEF FreeHeld
<1>31. FreeOf(g, f) = FreeOf(h, f)
  BY <1>9, <1>12
<1>31a. Real(y.turns) = Append(Real(x.turns), r) /\ Real(x.turns) \in Seq(CtxReal(v)) /\ x.turns \in Seq(CtxRecords(v))
       /\ r \in CtxRecords(v)
  <2>1. x.turns \in Seq(CtxRecords(v)) /\ r \in CtxRecords(v)
    BY <1>9, <1>10, <1>13, CtxGrows DEF CtxMgr
  <2>2. Real(Append(x.turns, r)) = Append(Real(x.turns), r)
    BY ONLY <1>9, <1>10, <2>1, RealAppend
  <2>3. Real(x.turns) \in Seq(CtxReal(v))
    BY ONLY <1>9, <2>1, AfterIn, 0 \in Nat
  <2> QED BY <1>15, <2>1, <2>2, <2>3
<1>32. FreeHeld(y, f)' /\ y.turns # <<>> /\ Real(y.turns) # <<>>
  <2>1. Len(Real(y.turns)) <= Window /\ Real(y.turns) # <<>> /\ Last(Real(y.turns)) = r
    <3>1. Len(Real(x.turns)) < Window /\ Window \in Nat
      BY <1>5, CtxBounds
    <3>2. PICK R : R = Real(x.turns)
      OBVIOUS
    <3>3. Len(Append(R, r)) <= Window /\ Append(R, r) # <<>> /\ Last(Append(R, r)) = r
      <4>1. R \in Seq(CtxReal(v)) /\ Len(R) < Window /\ Len(R) \in Nat
        BY <1>31a, <3>1, <3>2
      <4>2. Len(Append(R, r)) = Len(R) + 1 /\ Append(R, r)[Len(R) + 1] = r /\ Append(R, r) # <<>>
        BY <1>10, <4>1
      <4> QED BY <3>1, <4>1, <4>2 DEF Last
    <3> QED BY <1>31a, <3>2, <3>3
  <2>2. y.turns # <<>> /\ Last(y.turns) = r
    <3>1. PICK R : R = x.turns
      OBVIOUS
    <3>2. Append(R, r) # <<>> /\ Last(Append(R, r)) = r
      BY <1>31a, <3>1 DEF Last
    <3> QED BY <1>15, <3>1, <3>2
  <2>3. \A z : z \in ToSet(y.turns) <=> z \in ToSet(x.turns) \/ z = r
    BY <1>15, <1>31a, AppendHas
  <2>4. TellsFree(ToSet(y.turns), y.sums.l3, g, f)
    <3>1. PICK X : X = ToSet(x.turns)
      OBVIOUS
    <3>2. PICK Y : Y = ToSet(y.turns)
      OBVIOUS
    <3>3. PICK F : F = FreeOf(g, f)
      OBVIOUS
    <3>4. (\A z : z \in Y <=> z \in X \/ z = r) /\ r.turn # -2
      BY <1>9, <1>10, <2>3, <3>1, <3>2
    <3>5. (\A q \in X : q.turn = -2 => F \subseteq q.ids) /\ (F \subseteq x.sums.l3 \/ \E q \in X : q.turn = -2)
      BY <1>30, <1>31, <3>1, <3>3 DEF TellsFree
    <3>6. (\A q \in Y : q.turn = -2 => F \subseteq q.ids) /\ (F \subseteq y.sums.l3 \/ \E q \in Y : q.turn = -2)
      BY <1>15, <3>4, <3>5
    <3> QED BY <3>2, <3>3, <3>6 DEF TellsFree
  <2>5. HasTurns(ToSet(y.turns), f, v)
    <3> SUFFICES ASSUME NEW n \in Nat, f < n, n <= v PROVE \E q \in ToSet(y.turns) : q.turn = n
      BY DEF HasTurns
    <3>1. CASE n = v
      BY <1>10, <2>3, <3>1
    <3>2. CASE n # v
      <4>1. n <= u
        BY <1>2, <1>9, <3>2
      <4>2. PICK q \in ToSet(x.turns) : q.turn = n
        BY <1>30, <4>1 DEF HasTurns
      <4> QED BY <2>3, <4>2
    <3> QED BY <3>1, <3>2
  <2>6. y.sums.l3 = {} \/ FreeOf(g, f) \subseteq y.sums.l3
    <3>1. CASE x.turns = <<>>
      <4>1. ToSet(x.turns) = {}
        BY <3>1, DueNothing
      <4> QED BY <1>15, <1>30, <1>31, <4>1 DEF TellsFree
    <3>2. CASE x.turns # <<>>
      BY <1>15, <1>30, <1>31, <3>2
    <3> QED BY <3>1, <3>2
  <2>7. Len(said)' = v /\ said' = g
    BY <1>4, <1>11
  <2>8. FreeHeld(y, f)'
    BY <1>10, <1>15, <2>1, <2>2, <2>4, <2>5, <2>6, <2>7 DEF FreeHeld
  <2> QED BY <2>1, <2>2, <2>8
<1>34. (\A o \in Managers : mgr[o].open => FreeHeld(mgr[o], f) /\ FreeWaits(mgr[o], f))'
  <2> SUFFICES ASSUME NEW o \in Managers, mgr'[o].open PROVE FreeHeld(mgr[o], f)' /\ FreeWaits(mgr[o], f)'
    OBVIOUS
  <2>1. mgr'[o] = y
    BY <1>14, <1>17
  <2>2. FreeHeld(mgr[o], f)'
    BY <1>32, <2>1 DEF FreeHeld
  <2>3. FreeWaits(mgr[o], f)'
    BY <1>32, <2>1 DEF FreeWaits
  <2> QED BY <2>2, <2>3
<1>35. FreeStores(f)'
  <2>1. PICK S : S = EndsFrom(f)
    OBVIOUS
  <2>2. Up("redis") => RedisSumsIn(S)'
    BY <1>9, <1>21, <2>1 DEF FreeStores, RedisSumsIn
  <2>3. u - f < Window
    <3>1. PICK R : R = Real(x.turns)
      OBVIOUS
    <3>2. R \in Seq(CtxReal(u)) /\ Len(R) < Window /\ Window \in Nat
      BY <1>5, <1>9, <1>13, <3>1, AfterIn, CtxBounds
    <3>3. HasTurns(ToSet(R), f, u)
      <4>1. \A z : z \in ToSet(R) <=> z \in ToSet(x.turns) /\ z.turn > 0
        BY <1>13, <3>1, AfterHas DEF Real
      <4> SUFFICES ASSUME NEW n \in Nat, f < n, n <= u PROVE \E q \in ToSet(R) : q.turn = n
        BY DEF HasTurns
      <4>2. PICK q \in ToSet(x.turns) : q.turn = n
        BY <1>30 DEF HasTurns
      <4>3. q.turn > 0
        BY <1>9, <4>2
      <4> QED BY <4>1, <4>2, <4>3
    <3>4. u - f <= Len(R)
      BY <1>9, <3>2, <3>3, SpanFits
    <3> QED BY <1>9, <3>2, <3>4
  <2>4. v - f <= Window
    BY <1>2, <1>9, <2>3, CtxBounds
  <2> DEFINE rt == redisTasks'
             D == CtxDue(redisTasks)
  <2>5. \A d \in D : d < r.turn
    <3> SUFFICES ASSUME NEW d \in D PROVE d < v
      BY <1>10
    <3>1. PICK i \in Nat, k \in Nat : CtxTurnAt(redisTasks, i, k) /\ redisTasks[i][k].what.turn = d
      BY DEF CtxDue
    <3>2. redisTasks \in Seq(CtxTask(u))
      BY <1>1 DEF CtxTyped
    <3>3. redisTasks[i][k].what.turn \in 1..u
      BY <1>9, <3>1, <3>2, DueIs DEF CtxTurnAt
    <3> QED BY <1>2, <1>9, <3>1, <3>3
  <2> HIDE DEF rt
  <2>6. CtxDue(rt) = D \cup {v} /\ CtxAscends(rt)
    <3>1. rt = Append(redisTasks, <<[put |-> "turn", what |-> r]>>)
      BY <1>7, <1>10 DEF rt
    <3>2. CtxAscends(redisTasks)
      BY <1>9 DEF FreeStores
    <3>3. redisTasks \in Seq(CtxTask(v)) /\ r \in CtxReal(v) /\ r.turn = v /\ v \in Nat
      BY <1>9, <1>10, <1>18
    <3>4. /\ CtxDue(rt) = CtxDue(redisTasks) \cup {r.turn}
          /\ CtxAscends(redisTasks) /\ (\A d \in CtxDue(redisTasks) : d < r.turn) => CtxAscends(rt)
      BY ONLY <3>1, <3>3, DueOne
    <3> QED BY ONLY <2>5, <3>2, <3>3, <3>4
  <2>7. CtxDue(redisTasks)' = CtxDue(rt) /\ CtxAscends(redisTasks)' = CtxAscends(rt)
    BY DEF rt, CtxDue, CtxAscends, CtxTurnAt, CtxAt
  <2> HIDE DEF D
  <2>8. ASSUME NEW t, RedisKeeps(t, D, u, f) PROVE RedisKeeps(t, D \cup {v}, v, f)
    <3>1. PICK q \in f..u : /\ D = (q + 1)..u /\ q - f <= Len(t)
                            /\ \A n \in (f + 1)..q : t[Len(t) - (q - n)].turn = n
      BY <2>8 DEF RedisKeeps
    <3>2. D \cup {v} = (q + 1)..v /\ q \in f..v
      BY <1>2, <1>9, <3>1
    <3>3. D \cup {v} # {} /\ Len(t) <= Window
      BY <2>8 DEF RedisKeeps
    <3> QED BY <3>1, <3>2, <3>3 DEF RedisKeeps
  <2>9. Up("redis") => RedisKeeps(redis.turns, CtxDue(redisTasks), Len(said), f)'
    <3>1. PICK t : t = redis.turns
      OBVIOUS
    <3>2. PICK E : E = D \cup {v}
      OBVIOUS
    <3>3. Up("redis") => RedisKeeps(t, E, v, f)
      BY <1>1, <1>9, <2>8, <3>1, <3>2 DEF FreeStores, D
    <3>4. (redis.turns)' = t /\ CtxDue(redisTasks)' = E /\ Len(said)' = v
      BY <1>4, <1>11, <2>6, <2>7, <3>1, <3>2
    <3> QED BY <3>3, <3>4 DEF RedisKeeps
  <2>10. Up("pg") => CtxN' = 1..v
    <3>1. PICK rows : rows = pg.rows
      OBVIOUS
    <3>2. PICK sums : sums = pg.sums
      OBVIOUS
    <3>3. PICK more : more = pgTasks'
      OBVIOUS
    <3>4. PICK l : l = Len(pgTasks)
      OBVIOUS
    <3>5. PgTyped(v, rows, sums, pgTasks)
      BY <1>9, <1>18, <3>1, <3>2 DEF PgTyped
    <3>6. OneMore(v, rows, sums, pgTasks, w, more, l)
      BY <1>10, <1>19, <3>3, <3>4, <3>5, AppendsTask
    <3>7. Len(more) = l + 1 /\ NumsAt(rows, more, l + 1) = NumsAt(rows, pgTasks, l) \cup {v}
      BY <1>10, <1>19, <3>6 DEF OneMore
    <3>8. CtxN' = NumsAt(rows, more, Len(more)) /\ CtxN = NumsAt(rows, pgTasks, l)
      BY <3>1, <3>3, <3>4 DEF CtxN, NumsAt
    <3>9. Up("pg") => CtxN = 1..u
      BY <1>1, <1>9 DEF FreeStores
    <3>10. (1..u) \cup {v} = 1..v
      BY <1>2, <1>9
    <3> QED BY <3>7, <3>8, <3>9, <3>10
  <2>11. Up("redis")' = Up("redis") /\ Up("pg")' = Up("pg") /\ EndsFrom(f)' = S /\ Len(said)' = v
    BY <1>4, <1>11, <2>1 DEF Up, EndsFrom
  <2> QED BY <2>2, <2>4, <2>6, <2>7, <2>9, <2>10, <2>11 DEF FreeStores, RedisSumsIn
<1>36. FreeAt(f)'
  BY <1>29, <1>34, <1>35 DEF FreeAt
<1>37. f \in 0..Len(said')
  BY <1>4, <1>9, <1>11
<1> QED BY <1>28, <1>36, <1>37 DEF FreeOk

LEMMA AddFree ==
  ASSUME OneAtATime, CtxTyped, CtxTyped', FreeOk, NEW m \in Managers,
         (AddTurn(m) /\ LastTurn(mgr[m].turns) > 0) \/ AddCold(m)
  PROVE FreeOk'
<1> DEFINE u == Len(said)
           x == mgr[m]
<1>1. PICK f \in 0..u : FreeAt(f)
  BY DEF FreeOk
<1>2. FreeBase /\ Calm /\ u \in Nat /\ FreeStores(f) /\ Window >= 1 /\ Window \in Nat /\ f \in Nat
  BY <1>1, CtxBounds DEF FreeOk, FreeAt, OneAtATime, CtxTyped
<1>3. x.open
  BY <1>2 DEF AddTurn, MayAdd, AddCold, FreeBase, Closed
<1>4. FreeHeld(x, f) /\ FreeWaits(x, f) /\ OwnTurns(ToSet(x.turns), said)
  BY <1>1, <1>2, <1>3, AtWork
<1>5. x.turns \in Seq(CtxRecords(u)) /\ Real(x.turns) \in Seq(CtxReal(u)) /\ (LastTurn(x.turns) > 0 <=> Real(x.turns) # <<>>)
  BY <1>2, MgrIn, AfterIn, LastTurnIn
<1>6. x.loaded /\ x.load = "no" /\ Len(Real(x.turns)) < Window /\ Len(said) < TurnCount
      /\ UNCHANGED <<jobs, redis, pg, outage>>
  <2>1. CASE AddTurn(m)
    <3>1. Len(Real(x.turns)) < MemoryTurns
      BY <2>1 DEF AddTurn, MayAdd
    <3>2. Len(Real(x.turns)) < Window
      BY <1>5, <3>1, CtxBounds DEF OneAtATime
    <3> QED BY <1>2, <2>1, <3>2 DEF AddTurn, MayAdd
  <2>2. CASE AddCold(m)
    <3>1. x.loaded /\ x.load = "no" /\ Real(x.turns) = <<>> /\ Len(said) < TurnCount
          /\ UNCHANGED <<jobs, redis, pg, outage>>
      BY <1>4, <2>2 DEF AddCold, FreeHeld
    <3> QED BY <1>2, <3>1
  <2> QED BY <2>1, <2>2
<1>7. \E r : FreeTurn(m, r)
  <2>1. CASE AddTurn(m) /\ LastTurn(x.turns) > 0
    <3>1. Real(x.turns) # <<>>
      BY <1>5, <2>1
    <3>2. Last(Real(x.turns)).turn = u /\ Last(x.turns) = Last(Real(x.turns)) /\ LastTurn(x.turns) = u
      BY <1>4, <3>1 DEF FreeHeld, LastTurn
    <3>3. Last(Real(x.turns)) \in ToSet(x.turns) /\ Last(Real(x.turns)).turn > 0
      <4>1. Last(Real(x.turns)) \in ToSet(Real(x.turns))
        <5>1. PICK R : R = Real(x.turns)
          OBVIOUS
        <5>2. Len(R) \in 1..Len(R)
          BY <1>5, <3>1, <5>1
        <5> QED BY <1>5, <5>1, <5>2 DEF Last, ToSet
      <4> QED BY <1>5, <4>1, AfterHas DEF Real
    <3>4. Last(x.turns).rid = said[u] /\ u > 0
      BY <1>4, <3>2, <3>3 DEF OwnTurns, CtxOwned
    <3>5. x.turns # <<>>
      BY <3>1, NoneReal
    <3>6. LastKnown(LastRid(x.turns))
      BY <1>2, <3>4, <3>5 DEF LastRid, LastKnown
    <3>7. Push(m, u + 1, x.turns)
      BY <2>1, <3>2 DEF AddTurn
    <3> QED BY <1>2, <1>5, <1>6, <3>6, <3>7, PushIs
  <2>2. CASE AddCold(m)
    <3>1. x.n = u /\ Real(x.turns) = <<>> /\ CtxDue(redisTasks) = {}
      BY <1>4, <2>2 DEF AddCold, FreeHeld, FreeWaits, CtxIdle
    <3>2. PICK history : history = IF x.turns = <<>> THEN RedisTurns ELSE x.turns
      OBVIOUS
    <3>3. history \in Seq(CtxRecords(u))
      BY <1>5, <3>2, RedisFacts
    <3>4. Push(m, u + 1, history)
      BY <2>2, <3>1, <3>2 DEF AddCold
    <3>5. LastKnown(LastRid(history))
      <4>1. CASE x.turns # <<>>
        BY <1>4, <3>1, <3>2, <4>1 DEF FreeHeld, LastKnown
      <4>2. CASE x.turns = <<>> /\ RedisTurns = <<>>
        BY <3>2, <4>2 DEF LastRid, LastKnown
      <4>3. CASE x.turns = <<>> /\ RedisTurns # <<>>
        <5>1. Up("redis")
          BY <4>3 DEF RedisTurns
        <5>2. Last(RedisTurns).turn = u /\ Last(RedisTurns) \in ToSet(redis.turns)
          BY <1>2, <3>1, <4>3, <5>1, RedisLast
        <5>3. u > 0
          BY <1>2, <3>1, <4>3, <5>1, RedisLast
        <5>4. Last(RedisTurns).rid = said[u]
          BY <1>2, <5>2, <5>3 DEF FreeBase, RecordsOwn, OwnTurns, CtxOwned
        <5> QED BY <3>2, <4>3, <5>3, <5>4 DEF LastRid, LastKnown
      <4> QED BY <4>1, <4>2, <4>3
    <3> QED BY <1>2, <1>6, <3>3, <3>4, <3>5, PushIs
  <2> QED BY <2>1, <2>2
<1>8. PICK r : FreeTurn(m, r)
  BY <1>7
<1> QED BY <1>3, <1>6, <1>8, PushFree

-----------------------------------------------------------------------------
(* Free chat is kept.                                                      *)
FreeInvariant == CtxInvariant /\ outage \in Outages /\ ("week" \notin outage => FreeOk)

LEMMA FreeBegins == ContextInit => FreeInvariant
<1> SUFFICES ASSUME ContextInit PROVE FreeInvariant
  OBVIOUS
<1>1. CtxInvariant /\ CtxTyped
  BY CtxBegins DEF CtxInvariant
<1>2. /\ mgr = [m \in Managers |-> Closed] /\ redis = [turns |-> <<>>, sum |-> NoSummary]
      /\ redisTasks = <<>> /\ pgTasks = <<>> /\ pg = [rows |-> {}, sums |-> {}]
      /\ said = <<>> /\ jobs = {} /\ outage \in Outages
  BY DEF ContextInit
<1>3. pg.rows = {} /\ pg.sums = {} /\ redis.turns = <<>> /\ redis.sum = NoSummary /\ Len(said) = 0
      /\ Len(redisTasks) = 0 /\ Len(pgTasks) = 0
  BY <1>2
<1>4. ~Closed.open /\ Closed.turns = <<>> /\ Closed.sums = NoSummary /\ Closed.data = NoSummary
  BY DEF Closed
<1>5. NoSummary \in CtxSound(said) /\ NoSummary \in EndsFrom(0)
  <2>1. NoSummary \in CtxSound(said) /\ NoSummary \in EndsTo(0)
    BY <1>1, SoundEnds
  <2>2. NoSummary.end = 0
    BY DEF NoSummary
  <2> QED BY <2>1, <2>2 DEF EndsTo, EndsFrom
<1>6. \A m \in Managers : mgr[m] = Closed
  BY <1>2
<1> HIDE DEF NoSummary, Closed
<1>7. RecordsOwn
  <2>1. \A h : OwnTurns(ToSet(<<>>), h)
    BY DueNothing DEF OwnTurns
  <2>2. \A W : PutsTurns(redisTasks, W) /\ PutsTurns(pgTasks, W)
    BY <1>3 DEF PutsTurns
  <2> QED BY <1>2, <1>3, <1>4, <1>6, <2>1, <2>2 DEF RecordsOwn
<1>8. \A S : PutsSums(redisTasks, S) /\ PutsSums(pgTasks, S)
  BY <1>3 DEF PutsSums
<1>9. AllSumsIn(CtxSound(said))
  BY <1>3, <1>4, <1>5, <1>6, <1>8 DEF AllSumsIn, RedisSumsIn
<1>10. Together(said)
  BY <1>3 DEF Together
<1>11. FreeBase
  BY <1>2, <1>4, <1>6, <1>7, <1>9, <1>10 DEF FreeBase
<1>12. FreeStores(0)
  <2>1. CtxDue(<<>>) = {} /\ CtxAscends(<<>>)
    <3>1. \A i \in Nat, k \in Nat : ~CtxTurnAt(<<>>, i, k)
      BY DEF CtxTurnAt, CtxAt
    <3> QED BY <3>1, DueNothing DEF CtxAscends
  <2>2. CtxN = 1..0
    BY <1>3, CtxKnows, <1>1
  <2>3. RedisKeeps(<<>>, {}, 0, 0)
    <3>1. {} = (0 + 1)..0 /\ 0 \in 0..0 /\ 0 - 0 <= 0
      OBVIOUS
    <3> QED BY <3>1, CtxBounds DEF RedisKeeps
  <2>4. RedisSumsIn(EndsFrom(0))
    BY <1>3, <1>5, <1>8 DEF RedisSumsIn
  <2>5. 0 - 0 <= Window
    BY CtxBounds
  <2> QED BY <1>2, <1>3, <2>1, <2>2, <2>3, <2>4, <2>5 DEF FreeStores
<1>13. FreeAt(0)
  BY <1>2, <1>4, <1>6, <1>12 DEF FreeAt
<1> QED BY <1>1, <1>2, <1>3, <1>11, <1>13 DEF FreeInvariant, FreeOk

LEMMA FreeGoesOn ==
  ASSUME OneAtATime
  PROVE FreeInvariant /\ [ContextNext]_contextVars => FreeInvariant'
<1> SUFFICES ASSUME FreeInvariant, [ContextNext]_contextVars PROVE FreeInvariant'
  OBVIOUS
<1>1. CtxInvariant /\ CtxInvariant' /\ CtxTyped /\ CtxTyped' /\ outage \in Outages
  BY CtxGoesOn DEF FreeInvariant, CtxInvariant, OneAtATime
<1>2. outage' = outage
  BY DEF ContextNext, contextVars, Open, EndSession, AddTurn, AddAsksRedis, AddAsksPg, AddCold,
         LoadWarm, LoadCold, LoadRedis, LoadPg, Compress, RedisWrite, PgWrite, RedisExpires
<1>3. ASSUME "week" \notin outage PROVE FreeOk'
  <2>1. FreeOk
    BY <1>3 DEF FreeInvariant
  <2>2. CASE UNCHANGED contextVars
    <3>1. PICK f \in 0..Len(said) : FreeAt(f)
      BY <2>1 DEF FreeOk
    <3>2. UNCHANGED <<mgr, said, jobs, redisTasks, pgTasks, redis, pg, outage>> /\ StoresAlike
      BY <2>2 DEF contextVars, StoresAlike
    <3>3. FreeBase /\ FreeStores(f)
      BY <2>1, <3>1 DEF FreeOk, FreeAt
    <3>4. FreeStores(f)'
      BY <3>2, <3>3, StoresStayFree
    <3>5. \A S : AllSumsIn(S) => StoreSumsIn(S)'
      BY <3>2 DEF AllSumsIn, StoreSumsIn, RedisSumsIn
    <3>6. \A W : StoreRecords(W) => StoreRecords(W)'
      BY <3>2 DEF StoreRecords
    <3>7. WaitsOn
      BY <3>2 DEF WaitsOn, CtxIdle, RedisQuiet, RedisSumsIn
    <3>8. NoSummary \in CtxSound(said)
      BY <1>1, SoundEnds
    <3> QED BY <1>1, <3>1, <3>2, <3>3, <3>4, <3>5, <3>6, <3>7, <3>8, StoresMove
  <2>3. ASSUME NEW m \in Managers, Open(m) \/ EndSession(m) PROVE FreeOk'
    BY <1>1, <2>1, <2>3, OpenFree
  <2>4. ASSUME NEW m \in Managers, AddTurn(m) \/ AddAsksRedis(m) \/ AddAsksPg(m) \/ AddCold(m) PROVE FreeOk'
    BY <1>1, <2>1, <2>4, AskFree, AddFree
  <2>5. ASSUME NEW m \in Managers, LoadWarm(m) \/ LoadCold(m) \/ LoadRedis(m) \/ LoadPg(m) PROVE FreeOk'
    BY <1>1, <2>1, <2>5, LoadWarmFree, LoadColdFree, LoadRedisFree, LoadPgFree
  <2>6. ASSUME NEW job \in jobs, Compress(job) PROVE FreeOk'
    BY <1>1, <2>1, <2>6, CompressFree
  <2>7. ASSUME NEW i \in DOMAIN redisTasks, RedisWrite(i) PROVE FreeOk'
    BY <1>1, <2>1, <2>7, RedisWriteFree
  <2>8. ASSUME NEW i \in DOMAIN pgTasks, PgWrite(i) PROVE FreeOk'
    BY <1>1, <2>1, <2>8, PgWriteFree
  <2>9. CASE RedisExpires
    BY <1>3, <2>9 DEF RedisExpires
  <2> QED BY <2>2, <2>3, <2>4, <2>5, <2>6, <2>7, <2>8, <2>9 DEF ContextNext
<1> QED BY <1>1, <1>2, <1>3 DEF FreeInvariant

LEMMA FreeMeans == FreeInvariant => FreeChatKept
<1> SUFFICES ASSUME FreeInvariant, "week" \notin outage PROVE FreeChatKept
  BY DEF FreeChatKept, RemembersFreeChat, AnchorKeepsFreeChat
<1>1. CtxTyped /\ FreeOk /\ FreeBase
  BY DEF FreeInvariant, FreeOk, CtxInvariant
<1>2. PICK f \in 0..Len(said) : FreeAt(f)
  BY <1>1 DEF FreeOk
<1>3. Len(said) \in Nat /\ f \in Nat
  BY <1>1, <1>2 DEF CtxTyped
<1>4. ASSUME NEW s \in pg.sums \cup {redis.sum}, NEW r \in pg.rows, r.turn <= s.end, r.rid = None
      PROVE r.ids \subseteq s.l3
  <2>1. s \in CtxSound(said)
    BY <1>1 DEF FreeBase, AllSumsIn, RedisSumsIn
  <2>2. r \in CtxReal(Len(said)) /\ r.ids = {r.turn} /\ said[r.turn] = None
    BY <1>1, <1>4 DEF FreeBase, RecordsOwn, CtxOwned
  <2>3. r.turn \in FreeOf(said, s.end)
    BY <1>4, <2>2 DEF FreeOf, CtxReal
  <2> QED BY <2>1, <2>2, <2>3 DEF CtxSound
<1>5. ASSUME NEW m \in Managers, mgr[m].loaded, NEW i \in DOMAIN said, said[i] = None PROVE i \in Context(m)
  <2>1. PICK x : x = mgr[m]
    OBVIOUS
  <2>2. x.open
    BY <1>1, <1>5, <2>1 DEF FreeBase, Closed
  <2>3. FreeHeld(x, f) /\ OwnTurns(ToSet(x.turns), said)
    BY <1>1, <1>2, <2>1, <2>2, AtWork
  <2>4. x.turns \in Seq(CtxRecords(Len(said)))
    BY <1>1, <2>1, MgrIn
  <2>5. /\ TellsFree(ToSet(x.turns), x.sums.l3, said, f) /\ HasTurns(ToSet(x.turns), f, Len(said))
        /\ Len(Real(x.turns)) <= Window
    BY <1>5, <2>1, <2>3 DEF FreeHeld
  <2>6. PICK hot : hot = Hot(x.turns, Window)
    OBVIOUS
  <2>7. \A r \in ToSet(x.turns) : r.ids \subseteq Ids(hot)
    <3>1. \A r \in ToSet(x.turns) : r \in ToSet(hot)
      BY <1>3, <2>4, <2>5, <2>6, HotHas DEF Alike
    <3>2. \A r \in ToSet(hot) : r.ids \subseteq Ids(hot)
      BY DEF ToSet, Ids
    <3> QED BY <3>1, <3>2
  <2>8. i \in 1..Len(said)
    BY <1>1, <1>5 DEF CtxTyped
  <2>9. CASE i <= f
    <3>1. i \in FreeOf(said, f)
      BY <1>5, <2>8, <2>9 DEF FreeOf
    <3>2. i \in x.sums.l3 \/ \E r \in ToSet(x.turns) : i \in r.ids
      BY <2>5, <3>1 DEF TellsFree
    <3> QED BY <2>1, <2>6, <2>7, <3>2 DEF Context
  <2>10. CASE ~(i <= f)
    <3>1. PICK r \in ToSet(x.turns) : r.turn = i
      BY <1>3, <2>5, <2>8, <2>10 DEF HasTurns
    <3>2. i \in r.ids
      BY <2>3, <2>8, <3>1 DEF OwnTurns, CtxOwned
    <3> QED BY <2>1, <2>6, <2>7, <3>1, <3>2 DEF Context
  <2> QED BY <2>9, <2>10
<1>6. RemembersFreeChat
  BY <1>5 DEF RemembersFreeChat, NothingForgotten, FreeChatUtterances
<1>7. AnchorKeepsFreeChat
  BY <1>4 DEF AnchorKeepsFreeChat
<1> QED BY <1>6, <1>7 DEF FreeChatKept

(* As long as one compression is under way at a time, the model answers    *)
(* and one of the stores is up, nothing that was said outside of games is  *)
(* forgotten while sessions follow each other, the writes of a store land  *)
(* in their order, the process lives (Calm), no session has more turns in  *)
(* its memory than the window, and Redis does not expire: a session that   *)
(* has loaded its context has it among its records or in a summary,        *)
(* wherever it was loaded from, and every summary tells of all before its  *)
(* anchor (assemble, _run_free_chat, _run_roast).  Where a session outgrows*)
(* the window this fails: a second compression of it moves the anchor past *)
(* turns that neither it nor the first one was shown.                      *)
THEOREM FreeChatStays ==
  ASSUME OneAtATime
  PROVE ContextSpec => []FreeChatKept
<1>1. ContextInit => FreeInvariant
  BY FreeBegins
<1>2. FreeInvariant /\ [ContextNext]_contextVars => FreeInvariant'
  BY FreeGoesOn
<1>3. FreeInvariant => FreeChatKept
  BY FreeMeans
<1> QED BY <1>1, <1>2, <1>3, PTL DEF ContextSpec
=============================================================================
