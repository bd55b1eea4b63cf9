----------------------------- MODULE RoastStarts -----------------------------
(***************************************************************************)
(* A roast started from the App: the App's socket handler                  *)
(* (api/modules/ws/router.py) posts it to the agent (pigagent/api/roast.py)*)
(* which gives it to the voice session of the user's device, if one is     *)
(* registered (voice/server.py), and generates the opening for the App if  *)
(* not.  A session (voice/pipecat/session.py, transports.py) is registered *)
(* from the connection of the device to the end of its cleanup; what it is *)
(* given waits in a queue until it is done with what came before, which    *)
(* inject_text (voice/pipecat/tts_bridge.py) plays, cuts short or drops.   *)
(***************************************************************************)
EXTENDS Integers, Sequences

CONSTANTS
  LinkCount,   \* bounds the connections of the user's device
  StartCount   \* bounds the starts

ASSUME StartAssumption == LinkCount \in Nat /\ StartCount \in Nat

VARIABLES
  links,    \* the connections, and the session of each
  current,  \* _connections[client_id]: a connection, or 0
  starts    \* what has become of each start, and what the App was told

startVars == <<links, current, starts>>

-----------------------------------------------------------------------------
Links  == 1..LinkCount
Starts == 1..StartCount

(* at: "lost" until the read loop ends, "stopping" while the worker drains, *)
(* "ended" once it has, "closing" once nothing is played any more; after:   *)
(* whether those before were over when the device connected.                *)
NoLink == [at |-> "none", after |-> FALSE, queue |-> <<>>, plays |-> 0]

(* to: the connection it was given to; how often the device played it in    *)
(* whole and in part, and how often nothing came of it.                     *)
NoStart == [at |-> "none", app |-> "none", to |-> 0, whole |-> 0, part |-> 0, unsaid |-> 0]

StartInit ==
  /\ links = [l \in Links |-> NoLink] /\ current = 0 /\ starts = [s \in Starts |-> NoStart]

HasLink(l) == links[l].at # "none"

-----------------------------------------------------------------------------
(* The connections of the device.                                           *)

(* A device that has lost its connection may be back before the server has *)
(* noticed.                                                                *)
Connects(l) ==
  /\ ~HasLink(l) /\ \A k \in 1..(l - 1) : links[k].at \notin {"none", "open"}
  /\ links' = [links EXCEPT ![l].at = "open",
                            ![l].after = \A k \in 1..(l - 1) : links[k].at = "over"]
  /\ current' = l
  /\ UNCHANGED starts

LinkMoves(l, from, to) ==
  /\ links[l].at \in from /\ links' = [links EXCEPT ![l].at = to]
  /\ UNCHANGED <<current, starts>>

DeviceGoes(l) == LinkMoves(l, {"open"}, "lost")

(* The session closes the connection, silent too long or without a frame   *)
(* of audio.                                                               *)
ClosesForIdle(l) == LinkMoves(l, {"open", "lost"}, "stopping")

ReadLoopEnds(l) == LinkMoves(l, {"lost"}, "stopping")

WorkerStops(l) == LinkMoves(l, {"stopping"}, "ended")

(* _inject_task is cancelled, with what it plays and what still waits. *)
StopsPlaying(l) ==
  /\ links[l].at = "ended" /\ links' = [links EXCEPT ![l].at = "closing", ![l].plays = 0]
  /\ UNCHANGED <<current, starts>>

(* mutant: a session that is over stays registered *)
KeepsRegistered(l) == UNCHANGED current

(* _connections.pop(client_id), whatever connection that names by now. *)
Unregister(l) == current' = 0

CleansUp(l) ==
  /\ links[l].at = "closing" /\ links' = [links EXCEPT ![l].at = "over"]
  /\ Unregister(l) /\ UNCHANGED starts

TakesNext(l) ==
  /\ links[l].at \notin {"none", "closing", "over"} /\ links[l].plays = 0 /\ links[l].queue # <<>>
  /\ links' = [links EXCEPT ![l].plays = Head(links[l].queue), ![l].queue = Tail(@)]
  /\ UNCHANGED <<current, starts>>

Done(l, row) ==
  /\ links[l].plays # 0 /\ links' = [links EXCEPT ![l].plays = 0]
  /\ starts' = [starts EXCEPT ![links[l].plays] = row]
  /\ UNCHANGED current

(* A device that is gone hears nothing of it. *)
Hears(l) == IF links[l].at = "open" THEN 1 ELSE 0

PlaysToItsEnd(l) == Done(l, [starts[links[l].plays] EXCEPT !.whole = @ + Hears(l)])

(* A new turn of the user has come, or an interruption. *)
StopsMidway(l) == Done(l, [starts[links[l].plays] EXCEPT !.part = @ + Hears(l)])

(* There are no words or no TTS, or the synthesis fails or has no frames. *)
SaysNothing(l) == Done(l, [starts[links[l].plays] EXCEPT !.unsaid = @ + 1])

-----------------------------------------------------------------------------
(* A start.                                                                 *)

SetStart(s, fields) == starts' = [starts EXCEPT ![s] = fields]

(* The handler of the App's socket has one under way at a time. *)
HandleStartRoast(s) ==
  /\ starts[s].at = "none" /\ \A r \in 1..(s - 1) : starts[r].app \notin {"none", "waits"}
  /\ SetStart(s, [NoStart EXCEPT !.at = "posted", !.app = "waits"])
  /\ UNCHANGED <<links, current>>

(* has_active_connection and send_inject, with no await that suspends in   *)
(* between.                                                                *)
GivenToSession(s) ==
  /\ starts[s].at = "posted" /\ current # 0
  /\ SetStart(s, [starts[s] EXCEPT !.at = "injected", !.to = current])
  /\ links' = [links EXCEPT ![current].queue = Append(@, s)]
  /\ UNCHANGED current

Generates(s) ==
  /\ starts[s].at = "posted" /\ current = 0 /\ SetStart(s, [starts[s] EXCEPT !.at = "generating"])
  /\ UNCHANGED <<links, current>>

Generated(s) ==
  /\ starts[s].at = "generating"
  /\ \E at \in {"text", "empty", "failed"} : SetStart(s, [starts[s] EXCEPT !.at = at])
  /\ UNCHANGED <<links, current>>

(* Of an opening without words it is told nothing. *)
TellsApp(s) ==
  /\ starts[s].app = "waits" /\ starts[s].at \in {"injected", "text", "empty", "failed"}
  /\ SetStart(s, [starts[s] EXCEPT !.app = starts[s].at])
  /\ UNCHANGED <<links, current>>

(* Thirty seconds, or no agent: a start that has been posted goes on.      *)
AgentUnavailable(s) ==
  /\ starts[s].app = "waits"
  /\ \E at \in {starts[s].at} \cup (IF starts[s].at = "posted" THEN {"failed"} ELSE {}) :
       SetStart(s, [starts[s] EXCEPT !.app = "failed", !.at = at])
  /\ UNCHANGED <<links, current>>

StartNext ==
  \/ \E l \in Links : \/ Connects(l) \/ DeviceGoes(l) \/ ClosesForIdle(l) \/ ReadLoopEnds(l)
                      \/ WorkerStops(l) \/ StopsPlaying(l) \/ CleansUp(l) \/ TakesNext(l)
                      \/ PlaysToItsEnd(l) \/ StopsMidway(l) \/ SaysNothing(l)
  \/ \E s \in Starts : \/ HandleStartRoast(s) \/ GivenToSession(s) \/ Generates(s) \/ Generated(s)
                       \/ TellsApp(s) \/ AgentUnavailable(s)

StartSpec == StartInit /\ [][StartNext]_startVars

-----------------------------------------------------------------------------
(* Properties.                                                             *)

LinkStates == {"none", "open", "lost", "stopping", "ended", "closing", "over"}

LinkRow == [at : LinkStates, after : BOOLEAN, queue : Seq(Starts), plays : Starts \cup {0}]

StartRow ==
  [at : {"none", "posted", "injected", "generating", "text", "empty", "failed"},
   app : {"none", "waits", "injected", "text", "empty", "failed"}, to : Links \cup {0},
   whole : Nat, part : Nat, unsaid : Nat]

(* Type invariant.                                                         *)
StartTypeOK ==
  /\ links \in [Links -> LinkRow]
  /\ current \in Links \cup {0}
  /\ starts \in [Starts -> StartRow]

AllDone(l) == links[l].plays = 0 /\ links[l].queue = <<>>

Times(row) == row.whole + row.part + row.unsaid

(* No start is given to a session that is over, whatever connections of    *)
(* the device overlap (server.py:152-156); and where the one before was    *)
(* over when the device connected, it is there for every start, and none   *)
(* that it was given is lost or taken twice: the device plays it once, in  *)
(* whole or up to a new turn of the user, or nothing came of its text, and *)
(* then the App was told that the device would all the same                *)
(* (roast.py:110-135, session.py:318-333, tts_bridge.py:767-816).          *)
StartsPlayed ==
  /\ current # 0 => links[current].at # "over"
  /\ \A l \in Links : links[l].at = "open" =>
       /\ links[l].after => current = l
       /\ AllDone(l) => \A s \in Starts : starts[s].to = l => Times(starts[s]) = 1
=============================================================================
