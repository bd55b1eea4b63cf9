---------------------------- MODULE MCConversation ----------------------------
(* Instances of TurnAudio, SttStream, SpeechOut and ConversationContext, what *)
(* a session stores, hears, says and remembers, for TLC: one of the four at   *)
(* a time, the others stay as they began.                                     *)
EXTENDS TurnAudio, SttStream, SpeechOut, ConversationContext

VARIABLE part  \* which of them

SomeOutages == {{}, {"week"}, {"redis"}, {"pg"}}

\* Three words, of 100, 50 and 151 samples: three of four frames are 99 in a
\* hundred of them.
SomeSaid == [w \in 0..3 |-> CASE w = 0 -> 0 [] w = 1 -> 100 [] w = 2 -> 150 [] OTHER -> 301]

SomeText == [w \in 0..3 |-> CASE w = 0 -> 0 [] w = 1 -> 2 [] w = 2 -> 7 [] OTHER -> 9]

vars == <<audioVars, sttVars, speechVars, contextVars, part>>

Init ==
  /\ AudioInit /\ SttInit /\ SpeechInit /\ ContextInit
  /\ part \in {"audio", "hears", "says", "remembers"}
  /\ part # "hears" => provider = "vad"
  /\ part # "remembers" => outage = {}

Next ==
  /\ \/ part = "audio" /\ AudioNext /\ UNCHANGED <<sttVars, speechVars, contextVars>>
     \/ part = "hears" /\ SttNext /\ UNCHANGED <<audioVars, speechVars, contextVars>>
     \/ part = "says" /\ SpeechNext /\ UNCHANGED <<audioVars, sttVars, contextVars>>
     \/ part = "remembers" /\ ContextNext /\ UNCHANGED <<audioVars, sttVars, speechVars>>
  /\ UNCHANGED part

Spec == Init /\ [][Next]_vars
=============================================================================
