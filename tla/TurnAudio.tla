------------------------------ MODULE TurnAudio ------------------------------
(***************************************************************************)
(* The audio a turn is stored with: turn_storage_observer.py routes every  *)
(* mic frame to the input of the coming turn or, while a reply plays, to   *)
(* the listening of the turn that plays, and keeps the time at which the   *)
(* input of the coming turn began.  A turn takes its input when the user   *)
(* stops and its listening when it is committed, which may be turns later. *)
(*                                                                         *)
(* A buffer is the set of the numbers of its frames, and the time is the   *)
(* number of the last frame.  When replies start and end is VoiceTurns'    *)
(* story.  The VAD of the server (providers/vad/onnx.py) leaves no flags   *)
(* for the voice segments of a row, which are always empty.                *)
(***************************************************************************)
EXTENDS Integers, FiniteSets, FiniteSetsExt

CONSTANTS
  MicCount,    \* bounds the frames
  RowCount,    \* bounds the turns
  BufCap       \* _AUDIO_BUF_CAP, in frames

ASSUME AudioAssumption == {MicCount, RowCount} \subseteq Nat /\ BufCap \in Nat \ {0}

VARIABLES
  heard,     \* the frames so far
  echo,      \* the frames heard while a reply played
  speaking,  \* state.client_is_speaking, and what _route_audio saw last
  talk,      \* _user_turn_active, _saw_text
  turnBuf, gapBuf,
  window,    \* _turn_start_ms and _pending_turn_start_ms
  audioRows, \* the TurnStorage of each turn
  openRow,   \* _open_storage, 0 for None
  ended

audioVars == <<heard, echo, speaking, talk, turnBuf, gapBuf, window, audioRows, openRow, ended>>

-----------------------------------------------------------------------------
AudioRows == 1..RowCount

(* start: audio_start_ms. *)
NoAudio == [at |-> "none", input |-> {}, listen |-> {}, start |-> 0]

AudioInit ==
  /\ heard = 0 /\ echo = {}
  /\ speaking = [now |-> FALSE, last |-> FALSE] /\ talk = [active |-> FALSE, text |-> FALSE]
  /\ turnBuf = {} /\ gapBuf = {}
  /\ window = [start |-> 0, pending |-> 0]
  /\ audioRows = [t \in AudioRows |-> NoAudio] /\ openRow = 0 /\ ended = FALSE

-----------------------------------------------------------------------------
(* The microphone.                                                         *)

Capped(buf) == IF Cardinality(buf) > BufCap THEN buf \ {Min(buf)} ELSE buf

(* The start of a reply moves the frames since the last turn to the gap,   *)
(* unless they are those of a user who is talking.                         *)
Moved == speaking.now /\ ~speaking.last /\ ~talk.active

(* mutant: the edge at the start of a reply *)
ReplyStarts == speaking.now /\ ~speaking.last

ReplyOver == speaking.last /\ ~speaking.now

(* The window starts at its first byte, when the reply or turn before it ended. *)
Mic ==
  LET id   == heard + 1
      pend == IF ReplyOver THEN id ELSE window.pending
      kept == IF Moved THEN {} ELSE turnBuf
      gap  == IF Moved THEN gapBuf \cup turnBuf ELSE gapBuf
      fresh == ~speaking.now /\ kept = {}
  IN /\ ~ended /\ heard < MicCount
     /\ heard' = id /\ echo' = IF speaking.now THEN echo \cup {id} ELSE echo
     /\ speaking' = [speaking EXCEPT !.last = speaking.now]
     /\ turnBuf' = IF speaking.now THEN kept ELSE Capped(kept \cup {id})
     /\ gapBuf' = IF speaking.now THEN Capped(gap \cup {id}) ELSE gap
     /\ window' = [start |-> IF fresh THEN pend ELSE window.start, pending |-> pend]
     /\ talk' = IF fresh /\ ~talk.active THEN [talk EXCEPT !.text = FALSE] ELSE talk
     /\ UNCHANGED <<audioRows, openRow, ended>>

(* listen/start, whenever the device sends it. *)
DeviceListens ==
  /\ ~ended /\ talk' = [talk EXCEPT !.text = FALSE]
  /\ window' = IF turnBuf = {} THEN [window EXCEPT !.start = window.pending] ELSE window
  /\ UNCHANGED <<heard, echo, speaking, turnBuf, gapBuf, audioRows, openRow, ended>>

SpeakingTurns ==
  /\ ~ended /\ speaking' = [speaking EXCEPT !.now = ~@]
  /\ UNCHANGED <<heard, echo, talk, turnBuf, gapBuf, window, audioRows, openRow, ended>>

-----------------------------------------------------------------------------
(* The turns.                                                              *)

(* A transcript, and the turn it starts. *)
Transcribed ==
  /\ ~ended /\ heard > 0 /\ talk' = [active |-> TRUE, text |-> TRUE]
  /\ UNCHANGED <<heard, echo, speaking, turnBuf, gapBuf, window, audioRows, openRow, ended>>

SweptRows ==
  IF openRow = 0 THEN audioRows
  ELSE [audioRows EXCEPT ![openRow].at = "closing", ![openRow].listen = gapBuf]

NextRow == {t \in AudioRows : audioRows[t].at = "none" /\ \A u \in 1..(t - 1) : audioRows[u].at # "none"}

UserTurnStops(t) ==
  /\ ~ended /\ talk.active /\ talk.text /\ t \in NextRow
  /\ LET start == IF turnBuf = {} THEN heard ELSE window.start
     IN /\ audioRows' = [SweptRows EXCEPT ![t] =
             [NoAudio EXCEPT !.at = "open", !.input = turnBuf, !.start = start]]
        /\ window' = [start |-> start, pending |-> heard]
  /\ openRow' = t /\ gapBuf' = {} /\ turnBuf' = {} /\ talk' = [active |-> FALSE, text |-> FALSE]
  /\ UNCHANGED <<heard, echo, speaking, ended>>

(* Without a transcript the audio is kept for the turn that follows. *)
BlankStops ==
  /\ ~ended /\ ~talk.text
  /\ audioRows' = SweptRows /\ openRow' = 0 /\ gapBuf' = {}
  /\ talk' = [talk EXCEPT !.active = FALSE]
  /\ UNCHANGED <<heard, echo, speaking, turnBuf, window, ended>>

(* A bare wake word: begin_bare_wake_turn. *)
BareWake(t) ==
  /\ ~ended /\ t \in NextRow
  /\ audioRows' = [SweptRows EXCEPT ![t] = [NoAudio EXCEPT !.at = "open", !.start = window.start]]
  /\ openRow' = t
  /\ UNCHANGED <<heard, echo, speaking, talk, turnBuf, gapBuf, window, ended>>

(* Once the reply task has finalized the row.                              *)
CommitOnFinalize(t) ==
  /\ openRow = t
  /\ audioRows' = [audioRows EXCEPT ![t].at = "stored", ![t].listen = gapBuf]
  /\ openRow' = 0
  /\ UNCHANGED <<heard, echo, speaking, talk, turnBuf, gapBuf, window, ended>>

(* _close_storage: finalized, or out of patience *)
CloseStorage(t) ==
  /\ audioRows[t].at = "closing"
  /\ audioRows' = [audioRows EXCEPT ![t].at = "stored"]
  /\ UNCHANGED <<heard, echo, speaking, talk, turnBuf, gapBuf, window, openRow, ended>>

FinalizeSession ==
  /\ ~ended /\ ended' = TRUE /\ openRow' = 0
  /\ audioRows' = IF openRow = 0 THEN audioRows
                  ELSE [audioRows EXCEPT ![openRow].at = "stored", ![openRow].listen = gapBuf \cup turnBuf]
  /\ UNCHANGED <<heard, echo, speaking, talk, turnBuf, gapBuf, window>>

AudioNext ==
  \/ Mic \/ DeviceListens \/ SpeakingTurns \/ Transcribed \/ BlankStops \/ FinalizeSession
  \/ \E t \in AudioRows : UserTurnStops(t) \/ BareWake(t) \/ CommitOnFinalize(t)
                            \/ CloseStorage(t)

AudioSpec == AudioInit /\ [][AudioNext]_audioVars

-----------------------------------------------------------------------------
(* Properties.                                                             *)

Frames == 1..MicCount

(* Type invariant.                                                         *)
AudioTypeOK ==
  /\ heard \in 0..MicCount
  /\ {echo, turnBuf, gapBuf} \subseteq SUBSET (1..heard)
  /\ Cardinality(turnBuf) <= BufCap
  /\ ended \in BOOLEAN /\ openRow \in AudioRows \cup {0}
  /\ speaking \in [now : BOOLEAN, last : BOOLEAN] /\ talk \in [active : BOOLEAN, text : BOOLEAN]
  /\ window \in [start : 0..MicCount, pending : 0..MicCount]
  /\ audioRows \in [AudioRows -> [at : {"none", "open", "closing", "stored"},
       input : SUBSET Frames, listen : SUBSET Frames, start : 0..MicCount]]

(* What a turn is stored with as the user's words holds nothing heard      *)
(* while a reply played, nothing of another turn's words, and nothing that *)
(* is stored as what the user did during a reply.                          *)
InputIsOwn == \A t \in AudioRows :
  /\ audioRows[t].input \cap echo = {}
  /\ \A u \in AudioRows : /\ audioRows[t].input \cap audioRows[u].listen = {}
                         /\ u # t => audioRows[t].input \cap audioRows[u].input = {}

(* It holds all that was heard from its first frame to its last.           *)
InputIsWhole == \A t \in AudioRows : LET words == audioRows[t].input IN
  \A i, k \in words : \A j \in (i..k) \ echo : j \in words

(* audio_start_ms is when its first frame was heard, unless the buffer was *)
(* full and may have lost frames at its front: not the start of the turn   *)
(* before, nor that of a reply in between.                                 *)
StartIsOwn == \A t \in AudioRows : LET words == audioRows[t].input IN
  words # {} =>
    /\ audioRows[t].start <= Min(words)
    /\ Cardinality(words) < BufCap => Min(words) <= audioRows[t].start + 1

(* A turn is stored with its own words, all of them, and their time,       *)
(* however replies, transcripts, wake words and stops are interleaved and  *)
(* whenever it is committed (turn_storage_observer.py:157-234, 384-448).   *)
AudioIsOwn == InputIsOwn /\ InputIsWhole /\ StartIsOwn
=============================================================================
