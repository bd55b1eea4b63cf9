------------------------------ MODULE SpeechOut ------------------------------
(***************************************************************************)
(* A reply on its way to the device: the LLM's words are fed to the speech *)
(* stream (providers/tts/cartesia.py) while its audio comes back, is cut   *)
(* into frames and paced out (voice/pipecat/tts_bridge.py); when the       *)
(* stream fails before anything was played the reply is synthesized once   *)
(* more, as a whole; and when it is over, what was spoken is recorded.     *)
(*                                                                         *)
(* A word is one chunk of text, of so many characters and so many samples  *)
(* of audio, the same in the stream and in the whole reply; what is        *)
(* recorded is told in characters.  Who cuts a reply short, and what       *)
(* becomes of the record, is VoiceTurns' story.                            *)
(***************************************************************************)
EXTENDS Integers

CONSTANTS
  WordCount,   \* bounds the words of the reply
  Text, Said,  \* characters, and samples, up to the end of each word
  ChunkSizes,  \* samples of the chunks the stream brings
  FrameLen,    \* samples of a frame of 60 ms
  Warmup       \* TTS_STREAM_WARMUP_FRAMES

ASSUME SpeechAssumption ==
  /\ {WordCount, Warmup} \subseteq Nat /\ FrameLen \in Nat \ {0} /\ ChunkSizes \subseteq Nat
  /\ \A upTo \in {Text, Said} :
       /\ upTo \in [0..WordCount -> Nat] /\ upTo[0] = 0
       /\ \A v, w \in 0..WordCount : v <= w => upTo[v] <= upTo[w]

VARIABLES
  queued,      \* words the producer has put in text_queue
  producer,  \* it is "running" or "done", and holder["full"] is set
  fed,       \* words _feed has pulled, and pushed to the context
  feeder,    \* "running", "done", "failed" or "cut"
  received,  \* samples the stream has brought
  stamped,   \* words whose timestamps it has brought: spoken_words
  mode,      \* of the reply: "stream", "rest", "ending" or "over"
  rest,      \* rest_fallback
  started,   \* _tts_started
  pending,   \* frames of the warm-up
  hand,      \* frames _pace has yet to send
  sent,      \* frames sent: _play_position
  played,    \* those of the stream
  reason,    \* truncated_reason; "none" is the empty one
  record     \* the characters recorded as spoken

speechVars == <<queued, producer, fed, feeder, received, stamped, mode, rest, started, pending, hand,
                sent, played, reason, record>>

-----------------------------------------------------------------------------
SpeechInit ==
  /\ queued = 0 /\ producer = "running"
  /\ fed = [pulled |-> 0, pushed |-> 0] /\ feeder = "running"
  /\ received = 0 /\ stamped = 0 /\ mode = "stream" /\ rest = FALSE /\ started = FALSE
  /\ pending = 0 /\ hand = 0 /\ sent = 0 /\ played = 0 /\ reason = "none" /\ record = 0

-----------------------------------------------------------------------------
(* The text.                                                               *)

ProducerSays ==
  /\ producer = "running" /\ queued < WordCount /\ queued' = queued + 1
  /\ UNCHANGED <<producer, fed, feeder, received, stamped, mode, rest, started, pending, hand, sent,
                 played, reason, record>>

(* The LLM is through, or fails: the words so far are the reply. *)
ProducerEnds ==
  /\ producer = "running" /\ producer' = "done"
  /\ UNCHANGED <<queued, fed, feeder, received, stamped, mode, rest, started, pending, hand, sent,
                 played, reason, record>>

Feeds ==
  /\ feeder = "running" /\ mode = "stream"
  /\ \/ /\ fed.pulled < queued
        /\ \/ fed' = [pulled |-> fed.pulled + 1, pushed |-> fed.pushed + 1] /\ UNCHANGED feeder
           \/ fed' = [fed EXCEPT !.pulled = @ + 1] /\ feeder' = "failed"
     \/ /\ fed.pulled = queued /\ producer = "done" /\ feeder' = "done" /\ UNCHANGED fed
  /\ UNCHANGED <<queued, producer, received, stamped, mode, rest, started, pending, hand, sent, played,
                 reason, record>>

(* A word counts as consumed when the provider asks for what follows it. *)
Consumed == IF feeder = "done" \/ fed.pulled = 0 THEN fed.pulled ELSE fed.pulled - 1

HolderFull == IF producer = "done" THEN queued ELSE 0

-----------------------------------------------------------------------------
(* The stream.                                                             *)

Receiving == mode = "stream" /\ hand = 0

(* feed of _StreamOpusEncoder: the frames a chunk completes. *)
Completed(n) == (received + n) \div FrameLen - received \div FrameLen

Chunk(n) ==
  LET frames == Completed(n) IN
  /\ Receiving /\ received + n <= Said[fed.pushed] /\ received' = received + n
  /\ IF started THEN hand' = frames /\ UNCHANGED <<pending, started>>
     ELSE IF pending + frames >= Warmup
     THEN started' = TRUE /\ hand' = pending + frames /\ pending' = 0
     ELSE pending' = pending + frames /\ UNCHANGED <<started, hand>>
  /\ UNCHANGED <<queued, producer, fed, feeder, stamped, mode, rest, sent, played, reason, record>>

Timestamps ==
  /\ Receiving /\ stamped' \in (stamped + 1)..fed.pushed
  /\ UNCHANGED <<queued, producer, fed, feeder, received, mode, rest, started, pending, hand, sent,
                 played, reason, record>>

TailFrames == IF received % FrameLen = 0 THEN 0 ELSE 1

(* The stream is over: its tail, and a warm-up that was not. *)
StreamEnds(feeding) ==
  /\ mode' = "ending" /\ hand' = pending + TailFrames /\ pending' = 0
  /\ started' = (started \/ pending + TailFrames > 0)
  /\ feeder' = feeding
  /\ UNCHANGED <<queued, producer, fed, received, stamped, rest, sent, played, reason, record>>

MayRepeat == ~started

StreamFails ==
  /\ Receiving /\ feeder' = IF feeder = "running" THEN "cut" ELSE feeder
  /\ pending' = 0
  /\ IF MayRepeat THEN mode' = "rest" /\ rest' = TRUE /\ UNCHANGED reason
     ELSE mode' = "ending" /\ reason' = "stream_failed" /\ UNCHANGED rest
  /\ UNCHANGED <<queued, producer, fed, received, stamped, started, hand, sent, played, record>>

Done ==
  /\ Receiving /\ feeder \in {"done", "failed"} /\ received = Said[fed.pushed]
  /\ StreamEnds(feeder)

(* Nothing for receive_timeout: too slow an LLM, or a silent server. *)
TimesOut ==
  \/ Receiving /\ received > 0 /\ StreamEnds(IF feeder = "running" THEN "cut" ELSE feeder)
  \/ received = 0 /\ StreamFails

(* One-shot synthesis of the whole reply, once the LLM is through; it cuts *)
(* off what does not fill a frame, and may fail.                           *)
RestSynthesizes ==
  /\ mode = "rest" /\ producer = "done" /\ mode' = "ending"
  /\ LET frames == Said[queued] \div FrameLen IN
       hand' \in {0, frames} /\ started' = (started \/ hand' > 0)
  /\ UNCHANGED <<queued, producer, fed, feeder, received, stamped, rest, pending, sent, played,
                 reason, record>>

-----------------------------------------------------------------------------
(* The device.                                                             *)

(* One frame of _pace. *)
SendFrame ==
  /\ hand > 0 /\ hand' = hand - 1 /\ sent' = sent + 1
  /\ played' = IF rest THEN played ELSE played + 1
  /\ UNCHANGED <<queued, producer, fed, feeder, received, stamped, mode, rest, started, pending,
                 reason, record>>

Samples == sent * FrameLen

(* mutant: a word counts as spoken once it has begun *)
BegunWords == {0} \cup {w \in 1..stamped : Said[w - 1] < Samples}

SpokenWords == {w \in 0..stamped : Said[w] <= Samples}

SpokenPrefix == CHOOSE w \in SpokenWords : \A v \in SpokenWords : v <= w

(* tts_pcm *)
Synthesized == received + (IF rest THEN Said[queued] ELSE 0)

(* _truncate_to_played, of a text of so many characters: all of it where   *)
(* 99 in a hundred of the samples there are were sent, else the same share *)
(* of its characters, and no more than up to the end of a sentence.        *)
Truncated(chars) ==
  IF Synthesized = 0 \/ sent = 0 THEN {0}
  ELSE IF 100 * Samples >= 99 * Synthesized THEN {chars}
  ELSE 0..((chars * Samples) \div Synthesized)

(* Drained: the reply is told as complete, whatever became of the stream. *)
Drained ==
  /\ mode = "ending" /\ hand = 0 /\ mode' = "over" /\ record' = Text[HolderFull]
  /\ UNCHANGED <<queued, producer, fed, feeder, received, stamped, rest, started, pending, hand, sent,
                 played, reason>>

(* A barge-in, an abort, or the end of the session, wherever the reply is: *)
(* the LLM is stopped, and what was spoken is estimated.                   *)
CutShort ==
  /\ mode # "over" /\ mode' = "over" /\ hand' = 0
  /\ producer' = IF mode = "ending" THEN producer ELSE "done"
  /\ reason' = IF reason = "none" THEN "barge_in" ELSE reason
  /\ record' \in IF stamped > 0 /\ ~rest THEN {Text[SpokenPrefix]}
                 ELSE Truncated(Text[IF ~rest THEN Consumed
                                     ELSE IF mode = "ending" THEN HolderFull ELSE queued])
  /\ UNCHANGED <<queued, fed, feeder, received, stamped, rest, started, pending, sent, played>>

SpeechNext ==
  \/ ProducerSays \/ ProducerEnds \/ Feeds \/ Timestamps \/ StreamFails \/ Done \/ TimesOut
  \/ RestSynthesizes \/ SendFrame \/ Drained \/ CutShort
  \/ \E n \in ChunkSizes : Chunk(n)

SpeechSpec == SpeechInit /\ [][SpeechNext]_speechVars

-----------------------------------------------------------------------------
(* Properties.                                                             *)

(* Type invariant.                                                         *)
SpeechTypeOK ==
  /\ {queued, fed.pulled, fed.pushed, stamped} \subseteq 0..WordCount /\ record \in 0..Text[WordCount]
  /\ producer \in {"running", "done"} /\ feeder \in {"running", "done", "failed", "cut"}
  /\ received \in 0..Said[WordCount] /\ mode \in {"stream", "rest", "ending", "over"}
  /\ {rest, started} \subseteq BOOLEAN /\ pending \in 0..Warmup
  /\ {hand, sent, played} \subseteq 0..(2 * Said[WordCount])
  /\ reason \in {"none", "stream_failed", "barge_in"}

(* A reply that was cut short is recorded up to a word whose audio has     *)
(* reached the device, where the stream has told when the words end.  One  *)
(* that was synthesized as a whole is recorded by no larger a share of its *)
(* text than was sent of its audio, even where the warm-up of the stream   *)
(* that failed is counted with it ("conservative, never over-records",     *)
(* tts_bridge.py:453-456), unless 99 in a hundred of it were sent.         *)
CutRecordsSent ==
  mode = "over" /\ reason = "barge_in" =>
    /\ stamped > 0 /\ ~rest => \E w \in 0..stamped : record = Text[w] /\ Said[w] <= Samples
    /\ rest => \/ 100 * Samples >= 99 * Said[queued]
               \/ record * Said[queued] <= Text[queued] * Samples

(* Whatever the size of the chunks, a reply that ends without a failure    *)
(* has been sent to the last sample, and is recorded as a whole.           *)
WholeReply ==
  mode = "over" /\ reason = "none" /\ feeder = "done" /\ ~rest =>
    (received = Said[queued] => Samples >= Said[queued]) /\ record = Text[queued]

(* "A mid-stream failure must not replay the whole reply over already-     *)
(* played audio" (tts_bridge.py:344-346).                                  *)
SpokenOnce == rest => played = 0

(* What is sent of a reply, and recorded of it, is what was to be heard    *)
(* (tts_bridge.py:333-454).                                                *)
ReplyAsHeard == CutRecordsSent /\ WholeReply /\ SpokenOnce
=============================================================================
