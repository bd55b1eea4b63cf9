------------------------------ MODULE AgentRun ------------------------------
(***************************************************************************)
(* The replies of one PigAgent (pigagent/agent.py, core/agent/runner.py,   *)
(* core/agent/executor.py).  A reply loads the context, seeds the session  *)
(* information once, then alternates between a stream of the LLM and the   *)
(* tools it asked for; its tool results are persisted at the end.  The     *)
(* bridge interrupts a reply by an event, which the runner reads between   *)
(* two pieces of the stream, or by cancelling its task at any await.  The  *)
(* replies, one after the other, share the runner, with the messages of    *)
(* its last run, and the session's flag.                                   *)
(*                                                                         *)
(* A message is its kind, the step of the loop and the call it belongs to. *)
(* What the LLM says, which tools it calls and how they end is up to the   *)
(* environment; the roast game is in RoastGame, the context in             *)
(* ConversationContext.                                                    *)
(***************************************************************************)
EXTENDS Positions, FiniteSets

CONSTANTS
  ReplyCount,      \* bounds the replies
  StepCount,       \* bounds the steps of a reply
  CallCount,       \* bounds the tool calls of a step
  MaxConcurrency,  \* max_tool_concurrency
  MaxSteps         \* RunnerConfig.max_steps

ASSUME AgentAssumption ==
  {ReplyCount, StepCount, CallCount, MaxConcurrency, MaxSteps} \subseteq Nat \ {0}

VARIABLES
  replies,   \* generate_reply and the stream it reads, for each reply
  asked,     \* interrupt_event of each reply
  snapshot,  \* runner.last_messages
  seeded,    \* _session_seeded
  seeds,     \* how often the session information was persisted
  context    \* the tool results in the conversation: <<reply, step, call>>

agentVars == <<replies, asked, snapshot, seeded, seeds, context>>

-----------------------------------------------------------------------------
Replies == 1..ReplyCount

Idle == [at |-> "idle", step |-> 0, lastHadTools |-> FALSE, said |-> FALSE, calls |-> <<>>,
         msgs |-> <<>>, left |-> <<>>]

Over(r) == replies[r].at \in {"done", "lost", "cut"}
Live(r) == replies[r].at # "idle" /\ ~Over(r)

AgentInit ==
  /\ replies = [r \in Replies |-> Idle] /\ asked = [r \in Replies |-> FALSE]
  /\ snapshot = <<>> /\ seeded = FALSE /\ seeds = 0 /\ context = <<>>

ResultsIn(msgs) == Pick(msgs, {i \in DOMAIN msgs : msgs[i].kind = "result"})

Cut(r) == [Idle EXCEPT !.at = "cut", !.step = replies[r].step]

Msg(r, kind, i) == [of |-> r, kind |-> kind, step |-> replies[r].step, call |-> i]

-----------------------------------------------------------------------------
(* generate_reply up to the stream.                                        *)

ReplyBegins(r) ==
  /\ replies[r].at = "idle"
  /\ \A q \in 1..(r - 1) : Over(q)
  /\ replies' = [replies EXCEPT ![r].at = "loading"]
  /\ UNCHANGED <<asked, snapshot, seeded, seeds, context>>

Loaded(r) ==
  /\ replies[r].at = "loading"
  /\ replies' = [replies EXCEPT ![r].at = IF seeded THEN "asking" ELSE "seeding"]
  /\ UNCHANGED <<asked, snapshot, seeded, seeds, context>>

(* The session information is persisted by a task of its own.              *)
Mark == seeded' = TRUE

Seeded(r) ==
  /\ replies[r].at = "seeding"
  /\ Mark /\ seeds' = seeds + 1
  /\ replies' = [replies EXCEPT ![r].at = "asking"]
  /\ UNCHANGED <<asked, snapshot, context>>

-----------------------------------------------------------------------------
(* The loop of the runner.                                                 *)

(* mutant: the configured number of steps ends the loop *)
StopAtMaxSteps(rec) == rec.step >= MaxSteps \/ (rec.step > 0 /\ ~rec.lastHadTools)

ShouldStop(rec) == rec.step > 0 /\ ~rec.lastHadTools

(* Of the messages of the last run only the tool results are ever read:    *)
(* they are to be saved.                                                   *)
Save(r, msgs) ==
  [Idle EXCEPT !.at = "saving", !.step = replies[r].step, !.msgs = ResultsIn(msgs), !.left = snapshot']

AskLlm(r) ==
  /\ replies[r].at = "asking" /\ ~ShouldStop(replies[r]) /\ ~asked[r]
  /\ replies[r].step < StepCount
  /\ replies' = [replies EXCEPT ![r] = [replies[r] EXCEPT !.at = "streaming", !.step = @ + 1,
                   !.said = FALSE, !.calls = <<>>]]
  /\ UNCHANGED <<asked, snapshot, seeded, seeds, context>>

(* The loop ends at its head: the messages of this run are not recorded.   *)
Exhausted(r) ==
  /\ replies[r].at = "asking" /\ ShouldStop(replies[r])
  /\ UNCHANGED <<asked, snapshot, seeded, seeds, context>>
  /\ replies' = [replies EXCEPT ![r] = Save(r, replies[r].msgs)]

(* The event is read before each step and between the pieces of a stream. *)
(* What was said since the last step began is kept as a partial message.   *)
Interrupted(r) ==
  /\ replies[r].at \in {"asking", "streaming"} /\ asked[r] /\ ~ShouldStop(replies[r])
  /\ LET msgs == IF replies[r].said THEN Append(replies[r].msgs, Msg(r, "partial", 0))
                 ELSE replies[r].msgs
     IN snapshot' = ResultsIn(msgs) /\ replies' = [replies EXCEPT ![r] = Save(r, msgs)]
  /\ UNCHANGED <<asked, seeded, seeds, context>>

Text(r) ==
  /\ replies[r].at = "streaming" /\ ~asked[r] /\ ~replies[r].said
  /\ replies' = [replies EXCEPT ![r].said = TRUE]
  /\ UNCHANGED <<asked, snapshot, seeded, seeds, context>>

(* A tool call, its filler spoken as soon as that is complete.             *)
CallAsked(r) ==
  /\ replies[r].at = "streaming" /\ ~asked[r] /\ Len(replies[r].calls) < CallCount
  /\ replies' = [replies EXCEPT ![r].calls = Append(@, "waits")]
  /\ UNCHANGED <<asked, snapshot, seeded, seeds, context>>

(* A piece of the stream that arrives after the event interrupts; its end  *)
(* does not.                                                               *)
StreamEnds(r) ==
  /\ replies[r].at = "streaming" /\ replies[r].calls = <<>>
  /\ LET msgs == Append(replies[r].msgs, Msg(r, "text", 0))
     IN snapshot' = ResultsIn(msgs) /\ replies' = [replies EXCEPT ![r] = Save(r, msgs)]
  /\ UNCHANGED <<asked, seeded, seeds, context>>

CallsMade(r) ==
  /\ replies[r].at = "streaming" /\ replies[r].calls # <<>>
  /\ replies' = [replies EXCEPT ![r] = [replies[r] EXCEPT !.at = "tools", !.lastHadTools = TRUE,
                   !.msgs = Append(@, Msg(r, "calls", Len(replies[r].calls)))]]
  /\ UNCHANGED <<asked, snapshot, seeded, seeds, context>>

StreamFails(r) ==
  /\ replies[r].at = "streaming"
  /\ replies' = [replies EXCEPT ![r] = Cut(r)]
  /\ UNCHANGED <<asked, snapshot, seeded, seeds, context>>

-----------------------------------------------------------------------------
(* The executor: the calls of a step run together, up to the semaphore.    *)

Executing == {c \in Replies \X (1..CallCount) :
                c[2] \in DOMAIN replies[c[1]].calls /\ replies[c[1]].calls[c[2]] = "runs"}

ToolStarts(r, i) ==
  /\ replies[r].at = "tools" /\ i \in DOMAIN replies[r].calls /\ replies[r].calls[i] = "waits"
  /\ Cardinality(Executing) < MaxConcurrency
  /\ replies' = [replies EXCEPT ![r].calls[i] = "runs"]
  /\ UNCHANGED <<asked, snapshot, seeded, seeds, context>>

(* A result, with messages to inject or without, an error or a timeout.    *)
ToolEnds(r, i) ==
  /\ replies[r].at = "tools" /\ i \in DOMAIN replies[r].calls /\ replies[r].calls[i] = "runs"
  /\ \E outcome \in {"ok", "injects", "fails"} : replies' = [replies EXCEPT ![r].calls[i] = outcome]
  /\ UNCHANGED <<asked, snapshot, seeded, seeds, context>>

(* No handler of that name, or arguments that are not JSON.                *)
ToolRefused(r, i) ==
  /\ replies[r].at = "tools" /\ i \in DOMAIN replies[r].calls /\ replies[r].calls[i] = "waits"
  /\ replies' = [replies EXCEPT ![r].calls[i] = "fails"]
  /\ UNCHANGED <<asked, snapshot, seeded, seeds, context>>

(* mutant: a call that failed leaves no message *)
AnswerIfOk(r, i) ==
  CASE replies[r].calls[i] = "injects" -> <<Msg(r, "result", i), Msg(r, "inject", i)>>
    [] replies[r].calls[i] = "ok" -> <<Msg(r, "result", i)>>
    [] OTHER -> <<>>

Answer(r, i) ==
  IF replies[r].calls[i] = "injects" THEN <<Msg(r, "result", i), Msg(r, "inject", i)>>
  ELSE <<Msg(r, "result", i)>>

Results(r) ==
  LET upto[n \in 0..CallCount] == IF n = 0 THEN <<>> ELSE upto[n - 1] \o Answer(r, n)
  IN upto[Len(replies[r].calls)]

ToolsDone(r) ==
  /\ replies[r].at = "tools"
  /\ \A i \in DOMAIN replies[r].calls : replies[r].calls[i] \in {"ok", "injects", "fails"}
  /\ replies' = [replies EXCEPT ![r] = [replies[r] EXCEPT !.at = "asking", !.calls = <<>>,
                   !.msgs = @ \o Results(r)]]
  /\ UNCHANGED <<asked, snapshot, seeded, seeds, context>>

-----------------------------------------------------------------------------
(* The end of a reply.                                                     *)

SaveOne(r) ==
  /\ replies[r].at = "saving" /\ replies[r].left # <<>>
  /\ LET m == Head(replies[r].left) IN context' = Append(context, <<m.of, m.step, m.call>>)
  /\ replies' = [replies EXCEPT ![r].left = Tail(@)]
  /\ UNCHANGED <<asked, snapshot, seeded, seeds>>

SaveFails(r) ==
  /\ replies[r].at = "saving" /\ replies[r].left # <<>>
  /\ replies' = [replies EXCEPT ![r] = [Idle EXCEPT !.at = "lost", !.step = replies[r].step]]
  /\ UNCHANGED <<asked, snapshot, seeded, seeds, context>>

Saved(r) ==
  /\ replies[r].at = "saving" /\ replies[r].left = <<>>
  /\ replies' = [replies EXCEPT ![r].at = "done"]
  /\ UNCHANGED <<asked, snapshot, seeded, seeds, context>>

(* The bridge cancels the task: the tools it waits for are cancelled, too. *)
Cancel(r) ==
  /\ Live(r)
  /\ replies' = [replies EXCEPT ![r] = Cut(r)]
  /\ UNCHANGED <<asked, snapshot, seeded, seeds, context>>

Interrupt(r) ==
  /\ Live(r) /\ ~asked[r] /\ asked' = [asked EXCEPT ![r] = TRUE]
  /\ UNCHANGED <<replies, snapshot, seeded, seeds, context>>

-----------------------------------------------------------------------------
ReplySteps(r) ==
  \/ ReplyBegins(r) \/ Loaded(r) \/ Seeded(r) \/ AskLlm(r) \/ Exhausted(r) \/ Interrupted(r)
  \/ Text(r) \/ CallAsked(r) \/ StreamEnds(r) \/ CallsMade(r) \/ StreamFails(r)
  \/ ToolsDone(r) \/ SaveOne(r) \/ SaveFails(r) \/ Saved(r)

ToolSteps(r, i) == ToolStarts(r, i) \/ ToolEnds(r, i) \/ ToolRefused(r, i)

AgentNext ==
  \/ \E r \in Replies : ReplySteps(r) \/ Cancel(r) \/ Interrupt(r)
  \/ \E r \in Replies, i \in 1..CallCount : ToolSteps(r, i)

AgentSpec == AgentInit /\ [][AgentNext]_agentVars

-----------------------------------------------------------------------------
(* Properties.                                                             *)

Messages == [of : Replies, kind : {"text", "partial", "calls", "result", "inject"},
             step : 0..StepCount, call : 0..CallCount]

ReplyRows ==
  [at : {"idle", "loading", "seeding", "asking", "streaming", "tools", "saving", "done", "lost", "cut"},
   step : 0..StepCount, lastHadTools : BOOLEAN, said : BOOLEAN,
   calls : Seq({"waits", "runs", "ok", "injects", "fails"}), msgs : Seq(Messages), left : Seq(Messages)]

(* Type invariant.                                                         *)
AgentTypeOK ==
  /\ replies \in [Replies -> ReplyRows] /\ asked \in [Replies -> BOOLEAN]
  /\ snapshot \in Seq(Messages) /\ seeded \in BOOLEAN /\ seeds \in 0..ReplyCount
  /\ context \in Seq(Replies \X (1..StepCount) \X (1..CallCount))

(* The calls of the message at k have one result each, in their order.     *)
OneResultEach(msgs, k) ==
  LET found == {x \in DOMAIN msgs : msgs[x].kind = "result" /\ msgs[x].step = msgs[k].step}
  IN /\ {msgs[x].call : x \in found} = 1..msgs[k].call
     /\ \A x, y \in found : x < y => msgs[x].call < msgs[y].call

(* What the LLM is sent has, for every call it once made, one result, in   *)
(* the order of the calls, however the tools ended (runner.py:186-198).    *)
CallsAnswered ==
  \A r \in Replies : replies[r].at = "streaming" =>
    \A k \in DOMAIN replies[r].msgs :
      replies[r].msgs[k].kind = "calls" => OneResultEach(replies[r].msgs, k)

KeptOf(r) == Pick(context, {x \in DOMAIN context : context[x][1] = r})

(* The conversation has the tool results of a reply that ended, in order   *)
(* and once, and those of no other run of the shared runner                *)
(* (agent.py:273-282).                                                     *)
ToolsRemembered ==
  \A r \in Replies : replies[r].at = "done" =>
    KeptOf(r)
      = [i \in DOMAIN replies[r].msgs |-> <<r, replies[r].msgs[i].step, replies[r].msgs[i].call>>]

(* The session information reaches the LLM before anything else, and once, *)
(* however many replies were cut off before (agent.py:169-180).            *)
SeededOnce ==
  /\ seeds <= 1
  /\ \A r \in Replies : replies[r].step > 0 => seeds > 0

(* What the conversation keeps of the replies is complete and told once.   *)
RepliesRemembered == ToolsRemembered /\ SeededOnce
=============================================================================
