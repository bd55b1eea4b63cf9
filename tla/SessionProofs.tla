--------------------------- MODULE SessionProofs ----------------------------
(***************************************************************************)
(* Theorems of AgentRun, Interrupts, DeviceCalls and TurnAudio, the        *)
(* replies, the guarded runs, the volume tool and the recordings of one    *)
(* voice session, for every number of replies, steps, calls, runs,         *)
(* signals, commands, flushes, frames and turns.                           *)
(*                                                                         *)
(* That the runs of a key hear their own signals rests on what the event   *)
(* of a run is while it races: the registered one, or set already          *)
(* (EventKnown), and on when it was set: after the run before (SetSince).  *)
(* That the user is told a level the device has held rests on what is on   *)
(* its way under the number of each command that waits (Honest): its own   *)
(* request, or an answer that says what the device has held since the      *)
(* command began.                                                          *)
(*                                                                         *)
(* That the last command is kept rests on what the writes on their way     *)
(* will leave the device with (Ends, Loud), on who waits for each of them  *)
(* (Owned), and on no silence being sent but for the newest command, while *)
(* no other runs (ListFine, Course).                                       *)
(*                                                                         *)
(* That the calls of the LLM are answered rests on the messages of a reply *)
(* step by step: all but the last answered, and each of a step begun       *)
(* (StepFine, MsgsOwn); that its results are kept, on what is left to save *)
(* being the end of what there was (LeftFine), and nothing of the reply in *)
(* the conversation before (KeptRight).                                    *)
(*                                                                         *)
(* That a recording holds its own turn, and the time it began, rests on    *)
(* which frames the two buffers and the rows may still hold, and on the    *)
(* buffer of the coming turn having lost none since its first (AudioInv).  *)
(***************************************************************************)
EXTENDS AgentRun, Interrupts, DeviceCalls, TurnAudio, Induction, FiniteSetTheorems, SequenceTheorems, TLAPS

-----------------------------------------------------------------------------
(* The guarded runs and their signals (Interrupts).                        *)

(* Where runs do not overlap, those before one that has begun are over.    *)
InOrder == "overlap" \notin habits =>
  \A r \in Runs : \A q \in 1..(r - 1) : runs[r].at # "idle" => runs[q].at = "ended"

NotAged == "age" \notin habits => ~aged

EventKnown == habits \cap {"overlap", "age"} = {} =>
  \A r \in Runs : Racing(r) => runs[r].event \in {registered} \cup set

SetSince == "overlap" \notin habits => \A r \in Runs \ {1} : runs[r - 1].at = "ended" =>
  /\ runs[r].at = "idle" /\ registered \in set => signals > runs[r - 1].heard
  /\ Racing(r) /\ runs[r].event \in set => signals > runs[r - 1].heard

StillFree == \A r \in Runs :
  /\ runs[r].heard <= signals
  /\ runs[r].at \in {"idle", "racing"} => runs[r].how = "none"
  /\ runs[r].at = "racing" => runs[r].event # 0

WorkGuarded == "cancel" \notin habits => \A r \in Runs : runs[r].working => Racing(r)

SignalInv ==
  /\ InterruptTypeOK /\ InOrder /\ NotAged /\ EventKnown /\ SetSince /\ StillFree
  /\ WorkGuarded /\ TriggerHeard /\ NoOldSignal

LEMMA InitInv == InterruptInit => SignalInv
<1> SUFFICES ASSUME InterruptInit PROVE SignalInv
  OBVIOUS
<1>1. \A r \in Runs : runs[r] = [at |-> "idle", event |-> 0, working |-> FALSE, how |-> "none",
                                 heard |-> 0]
  BY DEF InterruptInit
<1>2. InterruptTypeOK
  <2>1. [at |-> "idle", event |-> 0, working |-> FALSE, how |-> "none", heard |-> 0] \in GuardedRuns
    BY InterruptAssumption DEF InterruptInit, GuardedRuns
  <2>2. runs \in [Runs -> GuardedRuns]
    BY <2>1 DEF InterruptInit
  <2>3. aged \in BOOLEAN
    BY Zenon DEF InterruptInit
  <2>4. habits \in Habits /\ events \in Nat /\ registered \in 0..events /\ set \subseteq 1..events
    BY DEF InterruptInit
  <2>5. signals \in 0..SignalCount /\ missed \subseteq Runs
    BY InterruptAssumption DEF InterruptInit
  <2> QED BY <2>2, <2>3, <2>4, <2>5, Zenon DEF InterruptTypeOK
<1>3. InOrder /\ NotAged /\ EventKnown /\ StillFree /\ WorkGuarded /\ TriggerHeard /\ NoOldSignal
  BY <1>1 DEF InterruptInit, InOrder, NotAged, EventKnown, StillFree, WorkGuarded, TriggerHeard,
              NoOldSignal, Racing
<1>4. SetSince
  BY <1>1 DEF InterruptInit, SetSince, Racing, Runs
<1> QED BY <1>2, <1>3, <1>4 DEF SignalInv

(* The run before one is one of the runs.                                  *)
LEMMA RunBefore == \A r \in Runs \ {1} : r - 1 \in Runs /\ r - 1 \in 1..(r - 1) /\ r \in Int
BY InterruptAssumption DEF Runs

LEMMA RunStartsInv ==
  ASSUME SignalInv, NEW r \in Runs, RunStarts(r)
  PROVE  SignalInv'
<1> USE InterruptAssumption, RunBefore DEF SignalInv, InterruptTypeOK
<1>1. /\ registered' \in 1..events' /\ events <= events' /\ events' \in Nat
      /\ set' \subseteq 1..events' /\ set' = set
      /\ registered' \in set => registered' = registered
  <2>1. CASE registered # 0
    BY <2>1 DEF RunStarts
  <2>2. CASE registered = 0
    <3>1. events' = events + 1 /\ registered' = events + 1 /\ set' = set
      BY <2>2 DEF RunStarts, Create
    <3> QED BY <3>1
  <2> QED BY <2>1, <2>2
<1>a. aged' \in BOOLEAN /\ (aged' => aged)
  BY Zenon DEF RunStarts, Create
<1>2. /\ UNCHANGED <<habits, signals, missed>> /\ runs[r].at = "idle"
      /\ runs' = [runs EXCEPT ![r].at = "racing", ![r].event = registered', ![r].working = TRUE]
  BY DEF RunStarts
<1>3. /\ \A q \in Runs \ {r} : runs'[q] = runs[q]
      /\ runs'[r].at = "racing" /\ runs'[r].event = registered' /\ runs'[r].working
      /\ runs'[r].how = runs[r].how /\ runs'[r].heard = runs[r].heard
      /\ runs' \in [Runs -> GuardedRuns']
  <2>1. runs[r] \in GuardedRuns /\ runs'[r] =
          [runs[r] EXCEPT !.at = "racing", !.event = registered', !.working = TRUE]
    BY <1>2
  <2>2. \A q \in Runs \ {r} : runs'[q] = runs[q] /\ runs[q] \in GuardedRuns
    BY <1>2
  <2>3. /\ runs'[r].at = "racing" /\ runs'[r].event = registered' /\ runs'[r].working
        /\ runs'[r].how = runs[r].how /\ runs'[r].heard = runs[r].heard /\ runs'[r] \in GuardedRuns'
    <3>1. registered' \in 0..events' /\ SignalCount' = SignalCount
      BY <1>1
    <3>2. runs'[r] = [at |-> "racing", event |-> registered', working |-> TRUE, how |-> runs[r].how,
                      heard |-> runs[r].heard]
      BY <2>1, Zenon DEF GuardedRuns
    <3> QED BY <2>1, <3>1, <3>2 DEF GuardedRuns
  <2>4. \A q \in Runs \ {r} : runs'[q] \in GuardedRuns'
    BY <1>1, <2>2 DEF GuardedRuns
  <2>5. runs' \in [Runs -> GuardedRuns']
    BY <1>2, <2>3, <2>4
  <2> QED BY <2>2, <2>3, <2>5
<1>4. "overlap" \notin habits => \A q \in 1..(r - 1) : runs[q].at = "ended"
  BY DEF RunStarts
<1>5. InterruptTypeOK'
  BY <1>1, <1>a, <1>2, <1>3
<1>6. InOrder'
  BY <1>2, <1>3, <1>4 DEF InOrder, Runs
<1>7. NotAged' /\ TriggerHeard'
  BY <1>a, <1>2 DEF NotAged, TriggerHeard
<1>8. EventKnown'
  <2>1. ASSUME "overlap" \notin habits, NEW q \in Runs, Racing(q)' PROVE q = r
    <3>1. q < r => runs[q].at = "ended"
      BY <1>4, <2>1 DEF Runs
    <3>2. q > r => runs[q].at = "idle"
      BY <1>2, <2>1 DEF InOrder, Runs
    <3> QED BY <1>3, <2>1, <3>1, <3>2 DEF Racing, Runs
  <2> QED BY <1>2, <1>3, <2>1 DEF EventKnown
<1>9. SetSince'
  <2> SUFFICES ASSUME "overlap" \notin habits, NEW q \in Runs \ {1}, runs'[q - 1].at = "ended"
               PROVE  /\ runs'[q].at = "idle" /\ registered' \in set' => signals > runs'[q - 1].heard
                      /\ Racing(q)' /\ runs'[q].event \in set' => signals > runs'[q - 1].heard
    BY <1>2 DEF SetSince
  <2>1. q - 1 # r /\ runs'[q - 1] = runs[q - 1]
    BY <1>3
  <2> QED BY <1>1, <1>2, <1>3, <2>1 DEF SetSince, Racing
<1>10. StillFree' /\ WorkGuarded'
  BY <1>1, <1>2, <1>3 DEF StillFree, WorkGuarded, Racing
<1>11. NoOldSignal'
  BY <1>2, <1>3 DEF NoOldSignal, StillFree
<1> QED BY <1>5, <1>6, <1>7, <1>8, <1>9, <1>10, <1>11

(* One run changes: the others stay, and so do the types.                  *)
Changed(r, at, how, working) ==
  [runs EXCEPT ![r].at = at, ![r].how = how, ![r].working = working, ![r].heard = signals]

LEMMA OneRun ==
  ASSUME SignalInv, NEW r \in Runs, UNCHANGED events,
         NEW at \in {"closing", "ended"}, NEW working \in BOOLEAN,
         NEW how \in {"none", "success", "error", "inner", "interrupted", "cancelled"},
         runs' = Changed(r, at, how, working)
  PROVE  /\ runs' \in [Runs -> GuardedRuns']
         /\ \A q \in Runs \ {r} : runs'[q] = runs[q]
         /\ runs'[r] = [at |-> at, event |-> runs[r].event, working |-> working, how |-> how,
                        heard |-> signals]
<1>1. runs \in [Runs -> GuardedRuns] /\ runs[r] \in GuardedRuns /\ signals \in 0..SignalCount
  BY DEF SignalInv, InterruptTypeOK
<1>2. \A q \in Runs \ {r} : runs'[q] = runs[q] /\ runs[q] \in GuardedRuns
  BY <1>1 DEF Changed
<1>3. runs'[r] = [runs[r] EXCEPT !.at = at, !.how = how, !.working = working, !.heard = signals]
  BY <1>1 DEF Changed
<1>4. runs'[r] = [at |-> at, event |-> runs[r].event, working |-> working, how |-> how,
                  heard |-> signals]
  BY <1>1, <1>3, Zenon DEF GuardedRuns
<1>5. GuardedRuns' = GuardedRuns
  BY DEF GuardedRuns
<1>6. runs'[r] \in GuardedRuns
  BY <1>1, <1>4 DEF GuardedRuns
<1>7. runs' \in [Runs -> GuardedRuns]
  BY <1>1, <1>2, <1>6 DEF Changed
<1> QED BY <1>2, <1>4, <1>5, <1>7

LEMMA ClosingInv ==
  ASSUME SignalInv, NEW r \in Runs, Racing(r), NEW working \in BOOLEAN,
         NEW how \in {"success", "error", "inner", "interrupted", "cancelled"},
         Closing(r, how, working), working => "cancel" \in habits,
         how = "interrupted" => runs[r].event \in set,
         UNCHANGED <<habits, registered, events, set, aged, signals, missed>>
  PROVE  SignalInv'
<1>1. /\ runs' \in [Runs -> GuardedRuns']
      /\ \A q \in Runs \ {r} : runs'[q] = runs[q]
      /\ runs'[r] = [at |-> "closing", event |-> runs[r].event, working |-> working, how |-> how,
                     heard |-> signals]
  <2>1. how \in {"none", "success", "error", "inner", "interrupted", "cancelled"} /\ UNCHANGED events
    OBVIOUS
  <2>2. "closing" \in {"closing", "ended"} /\ runs' = Changed(r, "closing", how, working)
    BY DEF Closing, Changed
  <2> QED BY <2>1, <2>2, OneRun
<1>2. InterruptTypeOK'
  BY <1>1 DEF SignalInv, InterruptTypeOK
<1>3. InOrder'
  <2>1. \A q \in Runs : /\ runs'[q].at # "idle" => runs[q].at # "idle"
                        /\ runs[q].at = "ended" => runs'[q].at = "ended"
    BY <1>1 DEF Racing
  <2>2. \A p \in Runs : \A q \in 1..(p - 1) : q \in Runs
    BY InterruptAssumption DEF Runs
  <2> QED BY <2>1, <2>2 DEF SignalInv, InOrder
<1>4. NotAged' /\ EventKnown' /\ TriggerHeard'
  BY <1>1 DEF SignalInv, NotAged, EventKnown, Racing, TriggerHeard
<1>5. SetSince'
  BY <1>1, RunBefore DEF SignalInv, SetSince, Racing
<1>6. StillFree'
  <2>1. signals \in Int
    BY InterruptAssumption DEF SignalInv, InterruptTypeOK
  <2> QED BY <1>1, <2>1 DEF SignalInv, StillFree
<1>7. WorkGuarded'
  BY <1>1 DEF SignalInv, WorkGuarded, Racing
<1>8. NoOldSignal'
  <2> SUFFICES ASSUME "overlap" \notin habits, NEW q \in Runs \ {1}, runs'[q].how = "interrupted"
               PROVE  runs'[q].heard > runs'[q - 1].heard
    BY DEF NoOldSignal
  <2>1. CASE q = r
    <3>1. runs[q - 1].at = "ended" /\ q - 1 # r
      BY <2>1, RunBefore DEF SignalInv, InOrder, Racing
    <3>2. signals > runs[q - 1].heard
      BY <1>1, <2>1, <3>1 DEF SignalInv, SetSince, Racing
    <3> QED BY <1>1, <2>1, <3>1, <3>2, RunBefore
  <2>2. CASE q # r
    <3>1. runs[q].how = "interrupted"
      BY <1>1, <2>2
    <3>2. runs[q].at # "idle"
      BY <3>1 DEF SignalInv, StillFree
    <3>3. q - 1 # r
      BY <3>2, RunBefore DEF SignalInv, InOrder, Racing
    <3> QED BY <1>1, <2>2, <3>1, <3>3, RunBefore DEF SignalInv, NoOldSignal
  <2> QED BY <2>1, <2>2
<1> QED BY <1>2, <1>3, <1>4, <1>5, <1>6, <1>7, <1>8 DEF SignalInv

LEMMA WorkEndsInv == ASSUME SignalInv, NEW r \in Runs, WorkEnds(r) PROVE SignalInv'
BY ClosingInv DEF WorkEnds

LEMMA RunInterruptedInv == ASSUME SignalInv, NEW r \in Runs, RunInterrupted(r) PROVE SignalInv'
BY ClosingInv DEF RunInterrupted, StopWork

LEMMA CallerCancelledInv == ASSUME SignalInv, NEW r \in Runs, CallerCancelled(r) PROVE SignalInv'
BY ClosingInv DEF CallerCancelled

LEMMA OrphanEndsInv ==
  ASSUME SignalInv, NEW r \in Runs, OrphanEnds(r)
  PROVE  SignalInv'
<1>1. /\ runs[r] \in GuardedRuns /\ runs \in [Runs -> GuardedRuns] /\ GuardedRuns' = GuardedRuns
      /\ UNCHANGED <<habits, registered, events, set, aged, signals, missed>>
      /\ runs' = [runs EXCEPT ![r].working = FALSE]
  BY DEF SignalInv, InterruptTypeOK, OrphanEnds, GuardedRuns
<1>2. runs'[r] = [at |-> runs[r].at, event |-> runs[r].event, working |-> FALSE,
                  how |-> runs[r].how, heard |-> runs[r].heard]
  BY <1>1, Zenon DEF GuardedRuns
<1>3. \A q \in Runs \ {r} : runs'[q] = runs[q]
  BY <1>1
<1>4. \A q \in Runs : /\ runs'[q].at = runs[q].at /\ runs'[q].event = runs[q].event
                      /\ runs'[q].how = runs[q].how /\ runs'[q].heard = runs[q].heard
                      /\ runs'[q].working => runs[q].working
  BY <1>2, <1>3
<1>5. InterruptTypeOK'
  <2>1. runs'[r] \in GuardedRuns
    BY <1>1, <1>2, ZenonT(40) DEF GuardedRuns
  <2>2. runs' \in [Runs -> GuardedRuns]
    BY <1>1, <2>1
  <2> QED BY <1>1, <2>2 DEF SignalInv, InterruptTypeOK
<1>6. \A p \in Runs : \A q \in 1..(p - 1) : q \in Runs
  BY InterruptAssumption DEF Runs
<1>7. InOrder' /\ NotAged' /\ TriggerHeard'
  BY <1>1, <1>4, <1>6 DEF SignalInv, InOrder, NotAged, TriggerHeard
<1>8. EventKnown' /\ SetSince' /\ StillFree' /\ WorkGuarded' /\ NoOldSignal'
  BY <1>1, <1>4, RunBefore DEF SignalInv, EventKnown, SetSince, StillFree, WorkGuarded, NoOldSignal, Racing
<1> QED BY <1>5, <1>7, <1>8 DEF SignalInv

LEMMA RunEndsInv ==
  ASSUME SignalInv, NEW r \in Runs, RunEnds(r)
  PROVE  SignalInv'
<1>1. /\ runs[r] \in GuardedRuns /\ runs \in [Runs -> GuardedRuns] /\ GuardedRuns' = GuardedRuns
      /\ UNCHANGED <<habits, events, set, signals, missed>> /\ runs[r].at = "closing"
      /\ registered' = 0 /\ signals \in 0..SignalCount
      /\ runs' = [runs EXCEPT ![r].at = "ended", ![r].heard = signals]
  BY DEF SignalInv, InterruptTypeOK, RunEnds, Close, Cleanup, GuardedRuns
<1>2. aged' = FALSE
  BY DEF RunEnds, Close, Cleanup
<1>3. runs'[r] = [at |-> "ended", event |-> runs[r].event, working |-> runs[r].working,
                  how |-> runs[r].how, heard |-> signals]
  BY <1>1, Zenon DEF GuardedRuns
<1>4. \A q \in Runs \ {r} : runs'[q] = runs[q]
  BY <1>1
<1>5. InterruptTypeOK'
  <2>1. runs'[r] \in GuardedRuns
    BY <1>1, <1>3 DEF GuardedRuns
  <2>2. runs' \in [Runs -> GuardedRuns]
    BY <1>1, <2>1
  <2>3. aged' \in BOOLEAN
    BY <1>2
  <2>4. registered' \in 0..events' /\ events \in Nat
    BY <1>1 DEF SignalInv, InterruptTypeOK
  <2> QED BY <1>1, <2>2, <2>3, <2>4 DEF SignalInv, InterruptTypeOK
<1>6. \A p \in Runs : \A q \in 1..(p - 1) : q \in Runs
  BY InterruptAssumption DEF Runs
<1>7. InOrder' /\ NotAged' /\ TriggerHeard'
  BY <1>1, <1>2, <1>3, <1>4, <1>6 DEF SignalInv, InOrder, NotAged, TriggerHeard
(* Where runs do not overlap, no other is going on.                        *)
<1>8. ASSUME "overlap" \notin habits, NEW q \in Runs PROVE ~Racing(q)
  <2>1. CASE q > r
    BY <1>1, <1>8, <2>1 DEF SignalInv, InOrder, Runs, Racing
  <2>2. CASE q < r
    BY <1>1, <1>8, <2>2 DEF SignalInv, InOrder, Runs, Racing
  <2>3. CASE q = r
    BY <1>1, <2>3 DEF Racing
  <2> QED BY <2>1, <2>2, <2>3 DEF Runs
<1>9. EventKnown'
  BY <1>1, <1>3, <1>4, <1>8 DEF EventKnown, Racing
<1>10. SetSince'
  <2>1. 0 \notin set
    BY DEF SignalInv, InterruptTypeOK
  <2>2. "overlap" \notin habits => \A q \in Runs : runs'[q].at # "racing"
    BY <1>3, <1>4, <1>8 DEF Racing
  <2> QED BY <1>1, <2>1, <2>2 DEF SetSince, Racing
<1>11. StillFree'
  BY <1>1, <1>3, <1>4 DEF SignalInv, StillFree
<1>12. WorkGuarded'
  BY <1>1, <1>3, <1>4 DEF SignalInv, WorkGuarded, Racing
<1>13. NoOldSignal'
  <2> SUFFICES ASSUME "overlap" \notin habits, NEW q \in Runs \ {1}, runs'[q].how = "interrupted"
               PROVE  runs'[q].heard > runs'[q - 1].heard
    BY <1>1 DEF NoOldSignal
  <2>1. runs[q].how = "interrupted" /\ runs[q].at # "idle" /\ runs[q].heard > runs[q - 1].heard
    BY <1>1, <1>3, <1>4 DEF SignalInv, NoOldSignal, StillFree
  <2>2. q - 1 # r
    BY <1>1, <2>1, RunBefore DEF SignalInv, InOrder
  <2>3. CASE q = r
    <3>1. signals \in Int /\ runs[r].heard \in Int /\ runs[q - 1].heard \in Int /\ runs[r].heard <= signals
      <4>1. runs[q - 1] \in GuardedRuns
        BY <1>1, RunBefore
      <4> QED BY <1>1, <4>1, InterruptAssumption DEF SignalInv, StillFree, GuardedRuns
    <3> QED BY <1>3, <1>4, <2>1, <2>2, <2>3, <3>1, RunBefore
  <2>4. CASE q # r
    BY <1>4, <2>1, <2>2, <2>4, RunBefore
  <2> QED BY <2>3, <2>4
<1> QED BY <1>5, <1>7, <1>9, <1>10, <1>11, <1>12, <1>13 DEF SignalInv

(* What the signals and the registered event do not change.                *)
LEMMA EventStepInv ==
  ASSUME SignalInv, UNCHANGED <<habits, runs>>, events' \in Nat, events' >= events,
         registered' \in 0..events', set' \subseteq 1..events', set \subseteq set',
         signals' \in 0..SignalCount, signals' >= signals,
         aged' \in BOOLEAN, "age" \notin habits => ~aged', TriggerHeard', EventKnown',
         signals' = signals => UNCHANGED set /\ registered' \in {0, registered},
         missed' \subseteq Runs
  PROVE  SignalInv'
<1>1. signals \in Int /\ signals' \in Int /\ \A q \in Runs : runs[q] \in GuardedRuns
  BY InterruptAssumption DEF SignalInv, InterruptTypeOK
<1>2. \A q \in Runs : runs[q].heard \in Int
  BY <1>1, InterruptAssumption DEF GuardedRuns
<1>3. InterruptTypeOK'
  <2>1. \A q \in Runs : runs'[q] \in GuardedRuns'
    BY <1>1 DEF GuardedRuns, SignalInv, InterruptTypeOK
  <2>2. runs' \in [Runs -> GuardedRuns']
    BY <2>1 DEF SignalInv, InterruptTypeOK
  <2> QED BY <2>2 DEF SignalInv, InterruptTypeOK
<1>4. InOrder' /\ NotAged' /\ WorkGuarded' /\ NoOldSignal'
  BY DEF SignalInv, InOrder, NotAged, WorkGuarded, NoOldSignal, Racing
<1>5. StillFree'
  BY <1>1, <1>2 DEF SignalInv, StillFree
<1>6. SetSince'
  <2>1. CASE signals' = signals
    <3>1. 0 \notin set
      BY DEF SignalInv, InterruptTypeOK
    <3> QED BY <2>1, <3>1 DEF SignalInv, SetSince, Racing
  <2>2. CASE signals' > signals
    BY <1>1, <1>2, <2>2, RunBefore DEF SignalInv, StillFree, SetSince
  <2> QED BY <1>1, <2>1, <2>2
<1> QED BY <1>3, <1>4, <1>5, <1>6 DEF SignalInv

LEMMA TriggerInv ==
  ASSUME SignalInv, Trigger
  PROVE  SignalInv'
<1>1. /\ UNCHANGED <<habits, runs>> /\ signals < SignalCount /\ signals' = signals + 1
      /\ missed' = missed \cup {r \in Runs : Racing(r) /\ runs[r].event \notin set'}
  BY DEF Trigger
<1>2. /\ events \in Nat /\ registered \in 0..events /\ set \subseteq 1..events
      /\ signals \in 0..SignalCount /\ missed \subseteq Runs
  BY DEF SignalInv, InterruptTypeOK
<1>3. /\ events' \in Nat /\ events' >= events /\ registered' \in 0..events' /\ set' \subseteq 1..events'
      /\ set' = set \cup {registered'}
      /\ registered # 0 => registered' = registered
  <2>1. CASE registered # 0
    <3>1. set' = set \cup {registered} /\ registered' = registered /\ events' = events
      BY <2>1 DEF Trigger, Signal
    <3> QED BY <1>2, <2>1, <3>1
  <2>2. CASE registered = 0
    <3>1. events' = events + 1 /\ registered' = events + 1 /\ set' = set \cup {events + 1}
      BY <2>2 DEF Trigger, Signal, Create
    <3> QED BY <1>2, <2>2, <3>1
  <2> QED BY <2>1, <2>2
<1>4. aged' \in BOOLEAN /\ (aged' => aged)
  BY Zenon DEF SignalInv, InterruptTypeOK, Trigger, Signal, Create
<1>5. "age" \notin habits => ~aged'
  BY <1>4 DEF SignalInv, NotAged
(* A run that races has the event that is set now, or one set before.      *)
<1>6. ASSUME habits \cap {"overlap", "age"} = {}, NEW r \in Runs, Racing(r)
      PROVE  runs[r].event \in set'
  <2>1. runs[r].event \in {registered} \cup set /\ runs[r].event # 0
    BY <1>6 DEF SignalInv, EventKnown, StillFree, Racing
  <2> QED BY <1>2, <1>3, <2>1
<1>7. TriggerHeard' /\ EventKnown'
  BY <1>1, <1>6 DEF SignalInv, TriggerHeard, EventKnown, Racing
<1>8. /\ signals' \in 0..SignalCount /\ signals' >= signals /\ signals' # signals
      /\ set \subseteq set' /\ missed' \subseteq Runs
  BY <1>1, <1>2, <1>3, InterruptAssumption
<1> QED BY <1>1, <1>2, <1>3, <1>4, <1>5, <1>7, <1>8, EventStepInv

LEMMA ReplaceInv ==
  ASSUME SignalInv, Replace
  PROVE  SignalInv'
<1>1. /\ UNCHANGED <<habits, runs, missed>> /\ signals < SignalCount /\ signals' = signals + 1
      /\ events' = events + 1 /\ registered' = events + 1
      /\ set' = set \cup ({registered} \ {0})
  BY DEF Replace, Create
<1>2. /\ events \in Nat /\ registered \in 0..events /\ set \subseteq 1..events
      /\ signals \in 0..SignalCount /\ missed \subseteq Runs
  BY DEF SignalInv, InterruptTypeOK
<1>3. aged' = FALSE
  BY DEF Replace, Create
<1>4. TriggerHeard' /\ EventKnown'
  BY <1>1, <1>2 DEF SignalInv, TriggerHeard, EventKnown, StillFree, Racing
<1>5. /\ signals' \in 0..SignalCount /\ signals' >= signals /\ signals' # signals
      /\ events' \in Nat /\ events' >= events /\ registered' \in 0..events'
      /\ set' \subseteq 1..events' /\ set \subseteq set' /\ missed' \subseteq Runs
  BY <1>1, <1>2, InterruptAssumption
<1>6. aged' \in BOOLEAN /\ ("age" \notin habits => ~aged')
  BY <1>3
<1> QED BY <1>1, <1>4, <1>5, <1>6, EventStepInv

LEMMA EventAgesInv ==
  ASSUME SignalInv, EventAges
  PROVE  SignalInv'
<1>1. UNCHANGED <<habits, registered, events, set, runs, signals, missed>> /\ "age" \in habits
  BY DEF EventAges
<1>2. aged' = TRUE
  BY DEF EventAges
<1>3. /\ events \in Nat /\ registered \in 0..events /\ set \subseteq 1..events
      /\ signals \in 0..SignalCount /\ missed \subseteq Runs /\ signals >= signals
  BY InterruptAssumption DEF SignalInv, InterruptTypeOK
<1>4. TriggerHeard' /\ EventKnown'
  BY <1>1 DEF SignalInv, TriggerHeard, EventKnown, Racing
<1>5. aged' \in BOOLEAN
  BY <1>2
<1> QED BY <1>1, <1>3, <1>4, <1>5, EventStepInv

LEMMA AutoCleanupInv ==
  ASSUME SignalInv, AutoCleanup
  PROVE  SignalInv'
<1>1. UNCHANGED <<habits, events, set, runs, signals, missed>> /\ registered' = 0
  BY DEF AutoCleanup, Cleanup
<1>2. aged /\ aged' = FALSE
  BY DEF AutoCleanup, Cleanup
<1>3. /\ events \in Nat /\ set \subseteq 1..events /\ signals \in 0..SignalCount
      /\ missed \subseteq Runs /\ signals >= signals /\ 0 \in 0..events
  BY InterruptAssumption DEF SignalInv, InterruptTypeOK
<1>4. "age" \in habits
  BY <1>2 DEF SignalInv, NotAged
<1>5. TriggerHeard' /\ EventKnown'
  BY <1>1, <1>4 DEF SignalInv, TriggerHeard, EventKnown
<1>6. aged' \in BOOLEAN /\ ("age" \notin habits => ~aged')
  BY <1>2
<1> QED BY <1>1, <1>3, <1>5, <1>6, EventStepInv

LEMMA StutterInv == ASSUME SignalInv, UNCHANGED interruptVars PROVE SignalInv'
<1>1. \A r \in Runs : Racing(r)' <=> Racing(r)
  BY DEF Racing, interruptVars
<1>2. InterruptTypeOK'
  BY Zenon DEF SignalInv, InterruptTypeOK, GuardedRuns, interruptVars
<1>3. InOrder' /\ NotAged' /\ EventKnown' /\ SetSince' /\ StillFree' /\ WorkGuarded'
  BY <1>1 DEF SignalInv, InOrder, NotAged, EventKnown, SetSince, StillFree, WorkGuarded, interruptVars
<1>4. TriggerHeard' /\ NoOldSignal'
  BY DEF SignalInv, TriggerHeard, NoOldSignal, interruptVars
<1> QED BY <1>2, <1>3, <1>4 DEF SignalInv

LEMMA SpecInv == InterruptSpec => []SignalInv
<1>1. ASSUME SignalInv, [InterruptNext]_interruptVars PROVE SignalInv'
  <2>1. CASE \E r \in Runs : \/ RunStarts(r) \/ WorkEnds(r) \/ RunInterrupted(r) \/ RunEnds(r)
                             \/ CallerCancelled(r) \/ OrphanEnds(r)
    BY <1>1, <2>1, RunStartsInv, WorkEndsInv, RunInterruptedInv, RunEndsInv, CallerCancelledInv,
       OrphanEndsInv
  <2>2. CASE Trigger \/ Replace
    BY <1>1, <2>2, TriggerInv, ReplaceInv
  <2>3. CASE EventAges \/ AutoCleanup
    BY <1>1, <2>3, EventAgesInv, AutoCleanupInv
  <2>4. CASE UNCHANGED interruptVars
    BY <1>1, <2>4, StutterInv
  <2> QED BY <1>1, <2>1, <2>2, <2>3, <2>4 DEF InterruptNext
<1> QED BY InitInv, <1>1, PTL DEF InterruptSpec

(* The registry of events and the guarded runs are well typed.             *)
THEOREM InterruptTypes == InterruptSpec => []InterruptTypeOK
BY SpecInv, PTL DEF SignalInv

(* A guarded run hears the signals meant for it, none that an earlier run  *)
(* has left behind, and leaves no work behind (core/agent/interrupt.py).   *)
THEOREM SignalsReachTheirRun == InterruptSpec => []SignalsRight
<1>1. SignalInv => SignalsRight
  <2>1. SignalInv => NoOrphans
    BY DEF SignalInv, NoOrphans, WorkGuarded, Racing
  <2> QED BY <2>1 DEF SignalInv, SignalsRight
<1> QED BY <1>1, SpecInv, PTL

-----------------------------------------------------------------------------
(* What the user is told of the volume (DeviceCalls).                      *)

CommandRows ==
  [action : {"none", "set", "increase", "decrease", "mute", "unmute"}, value : Nat,
   at : {"none", "read", "write", "back", "said", "failed", "killed"},
   id : Nat, target : Nat, seq : Nat, told : Nat]
WireRows   == [id : Nat, op : {"read", "set"}, v : Nat]
AnswerRows == [id : Nat, kind : {"level", "bare", "error"}, v : Nat]
EntryRows  == [seq : Nat, left : Nat, v : Nat]
FlushRows  == [at : {"none", "next", "write", "back"}, list : Seq(EntryRows), id : Nat, last : BOOLEAN]

DeviceKinds ==
  /\ level \in Nat
  /\ commands \in [Commands -> CommandRows]
  /\ wire \in Seq(WireRows)
  /\ answers \in Seq(AnswerRows)
  /\ nextId \in Nat
  /\ deferred \in Seq(EntryRows)
  /\ writeSeq \in Nat
  /\ flushes \in [Flushes -> FlushRows]
  /\ \A f \in Flushes : flushes[f].at \in {"write", "back"} => flushes[f].list # <<>>
  /\ held \in [Commands -> SUBSET Nat]

IsUnderWay(row) == row.at \in {"read", "write", "back"}

(* What is on its way under the number of a command that waits. *)
MayAsk(row, r) ==
  IsUnderWay(row) /\ row.id = r.id =>
    IF row.at = "write" THEN r.op = "set" /\ r.v = row.target ELSE r.op = "read"

MayTell(row, had, a) ==
  IsUnderWay(row) /\ row.id = a.id =>
    /\ row.at # "write" => a.v \in had
    /\ row.at = "write" /\ a.kind = "level" => a.v \in had
    /\ row.at = "write" /\ a.kind = "bare" => row.target \in had

(* Of a command: what it holds, what it told, what it may yet tell. *)
Honest(row, had, now, next, asks, tells) ==
  /\ IsUnderWay(row) => row.id < next /\ now \in had /\ row.told = 0
  /\ row.at = "back" => row.target \in had
  /\ row.at = "none" => row.told = 0
  /\ row.at = "said" /\ row.told # 0 => row.told \in had
  /\ \A k \in 1..Len(asks) : MayAsk(row, asks[k])
  /\ \A k \in 1..Len(tells) : MayTell(row, had, tells[k])

Numbered ==
  /\ \A k \in 1..Len(wire) : wire[k].id < nextId
  /\ \A k \in 1..Len(answers) : answers[k].id < nextId

AllHonest == \A c \in Commands : Honest(commands[c], held[c], level, nextId, wire, answers)

ToldInv == DeviceKinds /\ Numbered /\ AllHonest

LEMMA DeviceBounds ==
  /\ MaxVolume \in Nat
  /\ UnmuteLevel \in Nat \ {0}
  /\ UnmuteLevel <= MaxVolume
  /\ MaxAttempts \in Nat
  /\ \A o \in Orders : o[1] \in {"set", "increase", "decrease", "mute", "unmute"} /\ o[2] \in Nat
BY DeviceAssumption

(* The rows of a command that begins, and that commits. *)
LEMMA BeginsRow ==
  ASSUME NEW c \in Commands, commands[c] \in CommandRows, NEW o \in Orders
  PROVE  /\ Begin(c, o) \in CommandRows
         /\ Begin(c, o).told = commands[c].told
         /\ Begin(c, o).at = commands[c].at
         /\ Begin(c, o).id = commands[c].id
         /\ Begin(c, o).seq = commands[c].seq
         /\ Begin(c, o).target = commands[c].target
         /\ Begin(c, o).action = o[1]
<1>1. o[1] \in {"set", "increase", "decrease", "mute", "unmute"} /\ o[2] \in Nat
  BY DeviceBounds
<1> DEFINE a == o[1]
           n == o[2]
<1>2. Begin(c, o) = [commands[c] EXCEPT !.action = a, !.value = n]
  BY DEF Begin
<1> HIDE DEF a, n
<1>3. a \in {"set", "increase", "decrease", "mute", "unmute"} /\ n \in Nat
  BY <1>1 DEF a, n
<1>4. /\ Begin(c, o) \in CommandRows
      /\ Begin(c, o).told = commands[c].told
      /\ Begin(c, o).at = commands[c].at
      /\ Begin(c, o).id = commands[c].id
      /\ Begin(c, o).seq = commands[c].seq
      /\ Begin(c, o).target = commands[c].target
      /\ Begin(c, o).action = a
  BY <1>2, <1>3 DEF CommandRows
<1> QED BY <1>4 DEF a

LEMMA CommittedRow ==
  ASSUME NEW rec \in CommandRows, NEW to \in Nat, NEW at \in {"write", "said"},
         writeSeq \in Nat, nextId \in Nat
  PROVE  /\ Committed(rec, to, at) \in CommandRows
         /\ Committed(rec, to, at).at = at
         /\ Committed(rec, to, at).target = to
         /\ Committed(rec, to, at).seq = writeSeq + 1
         /\ Committed(rec, to, at).told = rec.told
         /\ Committed(rec, to, at).action = rec.action
         /\ at = "write" => Committed(rec, to, at).id = nextId
<1> DEFINE w == writeSeq + 1
           i == IF at = "write" THEN nextId ELSE 0
<1>1. Committed(rec, to, at) = [rec EXCEPT !.at = at, !.target = to, !.seq = w, !.id = i]
  BY DEF Committed, NewId
<1>2. w \in Nat /\ i \in Nat /\ (at = "write" => i = nextId)
  OBVIOUS
<1> HIDE DEF w, i
<1>3. /\ Committed(rec, to, at) \in CommandRows
      /\ Committed(rec, to, at).at = at
      /\ Committed(rec, to, at).target = to
      /\ Committed(rec, to, at).seq = w
      /\ Committed(rec, to, at).told = rec.told
      /\ Committed(rec, to, at).action = rec.action
      /\ Committed(rec, to, at).id = i
  BY <1>1, <1>2 DEF CommandRows
<1> QED BY <1>2, <1>3 DEF w

LEMMA ClampIsNat == \A v \in Nat : Clamp(v) \in Nat
BY DeviceBounds DEF Clamp

LEMMA HeadTail ==
  ASSUME NEW S, NEW s \in Seq(S), s # <<>>
  PROVE  /\ Head(s) = s[1]
         /\ Head(s) \in S
         /\ 1 \in 1..Len(s)
         /\ Tail(s) \in Seq(S)
         /\ Len(Tail(s)) = Len(s) - 1
         /\ \A k \in 1..Len(Tail(s)) : Tail(s)[k] = s[k + 1] /\ k + 1 \in 1..Len(s)
<1>1. Len(s) \in Nat /\ Len(s) # 0
  BY EmptySeq, LenProperties
<1>2. /\ Head(s) \in S /\ Tail(s) \in Seq(S) /\ Len(Tail(s)) = Len(s) - 1
      /\ \A k \in 1..Len(Tail(s)) : Tail(s)[k] = s[k + 1]
  BY HeadTailProperties
<1>3. Head(s) = s[1]
  OBVIOUS
<1> QED BY <1>1, <1>2, <1>3

LEMMA Appended ==
  ASSUME NEW S, NEW s \in Seq(S), NEW e \in S
  PROVE  /\ Append(s, e) \in Seq(S)
         /\ Len(Append(s, e)) = Len(s) + 1
         /\ \A k \in 1..Len(Append(s, e)) : (k \in 1..Len(s) /\ Append(s, e)[k] = s[k]) \/ Append(s, e)[k] = e
         /\ \A k \in 1..Len(s) : k \in 1..Len(Append(s, e)) /\ Append(s, e)[k] = s[k]
         /\ Append(s, e)[Len(s) + 1] = e
<1>1. Len(s) \in Nat
  BY LenProperties
<1>2. /\ Append(s, e) \in Seq(S) /\ Len(Append(s, e)) = Len(s) + 1
      /\ \A k \in 1..Len(s) : Append(s, e)[k] = s[k]
      /\ Append(s, e)[Len(s) + 1] = e
  BY AppendProperties
<1> DEFINE t == Append(s, e)
<1>3. \A k \in 1..Len(t) : k \in 1..Len(s) \/ k = Len(s) + 1
  BY <1>1, <1>2
<1>4. \A k \in 1..Len(s) : k \in 1..Len(t)
  BY <1>1, <1>2
<1> HIDE DEF t
<1> QED BY <1>2, <1>3, <1>4 DEF t

(* Of a sequence: all of it is in another one, or is e. *)
FromOr(t, s, e) == \A k \in 1..Len(t) : t[k] = e \/ \E j \in 1..Len(s) : t[k] = s[j]

LEMMA AppendFrom ==
  ASSUME NEW S, NEW s \in Seq(S), NEW e \in S
  PROVE  FromOr(Append(s, e), s, e)
BY Appended DEF FromOr

LEMMA TailFrom ==
  ASSUME NEW S, NEW s \in Seq(S), s # <<>>, NEW e
  PROVE  FromOr(Tail(s), s, e)
BY HeadTail DEF FromOr

LEMMA SelfFrom ==
  ASSUME NEW s, NEW e
  PROVE  FromOr(s, s, e)
BY DEF FromOr

LEMMA EmptyFrom ==
  ASSUME NEW s, NEW e
  PROVE  FromOr(<<>>, s, e)
BY DEF FromOr

-----------------------------------------------------------------------------
(* What is under a number not given before is of nobody else.              *)

Within(t, s) == \A k \in 1..Len(t) : \E j \in 1..Len(s) : t[k] = s[j]

LEMMA TailWithin ==
  ASSUME NEW S, NEW s \in Seq(S), s # <<>>
  PROVE  Within(Tail(s), s)
BY HeadTail DEF Within

LEMMA SelfWithin == \A s : Within(s, s)
BY DEF Within

LEMMA EmptyWithin == \A s : Within(<<>>, s)
BY DEF Within

LEMMA OthersStayHonest ==
  ASSUME NEW row \in CommandRows, NEW had, NEW now, NEW next \in Nat, NEW next2 \in Nat, next <= next2,
         NEW asks, NEW tells, NEW asks2, NEW tells2, NEW q,
         Honest(row, had, now, next, asks, tells),
         q.id = next,
         Within(asks2, asks) \/ FromOr(asks2, asks, q), Within(tells2, tells)
  PROVE  Honest(row, had, now, next2, asks2, tells2)
<1>1. row.id \in Nat
  BY DEF CommandRows
<1>2. MayAsk(row, q)
  BY <1>1 DEF Honest, MayAsk
<1>3. \A k \in 1..Len(asks2) : MayAsk(row, asks2[k])
  BY <1>2 DEF Honest, FromOr, Within
<1>4. \A k \in 1..Len(tells2) : MayTell(row, had, tells2[k])
  BY DEF Honest, Within
<1>5. IsUnderWay(row) => row.id < next2
  BY <1>1 DEF Honest
<1> QED BY <1>3, <1>4, <1>5 DEF Honest

(* A row that is not under way has nothing on its way. *)
LEMMA DoneRowIsHonest ==
  ASSUME NEW row, NEW had, NEW now, NEW next, NEW asks, NEW tells,
         row.at \in {"none", "said", "failed", "killed"},
         row.at = "none" => row.told = 0,
         row.at = "said" /\ row.told # 0 => row.told \in had
  PROVE  Honest(row, had, now, next, asks, tells)
BY DEF Honest, MayAsk, MayTell, IsUnderWay

(* A row that has just called under a new number has its call on its way. *)
LEMMA NewCallIsHonest ==
  ASSUME NEW row \in CommandRows, NEW had, NEW now, NEW next \in Nat, NEW asks, NEW tells, NEW old1, NEW old2,
         NEW q,
         \A k \in 1..Len(old1) : old1[k].id # next,
         \A k \in 1..Len(old2) : old2[k].id # next,
         Within(asks, old1) \/ FromOr(asks, old1, q), Within(tells, old2),
         row.at \in {"read", "write", "back"}, row.id = next, row.told = 0, now \in had,
         row.at = "back" => row.target \in had,
         MayAsk(row, q)
  PROVE  Honest(row, had, now, next + 1, asks, tells)
<1>1. \A k \in 1..Len(asks) : MayAsk(row, asks[k])
  BY DEF FromOr, Within, MayAsk
<1>2. \A k \in 1..Len(tells) : MayTell(row, had, tells[k])
  BY DEF Within, MayTell
<1> QED BY <1>1, <1>2 DEF Honest, IsUnderWay

-----------------------------------------------------------------------------
(* What a step may do to the traffic: send a call under the next number,   *)
(* take answers, lose everything.                                          *)
Traffic(q) ==
  /\ wire' \in Seq(WireRows)
  /\ answers' \in Seq(AnswerRows)
  /\ nextId' \in Nat
  /\ nextId <= nextId'
  /\ q \in WireRows
  /\ q.id = nextId
  /\ Within(answers', answers)
  /\ \/ Within(wire', wire)
     \/ FromOr(wire', wire, q) /\ nextId' = nextId + 1

Request(op, v) == [id |-> nextId, op |-> op, v |-> v]

LEMMA CallIsTraffic ==
  ASSUME DeviceKinds, NEW op \in {"read", "set"}, NEW v \in Nat, Call(op, v),
         answers' \in Seq(AnswerRows), Within(answers', answers)
  PROVE  /\ Traffic(Request(op, v))
         /\ nextId' = nextId + 1
<1>1. wire \in Seq(WireRows) /\ nextId \in Nat /\ nextId' = nextId + 1
  BY DEF DeviceKinds, Call, NewId
<1>2. Request(op, v) \in WireRows /\ Request(op, v).id = nextId
  BY <1>1 DEF Request, WireRows
<1>3. wire' = wire \/ wire' = Append(wire, Request(op, v))
  BY DEF Call, NewId, Request
<1>4. CASE wire' = wire
  BY <1>1, <1>2, <1>4, SelfWithin DEF Traffic
<1>5. CASE wire' = Append(wire, Request(op, v))
  <2>1. wire' \in Seq(WireRows) /\ FromOr(wire', wire, Request(op, v))
    BY <1>1, <1>2, <1>5, Appended, AppendFrom
  <2> QED BY <1>1, <1>2, <2>1 DEF Traffic
<1> QED BY <1>1, <1>3, <1>4, <1>5

LEMMA CallsIsTraffic ==
  ASSUME DeviceKinds, NEW op \in {"read", "set"}, NEW v \in Nat, NEW id, answers # <<>>, Calls(id, op, v)
  PROVE  /\ Traffic(Request(op, v))
         /\ nextId' = nextId + 1
<1>1. wire \in Seq(WireRows) /\ nextId \in Nat /\ nextId' = nextId + 1 /\ answers \in Seq(AnswerRows)
  BY DEF DeviceKinds, Calls
<1>2. Request(op, v) \in WireRows /\ Request(op, v).id = nextId
  BY <1>1 DEF Request, WireRows
<1>3. wire' = Append(wire, Request(op, v)) /\ answers' = Tail(answers)
  BY DEF Calls, NewId, Request
<1>4. wire' \in Seq(WireRows) /\ FromOr(wire', wire, Request(op, v))
  BY <1>1, <1>2, <1>3, Appended, AppendFrom
<1>5. answers' \in Seq(AnswerRows) /\ Within(answers', answers)
  BY <1>1, <1>3, HeadTail, TailWithin
<1> QED BY <1>1, <1>2, <1>4, <1>5 DEF Traffic

(* Nothing is called. *)
LEMMA NoCallIsTraffic ==
  ASSUME DeviceKinds, wire' \in {wire, <<>>}, nextId' = nextId,
         answers' = answers \/ answers' = <<>> \/ (answers # <<>> /\ answers' = Tail(answers))
  PROVE  Traffic(Request("read", 0))
<1>1. wire \in Seq(WireRows) /\ answers \in Seq(AnswerRows) /\ nextId \in Nat
  BY DEF DeviceKinds
<1>2. Request("read", 0) \in WireRows /\ Request("read", 0).id = nextId
  BY <1>1 DEF Request, WireRows
<1>3. wire' \in Seq(WireRows) /\ Within(wire', wire)
  BY <1>1, SelfWithin, EmptyWithin, EmptySeq
<1>4. answers' \in Seq(AnswerRows) /\ Within(answers', answers)
  <2>1. CASE answers' = answers
    BY <1>1, <2>1, SelfWithin
  <2>2. CASE answers' = <<>>
    BY <1>1, <2>2, EmptyWithin, EmptySeq
  <2>3. CASE answers # <<>> /\ answers' = Tail(answers)
    BY <1>1, <2>3, HeadTail, TailWithin
  <2> QED BY <2>1, <2>2, <2>3
<1> QED BY <1>1, <1>2, <1>3, <1>4 DEF Traffic

LEMMA TrafficKeeps ==
  ASSUME ToldInv, NEW q, Traffic(q)
  PROVE  /\ Numbered'
         /\ \A c \in Commands : Honest(commands[c], held[c], level, nextId', wire', answers')
<1>1. nextId \in Nat /\ nextId' \in Nat /\ nextId <= nextId' /\ q.id = nextId
      /\ Within(answers', answers) /\ (Within(wire', wire) \/ (FromOr(wire', wire, q) /\ nextId' = nextId + 1))
  BY DEF ToldInv, DeviceKinds, Traffic
<1>2. /\ \A k \in 1..Len(wire) : wire[k].id \in Nat /\ wire[k].id < nextId
      /\ \A k \in 1..Len(answers) : answers[k].id \in Nat /\ answers[k].id < nextId
  <2>1. /\ \A k \in 1..Len(wire) : wire[k] \in WireRows
        /\ \A k \in 1..Len(answers) : answers[k] \in AnswerRows
    BY ElementOfSeq DEF ToldInv, DeviceKinds
  <2> QED BY <2>1 DEF ToldInv, Numbered, WireRows, AnswerRows
<1>3. ASSUME NEW k \in 1..Len(wire') PROVE wire'[k].id < nextId'
  <2>1. (wire'[k] = q /\ nextId' = nextId + 1) \/ \E j \in 1..Len(wire) : wire'[k] = wire[j]
    BY <1>1 DEF Within, FromOr
  <2> QED BY <1>1, <1>2, <2>1
<1>4. ASSUME NEW k \in 1..Len(answers') PROVE answers'[k].id < nextId'
  <2>1. \E j \in 1..Len(answers) : answers'[k] = answers[j]
    BY <1>1 DEF Within
  <2> QED BY <1>1, <1>2, <2>1
<1>5. Numbered'
  BY <1>3, <1>4 DEF Numbered
<1>6. ASSUME NEW c \in Commands PROVE Honest(commands[c], held[c], level, nextId', wire', answers')
  <2>1. commands[c] \in CommandRows /\ Honest(commands[c], held[c], level, nextId, wire, answers)
    BY DEF ToldInv, DeviceKinds, AllHonest
  <2> QED BY <1>1, <2>1, OthersStayHonest
<1> QED BY <1>5, <1>6

LEMMA OneCommandKeeps ==
  ASSUME ToldInv, NEW q, Traffic(q), level' = level, NEW c \in Commands,
         NEW row \in CommandRows, NEW had \in SUBSET Nat,
         commands' = [commands EXCEPT ![c] = row],
         held' = [held EXCEPT ![c] = had],
         Honest(row, had, level, nextId', wire', answers')
  PROVE  /\ Numbered'
         /\ AllHonest'
         /\ commands' \in [Commands -> CommandRows]
         /\ held' \in [Commands -> SUBSET Nat]
<1>1. commands \in [Commands -> CommandRows] /\ held \in [Commands -> SUBSET Nat]
  BY DEF ToldInv, DeviceKinds
<1>2. commands' \in [Commands -> CommandRows] /\ held' \in [Commands -> SUBSET Nat]
  BY <1>1
<1>3. ASSUME NEW d \in Commands PROVE Honest(commands'[d], held'[d], level', nextId', wire', answers')
  <2>1. CASE d = c
    <3>1. commands'[d] = row /\ held'[d] = had
      BY <1>1, <2>1
    <3> QED BY <3>1
  <2>2. CASE d # c
    <3>1. commands'[d] = commands[d] /\ held'[d] = held[d]
      BY <1>1, <2>2
    <3> QED BY <3>1, TrafficKeeps
  <2> QED BY <2>1, <2>2
<1>4. AllHonest'
  BY <1>3 DEF AllHonest
<1> QED BY <1>2, <1>4, TrafficKeeps

LEMMA NoCommandKeeps ==
  ASSUME ToldInv, NEW q, Traffic(q), level' = level, commands' = commands, held' = held
  PROVE  /\ Numbered'
         /\ AllHonest'
         /\ commands' \in [Commands -> CommandRows]
         /\ held' \in [Commands -> SUBSET Nat]
<1>1. commands' \in [Commands -> CommandRows] /\ held' \in [Commands -> SUBSET Nat]
  BY DEF ToldInv, DeviceKinds
<1>2. \A d \in Commands : Honest(commands'[d], held'[d], level', nextId', wire', answers')
  BY TrafficKeeps
<1>3. AllHonest'
  BY <1>2 DEF AllHonest
<1> QED BY <1>1, <1>3, TrafficKeeps

(* The rest of the kinds. *)
Rest ==
  /\ level \in Nat
  /\ deferred \in Seq(EntryRows)
  /\ writeSeq \in Nat
  /\ flushes \in [Flushes -> FlushRows]
  /\ \A f \in Flushes : flushes[f].at \in {"write", "back"} => flushes[f].list # <<>>

LEMMA KeepsTogether ==
  ASSUME NEW q, Traffic(q), Numbered', AllHonest', commands' \in [Commands -> CommandRows],
         held' \in [Commands -> SUBSET Nat], Rest'
  PROVE  ToldInv'
BY DEF ToldInv, DeviceKinds, Traffic, Rest

LEMMA OneCommandTold ==
  ASSUME ToldInv, NEW q, Traffic(q), level' = level, NEW c \in Commands,
         NEW row \in CommandRows, NEW had \in SUBSET Nat,
         commands' = [commands EXCEPT ![c] = row],
         held' = [held EXCEPT ![c] = had],
         Honest(row, had, level, nextId', wire', answers'), Rest'
  PROVE  ToldInv'
BY OneCommandKeeps, KeepsTogether

LEMMA NoCommandTold ==
  ASSUME ToldInv, NEW q, Traffic(q), level' = level, commands' = commands, held' = held, Rest'
  PROVE  ToldInv'
BY NoCommandKeeps, KeepsTogether

LEMMA HeldAsIs ==
  ASSUME ToldInv, NEW c \in Commands
  PROVE  /\ held = [held EXCEPT ![c] = held[c]]
         /\ held[c] \in SUBSET Nat
         /\ commands[c] \in CommandRows
         /\ Honest(commands[c], held[c], level, nextId, wire, answers)
BY DEF ToldInv, DeviceKinds, AllHonest

LEMMA NumbersAreOld ==
  ASSUME ToldInv
  PROVE  /\ \A k \in 1..Len(wire) : wire[k].id # nextId
         /\ \A k \in 1..Len(answers) : answers[k].id # nextId
<1>1. /\ \A k \in 1..Len(wire) : wire[k] \in WireRows
      /\ \A k \in 1..Len(answers) : answers[k] \in AnswerRows
      /\ nextId \in Nat
  BY ElementOfSeq DEF ToldInv, DeviceKinds
<1> QED BY <1>1 DEF ToldInv, Numbered, WireRows, AnswerRows

(* A command that begins a call: its row, under the next number. *)
LEMMA CallerIsHonest ==
  ASSUME ToldInv, NEW op, NEW v, Traffic(Request(op, v)), nextId' = nextId + 1,
         NEW row \in CommandRows, NEW had, level \in had,
         row.at \in {"read", "write", "back"}, row.id = nextId, row.told = 0,
         row.at = "back" => row.target \in had,
         row.at = "write" => op = "set" /\ v = row.target,
         row.at # "write" => op = "read"
  PROVE  Honest(row, had, level, nextId', wire', answers')
<1> DEFINE q == Request(op, v)
<1>1. MayAsk(row, q)
  BY DEF MayAsk, Request
<1>2. /\ Within(wire', wire) \/ FromOr(wire', wire, q)
      /\ Within(answers', answers)
      /\ nextId \in Nat
  BY DEF Traffic, ToldInv, DeviceKinds
<1> HIDE DEF q
<1> QED BY <1>1, <1>2, NumbersAreOld, NewCallIsHonest

-----------------------------------------------------------------------------
(* The steps. *)

LEMMA StartReadingTold ==
  ASSUME ToldInv, NEW c \in Commands, NEW o \in Orders, StartReading(c, o)
  PROVE  ToldInv'
<1> DEFINE row == [Begin(c, o) EXCEPT !.at = "read", !.id = NewId]
<1>1. /\ CanStart(c) /\ commands' = [commands EXCEPT ![c] = row] /\ Call("read", 0)
      /\ held' = [held EXCEPT ![c] = {level}]
      /\ UNCHANGED <<level, old, answers, deferred, writeSeq, flushes, turn, session, gone, doubt>>
  BY DEF StartReading
<1>2. /\ commands[c] \in CommandRows /\ nextId \in Nat /\ level \in Nat
      /\ commands[c].at = "none" /\ commands[c].told = 0
  BY <1>1, HeldAsIs DEF Honest, CanStart, ToldInv, DeviceKinds
<1>3. row \in CommandRows /\ row.at = "read" /\ row.id = nextId /\ row.told = 0
  BY <1>2, DeviceBounds DEF CommandRows, Begin, NewId
<1> HIDE DEF row
<1>4. Traffic(Request("read", 0)) /\ nextId' = nextId + 1
  <2>1. answers' \in Seq(AnswerRows) /\ Within(answers', answers)
    BY <1>1, SelfWithin DEF ToldInv, DeviceKinds
  <2> QED BY <1>1, <2>1, CallIsTraffic DEF ToldInv
<1>5. Honest(row, {level}, level, nextId', wire', answers')
  BY <1>3, <1>4, CallerIsHonest
<1>6. Rest'
  BY <1>1 DEF ToldInv, DeviceKinds, Rest
<1>7. {level} \in SUBSET Nat
  BY <1>2
<1> QED BY <1>1, <1>3, <1>4, <1>5, <1>6, <1>7, OneCommandTold

LEMMA StartWritingTold ==
  ASSUME ToldInv, NEW c \in Commands, NEW o \in Orders, StartWriting(c, o)
  PROVE  ToldInv'
<1> DEFINE to  == Clamp(o[2])
           row == Committed(Begin(c, o), to, "write")
<1>1. /\ CanStart(c) /\ commands' = [commands EXCEPT ![c] = row] /\ Call("set", to)
      /\ writeSeq' = writeSeq + 1
      /\ held' = [held EXCEPT ![c] = {level}]
      /\ UNCHANGED <<level, old, answers, deferred, flushes, turn, session, gone, doubt>>
  BY DEF StartWriting, NoteWrite
<1>2. /\ commands[c] \in CommandRows /\ nextId \in Nat /\ level \in Nat /\ writeSeq \in Nat
      /\ commands[c].at = "none" /\ commands[c].told = 0 /\ to \in Nat
  BY <1>1, HeldAsIs, DeviceBounds, ClampIsNat DEF Honest, CanStart, ToldInv, DeviceKinds
<1> HIDE DEF to
<1>3. row \in CommandRows /\ row.at = "write" /\ row.id = nextId /\ row.told = 0 /\ row.target = to
  <2> DEFINE b == Begin(c, o)
  <2>1. b \in CommandRows /\ b.told = 0
    BY <1>2, BeginsRow
  <2> HIDE DEF b
  <2>2. /\ Committed(b, to, "write") \in CommandRows
        /\ Committed(b, to, "write").at = "write"
        /\ Committed(b, to, "write").target = to
        /\ Committed(b, to, "write").told = b.told
        /\ Committed(b, to, "write").id = nextId
    BY <1>2, <2>1, CommittedRow, ZenonT(40)
  <2> QED BY <2>1, <2>2 DEF b
<1> HIDE DEF row
<1>4. Traffic(Request("set", to)) /\ nextId' = nextId + 1
  <2>1. answers' \in Seq(AnswerRows) /\ Within(answers', answers)
    BY <1>1, SelfWithin DEF ToldInv, DeviceKinds
  <2> QED BY <1>1, <1>2, <2>1, CallIsTraffic DEF ToldInv
<1>5. Honest(row, {level}, level, nextId', wire', answers')
  BY <1>3, <1>4, CallerIsHonest
<1>6. Rest'
  BY <1>1, <1>2 DEF ToldInv, DeviceKinds, Rest
<1>7. {level} \in SUBSET Nat
  BY <1>2
<1> QED BY <1>1, <1>3, <1>4, <1>5, <1>6, <1>7, OneCommandTold

LEMMA DeferKeeps ==
  ASSUME ToldInv, Defer, NoteWrite, level' = level, flushes' = flushes
  PROVE  Rest'
<1> DEFINE e == [seq |-> writeSeq + 1, left |-> MaxAttempts, v |-> 0]
<1>1. deferred' = Append(deferred, e) /\ writeSeq' = writeSeq + 1
  BY DEF Defer, NoteWrite
<1>2. e \in EntryRows /\ writeSeq \in Nat /\ deferred \in Seq(EntryRows)
  BY DeviceBounds DEF ToldInv, DeviceKinds, EntryRows
<1> HIDE DEF e
<1>3. deferred' \in Seq(EntryRows)
  BY <1>1, <1>2, Appended
<1> QED BY <1>1, <1>2, <1>3 DEF ToldInv, DeviceKinds, Rest

LEMMA StartMutingTold ==
  ASSUME ToldInv, NEW c \in Commands, NEW o \in Orders, StartMuting(c, o)
  PROVE  ToldInv'
<1> DEFINE row == Committed(Begin(c, o), 0, "said")
<1>1. /\ CanStart(c) /\ commands' = [commands EXCEPT ![c] = row] /\ Defer /\ NoteWrite
      /\ UNCHANGED <<level, old, wire, answers, waiting, nextId, flushes, turn, session, gone, held, doubt>>
  BY DEF StartMuting
<1>2. /\ commands[c] \in CommandRows /\ writeSeq \in Nat /\ nextId \in Nat
      /\ commands[c].at = "none" /\ commands[c].told = 0
  BY <1>1, HeldAsIs DEF Honest, CanStart, ToldInv, DeviceKinds
<1>3. row \in CommandRows /\ row.at = "said" /\ row.told = 0
  <2> DEFINE b == Begin(c, o)
  <2>1. b \in CommandRows /\ b.told = 0
    BY <1>2, BeginsRow
  <2> HIDE DEF b
  <2>2. /\ Committed(b, 0, "said") \in CommandRows
        /\ Committed(b, 0, "said").at = "said"
        /\ Committed(b, 0, "said").told = b.told
    BY <1>2, <2>1, CommittedRow
  <2> QED BY <2>1, <2>2 DEF b
<1> HIDE DEF row
<1>4. Traffic(Request("read", 0))
  BY <1>1, NoCallIsTraffic DEF ToldInv
<1>5. Honest(row, held[c], level, nextId', wire', answers')
  BY <1>3, DoneRowIsHonest
<1> QED BY <1>1, <1>3, <1>4, <1>5, HeldAsIs, DeferKeeps, OneCommandTold

(* The answer at hand is of the command that waits for it. *)
LEMMA HeadTells ==
  ASSUME ToldInv, NEW c \in Commands, commands[c].at \in {"read", "write", "back"},
         Answered(commands[c].id)
  PROVE  /\ answers # <<>>
         /\ Head(answers) \in AnswerRows
         /\ commands[c].at # "write" => Head(answers).v \in held[c]
         /\ commands[c].at = "write" /\ Head(answers).kind = "level" => Head(answers).v \in held[c]
         /\ commands[c].at = "write" /\ Head(answers).kind = "bare" => commands[c].target \in held[c]
         /\ commands[c].told = 0
         /\ level \in held[c]
         /\ commands[c].at = "back" => commands[c].target \in held[c]
<1>1. answers # <<>> /\ Head(answers).id = commands[c].id /\ answers \in Seq(AnswerRows)
  BY DEF Answered, ToldInv, DeviceKinds
<1>2. Head(answers) = answers[1] /\ 1 \in 1..Len(answers) /\ Head(answers) \in AnswerRows
  BY <1>1, HeadTail
<1>3. Honest(commands[c], held[c], level, nextId, wire, answers)
  BY HeldAsIs
<1>4. MayTell(commands[c], held[c], answers[1])
  BY <1>2, <1>3 DEF Honest
<1> QED BY <1>1, <1>2, <1>3, <1>4 DEF MayTell, Honest, IsUnderWay

LEMMA ReadFailsTold ==
  ASSUME ToldInv, NEW c \in Commands, ReadFails(c)
  PROVE  ToldInv'
<1> DEFINE row == [Unborn EXCEPT !.at = "failed"]
<1>1. /\ answers # <<>> /\ answers' = Tail(answers) /\ commands' = [commands EXCEPT ![c] = row]
      /\ UNCHANGED <<level, wire, nextId, deferred, writeSeq, flushes, held>>
  BY DEF ReadFails, Fails, Received, ReadSays, Answered
<1>2. row \in CommandRows /\ row.at = "failed"
  BY DEF Unborn, CommandRows
<1> HIDE DEF row
<1>3. Traffic(Request("read", 0))
  BY <1>1, NoCallIsTraffic DEF ToldInv
<1>4. Honest(row, held[c], level, nextId', wire', answers')
  BY <1>2, DoneRowIsHonest
<1>5. Rest'
  BY <1>1 DEF ToldInv, DeviceKinds, Rest
<1> QED BY <1>1, <1>2, <1>3, <1>4, <1>5, HeldAsIs, OneCommandTold

LEMMA ReadAudibleTold ==
  ASSUME ToldInv, NEW c \in Commands, ReadAudible(c)
  PROVE  ToldInv'
<1> DEFINE v   == Head(answers).v
           row == [Committed(commands[c], v, "said") EXCEPT !.told = v]
<1>1. /\ answers # <<>> /\ answers' = Tail(answers) /\ commands[c].at = "read" /\ Answered(commands[c].id)
      /\ writeSeq' = writeSeq + 1
      /\ UNCHANGED <<level, wire, nextId, deferred, flushes, held>>
  BY DEF ReadAudible, Received, ReadSays, Answered, NoteWrite
<1>2. v \in Nat /\ v \in held[c] /\ commands[c] \in CommandRows /\ writeSeq \in Nat /\ nextId \in Nat
  BY <1>1, HeadTells, HeldAsIs DEF AnswerRows, ToldInv, DeviceKinds
<1>3. commands' = [commands EXCEPT ![c] = row]
  BY DEF ReadAudible
<1> HIDE DEF v
<1> DEFINE mid == Committed(commands[c], v, "said")
<1>8. mid \in CommandRows /\ mid.at = "said"
  BY <1>2, CommittedRow
<1> HIDE DEF mid
<1>4. row \in CommandRows /\ row.at = "said" /\ row.told = v
  <2>1. row = [mid EXCEPT !.told = v]
    BY DEF mid
  <2> QED BY <1>2, <1>8, <2>1 DEF CommandRows
<1> HIDE DEF row
<1>5. Traffic(Request("read", 0))
  BY <1>1, NoCallIsTraffic DEF ToldInv
<1>6. Honest(row, held[c], level, nextId', wire', answers')
  BY <1>2, <1>4, DoneRowIsHonest
<1>7. Rest'
  BY <1>1, <1>2 DEF ToldInv, DeviceKinds, Rest
<1> QED BY <1>1, <1>3, <1>4, <1>5, <1>6, <1>7, HeldAsIs, OneCommandTold

LEMMA ReadMutesTold ==
  ASSUME ToldInv, NEW c \in Commands, ReadMutes(c)
  PROVE  ToldInv'
<1> DEFINE row == Committed(commands[c], 0, "said")
<1>1. /\ answers # <<>> /\ answers' = Tail(answers) /\ commands[c].at = "read" /\ Answered(commands[c].id)
      /\ Defer /\ NoteWrite
      /\ UNCHANGED <<level, wire, nextId, flushes, held>>
  BY DEF ReadMutes, Received, ReadSays, Answered
<1>2. commands[c].told = 0 /\ commands[c] \in CommandRows /\ writeSeq \in Nat /\ nextId \in Nat
  BY <1>1, HeadTells, HeldAsIs DEF ToldInv, DeviceKinds
<1>3. commands' = [commands EXCEPT ![c] = row]
  BY DEF ReadMutes
<1>4. row \in CommandRows /\ row.at = "said" /\ row.told = 0
  <2> DEFINE rec == commands[c]
  <2>1. rec \in CommandRows /\ rec.told = 0 /\ 0 \in Nat /\ "said" \in {"write", "said"}
    BY <1>2
  <2> HIDE DEF rec
  <2>2. /\ Committed(rec, 0, "said") \in CommandRows
        /\ Committed(rec, 0, "said").at = "said"
        /\ Committed(rec, 0, "said").told = rec.told
    BY <1>2, <2>1, CommittedRow
  <2> QED BY <2>1, <2>2 DEF rec
<1> HIDE DEF row
<1>5. Traffic(Request("read", 0))
  BY <1>1, NoCallIsTraffic DEF ToldInv
<1>6. Honest(row, held[c], level, nextId', wire', answers')
  BY <1>4, DoneRowIsHonest
<1> QED BY <1>1, <1>3, <1>4, <1>5, <1>6, HeldAsIs, DeferKeeps, OneCommandTold

LEMMA TargetIsNat ==
  ASSUME NEW c \in Commands, commands[c] \in CommandRows, NEW l \in Nat
  PROVE  Target(c, l) \in Nat
<1>1. commands[c].value \in Nat
  BY DEF CommandRows
<1>2. l + commands[c].value \in Nat
  BY <1>1
<1>3. Clamp(l + commands[c].value) \in Nat
  BY <1>2, ClampIsNat
<1>4. (IF l > commands[c].value THEN l - commands[c].value ELSE 0) \in Nat
  BY <1>1
<1> QED BY <1>3, <1>4, DeviceBounds DEF Target

LEMMA ReadWritesTold ==
  ASSUME ToldInv, NEW c \in Commands, ReadWrites(c)
  PROVE  ToldInv'
<1> DEFINE to  == Target(c, Head(answers).v)
           row == Committed(commands[c], to, "write")
<1>1. /\ answers # <<>> /\ commands[c].at = "read" /\ Answered(commands[c].id)
      /\ Calls(commands[c].id, "set", to) /\ writeSeq' = writeSeq + 1
      /\ UNCHANGED <<level, deferred, flushes, held>>
  BY DEF ReadWrites, ReadSays, Answered, NoteWrite
<1>2. /\ commands[c].told = 0 /\ commands[c] \in CommandRows /\ writeSeq \in Nat /\ nextId \in Nat
      /\ level \in held[c] /\ to \in Nat
  <2>1. commands[c].told = 0 /\ commands[c] \in CommandRows /\ level \in held[c] /\ Head(answers) \in AnswerRows
    BY <1>1, HeadTells, HeldAsIs
  <2>2. Head(answers).v \in Nat
    BY <2>1 DEF AnswerRows
  <2> QED BY <2>1, <2>2, TargetIsNat DEF ToldInv, DeviceKinds
<1>3. commands' = [commands EXCEPT ![c] = row]
  BY DEF ReadWrites
<1> HIDE DEF to
<1>4. row \in CommandRows /\ row.at = "write" /\ row.told = 0 /\ row.id = nextId /\ row.target = to
  BY <1>2, CommittedRow, ZenonT(40)
<1> HIDE DEF row
<1>5. Traffic(Request("set", to)) /\ nextId' = nextId + 1
  BY <1>1, <1>2, CallsIsTraffic DEF ToldInv
<1>6. Honest(row, held[c], level, nextId', wire', answers')
  BY <1>2, <1>4, <1>5, CallerIsHonest
<1>7. Rest'
  BY <1>1, <1>2 DEF ToldInv, DeviceKinds, Rest
<1> QED BY <1>1, <1>3, <1>4, <1>5, <1>6, <1>7, HeldAsIs, OneCommandTold

LEMMA SaysRow ==
  ASSUME ToldInv, NEW c \in Commands, NEW l \in Nat, Says(c, l)
  PROVE  /\ commands' = [commands EXCEPT ![c] = commands'[c]]
         /\ commands'[c] \in CommandRows
         /\ commands'[c].at = "said"
         /\ commands'[c].told = l
         /\ commands'[c].target = commands[c].target
         /\ commands'[c].seq = commands[c].seq
         /\ commands'[c].action = commands[c].action
<1>1. commands \in [Commands -> CommandRows] /\ commands[c] \in CommandRows
  BY DEF ToldInv, DeviceKinds
<1> DEFINE row == [commands[c] EXCEPT !.at = "said", !.told = l, !.id = 0]
<1>2. commands' = [commands EXCEPT ![c] = row]
  BY <1>1 DEF Says
<1>3. row \in CommandRows /\ row.at = "said" /\ row.told = l /\ row.target = commands[c].target
      /\ row.seq = commands[c].seq /\ row.action = commands[c].action
  BY <1>1 DEF CommandRows
<1> HIDE DEF row
<1>4. commands'[c] = row
  BY <1>1, <1>2
<1> QED BY <1>2, <1>3, <1>4

(* A command that says what was held, or fails, with nothing called. *)
LEMMA SaysTold ==
  ASSUME ToldInv, NEW c \in Commands, NEW l \in Nat, Says(c, l), l \in held[c],
         wire' = wire, nextId' = nextId,
         answers' = answers \/ (answers # <<>> /\ answers' = Tail(answers)),
         UNCHANGED <<level, deferred, writeSeq, flushes, held>>
  PROVE  ToldInv'
<1>1. Traffic(Request("read", 0))
  BY NoCallIsTraffic DEF ToldInv
<1>2. Honest(commands'[c], held[c], level, nextId', wire', answers')
  BY SaysRow, DoneRowIsHonest
<1>3. Rest'
  BY DEF ToldInv, DeviceKinds, Rest
<1>4. /\ commands' = [commands EXCEPT ![c] = commands'[c]]
      /\ commands'[c] \in CommandRows
  BY SaysRow
<1> QED BY <1>1, <1>2, <1>3, <1>4, HeldAsIs, OneCommandTold

LEMMA FailsTold ==
  ASSUME ToldInv, NEW c \in Commands, Fails(c),
         wire' = wire, nextId' = nextId,
         answers' = answers \/ (answers # <<>> /\ answers' = Tail(answers)),
         UNCHANGED <<level, deferred, writeSeq, flushes, held>>
  PROVE  ToldInv'
<1> DEFINE row == [Unborn EXCEPT !.at = "failed"]
<1>1. Traffic(Request("read", 0))
  BY NoCallIsTraffic DEF ToldInv
<1>2. row \in CommandRows /\ row.at = "failed"
  BY DEF Unborn, CommandRows
<1>3. commands' = [commands EXCEPT ![c] = row]
  BY DEF Fails
<1> HIDE DEF row
<1>4. Honest(row, held[c], level, nextId', wire', answers')
  BY <1>2, DoneRowIsHonest
<1>5. Rest'
  BY DEF ToldInv, DeviceKinds, Rest
<1> QED BY <1>1, <1>2, <1>3, <1>4, <1>5, HeldAsIs, OneCommandTold

LEMMA WriteAnsweredTold ==
  ASSUME ToldInv, NEW c \in Commands, WriteAnswered(c)
  PROVE  ToldInv'
<1>1. /\ commands[c].at = "write" /\ Answered(commands[c].id)
      /\ UNCHANGED <<level, deferred, writeSeq, flushes, held>>
  BY DEF WriteAnswered
<1>2. /\ answers # <<>> /\ Head(answers) \in AnswerRows /\ Head(answers).v \in Nat
      /\ Head(answers).kind = "level" => Head(answers).v \in held[c]
      /\ Head(answers).kind = "bare" => commands[c].target \in held[c]
      /\ commands[c].told = 0 /\ level \in held[c]
  BY <1>1, HeadTells DEF AnswerRows
<1>3. CASE Head(answers).kind = "level"
  <2>1. Says(c, Head(answers).v) /\ answers' = Tail(answers) /\ wire' = wire /\ nextId' = nextId
    BY <1>3 DEF WriteAnswered, Received
  <2> QED BY <1>1, <1>2, <1>3, <2>1, SaysTold
<1>4. CASE Head(answers).kind = "error"
  <2>1. Fails(c) /\ answers' = Tail(answers) /\ wire' = wire /\ nextId' = nextId
    BY <1>4 DEF WriteAnswered, Received
  <2> QED BY <1>1, <1>2, <2>1, FailsTold
<1>5. CASE Head(answers).kind = "bare"
  <2>1. Calls(commands[c].id, "read", 0) /\ commands' = [commands EXCEPT ![c].at = "back", ![c].id = NewId]
    BY <1>5 DEF WriteAnswered
  <2>2. commands \in [Commands -> CommandRows] /\ commands[c] \in CommandRows /\ nextId \in Nat
    BY DEF ToldInv, DeviceKinds
  <2> DEFINE row == [commands[c] EXCEPT !.at = "back", !.id = nextId]
  <2>3. commands' = [commands EXCEPT ![c] = row]
    BY <2>1, <2>2 DEF NewId
  <2>4. row \in CommandRows /\ row.at = "back" /\ row.id = nextId /\ row.told = 0
        /\ row.target = commands[c].target
    BY <1>2, <2>2 DEF CommandRows
  <2> HIDE DEF row
  <2>5. Traffic(Request("read", 0)) /\ nextId' = nextId + 1
    BY <1>2, <2>1, CallsIsTraffic DEF ToldInv
  <2>6. Honest(row, held[c], level, nextId', wire', answers')
    BY <1>2, <1>5, <2>4, <2>5, CallerIsHonest
  <2>7. Rest'
    BY <1>1 DEF ToldInv, DeviceKinds, Rest
  <2> QED BY <1>1, <2>3, <2>4, <2>5, <2>6, <2>7, HeldAsIs, OneCommandTold
<1> QED BY <1>2, <1>3, <1>4, <1>5 DEF AnswerRows

LEMMA BackAnsweredTold ==
  ASSUME ToldInv, NEW c \in Commands, BackAnswered(c)
  PROVE  ToldInv'
<1> DEFINE l == IF Head(answers).kind = "level" THEN Head(answers).v ELSE commands[c].target
<1>1. /\ commands[c].at = "back" /\ Answered(commands[c].id) /\ answers' = Tail(answers) /\ Says(c, l)
      /\ wire' = wire /\ nextId' = nextId
      /\ UNCHANGED <<level, deferred, writeSeq, flushes, held>>
  BY DEF BackAnswered, Received
<1>2. /\ answers # <<>> /\ Head(answers).v \in held[c] /\ commands[c].target \in held[c]
      /\ Head(answers).v \in Nat /\ commands[c].target \in Nat
  BY <1>1, HeadTells, HeldAsIs DEF AnswerRows, CommandRows
<1>3. l \in Nat /\ l \in held[c]
  BY <1>2
<1> HIDE DEF l
<1> QED BY <1>1, <1>2, <1>3, SaysTold

LEMMA CallTimesOutTold ==
  ASSUME ToldInv, NEW c \in Commands, CallTimesOut(c)
  PROVE  ToldInv'
<1>1. UNCHANGED <<level, wire, answers, nextId, deferred, writeSeq, flushes, held>>
  BY DEF CallTimesOut
<1>2. CASE commands[c].at = "back"
  <2>1. Says(c, commands[c].target)
    BY <1>2 DEF CallTimesOut
  <2>2. commands[c].target \in held[c] /\ commands[c].target \in Nat
    BY <1>2, HeldAsIs DEF Honest, CommandRows
  <2> QED BY <1>1, <2>1, <2>2, SaysTold
<1>3. CASE commands[c].at # "back"
  <2>1. Fails(c)
    BY <1>3 DEF CallTimesOut
  <2> QED BY <1>1, <2>1, FailsTold
<1> QED BY <1>2, <1>3

(* Of a level told to the device, and of a write it refused. *)
LEMMA AnswerIsHonest ==
  ASSUME NEW row \in CommandRows, NEW had, NEW now, NEW next, NEW asks, NEW tells, NEW a, NEW tells2, NEW asks2,
         NEW had2, NEW now2,
         Honest(row, had, now, next, asks, tells), FromOr(tells2, tells, a), Within(asks2, asks),
         \A x \in had : x \in had2, IsUnderWay(row) => now2 \in had2, MayTell(row, had2, a)
  PROVE  Honest(row, had2, now2, next, asks2, tells2)
<1>1. \A k \in 1..Len(tells2) : MayTell(row, had2, tells2[k])
  BY DEF Honest, MayTell, FromOr
<1>2. \A k \in 1..Len(asks2) : MayAsk(row, asks2[k])
  BY DEF Honest, Within
<1> QED BY <1>1, <1>2 DEF Honest

LEMMA DeviceAnswersTold == ToldInv /\ DeviceAnswers => ToldInv'
<1> SUFFICES ASSUME ToldInv, DeviceAnswers
             PROVE  ToldInv'
  OBVIOUS
<1> DEFINE r == wire[1]
<1>1. /\ wire # <<>> /\ wire \in Seq(WireRows) /\ answers \in Seq(AnswerRows) /\ wire' = Tail(wire)
      /\ level \in Nat /\ nextId \in Nat
      /\ UNCHANGED <<commands, nextId, deferred, writeSeq, flushes>>
      /\ commands \in [Commands -> CommandRows] /\ held \in [Commands -> SUBSET Nat]
  BY DEF DeviceAnswers, ToldInv, DeviceKinds
<1>2. /\ r = Head(wire) /\ r \in WireRows /\ 1 \in 1..Len(wire)
      /\ wire' \in Seq(WireRows) /\ Within(wire', wire)
  BY <1>1, HeadTail, TailWithin
<1>3. r.id \in Nat /\ r.id < nextId /\ r.v \in Nat /\ r.op \in {"read", "set"}
  BY <1>2 DEF ToldInv, Numbered, WireRows
<1>4. \A c \in Commands : MayAsk(commands[c], r)
  BY <1>2 DEF ToldInv, AllHonest, Honest
<1> HIDE DEF r
<1>5. ASSUME NEW kind \in {"level", "bare", "error"}, NEW v \in Nat,
             answers' = Append(answers, [id |-> r.id, kind |-> kind, v |-> v]),
             level' \in Nat, held' \in [Commands -> SUBSET Nat],
             \A c \in Commands : \A x \in held[c] : x \in held'[c],
             \A c \in Commands : IsUnderWay(commands[c]) => level' \in held'[c],
             \A c \in Commands : IsUnderWay(commands[c]) /\ commands[c].id = r.id =>
               /\ commands[c].at # "write" => v \in held'[c]
               /\ commands[c].at = "write" /\ kind = "level" => v \in held'[c]
               /\ commands[c].at = "write" /\ kind = "bare" => commands[c].target \in held'[c]
      PROVE  ToldInv'
  <2> DEFINE a == [id |-> r.id, kind |-> kind, v |-> v]
  <2>1. a \in AnswerRows /\ a.id = r.id /\ a.kind = kind /\ a.v = v
    BY <1>3 DEF AnswerRows
  <2> HIDE DEF a
  <2>2. answers' = Append(answers, a)
    BY <1>5 DEF a
  <2>3. answers' \in Seq(AnswerRows) /\ FromOr(answers', answers, a)
    BY <1>1, <2>1, <2>2, Appended, AppendFrom
  <2>4. DeviceKinds'
    BY <1>1, <1>2, <1>5, <2>3 DEF ToldInv, DeviceKinds
  <2>5. Numbered'
    <3>1. \A k \in 1..Len(wire') : wire'[k].id < nextId'
      BY <1>1, <1>2 DEF Within, ToldInv, Numbered
    <3>2. \A k \in 1..Len(answers') : answers'[k].id < nextId'
      BY <1>1, <1>3, <2>1, <2>3 DEF FromOr, ToldInv, Numbered
    <3> QED BY <3>1, <3>2 DEF Numbered
  <2>6. ASSUME NEW c \in Commands
        PROVE  Honest(commands'[c], held'[c], level', nextId', wire', answers')
    <3>1. MayTell(commands[c], held'[c], a)
      BY <1>5, <2>1 DEF MayTell
    <3>2. commands[c] \in CommandRows /\ Honest(commands[c], held[c], level, nextId, wire, answers)
      BY HeldAsIs
    <3>3. Honest(commands[c], held'[c], level', nextId, wire', answers')
      BY <1>2, <1>5, <2>3, <3>1, <3>2, AnswerIsHonest
    <3> QED BY <1>1, <3>3
  <2>7. AllHonest'
    BY <2>6 DEF AllHonest
  <2> QED BY <2>4, <2>5, <2>7 DEF ToldInv
<1>6. \A c \in Commands : IsUnderWay(commands[c]) => level \in held[c]
  BY DEF ToldInv, AllHonest, Honest
<1>7. CASE r.op = "read" /\ answers' = Append(answers, [id |-> r.id, kind |-> "level", v |-> level])
           /\ UNCHANGED <<level, held>>
  <2>1. level' \in Nat /\ held' \in [Commands -> SUBSET Nat]
    BY <1>1, <1>7
  <2>2. \A c \in Commands : IsUnderWay(commands[c]) /\ commands[c].id = r.id => commands[c].at # "write"
    BY <1>4, <1>7 DEF MayAsk
  <2>3. /\ \A c \in Commands : \A x \in held[c] : x \in held'[c]
        /\ \A c \in Commands : IsUnderWay(commands[c]) => level' \in held'[c] /\ level \in held'[c]
    BY <1>6, <1>7
  <2> QED BY <1>1, <1>5, <1>7, <2>1, <2>2, <2>3
<1>8. CASE /\ r.op = "set" /\ level' = r.v
           /\ held' = [c \in Commands |-> IF Running(c) THEN held[c] \cup {r.v} ELSE held[c]]
           /\ answers' = Append(answers, [id |-> r.id, kind |-> IF old THEN "bare" ELSE "level", v |-> r.v])
  <2> DEFINE kind == IF old THEN "bare" ELSE "level"
  <2>1. kind \in {"level", "bare", "error"} /\ answers' = Append(answers, [id |-> r.id, kind |-> kind, v |-> r.v])
    BY <1>8
  <2> HIDE DEF kind
  <2>2. level' \in Nat /\ held' \in [Commands -> SUBSET Nat]
    BY <1>1, <1>3, <1>8
  <2>3. /\ \A c \in Commands : \A x \in held[c] : x \in held'[c]
        /\ \A c \in Commands : IsUnderWay(commands[c]) => level' \in held'[c]
    BY <1>8 DEF Running, IsUnderWay
  <2>4. ASSUME NEW c \in Commands, IsUnderWay(commands[c]), commands[c].id = r.id
        PROVE  r.v \in held'[c] /\ commands[c].at = "write" /\ commands[c].target = r.v
    BY <1>4, <1>8, <2>3, <2>4 DEF MayAsk
  <2> QED BY <1>3, <1>5, <2>1, <2>2, <2>3, <2>4
<1>9. CASE r.op = "set" /\ answers' = Append(answers, [id |-> r.id, kind |-> "error", v |-> 0])
           /\ UNCHANGED <<level, held>>
  <2>1. level' \in Nat /\ held' \in [Commands -> SUBSET Nat]
    BY <1>1, <1>9
  <2>2. \A c \in Commands : IsUnderWay(commands[c]) /\ commands[c].id = r.id => commands[c].at = "write"
    BY <1>4, <1>9 DEF MayAsk
  <2>3. /\ \A c \in Commands : \A x \in held[c] : x \in held'[c]
        /\ \A c \in Commands : IsUnderWay(commands[c]) => level' \in held'[c]
    BY <1>6, <1>9
  <2> QED BY <1>5, <1>9, <2>1, <2>2, <2>3
<1>10. \/ /\ r.op = "read" /\ answers' = Append(answers, [id |-> r.id, kind |-> "level", v |-> level])
          /\ UNCHANGED <<level, held>>
       \/ /\ r.op = "set" /\ level' = r.v
          /\ held' = [c \in Commands |-> IF Running(c) THEN held[c] \cup {r.v} ELSE held[c]]
          /\ answers' = Append(answers, [id |-> r.id, kind |-> IF old THEN "bare" ELSE "level", v |-> r.v])
       \/ /\ r.op = "set" /\ answers' = Append(answers, [id |-> r.id, kind |-> "error", v |-> 0])
          /\ UNCHANGED <<level, held>>
  BY <1>2 DEF DeviceAnswers
<1> QED BY <1>7, <1>8, <1>9, <1>10

-----------------------------------------------------------------------------
(* The flushes, the turns and the session touch no command, but to kill it. *)

LEMMA OneFlush ==
  ASSUME ToldInv, NEW f \in Flushes, NEW row \in FlushRows, flushes' = [flushes EXCEPT ![f] = row],
         row.at \in {"write", "back"} => row.list # <<>>,
         deferred' \in Seq(EntryRows), level' = level, writeSeq' = writeSeq
  PROVE  Rest'
<1>1. flushes \in [Flushes -> FlushRows]
  BY DEF ToldInv, DeviceKinds
<1>2. flushes' \in [Flushes -> FlushRows]
  BY <1>1
<1>3. ASSUME NEW g \in Flushes, flushes'[g].at \in {"write", "back"} PROVE flushes'[g].list # <<>>
  <2>1. CASE g = f
    <3>1. flushes'[g] = row
      BY <1>1, <2>1
    <3> QED BY <1>3, <3>1
  <2>2. CASE g # f
    <3>1. flushes'[g] = flushes[g]
      BY <1>1, <2>2
    <3> QED BY <1>3, <3>1 DEF ToldInv, DeviceKinds
  <2> QED BY <2>1, <2>2
<1> QED BY <1>2, <1>3 DEF ToldInv, DeviceKinds, Rest

LEMMA FlushFacts ==
  ASSUME ToldInv, NEW f \in Flushes
  PROVE  /\ flushes \in [Flushes -> FlushRows]
         /\ flushes[f] \in FlushRows
         /\ flushes[f].list \in Seq(EntryRows)
         /\ flushes[f].at \in {"write", "back"} => flushes[f].list # <<>>
         /\ deferred \in Seq(EntryRows)
         /\ nextId \in Nat
BY DEF ToldInv, DeviceKinds, FlushRows

LEMMA GoesOn ==
  ASSUME ToldInv, NEW f \in Flushes, flushes[f].list # <<>>, Next1(f),
         deferred' \in Seq(EntryRows), level' = level, writeSeq' = writeSeq
  PROVE  Rest'
<1> DEFINE rest == Tail(flushes[f].list)
<1>1. rest \in Seq(EntryRows)
  BY FlushFacts, HeadTail
<1> HIDE DEF rest
<1> DEFINE row == [flushes[f] EXCEPT !.at = "next", !.list = rest, !.id = 0]
<1>2. flushes' = [flushes EXCEPT ![f] = row]
  BY FlushFacts DEF Next1, rest
<1>3. row \in FlushRows /\ row.at = "next"
  BY <1>1, FlushFacts DEF FlushRows
<1> HIDE DEF row
<1> QED BY <1>2, <1>3, OneFlush

LEMMA FlushFailsRest ==
  ASSUME ToldInv, NEW f \in Flushes, flushes[f].list # <<>>, FlushFails(f), level' = level, writeSeq' = writeSeq
  PROVE  Rest'
<1> DEFINE e == Head(flushes[f].list)
           again == [e EXCEPT !.left = @ - 1]
<1>1. e \in EntryRows /\ deferred \in Seq(EntryRows)
  BY FlushFacts, HeadTail
<1>2. Next1(f) /\ deferred' = IF ~flushes[f].last /\ e.left > 1 THEN Append(deferred, again) ELSE deferred
  BY DEF FlushFails
<1> HIDE DEF e
<1>3. deferred' \in Seq(EntryRows)
  <2>1. CASE ~flushes[f].last /\ e.left > 1
    <3>1. again \in EntryRows
      <4> DEFINE n == e.left - 1
      <4>1. e.left \in Nat /\ n \in Nat
        BY <1>1, <2>1 DEF EntryRows
      <4> HIDE DEF n
      <4>2. [e EXCEPT !.left = n] \in EntryRows
        BY <1>1, <4>1 DEF EntryRows
      <4> QED BY <4>2 DEF n
    <3> HIDE DEF again
    <3> QED BY <1>1, <1>2, <2>1, <3>1, Appended
  <2>2. CASE ~(~flushes[f].last /\ e.left > 1)
    BY <1>1, <1>2, <2>2
  <2> QED BY <2>1, <2>2
<1> QED BY <1>2, <1>3, GoesOn

LEMMA FlushTold ==
  ASSUME ToldInv, NEW f \in Flushes, FlushSteps(f) \/ FlushTimesOut(f)
  PROVE  ToldInv'
<1>1. CASE FlushSkips(f)
  <2>1. /\ Next1(f) /\ flushes[f].list # <<>>
        /\ UNCHANGED <<level, commands, wire, answers, nextId, deferred, writeSeq, held>>
    BY <1>1 DEF FlushSkips
  <2>2. Rest'
    BY <2>1, GoesOn, FlushFacts
  <2> QED BY <2>1, <2>2, NoCallIsTraffic, NoCommandTold DEF ToldInv
<1>2. CASE FlushDispatches(f)
  <2> DEFINE v == Head(flushes[f].list).v
             row == [flushes[f] EXCEPT !.at = "write", !.id = nextId]
  <2>1. /\ flushes[f].list # <<>> /\ Call("set", v)
        /\ UNCHANGED <<level, commands, answers, deferred, writeSeq, held>>
    BY <1>2 DEF FlushDispatches
  <2>2. v \in Nat
    <3>1. Head(flushes[f].list) \in EntryRows
      BY <2>1, FlushFacts, HeadTail
    <3> QED BY <3>1 DEF EntryRows
  <2> HIDE DEF v
  <2>3. flushes' = [flushes EXCEPT ![f] = row]
    BY <1>2, FlushFacts DEF FlushDispatches, NewId
  <2>4. row \in FlushRows /\ row.list = flushes[f].list
    BY FlushFacts DEF FlushRows
  <2> HIDE DEF row
  <2>5. Rest'
    BY <2>1, <2>3, <2>4, FlushFacts, OneFlush
  <2>6. Traffic(Request("set", v))
    <3>1. answers' \in Seq(AnswerRows) /\ Within(answers', answers)
      BY <2>1, SelfWithin DEF ToldInv, DeviceKinds
    <3> QED BY <2>1, <2>2, <3>1, CallIsTraffic DEF ToldInv
  <2> QED BY <2>1, <2>5, <2>6, NoCommandTold
<1>3. CASE FlushAnswered(f)
  <2>1. /\ answers # <<>> /\ flushes[f].list # <<>>
        /\ UNCHANGED <<level, commands, writeSeq, held>>
    BY <1>3, FlushFacts DEF FlushAnswered, Answered
  <2>2. CASE /\ Calls(flushes[f].id, "read", 0)
             /\ flushes' = [flushes EXCEPT ![f].at = "back", ![f].id = NewId]
             /\ UNCHANGED <<deferred, doubt>>
    <3> DEFINE row == [flushes[f] EXCEPT !.at = "back", !.id = nextId]
    <3>1. flushes' = [flushes EXCEPT ![f] = row]
      BY <2>2, FlushFacts DEF NewId
    <3>2. row \in FlushRows /\ row.list = flushes[f].list
      BY FlushFacts DEF FlushRows
    <3> HIDE DEF row
    <3>3. Rest'
      BY <2>1, <2>2, <3>1, <3>2, FlushFacts, OneFlush
    <3>4. Traffic(Request("read", 0))
      BY <2>1, <2>2, CallsIsTraffic DEF ToldInv
    <3> QED BY <2>1, <3>3, <3>4, NoCommandTold
  <2>3. CASE FlushFails(f) /\ Received(flushes[f].id) /\ UNCHANGED <<wire, nextId>>
    <3>1. Rest'
      BY <2>1, <2>3, FlushFailsRest
    <3>2. Traffic(Request("read", 0))
      BY <2>1, <2>3, NoCallIsTraffic DEF ToldInv, Received
    <3> QED BY <2>1, <3>1, <3>2, NoCommandTold
  <2>4. CASE Next1(f) /\ Received(flushes[f].id) /\ UNCHANGED <<wire, nextId, deferred, doubt>>
    <3>1. Rest'
      BY <2>1, <2>4, GoesOn, FlushFacts
    <3>2. Traffic(Request("read", 0))
      BY <2>1, <2>4, NoCallIsTraffic DEF ToldInv, Received
    <3> QED BY <2>1, <3>1, <3>2, NoCommandTold
  <2> QED BY <1>3, <2>2, <2>3, <2>4 DEF FlushAnswered
<1>4. CASE FlushDone(f)
  <2>1. /\ flushes' = [flushes EXCEPT ![f] = NoFlush]
        /\ UNCHANGED <<level, commands, wire, answers, nextId, deferred, writeSeq, held>>
    BY <1>4 DEF FlushDone
  <2>2. NoFlush \in FlushRows /\ NoFlush.at = "none"
    BY DEF NoFlush, FlushRows
  <2>3. Rest'
    BY <2>1, <2>2, FlushFacts, OneFlush
  <2> QED BY <2>1, <2>3, NoCallIsTraffic, NoCommandTold DEF ToldInv
<1>5. CASE FlushTimesOut(f)
  <2>1. /\ flushes[f].list # <<>>
        /\ UNCHANGED <<level, commands, wire, answers, nextId, writeSeq, held>>
        /\ FlushFails(f) \/ (Next1(f) /\ deferred' = deferred)
    BY <1>5, FlushFacts DEF FlushTimesOut
  <2>2. Rest'
    BY <2>1, FlushFailsRest, GoesOn, FlushFacts
  <2> QED BY <2>1, <2>2, NoCallIsTraffic, NoCommandTold DEF ToldInv
<1> QED BY <1>1, <1>2, <1>3, <1>4, <1>5 DEF FlushSteps

LEMMA FlushesBegin ==
  ASSUME ToldInv, NEW last \in BOOLEAN, \E f \in Flushes : Flush(f, last), level' = level, writeSeq' = writeSeq
  PROVE  Rest'
<1>1. PICK f \in Flushes : Flush(f, last)
  OBVIOUS
<1> DEFINE row == [at |-> "next", list |-> deferred, id |-> 0, last |-> last]
<1>2. flushes' = [flushes EXCEPT ![f] = row] /\ deferred' = <<>>
  BY <1>1 DEF Flush
<1>3. row \in FlushRows /\ row.at = "next"
  BY FlushFacts DEF FlushRows
<1> HIDE DEF row
<1>4. deferred' \in Seq(EntryRows)
  BY <1>2, EmptySeq
<1> QED BY <1>2, <1>3, <1>4, OneFlush

LEMMA MayFlushRest ==
  ASSUME ToldInv, FlushIfDeferred \/ UNCHANGED <<deferred, flushes>>, level' = level, writeSeq' = writeSeq
  PROVE  Rest'
<1>1. CASE \E f \in Flushes : Flush(f, FALSE)
  BY <1>1, FlushesBegin
<1>2. CASE UNCHANGED <<deferred, flushes>>
  BY <1>2 DEF ToldInv, DeviceKinds, Rest
<1> QED BY <1>1, <1>2 DEF FlushIfDeferred

LEMMA CutTurnTold == ToldInv /\ CutTurn => ToldInv'
<1> SUFFICES ASSUME ToldInv, CutTurn
             PROVE  ToldInv'
  OBVIOUS
<1> DEFINE dead == [Unborn EXCEPT !.at = "killed"]
<1>1. /\ commands' = [c \in Commands |-> IF Running(c) THEN dead ELSE commands[c]]
      /\ UNCHANGED <<level, wire, answers, nextId, writeSeq, held>>
      /\ FlushIfDeferred \/ UNCHANGED <<deferred, flushes>>
  BY DEF CutTurn, Kill
<1>2. dead \in CommandRows /\ dead.at = "killed"
  BY DEF Unborn, CommandRows
<1> HIDE DEF dead
<1>3. Rest'
  BY <1>1, MayFlushRest
<1>4. commands' \in [Commands -> CommandRows] /\ held' \in [Commands -> SUBSET Nat]
  BY <1>1, <1>2 DEF ToldInv, DeviceKinds
<1>5. ASSUME NEW c \in Commands PROVE Honest(commands'[c], held'[c], level', nextId', wire', answers')
  <2>1. CASE Running(c)
    <3>1. commands'[c] = dead
      BY <1>1, <2>1
    <3>2. Honest(dead, held[c], level, nextId, wire, answers)
      BY <1>2, DoneRowIsHonest
    <3> QED BY <1>1, <3>1, <3>2
  <2>2. CASE ~Running(c)
    <3>1. commands'[c] = commands[c]
      BY <1>1, <2>2
    <3> QED BY <1>1, <3>1, HeldAsIs
  <2> QED BY <2>1, <2>2
<1>6. Traffic(Request("read", 0))
  BY <1>1, NoCallIsTraffic DEF ToldInv
<1>7. Numbered' /\ AllHonest'
  BY <1>5, <1>6, TrafficKeeps DEF AllHonest
<1> QED BY <1>3, <1>4, <1>6, <1>7, KeepsTogether

LEMMA SessionTold ==
  ASSUME ToldInv, AnswerDropped \/ StartTurn \/ EndTurn \/ SocketGoes \/ SessionEnds
  PROVE  ToldInv'
<1>1. CASE AnswerDropped
  <2>1. /\ answers # <<>> /\ answers' = Tail(answers)
        /\ UNCHANGED <<level, commands, wire, nextId, deferred, writeSeq, flushes, held>>
    BY <1>1 DEF AnswerDropped
  <2>2. Rest'
    BY <2>1 DEF ToldInv, DeviceKinds, Rest
  <2> QED BY <2>1, <2>2, NoCallIsTraffic, NoCommandTold DEF ToldInv
<1>2. CASE StartTurn
  <2>1. UNCHANGED <<level, commands, wire, answers, nextId, deferred, writeSeq, flushes, held>>
    BY <1>2 DEF StartTurn
  <2>2. Rest'
    BY <2>1 DEF ToldInv, DeviceKinds, Rest
  <2> QED BY <2>1, <2>2, NoCallIsTraffic, NoCommandTold DEF ToldInv
<1>3. CASE EndTurn
  <2>1. FlushIfDeferred /\ UNCHANGED <<level, commands, wire, answers, nextId, writeSeq, held>>
    BY <1>3 DEF EndTurn
  <2>2. Rest'
    BY <2>1, MayFlushRest
  <2> QED BY <2>1, <2>2, NoCallIsTraffic, NoCommandTold DEF ToldInv
<1>4. CASE SocketGoes
  <2>1. wire' = <<>> /\ answers' = <<>> /\ UNCHANGED <<level, commands, nextId, deferred, writeSeq, flushes, held>>
    BY <1>4 DEF SocketGoes
  <2>2. Rest'
    BY <2>1 DEF ToldInv, DeviceKinds, Rest
  <2> QED BY <2>1, <2>2, NoCallIsTraffic, NoCommandTold DEF ToldInv
<1>5. CASE SessionEnds
  <2>1. (\E f \in Flushes : Flush(f, TRUE)) /\ UNCHANGED <<level, commands, wire, answers, nextId, writeSeq, held>>
    BY <1>5 DEF SessionEnds
  <2>2. Rest'
    BY <2>1, FlushesBegin
  <2> QED BY <2>1, <2>2, NoCallIsTraffic, NoCommandTold DEF ToldInv
<1> QED BY <1>1, <1>2, <1>3, <1>4, <1>5

LEMMA ToldBegin == DeviceInit => ToldInv
<1> SUFFICES ASSUME DeviceInit
             PROVE  ToldInv
  OBVIOUS
<1>1. Unborn \in CommandRows /\ Unborn.at = "none" /\ Unborn.told = 0 /\ NoFlush \in FlushRows /\ NoFlush.at = "none"
  BY EmptySeq DEF Unborn, CommandRows, NoFlush, FlushRows
<1>2. DeviceKinds
  BY <1>1, DeviceBounds, EmptySeq DEF DeviceInit, DeviceKinds
<1>3. Numbered
  BY DEF DeviceInit, Numbered
<1>4. ASSUME NEW c \in Commands PROVE Honest(commands[c], held[c], level, nextId, wire, answers)
  <2>1. commands[c] = Unborn
    BY DEF DeviceInit
  <2> QED BY <1>1, <2>1, DoneRowIsHonest
<1> QED BY <1>2, <1>3, <1>4 DEF ToldInv, AllHonest

LEMMA ToldStep == ToldInv /\ [DeviceNext]_deviceVars => ToldInv'
<1> SUFFICES ASSUME ToldInv, [DeviceNext]_deviceVars
             PROVE  ToldInv'
  OBVIOUS
<1>1. CASE DeviceAnswers
  BY <1>1, DeviceAnswersTold
<1>2. CASE AnswerDropped \/ StartTurn \/ EndTurn \/ SocketGoes \/ SessionEnds
  BY <1>2, SessionTold
<1>3. CASE \E c \in Commands : CommandSteps(c) \/ CallTimesOut(c)
  BY <1>3, ReadFailsTold, ReadAudibleTold, ReadMutesTold, ReadWritesTold, WriteAnsweredTold, BackAnsweredTold,
     CallTimesOutTold DEF CommandSteps
<1>4. CASE \E c \in Commands, o \in Orders : StartReading(c, o) \/ StartWriting(c, o) \/ StartMuting(c, o)
  BY <1>4, StartReadingTold, StartWritingTold, StartMutingTold
<1>5. CASE CutTurn
  BY <1>5, CutTurnTold
<1>6. CASE \E f \in Flushes : FlushSteps(f) \/ FlushTimesOut(f)
  BY <1>6, FlushTold
<1>7. CASE UNCHANGED deviceVars
  <2>1. UNCHANGED <<level, commands, wire, answers, nextId, deferred, writeSeq, flushes, held>>
    BY <1>7 DEF deviceVars
  <2>2. Rest'
    BY <2>1 DEF ToldInv, DeviceKinds, Rest
  <2> QED BY <2>1, <2>2, NoCallIsTraffic, NoCommandTold DEF ToldInv
<1> QED BY <1>1, <1>2, <1>3, <1>4, <1>5, <1>6, <1>7 DEF DeviceNext

(* "It never reports success the device did not confirm" (volume.py:6):    *)
(* whatever the firmware answers a write with, however late answers come   *)
(* and calls time out, and whatever cuts the turn or the session short, a  *)
(* level the user is told, other than a silence yet to come, is one the    *)
(* device has held since the command began: for every number of commands,  *)
(* calls at once, flushes and levels.                                      *)
THEOREM ToldIsHeld == DeviceSpec => []ToldWasHeld
<1>1. ToldInv => ToldWasHeld
  BY DEF ToldInv, AllHonest, Honest, ToldWasHeld
<1> QED BY <1>1, ToldBegin, ToldStep, PTL DEF DeviceSpec

-----------------------------------------------------------------------------
(* The last word of the user on the volume (DeviceCalls).                  *)

(* The writes on their way w, in the order the device will take them, and  *)
(* the level l it has.                                                     *)
NoSets(w) == \A k \in 1..Len(w) : w[k].op # "set"

LastSet(w, i, v) ==
  \E k \in 1..Len(w) : /\ w[k].id = i /\ w[k].op = "set" /\ w[k].v = v
                       /\ \A j \in 1..Len(w) : j > k => w[j].op # "set"

Ends(w, l, v) == (NoSets(w) /\ l = v) \/ \E i \in Nat : LastSet(w, i, v)

LoudSets(w) == \A k \in 1..Len(w) : w[k].op = "set" => w[k].v # 0

Loud(w, l) == l # 0 /\ LoudSets(w)

LoudAfter(w, i) ==
  \A k, j \in 1..Len(w) : w[k].id = i /\ k < j /\ w[j].op = "set" => w[j].v # 0

(* Nothing that is on its way back says that a write was refused.          *)
Clean(a) == \A k \in 1..Len(a) : a[k].kind # "error"

(* Of a command: its generation of n; what it may hear; that an unmute     *)
(* finds no silence after its question; and that the newest keeps its      *)
(* word, or its silence is still to be sent (is in s).                     *)
Seqs(row, n) ==
  /\ row.at \in {"write", "back", "said"} => row.seq \in 1..n
  /\ row.at \notin {"write", "back", "said"} => row.seq = 0
  /\ row.at \in {"write", "back"} => row.target # 0

Heard(row, a) ==
  \A k \in 1..Len(a) : a[k].id = row.id =>
    /\ row.at \in {"read", "back"} => a[k].kind = "level"
    /\ row.at = "write" /\ a[k].kind = "level" => a[k].v = row.target

Listens(row, w, a, l) ==
  row.at = "read" /\ row.action = "unmute" =>
    /\ LoudAfter(w, row.id)
    /\ \A k \in 1..Len(a) : a[k].id = row.id /\ a[k].v # 0 => Loud(w, l)

Writes(row, w, l) == LastSet(w, row.id, row.target) \/ (NoSets(w) /\ l = row.target)

Wrote(row, w, a, l) ==
  /\ NoSets(w)
  /\ l = row.target
  /\ \A k \in 1..Len(a) : a[k].id = row.id => a[k].v = row.target

Promised(row, w, l, n, s) ==
  IF row.action = "unmute" THEN Loud(w, l) ELSE Ends(w, l, row.told) \/ (row.told = 0 /\ n \in s)

Keeps(row, w, a, l, n, s) ==
  Clean(a) /\ row.seq = n =>
    /\ row.at = "write" => Writes(row, w, l)
    /\ row.at = "back" => Wrote(row, w, a, l)
    /\ row.at = "said" => Promised(row, w, l, n, s)

RowFine(row, w, a, l, n, s) ==
  /\ Seqs(row, n)
  /\ Heard(row, a)
  /\ Listens(row, w, a, l)
  /\ Keeps(row, w, a, l, n, s)

-----------------------------------------------------------------------------
(* The writes, when one is sent or taken.                                  *)
LEMMA ReadAdded ==
  ASSUME NEW w \in Seq(WireRows), NEW q \in WireRows, q.op = "read",
         \A k \in 1..Len(w) : w[k].id # q.id
  PROVE  /\ NoSets(w) => NoSets(Append(w, q))
         /\ \A i \in Nat : \A v : LastSet(w, i, v) => LastSet(Append(w, q), i, v)
         /\ \A l, v : Ends(w, l, v) => Ends(Append(w, q), l, v)
         /\ LoudSets(w) => LoudSets(Append(w, q))
         /\ \A i \in Nat : LoudAfter(w, i) => LoudAfter(Append(w, q), i)
         /\ LoudAfter(Append(w, q), q.id)
<1> DEFINE t == Append(w, q)
<1>1. /\ Len(w) \in Nat /\ Len(t) = Len(w) + 1
      /\ \A k \in 1..Len(w) : k \in 1..Len(t) /\ t[k] = w[k]
      /\ t[Len(w) + 1] = q
      /\ \A k \in 1..Len(t) : k \in 1..Len(w) \/ k = Len(w) + 1
  BY Appended, LenProperties
<1> HIDE DEF t
<1>2. NoSets(w) => NoSets(t)
  BY <1>1 DEF NoSets
<1>3. \A i \in Nat : \A v : LastSet(w, i, v) => LastSet(t, i, v)
  <2> SUFFICES ASSUME NEW i \in Nat, NEW v, LastSet(w, i, v) PROVE LastSet(t, i, v)
    OBVIOUS
  <2>1. PICK k \in 1..Len(w) : /\ w[k].id = i /\ w[k].op = "set" /\ w[k].v = v
                               /\ \A j \in 1..Len(w) : j > k => w[j].op # "set"
    BY DEF LastSet
  <2>2. \A j \in 1..Len(t) : j > k => t[j].op # "set"
    BY <1>1, <2>1
  <2> QED BY <1>1, <2>1, <2>2 DEF LastSet
<1>4. \A l, v : Ends(w, l, v) => Ends(t, l, v)
  BY <1>2, <1>3 DEF Ends
<1>5. LoudSets(w) => LoudSets(t)
  BY <1>1 DEF LoudSets
<1>6. \A i \in Nat : LoudAfter(w, i) => LoudAfter(t, i)
  <2> SUFFICES ASSUME NEW i \in Nat, LoudAfter(w, i), NEW k \in 1..Len(t), NEW j \in 1..Len(t),
                      t[k].id = i, k < j, t[j].op = "set"
               PROVE  t[j].v # 0
    BY DEF LoudAfter
  <2>1. j \in 1..Len(w) /\ k \in 1..Len(w)
    BY <1>1
  <2> QED BY <1>1, <2>1 DEF LoudAfter
<1>7. LoudAfter(t, q.id)
  <2> SUFFICES ASSUME NEW k \in 1..Len(t), NEW j \in 1..Len(t), t[k].id = q.id, k < j
               PROVE  FALSE
    BY DEF LoudAfter
  <2>1. k \in 1..Len(w)
    BY <1>1
  <2> QED BY <1>1, <2>1
<1> QED BY <1>2, <1>3, <1>4, <1>5, <1>6, <1>7 DEF t

LEMMA SetAdded ==
  ASSUME NEW w \in Seq(WireRows), NEW q \in WireRows, q.op = "set"
  PROVE  /\ LastSet(Append(w, q), q.id, q.v)
         /\ \A l : Ends(Append(w, q), l, q.v)
         /\ q.v # 0 /\ LoudSets(w) => LoudSets(Append(w, q))
         /\ \A i \in Nat : q.v # 0 /\ LoudAfter(w, i) => LoudAfter(Append(w, q), i)
<1> DEFINE t == Append(w, q)
<1>1. /\ Len(w) \in Nat /\ Len(t) = Len(w) + 1
      /\ \A k \in 1..Len(w) : k \in 1..Len(t) /\ t[k] = w[k]
      /\ t[Len(w) + 1] = q
      /\ \A k \in 1..Len(t) : k \in 1..Len(w) \/ k = Len(w) + 1
  BY Appended, LenProperties
<1> HIDE DEF t
<1>2. LastSet(t, q.id, q.v)
  <2>1. Len(w) + 1 \in 1..Len(t) /\ \A j \in 1..Len(t) : ~(j > Len(w) + 1)
    BY <1>1
  <2> QED BY <1>1, <2>1 DEF LastSet
<1>3. q.id \in Nat
  BY DEF WireRows
<1>4. \A l : Ends(t, l, q.v)
  BY <1>2, <1>3 DEF Ends
<1>5. q.v # 0 /\ LoudSets(w) => LoudSets(t)
  BY <1>1 DEF LoudSets
<1>6. \A i \in Nat : q.v # 0 /\ LoudAfter(w, i) => LoudAfter(t, i)
  <2> SUFFICES ASSUME NEW i \in Nat, q.v # 0, LoudAfter(w, i), NEW k \in 1..Len(t), NEW j \in 1..Len(t),
                      t[k].id = i, k < j, t[j].op = "set"
               PROVE  t[j].v # 0
    BY DEF LoudAfter
  <2>1. CASE j \in 1..Len(w)
    <3>1. k \in 1..Len(w)
      BY <1>1, <2>1
    <3> QED BY <1>1, <2>1, <3>1 DEF LoudAfter
  <2>2. CASE j = Len(w) + 1
    BY <1>1, <2>2
  <2> QED BY <1>1, <2>1, <2>2
<1> QED BY <1>2, <1>4, <1>5, <1>6 DEF t

LEMMA HeadTaken ==
  ASSUME NEW w \in Seq(WireRows), w # <<>>
  PROVE  /\ NoSets(w) => NoSets(Tail(w)) /\ Head(w).op # "set"
         /\ \A i \in Nat : \A v : LastSet(w, i, v) =>
              \/ LastSet(Tail(w), i, v)
              \/ Head(w).op = "set" /\ Head(w).id = i /\ Head(w).v = v /\ NoSets(Tail(w))
         /\ LoudSets(w) => LoudSets(Tail(w)) /\ (Head(w).op = "set" => Head(w).v # 0)
         /\ \A i \in Nat : LoudAfter(w, i) =>
              LoudAfter(Tail(w), i) /\ (Head(w).id = i => LoudSets(Tail(w)))
<1> DEFINE t == Tail(w)
           r == Head(w)
<1>1. /\ r = w[1] /\ 1 \in 1..Len(w) /\ Len(w) \in Nat /\ Len(t) = Len(w) - 1
      /\ \A k \in 1..Len(t) : t[k] = w[k + 1] /\ k + 1 \in 1..Len(w)
  BY HeadTail, LenProperties
<1> HIDE DEF t, r
<1>2. NoSets(w) => NoSets(t) /\ r.op # "set"
  BY <1>1 DEF NoSets
<1>3. ASSUME NEW i \in Nat, NEW v, LastSet(w, i, v)
      PROVE  \/ LastSet(t, i, v)
             \/ r.op = "set" /\ r.id = i /\ r.v = v /\ NoSets(t)
  <2>1. PICK k \in 1..Len(w) : /\ w[k].id = i /\ w[k].op = "set" /\ w[k].v = v
                               /\ \A j \in 1..Len(w) : j > k => w[j].op # "set"
    BY <1>3 DEF LastSet
  <2>2. CASE k = 1
    <3>1. ASSUME NEW j \in 1..Len(t) PROVE t[j].op # "set"
      <4>1. j + 1 \in 1..Len(w) /\ j + 1 > k /\ t[j] = w[j + 1]
        BY <1>1, <2>2
      <4> QED BY <2>1, <4>1
    <3> QED BY <1>1, <2>1, <2>2, <3>1 DEF NoSets
  <2>3. CASE k # 1
    <3> DEFINE m == k - 1
    <3>1. m \in 1..Len(t) /\ t[m] = w[k] /\ m \in Nat
      <4>1. m \in 1..Len(t)
        BY <1>1, <2>3
      <4>2. m + 1 = k
        BY <1>1
      <4> QED BY <1>1, <4>1, <4>2
    <3>2. ASSUME NEW j \in 1..Len(t), j > m PROVE t[j].op # "set"
      <4>1. j + 1 \in 1..Len(w) /\ j + 1 > k /\ t[j] = w[j + 1]
        BY <1>1, <3>1, <3>2
      <4> QED BY <2>1, <4>1
    <3> HIDE DEF m
    <3> QED BY <2>1, <3>1, <3>2 DEF LastSet
  <2> QED BY <2>2, <2>3
<1>4. LoudSets(w) => LoudSets(t) /\ (r.op = "set" => r.v # 0)
  BY <1>1 DEF LoudSets
<1>5. ASSUME NEW i \in Nat, LoudAfter(w, i)
      PROVE  LoudAfter(t, i) /\ (r.id = i => LoudSets(t))
  <2>1. LoudAfter(t, i)
    <3> SUFFICES ASSUME NEW k \in 1..Len(t), NEW j \in 1..Len(t), t[k].id = i, k < j, t[j].op = "set"
                 PROVE  t[j].v # 0
      BY DEF LoudAfter
    <3>1. k + 1 < j + 1 /\ k + 1 \in 1..Len(w) /\ j + 1 \in 1..Len(w) /\ t[k] = w[k + 1] /\ t[j] = w[j + 1]
      BY <1>1
    <3> QED BY <1>5, <3>1 DEF LoudAfter
  <2>2. ASSUME r.id = i, NEW j \in 1..Len(t), t[j].op = "set" PROVE t[j].v # 0
    <3>1. 1 < j + 1 /\ j + 1 \in 1..Len(w) /\ t[j] = w[j + 1] /\ w[1].id = i
      BY <1>1, <2>2
    <3> QED BY <1>1, <1>5, <2>2, <3>1 DEF LoudAfter
  <2> QED BY <2>1, <2>2 DEF LoudSets
<1> QED BY <1>2, <1>3, <1>4, <1>5 DEF t, r
-----------------------------------------------------------------------------
(* A command that does nothing itself, while another one sends q, takes    *)
(* answers or commits.                                                     *)
LEMMA OtherRow ==
  ASSUME NEW w \in Seq(WireRows), NEW w2, NEW a, NEW a2, Within(a2, a), NEW l, NEW n \in Nat, NEW n2,
         NEW s, NEW s2, NEW q \in WireRows, NEW row \in CommandRows,
         \A k \in 1..Len(w) : w[k].id # q.id,
         w2 = w \/ w2 = Append(w, q),
         q.op = "read" \/ (q.v # 0 /\ n2 = n + 1),
         n2 = n + 1 \/ (n2 = n /\ (Clean(a2) => Clean(a)) /\ (n \in s => n \in s2)),
         RowFine(row, w, a, l, n, s)
  PROVE  RowFine(row, w2, a2, l, n2, s2)
<1>1. row.id \in Nat /\ row.seq \in Nat /\ q.op \in {"read", "set"}
  BY DEF CommandRows, WireRows
<1>2. Seqs(row, n2)
  <2>1. row.seq \in 1..n => row.seq \in 1..n2
    OBVIOUS
  <2> QED BY <2>1 DEF RowFine, Seqs
<1>3. Heard(row, a2)
  BY DEF RowFine, Heard, Within
<1>4. LoudSets(w) => LoudSets(w2)
  BY <1>1, ReadAdded, SetAdded
<1>5. LoudAfter(w, row.id) => LoudAfter(w2, row.id)
  BY <1>1, ReadAdded, SetAdded
<1>6. Listens(row, w2, a2, l)
  BY <1>4, <1>5 DEF RowFine, Listens, Within, Loud
<1>7. Keeps(row, w2, a2, l, n2, s2)
  <2>1. CASE n2 = n + 1
    <3>1. row.seq # n2 \/ row.at \notin {"write", "back", "said"}
      BY <2>1 DEF RowFine, Seqs
    <3> QED BY <3>1 DEF Keeps
  <2>2. CASE n2 # n + 1
    <3>1. n2 = n /\ (Clean(a2) => Clean(a)) /\ (n \in s => n \in s2) /\ q.op = "read"
      BY <2>2
    <3>2. /\ NoSets(w) => NoSets(w2)
          /\ \A i \in Nat : \A v : LastSet(w, i, v) => LastSet(w2, i, v)
          /\ \A v : Ends(w, l, v) => Ends(w2, l, v)
      BY <3>1, ReadAdded
    <3> SUFFICES ASSUME Clean(a2), row.seq = n2
                 PROVE  /\ row.at = "write" => Writes(row, w2, l)
                        /\ row.at = "back" => Wrote(row, w2, a2, l)
                        /\ row.at = "said" => Promised(row, w2, l, n2, s2)
      BY DEF Keeps
    <3>3. Clean(a) /\ row.seq = n
      BY <3>1
    <3>4. /\ row.at = "write" => Writes(row, w, l)
          /\ row.at = "back" => Wrote(row, w, a, l)
          /\ row.at = "said" => Promised(row, w, l, n, s)
      BY <3>3 DEF RowFine, Keeps
    <3>5. row.at = "write" => Writes(row, w2, l)
      BY <1>1, <3>2, <3>4 DEF Writes
    <3>6. row.at = "back" => Wrote(row, w2, a2, l)
      BY <3>2, <3>4 DEF Wrote, Within
    <3>7. row.at = "said" => Promised(row, w2, l, n2, s2)
      BY <1>4, <3>1, <3>2, <3>4 DEF Promised, Loud
    <3> QED BY <3>5, <3>6, <3>7
  <2> QED BY <2>1, <2>2
<1> QED BY <1>2, <1>3, <1>6, <1>7 DEF RowFine

(* A silence is sent: the newest command wanted it, and nobody asks.       *)
LEMMA SilenceSent ==
  ASSUME NEW w \in Seq(WireRows), NEW a, NEW l, NEW n \in Nat, NEW s, NEW s2,
         NEW q \in WireRows, q.op = "set", q.v = 0, NEW row \in CommandRows,
         ~IsUnderWay(row),
         row.seq = n => row.at = "said" /\ row.told = 0 /\ row.action # "unmute",
         RowFine(row, w, a, l, n, s)
  PROVE  RowFine(row, Append(w, q), a, l, n, s2)
<1>1. Ends(Append(w, q), l, 0)
  BY SetAdded
<1>2. Seqs(row, n) /\ Heard(row, a)
  BY DEF RowFine
<1>3. Listens(row, Append(w, q), a, l)
  BY DEF Listens, IsUnderWay
<1>4. Keeps(row, Append(w, q), a, l, n, s2)
  BY <1>1 DEF Keeps, Promised
<1> QED BY <1>2, <1>3, <1>4 DEF RowFine

(* A command that has just failed, or has only begun, promises nothing.    *)
LEMMA NoPromise ==
  ASSUME NEW row, NEW w, NEW a, NEW l, NEW n, NEW s, row.at \in {"none", "failed", "killed"}, row.seq = 0
  PROVE  RowFine(row, w, a, l, n, s)
BY DEF RowFine, Seqs, Heard, Listens, Keeps

(* Nothing has been answered yet under a new number.                       *)
LEMMA NewlyHeard ==
  ASSUME NEW row, NEW a, \A k \in 1..Len(a) : a[k].id # row.id
  PROVE  Heard(row, a)
BY DEF Heard

-----------------------------------------------------------------------------
(* The device takes a request r: it tells its level, takes the write, or   *)
(* refuses it.                                                             *)
LEMMA DeviceRow ==
  ASSUME NEW w \in Seq(WireRows), w # <<>>, NEW a \in Seq(AnswerRows), NEW b \in AnswerRows, NEW l, NEW l2,
         NEW n \in Nat, NEW s, NEW row \in CommandRows,
         b.id = Head(w).id,
         \A k \in 1..Len(a) : a[k].id # b.id,
         \A k \in 1..Len(Tail(w)) : Tail(w)[k].id # b.id,
         \/ Head(w).op = "read" /\ b.kind = "level" /\ b.v = l /\ l2 = l
         \/ Head(w).op = "set" /\ b.kind \in {"level", "bare"} /\ b.v = Head(w).v /\ l2 = Head(w).v
         \/ Head(w).op = "set" /\ b.kind = "error" /\ l2 = l,
         MayAsk(row, Head(w)),
         RowFine(row, w, a, l, n, s)
  PROVE  RowFine(row, Tail(w), Append(a, b), l2, n, s)
<1> DEFINE t == Tail(w)
           r == Head(w)
           a2 == Append(a, b)
<1>1. /\ NoSets(w) => NoSets(t) /\ r.op # "set"
      /\ \A i \in Nat : \A v : LastSet(w, i, v) =>
           LastSet(t, i, v) \/ (r.op = "set" /\ r.id = i /\ r.v = v /\ NoSets(t))
      /\ LoudSets(w) => LoudSets(t) /\ (r.op = "set" => r.v # 0)
      /\ \A i \in Nat : LoudAfter(w, i) => LoudAfter(t, i) /\ (r.id = i => LoudSets(t))
  BY HeadTaken
<1>2. r \in WireRows /\ r.op \in {"read", "set"} /\ r.id \in Nat /\ row.id \in Nat /\ row.seq \in Nat
  <2>1. r \in WireRows
    BY HeadTail
  <2> QED BY <2>1 DEF WireRows, CommandRows
<1>3. /\ \A k \in 1..Len(a2) : a2[k] = b \/ (k \in 1..Len(a) /\ a2[k] = a[k])
      /\ \A k \in 1..Len(a) : k \in 1..Len(a2) /\ a2[k] = a[k]
      /\ Len(a) + 1 \in 1..Len(a2) /\ a2[Len(a) + 1] = b
  <2>1. Len(a) \in Nat
    BY LenProperties
  <2> QED BY <2>1, Appended
<1>4. /\ b.id = r.id
      /\ \A k \in 1..Len(t) : t[k].id # r.id
      /\ \/ r.op = "read" /\ b.kind = "level" /\ b.v = l /\ l2 = l
         \/ r.op = "set" /\ b.kind \in {"level", "bare"} /\ b.v = r.v /\ l2 = r.v
         \/ r.op = "set" /\ b.kind = "error" /\ l2 = l
      /\ MayAsk(row, r)
  OBVIOUS
<1> HIDE DEF t, r, a2
<1>5. Heard(row, a2)
  <2> SUFFICES ASSUME NEW k \in 1..Len(a2), a2[k].id = row.id
               PROVE  /\ row.at \in {"read", "back"} => a2[k].kind = "level"
                      /\ row.at = "write" /\ a2[k].kind = "level" => a2[k].v = row.target
    BY DEF Heard
  <2>1. CASE k \in 1..Len(a) /\ a2[k] = a[k]
    BY <2>1 DEF RowFine, Heard
  <2>2. CASE a2[k] = b
    BY <1>4, <2>2 DEF MayAsk, IsUnderWay
  <2> QED BY <1>3, <2>1, <2>2
<1>6. Loud(w, l) => Loud(t, l2)
  BY <1>1, <1>2, <1>4 DEF Loud
<1>7. Listens(row, t, a2, l2)
  <2> SUFFICES ASSUME row.at = "read", row.action = "unmute"
               PROVE  /\ LoudAfter(t, row.id)
                      /\ \A k \in 1..Len(a2) : a2[k].id = row.id /\ a2[k].v # 0 => Loud(t, l2)
    BY DEF Listens
  <2>1. LoudAfter(w, row.id) /\ \A k \in 1..Len(a) : a[k].id = row.id /\ a[k].v # 0 => Loud(w, l)
    BY DEF RowFine, Listens
  <2>2. ASSUME NEW k \in 1..Len(a2), a2[k].id = row.id, a2[k].v # 0 PROVE Loud(t, l2)
    <3>1. CASE k \in 1..Len(a) /\ a2[k] = a[k]
      BY <1>6, <2>1, <2>2, <3>1
    <3>2. CASE a2[k] = b
      <4>1. r.op = "read" /\ l # 0 /\ l2 = l
        BY <1>4, <2>2, <3>2 DEF MayAsk, IsUnderWay
      <4>2. LoudSets(t)
        BY <1>1, <1>2, <1>4, <2>1, <2>2, <3>2
      <4> QED BY <4>1, <4>2 DEF Loud
    <3> QED BY <1>3, <3>1, <3>2
  <2> QED BY <1>1, <1>2, <2>1, <2>2
<1>8. Keeps(row, t, a2, l2, n, s)
  <2> SUFFICES ASSUME Clean(a2), row.seq = n
               PROVE  /\ row.at = "write" => Writes(row, t, l2)
                      /\ row.at = "back" => Wrote(row, t, a2, l2)
                      /\ row.at = "said" => Promised(row, t, l2, n, s)
    BY DEF Keeps
  <2>1. Clean(a) /\ b.kind # "error"
    BY <1>3 DEF Clean
  <2>2. /\ row.at = "write" => Writes(row, w, l)
        /\ row.at = "back" => Wrote(row, w, a, l)
        /\ row.at = "said" => Promised(row, w, l, n, s)
    BY <2>1 DEF RowFine, Keeps
  <2>3. \A i \in Nat : \A v : LastSet(w, i, v) => LastSet(t, i, v) \/ (NoSets(t) /\ l2 = v)
    BY <1>1, <1>4, <2>1
  <2>4. NoSets(w) => NoSets(t) /\ l2 = l
    BY <1>1, <1>2, <1>4
  <2>5. \A v : Ends(w, l, v) => Ends(t, l2, v)
    BY <2>3, <2>4 DEF Ends
  <2>6. row.at = "write" => Writes(row, t, l2)
    BY <1>2, <2>2, <2>3, <2>4 DEF Writes
  <2>7. row.at = "back" => Wrote(row, t, a2, l2)
    <3> SUFFICES ASSUME row.at = "back" PROVE Wrote(row, t, a2, l2)
      OBVIOUS
    <3>1. NoSets(w) /\ l = row.target /\ \A k \in 1..Len(a) : a[k].id = row.id => a[k].v = row.target
      BY <2>2 DEF Wrote
    <3>2. r.op = "read"
      BY <1>1, <1>2, <3>1
    <3>3. \A k \in 1..Len(a2) : a2[k].id = row.id => a2[k].v = row.target
      BY <1>3, <1>4, <3>1, <3>2
    <3> QED BY <2>4, <3>1, <3>3 DEF Wrote
  <2>8. row.at = "said" => Promised(row, t, l2, n, s)
    BY <1>6, <2>2, <2>5 DEF Promised
  <2> QED BY <2>6, <2>7, <2>8
<1> QED BY <1>5, <1>7, <1>8 DEF RowFine, t, a2
-----------------------------------------------------------------------------
(* The traffic under a number is one request, or one answer.               *)
Apart(w, a) ==
  /\ \A j, k \in 1..Len(w) : w[j].id = w[k].id => j = k
  /\ \A j, k \in 1..Len(a) : a[j].id = a[k].id => j = k
  /\ \A j \in 1..Len(w), k \in 1..Len(a) : w[j].id # a[k].id

(* Under i a write is on its way, or the news that one was refused.        *)
Burden(i, w, a) ==
  \/ \E k \in 1..Len(w) : w[k].id = i /\ w[k].op = "set"
  \/ \E k \in 1..Len(a) : a[k].id = i /\ a[k].kind = "error"

LEMMA HeadIsApart ==
  ASSUME NEW w, NEW a \in Seq(AnswerRows), Apart(w, a), a # <<>>
  PROVE  /\ \A k \in 1..Len(w) : w[k].id # Head(a).id
         /\ \A k \in 1..Len(Tail(a)) : Tail(a)[k].id # Head(a).id
<1>1. /\ Head(a) = a[1] /\ 1 \in 1..Len(a) /\ Len(a) \in Nat /\ Len(Tail(a)) = Len(a) - 1
      /\ \A k \in 1..Len(Tail(a)) : Tail(a)[k] = a[k + 1] /\ k + 1 \in 1..Len(a)
  BY HeadTail, LenProperties
<1>2. \A k \in 1..Len(w) : w[k].id # a[1].id
  BY <1>1 DEF Apart
<1>3. ASSUME NEW k \in 1..Len(Tail(a)) PROVE Tail(a)[k].id # a[1].id
  <2>1. k + 1 # 1 /\ k + 1 \in 1..Len(a) /\ Tail(a)[k] = a[k + 1]
    BY <1>1
  <2> QED BY <1>1, <2>1 DEF Apart
<1> QED BY <1>1, <1>2, <1>3

LEMMA ApartKept ==
  ASSUME NEW w \in Seq(WireRows), NEW w2, NEW a \in Seq(AnswerRows), NEW a2, Apart(w, a), NEW q \in WireRows,
         \A k \in 1..Len(w) : w[k].id # q.id,
         \A k \in 1..Len(a) : a[k].id # q.id,
         w2 = w \/ w2 = Append(w, q),
         a2 = a \/ (a # <<>> /\ a2 = Tail(a))
  PROVE  /\ Apart(w2, a2)
         /\ Within(a2, a)
<1>1. Len(w) \in Nat /\ Len(a) \in Nat
  BY LenProperties
<1>2. \A k \in 1..Len(w2) : (k \in 1..Len(w) /\ w2[k] = w[k]) \/ (k = Len(w) + 1 /\ w2[k] = q)
  <2>1. CASE w2 = w
    BY <2>1
  <2>2. CASE w2 = Append(w, q)
    BY <1>1, <2>2, AppendProperties
  <2> QED BY <2>1, <2>2
<1>3. PICK x \in {0, 1} : \A k \in 1..Len(a2) : a2[k] = a[k + x] /\ k + x \in 1..Len(a)
  <2>1. CASE a2 = a
    <3>1. \A k \in 1..Len(a2) : k + 0 = k
      BY <1>1, <2>1
    <3> QED BY <2>1, <3>1
  <2>2. CASE a # <<>> /\ a2 = Tail(a)
    BY <2>2, HeadTail
  <2> QED BY <2>1, <2>2
<1>4. \A j, k \in 1..Len(w2) : w2[j].id = w2[k].id => j = k
  BY <1>1, <1>2 DEF Apart
<1>5. ASSUME NEW j \in 1..Len(a2), NEW k \in 1..Len(a2), a2[j].id = a2[k].id PROVE j = k
  <2>1. a2[j] = a[j + x] /\ a2[k] = a[k + x] /\ j + x \in 1..Len(a) /\ k + x \in 1..Len(a)
    BY <1>3, <1>5
  <2>2. \A i, l \in 1..Len(a) : a[i].id = a[l].id => i = l
    BY DEF Apart
  <2>3. a[j + x].id = a[k + x].id
    BY <1>5, <2>1
  <2>4. j + x = k + x
    BY <2>1, <2>2, <2>3, Zenon
  <2> QED BY <1>1, <2>4
<1>6. ASSUME NEW j \in 1..Len(w2), NEW k \in 1..Len(a2) PROVE w2[j].id # a2[k].id
  <2>1. a2[k] = a[k + x] /\ k + x \in 1..Len(a)
    BY <1>3
  <2> QED BY <1>2, <2>1 DEF Apart
<1>7. Within(a2, a)
  BY <1>3 DEF Within
<1> QED BY <1>4, <1>5, <1>6, <1>7 DEF Apart

LEMMA ApartAnswered ==
  ASSUME NEW w \in Seq(WireRows), w # <<>>, NEW a \in Seq(AnswerRows), Apart(w, a), NEW b \in AnswerRows,
         b.id = Head(w).id
  PROVE  /\ Apart(Tail(w), Append(a, b))
         /\ \A k \in 1..Len(a) : a[k].id # b.id
         /\ \A k \in 1..Len(Tail(w)) : Tail(w)[k].id # b.id
<1> DEFINE t == Tail(w)
           a2 == Append(a, b)
<1>1. /\ Head(w) = w[1] /\ 1 \in 1..Len(w) /\ Len(w) \in Nat /\ Len(t) = Len(w) - 1
      /\ \A k \in 1..Len(t) : t[k] = w[k + 1] /\ k + 1 \in 1..Len(w)
  BY HeadTail, LenProperties
<1>2. /\ Len(a) \in Nat
      /\ \A k \in 1..Len(a2) : (k \in 1..Len(a) /\ a2[k] = a[k]) \/ (k = Len(a) + 1 /\ a2[k] = b)
  BY LenProperties, AppendProperties
<1> HIDE DEF t, a2
<1>3. \A k \in 1..Len(a) : a[k].id # b.id
  BY <1>1 DEF Apart
<1>4. ASSUME NEW k \in 1..Len(t) PROVE t[k].id # b.id
  <2>1. k + 1 # 1 /\ k + 1 \in 1..Len(w) /\ t[k] = w[k + 1]
    BY <1>1
  <2> QED BY <1>1, <2>1 DEF Apart
<1>5. ASSUME NEW j \in 1..Len(t), NEW k \in 1..Len(t), t[j].id = t[k].id PROVE j = k
  <2>1. /\ j + 1 \in 1..Len(w) /\ t[j] = w[j + 1]
        /\ k + 1 \in 1..Len(w) /\ t[k] = w[k + 1]
    BY <1>1
  <2>2. \A i, l \in 1..Len(w) : w[i].id = w[l].id => i = l
    BY DEF Apart
  <2>3. w[j + 1].id = w[k + 1].id
    BY <1>5, <2>1
  <2>4. j + 1 = k + 1
    BY <2>1, <2>2, <2>3, Zenon
  <2> QED BY <2>4
<1>6. \A j, k \in 1..Len(a2) : a2[j].id = a2[k].id => j = k
  BY <1>2, <1>3 DEF Apart
<1>7. ASSUME NEW j \in 1..Len(t), NEW k \in 1..Len(a2) PROVE t[j].id # a2[k].id
  <2>1. t[j] = w[j + 1] /\ j + 1 \in 1..Len(w) /\ t[j].id # b.id
    BY <1>1, <1>4
  <2>2. a2[k] = b \/ (k \in 1..Len(a) /\ a2[k] = a[k])
    BY <1>2
  <2> QED BY <2>1, <2>2 DEF Apart
<1> QED BY <1>3, <1>4, <1>5, <1>6, <1>7 DEF Apart, t, a2

LEMMA BurdenKept ==
  ASSUME NEW w \in Seq(WireRows), NEW w2, NEW a, NEW a2, NEW q \in WireRows,
         w2 = w \/ w2 = Append(w, q), Within(a2, a), NEW i, Burden(i, w2, a2)
  PROVE  Burden(i, w, a) \/ (w2 = Append(w, q) /\ q.op = "set" /\ i = q.id)
<1>1. \A k \in 1..Len(w2) : (k \in 1..Len(w) /\ w2[k] = w[k]) \/ (w2 = Append(w, q) /\ w2[k] = q)
  BY Appended
<1> QED BY <1>1 DEF Burden, Within

LEMMA BurdenAnswered ==
  ASSUME NEW w \in Seq(WireRows), w # <<>>, NEW a \in Seq(AnswerRows), NEW b \in AnswerRows,
         b.id = Head(w).id, b.kind = "error" => Head(w).op = "set",
         NEW i, Burden(i, Tail(w), Append(a, b))
  PROVE  Burden(i, w, a)
<1>1. /\ Head(w) = w[1] /\ 1 \in 1..Len(w)
      /\ \A k \in 1..Len(Tail(w)) : Tail(w)[k] = w[k + 1] /\ k + 1 \in 1..Len(w)
  BY HeadTail
<1>2. \A k \in 1..Len(Append(a, b)) : (k \in 1..Len(a) /\ Append(a, b)[k] = a[k]) \/ Append(a, b)[k] = b
  BY Appended
<1> QED BY <1>1, <1>2 DEF Burden

-----------------------------------------------------------------------------
(* Where nothing has gone wrong.                                           *)
Muted(row) == row.at = "said" /\ row.told = 0 /\ row.action # "unmute"

EntryFine(e, cs, n) ==
  /\ e.v = 0
  /\ e.seq \in 1..n
  /\ \A c \in Commands : cs[c].seq = e.seq => Muted(cs[c])

(* Of what is deferred only the last can be of the newest command.         *)
ListFine(q, cs, n) ==
  \A k \in 1..Len(q) : EntryFine(q[k], cs, n) /\ (k < Len(q) => q[k].seq < n)

(* A flush writes the one silence it has left, or asks of it.              *)
FlushTalk(fl, w, a, next) ==
  /\ fl.at \in {"write", "back"} => Len(fl.list) = 1 /\ fl.id < next
  /\ \A k \in 1..Len(w) : w[k].id = fl.id =>
       /\ fl.at = "write" => w[k].op = "set"
       /\ fl.at = "back" => w[k].op = "read"
  /\ fl.at = "back" => \A k \in 1..Len(a) : a[k].id = fl.id => a[k].kind = "level"

FlushFine(fl, cs, w, a, next, n) == ListFine(fl.list, cs, n) /\ FlushTalk(fl, w, a, next)

(* The generations of the silences still to be sent.                       *)
Unsent ==
  {s \in Nat : \/ \E k \in 1..Len(deferred) : deferred[k].seq = s
               \/ \E f \in Flushes : /\ flushes[f].at = "next"
                                     /\ \E k \in 1..Len(flushes[f].list) : flushes[f].list[k].seq = s}

Asked(i) ==
  /\ i \in waiting
  /\ \/ \E c \in Commands : commands[c].at = "write" /\ commands[c].id = i
     \/ \E f \in Flushes : flushes[f].at = "write" /\ flushes[f].id = i

Owned == \A i \in Nat : Burden(i, wire, answers) => Asked(i)

Course ==
  /\ turn => session = "on"
  /\ session # "on" => deferred = <<>>
  /\ \A c \in Commands : IsUnderWay(commands[c]) => turn
  /\ \A f \in Flushes : turn /\ flushes[f].at = "next" => flushes[f].list = <<>>
  /\ \A f \in Flushes : flushes[f].last => session # "on"
  /\ ~gone
  /\ writeSeq # 0 => \E c \in Commands : commands[c].seq = writeSeq

RowsFine == \A c \in Commands : RowFine(commands[c], wire, answers, level, writeSeq, Unsent)

FlushesFine ==
  \A f \in Flushes : FlushFine(flushes[f], commands, wire, answers, nextId, writeSeq)

WordFacts ==
  /\ Apart(wire, answers)
  /\ RowsFine
  /\ Owned
  /\ ListFine(deferred, commands, writeSeq)
  /\ FlushesFine
  /\ Course

LastInv == doubt = {} => WordFacts

(* Once all has settled the newest command is among those that said so,    *)
(* and what it promised is so.                                             *)
LEMMA SettledKeeps == ASSUME ToldInv, LastInv PROVE LastWordWins
<1> SUFFICES ASSUME Settled, doubt = {}, Said # {} PROVE Kept(LastSaid)
  BY DEF LastWordWins
<1>0. WordFacts
  BY DEF LastInv
<1>1. /\ wire = <<>> /\ answers = <<>> /\ (\A c \in Commands : ~Running(c)) /\ deferred = <<>>
      /\ \A f \in Flushes : flushes[f] = NoFlush
  BY <1>0 DEF Settled, WordFacts, Course
<1>2. \A c \in Commands : Seqs(commands[c], writeSeq) /\ commands[c] \in CommandRows
  BY <1>0, HeldAsIs DEF WordFacts, RowsFine, RowFine
<1>3. writeSeq \in Nat /\ writeSeq # 0
  <2>1. PICK c \in Commands : commands[c].at = "said"
    BY DEF Said
  <2>2. writeSeq \in Nat
    BY DEF ToldInv, DeviceKinds
  <2> QED BY <1>2, <2>1, <2>2 DEF Seqs
<1>4. PICK c \in Commands : commands[c].seq = writeSeq
  BY <1>0, <1>3 DEF WordFacts, Course
<1>5. commands[c].at = "said"
  BY <1>1, <1>2, <1>3, <1>4 DEF Seqs, Running
<1>6. \A d \in Said : commands[d].seq <= commands[c].seq /\ d \in Commands /\ commands[d].seq \in Nat
  BY <1>2, <1>3, <1>4 DEF Said, Seqs, CommandRows
<1>7. c \in Said
  BY <1>5 DEF Said
<1>8. LastSaid \in Said /\ \A d \in Said : commands[d].seq <= commands[LastSaid].seq
  BY <1>6, <1>7, Zenon DEF LastSaid
<1>9. LastSaid \in Commands /\ commands[LastSaid].at = "said" /\ commands[LastSaid].seq = writeSeq
  <2>1. writeSeq <= commands[LastSaid].seq /\ commands[LastSaid].seq <= writeSeq
    BY <1>4, <1>6, <1>7, <1>8
  <2> QED BY <1>3, <1>6, <1>8, <2>1 DEF Said
<1> DEFINE row == commands[LastSaid]
<1>10. Clean(answers) /\ wire = <<>>
  BY <1>1 DEF Clean
<1>11. Promised(row, wire, level, writeSeq, Unsent)
  <2>1. RowFine(row, wire, answers, level, writeSeq, Unsent)
    BY <1>0, <1>9 DEF WordFacts, RowsFine
  <2> QED BY <1>9, <1>10, <2>1 DEF RowFine, Keeps
<1>12. writeSeq \notin Unsent
  BY <1>1 DEF Unsent, NoFlush
<1>13. \A v : Ends(wire, level, v) => level = v
  BY <1>10 DEF Ends, LastSet
<1>14. level \in Nat
  BY DEF ToldInv, DeviceKinds
<1> QED BY <1>11, <1>12, <1>13, <1>14 DEF Promised, Loud, Kept
-----------------------------------------------------------------------------
(* What is deferred, when a command does something else than defer.        *)
LEMMA EntryKept ==
  ASSUME NEW e, NEW cs, NEW cs2, NEW n \in Nat, NEW n2 \in {n, n + 1}, EntryFine(e, cs, n),
         \A c \in Commands : \/ cs2[c] = cs[c]
                             \/ cs[c].at # "said" /\ cs2[c].seq \in {0, cs[c].seq, n + 1}
  PROVE  EntryFine(e, cs2, n2)
<1>1. e.seq \in 1..n /\ e.seq # 0 /\ e.seq # n + 1 /\ e.seq \in 1..n2
  BY DEF EntryFine
<1>2. ASSUME NEW c \in Commands, cs2[c].seq = e.seq PROVE Muted(cs2[c])
  BY <1>1, <1>2 DEF EntryFine, Muted
<1> QED BY <1>1, <1>2 DEF EntryFine

LEMMA ListKept ==
  ASSUME NEW q \in Seq(EntryRows), NEW cs, NEW cs2, NEW n \in Nat, NEW n2 \in {n, n + 1}, ListFine(q, cs, n),
         \A c \in Commands : \/ cs2[c] = cs[c]
                             \/ cs[c].at # "said" /\ cs2[c].seq \in {0, cs[c].seq, n + 1}
  PROVE  ListFine(q, cs2, n2)
<1> SUFFICES ASSUME NEW k \in 1..Len(q) PROVE EntryFine(q[k], cs2, n2) /\ (k < Len(q) => q[k].seq < n2)
  BY DEF ListFine
<1>1. EntryFine(q[k], cs, n) /\ (k < Len(q) => q[k].seq < n)
  BY DEF ListFine
<1>2. EntryFine(q[k], cs2, n2)
  BY <1>1, EntryKept
<1>3. q[k].seq \in Nat
  <2>1. q[k].seq \in 1..n
    BY <1>1 DEF EntryFine
  <2> QED BY <2>1
<1> QED BY <1>1, <1>2, <1>3

(* One more silence, of the newest command.                                *)
LEMMA ListAppended ==
  ASSUME NEW q \in Seq(EntryRows), NEW e \in EntryRows, NEW cs, NEW cs2, NEW n \in Nat, NEW c \in Commands,
         ListFine(q, cs, n), \A d \in Commands : cs[d].seq # n + 1,
         e.v = 0, e.seq = n + 1, Muted(cs2[c]),
         \A d \in Commands : d # c => cs2[d] = cs[d],
         cs[c].at # "said", cs2[c].seq = n + 1
  PROVE  ListFine(Append(q, e), cs2, n + 1)
<1> DEFINE t == Append(q, e)
<1>1. /\ Len(q) \in Nat /\ Len(t) = Len(q) + 1
      /\ \A k \in 1..Len(t) : (k \in 1..Len(q) /\ t[k] = q[k]) \/ (k = Len(q) + 1 /\ t[k] = e)
  BY LenProperties, AppendProperties
<1> HIDE DEF t
<1>2. ListFine(q, cs2, n + 1)
  BY ListKept
<1>3. EntryFine(e, cs2, n + 1)
  BY DEF EntryFine
<1>4. ASSUME NEW k \in 1..Len(q) PROVE q[k].seq < n + 1
  <2>1. q[k].seq \in 1..n
    BY DEF ListFine, EntryFine
  <2> QED BY <2>1
<1> SUFFICES ASSUME NEW k \in 1..Len(t) PROVE EntryFine(t[k], cs2, n + 1) /\ (k < Len(t) => t[k].seq < n + 1)
  BY DEF ListFine, t
<1> QED BY <1>1, <1>2, <1>3, <1>4 DEF ListFine

(* A flush that does nothing itself.                                       *)
LEMMA OtherFlush ==
  ASSUME NEW fl \in FlushRows, NEW w \in Seq(WireRows), NEW w2, NEW a, NEW a2,
         NEW next \in Nat, NEW next2 \in Nat,
         NEW q \in WireRows, q.id = next, next <= next2,
         FlushTalk(fl, w, a, next),
         w2 = w \/ w2 = Append(w, q), Within(a2, a)
  PROVE  FlushTalk(fl, w2, a2, next2)
<1>1. fl.list \in Seq(EntryRows) /\ fl.id \in Nat
  BY DEF FlushRows
<1>3. \A k \in 1..Len(w2) : (k \in 1..Len(w) /\ w2[k] = w[k]) \/ w2[k] = q
  BY Appended
<1>4. ASSUME NEW k \in 1..Len(w2), w2[k].id = fl.id
      PROVE  /\ fl.at = "write" => w2[k].op = "set"
             /\ fl.at = "back" => w2[k].op = "read"
  <2>1. fl.at \in {"write", "back"} => fl.id < next
    BY DEF FlushTalk
  <2> QED BY <1>1, <1>3, <1>4, <2>1 DEF FlushTalk
<1>5. fl.at = "back" => \A k \in 1..Len(a2) : a2[k].id = fl.id => a2[k].kind = "level"
  BY DEF FlushTalk, Within
<1>6. fl.at \in {"write", "back"} => Len(fl.list) = 1 /\ fl.id < next2
  BY <1>1 DEF FlushTalk
<1> QED BY <1>4, <1>5, <1>6 DEF FlushTalk

(* Whoever asked still does, if nobody gave up on it.                      *)
LEMMA AskedKept ==
  ASSUME NEW i, Asked(i), i \in waiting',
         \A c \in Commands : commands[c].at = "write" /\ commands[c].id = i =>
           commands'[c].at = "write" /\ commands'[c].id = i,
         \A f \in Flushes : flushes[f].at = "write" /\ flushes[f].id = i =>
           flushes'[f].at = "write" /\ flushes'[f].id = i
  PROVE  Asked(i)'
BY DEF Asked

-----------------------------------------------------------------------------
(* A command does something: its row is another, it may send q, take an    *)
(* answer, commit and defer.                                               *)
Sends(q) ==
  /\ q \in WireRows
  /\ q.id = nextId
  /\ nextId' \in Nat
  /\ nextId <= nextId'
  /\ wire' = wire \/ (wire' = Append(wire, q) /\ nextId' = nextId + 1)

Takes1 == answers' = answers \/ (answers # <<>> /\ answers' = Tail(answers) /\ Head(answers).kind # "error")

LEMMA SendsFacts ==
  ASSUME ToldInv, WordFacts, NEW q, Sends(q), Takes1
  PROVE  /\ Apart(wire, answers)' /\ Within(answers', answers)
         /\ \A k \in 1..Len(wire) : wire[k].id # q.id
         /\ Clean(answers') => Clean(answers)
<1>1. /\ wire \in Seq(WireRows) /\ answers \in Seq(AnswerRows)
      /\ \A k \in 1..Len(wire) : wire[k].id # nextId
      /\ \A k \in 1..Len(answers) : answers[k].id # nextId
  BY NumbersAreOld DEF ToldInv, DeviceKinds
<1>2. Apart(wire', answers') /\ Within(answers', answers)
  <2>1. Apart(wire, answers) /\ q \in WireRows /\ q.id = nextId /\ (wire' = wire \/ wire' = Append(wire, q))
        /\ (answers' = answers \/ (answers # <<>> /\ answers' = Tail(answers)))
    BY DEF WordFacts, Sends, Takes1
  <2> QED BY <1>1, <2>1, ApartKept
<1>3. Clean(answers') => Clean(answers)
  <2> SUFFICES ASSUME answers # <<>>, answers' = Tail(answers), Head(answers).kind # "error", Clean(answers'),
                      NEW k \in 1..Len(answers)
               PROVE  answers[k].kind # "error"
    BY DEF Takes1, Clean
  <2>1. /\ Head(answers) = answers[1] /\ Len(Tail(answers)) = Len(answers) - 1 /\ Len(answers) \in Nat
        /\ \A j \in 1..Len(Tail(answers)) : Tail(answers)[j] = answers[j + 1]
    BY <1>1, HeadTail, LenProperties
  <2>2. CASE k = 1
    BY <2>1, <2>2
  <2>3. CASE k # 1
    <3>1. k - 1 \in 1..Len(Tail(answers)) /\ (k - 1) + 1 = k
      BY <2>1, <2>3
    <3>2. Tail(answers)[k - 1] = answers[k]
      BY <2>1, <3>1
    <3> QED BY <3>1, <3>2 DEF Clean
  <2> QED BY <2>2, <2>3
<1> QED BY <1>1, <1>2, <1>3 DEF Sends

Defers(row) ==
  \/ deferred' = deferred
  \/ /\ writeSeq' = writeSeq + 1
     /\ Muted(row)
     /\ \E e \in EntryRows : e.seq = writeSeq + 1 /\ e.v = 0 /\ deferred' = Append(deferred, e)

LEMMA CommandWord ==
  ASSUME ToldInv, WordFacts, NEW c \in Commands, NEW row \in CommandRows, NEW q,
         commands' = [commands EXCEPT ![c] = row], commands[c].at # "said",
         Sends(q), q.op = "read" \/ (q.v # 0 /\ writeSeq' = writeSeq + 1), Takes1,
         \/ writeSeq' = writeSeq + 1 /\ row.seq = writeSeq + 1
         \/ writeSeq' = writeSeq /\ row.seq = commands[c].seq /\ deferred' = deferred,
         Defers(row),
         turn, UNCHANGED <<level, flushes, turn, session, gone>>,
         RowFine(row, wire', answers', level, writeSeq', Unsent'),
         \A i \in Nat : Burden(i, wire', answers') => Asked(i)'
  PROVE  WordFacts'
<1>1. /\ commands \in [Commands -> CommandRows] /\ writeSeq \in Nat /\ wire \in Seq(WireRows)
      /\ deferred \in Seq(EntryRows) /\ flushes \in [Flushes -> FlushRows] /\ nextId \in Nat
      /\ writeSeq' \in {writeSeq, writeSeq + 1}
  BY DEF ToldInv, DeviceKinds
<1>2. /\ commands'[c] = row
      /\ \A d \in Commands : d # c => commands'[d] = commands[d]
  BY <1>1
<1>3. /\ q \in WireRows /\ q.id = nextId /\ nextId' \in Nat /\ nextId <= nextId'
      /\ wire' = wire \/ wire' = Append(wire, q)
  BY DEF Sends
<1>4. /\ Apart(wire', answers') /\ Within(answers', answers)
      /\ \A k \in 1..Len(wire) : wire[k].id # q.id
      /\ Clean(answers') => Clean(answers)
  BY SendsFacts
<1>5. ASSUME NEW d \in Commands PROVE RowFine(commands'[d], wire', answers', level', writeSeq', Unsent')
  <2>1. CASE d = c
    BY <1>2, <2>1
  <2>2. CASE d # c
    <3>1. commands'[d] = commands[d] /\ commands[d] \in CommandRows
          /\ RowFine(commands[d], wire, answers, level, writeSeq, Unsent)
      BY <1>1, <1>2, <2>2 DEF WordFacts, RowsFine
    <3>2. \/ writeSeq' = writeSeq + 1
          \/ writeSeq' = writeSeq /\ (Clean(answers') => Clean(answers)) /\ (writeSeq \in Unsent => writeSeq \in Unsent')
      BY <1>4 DEF Unsent
    <3>3. RowFine(commands[d], wire', answers', level, writeSeq', Unsent')
      BY <1>1, <1>3, <1>4, <3>1, <3>2, OtherRow
    <3> QED BY <3>1, <3>3
  <2> QED BY <2>1, <2>2
<1>6. \A d \in Commands : \/ commands'[d] = commands[d]
                          \/ commands[d].at # "said" /\ commands'[d].seq \in {0, commands[d].seq, writeSeq + 1}
  BY <1>2
<1>7. ListFine(deferred', commands', writeSeq')
  <2>1. ListFine(deferred, commands, writeSeq)
    BY DEF WordFacts
  <2>2. CASE deferred' = deferred
    BY <1>1, <1>6, <2>1, <2>2, ListKept, ZenonT(40)
  <2>3. CASE deferred' # deferred
    <3>1. PICK e \in EntryRows : e.seq = writeSeq + 1 /\ e.v = 0 /\ deferred' = Append(deferred, e)
      BY <2>3 DEF Defers
    <3>2. writeSeq' = writeSeq + 1 /\ row.seq = writeSeq + 1 /\ Muted(row)
      BY <2>3 DEF Defers
    <3>3. ASSUME NEW d \in Commands PROVE commands[d].seq # writeSeq + 1
      <4>1. Seqs(commands[d], writeSeq)
        BY DEF WordFacts, RowsFine, RowFine
      <4> QED BY <1>1, <4>1 DEF Seqs
    <3> QED BY <1>1, <1>2, <2>1, <3>1, <3>2, <3>3, ListAppended
  <2> QED BY <2>2, <2>3
<1>8. ASSUME NEW f \in Flushes
      PROVE  FlushFine(flushes'[f], commands', wire', answers', nextId', writeSeq')
  <2>1. flushes[f] \in FlushRows /\ FlushFine(flushes[f], commands, wire, answers, nextId, writeSeq)
    BY <1>1 DEF WordFacts, FlushesFine
  <2>2. FlushTalk(flushes[f], wire', answers', nextId')
    <3>1. FlushTalk(flushes[f], wire, answers, nextId)
      BY <2>1 DEF FlushFine
    <3> QED BY <1>1, <1>3, <1>4, <2>1, <3>1, OtherFlush
  <2>3. ListFine(flushes[f].list, commands', writeSeq')
    <3>1. flushes[f].list \in Seq(EntryRows) /\ ListFine(flushes[f].list, commands, writeSeq)
      BY <2>1 DEF FlushFine, FlushRows
    <3> QED BY <1>1, <1>6, <3>1, ListKept, ZenonT(40)
  <2> QED BY <2>2, <2>3 DEF FlushFine
<1>9. Course'
  <2>1. /\ turn => session = "on"
        /\ session # "on" => deferred = <<>>
        /\ \A f \in Flushes : flushes[f].last => session # "on"
        /\ \A f \in Flushes : turn /\ flushes[f].at = "next" => flushes[f].list = <<>>
        /\ ~gone
        /\ writeSeq # 0 => \E d \in Commands : commands[d].seq = writeSeq
    BY DEF WordFacts, Course
  <2>2. writeSeq' # 0 => \E d \in Commands : commands'[d].seq = writeSeq'
    <3>1. CASE writeSeq' = writeSeq + 1 /\ row.seq = writeSeq + 1
      BY <1>2, <3>1
    <3>2. CASE writeSeq' = writeSeq /\ row.seq = commands[c].seq
      BY <1>2, <2>1, <3>2
    <3> QED BY <3>1, <3>2
  <2> QED BY <2>1, <2>2 DEF Course
<1> QED BY <1>4, <1>5, <1>7, <1>8, <1>9 DEF WordFacts, RowsFine, FlushesFine, Owned

(* Who answers for what is on its way, after a step of command c.          *)
LEMMA CommandAsked ==
  ASSUME ToldInv, WordFacts, NEW c \in Commands, NEW row \in CommandRows, NEW q,
         commands' = [commands EXCEPT ![c] = row], flushes' = flushes,
         Sends(q), Takes1,
         wire' # wire /\ q.op = "set" => row.at = "write" /\ row.id = nextId /\ nextId \in waiting',
         \A i \in waiting : i \in waiting' \/ i = commands[c].id,
         (commands[c].at = "none" /\ waiting \subseteq waiting') \/ ~Burden(commands[c].id, wire', answers')
  PROVE  \A i \in Nat : Burden(i, wire', answers') => Asked(i)'
<1> SUFFICES ASSUME NEW i \in Nat, Burden(i, wire', answers') PROVE Asked(i)'
  OBVIOUS
<1>1. /\ commands \in [Commands -> CommandRows] /\ wire \in Seq(WireRows)
      /\ q \in WireRows /\ q.id = nextId /\ (wire' = wire \/ wire' = Append(wire, q))
      /\ Within(answers', answers)
  BY SendsFacts DEF ToldInv, DeviceKinds, Sends
<1>2. commands'[c] = row /\ \A d \in Commands : d # c => commands'[d] = commands[d]
  BY <1>1
<1>3. Burden(i, wire, answers) \/ (wire' = Append(wire, q) /\ q.op = "set" /\ i = nextId)
  BY <1>1, BurdenKept
<1>4. CASE Burden(i, wire, answers)
  <2>1. Asked(i)
    BY <1>4 DEF WordFacts, Owned
  <2>2. i \in waiting' /\ (commands[c].at = "none" \/ commands[c].id # i)
    BY <2>1 DEF Asked
  <2> QED BY <1>2, <2>1, <2>2, AskedKept
<1>5. CASE wire' = Append(wire, q) /\ q.op = "set" /\ i = nextId
  <2>1. wire' # wire
    <3>1. Len(wire') = Len(wire) + 1 /\ Len(wire) \in Nat
      BY <1>1, <1>5, Appended, LenProperties
    <3> QED BY <3>1
  <2> QED BY <1>2, <1>5, <2>1 DEF Asked
<1> QED BY <1>3, <1>4, <1>5

(* Once the answer of a call is taken nothing is left under its number.    *)
LEMMA NothingLeft ==
  ASSUME ToldInv, WordFacts, NEW i \in Nat, i < nextId, answers # <<>>, Head(answers).id = i,
         answers' = Tail(answers), NEW q, Sends(q)
  PROVE  /\ \A k \in 1..Len(wire) : wire[k].id # i
         /\ \A k \in 1..Len(wire') : wire'[k].id # i
         /\ \A k \in 1..Len(answers') : answers'[k].id # i
         /\ ~Burden(i, wire', answers')
<1>1. wire \in Seq(WireRows) /\ answers \in Seq(AnswerRows) /\ Apart(wire, answers) /\ nextId \in Nat
  BY DEF ToldInv, DeviceKinds, WordFacts
<1>2. /\ \A k \in 1..Len(wire) : wire[k].id # i
      /\ \A k \in 1..Len(answers') : answers'[k].id # i
  BY <1>1, HeadIsApart
<1>3. /\ q \in WireRows
      /\ q.id = nextId
      /\ wire' = wire \/ wire' = Append(wire, q)
  BY DEF Sends
<1>4. \A k \in 1..Len(wire') : (k \in 1..Len(wire) /\ wire'[k] = wire[k]) \/ wire'[k] = q
  <2>1. CASE wire' = wire
    BY <2>1
  <2>2. CASE wire' = Append(wire, q)
    BY <1>1, <1>3, <2>2, Appended, SMTT(30)
  <2> QED BY <1>3, <2>1, <2>2
<1>5. \A k \in 1..Len(wire') : wire'[k].id # i
  BY <1>1, <1>2, <1>3, <1>4
<1> QED BY <1>2, <1>5 DEF Burden

(* Nor is a write, ever, under the number of one that asks.                *)
LEMMA AskerIsQuiet ==
  ASSUME ToldInv, WordFacts, NEW c \in Commands, commands[c].at \in {"read", "back"}
  PROVE  ~Burden(commands[c].id, wire, answers)
<1>1. \A k \in 1..Len(wire) : MayAsk(commands[c], wire[k])
  BY HeldAsIs DEF Honest
<1>2. Heard(commands[c], answers)
  BY DEF WordFacts, RowsFine, RowFine
<1> QED BY <1>1, <1>2 DEF Burden, MayAsk, IsUnderWay, Heard

(* A command that waits, and its answer.                                   *)
LEMMA WaiterFacts ==
  ASSUME ToldInv, WordFacts, NEW c \in Commands
  PROVE  /\ commands[c] \in CommandRows
         /\ commands[c].id \in Nat
         /\ commands[c].at \in {"read", "write", "back"} => commands[c].id < nextId /\ turn
         /\ RowFine(commands[c], wire, answers, level, writeSeq, Unsent)
         /\ wire \in Seq(WireRows) /\ answers \in Seq(AnswerRows)
         /\ level \in Nat /\ writeSeq \in Nat /\ nextId \in Nat
<1>1. commands[c] \in CommandRows /\ Honest(commands[c], held[c], level, nextId, wire, answers)
  BY HeldAsIs
<1>2. commands[c].id \in Nat
  BY <1>1 DEF CommandRows
<1>3. commands[c].at \in {"read", "write", "back"} => commands[c].id < nextId /\ turn
  BY <1>1 DEF Honest, IsUnderWay, WordFacts, Course
<1>4. RowFine(commands[c], wire, answers, level, writeSeq, Unsent)
  BY DEF WordFacts, RowsFine
<1> QED BY <1>1, <1>2, <1>3, <1>4 DEF ToldInv, DeviceKinds

LEMMA AnswerHeard ==
  ASSUME ToldInv, WordFacts, NEW c \in Commands, commands[c].at \in {"read", "write", "back"},
         Answered(commands[c].id)
  PROVE  /\ answers # <<>>
         /\ Head(answers) \in AnswerRows
         /\ Head(answers).id = commands[c].id
         /\ 1 \in 1..Len(answers) /\ answers[1] = Head(answers)
         /\ commands[c].at \in {"read", "back"} => Head(answers).kind = "level"
         /\ commands[c].at = "write" /\ Head(answers).kind = "level" => Head(answers).v = commands[c].target
<1>1. answers # <<>> /\ Head(answers).id = commands[c].id
  BY DEF Answered
<1>2. answers \in Seq(AnswerRows) /\ Heard(commands[c], answers)
  BY WaiterFacts DEF RowFine
<1>3. Head(answers) = answers[1] /\ 1 \in 1..Len(answers) /\ Head(answers) \in AnswerRows
  BY <1>1, <1>2, HeadTail
<1> QED BY <1>1, <1>2, <1>3 DEF Heard

LEMMA RequestRow ==
  ASSUME nextId \in Nat, NEW op \in {"read", "set"}, NEW v \in Nat
  PROVE  /\ Request(op, v) \in WireRows
         /\ Request(op, v).id = nextId
         /\ Request(op, v).op = op
         /\ Request(op, v).v = v
BY DEF Request, WireRows

(* A command that sends nothing.                                           *)
LEMMA SendsNothing ==
  ASSUME ToldInv, wire' = wire, nextId' = nextId
  PROVE  /\ Sends(Request("read", 0))
         /\ Request("read", 0).op = "read"
<1>1. nextId \in Nat
  BY DEF ToldInv, DeviceKinds
<1> QED BY <1>1, RequestRow DEF Sends

LEMMA SendsCall ==
  ASSUME ToldInv, NEW op \in {"read", "set"}, NEW v \in Nat,
         wire' = Append(wire, Request(op, v)), nextId' = nextId + 1
  PROVE  /\ Sends(Request(op, v))
         /\ Request(op, v).op = op
         /\ Request(op, v).v = v
         /\ Request(op, v).id = nextId
<1>1. nextId \in Nat
  BY DEF ToldInv, DeviceKinds
<1> QED BY <1>1, RequestRow DEF Sends

-----------------------------------------------------------------------------
(* The steps of a command.                                                 *)

LEMMA StartReadingWord ==
  ASSUME ToldInv, WordFacts, NEW c \in Commands, NEW o \in Orders, StartReading(c, o)
  PROVE  WordFacts'
<1> DEFINE row == [Begin(c, o) EXCEPT !.at = "read", !.id = nextId]
           q == Request("read", 0)
<1>1. /\ commands[c].at = "none" /\ turn
      /\ commands' = [commands EXCEPT ![c] = row]
      /\ UNCHANGED <<level, answers, deferred, writeSeq, flushes, turn, session, gone>>
  BY DEF StartReading, CanStart, NewId
<1>2. ~gone /\ wire' = Append(wire, q) /\ waiting' = waiting \cup {nextId} /\ nextId' = nextId + 1
  BY DEF StartReading, Call, NewId, Request, WordFacts, Course
<1>3. commands[c] \in CommandRows /\ nextId \in Nat /\ wire \in Seq(WireRows) /\ commands[c].seq = 0
  BY <1>1, WaiterFacts DEF RowFine, Seqs
<1>4. /\ row \in CommandRows
      /\ row.at = "read"
      /\ row.id = nextId
      /\ row.seq = 0
  BY <1>3, DeviceBounds DEF CommandRows, Begin
<1>5. Sends(q) /\ q.op = "read" /\ q.id = nextId /\ q \in WireRows
  BY <1>2, <1>3, SendsCall, RequestRow
<1> HIDE DEF row, q
<1>6. Takes1
  BY <1>1 DEF Takes1
<1>7. RowFine(row, wire', answers', level, writeSeq', Unsent')
  <2>1. LoudAfter(wire', row.id)
    BY <1>2, <1>3, <1>4, <1>5, NumbersAreOld, ReadAdded
  <2>2. \A k \in 1..Len(answers') : answers'[k].id # row.id
    BY <1>1, <1>4, NumbersAreOld
  <2>3. Seqs(row, writeSeq') /\ Heard(row, answers')
    BY <1>4, <2>2, NewlyHeard DEF Seqs
  <2>4. Listens(row, wire', answers', level)
    BY <2>1, <2>2 DEF Listens
  <2>5. Keeps(row, wire', answers', level, writeSeq', Unsent')
    BY <1>4 DEF Keeps
  <2> QED BY <2>3, <2>4, <2>5 DEF RowFine
<1>8. \A i \in Nat : Burden(i, wire', answers') => Asked(i)'
  BY <1>1, <1>2, <1>4, <1>5, <1>6, CommandAsked
<1>9. Defers(row)
  BY <1>1 DEF Defers
<1> QED BY <1>1, <1>3, <1>4, <1>5, <1>6, <1>7, <1>8, <1>9, CommandWord

(* A write is sent, of a level that is not silence, and is the newest.     *)
LEMMA WritesRow ==
  ASSUME ToldInv, NEW row \in CommandRows, NEW v \in Nat, v # 0, row.at = "write", row.target = v,
         row.id = nextId, row.seq = writeSeq + 1, writeSeq' = writeSeq + 1,
         wire' = Append(wire, Request("set", v)), Within(answers', answers)
  PROVE  RowFine(row, wire', answers', level, writeSeq', Unsent')
<1> DEFINE q == Request("set", v)
<1>1. nextId \in Nat /\ wire \in Seq(WireRows) /\ writeSeq \in Nat
  BY DEF ToldInv, DeviceKinds
<1>2. q \in WireRows /\ q.op = "set" /\ q.id = nextId /\ q.v = v
  BY <1>1, RequestRow
<1> HIDE DEF q
<1>3. wire' = Append(wire, q)
  BY DEF q
<1>4. LastSet(wire', row.id, row.target)
  BY <1>1, <1>2, <1>3, SetAdded
<1>5. \A k \in 1..Len(answers') : answers'[k].id # row.id
  BY NumbersAreOld DEF Within
<1>6. Heard(row, answers')
  BY <1>5, NewlyHeard
<1>7. Seqs(row, writeSeq')
  BY <1>1 DEF Seqs
<1>8. Listens(row, wire', answers', level)
  BY DEF Listens
<1>9. Keeps(row, wire', answers', level, writeSeq', Unsent')
  BY <1>4 DEF Keeps, Writes
<1> QED BY <1>6, <1>7, <1>8, <1>9 DEF RowFine

LEMMA StartWritingWord ==
  ASSUME ToldInv, WordFacts, NEW c \in Commands, NEW o \in Orders, StartWriting(c, o)
  PROVE  WordFacts'
<1> DEFINE to  == Clamp(o[2])
           row == Committed(Begin(c, o), to, "write")
           q   == Request("set", to)
<1>1. /\ commands[c].at = "none" /\ turn /\ to # 0
      /\ commands' = [commands EXCEPT ![c] = row]
      /\ writeSeq' = writeSeq + 1
      /\ UNCHANGED <<level, answers, deferred, flushes, turn, session, gone>>
  BY DEF StartWriting, CanStart, NoteWrite
<1>2. ~gone /\ wire' = Append(wire, q) /\ waiting' = waiting \cup {nextId} /\ nextId' = nextId + 1
  BY DEF StartWriting, Call, NewId, Request, WordFacts, Course
<1>3. commands[c] \in CommandRows /\ nextId \in Nat /\ writeSeq \in Nat /\ to \in Nat
  BY WaiterFacts, DeviceBounds, ClampIsNat
<1> HIDE DEF to
<1>4. row \in CommandRows /\ row.at = "write" /\ row.id = nextId /\ row.target = to /\ row.seq = writeSeq + 1
  <2> DEFINE b == Begin(c, o)
  <2>1. b \in CommandRows
    BY <1>3, BeginsRow
  <2> HIDE DEF b
  <2>2. /\ Committed(b, to, "write") \in CommandRows
        /\ Committed(b, to, "write").at = "write"
        /\ Committed(b, to, "write").target = to
        /\ Committed(b, to, "write").seq = writeSeq + 1
        /\ Committed(b, to, "write").id = nextId
    BY <1>3, <2>1, CommittedRow
  <2> QED BY <2>2 DEF b
<1>5. Sends(q) /\ q.op = "set" /\ q.v = to /\ q.id = nextId
  BY <1>2, <1>3, SendsCall
<1> HIDE DEF row
<1>6. Takes1 /\ Within(answers', answers)
  BY <1>1, SelfWithin DEF Takes1
<1>7. RowFine(row, wire', answers', level, writeSeq', Unsent')
  BY <1>1, <1>2, <1>3, <1>4, <1>6, WritesRow
<1> HIDE DEF q
<1>8. \A i \in Nat : Burden(i, wire', answers') => Asked(i)'
  BY <1>1, <1>2, <1>4, <1>5, <1>6, CommandAsked
<1>9. Defers(row)
  BY <1>1 DEF Defers
<1> QED BY <1>1, <1>4, <1>5, <1>6, <1>7, <1>8, <1>9, CommandWord

(* What is deferred is, for now, of the newest command.                    *)
LEMMA Deferred ==
  ASSUME ToldInv, Defer, NoteWrite, NEW row, Muted(row)
  PROVE  /\ Defers(row)
         /\ writeSeq' = writeSeq + 1
         /\ writeSeq' \in Unsent'
<1> DEFINE e == [seq |-> writeSeq + 1, left |-> MaxAttempts, v |-> 0]
<1>1. deferred' = Append(deferred, e) /\ writeSeq' = writeSeq + 1
  BY DEF Defer, NoteWrite
<1>2. writeSeq \in Nat /\ deferred \in Seq(EntryRows)
  BY DEF ToldInv, DeviceKinds
<1>3. e \in EntryRows /\ e.seq = writeSeq + 1 /\ e.v = 0
  BY <1>2, DeviceBounds DEF EntryRows
<1> HIDE DEF e
<1>4. Defers(row)
  BY <1>1, <1>3 DEF Defers
<1>5. Len(deferred) + 1 \in 1..Len(deferred') /\ deferred'[Len(deferred) + 1] = e
  <2>1. Len(deferred) \in Nat
    BY <1>2, LenProperties
  <2> QED BY <1>1, <1>2, <1>3, <2>1, Appended
<1>6. writeSeq' \in Nat
  BY <1>1, <1>2
<1> QED BY <1>1, <1>3, <1>4, <1>5, <1>6 DEF Unsent

LEMMA MutesRow ==
  ASSUME NEW row, Muted(row), NEW w, NEW a, NEW l, NEW n \in Nat \ {0}, NEW s, n \in s, row.seq = n
  PROVE  RowFine(row, w, a, l, n, s)
BY DEF Muted, RowFine, Seqs, Heard, Listens, Keeps, Promised

LEMMA StartMutingWord ==
  ASSUME ToldInv, WordFacts, NEW c \in Commands, NEW o \in Orders, StartMuting(c, o)
  PROVE  WordFacts'
<1> DEFINE row == Committed(Begin(c, o), 0, "said")
<1>1. /\ commands[c].at = "none" /\ turn /\ o[1] \in {"mute", "set"}
      /\ commands' = [commands EXCEPT ![c] = row]
      /\ Defer /\ NoteWrite
      /\ UNCHANGED <<level, wire, answers, waiting, nextId, flushes, turn, session, gone>>
  BY DEF StartMuting, CanStart
<1>2. commands[c] \in CommandRows /\ nextId \in Nat /\ writeSeq \in Nat /\ commands[c].told = 0
  BY <1>1, WaiterFacts, HeldAsIs DEF Honest
<1>3. row \in CommandRows /\ Muted(row) /\ row.seq = writeSeq + 1
  <2> DEFINE b == Begin(c, o)
  <2>1. b \in CommandRows /\ b.told = 0
    BY <1>2, BeginsRow
  <2>2. b.action # "unmute"
    BY <1>1, <1>2 DEF Begin, CommandRows
  <2> HIDE DEF b
  <2>3. /\ Committed(b, 0, "said") \in CommandRows
        /\ Committed(b, 0, "said").at = "said"
        /\ Committed(b, 0, "said").seq = writeSeq + 1
        /\ Committed(b, 0, "said").told = b.told
        /\ Committed(b, 0, "said").action = b.action
    <3>1. 0 \in Nat /\ "said" \in {"write", "said"}
      OBVIOUS
    <3> QED BY <1>2, <2>1, <3>1, CommittedRow, SMTT(30)
  <2> QED BY <2>1, <2>2, <2>3 DEF b, Muted
<1> HIDE DEF row
<1>4. Defers(row) /\ writeSeq' = writeSeq + 1 /\ writeSeq' \in Unsent'
  BY <1>1, <1>3, Deferred
<1>5. Sends(Request("read", 0)) /\ Request("read", 0).op = "read" /\ Takes1
  BY <1>1, SendsNothing DEF Takes1
<1>6. RowFine(row, wire', answers', level, writeSeq', Unsent')
  <2>1. writeSeq' \in Nat \ {0} /\ row.seq = writeSeq'
    BY <1>2, <1>3, <1>4
  <2> QED BY <1>3, <1>4, <2>1, MutesRow
<1>7. \A i \in Nat : Burden(i, wire', answers') => Asked(i)'
  BY <1>1, <1>3, <1>5, CommandAsked
<1> QED BY <1>1, <1>3, <1>4, <1>5, <1>6, <1>7, CommandWord

(* A command whose answer is taken, and that sends nothing.                *)
LEMMA TakenWord ==
  ASSUME ToldInv, WordFacts, NEW c \in Commands, commands[c].at \in {"read", "write", "back"},
         Answered(commands[c].id), Received(commands[c].id), wire' = wire, nextId' = nextId,
         Head(answers).kind # "error",
         NEW row \in CommandRows, commands' = [commands EXCEPT ![c] = row],
         \/ writeSeq' = writeSeq + 1 /\ row.seq = writeSeq + 1
         \/ writeSeq' = writeSeq /\ row.seq = commands[c].seq /\ deferred' = deferred,
         Defers(row),
         UNCHANGED <<level, flushes, turn, session, gone>>,
         RowFine(row, wire', answers', level, writeSeq', Unsent')
  PROVE  WordFacts'
<1> DEFINE q == Request("read", 0)
<1>1. Sends(q) /\ q.op = "read"
  BY SendsNothing
<1> HIDE DEF q
<1>2. answers # <<>> /\ Head(answers).id = commands[c].id /\ answers' = Tail(answers)
      /\ waiting' = waiting \ {commands[c].id}
  BY DEF Answered, Received
<1>3. Takes1
  BY <1>2 DEF Takes1
<1>4. commands[c].id \in Nat /\ commands[c].id < nextId /\ turn
  BY WaiterFacts
<1>5. ~Burden(commands[c].id, wire', answers')
  BY <1>1, <1>2, <1>4, NothingLeft
<1>6. \A i \in Nat : Burden(i, wire', answers') => Asked(i)'
  BY <1>1, <1>2, <1>3, <1>5, CommandAsked
<1> QED BY <1>1, <1>3, <1>4, <1>6, CommandWord

LEMMA ReadFailsWord ==
  ASSUME ToldInv, WordFacts, NEW c \in Commands, ReadFails(c)
  PROVE  WordFacts'
<1> DEFINE row == [Unborn EXCEPT !.at = "failed"]
<1>1. /\ commands[c].at = "read" /\ Answered(commands[c].id) /\ Received(commands[c].id)
      /\ commands' = [commands EXCEPT ![c] = row]
      /\ UNCHANGED <<level, wire, nextId, deferred, writeSeq, flushes, turn, session, gone>>
  BY DEF ReadFails, Fails, ReadSays
<1>2. row \in CommandRows /\ row.at = "failed" /\ row.seq = 0
  BY DEF Unborn, CommandRows
<1> HIDE DEF row
<1>3. RowFine(row, wire', answers', level, writeSeq', Unsent')
  BY <1>2, NoPromise
<1>4. row.seq = commands[c].seq
  BY <1>1, <1>2, WaiterFacts DEF RowFine, Seqs
<1>5. Defers(row) /\ Head(answers).kind # "error"
  BY <1>1, AnswerHeard DEF Defers
<1> QED BY <1>1, <1>2, <1>3, <1>4, <1>5, TakenWord

LEMMA ReadAudibleWord ==
  ASSUME ToldInv, WordFacts, NEW c \in Commands, ReadAudible(c)
  PROVE  WordFacts'
<1> DEFINE v   == Head(answers).v
           row == [Committed(commands[c], v, "said") EXCEPT !.told = v]
<1>1. /\ commands[c].at = "read" /\ commands[c].action = "unmute" /\ v > 0
      /\ Answered(commands[c].id) /\ Received(commands[c].id)
      /\ commands' = [commands EXCEPT ![c] = row]
      /\ writeSeq' = writeSeq + 1
      /\ UNCHANGED <<level, wire, nextId, deferred, flushes, turn, session, gone>>
  BY DEF ReadAudible, ReadSays, NoteWrite
<1>2. v \in Nat /\ v # 0 /\ commands[c] \in CommandRows /\ nextId \in Nat /\ writeSeq \in Nat
  BY <1>1, AnswerHeard, WaiterFacts DEF AnswerRows
<1>3. Loud(wire, level)
  <2>1. Listens(commands[c], wire, answers, level)
    BY WaiterFacts DEF RowFine
  <2> QED BY <1>1, <1>2, <2>1, AnswerHeard DEF Listens
<1> HIDE DEF v
<1> DEFINE mid == Committed(commands[c], v, "said")
<1>4. /\ mid \in CommandRows
      /\ mid.at = "said"
      /\ mid.seq = writeSeq + 1
      /\ mid.action = "unmute"
  BY <1>1, <1>2, CommittedRow
<1> HIDE DEF mid
<1>5. /\ row \in CommandRows
      /\ row.at = "said"
      /\ row.seq = writeSeq + 1
      /\ row.action = "unmute"
  <2>1. row = [mid EXCEPT !.told = v]
    BY DEF mid
  <2> QED BY <1>2, <1>4, <2>1 DEF CommandRows
<1> HIDE DEF row
<1>6. RowFine(row, wire', answers', level, writeSeq', Unsent')
  <2>1. Seqs(row, writeSeq')
    BY <1>1, <1>2, <1>5 DEF Seqs
  <2>2. Heard(row, answers') /\ Listens(row, wire', answers', level)
    BY <1>5 DEF Heard, Listens
  <2>3. Keeps(row, wire', answers', level, writeSeq', Unsent')
    BY <1>1, <1>3, <1>5 DEF Keeps, Promised
  <2> QED BY <2>1, <2>2, <2>3 DEF RowFine
<1>7. Defers(row) /\ Head(answers).kind # "error"
  BY <1>1, AnswerHeard DEF Defers
<1> QED BY <1>1, <1>5, <1>6, <1>7, TakenWord

LEMMA ReadMutesWord ==
  ASSUME ToldInv, WordFacts, NEW c \in Commands, ReadMutes(c)
  PROVE  WordFacts'
<1> DEFINE row == Committed(commands[c], 0, "said")
<1>1. /\ commands[c].at = "read" /\ Target(c, Head(answers).v) = 0
      /\ Answered(commands[c].id) /\ Received(commands[c].id)
      /\ commands' = [commands EXCEPT ![c] = row]
      /\ Defer /\ NoteWrite
      /\ UNCHANGED <<level, wire, nextId, flushes, turn, session, gone>>
  BY DEF ReadMutes, ReadSays
<1>2. /\ commands[c] \in CommandRows /\ nextId \in Nat /\ writeSeq \in Nat
      /\ commands[c].told = 0 /\ commands[c].action # "unmute"
  <2>1. commands[c].action # "unmute"
    BY <1>1, DeviceBounds DEF Target
  <2> QED BY <1>1, <2>1, WaiterFacts, HeadTells
<1>3. row \in CommandRows /\ Muted(row) /\ row.seq = writeSeq + 1
  <2> DEFINE rec == commands[c]
  <2>1. rec \in CommandRows /\ rec.told = 0 /\ rec.action # "unmute" /\ 0 \in Nat /\ "said" \in {"write", "said"}
    BY <1>2
  <2> HIDE DEF rec
  <2>2. /\ Committed(rec, 0, "said") \in CommandRows
        /\ Committed(rec, 0, "said").at = "said"
        /\ Committed(rec, 0, "said").seq = writeSeq + 1
        /\ Committed(rec, 0, "said").told = rec.told
        /\ Committed(rec, 0, "said").action = rec.action
    BY <1>2, <2>1, CommittedRow
  <2> QED BY <2>1, <2>2 DEF rec, Muted
<1> HIDE DEF row
<1>4. Defers(row) /\ writeSeq' = writeSeq + 1 /\ writeSeq' \in Unsent'
  BY <1>1, <1>3, Deferred
<1>5. RowFine(row, wire', answers', level, writeSeq', Unsent')
  <2>1. writeSeq' \in Nat \ {0} /\ row.seq = writeSeq'
    BY <1>2, <1>3, <1>4
  <2> QED BY <1>3, <1>4, <2>1, MutesRow
<1>6. Head(answers).kind # "error"
  BY <1>1, AnswerHeard
<1> QED BY <1>1, <1>3, <1>4, <1>5, <1>6, TakenWord

LEMMA ReadWritesWord ==
  ASSUME ToldInv, WordFacts, NEW c \in Commands, ReadWrites(c)
  PROVE  WordFacts'
<1> DEFINE to  == Target(c, Head(answers).v)
           row == Committed(commands[c], to, "write")
           q   == Request("set", to)
<1>1. /\ commands[c].at = "read" /\ to # 0 /\ Answered(commands[c].id)
      /\ commands' = [commands EXCEPT ![c] = row]
      /\ writeSeq' = writeSeq + 1
      /\ UNCHANGED <<level, deferred, flushes, turn, session, gone>>
  BY DEF ReadWrites, ReadSays, NoteWrite
<1>2. /\ answers' = Tail(answers) /\ wire' = Append(wire, q)
      /\ waiting' = (waiting \ {commands[c].id}) \cup {nextId} /\ nextId' = nextId + 1
  BY DEF ReadWrites, Calls, NewId, Request
<1>3. commands[c] \in CommandRows /\ nextId \in Nat /\ writeSeq \in Nat /\ to \in Nat
      /\ commands[c].id \in Nat /\ commands[c].id < nextId /\ turn
  <2>1. Head(answers).v \in Nat
    BY <1>1, AnswerHeard DEF AnswerRows
  <2> QED BY <1>1, <2>1, WaiterFacts, TargetIsNat
<1>4. answers # <<>> /\ Head(answers).id = commands[c].id /\ Head(answers).kind = "level"
      /\ answers \in Seq(AnswerRows)
  BY <1>1, AnswerHeard, WaiterFacts
<1> HIDE DEF to
<1>5. row \in CommandRows /\ row.at = "write" /\ row.id = nextId /\ row.target = to /\ row.seq = writeSeq + 1
  BY <1>3, CommittedRow, ZenonT(40)
<1>6. Sends(q) /\ q.op = "set" /\ q.v = to /\ q.id = nextId
  BY <1>2, <1>3, SendsCall
<1> HIDE DEF row
<1>7. Takes1 /\ Within(answers', answers)
  BY <1>2, <1>4, TailWithin DEF Takes1
<1>8. RowFine(row, wire', answers', level, writeSeq', Unsent')
  BY <1>1, <1>2, <1>3, <1>5, <1>7, WritesRow
<1> HIDE DEF q
<1>9. ~Burden(commands[c].id, wire', answers')
  BY <1>2, <1>3, <1>4, <1>6, NothingLeft
<1>10. \A i \in Nat : Burden(i, wire', answers') => Asked(i)'
  <2>1. \A i \in waiting : i \in waiting' \/ i = commands[c].id
    BY <1>2
  <2> QED BY <1>1, <1>2, <1>5, <1>6, <1>7, <1>9, <2>1, CommandAsked
<1>11. Defers(row)
  BY <1>1 DEF Defers
<1> QED BY <1>1, <1>3, <1>5, <1>6, <1>7, <1>8, <1>10, <1>11, CommandWord

(* A write that was answered with its level was the last on its way, or    *)
(* has been overtaken by a newer command.                                  *)
LEMMA WriteLanded ==
  ASSUME NEW row, NEW w, NEW a, NEW l, NEW n, NEW s, RowFine(row, w, a, l, n, s), row.at = "write",
         \A k \in 1..Len(w) : w[k].id # row.id, Clean(a), row.seq = n
  PROVE  NoSets(w) /\ l = row.target
BY DEF RowFine, Keeps, Writes, LastSet

LEMMA TellsRow ==
  ASSUME NEW row \in CommandRows, NEW w, NEW a, NEW l, NEW n \in Nat, NEW s,
         row.at = "said", row.seq \in 1..n,
         Clean(a) /\ row.seq = n => NoSets(w) /\ l = row.told /\ l # 0
  PROVE  RowFine(row, w, a, l, n, s)
<1>1. Seqs(row, n) /\ Heard(row, a) /\ Listens(row, w, a, l)
  BY DEF Seqs, Heard, Listens
<1>2. Keeps(row, w, a, l, n, s)
  BY DEF Keeps, Promised, Loud, LoudSets, NoSets, Ends
<1> QED BY <1>1, <1>2 DEF RowFine

LEMMA WriteAnsweredWord ==
  ASSUME ToldInv, WordFacts, NEW c \in Commands, WriteAnswered(c), doubt' = {}
  PROVE  WordFacts'
<1>1. /\ commands[c].at = "write" /\ Answered(commands[c].id)
      /\ UNCHANGED <<level, deferred, writeSeq, flushes, turn, session, gone>>
  BY DEF WriteAnswered
<1>2. /\ answers # <<>> /\ Head(answers) \in AnswerRows /\ Head(answers).id = commands[c].id
      /\ Head(answers).kind = "level" => Head(answers).v = commands[c].target
      /\ Head(answers).v \in Nat
  BY <1>1, AnswerHeard DEF AnswerRows
<1>3. /\ commands[c] \in CommandRows /\ commands[c].id \in Nat /\ commands[c].id < nextId /\ turn
      /\ RowFine(commands[c], wire, answers, level, writeSeq, Unsent)
      /\ wire \in Seq(WireRows) /\ answers \in Seq(AnswerRows)
      /\ level \in Nat /\ writeSeq \in Nat /\ nextId \in Nat
      /\ commands \in [Commands -> CommandRows]
  BY <1>1, WaiterFacts DEF ToldInv, DeviceKinds
<1>4. commands[c].seq \in 1..writeSeq /\ commands[c].target # 0
  BY <1>1, <1>3 DEF RowFine, Seqs
<1>5. \A k \in 1..Len(wire) : wire[k].id # commands[c].id
  BY <1>2, <1>3, HeadIsApart DEF WordFacts
<1>6. Clean(answers) /\ commands[c].seq = writeSeq => NoSets(wire) /\ level = commands[c].target
  BY <1>1, <1>3, <1>5, WriteLanded
<1>7. Head(answers).kind # "error"
  BY <1>1 DEF WriteAnswered
<1>8. CASE Head(answers).kind = "level"
  <2>1. Says(c, Head(answers).v) /\ Received(commands[c].id) /\ wire' = wire /\ nextId' = nextId
    BY <1>7, <1>8 DEF WriteAnswered
  <2> DEFINE row == commands'[c]
  <2>2. /\ commands' = [commands EXCEPT ![c] = row]
        /\ row \in CommandRows
        /\ row.at = "said"
        /\ row.told = commands[c].target
        /\ row.seq = commands[c].seq
    BY <1>2, <1>8, <2>1, SaysRow
  <2> HIDE DEF row
  <2>3. Sends(Request("read", 0)) /\ Takes1
    BY <1>2, <1>7, <2>1, SendsNothing DEF Takes1, Received
  <2>4. Clean(answers') => Clean(answers)
    BY <2>3, SendsFacts
  <2>5. RowFine(row, wire', answers', level, writeSeq', Unsent')
    BY <1>1, <1>3, <1>4, <1>6, <2>1, <2>2, <2>4, TellsRow
  <2>6. Defers(row)
    BY <1>1 DEF Defers
  <2> QED BY <1>1, <1>7, <2>1, <2>2, <2>5, <2>6, TakenWord
<1>9. CASE Head(answers).kind = "bare"
  <2> DEFINE q == Request("read", 0)
             row == [commands[c] EXCEPT !.at = "back", !.id = nextId]
  <2>1. /\ answers' = Tail(answers) /\ wire' = Append(wire, q)
        /\ waiting' = (waiting \ {commands[c].id}) \cup {nextId} /\ nextId' = nextId + 1
    BY <1>9 DEF WriteAnswered, Calls, NewId, Request
  <2>2. commands' = [commands EXCEPT ![c] = row]
    BY <1>3, <1>9 DEF WriteAnswered, NewId
  <2>3. /\ row \in CommandRows
        /\ row.at = "back"
        /\ row.id = nextId
        /\ row.target = commands[c].target
        /\ row.seq = commands[c].seq
    BY <1>3 DEF CommandRows
  <2> HIDE DEF row
  <2>4. Sends(q) /\ q.op = "read" /\ q \in WireRows /\ q.id = nextId
    BY <1>3, <2>1, SendsCall, RequestRow
  <2> HIDE DEF q
  <2>5. Takes1 /\ Within(answers', answers)
    BY <1>2, <1>3, <1>7, <2>1, TailWithin DEF Takes1
  <2>6. Clean(answers') => Clean(answers)
    BY <2>4, <2>5, SendsFacts
  <2>7. \A k \in 1..Len(answers') : answers'[k].id # row.id
    BY <2>3, <2>5, NumbersAreOld DEF Within
  <2>8. NoSets(wire) => NoSets(wire')
    BY <1>3, <2>1, <2>4, NumbersAreOld, ReadAdded
  <2>9. RowFine(row, wire', answers', level, writeSeq', Unsent')
    <3>1. Seqs(row, writeSeq') /\ Heard(row, answers') /\ Listens(row, wire', answers', level)
      BY <1>1, <1>4, <2>3, <2>7, NewlyHeard DEF Seqs, Listens
    <3>2. Keeps(row, wire', answers', level, writeSeq', Unsent')
      BY <1>1, <1>6, <2>3, <2>6, <2>7, <2>8 DEF Keeps, Wrote
    <3> QED BY <3>1, <3>2 DEF RowFine
  <2>10. ~Burden(commands[c].id, wire', answers')
    BY <1>2, <1>3, <2>1, <2>4, NothingLeft
  <2>11. \A i \in Nat : Burden(i, wire', answers') => Asked(i)'
    <3>1. \A i \in waiting : i \in waiting' \/ i = commands[c].id
      BY <2>1
    <3> QED BY <1>1, <2>2, <2>3, <2>4, <2>5, <2>10, <3>1, CommandAsked
  <2>12. Defers(row)
    BY <1>1 DEF Defers
  <2> QED BY <1>1, <1>3, <2>2, <2>3, <2>4, <2>5, <2>9, <2>11, <2>12, CommandWord
<1> QED BY <1>2, <1>7, <1>8, <1>9 DEF AnswerRows

(* Where the level read back is the one written, so is what is said.       *)
LEMMA BackRow ==
  ASSUME ToldInv, WordFacts, NEW c \in Commands, commands[c].at = "back", NEW l \in Nat, Says(c, l),
         Clean(answers) /\ commands[c].seq = writeSeq => l = commands[c].target,
         Clean(answers') => Clean(answers), UNCHANGED <<wire, writeSeq>>
  PROVE  /\ commands' = [commands EXCEPT ![c] = commands'[c]]
         /\ commands'[c] \in CommandRows
         /\ commands'[c].seq = commands[c].seq
         /\ RowFine(commands'[c], wire', answers', level, writeSeq', Unsent')
<1> DEFINE row == commands'[c]
<1>1. /\ commands' = [commands EXCEPT ![c] = row]
      /\ row \in CommandRows
      /\ row.at = "said"
      /\ row.told = l
      /\ row.seq = commands[c].seq
  BY SaysRow
<1> HIDE DEF row
<1>2. /\ RowFine(commands[c], wire, answers, level, writeSeq, Unsent)
      /\ level \in Nat /\ writeSeq \in Nat
  BY WaiterFacts
<1>3. commands[c].seq \in 1..writeSeq /\ commands[c].target # 0
  BY <1>2 DEF RowFine, Seqs
<1>4. Clean(answers) /\ commands[c].seq = writeSeq => NoSets(wire) /\ level = commands[c].target
  BY <1>2 DEF RowFine, Keeps, Wrote
<1>5. RowFine(row, wire', answers', level, writeSeq', Unsent')
  BY <1>1, <1>2, <1>3, <1>4, TellsRow
<1> QED BY <1>1, <1>5 DEF row

LEMMA BackAnsweredWord ==
  ASSUME ToldInv, WordFacts, NEW c \in Commands, BackAnswered(c)
  PROVE  WordFacts'
<1>1. /\ commands[c].at = "back" /\ Answered(commands[c].id) /\ Received(commands[c].id)
      /\ UNCHANGED <<level, wire, nextId, deferred, writeSeq, flushes, turn, session, gone>>
  BY DEF BackAnswered
<1>2. /\ answers # <<>> /\ Head(answers) \in AnswerRows /\ Head(answers).id = commands[c].id
      /\ Head(answers).kind = "level" /\ Head(answers).v \in Nat
      /\ 1 \in 1..Len(answers) /\ answers[1] = Head(answers)
  BY <1>1, AnswerHeard DEF AnswerRows
<1>3. Says(c, Head(answers).v)
  BY <1>2 DEF BackAnswered
<1>4. Clean(answers) /\ commands[c].seq = writeSeq => Head(answers).v = commands[c].target
  <2>1. RowFine(commands[c], wire, answers, level, writeSeq, Unsent)
    BY WaiterFacts
  <2> QED BY <1>1, <1>2, <2>1 DEF RowFine, Keeps, Wrote
<1>5. Sends(Request("read", 0)) /\ Takes1
  BY <1>1, <1>2, SendsNothing DEF Takes1, Received
<1>6. Clean(answers') => Clean(answers)
  BY <1>5, SendsFacts
<1> DEFINE row == commands'[c]
<1>7. /\ commands' = [commands EXCEPT ![c] = row]
      /\ row \in CommandRows
      /\ row.seq = commands[c].seq
      /\ RowFine(row, wire', answers', level, writeSeq', Unsent')
  BY <1>1, <1>2, <1>3, <1>4, <1>6, BackRow
<1> HIDE DEF row
<1>8. Defers(row)
  BY <1>1 DEF Defers
<1> QED BY <1>1, <1>2, <1>7, <1>8, TakenWord

LEMMA CallTimesOutWord ==
  ASSUME ToldInv, WordFacts, NEW c \in Commands, CallTimesOut(c), doubt' = {}
  PROVE  WordFacts'
<1>1. /\ commands[c].at \in {"read", "back"} /\ waiting' = waiting \ {commands[c].id}
      /\ UNCHANGED <<level, wire, answers, nextId, deferred, writeSeq, flushes, turn, session, gone>>
  BY DEF CallTimesOut, Overdue, Running, Forget
<1> DEFINE q == Request("read", 0)
<1>2. Sends(q) /\ q.op = "read" /\ Takes1 /\ turn
  BY <1>1, SendsNothing, WaiterFacts DEF Takes1
<1> HIDE DEF q
<1>3. ~Burden(commands[c].id, wire', answers')
  BY <1>1, AskerIsQuiet
<1>4. \A row \in CommandRows : Defers(row)
  BY <1>1 DEF Defers
<1>5. ASSUME NEW row \in CommandRows, commands' = [commands EXCEPT ![c] = row], row.seq = commands[c].seq,
             RowFine(row, wire', answers', level, writeSeq', Unsent')
      PROVE  WordFacts'
  <2>1. \A i \in Nat : Burden(i, wire', answers') => Asked(i)'
    BY <1>1, <1>2, <1>3, <1>5, CommandAsked
  <2> QED BY <1>1, <1>2, <1>4, <1>5, <2>1, CommandWord
<1>6. CASE commands[c].at = "back"
  <2>1. Says(c, commands[c].target) /\ commands[c].target \in Nat
    BY <1>6, WaiterFacts DEF CallTimesOut, CommandRows
  <2>2. /\ commands' = [commands EXCEPT ![c] = commands'[c]]
        /\ commands'[c] \in CommandRows
        /\ commands'[c].seq = commands[c].seq
        /\ RowFine(commands'[c], wire', answers', level, writeSeq', Unsent')
    BY <1>1, <1>6, <2>1, BackRow
  <2> QED BY <1>5, <2>2
<1>7. CASE commands[c].at = "read"
  <2> DEFINE row == [Unborn EXCEPT !.at = "failed"]
  <2>1. commands' = [commands EXCEPT ![c] = row]
    BY <1>7 DEF CallTimesOut, Fails
  <2>2. row \in CommandRows /\ row.at = "failed" /\ row.seq = 0
    BY DEF Unborn, CommandRows
  <2> HIDE DEF row
  <2>3. RowFine(row, wire', answers', level, writeSeq', Unsent')
    BY <2>2, NoPromise
  <2>4. row.seq = commands[c].seq
    BY <1>7, <2>2, WaiterFacts DEF RowFine, Seqs
  <2> QED BY <1>5, <2>1, <2>2, <2>3, <2>4
<1> QED BY <1>1, <1>6, <1>7

-----------------------------------------------------------------------------
(* The steps of a flush.                                                   *)

LEMMA FlushAsked ==
  ASSUME ToldInv, WordFacts, NEW f \in Flushes, NEW fr \in FlushRows, NEW q,
         flushes' = [flushes EXCEPT ![f] = fr], commands' = commands,
         Sends(q), Takes1,
         wire' # wire /\ q.op = "set" => fr.at = "write" /\ fr.id = nextId /\ nextId \in waiting',
         \A i \in waiting : i \in waiting' \/ i = flushes[f].id,
         \/ /\ flushes[f].at = "write" => fr.at = "write" /\ fr.id = flushes[f].id
            /\ waiting \subseteq waiting'
         \/ ~Burden(flushes[f].id, wire', answers')
  PROVE  \A i \in Nat : Burden(i, wire', answers') => Asked(i)'
<1> SUFFICES ASSUME NEW i \in Nat, Burden(i, wire', answers') PROVE Asked(i)'
  OBVIOUS
<1>1. /\ flushes \in [Flushes -> FlushRows] /\ wire \in Seq(WireRows)
      /\ q \in WireRows /\ q.id = nextId /\ (wire' = wire \/ wire' = Append(wire, q))
      /\ Within(answers', answers)
  BY SendsFacts DEF ToldInv, DeviceKinds, Sends
<1>2. flushes'[f] = fr /\ \A g \in Flushes : g # f => flushes'[g] = flushes[g]
  BY <1>1
<1>3. Burden(i, wire, answers) \/ (wire' = Append(wire, q) /\ q.op = "set" /\ i = nextId)
  BY <1>1, BurdenKept
<1>4. CASE Burden(i, wire, answers)
  <2>1. Asked(i)
    BY <1>4 DEF WordFacts, Owned
  <2>2. i \in waiting'
    BY <2>1 DEF Asked
  <2>3. \A g \in Flushes : flushes[g].at = "write" /\ flushes[g].id = i =>
          flushes'[g].at = "write" /\ flushes'[g].id = i
    BY <1>2
  <2> QED BY <2>1, <2>2, <2>3, AskedKept
<1>5. CASE wire' = Append(wire, q) /\ q.op = "set" /\ i = nextId
  <2>1. wire' # wire
    <3>1. Len(wire') = Len(wire) + 1 /\ Len(wire) \in Nat
      BY <1>1, <1>5, Appended, LenProperties
    <3> QED BY <3>1
  <2> QED BY <1>2, <1>5, <2>1 DEF Asked
<1> QED BY <1>3, <1>4, <1>5

LEMMA FlushWord ==
  ASSUME ToldInv, WordFacts, NEW f \in Flushes, NEW fr \in FlushRows, NEW q,
         flushes' = [flushes EXCEPT ![f] = fr],
         UNCHANGED <<level, commands, deferred, writeSeq, turn, gone>>,
         session' = session \/ (session' = "over" /\ session # "on"),
         Sends(q), Takes1,
         ListFine(fr.list, commands, writeSeq), FlushTalk(fr, wire', answers', nextId'),
         turn /\ fr.at = "next" => fr.list = <<>>, fr.last => session # "on",
         \A c \in Commands : RowFine(commands[c], wire', answers', level, writeSeq, Unsent'),
         \A i \in Nat : Burden(i, wire', answers') => Asked(i)'
  PROVE  WordFacts'
<1>1. /\ flushes \in [Flushes -> FlushRows] /\ wire \in Seq(WireRows) /\ nextId \in Nat
      /\ q \in WireRows /\ q.id = nextId /\ nextId' \in Nat /\ nextId <= nextId'
      /\ (wire' = wire \/ wire' = Append(wire, q))
      /\ Apart(wire', answers') /\ Within(answers', answers)
  BY SendsFacts DEF ToldInv, DeviceKinds, Sends
<1>2. flushes'[f] = fr /\ \A g \in Flushes : g # f => flushes'[g] = flushes[g]
  BY <1>1
<1>3. ListFine(deferred', commands', writeSeq')
  BY DEF WordFacts
<1>4. ASSUME NEW g \in Flushes
      PROVE  FlushFine(flushes'[g], commands', wire', answers', nextId', writeSeq')
  <2>1. CASE g = f
    BY <1>2, <2>1 DEF FlushFine
  <2>2. CASE g # f
    <3>1. flushes[g] \in FlushRows /\ flushes'[g] = flushes[g]
          /\ ListFine(flushes[g].list, commands, writeSeq) /\ FlushTalk(flushes[g], wire, answers, nextId)
      BY <1>1, <1>2, <2>2 DEF WordFacts, FlushesFine, FlushFine
    <3>2. FlushTalk(flushes[g], wire', answers', nextId')
      BY <1>1, <3>1, OtherFlush
    <3> QED BY <3>1, <3>2 DEF FlushFine
  <2> QED BY <2>1, <2>2
<1>5. Course'
  <2>1. Course
    BY DEF WordFacts
  <2>2. \A g \in Flushes : /\ flushes'[g].last => session' # "on"
                          /\ turn' /\ flushes'[g].at = "next" => flushes'[g].list = <<>>
    BY <1>2, <2>1 DEF Course
  <2> QED BY <2>1, <2>2 DEF Course
<1>6. \A c \in Commands : RowFine(commands'[c], wire', answers', level', writeSeq', Unsent')
  OBVIOUS
<1> QED BY <1>1, <1>3, <1>4, <1>5, <1>6 DEF WordFacts, RowsFine, FlushesFine, Owned

LEMMA FlushKnown ==
  ASSUME ToldInv, WordFacts, NEW f \in Flushes
  PROVE  /\ flushes[f] \in FlushRows
         /\ flushes[f].list \in Seq(EntryRows)
         /\ flushes[f].id \in Nat
         /\ nextId \in Nat
         /\ writeSeq \in Nat
         /\ flushes \in [Flushes -> FlushRows]
         /\ ListFine(flushes[f].list, commands, writeSeq)
         /\ FlushTalk(flushes[f], wire, answers, nextId)
         /\ turn /\ flushes[f].at = "next" => flushes[f].list = <<>>
         /\ flushes[f].last => session # "on"
<1>1. flushes \in [Flushes -> FlushRows] /\ flushes[f] \in FlushRows /\ nextId \in Nat /\ writeSeq \in Nat
  BY DEF ToldInv, DeviceKinds
<1>2. flushes[f].list \in Seq(EntryRows) /\ flushes[f].id \in Nat
  BY <1>1 DEF FlushRows
<1>3. FlushFine(flushes[f], commands, wire, answers, nextId, writeSeq) /\ Course
  BY DEF WordFacts, FlushesFine
<1> QED BY <1>1, <1>2, <1>3 DEF FlushFine, Course

(* Of the commands, when no silence is sent and none of the newest one's   *)
(* is lost.                                                                *)
LEMMA RowsKept ==
  ASSUME ToldInv, WordFacts, NEW q, Sends(q), q.op = "read", Takes1, UNCHANGED <<level, commands, writeSeq>>,
         writeSeq \in Unsent => writeSeq \in Unsent'
  PROVE  \A c \in Commands : RowFine(commands[c], wire', answers', level, writeSeq, Unsent')
<1> SUFFICES ASSUME NEW c \in Commands PROVE RowFine(commands[c], wire', answers', level, writeSeq, Unsent')
  OBVIOUS
<1>1. /\ q \in WireRows /\ q.id = nextId
      /\ wire' = wire \/ wire' = Append(wire, q)
      /\ Within(answers', answers)
      /\ \A k \in 1..Len(wire) : wire[k].id # q.id
      /\ Clean(answers') => Clean(answers)
  BY SendsFacts DEF Sends
<1>2. commands[c] \in CommandRows /\ RowFine(commands[c], wire, answers, level, writeSeq, Unsent)
      /\ wire \in Seq(WireRows) /\ writeSeq \in Nat
  BY WaiterFacts
<1> QED BY <1>1, <1>2, OtherRow

LEMMA TailFine ==
  ASSUME NEW q \in Seq(EntryRows), q # <<>>, NEW cs, NEW n, ListFine(q, cs, n)
  PROVE  ListFine(Tail(q), cs, n)
<1> DEFINE t == Tail(q)
<1>1. /\ Len(q) \in Nat /\ Len(t) = Len(q) - 1
      /\ \A k \in 1..Len(t) : t[k] = q[k + 1] /\ k + 1 \in 1..Len(q)
  BY HeadTail, LenProperties
<1> HIDE DEF t
<1>2. ASSUME NEW k \in 1..Len(t) PROVE EntryFine(t[k], cs, n) /\ (k < Len(t) => t[k].seq < n)
  <2>1. k + 1 \in 1..Len(q) /\ t[k] = q[k + 1] /\ (k < Len(t) => k + 1 < Len(q))
    BY <1>1
  <2> QED BY <2>1 DEF ListFine
<1> QED BY <1>2 DEF ListFine, t

(* The row of a flush that goes on to what is left of its list.            *)
LEMMA NextFlushRow ==
  ASSUME ToldInv, WordFacts, NEW f \in Flushes, flushes[f].list # <<>>, Next1(f)
  PROVE  \E fr \in FlushRows :
           /\ flushes' = [flushes EXCEPT ![f] = fr]
           /\ fr.at = "next" /\ fr.list = Tail(flushes[f].list) /\ fr.last = flushes[f].last
           /\ ListFine(fr.list, commands, writeSeq)
           /\ \A w, a, n : FlushTalk(fr, w, a, n)
<1> DEFINE rest == Tail(flushes[f].list)
<1>1. rest \in Seq(EntryRows) /\ ListFine(rest, commands, writeSeq)
  BY FlushKnown, HeadTail, TailFine
<1> HIDE DEF rest
<1> DEFINE row == [flushes[f] EXCEPT !.at = "next", !.list = rest, !.id = 0]
<1>2. flushes' = [flushes EXCEPT ![f] = row]
  BY FlushKnown DEF Next1, rest
<1>3. row \in FlushRows /\ row.at = "next" /\ row.list = rest /\ row.last = flushes[f].last
  BY <1>1, FlushKnown DEF FlushRows
<1> HIDE DEF row
<1>4. \A w, a, n : FlushTalk(row, w, a, n)
  BY <1>3 DEF FlushTalk
<1> QED BY <1>1, <1>2, <1>3, <1>4 DEF rest

LEMMA UnsentKept ==
  ASSUME ToldInv, NEW f \in Flushes, NEW fr, flushes' = [flushes EXCEPT ![f] = fr], deferred' = deferred,
         NEW n \in Unsent,
         flushes[f].at = "next" => \A k \in 1..Len(flushes[f].list) : flushes[f].list[k].seq = n =>
           fr.at = "next" /\ \E j \in 1..Len(fr.list) : fr.list[j].seq = n
  PROVE  n \in Unsent'
<1>1. flushes'[f] = fr /\ \A g \in Flushes : g # f => flushes'[g] = flushes[g]
  BY DEF ToldInv, DeviceKinds
<1>2. n \in Nat
  BY DEF Unsent
<1>3. CASE \E k \in 1..Len(deferred) : deferred[k].seq = n
  BY <1>2, <1>3 DEF Unsent
<1>4. CASE \E g \in Flushes : flushes[g].at = "next" /\ \E k \in 1..Len(flushes[g].list) : flushes[g].list[k].seq = n
  <2>1. PICK g \in Flushes : flushes[g].at = "next" /\ \E k \in 1..Len(flushes[g].list) : flushes[g].list[k].seq = n
    BY <1>4
  <2>2. flushes'[g].at = "next" /\ \E k \in 1..Len(flushes'[g].list) : flushes'[g].list[k].seq = n
    BY <1>1, <2>1
  <2> QED BY <1>2, <2>2 DEF Unsent
<1> QED BY <1>3, <1>4 DEF Unsent

LEMMA FlushSkipsWord ==
  ASSUME ToldInv, WordFacts, NEW f \in Flushes, FlushSkips(f)
  PROVE  WordFacts'
<1>1. /\ flushes[f].at = "next" /\ flushes[f].list # <<>> /\ Head(flushes[f].list).seq # writeSeq /\ Next1(f)
      /\ UNCHANGED <<level, commands, wire, answers, waiting, nextId, deferred, writeSeq, turn, session, gone>>
  BY DEF FlushSkips, Stale
<1>2. PICK fr \in FlushRows :
        /\ flushes' = [flushes EXCEPT ![f] = fr]
        /\ fr.at = "next" /\ fr.list = Tail(flushes[f].list) /\ fr.last = flushes[f].last
        /\ ListFine(fr.list, commands, writeSeq)
        /\ \A w, a, n : FlushTalk(fr, w, a, n)
  BY <1>1, NextFlushRow
<1> DEFINE q == Request("read", 0)
<1>3. Sends(q) /\ q.op = "read" /\ Takes1
  BY <1>1, SendsNothing DEF Takes1
<1> HIDE DEF q
<1>4. ~turn /\ (fr.last => session # "on")
  BY <1>1, <1>2, FlushKnown
<1>5. writeSeq \in Unsent => writeSeq \in Unsent'
  <2> SUFFICES ASSUME writeSeq \in Unsent PROVE writeSeq \in Unsent'
    OBVIOUS
  <2> DEFINE lst == flushes[f].list
  <2>1. /\ Head(lst) = lst[1] /\ Len(lst) \in Nat /\ Len(Tail(lst)) = Len(lst) - 1
        /\ \A k \in 1..Len(Tail(lst)) : Tail(lst)[k] = lst[k + 1]
    BY <1>1, FlushKnown, HeadTail, LenProperties
  <2>2. ASSUME NEW k \in 1..Len(lst), lst[k].seq = writeSeq
        PROVE  \E j \in 1..Len(Tail(lst)) : Tail(lst)[j].seq = writeSeq
    <3>1. k # 1
      BY <1>1, <2>1, <2>2
    <3>2. k - 1 \in 1..Len(Tail(lst)) /\ (k - 1) + 1 = k
      BY <2>1, <3>1
    <3>3. Tail(lst)[k - 1] = lst[k]
      BY <2>1, <3>2
    <3> QED BY <2>2, <3>2, <3>3
  <2>3. \A k \in 1..Len(flushes[f].list) : flushes[f].list[k].seq = writeSeq =>
          fr.at = "next" /\ \E j \in 1..Len(fr.list) : fr.list[j].seq = writeSeq
    BY <1>2, <2>2
  <2> HIDE DEF lst
  <2> QED BY <1>1, <1>2, <2>3, UnsentKept
<1>6. \A c \in Commands : RowFine(commands[c], wire', answers', level, writeSeq, Unsent')
  BY <1>1, <1>3, <1>5, RowsKept
<1>7. \A i \in Nat : Burden(i, wire', answers') => Asked(i)'
  BY <1>1, <1>2, <1>3, FlushAsked
<1> QED BY <1>1, <1>2, <1>3, <1>4, <1>6, <1>7, FlushWord

(* A silence is sent only for the newest command, and when none runs.      *)
LEMMA FlushDispatchesWord ==
  ASSUME ToldInv, WordFacts, NEW f \in Flushes, FlushDispatches(f)
  PROVE  WordFacts'
<1> DEFINE lst == flushes[f].list
           e   == Head(lst)
           q   == Request("set", e.v)
           fr  == [flushes[f] EXCEPT !.at = "write", !.id = nextId]
<1>1. /\ flushes[f].at = "next" /\ lst # <<>> /\ e.seq = writeSeq
      /\ UNCHANGED <<level, commands, answers, deferred, writeSeq, turn, session, gone>>
  BY DEF FlushDispatches, Stale
<1>2. ~gone /\ wire' = Append(wire, q) /\ waiting' = waiting \cup {nextId} /\ nextId' = nextId + 1
  BY DEF FlushDispatches, Call, NewId, Request, WordFacts, Course
<1>3. /\ flushes' = [flushes EXCEPT ![f] = fr]
      /\ fr \in FlushRows
      /\ fr.at = "write"
      /\ fr.id = nextId
      /\ fr.list = lst
      /\ fr.last = flushes[f].last
  BY FlushKnown DEF FlushDispatches, NewId, FlushRows
<1> HIDE DEF fr
<1>4. /\ lst \in Seq(EntryRows) /\ ListFine(lst, commands, writeSeq) /\ nextId \in Nat /\ writeSeq \in Nat
      /\ ~turn /\ (flushes[f].last => session # "on")
  BY <1>1, FlushKnown
<1>5. 1 \in 1..Len(lst) /\ e = lst[1] /\ Len(lst) \in Nat
  BY <1>1, <1>4, HeadTail, LenProperties
<1>6. EntryFine(e, commands, writeSeq) /\ ~(1 < Len(lst))
  BY <1>1, <1>4, <1>5 DEF ListFine
<1> HIDE DEF lst, e
<1>7. e.v = 0 /\ Len(lst) = 1 /\ (\A c \in Commands : commands[c].seq = writeSeq => Muted(commands[c]))
  <2>1. \A m \in Nat : 1 \in 1..m /\ ~(1 < m) => m = 1
    OBVIOUS
  <2>3. Len(lst) = 1
    BY <1>5, <1>6, <2>1, Zenon
  <2>2. e.v = 0 /\ (\A c \in Commands : commands[c].seq = e.seq => Muted(commands[c]))
    BY <1>6 DEF EntryFine
  <2> QED BY <1>1, <2>2, <2>3
<1>8. Sends(q) /\ q.op = "set" /\ q.v = 0 /\ q.id = nextId /\ q \in WireRows
  BY <1>2, <1>4, <1>7, SendsCall, RequestRow
<1> HIDE DEF q
<1>9. Takes1
  BY <1>1 DEF Takes1
<1>10. FlushTalk(fr, wire', answers', nextId')
  <2>1. nextId < nextId'
    BY <1>2, <1>4
  <2>2. ASSUME NEW k \in 1..Len(wire'), wire'[k].id = nextId PROVE wire'[k].op = "set"
    <3>1. (k \in 1..Len(wire) /\ wire'[k] = wire[k]) \/ wire'[k] = q
      BY <1>2, <1>8, Appended DEF ToldInv, DeviceKinds
    <3> QED BY <1>8, <2>2, <3>1, NumbersAreOld
  <2> QED BY <1>3, <1>7, <2>1, <2>2 DEF FlushTalk
<1>11. \A c \in Commands : RowFine(commands[c], wire', answers', level, writeSeq, Unsent')
  <2> SUFFICES ASSUME NEW c \in Commands PROVE RowFine(commands[c], wire', answers', level, writeSeq, Unsent')
    OBVIOUS
  <2>1. /\ commands[c] \in CommandRows /\ RowFine(commands[c], wire, answers, level, writeSeq, Unsent)
        /\ wire \in Seq(WireRows) /\ ~IsUnderWay(commands[c])
    BY <1>4, WaiterFacts DEF WordFacts, Course
  <2>2. commands[c].seq = writeSeq => commands[c].at = "said" /\ commands[c].told = 0 /\ commands[c].action # "unmute"
    BY <1>7 DEF Muted
  <2> QED BY <1>1, <1>2, <1>4, <1>8, <2>1, <2>2, SilenceSent
<1>12. \A i \in Nat : Burden(i, wire', answers') => Asked(i)'
  BY <1>1, <1>2, <1>3, <1>8, <1>9, FlushAsked
<1> QED BY <1>1, <1>3, <1>4, <1>8, <1>9, <1>10, <1>11, <1>12, FlushWord

(* A flush whose call is over, with nothing sent.                          *)
LEMMA GoesOnWord ==
  ASSUME ToldInv, WordFacts, NEW f \in Flushes, flushes[f].at \in {"write", "back"}, Next1(f),
         UNCHANGED <<level, commands, wire, nextId, deferred, writeSeq, turn, session, gone>>, Takes1,
         waiting' = waiting \ {flushes[f].id}, ~Burden(flushes[f].id, wire', answers')
  PROVE  WordFacts'
<1>1. flushes[f].list \in Seq(EntryRows) /\ Len(flushes[f].list) = 1 /\ (flushes[f].last => session # "on")
  BY FlushKnown DEF FlushTalk
<1>2. flushes[f].list # <<>>
  BY FlushFacts
<1>3. PICK fr \in FlushRows :
        /\ flushes' = [flushes EXCEPT ![f] = fr]
        /\ fr.at = "next" /\ fr.list = Tail(flushes[f].list) /\ fr.last = flushes[f].last
        /\ ListFine(fr.list, commands, writeSeq)
        /\ \A w, a, n : FlushTalk(fr, w, a, n)
  BY <1>2, NextFlushRow
<1>4. fr.list = <<>>
  <2>1. Tail(flushes[f].list) \in Seq(EntryRows) /\ Len(Tail(flushes[f].list)) = 0
    BY <1>1, <1>2, HeadTail
  <2> QED BY <1>3, <2>1, EmptySeq
<1> DEFINE q == Request("read", 0)
<1>5. Sends(q) /\ q.op = "read"
  BY SendsNothing
<1> HIDE DEF q
<1>6. writeSeq \in Unsent => writeSeq \in Unsent'
  BY <1>3, UnsentKept
<1>7. \A c \in Commands : RowFine(commands[c], wire', answers', level, writeSeq, Unsent')
  BY <1>5, <1>6, RowsKept
<1>8. \A i \in Nat : Burden(i, wire', answers') => Asked(i)'
  BY <1>3, <1>5, FlushAsked
<1> QED BY <1>1, <1>3, <1>4, <1>5, <1>7, <1>8, FlushWord

LEMMA FlushAnsweredWord ==
  ASSUME ToldInv, WordFacts, NEW f \in Flushes, FlushAnswered(f), doubt' = {}
  PROVE  WordFacts'
<1>1. /\ flushes[f].at \in {"write", "back"} /\ answers # <<>> /\ Head(answers).id = flushes[f].id
      /\ UNCHANGED <<level, commands, writeSeq, turn, session, gone>>
  BY DEF FlushAnswered, Answered
<1>2. /\ flushes[f].id \in Nat /\ nextId \in Nat /\ FlushTalk(flushes[f], wire, answers, nextId)
      /\ answers \in Seq(AnswerRows) /\ wire \in Seq(WireRows)
      /\ ListFine(flushes[f].list, commands, writeSeq) /\ (flushes[f].last => session # "on")
      /\ flushes[f] \in FlushRows /\ flushes \in [Flushes -> FlushRows]
  BY FlushKnown DEF ToldInv, DeviceKinds
<1>3. flushes[f].id < nextId /\ Len(flushes[f].list) = 1
  BY <1>1, <1>2 DEF FlushTalk
<1>4. flushes[f].at = "back" => Head(answers).kind = "level"
  <2>1. Head(answers) = answers[1] /\ 1 \in 1..Len(answers)
    BY <1>1, <1>2, HeadTail
  <2> QED BY <1>1, <1>2, <2>1 DEF FlushTalk
<1>5. \/ Head(answers).kind = "bare" /\ Calls(flushes[f].id, "read", 0)
         /\ flushes' = [flushes EXCEPT ![f].at = "back", ![f].id = NewId] /\ deferred' = deferred
      \/ Head(answers).kind = "level" /\ Next1(f) /\ Received(flushes[f].id)
         /\ UNCHANGED <<wire, nextId, deferred>>
  BY <1>4 DEF FlushAnswered, FlushFails
<1>6. answers' = Tail(answers) /\ Head(answers).kind # "error" /\ Takes1
  BY <1>1, <1>5 DEF Calls, Received, Takes1
<1>7. CASE Next1(f) /\ Received(flushes[f].id) /\ UNCHANGED <<wire, nextId, deferred>>
  <2>1. Sends(Request("read", 0))
    BY <1>7, SendsNothing
  <2>2. ~Burden(flushes[f].id, wire', answers')
    BY <1>1, <1>2, <1>3, <1>6, <2>1, NothingLeft
  <2>3. waiting' = waiting \ {flushes[f].id}
    BY <1>7 DEF Received
  <2> QED BY <1>1, <1>6, <1>7, <2>2, <2>3, GoesOnWord
<1>8. CASE /\ Calls(flushes[f].id, "read", 0) /\ deferred' = deferred
           /\ flushes' = [flushes EXCEPT ![f].at = "back", ![f].id = NewId]
  <2> DEFINE q  == Request("read", 0)
             fr == [flushes[f] EXCEPT !.at = "back", !.id = nextId]
  <2>1. /\ wire' = Append(wire, q)
        /\ waiting' = (waiting \ {flushes[f].id}) \cup {nextId} /\ nextId' = nextId + 1
    BY <1>8 DEF Calls, NewId, Request
  <2>2. flushes' = [flushes EXCEPT ![f] = fr]
    BY <1>2, <1>8 DEF NewId
  <2>3. /\ fr \in FlushRows
        /\ fr.at = "back"
        /\ fr.id = nextId
        /\ fr.list = flushes[f].list
        /\ fr.last = flushes[f].last
    BY <1>2 DEF FlushRows
  <2> HIDE DEF fr
  <2>4. Sends(q) /\ q.op = "read" /\ q.id = nextId /\ q \in WireRows
    BY <1>2, <2>1, SendsCall, RequestRow
  <2> HIDE DEF q
  <2>5. Within(answers', answers)
    BY <1>1, <1>2, <1>6, TailWithin
  <2>6. FlushTalk(fr, wire', answers', nextId')
    <3>1. nextId < nextId' /\ \A k \in 1..Len(answers') : answers'[k].id # nextId
      BY <1>2, <2>1, <2>5, NumbersAreOld DEF Within
    <3>2. ASSUME NEW k \in 1..Len(wire'), wire'[k].id = nextId PROVE wire'[k].op = "read"
      <4>1. (k \in 1..Len(wire) /\ wire'[k] = wire[k]) \/ wire'[k] = q
        BY <1>2, <2>1, <2>4, Appended
      <4> QED BY <2>4, <3>2, <4>1, NumbersAreOld
    <3> QED BY <1>3, <2>3, <3>1, <3>2 DEF FlushTalk
  <2>7. writeSeq \in Unsent => writeSeq \in Unsent'
    BY <1>1, <1>8, <2>2, UnsentKept
  <2>8. \A c \in Commands : RowFine(commands[c], wire', answers', level, writeSeq, Unsent')
    BY <1>1, <1>6, <2>4, <2>7, RowsKept
  <2>9. ~Burden(flushes[f].id, wire', answers')
    BY <1>1, <1>2, <1>3, <1>6, <2>4, NothingLeft
  <2>10. \A i \in Nat : Burden(i, wire', answers') => Asked(i)'
    <3>1. \A i \in waiting : i \in waiting' \/ i = flushes[f].id
      BY <2>1
    <3> QED BY <1>1, <1>6, <2>2, <2>3, <2>4, <2>9, <3>1, FlushAsked
  <2> QED BY <1>1, <1>2, <1>6, <1>8, <2>2, <2>3, <2>4, <2>6, <2>8, <2>10, FlushWord
<1> QED BY <1>5, <1>7, <1>8

LEMMA FlushTimesOutWord ==
  ASSUME ToldInv, WordFacts, NEW f \in Flushes, FlushTimesOut(f), doubt' = {}
  PROVE  WordFacts'
<1>1. /\ flushes[f].at = "back" /\ Next1(f) /\ waiting' = waiting \ {flushes[f].id}
      /\ UNCHANGED <<level, commands, wire, answers, nextId, deferred, writeSeq, turn, session, gone>>
  BY DEF FlushTimesOut, FlushFails, Forget
<1>2. ~Burden(flushes[f].id, wire', answers')
  <2>1. FlushTalk(flushes[f], wire, answers, nextId)
    BY FlushKnown
  <2> QED BY <1>1, <2>1 DEF FlushTalk, Burden
<1>3. Takes1
  BY <1>1 DEF Takes1
<1> QED BY <1>1, <1>2, <1>3, GoesOnWord

LEMMA FlushDoneWord ==
  ASSUME ToldInv, WordFacts, NEW f \in Flushes, FlushDone(f)
  PROVE  WordFacts'
<1>1. /\ flushes[f].at = "next" /\ flushes[f].list = <<>>
      /\ flushes' = [flushes EXCEPT ![f] = NoFlush]
      /\ session' = IF flushes[f].last THEN "over" ELSE session
      /\ UNCHANGED <<level, commands, wire, answers, waiting, nextId, deferred, writeSeq, turn, gone>>
  BY DEF FlushDone
<1>2. /\ NoFlush \in FlushRows /\ NoFlush.at = "none" /\ ~NoFlush.last
      /\ ListFine(NoFlush.list, commands, writeSeq)
      /\ FlushTalk(NoFlush, wire', answers', nextId')
  <2>1. NoFlush \in FlushRows /\ NoFlush.at = "none" /\ ~NoFlush.last /\ NoFlush.list = <<>>
    BY DEF NoFlush, FlushRows
  <2> QED BY <2>1 DEF ListFine, FlushTalk
<1>3. session' = session \/ (session' = "over" /\ session # "on")
  BY <1>1, FlushKnown
<1> DEFINE q == Request("read", 0)
<1>4. Sends(q) /\ q.op = "read" /\ Takes1
  BY <1>1, SendsNothing DEF Takes1
<1> HIDE DEF q
<1>5. writeSeq \in Unsent => writeSeq \in Unsent'
  <2>1. \A k \in 1..Len(flushes[f].list) : FALSE
    BY <1>1
  <2> QED BY <1>1, <2>1, UnsentKept
<1>6. \A c \in Commands : RowFine(commands[c], wire', answers', level, writeSeq, Unsent')
  BY <1>1, <1>4, <1>5, RowsKept
<1>7. \A i \in Nat : Burden(i, wire', answers') => Asked(i)'
  BY <1>1, <1>2, <1>4, FlushAsked
<1> QED BY <1>1, <1>2, <1>3, <1>4, <1>6, <1>7, FlushWord

(* An answer nobody waits for is not the news of a refusal.                *)
LEMMA AnswerDroppedWord ==
  ASSUME ToldInv, WordFacts, AnswerDropped
  PROVE  WordFacts'
<1>1. /\ answers # <<>> /\ Head(answers).id \notin waiting /\ answers' = Tail(answers)
      /\ UNCHANGED <<level, commands, wire, waiting, nextId, deferred, writeSeq, flushes, turn, session, gone>>
  BY DEF AnswerDropped
<1>2. answers \in Seq(AnswerRows) /\ Head(answers) \in AnswerRows /\ Head(answers) = answers[1]
      /\ 1 \in 1..Len(answers)
  BY <1>1, HeadTail DEF ToldInv, DeviceKinds
<1>3. Head(answers).kind # "error"
  <2> SUFFICES ASSUME Head(answers).kind = "error" PROVE FALSE
    OBVIOUS
  <2>1. Head(answers).id \in Nat /\ Burden(Head(answers).id, wire, answers)
    BY <1>2 DEF Burden, AnswerRows
  <2> QED BY <1>1, <2>1 DEF WordFacts, Owned, Asked
<1>4. Takes1
  BY <1>1, <1>3 DEF Takes1
<1> DEFINE q == Request("read", 0)
<1>5. Sends(q) /\ q.op = "read"
  BY <1>1, SendsNothing
<1> HIDE DEF q
<1>6. 1 \in Flushes
  BY DeviceAssumption DEF Flushes
<1>7. flushes' = [flushes EXCEPT ![1] = flushes[1]]
  BY <1>1, <1>6 DEF ToldInv, DeviceKinds
<1>8. \A c \in Commands : RowFine(commands[c], wire', answers', level, writeSeq, Unsent')
  BY <1>1, <1>4, <1>5, RowsKept DEF Unsent
<1>9. \A i \in Nat : Burden(i, wire', answers') => Asked(i)'
  BY <1>1, <1>4, <1>5, <1>6, <1>7, FlushAsked, FlushKnown
<1>10. FlushTalk(flushes[1], wire', answers', nextId')
  <2>1. /\ wire \in Seq(WireRows) /\ nextId \in Nat /\ q \in WireRows /\ q.id = nextId
        /\ Within(answers', answers)
    BY <1>4, <1>5, SendsFacts DEF ToldInv, DeviceKinds, Sends
  <2>2. nextId <= nextId' /\ nextId' \in Nat
    BY <1>1, <2>1
  <2> QED BY <1>1, <1>6, <2>1, <2>2, FlushKnown, OtherFlush
<1> QED BY <1>1, <1>4, <1>5, <1>6, <1>7, <1>8, <1>9, <1>10, FlushKnown, FlushWord

-----------------------------------------------------------------------------
(* The turns, the session and the device.                                  *)

LEMMA MoreUnsent ==
  ASSUME NEW row, NEW w, NEW a, NEW l, NEW n, NEW s, NEW s2, RowFine(row, w, a, l, n, s), n \in s => n \in s2
  PROVE  RowFine(row, w, a, l, n, s2)
<1>1. Keeps(row, w, a, l, n, s2)
  BY DEF RowFine, Keeps, Promised
<1> QED BY <1>1 DEF RowFine

(* What was deferred is handed to a flush, or stays.                       *)
HandsOn(last) == (\E f \in Flushes : Flush(f, last)) \/ UNCHANGED <<deferred, flushes>>

LEMMA HandedOn ==
  ASSUME ToldInv, WordFacts, NEW last \in BOOLEAN, HandsOn(last)
  PROVE  /\ ListFine(deferred', commands, writeSeq)
         /\ deferred' \in Seq(EntryRows)
         /\ flushes' \in [Flushes -> FlushRows]
         /\ \A g \in Flushes : FlushFine(flushes'[g], commands, wire, answers, nextId, writeSeq)
         /\ \A g \in Flushes : flushes'[g].last => flushes[g].last \/ last
         /\ \A g \in Flushes : flushes[g].at = "write" => flushes'[g] = flushes[g]
         /\ \A n \in Unsent : n \in Unsent'
         /\ deferred = <<>> => deferred' = <<>>
<1>1. /\ flushes \in [Flushes -> FlushRows] /\ deferred \in Seq(EntryRows)
      /\ ListFine(deferred, commands, writeSeq)
      /\ \A g \in Flushes : FlushFine(flushes[g], commands, wire, answers, nextId, writeSeq)
  BY DEF ToldInv, DeviceKinds, WordFacts, FlushesFine
<1>2. CASE UNCHANGED <<deferred, flushes>>
  BY <1>1, <1>2 DEF Unsent
<1>3. CASE \E f \in Flushes : Flush(f, last)
  <2>1. PICK f \in Flushes : Flush(f, last)
    BY <1>3
  <2> DEFINE row == [at |-> "next", list |-> deferred, id |-> 0, last |-> last]
  <2>2. flushes[f].at = "none" /\ flushes' = [flushes EXCEPT ![f] = row] /\ deferred' = <<>>
    BY <2>1 DEF Flush
  <2>3. row \in FlushRows /\ row.at = "next" /\ row.list = deferred /\ row.last = last
    BY <1>1 DEF FlushRows
  <2> HIDE DEF row
  <2>4. flushes'[f] = row /\ \A g \in Flushes : g # f => flushes'[g] = flushes[g]
    BY <1>1, <2>2
  <2>5. deferred' \in Seq(EntryRows) /\ ListFine(deferred', commands, writeSeq)
    BY <2>2, EmptySeq DEF ListFine
  <2>6. flushes' \in [Flushes -> FlushRows]
    BY <1>1, <2>2, <2>3
  <2>7. FlushFine(row, commands, wire, answers, nextId, writeSeq)
    BY <1>1, <2>3 DEF FlushFine, FlushTalk
  <2>8. \A g \in Flushes : FlushFine(flushes'[g], commands, wire, answers, nextId, writeSeq)
    BY <1>1, <2>4, <2>7
  <2>9. \A g \in Flushes : flushes'[g].last => flushes[g].last \/ last
    BY <2>3, <2>4
  <2>10. \A g \in Flushes : flushes[g].at = "write" => flushes'[g] = flushes[g]
    BY <2>2, <2>4
  <2>11. ASSUME NEW n \in Unsent PROVE n \in Unsent'
    <3>1. n \in Nat
      BY DEF Unsent
    <3>2. CASE \E k \in 1..Len(deferred) : deferred[k].seq = n
      <4>1. flushes'[f].at = "next" /\ \E k \in 1..Len(flushes'[f].list) : flushes'[f].list[k].seq = n
        BY <2>3, <2>4, <3>2
      <4> QED BY <3>1, <4>1 DEF Unsent
    <3>3. CASE \E g \in Flushes : flushes[g].at = "next" /\ \E k \in 1..Len(flushes[g].list) : flushes[g].list[k].seq = n
      <4>1. PICK g \in Flushes : flushes[g].at = "next" /\ \E k \in 1..Len(flushes[g].list) : flushes[g].list[k].seq = n
        BY <3>3
      <4>2. flushes'[g].at = "next" /\ \E k \in 1..Len(flushes'[g].list) : flushes'[g].list[k].seq = n
        BY <2>2, <2>4, <4>1
      <4> QED BY <3>1, <4>2 DEF Unsent
    <3> QED BY <3>2, <3>3 DEF Unsent
  <2> QED BY <2>2, <2>5, <2>6, <2>8, <2>9, <2>10, <2>11
<1> QED BY <1>2, <1>3 DEF HandsOn

LEMMA StartTurnWord ==
  ASSUME ToldInv, WordFacts, StartTurn
  PROVE  WordFacts'
<1>1. /\ session = "on" /\ turn' = TRUE /\ (\A f \in Flushes : flushes[f].at # "next")
      /\ UNCHANGED <<level, commands, wire, answers, waiting, nextId, deferred, writeSeq, flushes, session, gone>>
  BY DEF StartTurn
<1>2. Course'
  BY <1>1 DEF WordFacts, Course
<1>3. RowsFine' /\ Owned'
  BY <1>1 DEF WordFacts, RowsFine, Owned, Asked, Unsent
<1>4. Apart(wire', answers') /\ ListFine(deferred', commands', writeSeq') /\ FlushesFine'
  BY <1>1 DEF WordFacts, FlushesFine
<1> QED BY <1>2, <1>3, <1>4 DEF WordFacts

LEMMA SessionEndsWord ==
  ASSUME ToldInv, WordFacts, SessionEnds
  PROVE  WordFacts'
<1>1. /\ ~turn /\ session' = "ending" /\ (\E f \in Flushes : Flush(f, TRUE))
      /\ UNCHANGED <<level, commands, wire, answers, waiting, nextId, writeSeq, turn, gone>>
  BY DEF SessionEnds
<1>2. /\ ListFine(deferred', commands, writeSeq)
      /\ \A g \in Flushes : FlushFine(flushes'[g], commands, wire, answers, nextId, writeSeq)
      /\ \A g \in Flushes : flushes[g].at = "write" => flushes'[g] = flushes[g]
      /\ \A n \in Unsent : n \in Unsent'
  BY <1>1, HandedOn DEF HandsOn
<1>3. deferred' = <<>>
  BY <1>1 DEF Flush
<1>4. Course'
  BY <1>1, <1>3 DEF WordFacts, Course
<1>5. \A c \in Commands : RowFine(commands[c], wire, answers, level, writeSeq, Unsent')
  BY <1>2, MoreUnsent DEF WordFacts, RowsFine
<1>6. \A i \in Nat : Burden(i, wire', answers') => Asked(i)'
  <2> SUFFICES ASSUME NEW i \in Nat, Burden(i, wire', answers') PROVE Asked(i)'
    OBVIOUS
  <2>1. Asked(i) /\ i \in waiting'
    BY <1>1 DEF WordFacts, Owned, Asked
  <2>2. \A g \in Flushes : flushes[g].at = "write" /\ flushes[g].id = i =>
          flushes'[g].at = "write" /\ flushes'[g].id = i
    BY <1>2
  <2> QED BY <1>1, <2>1, <2>2, AskedKept
<1> QED BY <1>1, <1>2, <1>4, <1>5, <1>6 DEF WordFacts, RowsFine, FlushesFine, Owned

(* A turn that is over leaves no command under way.                        *)
LEMMA TurnOverWord ==
  ASSUME ToldInv, WordFacts, turn, turn' = FALSE, HandsOn(FALSE),
         UNCHANGED <<level, wire, answers, nextId, writeSeq, session, gone>>,
         \A c \in Commands : commands[c].at \notin {"write", "back"},
         commands' = [c \in Commands |-> IF Running(c) THEN [Unborn EXCEPT !.at = "killed"] ELSE commands[c]],
         waiting' = waiting \ {commands[c].id : c \in {d \in Commands : Running(d)}}
  PROVE  WordFacts'
<1> DEFINE dead == [Unborn EXCEPT !.at = "killed"]
<1>1. dead \in CommandRows /\ dead.at = "killed" /\ dead.seq = 0
  BY DEF Unborn, CommandRows
<1> HIDE DEF dead
<1>2. \A c \in Commands : commands'[c] = IF Running(c) THEN dead ELSE commands[c]
  BY DEF dead
<1>3. /\ ListFine(deferred', commands, writeSeq)
      /\ deferred' \in Seq(EntryRows)
      /\ flushes' \in [Flushes -> FlushRows]
      /\ \A g \in Flushes : FlushFine(flushes'[g], commands, wire, answers, nextId, writeSeq)
      /\ \A g \in Flushes : flushes'[g].last => flushes[g].last
      /\ \A g \in Flushes : flushes[g].at = "write" => flushes'[g] = flushes[g]
      /\ \A n \in Unsent : n \in Unsent'
      /\ deferred = <<>> => deferred' = <<>>
  BY HandedOn
<1>4. writeSeq \in Nat
  BY DEF ToldInv, DeviceKinds
<1>5. \A c \in Commands : \/ commands'[c] = commands[c]
                          \/ commands[c].at # "said" /\ commands'[c].seq \in {0, commands[c].seq, writeSeq + 1}
  BY <1>1, <1>2 DEF Running
<1>6. ListFine(deferred', commands', writeSeq')
  BY <1>3, <1>4, <1>5, ListKept
<1>7. ASSUME NEW g \in Flushes PROVE FlushFine(flushes'[g], commands', wire', answers', nextId', writeSeq')
  <2>1. flushes'[g].list \in Seq(EntryRows) /\ ListFine(flushes'[g].list, commands, writeSeq)
        /\ FlushTalk(flushes'[g], wire, answers, nextId)
    BY <1>3 DEF FlushFine, FlushRows
  <2>2. ListFine(flushes'[g].list, commands', writeSeq')
    BY <1>4, <1>5, <2>1, ListKept
  <2> QED BY <2>1, <2>2 DEF FlushFine
<1>8. ASSUME NEW c \in Commands PROVE RowFine(commands'[c], wire', answers', level', writeSeq', Unsent')
  <2>1. CASE Running(c)
    BY <1>1, <1>2, <2>1, NoPromise
  <2>2. CASE ~Running(c)
    <3>1. RowFine(commands[c], wire, answers, level, writeSeq, Unsent)
      BY DEF WordFacts, RowsFine
    <3> QED BY <1>2, <1>3, <2>2, <3>1, MoreUnsent
  <2> QED BY <2>1, <2>2
<1>9. ASSUME NEW i \in Nat, Burden(i, wire', answers') PROVE Asked(i)'
  <2>1. Burden(i, wire, answers) /\ Asked(i)
    BY <1>9 DEF WordFacts, Owned
  <2>2. \A c \in Commands : Running(c) => commands[c].id # i
    BY <2>1, AskerIsQuiet DEF Running
  <2>3. i \in waiting'
    BY <2>1, <2>2 DEF Asked
  <2> QED BY <1>3, <2>1, <2>3, AskedKept
<1>10. Course'
  <2>1. Course
    BY DEF WordFacts
  <2>2. \A c \in Commands : ~IsUnderWay(commands'[c])
    BY <1>1, <1>2 DEF Running, IsUnderWay
  <2>3. writeSeq # 0 => \E c \in Commands : commands'[c].seq = writeSeq
    <3> SUFFICES ASSUME writeSeq # 0 PROVE \E c \in Commands : commands'[c].seq = writeSeq
      OBVIOUS
    <3>1. PICK c \in Commands : commands[c].seq = writeSeq
      BY <2>1 DEF Course
    <3>2. Seqs(commands[c], writeSeq)
      BY DEF WordFacts, RowsFine, RowFine
    <3>3. ~Running(c)
      BY <3>1, <3>2 DEF Running, Seqs
    <3> QED BY <1>2, <3>1, <3>3
  <2> QED BY <1>3, <2>1, <2>2, <2>3 DEF Course
<1> QED BY <1>6, <1>7, <1>8, <1>9, <1>10 DEF WordFacts, RowsFine, FlushesFine, Owned

LEMMA EndTurnWord ==
  ASSUME ToldInv, WordFacts, EndTurn
  PROVE  WordFacts'
<1>1. /\ turn /\ (\A c \in Commands : ~Running(c)) /\ turn' = FALSE /\ FlushIfDeferred
      /\ UNCHANGED <<level, commands, wire, answers, waiting, nextId, writeSeq, session, gone>>
  BY DEF EndTurn
<1>2. HandsOn(FALSE)
  BY <1>1 DEF FlushIfDeferred, HandsOn
<1>3. commands' = [c \in Commands |-> IF Running(c) THEN [Unborn EXCEPT !.at = "killed"] ELSE commands[c]]
  BY <1>1 DEF ToldInv, DeviceKinds
<1>4. waiting' = waiting \ {commands[c].id : c \in {d \in Commands : Running(d)}}
  BY <1>1
<1>5. \A c \in Commands : commands[c].at \notin {"write", "back"}
  BY <1>1 DEF Running
<1> QED BY <1>1, <1>2, <1>3, <1>4, <1>5, TurnOverWord

LEMMA CutTurnWord ==
  ASSUME ToldInv, WordFacts, CutTurn, doubt' = {}
  PROVE  WordFacts'
<1>1. /\ turn /\ turn' = FALSE /\ Kill /\ HandsOn(FALSE)
      /\ UNCHANGED <<level, wire, answers, nextId, writeSeq, session, gone>>
  BY DEF CutTurn, FlushIfDeferred, HandsOn
<1>2. \A c \in Commands : commands[c].at \notin {"write", "back"}
  BY DEF CutTurn, Kill
<1> QED BY <1>1, <1>2, TurnOverWord DEF Kill

LEMMA DeviceAnswersWord ==
  ASSUME ToldInv, WordFacts, DeviceAnswers
  PROVE  WordFacts'
<1>1. /\ wire # <<>> /\ wire' = Tail(wire)
      /\ UNCHANGED <<commands, waiting, nextId, deferred, writeSeq, flushes, turn, session, gone>>
      /\ wire \in Seq(WireRows) /\ answers \in Seq(AnswerRows) /\ level \in Nat /\ writeSeq \in Nat
      /\ Apart(wire, answers) /\ flushes \in [Flushes -> FlushRows]
  BY DEF DeviceAnswers, ToldInv, DeviceKinds, WordFacts
<1> DEFINE r == Head(wire)
<1>2. /\ r = wire[1] /\ r \in WireRows /\ 1 \in 1..Len(wire)
      /\ Within(wire', wire)
  BY <1>1, HeadTail, TailWithin
<1>3. r.id \in Nat /\ r.v \in Nat
  BY <1>2 DEF WireRows
<1>4. PICK b \in AnswerRows :
        /\ answers' = Append(answers, b) /\ b.id = r.id
        /\ \/ r.op = "read" /\ b.kind = "level" /\ b.v = level /\ level' = level
           \/ r.op = "set" /\ b.kind \in {"level", "bare"} /\ b.v = r.v /\ level' = r.v
           \/ r.op = "set" /\ b.kind = "error" /\ level' = level
  <2> HIDE DEF r
  <2>4. ASSUME NEW kind \in {"level", "bare", "error"}, NEW v \in Nat,
               answers' = Append(answers, [id |-> r.id, kind |-> kind, v |-> v])
        PROVE  \E b \in AnswerRows : answers' = Append(answers, b) /\ b.id = r.id /\ b.kind = kind /\ b.v = v
    <3> DEFINE b == [id |-> r.id, kind |-> kind, v |-> v]
    <3>1. b \in AnswerRows /\ b.id = r.id /\ b.kind = kind /\ b.v = v
      BY <1>3 DEF AnswerRows
    <3> QED BY <2>4, <3>1
  <2>1. CASE r.op = "read" /\ level' = level
             /\ answers' = Append(answers, [id |-> r.id, kind |-> "level", v |-> level])
    BY <1>1, <2>1, <2>4
  <2>2. CASE r.op = "set" /\ level' = r.v
             /\ answers' = Append(answers, [id |-> r.id, kind |-> IF old THEN "bare" ELSE "level", v |-> r.v])
    <3> DEFINE kind == IF old THEN "bare" ELSE "level"
    <3>1. kind \in {"level", "bare"} /\ answers' = Append(answers, [id |-> r.id, kind |-> kind, v |-> r.v])
      BY <2>2
    <3> HIDE DEF kind
    <3> QED BY <1>3, <2>2, <2>4, <3>1
  <2>3. CASE r.op = "set" /\ level' = level
             /\ answers' = Append(answers, [id |-> r.id, kind |-> "error", v |-> 0])
    BY <2>3, <2>4
  <2> QED BY <2>1, <2>2, <2>3 DEF DeviceAnswers, r
<1> HIDE DEF r
<1>5. /\ Apart(wire', answers')
      /\ \A k \in 1..Len(answers) : answers[k].id # b.id
      /\ \A k \in 1..Len(Tail(wire)) : Tail(wire)[k].id # b.id
  BY <1>1, <1>4, ApartAnswered DEF r
<1>6. ASSUME NEW c \in Commands PROVE RowFine(commands'[c], wire', answers', level', writeSeq', Unsent')
  <2>1. /\ commands[c] \in CommandRows /\ MayAsk(commands[c], r)
        /\ RowFine(commands[c], wire, answers, level, writeSeq, Unsent)
    BY <1>2, HeldAsIs DEF Honest, WordFacts, RowsFine
  <2>2. RowFine(commands[c], Tail(wire), Append(answers, b), level', writeSeq, Unsent)
    BY <1>1, <1>4, <1>5, <2>1, DeviceRow DEF r
  <2>3. Unsent' = Unsent
    BY <1>1 DEF Unsent
  <2> QED BY <1>1, <1>4, <2>2, <2>3
<1>7. ASSUME NEW i \in Nat, Burden(i, wire', answers') PROVE Asked(i)'
  <2>1. Burden(i, wire, answers)
    <3>1. Burden(i, Tail(wire), Append(answers, b)) /\ (b.kind = "error" => r.op = "set")
      BY <1>1, <1>4, <1>7
    <3> QED BY <1>1, <1>4, <3>1, BurdenAnswered DEF r
  <2> QED BY <1>1, <2>1 DEF WordFacts, Owned, Asked
<1>8. ASSUME NEW f \in Flushes PROVE FlushFine(flushes'[f], commands', wire', answers', nextId', writeSeq')
  <2>1. FlushTalk(flushes[f], wire, answers, nextId) /\ ListFine(flushes[f].list, commands, writeSeq)
    BY FlushKnown
  <2>2. \A k \in 1..Len(wire') : wire'[k].id = flushes[f].id =>
          /\ flushes[f].at = "write" => wire'[k].op = "set"
          /\ flushes[f].at = "back" => wire'[k].op = "read"
    BY <1>2, <2>1 DEF FlushTalk, Within
  <2>3. ASSUME flushes[f].at = "back", NEW k \in 1..Len(answers'), answers'[k].id = flushes[f].id
        PROVE  answers'[k].kind = "level"
    <3>1. CASE k \in 1..Len(answers) /\ answers'[k] = answers[k]
      BY <2>1, <2>3, <3>1 DEF FlushTalk
    <3>2. CASE answers'[k] = b
      <4>1. r.op = "read"
        BY <1>2, <1>4, <2>1, <2>3, <3>2 DEF FlushTalk
      <4> QED BY <1>4, <3>2, <4>1
    <3> QED BY <1>1, <1>4, <3>1, <3>2, Appended
  <2>4. FlushTalk(flushes[f], wire', answers', nextId)
    BY <2>1, <2>2, <2>3 DEF FlushTalk
  <2> QED BY <1>1, <2>1, <2>4 DEF FlushFine
<1>9. Course' /\ ListFine(deferred', commands', writeSeq')
  BY <1>1 DEF WordFacts, Course
<1> QED BY <1>5, <1>6, <1>7, <1>8, <1>9 DEF WordFacts, RowsFine, FlushesFine, Owned

LEMMA LastBegin == DeviceInit => LastInv
<1> SUFFICES ASSUME DeviceInit
             PROVE  WordFacts
  BY DEF LastInv
<1>1. /\ wire = <<>> /\ answers = <<>> /\ deferred = <<>> /\ writeSeq = 0 /\ ~gone /\ ~turn /\ session = "on"
      /\ \A c \in Commands : commands[c] = Unborn
      /\ \A f \in Flushes : flushes[f] = NoFlush
  BY DEF DeviceInit
<1>2. Unborn.at = "none" /\ Unborn.seq = 0 /\ NoFlush.at = "none" /\ NoFlush.list = <<>> /\ ~NoFlush.last
  BY DEF Unborn, NoFlush
<1>3. RowsFine
  BY <1>1, <1>2, NoPromise DEF RowsFine
<1>4. Apart(wire, answers) /\ Owned /\ ListFine(deferred, commands, writeSeq)
  BY <1>1 DEF Apart, Owned, Burden, ListFine
<1>5. FlushesFine
  BY <1>1, <1>2 DEF FlushesFine, FlushFine, FlushTalk, ListFine
<1>6. Course
  BY <1>1, <1>2 DEF Course, IsUnderWay
<1> QED BY <1>3, <1>4, <1>5, <1>6 DEF WordFacts

LEMMA LastStep == ToldInv /\ LastInv /\ [DeviceNext]_deviceVars => LastInv'
<1> SUFFICES ASSUME ToldInv, LastInv, [DeviceNext]_deviceVars, doubt' = {}
             PROVE  WordFacts'
  BY DEF LastInv
<1>1. CASE UNCHANGED deviceVars
  <2>1. UNCHANGED <<level, commands, wire, answers, waiting, nextId, deferred, writeSeq, flushes, turn, session, gone>>
        /\ doubt = {}
    BY <1>1 DEF deviceVars
  <2>2. WordFacts
    BY <2>1 DEF LastInv
  <2>3. RowsFine'
    <3>1. Unsent' = Unsent
      BY <2>1 DEF Unsent
    <3>2. RowsFine
      BY <2>2 DEF WordFacts
    <3> QED BY <2>1, <3>1, <3>2 DEF RowsFine
  <2>5. Owned'
    <3>1. ASSUME NEW i, Asked(i) PROVE Asked(i)'
      BY <2>1, <3>1 DEF Asked
    <3>2. Owned
      BY <2>2 DEF WordFacts
    <3> QED BY <2>1, <3>1, <3>2 DEF Owned
  <2>4. FlushesFine' /\ Course'
    BY <2>1, <2>2 DEF WordFacts, FlushesFine, Course
  <2> QED BY <2>1, <2>2, <2>3, <2>4, <2>5 DEF WordFacts
<1>2. CASE DeviceNext
  <2>1. doubt = {}
    <3>1. doubt \subseteq doubt'
      BY <1>2 DEF DeviceNext, DeviceAnswers, AnswerDropped, CommandSteps, CallTimesOut, StartReading, StartWriting,
         StartMuting, StartTurn, EndTurn, CutTurn, Kill, SocketGoes, SessionEnds, FlushSteps, FlushTimesOut,
         ReadFails, ReadAudible, ReadMutes, ReadWrites, WriteAnswered, BackAnswered, FlushSkips, FlushDispatches,
         FlushAnswered, FlushFails, FlushDone
    <3> QED BY <3>1
  <2>2. WordFacts
    BY <2>1 DEF LastInv
  <2>3. CASE DeviceAnswers
    BY <2>2, <2>3, DeviceAnswersWord
  <2>4. CASE AnswerDropped
    BY <2>2, <2>4, AnswerDroppedWord
  <2>5. CASE \E c \in Commands : CommandSteps(c) \/ CallTimesOut(c)
    BY <2>2, <2>5, ReadFailsWord, ReadAudibleWord, ReadMutesWord, ReadWritesWord, WriteAnsweredWord,
       BackAnsweredWord, CallTimesOutWord DEF CommandSteps
  <2>6. CASE \E c \in Commands, o \in Orders : StartReading(c, o) \/ StartWriting(c, o) \/ StartMuting(c, o)
    BY <2>2, <2>6, StartReadingWord, StartWritingWord, StartMutingWord
  <2>7. CASE StartTurn \/ EndTurn \/ CutTurn \/ SessionEnds
    BY <2>2, <2>7, StartTurnWord, EndTurnWord, CutTurnWord, SessionEndsWord
  <2>8. CASE SocketGoes
    BY <2>8 DEF SocketGoes
  <2>9. CASE \E f \in Flushes : FlushSteps(f) \/ FlushTimesOut(f)
    BY <2>2, <2>9, FlushSkipsWord, FlushDispatchesWord, FlushAnsweredWord, FlushDoneWord, FlushTimesOutWord
       DEF FlushSteps
  <2> QED BY <1>2, <2>3, <2>4, <2>5, <2>6, <2>7, <2>8, <2>9 DEF DeviceNext
<1> QED BY <1>1, <1>2

(* However many commands the user gives, whatever the firmware answers a   *)
(* write with, and however turns are cut, flushes drain late and calls for *)
(* a level time out: once all has settled, and no write was refused or     *)
(* lost, the device holds what the last committed command promised.  A     *)
(* deferred silence lands unless a later command superseded it, and never  *)
(* undoes that one (mcp_bridge.py:138-159): for every number of commands,  *)
(* calls at once, flushes, attempts and levels.                            *)
THEOREM LastWordHolds == DeviceSpec => []LastWordWins
<1>1. ToldInv /\ LastInv => LastWordWins
  BY SettledKeeps
<1> QED BY <1>1, ToldBegin, ToldStep, LastBegin, LastStep, PTL DEF DeviceSpec

-----------------------------------------------------------------------------
(* The replies of the agent (AgentRun).                                    *)

(* A record of a reply, whatever the others do.                            *)
Unsaved(rec) == rec.at \in {"loading", "seeding", "asking", "streaming", "tools"}

Triple(m) == <<m.of, m.step, m.call>>

(* Every message is of this reply and of a step it has begun.              *)
MsgsOwn(r, msgs, step) == \A k \in 1..Len(msgs) :
  /\ msgs[k].of = r /\ msgs[k].step <= step
  /\ msgs[k].kind = "result" => msgs[k].step >= 1 /\ msgs[k].call >= 1

(* The last message asks for the calls, and those before are answered.     *)
CallsLast(msgs, step, count) ==
  /\ Len(msgs) > 0 /\ msgs[Len(msgs)].kind = "calls" /\ msgs[Len(msgs)].call = count
  /\ msgs[Len(msgs)].step = step
  /\ \A k \in 1..(Len(msgs) - 1) : /\ msgs[k].step < step
                                   /\ msgs[k].kind = "calls" => OneResultEach(msgs, k)

(* While the LLM is asked all calls are answered; while the tools run all  *)
(* but those of the last message.                                          *)
StepFine(rec) ==
  /\ rec.at \in {"idle", "loading", "seeding"} => rec.step = 0 /\ rec.msgs = <<>>
  /\ rec.at \in {"asking", "streaming"} => \A k \in 1..Len(rec.msgs) :
       rec.msgs[k].kind = "calls" => OneResultEach(rec.msgs, k)
  /\ rec.at = "asking" /\ rec.step > 0 => rec.lastHadTools
  /\ rec.at = "streaming" => \A k \in 1..Len(rec.msgs) : rec.msgs[k].step < rec.step
  /\ rec.at = "tools" => CallsLast(rec.msgs, rec.step, Len(rec.calls)) /\ rec.lastHadTools
  /\ rec.at \in {"streaming", "tools"} => rec.step >= 1

(* What is left to save is the end of what there was.                      *)
LeftFine(rec) == rec.at \in {"saving", "done"} =>
  /\ Len(rec.left) <= Len(rec.msgs)
  /\ rec.at = "done" => Len(rec.left) = 0
  /\ \A k \in 1..Len(rec.msgs) : rec.msgs[k].kind = "result"
  /\ \A i \in 1..Len(rec.left) : rec.left[i] = rec.msgs[Len(rec.msgs) - Len(rec.left) + i]

ReplyFine(r, rec) ==
  /\ rec \in ReplyRows /\ Len(rec.calls) <= CallCount
  /\ MsgsOwn(r, rec.msgs, rec.step) /\ StepFine(rec) /\ LeftFine(rec)

(* What of a reply is in the conversation: nothing, or what is saved.      *)
KeptRight(r, rec, ctx) ==
  /\ rec.at = "idle" \/ Unsaved(rec) => \A x \in 1..Len(ctx) : ctx[x][1] # r
  /\ rec.at \in {"saving", "done"} =>
       Pick(ctx, {x \in DOMAIN ctx : ctx[x][1] = r})
         = [i \in 1..(Len(rec.msgs) - Len(rec.left)) |-> Triple(rec.msgs[i])]

OneAtATime == \A r, q \in Replies : q < r /\ replies[r].at # "idle" => Over(q)

SeedsFine ==
  /\ seeds = IF seeded THEN 1 ELSE 0
  /\ \A r \in Replies : /\ replies[r].at = "seeding" => ~seeded
                        /\ replies[r].at \in {"asking", "streaming", "tools"} => seeded
                        /\ replies[r].step > 0 => seeded

AgentShared ==
  /\ asked \in [Replies -> BOOLEAN] /\ snapshot \in Seq(Messages) /\ seeded \in BOOLEAN
  /\ context \in Seq(Replies \X (1..StepCount) \X (1..CallCount))
  /\ OneAtATime /\ SeedsFine

AgentInv ==
  /\ replies \in [Replies -> ReplyRows] /\ AgentShared
  /\ \A r \in Replies : ReplyFine(r, replies[r]) /\ KeptRight(r, replies[r], context)

(* Only its own steps, one reply after the other, change a reply.          *)
LEMMA AgentStep ==
  ASSUME AgentInv, NEW r \in Replies, NEW rec, replies' = [replies EXCEPT ![r] = rec],
         ~Over(r), replies[r].at # "idle" \/ \A q \in 1..(r - 1) : Over(q),
         ReplyFine(r, rec), KeptRight(r, rec, context), UNCHANGED <<asked, context>>,
         snapshot' \in Seq(Messages),
         \/ /\ UNCHANGED <<seeded, seeds>>
            /\ rec.at = "seeding" => ~seeded
            /\ rec.step > 0 \/ rec.at \in {"asking", "streaming", "tools"} => seeded
         \/ /\ replies[r].at = "seeding" /\ seeded' = TRUE /\ seeds' = seeds + 1
            /\ rec.at = "asking"
  PROVE AgentInv'
<1>1. /\ DOMAIN replies = Replies /\ DOMAIN replies' = Replies /\ replies'[r] = rec
      /\ \A q \in Replies \ {r} : replies'[q] = replies[q]
  BY DEF AgentInv
<1>2. ASSUME NEW q \in Replies PROVE ReplyFine(q, replies'[q]) /\ KeptRight(q, replies'[q], context')
  <2>1. CASE q = r
    BY <1>1, <2>1
  <2>2. CASE q # r
    BY <1>1, <2>2 DEF AgentInv
  <2> QED BY <2>1, <2>2
<1>3. OneAtATime'
  <2>1. SUFFICES ASSUME NEW a \in Replies, NEW b \in Replies, b < a, replies'[a].at # "idle"
                 PROVE Over(b)'
    BY DEF OneAtATime
  <2>2. OneAtATime
    BY DEF AgentInv, AgentShared
  <2>3. CASE a = r
    <3>1. b # r /\ b \in 1..(r - 1) /\ replies'[b] = replies[b]
      BY <1>1, <2>1, <2>3 DEF Replies
    <3>2. Over(b)
      BY <2>1, <2>2, <2>3, <3>1 DEF OneAtATime
    <3> QED BY <3>1, <3>2 DEF Over
  <2>4. CASE a # r
    <3>1. replies'[a] = replies[a] /\ Over(b)
      BY <1>1, <2>1, <2>2, <2>4 DEF OneAtATime
    <3>2. b # r
      BY <3>1
    <3> QED BY <1>1, <3>1, <3>2 DEF Over
  <2> QED BY <2>3, <2>4
<1>4. SeedsFine'
  <2>1. SeedsFine
    BY DEF AgentInv, AgentShared
  <2>2. CASE UNCHANGED <<seeded, seeds>>
    BY <1>1, <2>1, <2>2 DEF SeedsFine
  <2>3. CASE /\ replies[r].at = "seeding" /\ seeded' = TRUE /\ seeds' = seeds + 1
             /\ rec.at = "asking"
    <3>1. seeds' = 1 /\ \A q \in Replies \ {r} : replies[q].at # "seeding"
      <4>1. ~seeded /\ seeds = 0
        BY <2>1, <2>3 DEF SeedsFine
      <4>2. ASSUME NEW q \in Replies \ {r} PROVE replies[q].at # "seeding"
        <5>1. OneAtATime
          BY DEF AgentInv, AgentShared
        <5>2. q < r \/ r < q
          BY DEF Replies
        <5> QED BY <2>3, <5>1, <5>2 DEF OneAtATime, Over
      <4> QED BY <2>3, <4>1, <4>2
    <3> QED BY <1>1, <2>1, <2>3, <3>1 DEF SeedsFine
  <2> QED BY <2>2, <2>3
<1>5. AgentShared'
  <2>1. seeded' \in BOOLEAN
    BY DEF AgentInv, AgentShared
  <2> QED BY <1>3, <1>4, <2>1 DEF AgentInv, AgentShared
<1>6. replies' \in [Replies -> ReplyRows]
  BY <1>2 DEF AgentInv, ReplyFine
<1> QED BY <1>1, <1>2, <1>5, <1>6 DEF AgentInv

(* The rows of AgentInv, reply by reply.                                   *)
LEMMA AgentRows ==
  ASSUME AgentInv, NEW r \in Replies
  PROVE /\ replies[r] \in ReplyRows /\ Len(replies[r].calls) <= CallCount
        /\ MsgsOwn(r, replies[r].msgs, replies[r].step) /\ StepFine(replies[r]) /\ LeftFine(replies[r])
        /\ KeptRight(r, replies[r], context)
        /\ DOMAIN replies = Replies /\ snapshot \in Seq(Messages)
        /\ replies[r].at = "seeding" => ~seeded
        /\ replies[r].step > 0 \/ replies[r].at \in {"asking", "streaming", "tools"} => seeded
BY DEF AgentInv, AgentShared, SeedsFine, ReplyFine

-----------------------------------------------------------------------------
(* Its steps up to the stream.                                             *)

LEMMA FreshRow ==
  ASSUME NEW r, NEW rec \in ReplyRows, rec.at \in {"idle", "loading", "seeding", "asking"},
         rec.step = 0, rec.msgs = <<>>, Len(rec.calls) <= CallCount
  PROVE ReplyFine(r, rec)
<1>1. Len(rec.msgs) = 0
  OBVIOUS
<1>2. MsgsOwn(r, rec.msgs, rec.step)
  BY <1>1 DEF MsgsOwn
<1>3. StepFine(rec)
  BY <1>1 DEF StepFine
<1>4. LeftFine(rec)
  BY DEF LeftFine
<1> QED BY <1>2, <1>3, <1>4 DEF ReplyFine

LEMMA ReplyBeginsKeeps ==
  ASSUME AgentInv, NEW r \in Replies, ReplyBegins(r)
  PROVE AgentInv'
<1> DEFINE rec == [replies[r] EXCEPT !.at = "loading"]
<1>1. replies' = [replies EXCEPT ![r] = rec]
  BY DEF ReplyBegins
<1>2. /\ rec \in ReplyRows /\ rec.at = "loading" /\ rec.step = 0 /\ rec.msgs = <<>>
      /\ rec.calls = replies[r].calls
  BY AgentRows DEF ReplyBegins, ReplyRows, StepFine
<1> HIDE DEF rec
<1>3. ReplyFine(r, rec)
  <2>1. Len(rec.calls) <= CallCount
    BY <1>2, AgentRows
  <2> QED BY <1>2, <2>1, FreshRow
<1>4. KeptRight(r, rec, context)
  BY <1>2, AgentRows DEF ReplyBegins, KeptRight, Unsaved
<1>9. ~Over(r)
  BY DEF ReplyBegins, Over
<1>10. /\ replies[r].at # "idle" \/ \A q \in 1..(r - 1) : Over(q)
       /\ UNCHANGED <<asked, context>> /\ snapshot' \in Seq(Messages)
  BY AgentRows DEF ReplyBegins
<1>11. /\ UNCHANGED <<seeded, seeds>>
       /\ rec.at = "seeding" => ~seeded
       /\ rec.step > 0 \/ rec.at \in {"asking", "streaming", "tools"} => seeded
  BY <1>2 DEF ReplyBegins
<1> QED BY <1>1, <1>3, <1>4, <1>9, <1>10, <1>11, AgentStep

LEMMA LoadedKeeps ==
  ASSUME AgentInv, NEW r \in Replies, Loaded(r)
  PROVE AgentInv'
<1> DEFINE rec == [replies[r] EXCEPT !.at = IF seeded THEN "asking" ELSE "seeding"]
<1>1. replies' = [replies EXCEPT ![r] = rec]
  BY DEF Loaded
<1>2. /\ rec \in ReplyRows /\ rec.at = IF seeded THEN "asking" ELSE "seeding"
      /\ rec.step = 0 /\ rec.msgs = <<>> /\ rec.calls = replies[r].calls
     
  BY AgentRows DEF Loaded, ReplyRows, StepFine
<1> HIDE DEF rec
<1>3. ReplyFine(r, rec)
  <2>1. Len(rec.calls) <= CallCount
    BY <1>2, AgentRows
  <2> QED BY <1>2, <2>1, FreshRow
<1>4. KeptRight(r, rec, context)
  BY <1>2, AgentRows DEF Loaded, KeptRight, Unsaved
<1>9. ~Over(r)
  BY DEF Loaded, Over
<1>10. /\ replies[r].at # "idle" \/ \A q \in 1..(r - 1) : Over(q)
       /\ UNCHANGED <<asked, context>> /\ snapshot' \in Seq(Messages)
  BY AgentRows DEF Loaded
<1>11. /\ UNCHANGED <<seeded, seeds>>
       /\ rec.at = "seeding" => ~seeded
       /\ rec.step > 0 \/ rec.at \in {"asking", "streaming", "tools"} => seeded
  BY <1>2 DEF Loaded
<1> QED BY <1>1, <1>3, <1>4, <1>9, <1>10, <1>11, AgentStep

LEMMA SeededKeeps ==
  ASSUME AgentInv, NEW r \in Replies, Seeded(r)
  PROVE AgentInv'
<1> DEFINE rec == [replies[r] EXCEPT !.at = "asking"]
<1>1. replies' = [replies EXCEPT ![r] = rec]
  BY DEF Seeded
<1>2. /\ rec \in ReplyRows /\ rec.at = "asking" /\ rec.step = 0 /\ rec.msgs = <<>>
      /\ rec.calls = replies[r].calls
  BY AgentRows DEF Seeded, ReplyRows, StepFine
<1> HIDE DEF rec
<1>3. ReplyFine(r, rec)
  <2>1. Len(rec.calls) <= CallCount
    BY <1>2, AgentRows
  <2> QED BY <1>2, <2>1, FreshRow
<1>4. KeptRight(r, rec, context)
  BY <1>2, AgentRows DEF Seeded, KeptRight, Unsaved
<1>9. ~Over(r)
  BY DEF Seeded, Over
<1>10. /\ replies[r].at # "idle" \/ \A q \in 1..(r - 1) : Over(q)
       /\ UNCHANGED <<asked, context>> /\ snapshot' \in Seq(Messages)
  BY AgentRows DEF Seeded
<1> QED BY <1>1, <1>2, <1>3, <1>4, AgentRows, <1>9, <1>10, AgentStep DEF Seeded, Mark

-----------------------------------------------------------------------------
(* The loop.                                                               *)

LEMMA AskLlmKeeps ==
  ASSUME AgentInv, NEW r \in Replies, AskLlm(r)
  PROVE AgentInv'
<1> DEFINE rec == [replies[r] EXCEPT !.at = "streaming", !.step = @ + 1, !.said = FALSE, !.calls = <<>>]
<1>1. replies' = [replies EXCEPT ![r] = rec]
  BY DEF AskLlm
<1>2. /\ rec \in ReplyRows /\ rec.at = "streaming" /\ rec.step = replies[r].step + 1
      /\ rec.msgs = replies[r].msgs /\ rec.calls = <<>> /\ replies[r].step \in Nat
  <2>1. /\ replies[r] \in ReplyRows /\ replies[r].step < StepCount /\ replies[r].step \in Nat
        /\ StepCount \in Nat
    BY AgentRows, AgentAssumption DEF AskLlm, ReplyRows
  <2>2. replies[r].step + 1 \in 0..StepCount /\ "streaming" # "idle" /\ FALSE \in BOOLEAN
    BY <2>1
  <2>3. <<>> \in Seq({"waits", "runs", "ok", "injects", "fails"})
    OBVIOUS
  <2> QED BY <2>1, <2>2, <2>3 DEF ReplyRows
<1> HIDE DEF rec
<1>3. ReplyFine(r, rec)
  <2>1. Len(rec.calls) <= CallCount /\ LeftFine(rec)
    BY <1>2, AgentAssumption DEF LeftFine
  <2>2. \A k \in 1..Len(rec.msgs) : rec.msgs[k].step \in Int
    <3>1. rec.msgs \in Seq(Messages)
      BY <1>2 DEF ReplyRows
    <3>2. \A m \in Messages : m.step \in Int
      BY AgentAssumption DEF Messages
    <3> QED BY <3>1, <3>2
  <2>3. MsgsOwn(r, rec.msgs, rec.step)
    BY <1>2, <2>2, AgentRows DEF MsgsOwn
  <2>4. StepFine(rec)
    BY <1>2, <2>2, AgentRows DEF AskLlm, StepFine, MsgsOwn
  <2> QED BY <1>2, <2>1, <2>3, <2>4 DEF ReplyFine
<1>4. KeptRight(r, rec, context)
  BY <1>2, AgentRows DEF AskLlm, KeptRight, Unsaved
<1>9. ~Over(r)
  BY DEF AskLlm, Over
<1>10. /\ replies[r].at # "idle" \/ \A q \in 1..(r - 1) : Over(q)
       /\ UNCHANGED <<asked, context>> /\ snapshot' \in Seq(Messages)
  BY AgentRows DEF AskLlm
<1> QED BY <1>1, <1>2, <1>3, <1>4, AgentRows, <1>9, <1>10, AgentStep DEF AskLlm

LEMMA TextKeeps ==
  ASSUME AgentInv, NEW r \in Replies, Text(r)
  PROVE AgentInv'
<1> DEFINE rec == [replies[r] EXCEPT !.said = TRUE]
<1>1. replies' = [replies EXCEPT ![r] = rec]
  BY DEF Text
<1>2. /\ rec \in ReplyRows /\ rec.at = "streaming" /\ rec.step = replies[r].step
      /\ rec.msgs = replies[r].msgs /\ rec.calls = replies[r].calls
  BY AgentRows DEF Text, ReplyRows
<1> HIDE DEF rec
<1>3. ReplyFine(r, rec)
  BY <1>2, AgentRows DEF Text, ReplyFine, MsgsOwn, StepFine, LeftFine
<1>4. KeptRight(r, rec, context)
  BY <1>2, AgentRows DEF Text, KeptRight, Unsaved
<1>9. ~Over(r)
  BY DEF Text, Over
<1>10. /\ replies[r].at # "idle" \/ \A q \in 1..(r - 1) : Over(q)
       /\ UNCHANGED <<asked, context>> /\ snapshot' \in Seq(Messages)
  BY AgentRows DEF Text
<1> QED BY <1>1, <1>2, <1>3, <1>4, AgentRows, <1>9, <1>10, AgentStep DEF Text

LEMMA CallAskedKeeps ==
  ASSUME AgentInv, NEW r \in Replies, CallAsked(r)
  PROVE AgentInv'
<1> DEFINE rec == [replies[r] EXCEPT !.calls = Append(@, "waits")]
<1>1. replies' = [replies EXCEPT ![r] = rec]
  BY DEF CallAsked
<1>2. /\ rec \in ReplyRows /\ rec.at = "streaming" /\ rec.step = replies[r].step
      /\ rec.msgs = replies[r].msgs /\ Len(rec.calls) = Len(replies[r].calls) + 1
      /\ Len(rec.calls) <= CallCount
  <2>1. /\ replies[r] \in ReplyRows /\ replies[r].at = "streaming"
        /\ Len(replies[r].calls) < CallCount /\ CallCount \in Nat
    BY AgentRows, AgentAssumption DEF CallAsked
  <2>2. replies[r].calls \in Seq({"waits", "runs", "ok", "injects", "fails"})
    BY <2>1 DEF ReplyRows
  <2>3. /\ Append(replies[r].calls, "waits") \in Seq({"waits", "runs", "ok", "injects", "fails"})
        /\ Len(Append(replies[r].calls, "waits")) = Len(replies[r].calls) + 1
        /\ Len(replies[r].calls) \in Nat
    BY <2>2
  <2>4. /\ rec \in ReplyRows /\ rec.at = "streaming" /\ rec.step = replies[r].step
        /\ rec.msgs = replies[r].msgs /\ rec.calls = Append(replies[r].calls, "waits")
    BY <2>1, <2>3 DEF ReplyRows
  <2> QED BY <2>1, <2>3, <2>4
<1> HIDE DEF rec
<1>3. ReplyFine(r, rec)
  BY <1>2, AgentRows DEF CallAsked, ReplyFine, MsgsOwn, StepFine, LeftFine
<1>4. KeptRight(r, rec, context)
  BY <1>2, AgentRows DEF CallAsked, KeptRight, Unsaved
<1>9. ~Over(r)
  BY DEF CallAsked, Over
<1>10. /\ replies[r].at # "idle" \/ \A q \in 1..(r - 1) : Over(q)
       /\ UNCHANGED <<asked, context>> /\ snapshot' \in Seq(Messages)
  BY AgentRows DEF CallAsked
<1> QED BY <1>1, <1>2, <1>3, <1>4, AgentRows, <1>9, <1>10, AgentStep DEF CallAsked

(* One more message changes nothing of those before it.                    *)
LEMMA AnsweredStays ==
  ASSUME NEW s, NEW t, Len(s) \in Nat, Len(t) \in Nat, Len(s) <= Len(t),
         DOMAIN s = 1..Len(s), DOMAIN t = 1..Len(t), \A i \in 1..Len(s) : t[i] = s[i],
         NEW k \in 1..Len(s), OneResultEach(s, k),
         \A i \in 1..Len(t) : i > Len(s) => t[i].kind # "result" \/ t[i].step # s[k].step
  PROVE OneResultEach(t, k)
<1> DEFINE found(u) == {x \in DOMAIN u : u[x].kind = "result" /\ u[x].step = u[k].step}
<1>1. found(t) = found(s)
  <2>1. \A x \in found(t) : x \in 1..Len(s)
    OBVIOUS
  <2> QED BY <2>1
<1>2. \A x \in found(s) : t[x] = s[x]
  OBVIOUS
<1>3. t[k] = s[k]
  OBVIOUS
<1>4. {s[x].call : x \in found(s)} = 1..s[k].call
      /\ \A x, y \in found(s) : x < y => s[x].call < s[y].call
  BY DEF OneResultEach
<1>5. {t[x].call : x \in found(t)} = 1..t[k].call
      /\ \A x, y \in found(t) : x < y => t[x].call < t[y].call
  <2> HIDE DEF found
  <2> QED BY <1>1, <1>2, <1>3, <1>4
<1> QED BY <1>5 DEF OneResultEach

LEMMA CallsMadeKeeps ==
  ASSUME AgentInv, NEW r \in Replies, CallsMade(r)
  PROVE AgentInv'
<1> DEFINE m == Msg(r, "calls", Len(replies[r].calls))
           rec == [replies[r] EXCEPT !.at = "tools", !.lastHadTools = TRUE, !.msgs = Append(@, m)]
           n == Len(replies[r].msgs)
<1>1. replies' = [replies EXCEPT ![r] = rec]
  BY DEF CallsMade
<1>2. replies[r] \in ReplyRows /\ n \in Nat /\ replies[r].at = "streaming" /\ replies[r].calls # <<>>
  BY AgentRows DEF CallsMade, ReplyRows
<1>3. /\ m \in Messages /\ m.of = r /\ m.kind = "calls" /\ m.step = replies[r].step
      /\ m.call = Len(replies[r].calls)
  <2>1. Len(replies[r].calls) \in 0..CallCount
    BY <1>2, AgentRows, AgentAssumption DEF ReplyRows
  <2> QED BY <1>2, <2>1, AgentAssumption DEF Msg, Messages, ReplyRows
<1> HIDE DEF m
<1>4. /\ rec \in ReplyRows /\ rec.at = "tools" /\ rec.step = replies[r].step
      /\ rec.lastHadTools = TRUE /\ rec.calls = replies[r].calls /\ rec.msgs = Append(replies[r].msgs, m)
  <2>1. Append(replies[r].msgs, m) \in Seq(Messages)
    BY <1>2, <1>3 DEF ReplyRows
  <2> QED BY <1>2, <2>1 DEF ReplyRows
<1>5. /\ rec.msgs \in Seq(Messages) /\ Len(rec.msgs) = n + 1 /\ rec.msgs[n + 1] = m
      /\ \A k \in 1..n : rec.msgs[k] = replies[r].msgs[k]
      /\ DOMAIN rec.msgs = 1..Len(rec.msgs) /\ DOMAIN replies[r].msgs = 1..n
  BY <1>2, <1>3, <1>4 DEF ReplyRows
<1> HIDE DEF rec
<1>6. \A k \in 1..(n + 1) : k = n + 1 \/ k \in 1..n
  BY <1>2
<1>7. ReplyFine(r, rec)
  <2>1. MsgsOwn(r, rec.msgs, rec.step)
    <3>1. MsgsOwn(r, replies[r].msgs, replies[r].step) /\ m.step <= rec.step
      BY <1>2, <1>3, <1>4, AgentRows DEF ReplyRows
    <3> QED BY <1>3, <1>4, <1>5, <1>6, <3>1 DEF MsgsOwn
  <2>2. LeftFine(rec)
    BY <1>4 DEF LeftFine
  <2>3. ASSUME NEW k \in 1..n
        PROVE /\ rec.msgs[k].step < rec.step
              /\ rec.msgs[k].kind = "calls" => OneResultEach(rec.msgs, k)
    <3>1. replies[r].msgs[k].step < replies[r].step
      BY <1>2, AgentRows DEF StepFine
    <3>2. rec.msgs[k].kind = "calls" => OneResultEach(replies[r].msgs, k)
      BY <1>2, <1>5, AgentRows DEF StepFine
    <3>3. \A i \in 1..Len(rec.msgs) : i > n => rec.msgs[i].kind # "result"
      BY <1>3, <1>5, <1>6
    <3>4. n <= Len(rec.msgs) /\ Len(rec.msgs) \in Nat
      BY <1>2, <1>5
    <3>5. OneResultEach(replies[r].msgs, k) => OneResultEach(rec.msgs, k)
      BY <1>2, <1>5, <3>3, <3>4, AnsweredStays
    <3> QED BY <1>4, <1>5, <3>1, <3>2, <3>5
  <2>4. StepFine(rec)
    <3>1. rec.step >= 1
      BY <1>2, <1>4, AgentRows DEF StepFine
    <3>2. Len(rec.msgs) - 1 = n /\ Len(rec.msgs) > 0
      BY <1>2, <1>5
    <3> QED BY <1>3, <1>4, <1>5, <2>3, <3>1, <3>2 DEF StepFine, CallsLast
  <2> QED BY <1>4, <2>1, <2>2, <2>4, AgentRows DEF ReplyFine
<1>8. KeptRight(r, rec, context)
  BY <1>2, <1>4, AgentRows DEF KeptRight, Unsaved
<1>9. ~Over(r)
  BY DEF CallsMade, Over
<1>10. /\ replies[r].at # "idle" \/ \A q \in 1..(r - 1) : Over(q)
       /\ UNCHANGED <<asked, context>> /\ snapshot' \in Seq(Messages)
  BY AgentRows DEF CallsMade
<1> QED BY <1>1, <1>2, <1>4, <1>7, <1>8, AgentRows, <1>9, <1>10, AgentStep DEF CallsMade

LEMMA StreamFailsKeeps ==
  ASSUME AgentInv, NEW r \in Replies, replies' = [replies EXCEPT ![r] = Cut(r)], Live(r),
         UNCHANGED <<asked, snapshot, seeded, seeds, context>>
  PROVE AgentInv'
<1> DEFINE rec == Cut(r)
<1>1. /\ rec \in ReplyRows /\ rec.at = "cut" /\ rec.step = replies[r].step
      /\ rec.msgs = <<>> /\ rec.calls = <<>>
  <2>1. replies[r].step \in 0..StepCount
    BY AgentRows DEF ReplyRows
  <2>2. <<>> \in Seq({"waits", "runs", "ok", "injects", "fails"}) /\ <<>> \in Seq(Messages)
    OBVIOUS
  <2> QED BY <2>1, <2>2 DEF Cut, Idle, ReplyRows
<1>2. ~Over(r) /\ replies[r].at # "idle"
  BY DEF Live
<1> HIDE DEF rec
<1>3. ReplyFine(r, rec)
  <2>1. Len(rec.msgs) = 0 /\ Len(rec.calls) = 0
    BY <1>1
  <2> QED BY <1>1, <2>1, AgentAssumption DEF ReplyFine, MsgsOwn, StepFine, LeftFine
<1>4. KeptRight(r, rec, context)
  BY <1>1 DEF KeptRight, Unsaved
<1>5. replies' = [replies EXCEPT ![r] = rec]
  BY DEF rec
<1> QED BY <1>1, <1>2, <1>3, <1>4, <1>5, AgentRows, AgentStep

(* The calls of a step move on, and nothing else of the reply.             *)
LEMMA ToolStepsKeep ==
  ASSUME AgentInv, NEW r \in Replies, NEW i \in 1..CallCount, ToolSteps(r, i)
  PROVE AgentInv'
<1>1. PICK out \in {"waits", "runs", "ok", "injects", "fails"} :
        replies' = [replies EXCEPT ![r].calls[i] = out]
  BY DEF ToolSteps, ToolStarts, ToolEnds, ToolRefused
<1>2. /\ replies[r].at = "tools" /\ i \in DOMAIN replies[r].calls
      /\ UNCHANGED <<asked, snapshot, seeded, seeds, context>>
  BY DEF ToolSteps, ToolStarts, ToolEnds, ToolRefused
<1> DEFINE rec == [replies[r] EXCEPT !.calls[i] = out]
<1>3. replies' = [replies EXCEPT ![r] = rec]
  BY <1>1
<1>4. /\ rec \in ReplyRows /\ rec.at = "tools" /\ rec.step = replies[r].step
      /\ rec.msgs = replies[r].msgs /\ Len(rec.calls) = Len(replies[r].calls)
      /\ rec.lastHadTools = replies[r].lastHadTools
  <2> DEFINE c == [replies[r].calls EXCEPT ![i] = out]
  <2>1. replies[r] \in ReplyRows
    BY AgentRows
  <2>2. replies[r].calls \in Seq({"waits", "runs", "ok", "injects", "fails"})
    BY <2>1 DEF ReplyRows
  <2>3. /\ c \in Seq({"waits", "runs", "ok", "injects", "fails"})
        /\ Len(c) = Len(replies[r].calls)
    BY <1>2, <2>2
  <2>4. rec = [replies[r] EXCEPT !.calls = c]
    BY <2>1 DEF ReplyRows
  <2> HIDE DEF c, rec
  <2> QED BY <1>2, <2>1, <2>3, <2>4 DEF ReplyRows
<1> HIDE DEF rec
<1>5. ReplyFine(r, rec)
  <2>1. MsgsOwn(r, replies[r].msgs, replies[r].step) /\ StepFine(replies[r]) /\ Len(replies[r].calls) <= CallCount
    BY AgentRows
  <2>2. MsgsOwn(r, rec.msgs, rec.step)
    BY <1>4, <2>1 DEF MsgsOwn
  <2>3. StepFine(rec)
    BY <1>2, <1>4, <2>1 DEF StepFine
  <2>4. LeftFine(rec)
    BY <1>4 DEF LeftFine
  <2> QED BY <1>4, <2>1, <2>2, <2>3, <2>4 DEF ReplyFine
<1>6. KeptRight(r, rec, context)
  BY <1>2, <1>4, AgentRows DEF KeptRight, Unsaved
<1>7. ~Over(r)
  BY <1>2 DEF Over
<1> QED BY <1>2, <1>3, <1>4, <1>5, <1>6, <1>7, AgentRows, AgentStep

-----------------------------------------------------------------------------
(* The answers of the tools.                                               *)

(* The recursive function of Results, named.                               *)
AnswersUpto(r) == CHOOSE g : g = [n \in 0..CallCount |-> IF n = 0 THEN <<>> ELSE g[n - 1] \o Answer(r, n)]

LEMMA ResultsIsUpto == ASSUME NEW r PROVE Results(r) = AnswersUpto(r)[Len(replies[r].calls)]
BY DEF Results, AnswersUpto

LEMMA AnswerTypes ==
  ASSUME AgentInv, NEW r \in Replies, NEW n \in 1..CallCount
  PROVE /\ Answer(r, n) \in Seq(Messages) /\ Len(Answer(r, n)) \in {1, 2}
        /\ Answer(r, n)[1] = Msg(r, "result", n)
        /\ Len(Answer(r, n)) = 2 => Answer(r, n)[2] = Msg(r, "inject", n)
<1>1. replies[r].step \in 0..StepCount
  BY AgentRows DEF ReplyRows
<1>2. Msg(r, "result", n) \in Messages /\ Msg(r, "inject", n) \in Messages
  BY <1>1, AgentAssumption DEF Msg, Messages
<1> QED BY <1>2 DEF Answer

LEMMA AnswerSteps ==
  ASSUME AgentInv, NEW r \in Replies
  PROVE /\ AnswersUpto(r)[0] = <<>>
        /\ \A n \in 1..CallCount : /\ AnswersUpto(r)[n] = AnswersUpto(r)[n - 1] \o Answer(r, n)
                                   /\ AnswersUpto(r)[n - 1] \in Seq(Messages)
        /\ \A n \in 0..CallCount : AnswersUpto(r)[n] \in Seq(Messages)
<1> DEFINE more == [n \in Nat |-> [a \in Seq(Messages) |->
                      IF n \in 1..CallCount THEN a \o Answer(r, n) ELSE a]]
           Good(g) == g = [n \in 0..CallCount |-> IF n = 0 THEN <<>> ELSE g[n - 1] \o Answer(r, n)]
           T == Seq(Messages)
           f0 == <<>>
<1>1. more \in [Nat -> [T -> T]]
  <2>1. ASSUME NEW n \in 1..CallCount, NEW a \in Seq(Messages) PROVE a \o Answer(r, n) \in Seq(Messages)
    BY AnswerTypes
  <2> QED BY <2>1
<1>2. f0 \in T /\ CallCount \in Nat
  BY AgentAssumption
<1>3. PICK g : Repeats(g, T, f0, more, CallCount)
  <2> HIDE DEF more, T, f0
  <2> QED BY <1>1, <1>2, Recursion
<1>4. g \in [0..CallCount -> Seq(Messages)] /\ g[0] = <<>>
      /\ \A i \in 1..CallCount : g[i] = more[i][g[i - 1]]
  BY <1>3 DEF Repeats
<1>5. ASSUME NEW i \in 1..CallCount
      PROVE g[i] = g[i - 1] \o Answer(r, i) /\ g[i - 1] \in Seq(Messages)
  <2>1. i - 1 \in 0..CallCount /\ i \in Nat
    BY <1>2
  <2>2. g[i - 1] \in Seq(Messages)
    BY <1>4, <2>1
  <2>3. more[i][g[i - 1]] = g[i - 1] \o Answer(r, i)
    BY <2>1, <2>2
  <2> QED BY <1>4, <2>2, <2>3
<1>6. Good(g)
  <2>1. g = [n \in 0..CallCount |-> g[n]]
    BY <1>4
  <2>2. ASSUME NEW n \in 0..CallCount PROVE g[n] = IF n = 0 THEN <<>> ELSE g[n - 1] \o Answer(r, n)
    <3>1. n = 0 \/ n \in 1..CallCount
      BY <1>2
    <3> QED BY <1>4, <1>5, <3>1
  <2> QED BY <2>1, <2>2
<1>7. Good(AnswersUpto(r))
  <2>1. AnswersUpto(r) = CHOOSE h : Good(h)
    BY DEF AnswersUpto
  <2> HIDE DEF Good
  <2> QED BY <1>6, <2>1
<1> DEFINE f == AnswersUpto(r)
<1>8. f[0] = <<>> /\ \A n \in 1..CallCount : f[n] = f[n - 1] \o Answer(r, n)
  <2> DEFINE e == [n \in 0..CallCount |-> IF n = 0 THEN <<>> ELSE f[n - 1] \o Answer(r, n)]
  <2>1. \A n \in 0..CallCount : e[n] = IF n = 0 THEN <<>> ELSE f[n - 1] \o Answer(r, n)
    OBVIOUS
  <2>2. f = e
    BY <1>7
  <2>3. 0 \in 0..CallCount /\ \A n \in 1..CallCount : n # 0 /\ n \in 0..CallCount
    BY <1>2
  <2> HIDE DEF e, f
  <2> QED BY <2>1, <2>2, <2>3
<1>9. \A n \in Nat : n \in 0..CallCount => f[n] \in Seq(Messages)
  <2> DEFINE S == {n \in Nat : n \in 0..CallCount => f[n] \in Seq(Messages)}
  <2>1. 0 \in S
    <3>1. f[0] \in Seq(Messages)
      <4> HIDE DEF f
      <4> QED BY <1>8
    <3> QED BY <3>1
  <2>2. ASSUME NEW n \in Nat, n \in S PROVE n + 1 \in S
    <3> HIDE DEF f
    <3>1. SUFFICES ASSUME n + 1 \in 0..CallCount PROVE f[n + 1] \in Seq(Messages)
      OBVIOUS
    <3>2. n + 1 \in 1..CallCount /\ (n + 1) - 1 = n /\ f[n] \in Seq(Messages)
      BY <1>2, <2>2, <3>1
    <3>3. Answer(r, n + 1) \in Seq(Messages) /\ f[n + 1] = f[n] \o Answer(r, n + 1)
      BY <1>8, <3>2, AnswerTypes
    <3> QED BY <3>2, <3>3
  <2>3. \A n \in Nat : n \in S
    <3> HIDE DEF S
    <3> QED BY <2>1, <2>2, Counting
  <2> QED BY <2>3
<1>10. \A n \in 1..CallCount : n - 1 \in 0..CallCount /\ n - 1 \in Nat
  BY <1>2
<1>11. \A n \in 0..CallCount : n \in Nat
  BY <1>2
<1> HIDE DEF f
<1> QED BY <1>8, <1>9, <1>10, <1>11 DEF f

(* The answers to the first n calls: each has one result, in order.        *)
AnswersRight(R, r, n) ==
  /\ R \in Seq(Messages)
  /\ \A k \in 1..Len(R) : /\ R[k].of = r /\ R[k].step = replies[r].step
                          /\ R[k].kind \in {"result", "inject"} /\ R[k].call \in 1..n
  /\ \A i \in 1..n : \E k \in 1..Len(R) : R[k].kind = "result" /\ R[k].call = i
  /\ \A x, y \in 1..Len(R) : R[x].kind = "result" /\ R[y].kind = "result" /\ x < y => R[x].call < R[y].call

LEMMA ResultsRight ==
  ASSUME AgentInv, NEW r \in Replies
  PROVE AnswersRight(Results(r), r, Len(replies[r].calls))
<1> DEFINE f == AnswersUpto(r)
           S == {n \in Nat : n <= CallCount => AnswersRight(f[n], r, n)}
<1>1. CallCount \in Nat /\ replies[r] \in ReplyRows /\ replies[r].step \in Int
  BY AgentRows, AgentAssumption DEF ReplyRows
<1>2. 0 \in S
  <2>1. f[0] = <<>> /\ <<>> \in Seq(Messages)
    BY AnswerSteps
  <2>2. Len(f[0]) = 0
    BY <2>1
  <2>3. AnswersRight(f[0], r, 0)
    <3> HIDE DEF f
    <3> QED BY <2>1, <2>2 DEF AnswersRight
  <2> QED BY <2>3
<1>3. ASSUME NEW n \in Nat, n \in S PROVE n + 1 \in S
  <2>1. SUFFICES ASSUME n + 1 <= CallCount PROVE AnswersRight(f[n + 1], r, n + 1)
    OBVIOUS
  <2> DEFINE a == Answer(r, n + 1)
             s == f[n]
             t == f[n + 1]
  <2>2. n + 1 \in 1..CallCount /\ (n + 1) - 1 = n /\ n <= CallCount
    BY <1>1, <2>1
  <2>3. AnswersRight(s, r, n)
    BY <1>3, <2>2
  <2>4. t = s \o a /\ s \in Seq(Messages)
    BY <2>2, AnswerSteps
  <2>5. /\ a \in Seq(Messages) /\ Len(a) \in {1, 2} /\ a[1] = Msg(r, "result", n + 1)
        /\ Len(a) = 2 => a[2] = Msg(r, "inject", n + 1)
    BY <2>2, AnswerTypes
  <2> HIDE DEF a, s, t, S
  <2>6. ASSUME NEW kind, NEW c, NEW q PROVE /\ Msg(q, kind, c).of = q /\ Msg(q, kind, c).kind = kind
                                            /\ Msg(q, kind, c).step = replies[q].step
                                            /\ Msg(q, kind, c).call = c
    BY DEF Msg
  <2> DEFINE m == Len(s)
  <2>7. /\ t \in Seq(Messages) /\ m \in Nat /\ Len(t) = m + Len(a) /\ Len(t) \in {m + 1, m + 2}
        /\ \A k \in 1..m : t[k] = s[k]
        /\ t[m + 1] = a[1]
        /\ Len(t) = m + 2 => Len(a) = 2 /\ t[m + 2] = a[2]
    <3>1. /\ t \in Seq(Messages) /\ Len(t) = Len(s) + Len(a) /\ Len(s) \in Nat
          /\ \A k \in 1..(Len(s) + Len(a)) : t[k] = IF k <= Len(s) THEN s[k] ELSE a[k - Len(s)]
      BY <2>4, <2>5, ConcatProperties
    <3>2. Len(a) = 1 \/ Len(a) = 2
      BY <2>5
    <3>3. ASSUME NEW k \in 1..m PROVE t[k] = s[k]
      BY <3>1, <3>2
    <3>4. t[m + 1] = a[1]
      <4>1. m + 1 \in 1..(Len(s) + Len(a)) /\ ~(m + 1 <= Len(s)) /\ (m + 1) - Len(s) = 1
        BY <3>1, <3>2
      <4> QED BY <3>1, <4>1
    <3>5. ASSUME Len(a) = 2 PROVE t[m + 2] = a[2]
      <4>1. m + 2 \in 1..(Len(s) + Len(a)) /\ ~(m + 2 <= Len(s)) /\ (m + 2) - Len(s) = 2
        BY <3>1, <3>5
      <4> QED BY <3>1, <4>1
    <3> QED BY <3>1, <3>2, <3>3, <3>4, <3>5
  <2>8. /\ t[m + 1].of = r /\ t[m + 1].kind = "result" /\ t[m + 1].call = n + 1
        /\ t[m + 1].step = replies[r].step
        /\ Len(t) = m + 2 => /\ t[m + 2].of = r /\ t[m + 2].kind = "inject" /\ t[m + 2].call = n + 1
                             /\ t[m + 2].step = replies[r].step
    BY <2>5, <2>6, <2>7
  <2> HIDE DEF m
  <2>9. \A k \in 1..Len(t) : k \in 1..m \/ k = m + 1 \/ (k = m + 2 /\ Len(t) = m + 2)
    BY <2>7
  <2>10. /\ \A k \in 1..m : /\ s[k].of = r /\ s[k].step = replies[r].step
                            /\ s[k].kind \in {"result", "inject"} /\ s[k].call \in 1..n
         /\ \A i \in 1..n : \E k \in 1..m : s[k].kind = "result" /\ s[k].call = i
         /\ \A x, y \in 1..m : s[x].kind = "result" /\ s[y].kind = "result" /\ x < y => s[x].call < s[y].call
    BY <2>3 DEF AnswersRight, m
  <2>11. \A k \in 1..Len(t) : /\ t[k].of = r /\ t[k].step = replies[r].step
                              /\ t[k].kind \in {"result", "inject"} /\ t[k].call \in 1..(n + 1)
    <3>1. \A i \in 1..n : i \in 1..(n + 1)
      OBVIOUS
    <3>2. n + 1 \in 1..(n + 1)
      OBVIOUS
    <3> QED BY <2>7, <2>8, <2>9, <2>10, <3>1, <3>2, SMTT(30)
  <2>12. \A i \in 1..(n + 1) : \E k \in 1..Len(t) : t[k].kind = "result" /\ t[k].call = i
    <3>1. SUFFICES ASSUME NEW i \in 1..(n + 1)
                   PROVE \E k \in 1..Len(t) : t[k].kind = "result" /\ t[k].call = i
      OBVIOUS
    <3>2. CASE i = n + 1
      <4>1. m + 1 \in 1..Len(t)
        BY <2>7
      <4> QED BY <2>8, <3>2, <4>1
    <3>3. CASE i \in 1..n
      <4>1. PICK k \in 1..m : s[k].kind = "result" /\ s[k].call = i
        BY <2>10, <3>3
      <4>2. k \in 1..Len(t)
        BY <2>7
      <4> QED BY <2>7, <4>1, <4>2
    <3> QED BY <3>2, <3>3
  <2>13. \A x, y \in 1..Len(t) : t[x].kind = "result" /\ t[y].kind = "result" /\ x < y => t[x].call < t[y].call
    <3>1. SUFFICES ASSUME NEW x \in 1..Len(t), NEW y \in 1..Len(t), t[x].kind = "result", t[y].kind = "result",
                          x < y
                   PROVE t[x].call < t[y].call
      OBVIOUS
    <3>2. x \in 1..m
      BY <2>7, <2>8, <2>9, <3>1
    <3>3. CASE y \in 1..m
      BY <2>7, <2>10, <3>1, <3>2, <3>3
    <3>4. CASE y = m + 1
      <4>1. t[x].call \in 1..n
        BY <2>7, <2>10, <3>2
      <4> QED BY <2>8, <3>4, <4>1
    <3> QED BY <2>8, <2>9, <3>1, <3>3, <3>4
  <2> QED BY <2>7, <2>11, <2>12, <2>13 DEF AnswersRight, t
<1>4. Len(replies[r].calls) \in Nat /\ Len(replies[r].calls) <= CallCount
  BY <1>1, AgentRows DEF ReplyRows
<1>5. Len(replies[r].calls) \in S
  <2> HIDE DEF S
  <2> QED BY <1>2, <1>3, <1>4, Counting
<1> QED BY <1>4, <1>5, ResultsIsUpto

LEMMA ToolsDoneKeeps ==
  ASSUME AgentInv, NEW r \in Replies, ToolsDone(r)
  PROVE AgentInv'
<1> DEFINE R == Results(r)
           rec == [replies[r] EXCEPT !.at = "asking", !.calls = <<>>, !.msgs = @ \o R]
           s == replies[r].msgs
           t == rec.msgs
           n == Len(s)
<1>1. replies' = [replies EXCEPT ![r] = rec]
  BY DEF ToolsDone
<1>2. replies[r] \in ReplyRows /\ s \in Seq(Messages) /\ n \in Nat /\ replies[r].at = "tools"
  BY AgentRows DEF ToolsDone, ReplyRows
<1>3. AnswersRight(R, r, Len(replies[r].calls))
  BY ResultsRight
<1>4. R \in Seq(Messages)
  BY <1>3 DEF AnswersRight
<1> HIDE DEF R
<1>5. /\ rec \in ReplyRows /\ rec.at = "asking" /\ rec.step = replies[r].step
      /\ rec.lastHadTools = replies[r].lastHadTools /\ rec.calls = <<>> /\ t = s \o R
  <2>1. s \o R \in Seq(Messages)
    BY <1>2, <1>4
  <2>2. <<>> \in Seq({"waits", "runs", "ok", "injects", "fails"})
    OBVIOUS
  <2> QED BY <1>2, <2>1, <2>2 DEF ReplyRows
<1> HIDE DEF rec
<1>6. /\ Len(t) = n + Len(R) /\ Len(R) \in Nat /\ DOMAIN t = 1..Len(t) /\ DOMAIN s = 1..n
      /\ \A k \in 1..(n + Len(R)) : t[k] = IF k <= n THEN s[k] ELSE R[k - n]
      /\ t \in Seq(Messages)
  BY <1>2, <1>4, <1>5, ConcatProperties
<1> HIDE DEF t
<1>7. \A k \in 1..n : t[k] = s[k]
  <2>1. \A k \in 1..n : k \in 1..(n + Len(R)) /\ k <= n
    BY <1>2, <1>6
  <2> QED BY <1>6, <2>1
<1>8. ASSUME NEW k \in 1..Len(R) PROVE n + k \in 1..Len(t) /\ t[n + k] = R[k]
  <2>1. n + k \in 1..(n + Len(R)) /\ ~(n + k <= n) /\ (n + k) - n = k
    BY <1>2, <1>6
  <2> QED BY <1>6, <2>1
<1>9. ASSUME NEW k \in 1..Len(t) PROVE k \in 1..n \/ (k - n \in 1..Len(R) /\ t[k] = R[k - n] /\ k > n)
  BY <1>2, <1>6
<1>10. StepFine(replies[r]) /\ MsgsOwn(r, replies[r].msgs, replies[r].step)
  BY AgentRows
<1>11. /\ n > 0 /\ s[n].kind = "calls" /\ s[n].call = Len(replies[r].calls)
       /\ s[n].step = rec.step /\ rec.lastHadTools
       /\ \A k \in 1..(n - 1) : s[k].step < rec.step /\ (s[k].kind = "calls" => OneResultEach(s, k))
  <2>1. CallsLast(s, rec.step, Len(replies[r].calls)) /\ rec.lastHadTools
    BY <1>2, <1>5, <1>10 DEF StepFine
  <2> HIDE DEF s
  <2> QED BY <2>1 DEF CallsLast
<1> HIDE DEF s, n
<1>12. \A k \in 1..Len(R) : /\ R[k].of = r /\ R[k].step = rec.step
                            /\ R[k].kind \in {"result", "inject"} /\ R[k].call \in 1..s[n].call
  BY <1>3, <1>5, <1>11 DEF AnswersRight
<1>13. rec.step \in Nat /\ rec.step >= 1 /\ \A k \in 1..n : s[k].step \in Int
  <2>1. \A m \in Messages : m.step \in Int
    BY AgentAssumption DEF Messages
  <2>2. rec.step \in 0..StepCount /\ StepCount \in Nat
    BY <1>5, AgentAssumption DEF ReplyRows
  <2>3. rec.step >= 1
    BY <1>2, <1>5, <1>10 DEF StepFine
  <2>4. \A k \in 1..n : s[k] \in Messages
    BY <1>2 DEF n
  <2> QED BY <2>1, <2>2, <2>3, <2>4
<1>14. MsgsOwn(r, rec.msgs, rec.step)
  <2>1. \A k \in 1..n : /\ t[k].of = r /\ t[k].step <= rec.step
                        /\ t[k].kind = "result" => t[k].step >= 1 /\ t[k].call >= 1
    <3>1. MsgsOwn(r, s, rec.step)
      BY <1>5, <1>10 DEF s
    <3> QED BY <1>7, <3>1 DEF MsgsOwn, n
  <2>2. \A k \in 1..Len(R) : /\ R[k].of = r /\ R[k].step <= rec.step
                             /\ R[k].kind = "result" => R[k].step >= 1 /\ R[k].call >= 1
    BY <1>12, <1>13
  <2>3. MsgsOwn(r, t, rec.step)
    <3>1. SUFFICES ASSUME NEW k \in 1..Len(t)
                   PROVE /\ t[k].of = r /\ t[k].step <= rec.step
                         /\ t[k].kind = "result" => t[k].step >= 1 /\ t[k].call >= 1
      BY DEF MsgsOwn
    <3>2. CASE k \in 1..n
      BY <2>1, <3>2
    <3>3. CASE k - n \in 1..Len(R) /\ t[k] = R[k - n]
      <4> DEFINE j == k - n
      <4>1. j \in 1..Len(R) /\ t[k] = R[j]
        BY <3>3
      <4> HIDE DEF j
      <4> QED BY <2>2, <4>1
    <3> QED BY <1>9, <3>2, <3>3
  <2> QED BY <2>3 DEF t
<1>15. ASSUME NEW k \in 1..Len(t), t[k].kind = "calls" PROVE OneResultEach(t, k)
  <2>1. k \in 1..n
    BY <1>9, <1>12, <1>15
  <2>2. CASE k # n
    <3>1. k \in 1..(n - 1)
      BY <1>2, <2>1, <2>2
    <3>2. s[k].step < rec.step /\ OneResultEach(s, k)
      <4>1. s[k].kind = "calls"
        BY <1>7, <1>15, <2>1
      <4> QED BY <1>11, <3>1, <4>1
    <3>3. \A i \in 1..Len(t) : i > n => t[i].step = rec.step
      <4>1. SUFFICES ASSUME NEW i \in 1..Len(t), i > n PROVE t[i].step = rec.step
        OBVIOUS
      <4>2. i \notin 1..n
        BY <1>2, <4>1
      <4> QED BY <1>9, <1>12, <4>2
    <3>4. s[k].step # rec.step
      BY <1>13, <2>1, <3>2
    <3>5. Len(s) = n /\ n <= Len(t) /\ Len(t) \in Nat
      BY <1>2, <1>6 DEF n
    <3>6. /\ DOMAIN s = 1..Len(s) /\ DOMAIN t = 1..Len(t) /\ k \in 1..Len(s)
          /\ \A i \in 1..Len(s) : t[i] = s[i]
      BY <1>6, <1>7, <2>1, <3>5
    <3>7. \A i \in 1..Len(t) : i > Len(s) => t[i].kind # "result" \/ t[i].step # s[k].step
      <4>1. SUFFICES ASSUME NEW i \in 1..Len(t), i > Len(s) PROVE t[i].step # s[k].step
        OBVIOUS
      <4>2. t[i].step = rec.step
        BY <3>3, <3>5, <4>1
      <4> QED BY <3>4, <4>2
    <3>8. Len(s) \in Nat /\ Len(t) \in Nat /\ Len(s) <= Len(t)
      BY <1>2, <3>5
    <3> HIDE DEF n
    <3> QED BY <3>2, <3>6, <3>7, <3>8, AnsweredStays
  <2>3. CASE k = n
    <3> DEFINE found == {x \in DOMAIN t : t[x].kind = "result" /\ t[x].step = t[k].step}
    <3>1. t[k].step = rec.step /\ t[k].call = s[n].call
      BY <1>7, <1>11, <2>1, <2>3
    <3>2. ASSUME NEW x \in found PROVE x > n /\ x - n \in 1..Len(R) /\ t[x] = R[x - n]
      <4>1. x \in 1..Len(t) /\ t[x].kind = "result" /\ t[x].step = rec.step
        BY <1>6, <3>1
      <4>2. x \notin 1..n
        <5>1. CASE x = n
          BY <1>7, <1>11, <2>1, <2>3, <4>1, <5>1
        <5>2. CASE x \in 1..(n - 1)
          <6>1. x \in 1..n
            BY <1>2, <5>2
          <6>2. s[x].step < rec.step /\ s[x].step \in Int /\ t[x].step = s[x].step
            BY <1>7, <1>11, <1>13, <5>2, <6>1
          <6> QED BY <1>13, <4>1, <6>2
        <5>3. x \in 1..n => x = n \/ x \in 1..(n - 1)
          BY <1>2
        <5> QED BY <5>1, <5>2, <5>3
      <4> QED BY <1>9, <4>1, <4>2
    <3>3. ASSUME NEW j \in 1..Len(R), R[j].kind = "result" PROVE n + j \in found /\ t[n + j] = R[j]
      BY <1>6, <1>8, <1>12, <3>1, <3>3
    <3>4. \A x \in found : t[x].kind = "result"
      OBVIOUS
    <3>5. \A i \in 1..s[n].call : \E j \in 1..Len(R) : R[j].kind = "result" /\ R[j].call = i
      BY <1>3, <1>11 DEF AnswersRight
    <3>6. \A x, y \in 1..Len(R) : R[x].kind = "result" /\ R[y].kind = "result" /\ x < y => R[x].call < R[y].call
      BY <1>3 DEF AnswersRight
    <3>7. found \subseteq Int
      <4>1. \A x \in found : x \in 1..Len(t)
        BY <1>6
      <4> QED BY <4>1
    <3> HIDE DEF found
    <3>8. {t[x].call : x \in found} = 1..t[k].call
      <4>1. \A x \in found : t[x].call \in 1..t[k].call
        BY <1>12, <3>1, <3>2
      <4>2. \A i \in 1..t[k].call : \E x \in found : t[x].call = i
        <5>1. SUFFICES ASSUME NEW i \in 1..t[k].call PROVE \E x \in found : t[x].call = i
          OBVIOUS
        <5>2. PICK j \in 1..Len(R) : R[j].kind = "result" /\ R[j].call = i
          BY <3>1, <3>5
        <5> QED BY <3>3, <5>2
      <4> QED BY <4>1, <4>2
    <3>9. \A x, y \in found : x < y => t[x].call < t[y].call
      <4>1. SUFFICES ASSUME NEW x \in found, NEW y \in found, x < y PROVE t[x].call < t[y].call
        OBVIOUS
      <4>2. x - n < y - n
        BY <1>2, <3>7, <4>1
      <4> QED BY <3>2, <3>4, <3>6, <4>2
    <3> QED BY <3>8, <3>9 DEF OneResultEach, found
  <2> QED BY <2>2, <2>3
<1>16. ReplyFine(r, rec)
  <2>1. StepFine(rec)
    BY <1>5, <1>11, <1>15 DEF StepFine, t
  <2>2. LeftFine(rec) /\ Len(rec.calls) <= CallCount
    BY <1>5, AgentAssumption DEF LeftFine
  <2> QED BY <1>5, <1>14, <2>1, <2>2 DEF ReplyFine
<1>17. KeptRight(r, rec, context)
  BY <1>2, <1>5, AgentRows DEF KeptRight, Unsaved
<1>18. ~Over(r)
  BY <1>2 DEF Over
<1> QED BY <1>1, <1>2, <1>5, <1>16, <1>17, <1>18, AgentRows, AgentStep DEF ToolsDone

-----------------------------------------------------------------------------
(* The end of a reply.                                                     *)

LEMMA ResultsInTypes ==
  ASSUME NEW msgs \in Seq(Messages)
  PROVE /\ ResultsIn(msgs) \in Seq(Messages)
        /\ \A j \in 1..Len(ResultsIn(msgs)) :
             ResultsIn(msgs)[j].kind = "result" /\ \E k \in 1..Len(msgs) : ResultsIn(msgs)[j] = msgs[k]
<1> DEFINE P == {i \in DOMAIN msgs : msgs[i].kind = "result"}
<1>1. ResultsIn(msgs) = Pick(msgs, P)
  BY DEF ResultsIn
<1>2. ResultsIn(msgs) \in Seq(Messages)
  BY <1>1, PickTypes
<1>3. PICK e : Embeds(e, ResultsIn(msgs), msgs, P)
  BY <1>1, PickEmbeds
<1>4. ASSUME NEW j \in 1..Len(ResultsIn(msgs))
      PROVE e[j] \in 1..Len(msgs) /\ e[j] \in P /\ ResultsIn(msgs)[j] = msgs[e[j]]
  <2> DEFINE R == ResultsIn(msgs)
  <2> HIDE DEF P, R
  <2>1. e \in [1..Len(R) -> 1..Len(msgs)] /\ \A i \in 1..Len(R) : e[i] \in P /\ R[i] = msgs[e[i]]
    BY <1>3 DEF Embeds, R
  <2>2. j \in 1..Len(R)
    BY DEF R
  <2> QED BY <2>1, <2>2 DEF R
<1> QED BY <1>2, <1>4

(* The tool results of the messages are to be saved, all of them.          *)
LEMMA SaveKeeps ==
  ASSUME AgentInv, NEW r \in Replies, replies[r].at \in {"asking", "streaming"},
         NEW msgs \in Seq(Messages), replies' = [replies EXCEPT ![r] = Save(r, msgs)],
         snapshot' = ResultsIn(msgs), UNCHANGED <<asked, seeded, seeds, context>>,
         MsgsOwn(r, msgs, replies[r].step)
  PROVE AgentInv'
<1> DEFINE R == ResultsIn(msgs)
           rec == Save(r, msgs)
<1>1. R \in Seq(Messages) /\ \A j \in 1..Len(R) : R[j].kind = "result" /\ \E k \in 1..Len(msgs) : R[j] = msgs[k]
  BY ResultsInTypes
<1>2. replies[r] \in ReplyRows /\ context \in Seq(Replies \X (1..StepCount) \X (1..CallCount))
  BY AgentRows DEF AgentInv, AgentShared
<1> HIDE DEF R
<1>3. /\ rec \in ReplyRows /\ rec.at = "saving" /\ rec.step = replies[r].step /\ rec.calls = <<>>
      /\ rec.msgs = R /\ rec.left = R
  <2>1. replies[r].step \in 0..StepCount /\ <<>> \in Seq({"waits", "runs", "ok", "injects", "fails"})
    BY <1>2 DEF ReplyRows
  <2> QED BY <1>1, <2>1 DEF Save, Idle, ReplyRows, R
<1>4. replies' = [replies EXCEPT ![r] = rec]
  OBVIOUS
<1> HIDE DEF rec
<1>5. Len(R) \in Nat /\ Len(R) - Len(R) = 0 /\ \A i \in 1..Len(R) : Len(R) - Len(R) + i = i
  BY <1>1
<1>6. ReplyFine(r, rec)
  <2>1. MsgsOwn(r, rec.msgs, rec.step)
    <3>1. MsgsOwn(r, R, replies[r].step)
      BY <1>1 DEF MsgsOwn
    <3> QED BY <1>3, <3>1
  <2>2. StepFine(rec)
    BY <1>3 DEF StepFine
  <2>3. LeftFine(rec)
    BY <1>1, <1>3, <1>5 DEF LeftFine
  <2>4. Len(rec.calls) <= CallCount
    BY <1>3, AgentAssumption
  <2> QED BY <1>3, <2>1, <2>2, <2>3, <2>4 DEF ReplyFine
<1>7. KeptRight(r, rec, context)
  <2> DEFINE P == {x \in DOMAIN context : context[x][1] = r}
  <2>1. \A x \in 1..Len(context) : x \notin P
    BY AgentRows DEF KeptRight, Unsaved
  <2>2. Pick(context, P) = <<>>
    <3> HIDE DEF P
    <3> QED BY <1>2, <2>1, PickNone
  <2>3. [i \in 1..(Len(rec.msgs) - Len(rec.left)) |-> Triple(rec.msgs[i])] = <<>>
    <3>1. Len(rec.msgs) - Len(rec.left) = 0
      BY <1>3, <1>5
    <3>2. [i \in 1..0 |-> Triple(rec.msgs[i])] = <<>>
      OBVIOUS
    <3> QED BY <3>1, <3>2
  <2> QED BY <1>3, <2>2, <2>3 DEF KeptRight, Unsaved
<1>8. ~Over(r)
  BY DEF Over
<1>9. snapshot' \in Seq(Messages)
  BY <1>1 DEF R
<1> QED BY <1>3, <1>4, <1>6, <1>7, <1>8, <1>9, AgentRows, AgentStep

(* The loop never ends at its head: the last step had tools.               *)
LEMMA NeverExhausted ==
  ASSUME AgentInv, NEW r \in Replies
  PROVE ~Exhausted(r)
BY AgentRows DEF Exhausted, ShouldStop, StepFine

LEMMA AppendedMsg ==
  ASSUME AgentInv, NEW r \in Replies, replies[r].at \in {"asking", "streaming"},
         NEW kind \in {"text", "partial"}
  PROVE /\ Append(replies[r].msgs, Msg(r, kind, 0)) \in Seq(Messages)
        /\ MsgsOwn(r, Append(replies[r].msgs, Msg(r, kind, 0)), replies[r].step)
<1> DEFINE m == Msg(r, kind, 0)
           msgs == Append(replies[r].msgs, m)
           s == replies[r].msgs
<1>1. replies[r].step \in 0..StepCount /\ replies[r].step \in Int /\ s \in Seq(Messages) /\ MsgsOwn(r, replies[r].msgs, replies[r].step)
  BY AgentRows, AgentAssumption DEF ReplyRows
<1>2. /\ m \in Messages /\ m.of = r /\ m.step = replies[r].step /\ m.kind # "result"
      /\ m.step <= replies[r].step
  BY <1>1, AgentAssumption DEF Msg, Messages
<1> HIDE DEF m
<1>3. /\ msgs \in Seq(Messages) /\ Len(msgs) = Len(s) + 1 /\ msgs[Len(s) + 1] = m /\ Len(s) \in Nat
      /\ \A k \in 1..Len(s) : msgs[k] = s[k]
  BY <1>1, <1>2, AppendProperties DEF m
<1>4. \A k \in 1..Len(msgs) : k \in 1..Len(s) \/ k = Len(s) + 1
  BY <1>3
<1>5. MsgsOwn(r, msgs, replies[r].step)
  <2>1. MsgsOwn(r, s, replies[r].step)
    BY <1>1
  <2> HIDE DEF msgs, s
  <2> QED BY <1>2, <1>3, <1>4, <2>1 DEF MsgsOwn
<1> QED BY <1>3, <1>5 DEF m

LEMMA InterruptedKeeps ==
  ASSUME AgentInv, NEW r \in Replies, Interrupted(r)
  PROVE AgentInv'
<1> DEFINE msgs == IF replies[r].said THEN Append(replies[r].msgs, Msg(r, "partial", 0)) ELSE replies[r].msgs
<1>1. /\ snapshot' = ResultsIn(msgs) /\ replies' = [replies EXCEPT ![r] = Save(r, msgs)]
      /\ replies[r].at \in {"asking", "streaming"} /\ UNCHANGED <<asked, seeded, seeds, context>>
  BY DEF Interrupted
<1>2. /\ msgs \in Seq(Messages)
      /\ MsgsOwn(r, msgs, replies[r].step)
  <2>1. CASE replies[r].said
    <3>1. msgs = Append(replies[r].msgs, Msg(r, "partial", 0))
      BY <2>1
    <3>2. "partial" \in {"text", "partial"}
      OBVIOUS
    <3> HIDE DEF msgs
    <3> QED BY <1>1, <3>1, <3>2, AppendedMsg
  <2>2. CASE ~replies[r].said
    <3>1. msgs = replies[r].msgs /\ msgs \in Seq(Messages) /\ MsgsOwn(r, replies[r].msgs, replies[r].step)
      BY <2>2, AgentRows DEF ReplyRows
    <3> HIDE DEF msgs
    <3> QED BY <3>1
  <2> QED BY <2>1, <2>2
<1> HIDE DEF msgs
<1> QED BY <1>1, <1>2, SaveKeeps

LEMMA StreamEndsKeeps ==
  ASSUME AgentInv, NEW r \in Replies, StreamEnds(r)
  PROVE AgentInv'
<1> DEFINE msgs == Append(replies[r].msgs, Msg(r, "text", 0))
<1>1. /\ snapshot' = ResultsIn(msgs) /\ replies' = [replies EXCEPT ![r] = Save(r, msgs)]
      /\ replies[r].at \in {"asking", "streaming"} /\ UNCHANGED <<asked, seeded, seeds, context>>
  BY DEF StreamEnds
<1>2. /\ msgs \in Seq(Messages)
      /\ MsgsOwn(r, msgs, replies[r].step)
  <2>1. msgs = Append(replies[r].msgs, Msg(r, "text", 0))
    OBVIOUS
  <2> HIDE DEF msgs
  <2>2. "text" \in {"text", "partial"}
    OBVIOUS
  <2> QED BY <1>1, <2>1, <2>2, AppendedMsg
<1> HIDE DEF msgs
<1> QED BY <1>1, <1>2, SaveKeeps

LEMMA SaveFailsKeeps ==
  ASSUME AgentInv, NEW r \in Replies, SaveFails(r)
  PROVE AgentInv'
<1> DEFINE rec == [Idle EXCEPT !.at = "lost", !.step = replies[r].step]
<1>1. /\ rec \in ReplyRows /\ rec.at = "lost" /\ rec.step = replies[r].step
      /\ rec.msgs = <<>> /\ rec.calls = <<>>
  <2>1. replies[r].step \in 0..StepCount
    BY AgentRows DEF ReplyRows
  <2>2. <<>> \in Seq({"waits", "runs", "ok", "injects", "fails"}) /\ <<>> \in Seq(Messages)
    OBVIOUS
  <2> QED BY <2>1, <2>2 DEF Idle, ReplyRows
<1>2. replies' = [replies EXCEPT ![r] = rec] /\ replies[r].at = "saving"
      /\ UNCHANGED <<asked, snapshot, seeded, seeds, context>>
  BY DEF SaveFails
<1> HIDE DEF rec
<1>3. ReplyFine(r, rec)
  <2>1. Len(rec.msgs) = 0 /\ Len(rec.calls) = 0
    BY <1>1
  <2> QED BY <1>1, <2>1, AgentAssumption DEF ReplyFine, MsgsOwn, StepFine, LeftFine
<1>4. KeptRight(r, rec, context) /\ ~Over(r)
  BY <1>1, <1>2 DEF KeptRight, Unsaved, Over
<1> QED BY <1>1, <1>2, <1>3, <1>4, AgentRows, AgentStep

LEMMA SavedKeeps ==
  ASSUME AgentInv, NEW r \in Replies, Saved(r)
  PROVE AgentInv'
<1> DEFINE rec == [replies[r] EXCEPT !.at = "done"]
<1>1. replies[r] \in ReplyRows
  BY AgentRows
<1>2. replies' = [replies EXCEPT ![r] = rec] /\ replies[r].at = "saving" /\ replies[r].left = <<>>
      /\ UNCHANGED <<asked, snapshot, seeded, seeds, context>>
  BY DEF Saved
<1>3. /\ rec \in ReplyRows /\ rec.at = "done" /\ rec.step = replies[r].step
      /\ rec.msgs = replies[r].msgs /\ rec.calls = replies[r].calls /\ rec.left = replies[r].left
  BY <1>1 DEF ReplyRows
<1> HIDE DEF rec
<1>4. ReplyFine(r, rec)
  <2>1. MsgsOwn(r, replies[r].msgs, replies[r].step) /\ LeftFine(replies[r]) /\ Len(replies[r].calls) <= CallCount
    BY AgentRows
  <2>2. MsgsOwn(r, rec.msgs, rec.step)
    BY <1>3, <2>1 DEF MsgsOwn
  <2>3. Len(rec.left) = 0
    BY <1>2, <1>3
  <2>4. LeftFine(rec)
    BY <1>2, <1>3, <2>1, <2>3 DEF LeftFine
  <2>5. StepFine(rec)
    BY <1>3 DEF StepFine
  <2> QED BY <1>3, <2>1, <2>2, <2>4, <2>5 DEF ReplyFine
<1>5. KeptRight(r, rec, context)
  <2>1. KeptRight(r, replies[r], context)
    BY AgentRows
  <2>2. Pick(context, {x \in DOMAIN context : context[x][1] = r})
          = [i \in 1..(Len(replies[r].msgs) - Len(replies[r].left)) |-> Triple(replies[r].msgs[i])]
    BY <1>2, <2>1 DEF KeptRight
  <2> QED BY <1>3, <2>2 DEF KeptRight, Unsaved
<1>6. ~Over(r)
  BY <1>2 DEF Over
<1> QED BY <1>2, <1>3, <1>4, <1>5, <1>6, AgentRows, AgentStep

(* One more result is in the conversation, and one less is left.           *)
LEMMA SaveOneKeeps ==
  ASSUME AgentInv, NEW r \in Replies, SaveOne(r)
  PROVE AgentInv'
<1> DEFINE rec == [replies[r] EXCEPT !.left = Tail(@)]
           A == Replies \X (1..StepCount) \X (1..CallCount)
           left == replies[r].left
           msgs == replies[r].msgs
           c == Triple(Head(left))
           Of(ctx, q) == {x \in DOMAIN ctx : ctx[x][1] = q}
<1>1. /\ replies' = [replies EXCEPT ![r] = rec] /\ context' = Append(context, c)
      /\ replies[r].at = "saving" /\ left # <<>> /\ UNCHANGED <<asked, snapshot, seeded, seeds>>
  BY DEF SaveOne, Triple
<1>2. /\ replies[r] \in ReplyRows /\ context \in Seq(A) /\ left \in Seq(Messages)
      /\ msgs \in Seq(Messages) /\ DOMAIN replies = Replies
  BY AgentRows DEF ReplyRows, AgentInv, AgentShared
<1>3. /\ Tail(left) \in Seq(Messages) /\ Len(Tail(left)) = Len(left) - 1 /\ Head(left) = left[1]
      /\ \A i \in 1..Len(Tail(left)) : Tail(left)[i] = left[i + 1]
      /\ Len(left) \in Nat /\ Len(left) >= 1 /\ Len(msgs) \in Nat
  BY <1>1, <1>2, HeadTailProperties
<1>4. /\ rec \in ReplyRows /\ rec.at = "saving" /\ rec.step = replies[r].step
      /\ rec.msgs = msgs /\ rec.calls = replies[r].calls /\ rec.left = Tail(left)
  BY <1>1, <1>2, <1>3 DEF ReplyRows
<1>20. replies[r].left = left /\ replies[r].msgs = msgs
  OBVIOUS
<1> HIDE DEF left, msgs
<1> DEFINE k == Len(msgs) - Len(left)
<1>5. /\ Len(left) <= Len(msgs) /\ k \in Nat /\ k + 1 \in 1..Len(msgs) /\ 1 \in 1..Len(left)
      /\ left[1] = msgs[k + 1] /\ msgs[k + 1].kind = "result"
      /\ \A i \in 1..Len(left) : left[i] = msgs[k + i]
      /\ \A i \in 1..Len(msgs) : msgs[i].kind = "result"
  <2>1. LeftFine(replies[r])
    BY AgentRows
  <2>2. /\ Len(left) <= Len(msgs) /\ \A i \in 1..Len(left) : left[i] = msgs[k + i]
        /\ \A i \in 1..Len(msgs) : msgs[i].kind = "result"
    BY <1>1, <1>20, <2>1 DEF LeftFine
  <2>3. k \in Nat /\ k + 1 \in 1..Len(msgs) /\ 1 \in 1..Len(left)
    <3>1. \A x, y \in Nat : 1 <= y /\ y <= x => x - y \in Nat /\ (x - y) + 1 \in 1..x /\ 1 \in 1..y
      OBVIOUS
    <3> QED BY <1>3, <2>2, <3>1
  <2> QED BY <1>3, <2>2, <2>3
<1>6. c \in A /\ c[1] = r /\ c = Triple(msgs[k + 1])
  <2>1. /\ msgs[k + 1].of = r /\ msgs[k + 1].step >= 1 /\ msgs[k + 1].call >= 1
        /\ msgs[k + 1] \in Messages
    <3>1. MsgsOwn(r, replies[r].msgs, replies[r].step)
      BY AgentRows
    <3>2. MsgsOwn(r, msgs, replies[r].step)
      BY <1>20, <3>1
    <3>3. \A i \in 1..Len(msgs) : msgs[i].of = r /\ (msgs[i].kind = "result" => msgs[i].step >= 1 /\ msgs[i].call >= 1)
      BY <3>2 DEF MsgsOwn
    <3>4. k + 1 \in 1..Len(msgs) /\ msgs[k + 1].kind = "result"
      BY <1>5
    <3>5. msgs[k + 1].of = r /\ msgs[k + 1].step >= 1 /\ msgs[k + 1].call >= 1
      BY <3>3, <3>4, Zenon
    <3>6. msgs[k + 1] \in Messages
      BY <1>2, <3>4
    <3> QED BY <3>5, <3>6
  <2>2. msgs[k + 1].step \in 1..StepCount /\ msgs[k + 1].call \in 1..CallCount
    <3>1. msgs[k + 1].step \in 0..StepCount /\ msgs[k + 1].call \in 0..CallCount
      BY <2>1 DEF Messages
    <3>2. StepCount \in Nat /\ CallCount \in Nat
      BY AgentAssumption
    <3> QED BY <2>1, <3>1, <3>2
  <2> QED BY <1>3, <1>5, <2>1, <2>2 DEF Triple
<1> HIDE DEF rec, c, A
<1>7. /\ context' \in Seq(A) /\ Len(context') = Len(context) + 1 /\ context'[Len(context) + 1] = c
      /\ \A x \in 1..Len(context) : context'[x] = context[x]
      /\ Len(context) \in Nat /\ DOMAIN context = 1..Len(context) /\ DOMAIN context' = 1..(Len(context) + 1)
  BY <1>1, <1>2, <1>6, AppendProperties
<1>8. ReplyFine(r, rec)
  <2>1. MsgsOwn(r, replies[r].msgs, replies[r].step) /\ Len(replies[r].calls) <= CallCount
    BY AgentRows
  <2>2. MsgsOwn(r, rec.msgs, rec.step)
    BY <1>4, <1>20, <2>1
  <2>3. StepFine(rec)
    BY <1>4 DEF StepFine
  <2>4. LeftFine(rec)
    <3>1. Len(rec.left) <= Len(rec.msgs)
      BY <1>3, <1>4, <1>5
    <3>2. ASSUME NEW i \in 1..Len(rec.left)
          PROVE rec.left[i] = rec.msgs[Len(rec.msgs) - Len(rec.left) + i]
      <4>1. i + 1 \in 1..Len(left) /\ Len(rec.msgs) - Len(rec.left) + i = k + (i + 1)
        <5>1. i \in 1..(Len(left) - 1) /\ Len(rec.left) = Len(left) - 1 /\ Len(rec.msgs) = Len(msgs)
          BY <1>3, <1>4
        <5>2. \A x, y \in Nat : i \in 1..(y - 1) => i + 1 \in 1..y /\ x - (y - 1) + i = x - y + (i + 1)
          OBVIOUS
        <5> QED BY <1>3, <5>1, <5>2 DEF k
      <4> QED BY <1>3, <1>4, <1>5, <4>1
    <3> QED BY <1>4, <1>5, <3>1, <3>2 DEF LeftFine
  <2> QED BY <1>4, <2>1, <2>2, <2>3, <2>4 DEF ReplyFine
<1>9. ASSUME NEW q \in Replies
      PROVE Pick(context', Of(context', q))
              = IF q = r THEN Append(Pick(context, Of(context, q)), c) ELSE Pick(context, Of(context, q))
  <2>1. \A i \in 1..Len(context) : i \in Of(context, q) <=> i \in Of(context', q)
    BY <1>7
  <2>2. Len(context) + 1 \in Of(context', q) <=> q = r
    <3>1. Len(context) + 1 \in DOMAIN context'
      BY <1>7
    <3> QED BY <1>6, <1>7, <3>1
  <2> DEFINE P == Of(context, q)
             Q == Of(context', q)
  <2> HIDE DEF P, Q, Of
  <2>3. \A i \in 1..Len(context) : i \in P <=> i \in Q
    BY <2>1 DEF P, Q
  <2>5. c \in A /\ context \in Seq(A)
    BY <1>2, <1>6
  <2>4. Pick(Append(context, c), Q) = IF Len(context) + 1 \in Q THEN Append(Pick(context, P), c) ELSE Pick(context, P)
    BY <2>3, <2>5, PickAppend
  <2> QED BY <1>1, <2>2, <2>4 DEF P, Q
<1>10. KeptRight(r, rec, context')
  <2>1. Pick(context, Of(context, r)) = [i \in 1..k |-> Triple(msgs[i])]
    <3>1. KeptRight(r, replies[r], context)
      BY AgentRows
    <3> QED BY <1>1, <1>20, <3>1 DEF KeptRight
  <2>2. Pick(context', Of(context', r)) = Append([i \in 1..k |-> Triple(msgs[i])], c)
    BY <1>9, <2>1
  <2>3. Append([i \in 1..k |-> Triple(msgs[i])], c) = [i \in 1..(k + 1) |-> Triple(msgs[i])]
    <3> HIDE DEF k
    <3> DEFINE T == {Triple(m) : m \in Messages}
               f == [i \in 1..k |-> Triple(msgs[i])]
               g == [i \in 1..(k + 1) |-> Triple(msgs[i])]
    <3>1. \A i \in 1..(k + 1) : msgs[i] \in Messages
      BY <1>2, <1>3, <1>5
    <3>0. /\ k \in Nat /\ k + 1 \in Nat /\ k + 1 \in 1..(k + 1)
          /\ \A i \in 1..k : i \in 1..(k + 1)
      BY <1>5
    <3>9. \A i \in 1..(k + 1) : Triple(msgs[i]) \in T
      BY <3>1
    <3>2. f \in Seq(T) /\ g \in Seq(T) /\ Len(f) = k /\ Len(g) = k + 1
      <4> HIDE DEF T
      <4>1. \A i \in 1..k : Triple(msgs[i]) \in T
        BY <3>0, <3>9
      <4> QED BY <3>0, <3>9, <4>1
    <3>3. c \in T
      BY <1>6, <3>0, <3>9
    <3>4. \A i \in 1..k : f[i] = g[i] /\ i \in 1..(k + 1)
      BY <3>0
    <3>5. g[k + 1] = c
      BY <1>6, <3>0
    <3> HIDE DEF f, g, T
    <3>6. Append(f, c) \in Seq(T) /\ Len(Append(f, c)) = k + 1
          /\ \A i \in 1..(k + 1) : Append(f, c)[i] = g[i]
      <4>1. \A i \in 1..(k + 1) : i \in 1..k \/ i = k + 1
        BY <1>5
      <4>2. /\ Append(f, c) \in Seq(T) /\ Len(Append(f, c)) = k + 1
            /\ \A i \in 1..k : Append(f, c)[i] = f[i]
            /\ Append(f, c)[k + 1] = c
        BY <3>2, <3>3, AppendProperties
      <4> QED BY <3>4, <3>5, <4>1, <4>2
    <3>7. Append(f, c) = g
      BY <3>2, <3>6, SeqEqual
    <3> QED BY <3>7 DEF f, g
  <2>4. Len(rec.msgs) - Len(rec.left) = k + 1 /\ rec.msgs = msgs
    <3>1. Len(rec.msgs) - Len(rec.left) = Len(msgs) - (Len(left) - 1)
      BY <1>3, <1>4
    <3> QED BY <1>3, <1>4, <3>1
  <2>5. Pick(context', {x \in DOMAIN context' : context'[x][1] = r})
          = [i \in 1..(Len(rec.msgs) - Len(rec.left)) |-> Triple(rec.msgs[i])]
    BY <2>2, <2>3, <2>4
  <2> QED BY <1>4, <2>5 DEF KeptRight, Unsaved
<1>11. ASSUME NEW q \in Replies, q # r PROVE KeptRight(q, replies[q], context')
  <2>1. KeptRight(q, replies[q], context)
    BY AgentRows
  <2>2. Pick(context', Of(context', q)) = Pick(context, Of(context, q))
    BY <1>9, <1>11
  <2>3. (\A x \in 1..Len(context) : context[x][1] # q) => \A x \in 1..Len(context') : context'[x][1] # q
    <3>1. \A x \in 1..Len(context') : x \in 1..Len(context) \/ x = Len(context) + 1
      BY <1>7
    <3> QED BY <1>6, <1>7, <1>11, <3>1
  <2> QED BY <2>1, <2>2, <2>3 DEF KeptRight
<1>12. /\ DOMAIN replies' = Replies /\ replies'[r] = rec
       /\ \A q \in Replies \ {r} : replies'[q] = replies[q]
  BY <1>1, <1>2
<1>13. AgentShared'
  <2>1. AgentShared
    BY DEF AgentInv
  <2>2. OneAtATime' /\ SeedsFine'
    <3>1. \A q \in Replies : replies'[q].at = replies[q].at /\ replies'[q].step = replies[q].step
      BY <1>1, <1>4, <1>12
    <3> QED BY <1>1, <2>1, <3>1 DEF AgentShared, OneAtATime, SeedsFine, Over
  <2> QED BY <1>1, <1>7, <2>1, <2>2 DEF AgentShared, A
<1>14. ASSUME NEW q \in Replies PROVE ReplyFine(q, replies'[q]) /\ KeptRight(q, replies'[q], context')
  <2>1. CASE q = r
    BY <1>8, <1>10, <1>12, <2>1
  <2>2. CASE q # r
    BY <1>11, <1>12, <2>2 DEF AgentInv
  <2> QED BY <2>1, <2>2
<1>15. replies' \in [Replies -> ReplyRows]
  BY <1>1, <1>2, <1>4 DEF AgentInv
<1> QED BY <1>12, <1>13, <1>14, <1>15 DEF AgentInv

LEMMA InterruptKeeps ==
  ASSUME AgentInv, NEW r \in Replies, Interrupt(r)
  PROVE AgentInv'
<1>1. /\ asked' = [asked EXCEPT ![r] = TRUE]
      /\ UNCHANGED <<replies, snapshot, seeded, seeds, context>>
  BY DEF Interrupt
<1>2. asked' \in [Replies -> BOOLEAN]
  BY <1>1 DEF AgentInv, AgentShared
<1>3. OneAtATime' /\ SeedsFine'
  BY <1>1 DEF AgentInv, AgentShared, OneAtATime, SeedsFine, Over
<1> QED BY <1>1, <1>2, <1>3 DEF AgentInv, AgentShared

LEMMA AgentBegins == AgentInit => AgentInv
<1> SUFFICES ASSUME AgentInit PROVE AgentInv
  OBVIOUS
<1>1. DOMAIN replies = Replies /\ \A r \in Replies : replies[r] = Idle
  BY DEF AgentInit
<1>2. <<>> \in Seq(Messages) /\ <<>> \in Seq({"waits", "runs", "ok", "injects", "fails"})
      /\ <<>> \in Seq(Replies \X (1..StepCount) \X (1..CallCount))
  OBVIOUS
<1>3. Idle \in ReplyRows /\ Idle.at = "idle" /\ Idle.step = 0 /\ Idle.msgs = <<>> /\ Idle.calls = <<>>
  <2>1. 0 \in 0..StepCount
    BY AgentAssumption
  <2> QED BY <1>2, <2>1 DEF Idle, ReplyRows
<1>4. ASSUME NEW r \in Replies PROVE ReplyFine(r, replies[r]) /\ KeptRight(r, replies[r], context)
  <2>1. Len(Idle.calls) <= CallCount
    BY <1>3, AgentAssumption
  <2>2. ReplyFine(r, Idle)
    BY <1>3, <2>1, FreshRow
  <2>3. Len(context) = 0
    BY DEF AgentInit
  <2>4. KeptRight(r, Idle, context)
    BY <1>3, <2>3 DEF KeptRight
  <2> QED BY <1>1, <2>2, <2>4
<1>5. AgentShared
  <2>1. OneAtATime
    BY <1>1, <1>3 DEF OneAtATime
  <2>2. SeedsFine
    BY <1>1, <1>3 DEF SeedsFine, AgentInit
  <2> QED BY <1>2, <2>1, <2>2 DEF AgentInit, AgentShared
<1>6. replies \in [Replies -> ReplyRows]
  BY <1>3 DEF AgentInit
<1> QED BY <1>4, <1>5, <1>6 DEF AgentInv

LEMMA AgentKeeps == AgentInv /\ [AgentNext]_agentVars => AgentInv'
<1> SUFFICES ASSUME AgentInv, [AgentNext]_agentVars PROVE AgentInv'
  OBVIOUS
<1>1. ASSUME NEW r \in Replies, ReplySteps(r) PROVE AgentInv'
  <2>1. CASE StreamFails(r)
    <3>1. Live(r)
      BY <2>1 DEF StreamFails, Live, Over
    <3> QED BY <2>1, <3>1, StreamFailsKeeps DEF StreamFails
  <2> QED BY <1>1, <2>1, ReplyBeginsKeeps, LoadedKeeps, SeededKeeps, AskLlmKeeps, NeverExhausted,
             InterruptedKeeps, TextKeeps, CallAskedKeeps, StreamEndsKeeps, CallsMadeKeeps,
             ToolsDoneKeeps, SaveOneKeeps, SaveFailsKeeps, SavedKeeps DEF ReplySteps
<1>2. ASSUME NEW r \in Replies, Cancel(r) PROVE AgentInv'
  BY <1>2, StreamFailsKeeps DEF Cancel
<1>3. CASE UNCHANGED agentVars
  <2>1. UNCHANGED <<replies, asked, snapshot, seeded, seeds, context>>
    BY <1>3 DEF agentVars
  <2>2. OneAtATime' /\ SeedsFine'
    BY <2>1 DEF AgentInv, AgentShared, OneAtATime, SeedsFine, Over
  <2> QED BY <2>1, <2>2 DEF AgentInv, AgentShared
<1> QED BY <1>1, <1>2, <1>3, InterruptKeeps, ToolStepsKeep DEF AgentNext

LEMMA AgentIsRight == AgentSpec => []AgentInv
BY AgentBegins, AgentKeeps, PTL DEF AgentSpec

(* Every reply, message and result is of its type: runner.py, agent.py.    *)
THEOREM AgentTypes == AgentSpec => []AgentTypeOK
<1>1. AgentInv => AgentTypeOK
  <2> SUFFICES ASSUME AgentInv PROVE AgentTypeOK
    OBVIOUS
  <2>1. replies \in [Replies -> ReplyRows]
    BY DEF AgentInv
  <2>2. seeds \in 0..ReplyCount
    <3>1. seeds \in {0, 1}
      BY DEF AgentInv, AgentShared, SeedsFine
    <3> QED BY <3>1, AgentAssumption
  <2> QED BY <2>1, <2>2 DEF AgentInv, AgentShared, AgentTypeOK
<1> QED BY <1>1, AgentIsRight, PTL

(* What the LLM is sent has one result for every call it made, in order,   *)
(* however the tools ended and whoever was cut off before                  *)
(* (runner.py:186-203).                                                    *)
THEOREM CallsAreAnswered == AgentSpec => []CallsAnswered
<1>1. AgentInv => CallsAnswered
  <2> SUFFICES ASSUME AgentInv, NEW r \in Replies, replies[r].at = "streaming",
                      NEW k \in DOMAIN replies[r].msgs, replies[r].msgs[k].kind = "calls"
               PROVE OneResultEach(replies[r].msgs, k)
    BY DEF CallsAnswered
  <2>1. StepFine(replies[r]) /\ k \in 1..Len(replies[r].msgs)
    BY AgentRows DEF ReplyRows
  <2> QED BY <2>1 DEF StepFine
<1> QED BY <1>1, AgentIsRight, PTL

(* The conversation has the tool results of a reply that is done, in order *)
(* and once, and the session information was persisted once before any LLM *)
(* was asked (agent.py:169-186, 273-282, 507-534).                         *)
THEOREM RepliesAreRemembered == AgentSpec => []RepliesRemembered
<1>1. AgentInv => ToolsRemembered
  <2> SUFFICES ASSUME AgentInv, NEW r \in Replies, replies[r].at = "done"
               PROVE KeptOf(r) = [i \in DOMAIN replies[r].msgs |->
                                    <<r, replies[r].msgs[i].step, replies[r].msgs[i].call>>]
    BY DEF ToolsRemembered
  <2> DEFINE s == replies[r].msgs
  <2>1. /\ s \in Seq(Messages) /\ Len(replies[r].left) = 0 /\ MsgsOwn(r, s, replies[r].step)
        /\ KeptRight(r, replies[r], context)
    BY AgentRows DEF ReplyRows, LeftFine
  <2>2. KeptOf(r) = [i \in 1..(Len(s) - Len(replies[r].left)) |-> Triple(s[i])]
    BY <2>1 DEF KeptRight, KeptOf
  <2>3. DOMAIN s = 1..Len(s) /\ Len(s) - Len(replies[r].left) = Len(s)
    BY <2>1
  <2>4. \A i \in 1..Len(s) : s[i].of = r
    BY <2>1 DEF MsgsOwn
  <2>5. \A i \in 1..Len(s) : Triple(s[i]) = <<r, s[i].step, s[i].call>>
    BY <2>4 DEF Triple
  <2> HIDE DEF s
  <2>6. [i \in DOMAIN s |-> Triple(s[i])] = [i \in DOMAIN s |-> <<r, s[i].step, s[i].call>>]
    BY <2>3, <2>5
  <2> QED BY <2>2, <2>3, <2>6 DEF s
<1>2. AgentInv => SeededOnce
  BY DEF AgentInv, AgentShared, SeedsFine, SeededOnce
<1> QED BY <1>1, <1>2, AgentIsRight, PTL DEF RepliesRemembered

-----------------------------------------------------------------------------
(* The stored audio (TurnAudio): its types.                                *)

TypedRows ==
  [at : {"none", "open", "closing", "stored"}, input : SUBSET Frames, listen : SUBSET Frames,
   start : 0..MicCount]

LEMMA AudioNumbers ==
  MicCount \in Nat /\ RowCount \in Nat /\ BufCap \in Nat /\ BufCap >= 1
BY AudioAssumption

LEMMA NoAudioTyped == NoAudio \in TypedRows
BY AudioNumbers DEF NoAudio, TypedRows

(* A buffer that is full drops its oldest frame, and has others.           *)
LEMMA CappedFits ==
  ASSUME NEW buf \in SUBSET Nat, IsFiniteSet(buf), Cardinality(buf) <= BufCap + 1
  PROVE /\ Capped(buf) \in SUBSET buf /\ Cardinality(Capped(buf)) <= BufCap
        /\ buf # {} => Capped(buf) # {}
        /\ Cardinality(Capped(buf)) < BufCap => Capped(buf) = buf
        /\ \A i \in Capped(buf) : \A j \in buf : i <= j => j \in Capped(buf)
<1>1. Cardinality(buf) \in Nat
  BY FS_CardinalityType
<1>2. CASE Cardinality(buf) > BufCap
  <2>1. buf # {}
    BY <1>2, AudioNumbers, FS_EmptySet
  <2>2. PICK m \in buf : \A n \in buf : m <= n
    BY <2>1, Least
  <2>3. Min(buf) \in buf /\ \A n \in buf : Min(buf) <= n
    BY <2>2 DEF Min
  <2>4. Cardinality(buf \ {Min(buf)}) = Cardinality(buf) - 1
    BY <2>3, FS_RemoveElement
  <2>5. Capped(buf) = buf \ {Min(buf)}
    BY <1>2 DEF Capped
  <2>6. Cardinality(Capped(buf)) = BufCap
    BY <1>1, <1>2, <2>4, <2>5, AudioNumbers
  <2>7. Capped(buf) # {}
    BY <2>6, AudioNumbers, FS_EmptySet
  <2>8. \A i \in Capped(buf) : \A j \in buf : i <= j => j \in Capped(buf)
    <3> SUFFICES ASSUME NEW i \in Capped(buf), NEW j \in buf, i <= j, j = Min(buf) PROVE FALSE
      BY <2>5
    <3>1. i \in buf /\ i # j /\ j <= i /\ i \in Nat /\ j \in Nat
      BY <2>3, <2>5
    <3> QED BY <3>1
  <2> QED BY <2>5, <2>6, <2>7, <2>8, AudioNumbers
<1>3. CASE ~(Cardinality(buf) > BufCap)
  BY <1>1, <1>3, AudioNumbers DEF Capped
<1> QED BY <1>2, <1>3

LEMMA AudioTyped ==
  ASSUME AudioTypeOK
  PROVE /\ heard \in 0..MicCount /\ heard \in Nat
        /\ echo \in SUBSET (1..heard) /\ turnBuf \in SUBSET (1..heard) /\ gapBuf \in SUBSET (1..heard)
        /\ turnBuf \in SUBSET Frames /\ gapBuf \in SUBSET Frames /\ turnBuf \in SUBSET Nat
        /\ Cardinality(turnBuf) <= BufCap /\ IsFiniteSet(turnBuf)
        /\ ended \in BOOLEAN /\ openRow \in AudioRows \cup {0}
        /\ speaking \in [now : BOOLEAN, last : BOOLEAN] /\ talk \in [active : BOOLEAN, text : BOOLEAN]
        /\ window \in [start : 0..MicCount, pending : 0..MicCount]
        /\ audioRows \in [AudioRows -> TypedRows]
<1>1. heard \in 0..MicCount /\ MicCount \in Nat
  BY AudioNumbers DEF AudioTypeOK
<1>2. \A S : S \in SUBSET (1..heard) => S \in SUBSET Frames /\ S \in SUBSET Nat
  BY <1>1 DEF Frames
<1>3. turnBuf \in SUBSET (1..heard) /\ gapBuf \in SUBSET (1..heard) /\ echo \in SUBSET (1..heard)
  BY DEF AudioTypeOK
<1>4. IsFiniteSet(1..heard)
  BY <1>1, FS_Interval
<1>5. IsFiniteSet(turnBuf)
  BY <1>3, <1>4, FS_Subset
<1>6. audioRows \in [AudioRows -> TypedRows]
  BY DEF AudioTypeOK, TypedRows
<1>7. /\ Cardinality(turnBuf) <= BufCap
      /\ ended \in BOOLEAN /\ openRow \in AudioRows \cup {0}
      /\ speaking \in [now : BOOLEAN, last : BOOLEAN] /\ talk \in [active : BOOLEAN, text : BOOLEAN]
      /\ window \in [start : 0..MicCount, pending : 0..MicCount]
  BY DEF AudioTypeOK
<1>8. heard \in Nat
  BY <1>1
<1>9. turnBuf \in SUBSET Frames /\ gapBuf \in SUBSET Frames /\ turnBuf \in SUBSET Nat
  BY <1>2, <1>3
<1> QED BY <1>1, <1>3, <1>5, <1>6, <1>7, <1>8, <1>9, Zenon

LEMMA RowOf ==
  ASSUME NEW r \in TypedRows, NEW at \in {"none", "open", "closing", "stored"},
         NEW frames \in SUBSET Frames
  PROVE  /\ [r EXCEPT !.at = at] \in TypedRows
         /\ [r EXCEPT !.at = at].input = r.input /\ [r EXCEPT !.at = at].start = r.start
         /\ [r EXCEPT !.at = at].listen = r.listen
         /\ [r EXCEPT !.at = at, !.listen = frames] \in TypedRows
         /\ [r EXCEPT !.at = at, !.listen = frames].input = r.input
         /\ [r EXCEPT !.at = at, !.listen = frames].start = r.start
         /\ [r EXCEPT !.at = at, !.listen = frames].listen = frames
BY DEF TypedRows

(* The row that was open is swept before the next one begins.              *)
LEMMA SweptTyped ==
  ASSUME AudioTypeOK
  PROVE  /\ SweptRows \in [AudioRows -> TypedRows]
         /\ \A u \in AudioRows :
              /\ SweptRows[u].input = audioRows[u].input /\ SweptRows[u].start = audioRows[u].start
              /\ SweptRows[u].listen \in {audioRows[u].listen, gapBuf}
<1>0. audioRows \in [AudioRows -> TypedRows] /\ gapBuf \in SUBSET Frames
  BY AudioTyped
<1>1. CASE openRow = 0
  BY <1>0, <1>1 DEF SweptRows
<1>2. CASE openRow # 0
  <2> DEFINE row == [audioRows[openRow] EXCEPT !.at = "closing", !.listen = gapBuf]
  <2>1. openRow \in AudioRows /\ audioRows[openRow] \in TypedRows
    BY <1>2, AudioTyped
  <2>2. /\ row \in TypedRows /\ row.input = audioRows[openRow].input
        /\ row.start = audioRows[openRow].start /\ row.listen = gapBuf
    BY <1>0, <2>1, RowOf
  <2>3. SweptRows = [audioRows EXCEPT ![openRow] = row]
    BY <1>2 DEF SweptRows
  <2> HIDE DEF row
  <2> QED BY <1>0, <2>1, <2>2, <2>3
<1> QED BY <1>1, <1>2

(* Only the rows and what goes with them may change.                       *)
LEMMA RowsTyped ==
  ASSUME AudioTypeOK, audioRows' \in [AudioRows -> TypedRows], openRow' \in AudioRows \cup {0},
         UNCHANGED <<heard, echo>>, speaking' \in [now : BOOLEAN, last : BOOLEAN],
         turnBuf' \in {turnBuf, {}}, gapBuf' \in {gapBuf, {}},
         ended' \in BOOLEAN, talk' \in [active : BOOLEAN, text : BOOLEAN],
         window' \in [start : 0..MicCount, pending : 0..MicCount]
  PROVE AudioTypeOK'
<1>1. turnBuf' \in SUBSET (1..heard) /\ gapBuf' \in SUBSET (1..heard)
  BY AudioTyped
<1>2. Cardinality(turnBuf') <= BufCap
  <2>1. CASE turnBuf' = turnBuf
    BY <2>1, AudioTyped
  <2>2. CASE turnBuf' = {}
    <3>1. Cardinality(turnBuf') = 0
      BY <2>2, FS_EmptySet, Zenon
    <3> QED BY <3>1, AudioNumbers
  <2> QED BY <2>1, <2>2
<1> QED BY <1>1, <1>2, AudioTyped DEF AudioTypeOK, TypedRows

(* What a frame of the microphone does to the buffers: what it keeps and   *)
(* moves, and the window.                                                  *)
LEMMA MicMoves ==
  ASSUME AudioTypeOK, Mic
  PROVE  \E kept, gap, pend :
    /\ kept = IF Moved THEN {} ELSE turnBuf
    /\ gap = IF Moved THEN gapBuf \cup turnBuf ELSE gapBuf
    /\ pend = IF ReplyOver THEN heard + 1 ELSE window.pending
    /\ heard < MicCount /\ heard + 1 \in 1..MicCount /\ heard' = heard + 1
    /\ kept \cup {heard + 1} \in SUBSET (1..heard') /\ kept \in SUBSET (1..heard)
    /\ IsFiniteSet(kept) /\ IsFiniteSet(kept \cup {heard + 1})
    /\ Cardinality(kept) <= BufCap /\ Cardinality(kept) < Cardinality(kept \cup {heard + 1})
    /\ Cardinality(kept \cup {heard + 1}) <= BufCap + 1
    /\ pend \in 0..MicCount
    /\ echo' = IF speaking.now THEN echo \cup {heard + 1} ELSE echo
    /\ speaking' = [speaking EXCEPT !.last = speaking.now]
    /\ turnBuf' = IF speaking.now THEN kept ELSE Capped(kept \cup {heard + 1})
    /\ gapBuf' = IF speaking.now THEN Capped(gap \cup {heard + 1}) ELSE gap
    /\ window' = [start |-> IF ~speaking.now /\ kept = {} THEN pend ELSE window.start, pending |-> pend]
    /\ talk' \in {talk, [talk EXCEPT !.text = FALSE]}
    /\ ~ended /\ UNCHANGED <<audioRows, openRow, ended>>
<1> DEFINE id == heard + 1
           kept == IF Moved THEN {} ELSE turnBuf
           gap == IF Moved THEN gapBuf \cup turnBuf ELSE gapBuf
           pend == IF ReplyOver THEN id ELSE window.pending
<1>1. /\ ~ended /\ heard < MicCount /\ heard' = id
      /\ echo' = IF speaking.now THEN echo \cup {id} ELSE echo
      /\ speaking' = [speaking EXCEPT !.last = speaking.now]
      /\ turnBuf' = IF speaking.now THEN kept ELSE Capped(kept \cup {id})
      /\ gapBuf' = IF speaking.now THEN Capped(gap \cup {id}) ELSE gap
      /\ window' = [start |-> IF ~speaking.now /\ kept = {} THEN pend ELSE window.start, pending |-> pend]
      /\ talk' \in {talk, [talk EXCEPT !.text = FALSE]}
      /\ UNCHANGED <<audioRows, openRow, ended>>
  BY DEF Mic
<1>2. heard \in Nat /\ MicCount \in Nat /\ heard \in 0..MicCount
  BY AudioTyped, AudioNumbers
<1>3. id \in 1..MicCount /\ id \notin 1..heard /\ pend \in 0..MicCount
  BY <1>1, <1>2, AudioTyped
<1>4. \A S \in SUBSET (1..heard) : S \cup {id} \in SUBSET (1..id)
  BY <1>2
<1>5. kept \in SUBSET (1..heard) /\ Cardinality(kept) <= BufCap /\ IsFiniteSet(kept)
  BY AudioTyped, AudioNumbers, FS_EmptySet
<1>6. id \notin kept /\ Cardinality(kept) \in Nat
  BY <1>3, <1>5, FS_CardinalityType
<1> HIDE DEF kept
<1>7. IsFiniteSet(kept \cup {id}) /\ Cardinality(kept \cup {id}) = Cardinality(kept) + 1
  BY <1>5, <1>6, FS_AddElement
<1>8. /\ Cardinality(kept) < Cardinality(kept \cup {id})
      /\ Cardinality(kept \cup {id}) <= BufCap + 1
  BY <1>5, <1>6, <1>7, AudioNumbers
<1>9. kept \cup {id} \in SUBSET (1..heard')
  BY <1>1, <1>4, <1>5
<1>10. /\ kept = IF Moved THEN {} ELSE turnBuf
       /\ gap = IF Moved THEN gapBuf \cup turnBuf ELSE gapBuf
       /\ pend = IF ReplyOver THEN id ELSE window.pending
  BY DEF kept
<1> HIDE DEF id, gap, pend
<1>11. \E k, g, p :
    /\ k = IF Moved THEN {} ELSE turnBuf
    /\ g = IF Moved THEN gapBuf \cup turnBuf ELSE gapBuf
    /\ p = IF ReplyOver THEN id ELSE window.pending
    /\ heard < MicCount /\ id \in 1..MicCount /\ heard' = id
    /\ k \cup {id} \in SUBSET (1..heard') /\ k \in SUBSET (1..heard)
    /\ IsFiniteSet(k) /\ IsFiniteSet(k \cup {id})
    /\ Cardinality(k) <= BufCap /\ Cardinality(k) < Cardinality(k \cup {id})
    /\ Cardinality(k \cup {id}) <= BufCap + 1
    /\ p \in 0..MicCount
    /\ echo' = IF speaking.now THEN echo \cup {id} ELSE echo
    /\ speaking' = [speaking EXCEPT !.last = speaking.now]
    /\ turnBuf' = IF speaking.now THEN k ELSE Capped(k \cup {id})
    /\ gapBuf' = IF speaking.now THEN Capped(g \cup {id}) ELSE g
    /\ window' = [start |-> IF ~speaking.now /\ k = {} THEN p ELSE window.start, pending |-> p]
    /\ talk' \in {talk, [talk EXCEPT !.text = FALSE]}
    /\ ~ended /\ UNCHANGED <<audioRows, openRow, ended>>
  <2> WITNESS kept, gap, pend
  <2> QED BY <1>1, <1>3, <1>5, <1>7, <1>8, <1>9, <1>10
<1> QED BY <1>11 DEF id
LEMMA MicTyped == ASSUME AudioTypeOK, Mic PROVE AudioTypeOK'
<1>1. PICK kept, gap, pend :
    /\ gap = IF Moved THEN gapBuf \cup turnBuf ELSE gapBuf
    /\ heard < MicCount /\ heard + 1 \in 1..MicCount /\ heard' = heard + 1
    /\ kept \cup {heard + 1} \in SUBSET (1..heard') /\ kept \in SUBSET (1..heard)
    /\ IsFiniteSet(kept \cup {heard + 1}) /\ Cardinality(kept) <= BufCap
    /\ Cardinality(kept \cup {heard + 1}) <= BufCap + 1
    /\ pend \in 0..MicCount
    /\ echo' = IF speaking.now THEN echo \cup {heard + 1} ELSE echo
    /\ speaking' = [speaking EXCEPT !.last = speaking.now]
    /\ turnBuf' = IF speaking.now THEN kept ELSE Capped(kept \cup {heard + 1})
    /\ gapBuf' = IF speaking.now THEN Capped(gap \cup {heard + 1}) ELSE gap
    /\ window' = [start |-> IF ~speaking.now /\ kept = {} THEN pend ELSE window.start, pending |-> pend]
    /\ talk' \in {talk, [talk EXCEPT !.text = FALSE]}
    /\ UNCHANGED <<audioRows, openRow, ended>>
  BY MicMoves
<1>2. heard \in Nat /\ 1..heard \subseteq 1..heard' /\ heard' \in 1..heard' /\ heard' \in 0..MicCount
  BY <1>1, AudioTyped, AudioNumbers
<1>3. turnBuf' \in SUBSET (1..heard') /\ Cardinality(turnBuf') <= BufCap
  <2>1. kept \cup {heard + 1} \in SUBSET Nat
    BY <1>1, <1>2
  <2>2. Capped(kept \cup {heard + 1}) \in SUBSET (1..heard') /\ Cardinality(Capped(kept \cup {heard + 1})) <= BufCap
    BY <1>1, <2>1, CappedFits
  <2> QED BY <1>1, <1>2, <2>2
<1>4. gapBuf' \in SUBSET (1..heard')
  <2>1. gap \in SUBSET (1..heard') /\ gap \cup {heard + 1} \in SUBSET (1..heard')
    BY <1>1, <1>2, AudioTyped
  <2>2. Capped(gap \cup {heard + 1}) \in SUBSET (gap \cup {heard + 1})
    BY DEF Capped
  <2> QED BY <1>1, <2>1, <2>2
<1>5. echo' \in SUBSET (1..heard')
  BY <1>1, <1>2, AudioTyped
<1>6. /\ speaking' \in [now : BOOLEAN, last : BOOLEAN] /\ talk' \in [active : BOOLEAN, text : BOOLEAN]
      /\ window' \in [start : 0..MicCount, pending : 0..MicCount]
  BY <1>1, AudioTyped
<1>7. ended' \in BOOLEAN /\ openRow' \in AudioRows \cup {0} /\ audioRows' \in [AudioRows -> TypedRows]
  BY <1>1, AudioTyped
<1> QED BY <1>2, <1>3, <1>4, <1>5, <1>6, <1>7 DEF AudioTypeOK, TypedRows

(* The row a turn begins: with the user's words, or a wake word's.         *)
LEMMA RowBegins ==
  ASSUME NEW frames \in SUBSET Frames, NEW start \in 0..MicCount
  PROVE  /\ [NoAudio EXCEPT !.at = "open", !.input = frames, !.start = start] \in TypedRows
         /\ [NoAudio EXCEPT !.at = "open", !.input = frames, !.start = start].input = frames
         /\ [NoAudio EXCEPT !.at = "open", !.input = frames, !.start = start].start = start
         /\ [NoAudio EXCEPT !.at = "open", !.input = frames, !.start = start].listen = {}
         /\ [NoAudio EXCEPT !.at = "open", !.start = start] \in TypedRows
         /\ [NoAudio EXCEPT !.at = "open", !.start = start].input = {}
         /\ [NoAudio EXCEPT !.at = "open", !.start = start].start = start
         /\ [NoAudio EXCEPT !.at = "open", !.start = start].listen = {}
BY NoAudioTyped DEF NoAudio, TypedRows

LEMMA AudioTypeStep == AudioTypeOK /\ [AudioNext]_audioVars => AudioTypeOK'
<1> SUFFICES ASSUME AudioTypeOK, [AudioNext]_audioVars PROVE AudioTypeOK'
  OBVIOUS
<1>1. CASE Mic
  BY <1>1, MicTyped
<1>2. CASE DeviceListens
  BY <1>2, AudioTyped, RowsTyped DEF DeviceListens
<1>3. CASE SpeakingTurns
  BY <1>3, AudioTyped, RowsTyped DEF SpeakingTurns
<1>4. CASE Transcribed
  BY <1>4, AudioTyped, RowsTyped DEF Transcribed
<1>5. CASE BlankStops
  BY <1>5, AudioTyped, SweptTyped, RowsTyped DEF BlankStops
<1>6. CASE FinalizeSession
  <2>1. audioRows' \in [AudioRows -> TypedRows]
    <3>1. CASE openRow = 0
      BY <1>6, <3>1, AudioTyped DEF FinalizeSession
    <3>2. CASE openRow # 0
      <4>1. openRow \in AudioRows /\ audioRows[openRow] \in TypedRows
        BY <3>2, AudioTyped
      <4>2. [audioRows[openRow] EXCEPT !.at = "stored", !.listen = gapBuf \cup turnBuf] \in TypedRows
        BY <4>1, AudioTyped, RowOf
      <4>3. audioRows' = [audioRows EXCEPT ![openRow] =
              [audioRows[openRow] EXCEPT !.at = "stored", !.listen = gapBuf \cup turnBuf]]
        BY <1>6, <3>2 DEF FinalizeSession
      <4> QED BY <4>2, <4>3, AudioTyped
    <3> QED BY <3>1, <3>2
  <2> QED BY <1>6, <2>1, AudioTyped, RowsTyped DEF FinalizeSession
<1>7. ASSUME NEW t \in AudioRows, UserTurnStops(t) PROVE AudioTypeOK'
  <2> DEFINE start == IF turnBuf = {} THEN heard ELSE window.start
  <2>1. /\ audioRows' = [SweptRows EXCEPT ![t] = [NoAudio EXCEPT !.at = "open", !.input = turnBuf, !.start = start]]
        /\ openRow' = t /\ gapBuf' = {} /\ turnBuf' = {}
        /\ window' = [start |-> start, pending |-> heard]
        /\ talk' = [active |-> FALSE, text |-> FALSE]
        /\ UNCHANGED <<heard, echo, speaking, ended>>
    BY <1>7 DEF UserTurnStops
  <2>2. start \in 0..MicCount
    BY AudioTyped
  <2> HIDE DEF start
  <2>3. audioRows' \in [AudioRows -> TypedRows]
    BY <2>1, <2>2, AudioTyped, RowBegins, SweptTyped
  <2>4. window' \in [start : 0..MicCount, pending : 0..MicCount] /\ talk' \in [active : BOOLEAN, text : BOOLEAN]
    BY <2>1, <2>2, AudioTyped
  <2> QED BY <2>1, <2>3, <2>4, AudioTyped, RowsTyped
<1>8. ASSUME NEW t \in AudioRows, BareWake(t) PROVE AudioTypeOK'
  <2>1. /\ audioRows' = [SweptRows EXCEPT ![t] = [NoAudio EXCEPT !.at = "open", !.start = window.start]]
        /\ openRow' = t
        /\ UNCHANGED <<heard, echo, speaking, talk, turnBuf, gapBuf, window, ended>>
    BY <1>8 DEF BareWake
  <2>2. audioRows' \in [AudioRows -> TypedRows]
    BY <2>1, AudioTyped, RowBegins, SweptTyped
  <2> QED BY <2>1, <2>2, AudioTyped, RowsTyped
<1>9. ASSUME NEW t \in AudioRows, CommitOnFinalize(t) PROVE AudioTypeOK'
  <2>1. [audioRows[t] EXCEPT !.at = "stored", !.listen = gapBuf] \in TypedRows
    BY AudioTyped, RowOf
  <2>2. audioRows' = [audioRows EXCEPT ![t] = [audioRows[t] EXCEPT !.at = "stored", !.listen = gapBuf]]
    BY <1>9 DEF CommitOnFinalize
  <2>3. audioRows' \in [AudioRows -> TypedRows]
    BY <2>1, <2>2, AudioTyped
  <2> QED BY <1>9, <2>3, AudioTyped, RowsTyped DEF CommitOnFinalize
<1>10. ASSUME NEW t \in AudioRows, CloseStorage(t) PROVE AudioTypeOK'
  <2>1. [audioRows[t] EXCEPT !.at = "stored"] \in TypedRows
    BY AudioTyped, RowOf
  <2>2. audioRows' = [audioRows EXCEPT ![t] = [audioRows[t] EXCEPT !.at = "stored"]]
    BY <1>10 DEF CloseStorage
  <2>3. audioRows' \in [AudioRows -> TypedRows]
    BY <2>1, <2>2, AudioTyped
  <2> QED BY <1>10, <2>3, AudioTyped, RowsTyped DEF CloseStorage
<1>11. CASE UNCHANGED audioVars
  BY <1>11 DEF audioVars, AudioTypeOK
<1> QED BY <1>1, <1>2, <1>3, <1>4, <1>5, <1>6, <1>7, <1>8, <1>9, <1>10, <1>11 DEF AudioNext

LEMMA AudioTypeBegins == AudioInit => AudioTypeOK
<1> SUFFICES ASSUME AudioInit PROVE AudioTypeOK
  OBVIOUS
<1>1. audioRows \in [AudioRows -> TypedRows]
  BY NoAudioTyped DEF AudioInit
<1>2. Cardinality(turnBuf) <= BufCap
  <2>1. Cardinality(turnBuf) = 0
    BY FS_EmptySet, Zenon DEF AudioInit
  <2> QED BY <2>1, AudioNumbers
<1>3. heard \in 0..MicCount
  BY AudioNumbers DEF AudioInit
<1>4. {echo, turnBuf, gapBuf} \subseteq SUBSET (1..heard)
  BY DEF AudioInit
<1>5. ended \in BOOLEAN /\ openRow \in AudioRows \cup {0}
  BY DEF AudioInit
<1>6. speaking \in [now : BOOLEAN, last : BOOLEAN] /\ talk \in [active : BOOLEAN, text : BOOLEAN]
  BY DEF AudioInit
<1>7. window \in [start : 0..MicCount, pending : 0..MicCount]
  BY AudioNumbers DEF AudioInit
<1> QED BY <1>1, <1>2, <1>3, <1>4, <1>5, <1>6, <1>7 DEF AudioTypeOK, TypedRows

(* The buffer of the coming turn keeps to its bound, and every frame a row *)
(* names was heard (turn_storage_observer.py:157-234, 384-448).            *)
THEOREM AudioTypes == AudioSpec => []AudioTypeOK
BY AudioTypeBegins, AudioTypeStep, PTL DEF AudioSpec
-----------------------------------------------------------------------------
(* The stored audio: whose it is, and when it began.                       *)

(* What a row shares with the buffers, when h frames were heard.           *)
RowApart(row, buf, gap, echoes, h, over) ==
  /\ row.input \in SUBSET (1..h) /\ row.listen \in SUBSET (1..h)
  /\ row.input \cap echoes = {} /\ row.input \cap buf = {} /\ row.input \cap gap = {}
  /\ ~over => row.listen \cap buf = {}

BuffersApart == turnBuf \cap echo = {} /\ turnBuf \cap gapBuf = {}

RowsApart == \A t \in AudioRows : RowApart(audioRows[t], turnBuf, gapBuf, echo, heard, ended)

OwnRows == \A t, u \in AudioRows :
  /\ audioRows[t].input \cap audioRows[u].listen = {}
  /\ u # t => audioRows[t].input \cap audioRows[u].input = {}

(* The frames begin at start, unless some were dropped.                    *)
Timely(buf, start) ==
  /\ \A i \in buf : start <= i
  /\ buf # {} /\ Cardinality(buf) < BufCap => \E i \in buf : i <= start + 1

(* No frame is missing but those of a reply.                               *)
Whole(buf, echoes) == \A i, k \in buf : \A j \in (i..k) \ echoes : j \in buf

AudioRowsFine == \A t \in AudioRows :
  Timely(audioRows[t].input, audioRows[t].start) /\ Whole(audioRows[t].input, echo)

(* The buffer holds all that was heard since its first frame; while it is  *)
(* empty and no reply has just ended, the next turn begins now.            *)
BufferFine ==
  /\ \A i \in turnBuf : \A j \in (i..heard) \ echo : j \in turnBuf
  /\ Timely(turnBuf, window.start)
  /\ window.pending <= heard
  /\ turnBuf = {} /\ ~speaking.last => window.pending = heard

AudioInv == AudioTypeOK /\ BuffersApart /\ RowsApart /\ OwnRows /\ AudioRowsFine /\ BufferFine

(* What a step makes of a row that is there: its listening may be replaced *)
(* by what is in the buffers.                                              *)
RowKept(r, q, over) ==
  /\ q.input = r.input /\ q.start = r.start
  /\ q.listen = r.listen \/ q.listen = gapBuf \/ (over /\ q.listen = gapBuf \cup turnBuf)

(* ... and of a row that begins: it takes the buffer, or nothing.          *)
Begun(q, left, over) ==
  /\ q.input = {} \/ (q.input = turnBuf /\ left = {} /\ ~over)
  /\ q.listen = {} /\ Timely(q.input, q.start)

LEMMA RowsChange ==
  ASSUME AudioInv, AudioTypeOK', UNCHANGED <<heard, echo>>,
         turnBuf' \in {turnBuf, {}}, gapBuf' \in {gapBuf, {}}, ended => ended',
         NEW t \in AudioRows \cup {0},
         \A u \in AudioRows \ {t} : RowKept(audioRows[u], audioRows'[u], ended'),
         \/ t \in AudioRows => RowKept(audioRows[t], audioRows'[t], ended')
         \/ Begun(audioRows'[t], turnBuf', ended')
  PROVE  BuffersApart' /\ RowsApart' /\ OwnRows' /\ AudioRowsFine'
<1>1. ASSUME NEW u \in AudioRows
      PROVE  \/ RowKept(audioRows[u], audioRows'[u], ended')
             \/ u = t /\ Begun(audioRows'[u], turnBuf', ended')
  OBVIOUS
<1>2. BuffersApart'
  BY DEF AudioInv, BuffersApart
<1>3. /\ turnBuf \in SUBSET (1..heard) /\ gapBuf \in SUBSET (1..heard)
      /\ turnBuf \cap echo = {} /\ turnBuf \cap gapBuf = {}
  BY AudioTyped DEF AudioInv, BuffersApart
<1>4. ASSUME NEW u \in AudioRows
      PROVE  /\ audioRows[u].input \in SUBSET (1..heard) /\ audioRows[u].listen \in SUBSET (1..heard)
             /\ audioRows[u].input \cap echo = {} /\ audioRows[u].input \cap turnBuf = {}
             /\ audioRows[u].input \cap gapBuf = {}
             /\ ~ended => audioRows[u].listen \cap turnBuf = {}
  BY DEF AudioInv, RowsApart, RowApart
<1>5. ASSUME NEW u \in AudioRows
      PROVE  RowApart(audioRows'[u], turnBuf', gapBuf', echo', heard', ended')
  <2> DEFINE q == audioRows'[u]  r == audioRows[u]
  <2>1. CASE RowKept(r, q, ended')
    <3>1. /\ q.input = r.input
          /\ q.listen = r.listen \/ q.listen = gapBuf \/ (ended' /\ q.listen = gapBuf \cup turnBuf)
      BY <2>1 DEF RowKept
    <3> HIDE DEF q
    <3>2. q.input \in SUBSET (1..heard) /\ q.listen \in SUBSET (1..heard)
      BY <1>3, <1>4, <3>1
    <3>3. q.input \cap echo = {} /\ q.input \cap turnBuf' = {} /\ q.input \cap gapBuf' = {}
      BY <1>4, <3>1
    <3>4. ~ended' => q.listen \cap turnBuf' = {}
      BY <1>3, <1>4, <3>1
    <3> QED BY <3>2, <3>3, <3>4 DEF RowApart, q
  <2>2. CASE Begun(q, turnBuf', ended')
    <3>1. (q.input = {} \/ (q.input = turnBuf /\ turnBuf' = {})) /\ q.listen = {}
      BY <2>2 DEF Begun
    <3> HIDE DEF q
    <3>2. q.input \in SUBSET (1..heard) /\ q.listen \in SUBSET (1..heard)
      BY <1>3, <3>1
    <3>3. q.input \cap echo = {} /\ q.input \cap turnBuf' = {} /\ q.input \cap gapBuf' = {}
      BY <1>3, <3>1
    <3> QED BY <3>1, <3>2, <3>3 DEF RowApart, q
  <2> QED BY <1>1, <2>1, <2>2
<1>6. RowsApart'
  BY <1>5 DEF RowsApart
<1>7. ASSUME NEW v \in AudioRows, NEW u \in AudioRows
      PROVE  /\ audioRows'[v].input \cap audioRows'[u].listen = {}
             /\ u # v => audioRows'[v].input \cap audioRows'[u].input = {}
  <2> DEFINE r == audioRows[v].input
             q == audioRows'[v].input
             s == audioRows[u].input
             w == audioRows'[u].input
             l == audioRows[u].listen
             k == audioRows'[u].listen
  <2>1. r \cap l = {} /\ (u # v => r \cap s = {})
    BY DEF AudioInv, OwnRows
  <2>2. r \cap turnBuf = {} /\ r \cap gapBuf = {} /\ s \cap turnBuf = {} /\ (~ended => l \cap turnBuf = {})
    BY <1>4
  <2>3. q = r \/ q = {} \/ (q = turnBuf /\ ~ended' /\ v = t)
    BY <1>1 DEF RowKept, Begun
  <2>4. w = s \/ w = {} \/ (w = turnBuf /\ u = t)
    BY <1>1 DEF RowKept, Begun
  <2>5. k = l \/ k = {} \/ k = gapBuf \/ (ended' /\ k = gapBuf \cup turnBuf)
    BY <1>1 DEF RowKept, Begun
  <2> HIDE DEF r, q, s, w, l, k
  <2>6. u # v => q \cap w = {}
    BY <2>1, <2>2, <2>3, <2>4
  <2>7. q \cap k = {}
    BY <1>3, <2>1, <2>2, <2>3, <2>5
  <2> QED BY <2>6, <2>7 DEF q, k, w
<1>8. OwnRows'
  BY <1>7 DEF OwnRows
<1>9. ASSUME NEW u \in AudioRows
      PROVE  Timely(audioRows'[u].input, audioRows'[u].start) /\ Whole(audioRows'[u].input, echo')
  <2>1. Timely(audioRows[u].input, audioRows[u].start) /\ Whole(audioRows[u].input, echo)
    BY DEF AudioInv, AudioRowsFine
  <2>2. Whole(turnBuf, echo) /\ Whole({}, echo)
    <3>1. \A i \in turnBuf : \A j \in (i..heard) \ echo : j \in turnBuf
      BY DEF AudioInv, BufferFine
    <3>2. \A i, k \in turnBuf : i..k \subseteq i..heard
      BY <1>3, AudioTyped DEF AudioInv
    <3> QED BY <3>1, <3>2 DEF Whole
  <2> QED BY <1>1, <2>1, <2>2 DEF RowKept, Begun
<1>10. AudioRowsFine'
  BY <1>9 DEF AudioRowsFine
<1> QED BY <1>2, <1>6, <1>8, <1>10

(* Where the rows may change and the microphone, the buffer and the window *)
(* do not.                                                                 *)
LEMMA RowsOnly ==
  ASSUME AudioInv, AudioTypeOK', UNCHANGED <<heard, echo, turnBuf, window>>, speaking'.last = speaking.last,
         gapBuf' \in {gapBuf, {}}, ended => ended',
         NEW t \in AudioRows \cup {0},
         \A u \in AudioRows \ {t} : RowKept(audioRows[u], audioRows'[u], ended'),
         \/ t \in AudioRows => RowKept(audioRows[t], audioRows'[t], ended')
         \/ Begun(audioRows'[t], turnBuf', ended')
  PROVE  AudioInv'
<1>1. BuffersApart' /\ RowsApart' /\ OwnRows' /\ AudioRowsFine'
  BY RowsChange
<1>2. BufferFine'
  BY DEF AudioInv, BufferFine
<1> QED BY <1>1, <1>2 DEF AudioInv

LEMMA RowsAsTheyAre ==
  ASSUME AudioInv, AudioTypeOK', UNCHANGED <<heard, echo, turnBuf, window, gapBuf, audioRows>>,
         speaking'.last = speaking.last, ended => ended'
  PROVE  AudioInv'
<1>1. \A u \in AudioRows : RowKept(audioRows[u], audioRows'[u], ended')
  BY DEF RowKept
<1> QED BY <1>1, RowsOnly

LEMMA MicKeeps == ASSUME AudioInv, AudioTypeOK', Mic PROVE AudioInv'
<1> DEFINE id == heard + 1
<1>1. PICK kept, gap, pend :
    /\ kept = IF Moved THEN {} ELSE turnBuf
    /\ gap = IF Moved THEN gapBuf \cup turnBuf ELSE gapBuf
    /\ pend = IF ReplyOver THEN id ELSE window.pending
    /\ heard' = id
    /\ kept \cup {id} \in SUBSET (1..heard') /\ kept \in SUBSET (1..heard)
    /\ IsFiniteSet(kept) /\ IsFiniteSet(kept \cup {id})
    /\ Cardinality(kept) <= BufCap /\ Cardinality(kept) < Cardinality(kept \cup {id})
    /\ Cardinality(kept \cup {id}) <= BufCap + 1
    /\ echo' = IF speaking.now THEN echo \cup {id} ELSE echo
    /\ speaking' = [speaking EXCEPT !.last = speaking.now]
    /\ turnBuf' = IF speaking.now THEN kept ELSE Capped(kept \cup {id})
    /\ gapBuf' = IF speaking.now THEN Capped(gap \cup {id}) ELSE gap
    /\ window' = [start |-> IF ~speaking.now /\ kept = {} THEN pend ELSE window.start, pending |-> pend]
    /\ ~ended /\ UNCHANGED <<audioRows, openRow, ended>>
  BY MicMoves DEF AudioInv
<1>2. /\ heard \in Nat /\ id \in Nat /\ id \notin 1..heard /\ id > heard
      /\ \A S \in SUBSET (1..heard) : S \in SUBSET Nat /\ S \cup {id} \in SUBSET Nat
      /\ 1..heard \subseteq 1..id
  <2>1. heard \in Nat
    BY AudioTyped DEF AudioInv
  <2>2. id \in Nat /\ id \notin 1..heard /\ id > heard /\ 1..heard \subseteq 1..id /\ 1..heard \subseteq Nat
    BY <2>1
  <2> HIDE DEF id
  <2>3. \A S \in SUBSET (1..heard) : S \in SUBSET Nat /\ S \cup {id} \in SUBSET Nat
    BY <2>2
  <2> QED BY <2>1, <2>2, <2>3
<1>3. /\ turnBuf \in SUBSET (1..heard) /\ gapBuf \in SUBSET (1..heard) /\ echo \in SUBSET (1..heard)
      /\ speaking \in [now : BOOLEAN, last : BOOLEAN]
      /\ window.start \in Nat /\ window.pending \in Nat
  BY AudioTyped DEF AudioInv
<1> HIDE DEF id
<1>4. kept \in SUBSET turnBuf /\ gap \in SUBSET (gapBuf \cup turnBuf) /\ kept \cap gap = {}
      /\ (~speaking.now => kept = turnBuf /\ gap = gapBuf)
      /\ (kept # {} => kept = turnBuf)
  BY <1>1 DEF AudioInv, BuffersApart, Moved
<1>5. /\ Capped(kept \cup {id}) \in SUBSET (kept \cup {id}) /\ Capped(kept \cup {id}) # {}
      /\ Cardinality(Capped(kept \cup {id})) < BufCap => Capped(kept \cup {id}) = kept \cup {id}
      /\ \A i \in Capped(kept \cup {id}) : \A j \in kept \cup {id} : i <= j => j \in Capped(kept \cup {id})
  BY <1>1, <1>2, CappedFits
<1>6. turnBuf' \in SUBSET (kept \cup {id}) /\ (speaking.now => turnBuf' = kept)
  BY <1>1, <1>5
<1>7. gapBuf' \in SUBSET (gap \cup {id}) /\ (~speaking.now => gapBuf' = gap)
  BY <1>1 DEF Capped
<1>8. echo' \in SUBSET (echo \cup {id}) /\ (~speaking.now => echo' = echo) /\ echo \in SUBSET echo'
      /\ (speaking.now => id \in echo')
  BY <1>1
<1>9. BuffersApart'
  <2>1. turnBuf \cap echo = {}
    BY DEF AudioInv, BuffersApart
  <2>2. CASE speaking.now
    BY <1>2, <1>3, <1>4, <1>6, <1>7, <1>8, <2>1, <2>2 DEF BuffersApart
  <2>3. CASE ~speaking.now
    BY <1>2, <1>3, <1>4, <1>6, <1>7, <1>8, <2>1, <2>3 DEF BuffersApart
  <2> QED BY <2>2, <2>3
<1>10. RowsApart'
  <2>1. ASSUME NEW t \in AudioRows
        PROVE  RowApart(audioRows[t], turnBuf', gapBuf', echo', heard', ended')
    <3> DEFINE input  == audioRows[t].input
               listen == audioRows[t].listen
    <3>1. /\ input \in SUBSET (1..heard) /\ listen \in SUBSET (1..heard)
          /\ input \cap turnBuf = {} /\ input \cap gapBuf = {} /\ input \cap echo = {}
          /\ ~ended => listen \cap turnBuf = {}
      BY DEF AudioInv, RowsApart, RowApart
    <3> HIDE DEF input, listen
    <3>2. id \notin input /\ id \notin listen /\ input \in SUBSET (1..heard') /\ listen \in SUBSET (1..heard')
      BY <1>1, <1>2, <3>1
    <3>3. turnBuf' \in SUBSET (turnBuf \cup {id}) /\ gapBuf' \in SUBSET (gapBuf \cup turnBuf \cup {id})
      BY <1>4, <1>6, <1>7
    <3>4. input \cap turnBuf' = {} /\ input \cap gapBuf' = {} /\ input \cap echo' = {}
      BY <1>8, <3>1, <3>2, <3>3
    <3>5. ~ended' => listen \cap turnBuf' = {}
      BY <1>1, <3>1, <3>2, <3>3
    <3> QED BY <3>2, <3>4, <3>5 DEF RowApart, input, listen
  <2> QED BY <1>1, <2>1 DEF RowsApart
<1>11. OwnRows'
  BY <1>1 DEF AudioInv, OwnRows
<1>12. AudioRowsFine'
  BY <1>1, <1>8 DEF AudioInv, AudioRowsFine, Whole
<1>13. /\ \A i \in turnBuf : \A j \in (i..heard) \ echo : j \in turnBuf
       /\ Timely(turnBuf, window.start)
       /\ window.pending <= heard
       /\ turnBuf = {} /\ ~speaking.last => window.pending = heard
  BY DEF AudioInv, BufferFine
<1>14. pend \in Nat /\ pend <= heard' /\ window'.pending = pend /\ speaking'.last = speaking.now
       /\ window'.start = (IF ~speaking.now /\ kept = {} THEN pend ELSE window.start)
  BY <1>1, <1>2, <1>3, <1>13
<1>15. \A i \in turnBuf' : \A j \in (i..heard') \ echo' : j \in turnBuf'
  <2> SUFFICES ASSUME NEW i \in turnBuf', NEW j \in (i..heard') \ echo' PROVE j \in turnBuf'
    OBVIOUS
  <2>1. i \in Nat /\ j \in Nat /\ i <= j /\ j <= id
    BY <1>1, <1>2, <1>6
  <2>2. CASE speaking.now
    <3>1. i \in turnBuf /\ kept = turnBuf /\ turnBuf' = kept
      BY <1>4, <1>6, <2>2
    <3>2. j # id
      BY <1>8, <2>2
    <3>3. j \in (i..heard) \ echo
      <4>1. j \notin echo
        BY <1>8
      <4>2. i \in Nat /\ j <= heard
        BY <1>1, <1>2, <2>1, <3>2 DEF id
      <4>3. j \in i..heard
        BY <1>2, <2>1, <4>2
      <4> QED BY <4>1, <4>3
    <3> QED BY <1>13, <3>1, <3>3
  <2>3. CASE ~speaking.now
    <3>1. kept = turnBuf /\ turnBuf' = Capped(kept \cup {id}) /\ echo' = echo
      BY <1>1, <1>4, <1>8, <2>3
    <3>2. i \in kept \cup {id}
      BY <1>6
    <3>3. j \in kept \cup {id}
      <4>1. CASE j = id
        BY <4>1
      <4>2. CASE j # id
        <5>1. i # id /\ j <= heard
          BY <1>1, <1>2, <2>1, <4>2 DEF id
        <5>2. i \in turnBuf /\ j \in i..heard
          BY <1>2, <2>1, <3>1, <3>2, <5>1
        <5>3. j \in (i..heard) \ echo
          <6>1. j \notin echo'
            OBVIOUS
          <6> QED BY <3>1, <5>2, <6>1, Zenon
        <5> QED BY <1>13, <3>1, <5>2, <5>3
      <4> QED BY <4>1, <4>2
    <3> QED BY <1>5, <2>1, <3>1, <3>3
  <2> QED BY <2>2, <2>3
<1>16. Timely(turnBuf', window'.start)
  <2>1. CASE speaking.now
    <3>1. window'.start = window.start /\ turnBuf' = kept
      BY <1>6, <1>14, <2>1
    <3> QED BY <1>4, <1>13, <3>1 DEF Timely
  <2>2. CASE ~speaking.now
    <3> DEFINE all == kept \cup {id}
    <3>1. turnBuf' = Capped(all) /\ kept = turnBuf
      BY <1>1, <1>4, <2>2
    <3>2. CASE kept = {}
      <4>1. window'.start = pend /\ all = {id} /\ pend <= id
        BY <1>1, <1>14, <2>2, <3>2
      <4>2. id <= pend + 1
        <5>1. CASE ReplyOver
          BY <1>1, <1>2, <5>1
        <5>2. CASE ~ReplyOver
          <6>1. ~speaking.last
            BY <2>2, <5>2 DEF ReplyOver
          <6>2. pend = heard
            BY <1>1, <1>13, <3>1, <3>2, <5>2, <6>1
          <6> QED BY <1>2, <6>2 DEF id
        <5> QED BY <5>1, <5>2
      <4>3. turnBuf' = {id}
        BY <1>5, <3>1, <4>1
      <4> QED BY <4>1, <4>2, <4>3 DEF Timely
    <3>3. CASE kept # {}
      <4>1. window'.start = window.start
        BY <1>14, <3>3
      <4>2. \A i \in all : window.start <= i
        <5>1. PICK i \in turnBuf : TRUE
          BY <3>1, <3>3
        <5>2. window.start <= i /\ i <= heard /\ i \in Nat
          BY <1>2, <1>3, <1>13, <5>1 DEF Timely
        <5>3. window.start <= id
          BY <1>2, <1>3, <5>2
        <5> QED BY <1>13, <3>1, <5>3 DEF Timely
      <4>3. ASSUME Cardinality(Capped(all)) < BufCap
            PROVE  \E i \in Capped(all) : i <= window.start + 1
        <5>1. Capped(all) = all
          BY <1>5, <4>3
        <5>2. Cardinality(kept) < BufCap
          <6>1. Cardinality(kept) \in Nat /\ Cardinality(all) \in Nat
            BY <1>1, FS_CardinalityType
          <6>2. Cardinality(kept) < Cardinality(all) /\ Cardinality(all) < BufCap
            BY <1>1, <4>3, <5>1
          <6> QED BY <6>1, <6>2, AudioNumbers
        <5>3. \E i \in kept : i <= window.start + 1
          BY <1>13, <3>1, <3>3, <5>2 DEF Timely
        <5> QED BY <5>1, <5>3
      <4> QED BY <1>5, <3>1, <4>1, <4>2, <4>3 DEF Timely
    <3> QED BY <3>2, <3>3
  <2> QED BY <2>1, <2>2
<1>17. turnBuf' = {} /\ ~speaking'.last => window'.pending = heard'
  BY <1>1, <1>5, <1>14
<1> QED BY <1>9, <1>10, <1>11, <1>12, <1>14, <1>15, <1>16, <1>17 DEF AudioInv, BufferFine
LEMMA ListensKeeps == ASSUME AudioInv, AudioTypeOK', DeviceListens PROVE AudioInv'
<1>1. UNCHANGED <<heard, echo, speaking, turnBuf, gapBuf, audioRows, openRow, ended>>
  BY DEF DeviceListens
<1>2. CASE turnBuf = {}
  <2>1. window'.pending = window.pending
    BY <1>2, AudioTyped DEF DeviceListens, AudioInv
  <2>2. Timely(turnBuf', window'.start)
    BY <1>1, <1>2 DEF Timely
  <2>3. BufferFine'
    BY <1>1, <2>1, <2>2 DEF AudioInv, BufferFine
  <2>4. BuffersApart' /\ RowsApart' /\ OwnRows' /\ AudioRowsFine'
    BY <1>1 DEF AudioInv, BuffersApart, RowsApart, OwnRows, AudioRowsFine
  <2> QED BY <2>3, <2>4 DEF AudioInv
<1>3. CASE turnBuf # {}
  BY <1>1, <1>3, RowsAsTheyAre DEF DeviceListens
<1> QED BY <1>2, <1>3

LEMMA StopKeeps ==
  ASSUME AudioInv, AudioTypeOK', NEW t \in AudioRows, UserTurnStops(t) PROVE AudioInv'
<1> DEFINE start == IF turnBuf = {} THEN heard ELSE window.start
<1>1. /\ audioRows' = [SweptRows EXCEPT ![t] = [NoAudio EXCEPT !.at = "open", !.input = turnBuf, !.start = start]]
      /\ gapBuf' = {} /\ turnBuf' = {} /\ ~ended
      /\ window' = [start |-> start, pending |-> heard]
      /\ UNCHANGED <<heard, echo, speaking, ended>>
  BY DEF UserTurnStops
<1>2. start \in 0..MicCount /\ turnBuf \in SUBSET Frames
  BY AudioTyped DEF AudioInv
<1>3. Timely(turnBuf, start)
  BY DEF AudioInv, BufferFine, Timely
<1>4. window'.pending = heard /\ heard \in Nat
  BY <1>1, AudioTyped DEF AudioInv
<1> HIDE DEF start
<1>5. /\ audioRows'[t].input = turnBuf /\ audioRows'[t].start = start /\ audioRows'[t].listen = {}
      /\ \A u \in AudioRows \ {t} : audioRows'[u] = SweptRows[u]
  BY <1>1, <1>2, RowBegins, SweptTyped DEF AudioInv
<1>6. Begun(audioRows'[t], turnBuf', ended')
  BY <1>1, <1>3, <1>5 DEF Begun
<1>7. \A u \in AudioRows \ {t} : RowKept(audioRows[u], audioRows'[u], ended')
  BY <1>5, SweptTyped DEF AudioInv, RowKept
<1>8. BuffersApart' /\ RowsApart' /\ OwnRows' /\ AudioRowsFine'
  BY <1>1, <1>6, <1>7, RowsChange
<1>9. BufferFine'
  BY <1>1, <1>4 DEF BufferFine, Timely
<1> QED BY <1>8, <1>9 DEF AudioInv

LEMMA BareWakeKeeps ==
  ASSUME AudioInv, AudioTypeOK', NEW t \in AudioRows, BareWake(t) PROVE AudioInv'
<1>1. /\ audioRows' = [SweptRows EXCEPT ![t] = [NoAudio EXCEPT !.at = "open", !.start = window.start]]
      /\ UNCHANGED <<heard, echo, speaking, turnBuf, gapBuf, window, ended>>
  BY DEF BareWake
<1>2. /\ audioRows'[t].input = {} /\ audioRows'[t].listen = {}
      /\ \A u \in AudioRows \ {t} : audioRows'[u] = SweptRows[u]
  BY <1>1, RowBegins, SweptTyped, AudioTyped DEF AudioInv
<1>3. Begun(audioRows'[t], turnBuf', ended')
  BY <1>2 DEF Begun, Timely
<1>4. \A u \in AudioRows \ {t} : RowKept(audioRows[u], audioRows'[u], ended')
  BY <1>2, SweptTyped DEF AudioInv, RowKept
<1> QED BY <1>1, <1>3, <1>4, RowsOnly

LEMMA BlankKeeps == ASSUME AudioInv, AudioTypeOK', BlankStops PROVE AudioInv'
<1>1. /\ audioRows' = SweptRows /\ gapBuf' = {}
      /\ UNCHANGED <<heard, echo, speaking, turnBuf, window, ended>>
  BY DEF BlankStops
<1>2. \A u \in AudioRows : RowKept(audioRows[u], audioRows'[u], ended')
  BY <1>1, SweptTyped DEF AudioInv, RowKept
<1> QED BY <1>1, <1>2, RowsOnly

(* A row is stored, with what it listens to as it was or as it is now.     *)
LEMMA StoresRow ==
  ASSUME AudioInv, AudioTypeOK', NEW t \in AudioRows, NEW frames,
         frames \in {audioRows[t].listen, gapBuf} \/ (ended' /\ frames = gapBuf \cup turnBuf),
         audioRows' = [audioRows EXCEPT ![t].at = "stored", ![t].listen = frames],
         UNCHANGED <<heard, echo, speaking, turnBuf, gapBuf, window>>, ended => ended'
  PROVE  AudioInv'
<1>1. audioRows \in [AudioRows -> TypedRows] /\ audioRows[t] \in TypedRows
  BY AudioTyped DEF AudioInv
<1>2. frames \in SUBSET Frames
  BY <1>1, AudioTyped DEF AudioInv, TypedRows
<1>3. RowKept(audioRows[t], [audioRows[t] EXCEPT !.at = "stored", !.listen = frames], ended')
  BY <1>1, <1>2, RowOf DEF RowKept
<1>4. /\ audioRows'[t] = [audioRows[t] EXCEPT !.at = "stored", !.listen = frames]
      /\ \A u \in AudioRows \ {t} : audioRows'[u] = audioRows[u]
  BY <1>1
<1>5. \A u \in AudioRows : RowKept(audioRows[u], audioRows'[u], ended')
  BY <1>3, <1>4 DEF RowKept
<1> QED BY <1>5, RowsOnly

LEMMA CloseKeeps ==
  ASSUME AudioInv, AudioTypeOK', NEW t \in AudioRows, CloseStorage(t) PROVE AudioInv'
<1>1. /\ audioRows' = [audioRows EXCEPT ![t].at = "stored"]
      /\ UNCHANGED <<heard, echo, speaking, turnBuf, gapBuf, window, ended>>
  BY DEF CloseStorage
<1>2. audioRows \in [AudioRows -> TypedRows] /\ audioRows[t] \in TypedRows
  BY AudioTyped DEF AudioInv
<1>3. /\ [audioRows[t] EXCEPT !.at = "stored"].input = audioRows[t].input
      /\ [audioRows[t] EXCEPT !.at = "stored"].start = audioRows[t].start
      /\ [audioRows[t] EXCEPT !.at = "stored"].listen = audioRows[t].listen
  BY <1>2 DEF TypedRows
<1>4. \A u \in AudioRows : RowKept(audioRows[u], audioRows'[u], ended')
  BY <1>1, <1>2, <1>3 DEF RowKept
<1> QED BY <1>1, <1>4, RowsOnly

LEMMA FinalizeKeeps == ASSUME AudioInv, AudioTypeOK', FinalizeSession PROVE AudioInv'
<1>1. CASE openRow = 0
  BY <1>1, RowsAsTheyAre DEF FinalizeSession
<1>2. CASE openRow # 0
  BY <1>2, AudioTyped, StoresRow DEF FinalizeSession, AudioInv
<1> QED BY <1>1, <1>2

LEMMA AudioInitially == AudioInit => AudioInv
<1> SUFFICES ASSUME AudioInit PROVE AudioInv
  OBVIOUS
<1>1. AudioTypeOK
  BY AudioTypeBegins
<1>2. \A t \in AudioRows : audioRows[t].input = {} /\ audioRows[t].listen = {}
  BY DEF AudioInit, NoAudio
<1>3. BuffersApart /\ BufferFine
  <2>1. turnBuf = {} /\ echo = {} /\ gapBuf = {} /\ window.pending = 0 /\ heard = 0
    BY DEF AudioInit
  <2> QED BY <2>1 DEF BuffersApart, BufferFine, Timely
<1>4. RowsApart /\ OwnRows
  BY <1>2 DEF RowsApart, RowApart, OwnRows
<1>5. AudioRowsFine
  BY <1>2 DEF AudioRowsFine, Timely, Whole
<1> QED BY <1>1, <1>3, <1>4, <1>5 DEF AudioInv

LEMMA AudioStep == AudioInv /\ [AudioNext]_audioVars => AudioInv'
<1> SUFFICES ASSUME AudioInv, [AudioNext]_audioVars PROVE AudioInv'
  OBVIOUS
<1>0. AudioTypeOK'
  BY AudioTypeStep DEF AudioInv
<1>1. CASE Mic
  BY <1>0, <1>1, MicKeeps
<1>2. CASE DeviceListens
  BY <1>0, <1>2, ListensKeeps
<1>3. CASE SpeakingTurns
  <2>1. speaking'.last = speaking.last
    BY <1>3, AudioTyped DEF SpeakingTurns, AudioInv
  <2> QED BY <1>0, <1>3, <2>1, RowsAsTheyAre DEF SpeakingTurns
<1>4. CASE Transcribed
  BY <1>0, <1>4, RowsAsTheyAre DEF Transcribed
<1>5. CASE BlankStops
  BY <1>0, <1>5, BlankKeeps
<1>6. CASE FinalizeSession
  BY <1>0, <1>6, FinalizeKeeps
<1>7. ASSUME NEW t \in AudioRows, UserTurnStops(t) PROVE AudioInv'
  BY <1>0, <1>7, StopKeeps
<1>8. ASSUME NEW t \in AudioRows, BareWake(t) PROVE AudioInv'
  BY <1>0, <1>8, BareWakeKeeps
<1>9. ASSUME NEW t \in AudioRows, CommitOnFinalize(t) PROVE AudioInv'
  BY <1>0, <1>9, StoresRow DEF CommitOnFinalize
<1>10. ASSUME NEW t \in AudioRows, CloseStorage(t) PROVE AudioInv'
  BY <1>0, <1>10, CloseKeeps
<1>11. CASE UNCHANGED audioVars
  BY <1>0, <1>11, RowsAsTheyAre DEF audioVars
<1> QED
  BY <1>1, <1>2, <1>3, <1>4, <1>5, <1>6, <1>7, <1>8, <1>9, <1>10, <1>11 DEF AudioNext

LEMMA AudioMeans == AudioInv => AudioIsOwn
<1> SUFFICES ASSUME AudioInv PROVE AudioIsOwn
  OBVIOUS
<1>1. InputIsOwn
  BY DEF AudioInv, RowsApart, RowApart, OwnRows, InputIsOwn
<1>2. InputIsWhole
  BY DEF AudioInv, AudioRowsFine, Whole, InputIsWhole
<1>3. StartIsOwn
  <2> SUFFICES ASSUME NEW t \in AudioRows, audioRows[t].input # {}
               PROVE  /\ audioRows[t].start <= Min(audioRows[t].input)
                      /\ Cardinality(audioRows[t].input) < BufCap =>
                           Min(audioRows[t].input) <= audioRows[t].start + 1
    BY DEF StartIsOwn
  <2> DEFINE words == audioRows[t].input  start == audioRows[t].start
  <2>1. audioRows[t] \in TypedRows
    BY AudioTyped DEF AudioInv
  <2>2. words \in SUBSET Nat /\ start \in Nat
    BY <2>1, AudioNumbers DEF TypedRows, Frames
  <2>3. Timely(words, start)
    BY DEF AudioInv, AudioRowsFine
  <2> HIDE DEF words, start
  <2>4. words # {}
    BY DEF words
  <2>5. PICK m \in words : \A n \in words : m <= n
    BY <2>2, <2>4, Least
  <2>6. Min(words) \in words /\ \A n \in words : Min(words) <= n
    BY <2>5 DEF Min
  <2> DEFINE low == Min(words)
  <2>7. low \in Nat /\ start <= low
    BY <2>2, <2>3, <2>6 DEF Timely
  <2>8. ASSUME Cardinality(words) < BufCap PROVE low <= start + 1
    <3>1. PICK i \in words : i <= start + 1
      BY <2>3, <2>4, <2>8 DEF Timely
    <3>2. low <= i /\ i \in Nat
      BY <2>2, <2>6
    <3> HIDE DEF low
    <3> QED BY <2>2, <2>7, <3>1, <3>2
  <2> QED BY <2>7, <2>8 DEF words, start
<1> QED BY <1>1, <1>2, <1>3 DEF AudioIsOwn

(* Whatever the device, the transcripts and the replies do and whenever a  *)
(* turn is committed, it is stored with its own words, all of them and no  *)
(* others, and the time they began (turn_storage_observer.py:157-234,      *)
(* 384-448): for every number of frames and turns.                         *)
THEOREM AudioStaysOwn == AudioSpec => []AudioIsOwn
BY AudioInitially, AudioStep, AudioMeans, PTL DEF AudioSpec
=============================================================================
