----------------------------- MODULE Interrupts -----------------------------
(***************************************************************************)
(* The interrupt events of one key (core/agent/interrupt.py) and the runs  *)
(* guarded by it: functions and generators under @check_interrupt, and     *)
(* AgentRunner.run.  A run takes the event registered for its key, or      *)
(* registers one, races its work against it, and in the end removes        *)
(* whatever is registered then.  An event is triggered, replaced, or       *)
(* removed by the cleanup task when it is too old.                         *)
(***************************************************************************)
EXTENDS Integers

CONSTANTS
  RunCount,     \* bounds the guarded runs
  SignalCount,  \* bounds the triggers and replacements
  Habits        \* what may happen besides: runs that overlap, callers that
                \* are cancelled, events that age

ASSUME InterruptAssumption ==
  RunCount \in Nat /\ SignalCount \in Nat /\ Habits \subseteq SUBSET {"overlap", "cancel", "age"}

VARIABLES
  habits,      \* of this behaviour, a member of Habits
  registered,  \* _events[key]: an event, or 0
  events,      \* the events made so far
  set,         \* those that are set
  aged,        \* the registered event is older than auto_cleanup_max_age
  runs,        \* each guarded run
  signals,     \* triggers and replacements so far
  missed       \* runs that were racing when a trigger set an event not theirs

interruptVars == <<habits, registered, events, set, aged, runs, signals, missed>>

Runs == 1..RunCount

(* at: where the guard is; working: its task or generator still runs; how: *)
(* how it ended; heard: the signals there had been when it did.            *)
InterruptInit ==
  /\ habits \in Habits /\ registered = 0 /\ events = 0 /\ set = {} /\ aged = FALSE
  /\ runs = [r \in Runs |-> [at |-> "idle", event |-> 0, working |-> FALSE, how |-> "none",
                             heard |-> 0]]
  /\ signals = 0 /\ missed = {}

-----------------------------------------------------------------------------
Racing(r) == runs[r].at = "racing"

Create(on) ==
  /\ events' = events + 1 /\ registered' = events + 1 /\ aged' = FALSE
  /\ set' = set \cup ({registered} \ {0}) \cup (IF on THEN {events + 1} ELSE {})

Cleanup == registered' = 0 /\ aged' = FALSE

RunStarts(r) ==
  /\ runs[r].at = "idle" /\ (\A q \in 1..(r - 1) : runs[q].at = "ended" \/ "overlap" \in habits)
  /\ IF registered # 0 THEN UNCHANGED <<registered, events, set, aged>> ELSE Create(FALSE)
  /\ runs' = [runs EXCEPT ![r].at = "racing", ![r].event = registered', ![r].working = TRUE]
  /\ UNCHANGED <<habits, signals, missed>>

Closing(r, how, working) ==
  runs' = [runs EXCEPT ![r].at = "closing", ![r].how = how, ![r].working = working, ![r].heard = signals]

(* The result, or an error, or an interrupt of its own, which the guard    *)
(* keeps to itself.                                                        *)
WorkEnds(r) ==
  /\ Racing(r) /\ \E how \in {"success", "error", "inner"} : Closing(r, how, FALSE)
  /\ UNCHANGED <<habits, registered, events, set, aged, signals, missed>>

StopWork == FALSE

RunInterrupted(r) ==
  /\ Racing(r) /\ runs[r].event \in set /\ Closing(r, "interrupted", StopWork)
  /\ UNCHANGED <<habits, registered, events, set, aged, signals, missed>>

(* The handler that would cancel the work does not catch a CancelledError. *)
CallerCancelled(r) ==
  /\ "cancel" \in habits /\ Racing(r) /\ Closing(r, "cancelled", TRUE)
  /\ UNCHANGED <<habits, registered, events, set, aged, signals, missed>>

OrphanEnds(r) ==
  /\ ~Racing(r) /\ runs[r].working /\ runs' = [runs EXCEPT ![r].working = FALSE]
  /\ UNCHANGED <<habits, registered, events, set, aged, signals, missed>>

(* mutant: the event stays registered *)
KeepEvent == UNCHANGED <<registered, aged>>

Close == Cleanup

RunEnds(r) ==
  /\ runs[r].at = "closing" /\ runs' = [runs EXCEPT ![r].at = "ended", ![r].heard = signals]
  /\ Close
  /\ UNCHANGED <<habits, events, set, signals, missed>>

Signal ==
  IF registered # 0 THEN set' = set \cup {registered} /\ UNCHANGED <<registered, events, aged>>
  ELSE Create(TRUE)

Trigger ==
  /\ signals < SignalCount /\ signals' = signals + 1
  /\ Signal
  /\ missed' = missed \cup {r \in Runs : Racing(r) /\ runs[r].event \notin set'}
  /\ UNCHANGED <<habits, runs>>

Replace ==
  /\ signals < SignalCount /\ signals' = signals + 1
  /\ Create(FALSE)
  /\ UNCHANGED <<habits, runs, missed>>

EventAges ==
  /\ "age" \in habits /\ registered # 0 /\ ~aged /\ aged' = TRUE
  /\ UNCHANGED <<habits, registered, events, set, runs, signals, missed>>

AutoCleanup ==
  /\ aged /\ Cleanup
  /\ UNCHANGED <<habits, events, set, runs, signals, missed>>

InterruptNext ==
  \/ \E r \in Runs : \/ RunStarts(r) \/ WorkEnds(r) \/ RunInterrupted(r) \/ RunEnds(r)
                     \/ CallerCancelled(r) \/ OrphanEnds(r)
  \/ Trigger \/ Replace \/ EventAges \/ AutoCleanup

InterruptSpec == InterruptInit /\ [][InterruptNext]_interruptVars

-----------------------------------------------------------------------------
(* Properties.                                                             *)

GuardedRuns ==
  [at : {"idle", "racing", "closing", "ended"}, event : 0..events, working : BOOLEAN,
   how : {"none", "success", "error", "inner", "interrupted", "cancelled"}, heard : 0..SignalCount]

(* Type invariant.                                                         *)
InterruptTypeOK ==
  /\ habits \in Habits /\ events \in Nat /\ registered \in 0..events /\ set \subseteq 1..events
  /\ aged \in BOOLEAN /\ signals \in 0..SignalCount /\ missed \subseteq Runs
  /\ runs \in [Runs -> GuardedRuns]

(* Where the runs of a key do not overlap and none outlives the age of an  *)
(* event, a trigger reaches the run that is going on, though the event may *)
(* have been replaced in between (interrupt.py:128-152, 162-176).          *)
TriggerHeard == habits \cap {"overlap", "age"} = {} => missed = {}

(* A run is interrupted by a signal that came after the run before it was  *)
(* over, never by one that run has left behind: "to avoid reusing already- *)
(* triggered events" (interrupt.py:128-132, 183-205).                      *)
NoOldSignal ==
  "overlap" \notin habits =>
    \A r \in Runs \ {1} : runs[r].how = "interrupted" => runs[r].heard > runs[r - 1].heard

(* Behind a guard that is over nothing works on, unless its own caller was *)
(* cancelled (interrupt.py:623-628, 637-644).                                       *)
NoOrphans == "cancel" \notin habits => \A r \in Runs : runs[r].at = "ended" => ~runs[r].working

(* A guarded run hears the signals meant for it, no other, and leaves      *)
(* nothing behind (interrupt.py:120-205, 592-652).                         *)
SignalsRight == TriggerHeard /\ NoOldSignal /\ NoOrphans
=============================================================================
