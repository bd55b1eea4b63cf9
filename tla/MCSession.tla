------------------------------ MODULE MCSession ------------------------------
(* Instances of AgentRun, DeviceCalls and Interrupts for TLC: one of the     *)
(* three at a time, the other two stay as they began.                        *)
EXTENDS AgentRun, DeviceCalls, Interrupts

VARIABLE part  \* which of the three

FewOrders == {<<"set", 3>>, <<"increase", 1>>, <<"decrease", 1>>, <<"mute", 0>>, <<"unmute", 0>>}

SomeHabits == {{}, {"overlap"}, {"cancel"}, {"age"}}

vars == <<agentVars, deviceVars, interruptVars, part>>

Init ==
  /\ AgentInit /\ DeviceInit /\ InterruptInit
  /\ part \in {"agent", "device", "interrupts"}
  /\ part # "device" => level = 0 /\ old = FALSE
  /\ part # "interrupts" => habits = {}

Next ==
  /\ \/ part = "agent" /\ AgentNext /\ UNCHANGED <<deviceVars, interruptVars>>
     \/ part = "device" /\ DeviceNext /\ UNCHANGED <<agentVars, interruptVars>>
     \/ part = "interrupts" /\ InterruptNext /\ UNCHANGED <<agentVars, deviceVars>>
  /\ UNCHANGED part

(* DeviceFairness, where its part moves.                                   *)
Fairness ==
  /\ WF_deviceVars(part = "device" /\ DeviceAnswers) /\ WF_deviceVars(part = "device" /\ AnswerDropped)
  /\ \A c \in Commands : /\ WF_deviceVars(part = "device" /\ CommandSteps(c))
                        /\ WF_deviceVars(part = "device" /\ CallTimesOut(c))
  /\ \A f \in Flushes : /\ WF_deviceVars(part = "device" /\ FlushSteps(f))
                       /\ WF_deviceVars(part = "device" /\ FlushTimesOut(f))
  /\ WF_deviceVars(part = "device" /\ EndTurn) /\ SF_deviceVars(part = "device" /\ SessionEnds)

Spec == Init /\ [][Next]_vars /\ Fairness
=============================================================================
