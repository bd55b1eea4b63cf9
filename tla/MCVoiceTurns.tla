---------------------------- MODULE MCVoiceTurns ----------------------------
(* Instances of VoiceTurns for TLC. *)
EXTENDS VoiceTurns, TLC

OneFault  == {{}} \cup {{f} : f \in Faults}
TwoFaults == {{"wake", "lag"}, {"wake", "blank"}, {"inject", "stop"}, {"inject", "eager"},
              {"agent", "drop"}}
SomeFaults == OneFault \cup TwoFaults
=============================================================================
