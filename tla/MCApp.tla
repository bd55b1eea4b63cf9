-------------------------------- MODULE MCApp --------------------------------
(* Instances of VolumeSync, AppSockets, DeviceCertificates and RoastStarts,  *)
(* what the API does between an App and a device, for TLC: one of the four   *)
(* at a time, the others stay as they began.                                 *)
EXTENDS VolumeSync, AppSockets, DeviceCertificates, RoastStarts

VARIABLE part  \* which of the four

SomeFaults == {{}, {"overlap"}, {"lose", "reorder"}, {"repeat"}}

SomeTroubles == {{}, {"overlap"}, {"fail"}, {"again"}}

Init ==
  /\ VolumeInit /\ SocketInit /\ CertInit /\ StartInit
  /\ part \in {"volume", "sockets", "certificates", "starts"}
  /\ level = 0  \* one of the two levels: they are only compared
  /\ part # "volume" => faults = {}
  /\ part # "certificates" => trouble = {}

Next ==
  /\ \/ part = "volume" /\ VolumeNext /\ UNCHANGED <<appVars, certVars, startVars>>
     \/ part = "sockets" /\ SocketNext /\ UNCHANGED <<volumeVars, certVars, startVars>>
     \/ part = "certificates" /\ CertNext /\ UNCHANGED <<volumeVars, appVars, startVars>>
     \/ part = "starts" /\ StartNext /\ UNCHANGED <<volumeVars, appVars, certVars>>
  /\ UNCHANGED part

Spec == Init /\ [][Next]_<<volumeVars, appVars, certVars, startVars, part>>
=============================================================================
