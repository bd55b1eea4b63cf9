---------------------------- MODULE OtaLifecycle ----------------------------
(***************************************************************************)
(* What the job table keeps of the lifecycle drawn in                      *)
(* api/models/device_ota_job.py.  A job is requested for a device that has *)
(* no other unfinished job, or in the place of a reservation the device    *)
(* never picked up; it ends once, by itself, and the sweep ends only jobs  *)
(* that were handed over.                                                  *)
(*                                                                         *)
(* The order drawn between those two points is not kept: a check sets an   *)
(* unfinished job back to notified whatever it had reached, and a report   *)
(* moves or ends it from wherever it is (OtaUpgrade!MovesAsDrawn).         *)
(***************************************************************************)
CONSTANTS Devices, JobIds, None

VARIABLES status,  \* of each job, "absent" before it is requested
          of       \* the device of each job

lvars == <<status, of>>

InProgress == {"notified", "downloading", "installing", "rebooting"}
Unfinished == {"requested"} \cup InProgress
Outcome    == {"succeeded", "failed", "rolled_back", "superseded"}

UnfinishedJobs(d) == {j \in JobIds : of[j] = d /\ status[j] \in Unfinished}

LInit ==
  /\ status = [j \in JobIds |-> "absent"]
  /\ of = [j \in JobIds |-> None]

(* A new job takes the place of the reservations of its device. *)
Requests(k, d) ==
  /\ status[k] = "absent"
  /\ \A j \in UnfinishedJobs(d) : status[j] = "requested"
  /\ status' = [j \in JobIds |-> IF j = k THEN "requested"
                                 ELSE IF j \in UnfinishedJobs(d) THEN "superseded"
                                 ELSE status[j]]
  /\ of' = [of EXCEPT ![k] = d]

(* A check hands the job over, again if it was; a report moves it.  None   *)
(* makes a reservation of it again.                                        *)
MovesOn(j) ==
  /\ status[j] \in Unfinished
  /\ \E s \in InProgress : status' = [status EXCEPT ![j] = s]
  /\ UNCHANGED of

(* A report, a check on target or an unbind ends one job. *)
Ends(j) ==
  /\ status[j] \in Unfinished
  /\ \E s \in Outcome : status' = [status EXCEPT ![j] = s]
  /\ UNCHANGED of

(* One sweep ends the jobs of several devices, reservations excepted. *)
TimesOut(J) ==
  /\ \A j \in J : status[j] \in InProgress
  /\ status' = [j \in JobIds |-> IF j \in J THEN "failed" ELSE status[j]]
  /\ UNCHANGED of

LNext ==
  \/ \E k \in JobIds, d \in Devices : Requests(k, d)
  \/ \E j \in JobIds : MovesOn(j) \/ Ends(j)
  \/ \E J \in SUBSET JobIds : TimesOut(J)

LSpec == LInit /\ [][LNext]_lvars
=============================================================================
