------------------------------ MODULE OtaUpgrade ------------------------------
(***************************************************************************)
(* OtaJobs closed with the devices it upgrades.  A device (firmware code,  *)
(* outside this repository, modelled from what its requests and reports    *)
(* mean to the handlers) reports the version it runs, takes an offer that  *)
(* is newer or forced, boots it, and then confirms it or rolls back.  Its  *)
(* reports travel over MQTT: one may arrive late, twice, after a newer one *)
(* or never, so a message once sent stays deliverable.                     *)
(***************************************************************************)
EXTENDS OtaJobs

CONSTANT BaseVersions  \* what a device may run when it leaves the factory

ASSUME BaseAssumption == BaseVersions \subseteq Versions
ASSUME UnitReportAssumption ==
  {"downloading", "rebooting", "succeeded", "failed", "rolled_back"} \subseteq ReportStates

VARIABLES unit,  \* the physical devices
          sent   \* every ota.report published so far

uvars == <<job, device, visible, txn, trace, unit, sent>>

Fresh(v) == [runs |-> v, ran |-> {v}, phase |-> "idle", image |-> None, offer |-> None]

UInit ==
  /\ Init
  /\ \E base \in [Devices -> BaseVersions] : unit = [d \in Devices |-> Fresh(base[d])]
  /\ sent = {}

-----------------------------------------------------------------------------
(* The firmware block of a check's response. *)
HandOver(w) == LET j == txn[w].offer IN
  IF j = None THEN unit
  ELSE [unit EXCEPT ![job[j].dev].offer = [fw |-> job[j].fw, force |-> job[j].force]]

DeviceCheck(w) == \E d \in Devices, git \in BOOLEAN :
  /\ \E rep \in {unit[d].runs, None} : Check(w, d, rep, git)
  /\ UNCHANGED <<unit, sent>>

DeviceReport(w) == (\E m \in sent : Report(w, m)) /\ UNCHANGED <<unit, sent>>

Respond(w) == Commit(w) /\ unit' = HandOver(w) /\ UNCHANGED sent

(* FastAPI runs the commit of get_db after the response is sent: the       *)
(* device may hold an offer whose transaction is then lost.                *)
Fail(w) ==
  /\ Refuse(w) \/ Abort(w)
  /\ unit' \in {unit, HandOver(w)}
  /\ UNCHANGED sent

(* The steps of OtaJobs that no device takes part in. *)
ServerStep ==
  /\ \/ \E w \in Workers : \/ UserTrigger(w)
                           \/ SweepTimedOutJobs(w)
                           \/ PushJobTerminal(w)
     \/ \E j \in JobIds : Age(j)
     \/ \E f \in Firmware : Publish(f) \/ Retire(f)
  /\ UNCHANGED <<unit, sent>>

-----------------------------------------------------------------------------
Publishes(d, state, v) ==
  /\ sent' = sent \cup {[dev |-> d, state |-> state, version |-> v]}
  /\ UNCHANGED vars

UnitStarts(d) == LET o == unit[d].offer IN
  /\ unit[d].phase = "idle" /\ o # None
  /\ o.force \/ VersionLt(unit[d].runs, o.fw)
  /\ unit' = [unit EXCEPT ![d].phase = "working", ![d].image = o.fw, ![d].offer = None]
  /\ Publishes(d, "downloading", None)

UnitFails(d) ==
  /\ unit[d].phase = "working"
  /\ unit' = [unit EXCEPT ![d].phase = "idle", ![d].image = None]
  /\ Publishes(d, "failed", None)

UnitBoots(d) ==
  /\ unit[d].phase = "working"
  /\ unit' = [unit EXCEPT ![d].phase = "booted", ![d].image = unit[d].runs,
                          ![d].runs = unit[d].image, ![d].ran = @ \cup {unit[d].image}]
  /\ Publishes(d, "rebooting", None)

UnitConfirms(d) ==
  /\ unit[d].phase = "booted"
  /\ unit' = [unit EXCEPT ![d].phase = "idle", ![d].image = None]
  /\ Publishes(d, "succeeded", unit[d].runs)

UnitRollsBack(d) ==
  /\ unit[d].phase = "booted"
  /\ unit' = [unit EXCEPT ![d].phase = "idle", ![d].image = None, ![d].runs = unit[d].image]
  /\ Publishes(d, "rolled_back", unit[d].image)

UnitStep(d) ==
  UnitStarts(d) \/ UnitFails(d) \/ UnitBoots(d) \/ UnitConfirms(d) \/ UnitRollsBack(d)

UNext ==
  \/ \E w \in Workers : DeviceCheck(w) \/ DeviceReport(w) \/ Respond(w) \/ Fail(w)
  \/ ServerStep
  \/ \E d \in Devices : UnitStep(d)

USpec == UInit /\ [][UNext]_uvars

-----------------------------------------------------------------------------
Installed(j) == \E v \in unit[job[j].dev].ran : v \in Nat /\ v >= job[j].fw

(* A job the check closes because its device is on target is closed for a  *)
(* device that has run the target or something newer, also when the check  *)
(* carries no version and the column, fed by late and repeated reports,    *)
(* decides (process_check).                                                *)
OnTargetMeansInstalled == \A j \in JobIds :
  job[j].why \in {"confirmed_by_check", "already_on_target"} => Installed(j)

(* A job moves as drawn over DeviceOtaJob: forward along the chain (states *)
(* may be skipped, reports get lost), to failed from the three states of a *)
(* device at work, to rolled_back and superseded from every unfinished     *)
(* state.  process_check and the sweep do not keep to it: see the README.  *)
Stage == [requested |-> 0, notified |-> 1, downloading |-> 2, installing |-> 3,
          rebooting |-> 4, succeeded |-> 5]

MovesAsDrawn == [][\A j \in JobIds : LET old == job[j].status
                                         new == job'[j].status IN
  old \in Active /\ new # old =>
    \/ new \in {"rolled_back", "superseded"}
    \/ new = "failed" /\ old \in Progress
    \/ new \in DOMAIN Stage /\ Stage[old] < Stage[new]]_uvars

(* The version the server shows for a device is one the device has run.    *)
ShownVersionWasRun == \A d \in Devices : device[d].current \in unit[d].ran \cup {None}
=============================================================================
