------------------------------- MODULE OtaJobs -------------------------------
(***************************************************************************)
(* Firmware upgrade jobs of the api service (api/modules/device/ota.py):   *)
(* the device check, the upgrade trigger, the device's ota.report, the     *)
(* timeout sweep and the unbind, against the tables device_ota_jobs,       *)
(* devices and firmware_versions.                                          *)
(*                                                                         *)
(* A handler runs in one READ COMMITTED transaction that selects rows      *)
(* without locking them, decides on the copies it holds, and updates rows  *)
(* by primary key when it commits.  A handler is therefore a read step,    *)
(* which fixes everything the transaction will write, and Commit, which    *)
(* writes it to whatever the rows have become.  The api runs replicas of   *)
(* an asyncio server, so transactions of several Workers interleave.  A    *)
(* FCM push follows the commit in a step of its own.                       *)
(***************************************************************************)
EXTENDS Naturals, FiniteSets

CONSTANTS
  Workers,       \* concurrent transactions of the api replicas
  Devices,
  Users,
  JobIds,        \* primary keys a new row may take; bounds the upgrades
  Firmware,      \* versions of firmware_versions, as parsed numbers
  Versions,      \* what a device may say it runs; not all need to parse
  Requesters,    \* users, and Script for the internal path
  ReportStates,  \* the states a device reports in ota.report
  PushCap,       \* pushes of a job are counted up to this bound
  Script,        \* requested_by of the internal trigger
  None           \* SQL NULL, an absent header, an unused field

ASSUME FirmwareAssumption == Firmware \subseteq Versions \cap Nat
ASSUME RequesterAssumption == Requesters \subseteq Users \cup {Script} /\ Script \notin Users
ASSUME PushCapAssumption == PushCap \in Nat
ASSUME ReportAssumption ==
  ReportStates \subseteq {"downloading", "installing", "rebooting",
                          "succeeded", "failed", "rolled_back"}

Aware    == {"notified", "downloading", "installing", "rebooting"}
Active   == {"requested"} \cup Aware
Terminal == {"succeeded", "failed", "rolled_back", "superseded"}
Pushed   == {"succeeded", "failed", "rolled_back"}
Progress == {"downloading", "installing", "rebooting"}
Reasons  == {"firmware", "confirmed_by_check", "already_on_target", "replaced",
             "timeout", "unbound", "version"}

NewJob == [fw : Firmware, force : BOOLEAN, by : Users \cup {Script}]

ASSUME NoneAssumption ==
  /\ None \notin Devices \cup Users \cup JobIds \cup Versions \cup {Script}
  /\ None \notin NewJob
  /\ None \notin Active \cup Terminal \cup Reasons

VARIABLES
  job,      \* device_ota_jobs
  device,   \* devices: owner, binding, last recorded version
  visible,  \* firmware_versions: visibility
  txn,      \* per worker, what its open transaction will write
  trace     \* per job, what happened to the row and to its pushes

vars == <<job, device, visible, txn, trace>>

NewTrace == [aware |-> FALSE, pushes |-> 0]

(* A transaction's writes: the rows upd get status to (None: only another  *)
(* column, so the status is left alone) and reason why; the device row     *)
(* gets version cur when dirty; ins is the row to insert; offer the job    *)
(* whose firmware the HTTP response hands to the device; push whether      *)
(* terminal pushes follow.                                                 *)
Idle == [op |-> "idle", dev |-> None, upd |-> {}, to |-> None, why |-> None,
         dirty |-> FALSE, cur |-> None, ins |-> None, offer |-> None,
         push |-> FALSE]

Row(d, f, force, by) ==
  [status |-> "requested", dev |-> d, fw |-> f, force |-> force, by |-> by,
   why |-> None, stale |-> FALSE]

NoRow == [status |-> "absent", dev |-> None, fw |-> None, force |-> FALSE,
          by |-> None, why |-> None, stale |-> FALSE]

-----------------------------------------------------------------------------
(* version_lt: FALSE when either side does not parse as a semver. *)
(* mutant: compared the wrong way round *)
VersionGt(a, b) == a \in Nat /\ b \in Nat /\ b < a

VersionLt(a, b) == a \in Nat /\ b \in Nat /\ a < b

(* mutant: the status filter of find_active_job is lost *)
AnyJobs(d) == {j \in JobIds : job[j].dev = d /\ job[j].status # "absent"}

ActiveJobs(d) == {j \in JobIds : job[j].dev = d /\ job[j].status \in Active}

Released(f) == visible[f] = "released"

Begin(w, writes) ==
  /\ txn[w].op = "idle"
  /\ txn' = [txn EXCEPT ![w] = writes]
  /\ UNCHANGED <<job, device, visible, trace>>

(* SQLAlchemy emits a column only when it differs from the copy loaded. *)
StoreVersion(writes, d, v) ==
  IF device[d].current = v THEN writes
                           ELSE [writes EXCEPT !.dirty = TRUE, !.cur = v]

-----------------------------------------------------------------------------
(* POST /v1/device/ota: get_ota_config calling process_check.  The device  *)
(* reports the version it runs (rep), or no version (old firmware), or     *)
(* only a git sha, which still overwrites the version column.              *)

CheckWrites(d, rep, git) ==
  LET writes == [Idle EXCEPT !.op = "open", !.dev = d]
  IN IF rep # None \/ git THEN StoreVersion(writes, d, rep) ELSE writes

CurrentAtCheck(d, rep, git) ==
  IF rep # None THEN rep ELSE IF git THEN None ELSE device[d].current

OnTarget(j, current) ==
  ~job[j].force /\ current # None /\ ~VersionLt(current, job[j].fw)

CheckNoJob(w, d, rep, git) ==
  /\ ActiveJobs(d) = {}
  /\ Begin(w, CheckWrites(d, rep, git))

(* mutant: every on-target job is superseded, as before the fix *)
CheckSupersedes(w, d, rep, git) == \E j \in ActiveJobs(d) :
  /\ OnTarget(j, CurrentAtCheck(d, rep, git))
  /\ Begin(w, [CheckWrites(d, rep, git) EXCEPT
                 !.upd = {j}, !.to = "superseded", !.why = "already_on_target"])

(* mutant: every on-target job is confirmed *)
CheckConfirms(w, d, rep, git) == \E j \in ActiveJobs(d) :
  /\ OnTarget(j, CurrentAtCheck(d, rep, git))
  /\ Begin(w, [CheckWrites(d, rep, git) EXCEPT
                 !.upd = {j}, !.to = "succeeded", !.why = "confirmed_by_check", !.push = TRUE])

CheckOnTarget(w, d, rep, git) == \E j \in ActiveJobs(d) :
  /\ OnTarget(j, CurrentAtCheck(d, rep, git))
  /\ LET handed == job[j].status \in Aware
     IN Begin(w, [CheckWrites(d, rep, git) EXCEPT
                    !.upd = {j},
                    !.to = IF handed THEN "succeeded" ELSE "superseded",
                    !.why = IF handed THEN "confirmed_by_check" ELSE "already_on_target",
                    !.push = handed])

(* mutant: the offered version is recorded before it is installed *)
CheckOfferRecords(w, d, rep, git) == \E j \in ActiveJobs(d) :
  /\ ~OnTarget(j, CurrentAtCheck(d, rep, git))
  /\ Begin(w, [StoreVersion(CheckWrites(d, rep, git), d, job[j].fw) EXCEPT
                 !.upd = IF job[j].status = "notified" THEN {} ELSE {j},
                 !.to = "notified", !.offer = j])

CheckOffer(w, d, rep, git) == \E j \in ActiveJobs(d) :
  /\ ~OnTarget(j, CurrentAtCheck(d, rep, git))
  /\ Begin(w, [CheckWrites(d, rep, git) EXCEPT
                 !.upd = IF job[j].status = "notified" THEN {} ELSE {j},
                 !.to = "notified",
                 !.offer = j])

CheckPresignFails(w, d, rep, git) == \E j \in ActiveJobs(d) :
  /\ ~OnTarget(j, CurrentAtCheck(d, rep, git))
  /\ Begin(w, CheckWrites(d, rep, git))

Check(w, d, rep, git) ==
  \/ CheckNoJob(w, d, rep, git)
  \/ CheckOnTarget(w, d, rep, git)
  \/ CheckOffer(w, d, rep, git)
  \/ CheckPresignFails(w, d, rep, git)

-----------------------------------------------------------------------------
(* POST /v1/device/{id}/firmware/upgrade: trigger_firmware_upgrade calling *)
(* create_upgrade_job.  The 404 and 409 answers roll back, so they change  *)
(* nothing.  Ownership is the user_id column; binding_status is not read.  *)
(* Without an id the latest released build is taken, which a user could    *)
(* also have named.                                                        *)

Found(f, force) == force \/ Released(f)

(* mutant: no 409, a job in flight is replaced *)
TriggerAnyway(w, d, f, force, by) ==
  /\ by # Script => device[d].user = by
  /\ force => by = Script
  /\ Found(f, force)
  /\ Begin(w, [Idle EXCEPT
                 !.op = "open", !.dev = d,
                 !.upd = ActiveJobs(d), !.to = "superseded", !.why = "replaced",
                 !.ins = [fw |-> f, force |-> force, by |-> by]])

Trigger(w, d, f, force, by) ==
  /\ by # Script => device[d].user = by
  /\ force => by = Script
  /\ \A j \in ActiveJobs(d) : job[j].status = "requested"
  /\ Found(f, force)
  /\ Begin(w, [Idle EXCEPT
                 !.op = "open", !.dev = d,
                 !.upd = ActiveJobs(d), !.to = "superseded", !.why = "replaced",
                 !.ins = [fw |-> f, force |-> force, by |-> by]])

-----------------------------------------------------------------------------
(* ota.report over the webhook: _handle_ota_report calling                 *)
(* apply_ota_report.  The version a report carries is never compared with  *)
(* the job it closes, and any report may come at any time: MQTT may delay, *)
(* repeat and drop it.                                                     *)

Messages == [dev : Devices, state : ReportStates, version : Versions \cup {None}]

ReportWrites(d) == [Idle EXCEPT !.op = "open", !.dev = d]

ReportNoJob(w, m) ==
  /\ ActiveJobs(m.dev) = {}
  /\ m.state = "succeeded" /\ m.version # None
  /\ Begin(w, StoreVersion(ReportWrites(m.dev), m.dev, m.version))

ReportSucceeded(w, m) == \E j \in ActiveJobs(m.dev) :
  /\ m.state = "succeeded"
  /\ Begin(w, [StoreVersion(ReportWrites(m.dev), m.dev,
                            IF m.version # None THEN m.version ELSE job[j].fw)
               EXCEPT !.upd = {j}, !.to = "succeeded", !.push = TRUE])

ReportFailed(w, m) == \E j \in ActiveJobs(m.dev) :
  /\ m.state \in {"failed", "rolled_back"}
  /\ Begin(w, [ReportWrites(m.dev) EXCEPT
                 !.upd = {j}, !.to = m.state, !.push = TRUE,
                 !.why = IF m.version # None THEN "version" ELSE None])

(* A repeated status writes at most a new progress_pct (pct). *)
ReportProgress(w, m) == \E j \in ActiveJobs(m.dev), pct \in BOOLEAN :
  /\ m.state \in Progress
  /\ pct => m.state = "downloading"
  /\ LET same == job[j].status = m.state
     IN Begin(w, [ReportWrites(m.dev) EXCEPT
                    !.upd = IF same /\ ~pct THEN {} ELSE {j},
                    !.to = IF same THEN None ELSE m.state])

Report(w, m) ==
  \/ ReportNoJob(w, m)
  \/ ReportSucceeded(w, m)
  \/ ReportFailed(w, m)
  \/ ReportProgress(w, m)

-----------------------------------------------------------------------------
(* The 30 s sweep of every replica, and the clock it looks at. *)

(* mutant: only notified jobs are swept *)
StaleNotifiedJobs == {j \in JobIds : job[j].status = "notified" /\ job[j].stale}

StaleJobs == {j \in JobIds : job[j].status \in Aware /\ job[j].stale}

SweepTimedOutJobs(w) ==
  /\ StaleJobs # {}
  /\ Begin(w, [Idle EXCEPT !.op = "open", !.upd = StaleJobs, !.to = "failed",
                           !.why = "timeout", !.push = TRUE])

(* OTA_JOB_TIMEOUT_SECS pass since the row's updated_at. *)
Age(j) ==
  /\ job[j].status \in Active /\ ~job[j].stale
  /\ job' = [job EXCEPT ![j].stale = TRUE]
  /\ UNCHANGED <<device, visible, txn, trace>>

-----------------------------------------------------------------------------
(* The commit of get_db, of _handle_ota_report and of the sweep. *)

Rewrite(r, t) ==
  [r EXCEPT !.status = IF t.to = None THEN @ ELSE t.to,
            !.why = IF t.why = None THEN @ ELSE t.why,
            !.stale = FALSE]

(* The rows after the transaction of w, which inserts under key k. *)
RowsAfter(w, k) == [j \in JobIds |->
  IF j \in txn[w].upd THEN Rewrite(job[j], txn[w])
  ELSE IF j = k THEN Row(txn[w].dev, txn[w].ins.fw, txn[w].ins.force, txn[w].ins.by)
  ELSE job[j]]

(* uq_device_ota_jobs_one_active *)
OneActiveEach(rows) == \A i, j \in JobIds :
  /\ i # j
  /\ rows[i].status \in Active
  /\ rows[j].status \in Active
  => rows[i].dev # rows[j].dev

UniqueActive(rows) == OneActiveEach(rows)

Traced(rows) == [j \in JobIds |->
  [trace[j] EXCEPT !.aware = @ \/ rows[j].status \in Aware]]

Finish(w) == txn' = [txn EXCEPT ![w] =
  IF @.push THEN [Idle EXCEPT !.op = "push", !.upd = txn[w].upd, !.to = txn[w].to] ELSE Idle]

NewKeys(w) == IF txn[w].ins = None THEN {None} ELSE {k \in JobIds : job[k].status = "absent"}

Commit(w) == \E k \in NewKeys(w) :
  /\ txn[w].op = "open"
  /\ UniqueActive(RowsAfter(w, k))
  /\ job' = RowsAfter(w, k)
  /\ trace' = Traced(RowsAfter(w, k))
  /\ device' = IF txn[w].dirty THEN [device EXCEPT ![txn[w].dev].current = txn[w].cur]
                                ELSE device
  /\ Finish(w)
  /\ UNCHANGED visible

Lose(w) ==
  /\ txn' = [txn EXCEPT ![w] = Idle]
  /\ UNCHANGED <<job, device, visible, trace>>

(* The unique index refuses the flush: IntegrityError, rolled back.  (Also *)
(* when an insert finds no key left of the bounded JobIds.)                *)
Refuse(w) ==
  /\ txn[w].op = "open"
  /\ \A k \in NewKeys(w) : ~UniqueActive(RowsAfter(w, k))
  /\ Lose(w)

(* Postgres breaks a deadlock, the connection or the replica dies.  The    *)
(* pushes of a committed transaction are lost with the replica.            *)
Abort(w) == txn[w].op # "idle" /\ Lose(w)

(* push_job_terminal, one job of the transaction after the other; only the *)
(* number of pushes is kept.                                               *)
PushJobTerminal(w) == \E j \in txn[w].upd :
  /\ txn[w].op = "push"
  /\ trace' = [trace EXCEPT ![j].pushes = IF @ = PushCap THEN @ ELSE @ + 1]
  /\ txn' = [txn EXCEPT ![w] = IF @.upd = {j} THEN Idle ELSE [@ EXCEPT !.upd = txn[w].upd \ {j}]]
  /\ UNCHANGED <<job, device, visible>>

-----------------------------------------------------------------------------
(* DELETE /v1/device/{id}: unbind_device.  The device row is read before   *)
(* the factory.reset and its two-second wait; the UPDATE of the jobs is    *)
(* evaluated when it runs.                                                 *)

UnbindRead(w, d) ==
  Begin(w, [Idle EXCEPT !.op = "unbind", !.dev = d, !.dirty = device[d].bound])

UnbindCommit(w) == LET d == txn[w].dev IN
  /\ txn[w].op = "unbind"
  /\ device' = IF txn[w].dirty THEN [device EXCEPT ![d].bound = FALSE] ELSE device
  /\ job' = [j \in JobIds |->
       IF j \in ActiveJobs(d)
       THEN [job[j] EXCEPT !.status = "superseded", !.why = "unbound", !.stale = FALSE]
       ELSE job[j]]
  /\ trace' = Traced(job')
  /\ txn' = [txn EXCEPT ![w] = Idle]
  /\ UNCHANGED visible

(* Provisioning binds an unbound device to a user (device.register and     *)
(* bind_device do the same to these columns).                              *)
Rebind(d, u) ==
  /\ ~device[d].bound
  /\ device' = [device EXCEPT ![d].user = u, ![d].bound = TRUE]
  /\ UNCHANGED <<job, visible, txn, trace>>

-----------------------------------------------------------------------------
(* publish and retire of /internal/ota/versions *)

SetVisibility(f, v) ==
  /\ visible' = [visible EXCEPT ![f] = v]
  /\ UNCHANGED <<job, device, txn, trace>>

Publish(f) == visible[f] # "released" /\ SetVisibility(f, "released")

Retire(f) == SetVisibility(f, "retired")

-----------------------------------------------------------------------------
Init ==
  /\ job = [j \in JobIds |-> NoRow]
  /\ device \in [Devices -> [user : Users, bound : {TRUE}, current : {None}]]
  /\ visible = [f \in Firmware |-> "draft"]
  /\ txn = [w \in Workers |-> Idle]
  /\ trace = [j \in JobIds |-> NewTrace]

UserTrigger(w) == \E d \in Devices, f \in Firmware, force \in BOOLEAN, by \in Requesters :
  Trigger(w, d, f, force, by)

Request(w) ==
  \/ \E d \in Devices, rep \in Versions \cup {None}, git \in BOOLEAN : Check(w, d, rep, git)
  \/ UserTrigger(w)
  \/ \E m \in Messages : Report(w, m)
  \/ SweepTimedOutJobs(w)
  \/ \E d \in Devices : UnbindRead(w, d)

WorkerStep(w) ==
  Request(w) \/ Commit(w) \/ UnbindCommit(w) \/ PushJobTerminal(w) \/ Refuse(w) \/ Abort(w)

Next ==
  \/ \E w \in Workers : WorkerStep(w)
  \/ \E j \in JobIds : Age(j)
  \/ \E d \in Devices, u \in Users : Rebind(d, u)
  \/ \E f \in Firmware : Publish(f) \/ Retire(f)

Spec == Init /\ [][Next]_vars
-----------------------------------------------------------------------------
JobRow ==
  [status : {"absent"} \cup Active \cup Terminal, dev : Devices \cup {None},
   fw : Firmware \cup {None}, force : BOOLEAN, by : Users \cup {Script, None},
   why : Reasons \cup {None}, stale : BOOLEAN]

Writes ==
  [op : {"idle", "open", "unbind", "push"}, dev : Devices \cup {None},
   upd : SUBSET JobIds, to : Active \cup Terminal \cup {None},
   why : Reasons \cup {None}, dirty : BOOLEAN, cur : Versions \cup {None},
   ins : NewJob \cup {None}, offer : JobIds \cup {None}, push : BOOLEAN]

(* Type invariant: every table and transaction holds values of its         *)
(* columns' domains, and a row that exists has its device and its build.   *)
TypeOK ==
  /\ job \in [JobIds -> JobRow]
  /\ \A j \in JobIds : job[j].status # "absent" => job[j].dev \in Devices /\ job[j].fw \in Firmware
  /\ device \in [Devices -> [user : Users, bound : BOOLEAN, current : Versions \cup {None}]]
  /\ visible \in [Firmware -> {"draft", "released", "retired"}]
  /\ txn \in [Workers -> Writes]
  /\ trace \in [JobIds -> [aware : BOOLEAN, pushes : 0..PushCap]]

(* A device has at most one unfinished upgrade.  The index says no more;   *)
(* the proofs rest on it.                                                  *)
OneActivePerDevice == OneActiveEach(job)

(* A reservation for an offline device is never swept: a job closed as     *)
(* timed out had been handed to its device (DEVICE_AWARE_STATUSES in       *)
(* sweep_timed_out_jobs).                                                  *)
TimedOutWasHandedOver == \A j \in JobIds : job[j].why = "timeout" => trace[j].aware

(* A job the check closes as succeeded had been handed over to the device  *)
(* (the on-target branch of process_check).                                *)
ConfirmedWasHandedOver == \A j \in JobIds :
  job[j].why = "confirmed_by_check" => trace[j].aware

(* The App is told of an outcome only by the transaction that wrote this   *)
(* outcome to the job, and only once it has committed (get_ota_config,     *)
(* _handle_ota_report and sweep_timed_out_jobs).                           *)
PushFollowsCommit == [][\A w \in Workers :
  txn'[w].op = "push" /\ txn[w].op # "push" =>
    /\ txn'[w].to \in Pushed
    /\ \A j \in txn'[w].upd : job'[j].status = txn'[w].to]_vars

(* The App is told at most once that a job ended (_push_needed).           *)
PushedAtMostOnce == \A j \in JobIds : trace[j].pushes <= 1

(* A job's outcome is final: a terminal row never changes status again     *)
(* (every handler starts from find_active_job).                            *)
TerminalIsFinal == [][\A j \in JobIds :
  job[j].status \in Terminal => job'[j].status = job[j].status]_vars

(* The job table keeps what OtaLifecycle says of the drawn lifecycle: a    *)
(* new job only over reservations, one end per job, timeouts only of jobs  *)
(* handed over (every handler, when requests do not overlap).              *)
Lifecycle == INSTANCE OtaLifecycle WITH
  status <- [j \in JobIds |-> job[j].status], of <- [j \in JobIds |-> job[j].dev]

FollowsLifecycle == Lifecycle!LSpec

(* Superseding is for jobs that never started: a job the device was told   *)
(* of is not replaced or dropped as already on target (create_upgrade_job  *)
(* refuses with 409, process_check closes it as succeeded), and one that   *)
(* is replaced has its successor, the 404 rolls it back (get_db).          *)
SupersededNeverStarted == \A j \in JobIds :
  /\ job[j].status = "superseded" /\ job[j].why \in {"replaced", "already_on_target"}
       => ~trace[j].aware
  /\ job[j].why = "replaced" => \E k \in JobIds \ {j} : job[k].dev = job[j].dev

(* Fairness: the sweep loop of a replica runs every 30 s and some of its   *)
(* transactions get through although requests compete with it and single   *)
(* transactions fail; time passes.                                         *)
SweepCommits(w) == txn[w].why = "timeout" /\ Commit(w)

Fairness ==
  /\ \A w \in Workers :
       /\ WF_vars(Commit(w) \/ Refuse(w) \/ UnbindCommit(w) \/ PushJobTerminal(w))
       /\ SF_vars(SweepTimedOutJobs(w))
       /\ SF_vars(SweepCommits(w))
  /\ \A j \in JobIds : WF_vars(Age(j))

LiveSpec == Spec /\ Fairness

DeviceTalks == \E w \in Workers :
  \/ \E d \in Devices, rep \in Versions \cup {None}, git \in BOOLEAN : Check(w, d, rep, git)
  \/ \E m \in Messages : Report(w, m)

(* Once the devices have gone quiet, every job one of them was handed ends *)
(* (the timeout sweep frees the device for another upgrade).               *)
QuietDeviceJobEnds == <>[][~DeviceTalks]_vars =>
  \A j \in JobIds : job[j].status \in Aware ~> job[j].status \in Terminal
=============================================================================
