------------------------------- MODULE OtaProofs -------------------------------
(***************************************************************************)
(* Theorems of OtaJobs, and of OtaUpgrade, the loop of server and devices, *)
(* for every number of workers, devices, users, jobs and builds.           *)
(*                                                                         *)
(* What holds however requests overlap rests on what an open transaction   *)
(* may hold (Inv).  What the service promises of one request at a time is  *)
(* proved where there is one worker (Alone): an open transaction then      *)
(* still speaks of the rows as they are (Planned), so that a commit takes  *)
(* a job along its lifecycle and the App is told of its end once           *)
(* (SerialInv).                                                            *)
(*                                                                         *)
(* A step of the loop is one of OtaJobs or none at all (LoopStepIsStep),   *)
(* so the invariants of OtaJobs hold in the loop.  The version the server  *)
(* shows is one the device has run because every report in flight and      *)
(* every open transaction names such a version (LoopInv).  That a job      *)
(* closed as on target is closed for a device that has run its build or a  *)
(* newer one rests, besides, on the versions a device has run being        *)
(* versions that compare (TargetInv).                                      *)
(***************************************************************************)
EXTENDS OtaUpgrade, TLAPS

(* What an open transaction may hold: it updates rows that exist, inserts  *)
(* for a device, pushes only outcomes, and closes as timed out or as       *)
(* confirmed only jobs that were handed over.                              *)
Sound(t, rows, traces) ==
  /\ \A j \in t.upd : rows[j].status # "absent"
  /\ t.ins # None => t.dev \in Devices
  /\ t.push => t.to \in Pushed
  /\ t.op = "push" => t.to \in Pushed
  /\ t.why \in {"timeout", "confirmed_by_check"} => \A j \in t.upd : traces[j].aware

WritesOK(t) == Sound(t, job, trace)

TxnOK == \A w \in Workers : WritesOK(txn[w])

AwareTraced == \A j \in JobIds : job[j].status \in Aware => trace[j].aware

Inv ==
  /\ TypeOK
  /\ TxnOK
  /\ AwareTraced
  /\ OneActivePerDevice
  /\ TimedOutWasHandedOver
  /\ ConfirmedWasHandedOver

-----------------------------------------------------------------------------
(* Opening a transaction disturbs nothing but its worker's entry. *)
LEMMA BeginInv ==
  ASSUME Inv, NEW w \in Workers, NEW t \in Writes, WritesOK(t), Begin(w, t)
  PROVE  Inv'
<1> USE DEF Inv
<1>1. txn' = [txn EXCEPT ![w] = t] /\ UNCHANGED <<job, device, visible, trace>>
  BY DEF Begin
<1>2. TypeOK'
  BY <1>1 DEF TypeOK
<1>3. TxnOK'
  <2> SUFFICES ASSUME NEW v \in Workers PROVE WritesOK(txn[v])'
    BY DEF TxnOK
  <2>1. CASE v = w
    BY <1>1, <2>1 DEF TypeOK, WritesOK, Sound
  <2>2. CASE v # w
    BY <1>1, <2>2 DEF TypeOK, TxnOK, WritesOK, Sound
  <2> QED BY <2>1, <2>2
<1>4. AwareTraced' /\ OneActivePerDevice' /\ TimedOutWasHandedOver' /\ ConfirmedWasHandedOver'
  BY <1>1 DEF AwareTraced, OneActivePerDevice, OneActiveEach, TimedOutWasHandedOver,
              ConfirmedWasHandedOver
<1> QED BY <1>2, <1>3, <1>4

LEMMA IdleType == Idle \in Writes /\ WritesOK(Idle)
BY DEF Idle, Writes, WritesOK, Sound

(* A transaction that closes or advances one existing job. *)
LEMMA ActiveJobPresent ==
  ASSUME TypeOK, NEW d, NEW j \in ActiveJobs(d)
  PROVE  j \in JobIds /\ job[j].status \in Active /\ job[j].status # "absent"
         /\ job[j].fw \in Firmware
BY DEF ActiveJobs, TypeOK, JobRow, Active, Aware

(* A transaction that closes no job without a push of its outcome. *)
LEMMA UpdateOK ==
  ASSUME NEW t, NEW j, job[j].status # "absent",
         t.upd \subseteq {j}, t.ins = None, t.why = None, t.op = "open", t.push = FALSE
  PROVE  WritesOK(t)
BY NoneAssumption DEF WritesOK, Sound, Reasons

LEMMA StoreVersionType ==
  ASSUME NEW t \in Writes, NEW d, NEW v \in Versions \cup {None}
  PROVE  /\ StoreVersion(t, d, v) \in Writes
         /\ StoreVersion(t, d, v).dev = t.dev
         /\ StoreVersion(t, d, v).op = t.op
         /\ StoreVersion(t, d, v).upd = t.upd
         /\ StoreVersion(t, d, v).to = t.to
         /\ StoreVersion(t, d, v).why = t.why
         /\ StoreVersion(t, d, v).ins = t.ins
         /\ StoreVersion(t, d, v).push = t.push
         /\ StoreVersion(t, d, v).offer = t.offer
         /\ StoreVersion(t, d, v).cur \in {t.cur, v}
BY ZenonT(40) DEF StoreVersion, Writes

-----------------------------------------------------------------------------
LEMMA CheckWritesType ==
  ASSUME NEW d \in Devices, NEW rep \in Versions \cup {None}, NEW git \in BOOLEAN
  PROVE  /\ CheckWrites(d, rep, git) \in Writes
         /\ CheckWrites(d, rep, git).ins = None
         /\ CheckWrites(d, rep, git).upd = {}
         /\ CheckWrites(d, rep, git).why = None
         /\ CheckWrites(d, rep, git).op = "open"
         /\ CheckWrites(d, rep, git).push = FALSE
         /\ CheckWrites(d, rep, git).to = None
<1> DEFINE t == [Idle EXCEPT !.op = "open", !.dev = d]
<1>1. t \in Writes /\ t.ins = None /\ t.upd = {} /\ t.why = None /\ t.push = FALSE
      /\ t.op = "open" /\ t.to = None /\ t.dev = d /\ t.offer = None /\ t.cur = None
  BY DEF Idle, Writes
<1>2. CheckWrites(d, rep, git) = IF rep # None \/ git THEN StoreVersion(t, d, rep) ELSE t
  BY DEF CheckWrites
<1> HIDE DEF t
<1>3. CASE rep # None \/ git
  <2>1. CheckWrites(d, rep, git) = StoreVersion(t, d, rep)
    BY <1>2, <1>3
  <2> QED BY <1>1, <2>1, StoreVersionType
<1>4. CASE ~(rep # None \/ git)
  BY <1>1, <1>2, <1>4
<1> QED BY <1>3, <1>4

LEMMA CheckWritesFields ==
  ASSUME NEW d \in Devices, NEW rep \in Versions \cup {None}, NEW git \in BOOLEAN
  PROVE  /\ CheckWrites(d, rep, git).dev = d
         /\ CheckWrites(d, rep, git).offer = None
         /\ CheckWrites(d, rep, git).cur \in {None, rep}
<1> DEFINE t == [Idle EXCEPT !.op = "open", !.dev = d]
<1>1. t \in Writes /\ t.dev = d /\ t.offer = None /\ t.cur = None
  BY DEF Idle, Writes
<1>2. CheckWrites(d, rep, git) = IF rep # None \/ git THEN StoreVersion(t, d, rep) ELSE t
  BY DEF CheckWrites
<1> HIDE DEF t
<1> QED BY <1>1, <1>2, StoreVersionType

LEMMA CheckInv ==
  ASSUME Inv, NEW w \in Workers, NEW d \in Devices, NEW rep \in Versions \cup {None},
         NEW git \in BOOLEAN, Check(w, d, rep, git)
  PROVE  Inv'
<1> DEFINE c == CheckWrites(d, rep, git)
<1>0. c \in Writes /\ c.ins = None /\ c.upd = {} /\ c.why = None /\ c.push = FALSE
      /\ c.op = "open"
  BY CheckWritesType
<1> HIDE DEF c
<1>1. CASE CheckNoJob(w, d, rep, git) \/ CheckPresignFails(w, d, rep, git)
  <2>1. WritesOK(c)
    BY <1>0 DEF WritesOK, Sound
  <2> QED BY <1>0, <1>1, <2>1, BeginInv DEF CheckNoJob, CheckPresignFails, c
<1>2. CASE CheckOnTarget(w, d, rep, git)
  <2>1. PICK j \in ActiveJobs(d) : LET handed == job[j].status \in Aware IN
          Begin(w, [c EXCEPT
                      !.upd = {j},
                      !.to = IF handed THEN "succeeded" ELSE "superseded",
                      !.why = IF handed THEN "confirmed_by_check" ELSE "already_on_target",
                      !.push = handed])
    BY <1>2 DEF CheckOnTarget, c
  <2>2. j \in JobIds /\ job[j].status # "absent"
    BY ActiveJobPresent DEF Inv
  <2>3. CASE job[j].status \in Aware
    <3> DEFINE t == [c EXCEPT !.upd = {j}, !.to = "succeeded",
                              !.why = "confirmed_by_check", !.push = TRUE]
    <3>1. t \in Writes
      BY <1>0, <2>2 DEF Writes, Reasons, Terminal
    <3>2. trace[j].aware
      BY <2>2, <2>3 DEF Inv, AwareTraced
    <3>3. WritesOK(t)
      BY <1>0, <2>2, <3>2 DEF WritesOK, Sound, Pushed, Writes
    <3>4. Begin(w, t)
      BY <2>1, <2>3
    <3> QED BY <3>1, <3>3, <3>4, BeginInv
  <2>4. CASE job[j].status \notin Aware
    <3> DEFINE t == [c EXCEPT !.upd = {j}, !.to = "superseded",
                              !.why = "already_on_target", !.push = FALSE]
    <3>1. t \in Writes
      BY <1>0, <2>2 DEF Writes, Reasons, Terminal
    <3>2. WritesOK(t)
      BY <1>0, <2>2 DEF WritesOK, Sound, Writes
    <3>3. (job[j].status \in Aware) = FALSE
      BY <2>4
    <3>4. Begin(w, t)
      BY <2>1, <3>3
    <3> QED BY <3>1, <3>2, <3>4, BeginInv
  <2> QED BY <2>3, <2>4
<1>3. CASE CheckOffer(w, d, rep, git)
  <2>1. PICK j \in ActiveJobs(d) :
          Begin(w, [c EXCEPT !.upd = IF job[j].status = "notified" THEN {} ELSE {j},
                             !.to = "notified", !.offer = j])
    BY <1>3 DEF CheckOffer, c
  <2>2. j \in JobIds /\ job[j].status # "absent"
    BY ActiveJobPresent DEF Inv
  <2> DEFINE t == [c EXCEPT !.upd = IF job[j].status = "notified" THEN {} ELSE {j},
                            !.to = "notified", !.offer = j]
  <2>3. t \in Writes /\ t.upd \subseteq {j} /\ t.ins = None /\ t.why = None
        /\ t.op = "open" /\ t.push = FALSE
    BY <1>0, <2>2, ZenonT(40) DEF Writes, Active, Aware
  <2>4. Begin(w, t)
    BY <2>1
  <2> HIDE DEF t
  <2>5. WritesOK(t)
    BY <2>2, <2>3, UpdateOK
  <2> QED BY <2>3, <2>4, <2>5, BeginInv
<1> QED BY <1>1, <1>2, <1>3 DEF Check

-----------------------------------------------------------------------------
LEMMA TriggerInv ==
  ASSUME Inv, NEW w \in Workers, NEW d \in Devices, NEW f \in Firmware,
         NEW force \in BOOLEAN, NEW by \in Requesters, Trigger(w, d, f, force, by)
  PROVE  Inv'
<1> DEFINE t == [Idle EXCEPT !.op = "open", !.dev = d, !.upd = ActiveJobs(d),
                             !.to = "superseded", !.why = "replaced",
                             !.ins = [fw |-> f, force |-> force, by |-> by]]
<1>1. \A j \in ActiveJobs(d) : j \in JobIds /\ job[j].status # "absent"
  BY ActiveJobPresent DEF Inv
<1>2. by \in Users \cup {Script}
  BY RequesterAssumption
<1>3. t \in Writes
  BY <1>1, <1>2 DEF Idle, Writes, NewJob, Reasons, Terminal
<1>4. WritesOK(t)
  BY <1>1 DEF Idle, WritesOK, Sound
<1>5. Begin(w, t)
  BY DEF Trigger
<1> QED BY <1>3, <1>4, <1>5, BeginInv

LEMMA ReportWritesType ==
  ASSUME NEW d \in Devices
  PROVE  LET r == ReportWrites(d) IN
         /\ r \in Writes /\ r.ins = None /\ r.upd = {} /\ r.why = None
         /\ r.op = "open" /\ r.push = FALSE /\ r.to = None
         /\ r.dev = d /\ r.offer = None /\ r.cur = None
BY DEF ReportWrites, Idle, Writes

LEMMA ReportInv ==
  ASSUME Inv, NEW w \in Workers, NEW m \in Messages, Report(w, m)
  PROVE  Inv'
<1> DEFINE r == ReportWrites(m.dev)
<1>1. m.dev \in Devices /\ m.version \in Versions \cup {None} /\ m.state \in ReportStates
  BY DEF Messages
<1>2. r \in Writes /\ r.ins = None /\ r.upd = {} /\ r.why = None /\ r.op = "open"
      /\ r.push = FALSE
  BY <1>1, ReportWritesType
<1>3. \A j \in ActiveJobs(m.dev) :
        j \in JobIds /\ job[j].status # "absent" /\ job[j].fw \in Versions
  BY ActiveJobPresent, FirmwareAssumption DEF Inv
<1> HIDE DEF r
<1>4. CASE ReportNoJob(w, m)
  <2> DEFINE t == StoreVersion(r, m.dev, m.version)
  <2>1. t \in Writes /\ t.ins = None /\ t.upd = {} /\ t.why = None /\ t.op = "open"
        /\ t.push = FALSE
    BY <1>1, <1>2, StoreVersionType
  <2>2. Begin(w, t)
    BY <1>4 DEF ReportNoJob, r
  <2> HIDE DEF t
  <2>3. WritesOK(t)
    BY <2>1 DEF WritesOK, Sound
  <2> QED BY <2>1, <2>2, <2>3, BeginInv
<1>5. CASE ReportSucceeded(w, m)
  <2>1. PICK j \in ActiveJobs(m.dev) :
          Begin(w, [StoreVersion(r, m.dev, IF m.version # None THEN m.version ELSE job[j].fw)
                    EXCEPT !.upd = {j}, !.to = "succeeded", !.push = TRUE])
    BY <1>5 DEF ReportSucceeded, r
  <2> DEFINE v == IF m.version # None THEN m.version ELSE job[j].fw
             s == StoreVersion(r, m.dev, v)
             t == [s EXCEPT !.upd = {j}, !.to = "succeeded", !.push = TRUE]
  <2>2. j \in JobIds /\ job[j].status # "absent" /\ v \in Versions \cup {None}
    BY <1>1, <1>3
  <2> HIDE DEF v
  <2>3. s \in Writes /\ s.ins = None /\ s.why = None /\ s.op = "open"
    BY <1>2, <2>2, StoreVersionType
  <2>4. Begin(w, t)
    BY <2>1 DEF v
  <2> HIDE DEF s
  <2>5. t \in Writes
    BY <2>2, <2>3 DEF Writes, Terminal
  <2>6. WritesOK(t)
    BY <2>2, <2>3, NoneAssumption DEF WritesOK, Sound, Writes, Pushed, Reasons
  <2> QED BY <2>4, <2>5, <2>6, BeginInv
<1>6. CASE ReportFailed(w, m)
  <2>1. PICK j \in ActiveJobs(m.dev) :
          Begin(w, [r EXCEPT !.upd = {j}, !.to = m.state, !.push = TRUE,
                             !.why = IF m.version # None THEN "version" ELSE None])
    BY <1>6 DEF ReportFailed, r
  <2> DEFINE t == [r EXCEPT !.upd = {j}, !.to = m.state, !.push = TRUE,
                            !.why = IF m.version # None THEN "version" ELSE None]
  <2>2. j \in JobIds /\ job[j].status # "absent" /\ m.state \in {"failed", "rolled_back"}
    BY <1>3, <1>6 DEF ReportFailed
  <2>3. t \in Writes
    BY <1>2, <2>2, ZenonT(40) DEF Writes, Terminal, Reasons
  <2>4. t.upd = {j} /\ t.ins = None /\ t.to \in Pushed /\ t.why \in {"version", None}
        /\ t.op = "open"
    BY <1>2, <2>2 DEF Writes, Pushed
  <2>5. Begin(w, t)
    BY <2>1
  <2> HIDE DEF t
  <2>6. t.why \notin {"timeout", "confirmed_by_check"}
    BY <2>4, NoneAssumption DEF Reasons
  <2>7. WritesOK(t)
    BY <2>2, <2>4, <2>6 DEF WritesOK, Sound
  <2> QED BY <2>3, <2>5, <2>7, BeginInv
<1>7. CASE ReportProgress(w, m)
  <2>1. PICK j \in ActiveJobs(m.dev), pct \in BOOLEAN :
          LET same == job[j].status = m.state IN
          Begin(w, [r EXCEPT !.upd = IF same /\ ~pct THEN {} ELSE {j},
                             !.to = IF same THEN None ELSE m.state])
    BY <1>7 DEF ReportProgress, r
  <2> DEFINE same == job[j].status = m.state
             upd == IF same /\ ~pct THEN {} ELSE {j}
             to == IF same THEN None ELSE m.state
             t == [r EXCEPT !.upd = upd, !.to = to]
  <2>2. j \in JobIds /\ job[j].status # "absent" /\ m.state \in Progress
    BY <1>3, <1>7 DEF ReportProgress
  <2>3. Begin(w, t)
    BY <2>1
  <2>4. upd \in SUBSET JobIds /\ upd \subseteq {j} /\ to \in Active \cup {None}
    BY <2>2 DEF Active, Aware, Progress
  <2> HIDE DEF upd, to
  <2>6. t \in Writes /\ t.upd \subseteq {j} /\ t.ins = None /\ t.why = None
        /\ t.op = "open" /\ t.push = FALSE
    BY <1>2, <2>4 DEF Writes
  <2> HIDE DEF t
  <2>5. WritesOK(t)
    BY <2>2, <2>6, UpdateOK
  <2> QED BY <2>3, <2>5, <2>6, BeginInv
<1> QED BY <1>4, <1>5, <1>6, <1>7 DEF Report

LEMMA SweepInv ==
  ASSUME Inv, NEW w \in Workers, SweepTimedOutJobs(w)
  PROVE  Inv'
<1> DEFINE t == [Idle EXCEPT !.op = "open", !.upd = StaleJobs, !.to = "failed",
                             !.why = "timeout", !.push = TRUE]
<1>1. \A j \in StaleJobs : j \in JobIds /\ job[j].status # "absent" /\ trace[j].aware
  BY DEF Inv, AwareTraced, StaleJobs, Aware
<1>2. t \in Writes
  BY <1>1 DEF Idle, Writes, Reasons, Terminal
<1>3. WritesOK(t)
  BY <1>1 DEF Idle, WritesOK, Sound, Pushed
<1>4. Begin(w, t)
  BY DEF SweepTimedOutJobs
<1> QED BY <1>2, <1>3, <1>4, BeginInv

LEMMA UnbindReadInv ==
  ASSUME Inv, NEW w \in Workers, NEW d \in Devices, UnbindRead(w, d)
  PROVE  Inv'
<1> DEFINE t == [Idle EXCEPT !.op = "unbind", !.dev = d, !.dirty = device[d].bound]
<1>1. t \in Writes
  BY DEF Inv, TypeOK, Idle, Writes
<1>2. WritesOK(t)
  BY DEF Idle, WritesOK, Sound
<1>3. Begin(w, t)
  BY DEF UnbindRead
<1> QED BY <1>1, <1>2, <1>3, BeginInv

LEMMA RequestInv ==
  ASSUME Inv, NEW w \in Workers, Request(w)
  PROVE  Inv'
BY CheckInv, TriggerInv, ReportInv, SweepInv, UnbindReadInv DEF Request, UserTrigger

-----------------------------------------------------------------------------
(* What a commit makes of one row. *)
LEMMA RewriteType ==
  ASSUME NEW r \in JobRow, NEW t \in Writes
  PROVE  /\ Rewrite(r, t) \in JobRow
         /\ Rewrite(r, t).dev = r.dev
         /\ Rewrite(r, t).fw = r.fw
         /\ Rewrite(r, t).status = IF t.to = None THEN r.status ELSE t.to
         /\ Rewrite(r, t).why = IF t.why = None THEN r.why ELSE t.why
<1> DEFINE s == IF t.to = None THEN r.status ELSE t.to
           y == IF t.why = None THEN r.why ELSE t.why
<1>1. Rewrite(r, t) = [r EXCEPT !.status = s, !.why = y, !.stale = FALSE]
  BY DEF Rewrite
<1>2. s \in {"absent"} \cup Active \cup Terminal /\ y \in Reasons \cup {None}
  BY DEF JobRow, Writes
<1> HIDE DEF s, y
<1>3. Rewrite(r, t) \in JobRow /\ Rewrite(r, t).dev = r.dev /\ Rewrite(r, t).fw = r.fw
      /\ Rewrite(r, t).status = s /\ Rewrite(r, t).why = y
  BY <1>1, <1>2 DEF JobRow
<1> QED BY <1>3 DEF s, y

LEMMA RowType ==
  ASSUME NEW d \in Devices, NEW n \in NewJob
  PROVE  /\ Row(d, n.fw, n.force, n.by) \in JobRow
         /\ Row(d, n.fw, n.force, n.by).dev \in Devices
         /\ Row(d, n.fw, n.force, n.by).fw \in Firmware
         /\ Row(d, n.fw, n.force, n.by).status = "requested"
         /\ Row(d, n.fw, n.force, n.by).why = None
BY DEF Row, JobRow, NewJob, Active

(* The rows a commit leaves keep their types; a row is new, updated by the *)
(* transaction, or what it was.                                            *)
LEMMA RowsAfterType ==
  ASSUME Inv, NEW w \in Workers, NEW k \in NewKeys(w), NEW j \in JobIds
  PROVE  LET r == RowsAfter(w, k)[j] IN
         /\ r \in JobRow
         /\ r.status # "absent" => r.dev \in Devices /\ r.fw \in Firmware
         /\ job[j].status # "absent" => r.status # "absent"
         /\ \/ r.why = job[j].why
            \/ r.why = None
            \/ j \in txn[w].upd /\ r.why = txn[w].why
<1> DEFINE t == txn[w]
           r == RowsAfter(w, k)[j]
<1>1. t \in Writes /\ WritesOK(t) /\ job[j] \in JobRow
  BY DEF Inv, TypeOK, TxnOK
<1>2. r = IF j \in t.upd THEN Rewrite(job[j], t)
          ELSE IF j = k THEN Row(t.dev, t.ins.fw, t.ins.force, t.ins.by)
          ELSE job[j]
  BY DEF RowsAfter
<1>3. job[j].status # "absent" => job[j].dev \in Devices /\ job[j].fw \in Firmware
  BY DEF Inv, TypeOK
<1>4. "absent" \notin Active \cup Terminal
  BY DEF Active, Aware, Terminal
<1>5. CASE j \in t.upd
  <2>1. job[j].status # "absent"
    BY <1>1, <1>5 DEF WritesOK, Sound
  <2>2. t.to = None \/ t.to \in Active \cup Terminal
    BY <1>1 DEF Writes
  <2>3. r = Rewrite(job[j], t)
    BY <1>2, <1>5
  <2> HIDE DEF t, r
  <2>4. r \in JobRow /\ r.dev = job[j].dev /\ r.fw = job[j].fw
        /\ r.status = (IF t.to = None THEN job[j].status ELSE t.to)
        /\ r.why = (IF t.why = None THEN job[j].why ELSE t.why)
    BY <1>1, <2>3, RewriteType
  <2> QED BY <1>3, <1>4, <1>5, <2>1, <2>2, <2>4 DEF t, r
<1>6. CASE j \notin t.upd /\ j = k
  <2>1. t.ins # None /\ job[j].status = "absent"
    BY <1>6, NoneAssumption DEF NewKeys
  <2>2. t.ins \in NewJob /\ t.dev \in Devices
    BY <1>1, <2>1 DEF Writes, WritesOK, Sound
  <2>3. r = Row(t.dev, t.ins.fw, t.ins.force, t.ins.by)
    BY <1>2, <1>6
  <2> HIDE DEF t, r
  <2> QED BY <2>1, <2>2, <2>3, RowType DEF r
<1>7. CASE j \notin t.upd /\ j # k
  BY <1>1, <1>2, <1>3, <1>7
<1> QED BY <1>5, <1>6, <1>7

(* What a trace becomes: handed-over stays handed-over. *)
LEMMA TracedType ==
  ASSUME TypeOK, NEW rows
  PROVE  /\ Traced(rows) \in [JobIds -> [aware : BOOLEAN, pushes : 0..PushCap]]
         /\ \A j \in JobIds : trace[j].aware => Traced(rows)[j].aware
         /\ \A j \in JobIds : rows[j].status \in Aware => Traced(rows)[j].aware
<1> SUFFICES ASSUME NEW j \in JobIds
             PROVE  /\ Traced(rows)[j] \in [aware : BOOLEAN, pushes : 0..PushCap]
                    /\ trace[j].aware => Traced(rows)[j].aware
                    /\ rows[j].status \in Aware => Traced(rows)[j].aware
  BY DEF Traced
<1> DEFINE h == rows[j].status \in Aware
<1>1. trace[j] \in [aware : BOOLEAN, pushes : 0..PushCap] /\ h \in BOOLEAN
  BY DEF TypeOK
<1>2. Traced(rows)[j] = [trace[j] EXCEPT !.aware = trace[j].aware \/ h]
  BY DEF Traced
<1> HIDE DEF h
<1>3. CASE h
  <2>1. Traced(rows)[j] = [trace[j] EXCEPT !.aware = TRUE]
    BY <1>1, <1>2, <1>3
  <2> QED BY <1>1, <2>1
<1>4. CASE ~h
  <2>1. Traced(rows)[j] = [trace[j] EXCEPT !.aware = trace[j].aware]
    BY <1>1, <1>2, <1>4
  <2> QED BY <1>1, <1>4, <2>1 DEF h
<1> QED BY <1>3, <1>4

-----------------------------------------------------------------------------
(* A step that keeps rows present, traces growing and other transactions   *)
(* as they were keeps every transaction of another worker sound.           *)
LEMMA OthersStayOK ==
  ASSUME Inv, NEW w \in Workers, NEW t, txn' = [txn EXCEPT ![w] = t],
         Sound(t, job', trace'),
         \A j \in JobIds : job[j].status # "absent" => job'[j].status # "absent",
         \A j \in JobIds : trace[j].aware => trace'[j].aware
  PROVE  TxnOK'
<1> SUFFICES ASSUME NEW v \in Workers PROVE WritesOK(txn[v])'
  BY DEF TxnOK
<1>1. CASE v = w
  BY <1>1 DEF Inv, TypeOK, WritesOK
<1>2. CASE v # w
  <2>1. txn'[v] = txn[v] /\ txn[v] \in Writes /\ WritesOK(txn[v])
    BY <1>2 DEF Inv, TypeOK, TxnOK
  <2>2. txn[v].upd \subseteq JobIds
    BY <2>1 DEF Writes
  <2> QED BY <2>1, <2>2 DEF WritesOK, Sound
<1> QED BY <1>1, <1>2

LEMMA CommitInv ==
  ASSUME Inv, NEW w \in Workers, Commit(w)
  PROVE  Inv'
<1>1. PICK k \in NewKeys(w) :
        /\ txn[w].op = "open"
        /\ UniqueActive(RowsAfter(w, k))
        /\ job' = RowsAfter(w, k)
        /\ trace' = Traced(RowsAfter(w, k))
        /\ device' = IF txn[w].dirty THEN [device EXCEPT ![txn[w].dev].current = txn[w].cur]
                                      ELSE device
        /\ Finish(w)
        /\ UNCHANGED visible
  BY DEF Commit
<1> DEFINE t == txn[w]
           n == IF t.push THEN [Idle EXCEPT !.op = "push", !.upd = t.upd, !.to = t.to] ELSE Idle
<1>2. t \in Writes /\ WritesOK(t)
  BY DEF Inv, TypeOK, TxnOK
<1>3. txn' = [txn EXCEPT ![w] = n]
  BY <1>1 DEF Finish, Inv, TypeOK
<1>4. \A j \in JobIds :
        /\ job'[j] \in JobRow
        /\ job'[j].status # "absent" => job'[j].dev \in Devices /\ job'[j].fw \in Firmware
        /\ job[j].status # "absent" => job'[j].status # "absent"
        /\ \/ job'[j].why = job[j].why
           \/ job'[j].why = None
           \/ j \in t.upd /\ job'[j].why = t.why
  BY <1>1, RowsAfterType
<1>5. /\ trace' \in [JobIds -> [aware : BOOLEAN, pushes : 0..PushCap]]
      /\ \A j \in JobIds : trace[j].aware => trace'[j].aware
      /\ \A j \in JobIds : job'[j].status \in Aware => trace'[j].aware
  BY <1>1, TracedType DEF Inv
<1>6. n \in Writes /\ Sound(n, job', trace')
  <2>1. CASE t.push
    <3>1. n = [Idle EXCEPT !.op = "push", !.upd = t.upd, !.to = t.to]
      BY <2>1
    <3>2. t.upd \subseteq JobIds /\ t.to \in Active \cup Terminal \cup {None}
          /\ t.to \in Pushed /\ \A j \in t.upd : job[j].status # "absent"
      BY <1>2, <2>1 DEF Writes, WritesOK, Sound
    <3> HIDE DEF t, n
    <3>3. n \in Writes /\ n.upd = t.upd /\ n.to = t.to /\ n.ins = None /\ n.why = None
      BY <3>1, <3>2 DEF Idle, Writes
    <3> QED BY <1>4, <3>2, <3>3, NoneAssumption DEF WritesOK, Sound, Reasons
  <2>2. CASE ~t.push
    BY <2>2, NoneAssumption DEF Idle, Writes, WritesOK, Sound, Reasons
  <2> QED BY <2>1, <2>2
<1> HIDE DEF n
<1>7. TypeOK'
  <2>1. job' \in [JobIds -> JobRow]
    BY <1>1, <1>4 DEF RowsAfter
  <2>2. device' \in [Devices -> [user : Users, bound : BOOLEAN, current : Versions \cup {None}]]
    <3>1. t.cur \in Versions \cup {None}
      BY <1>2 DEF Writes
    <3>2. CASE t.dirty
      BY <1>1, <3>1, <3>2, ZenonT(40) DEF Inv, TypeOK
    <3>3. CASE ~t.dirty
      BY <1>1, <3>3 DEF Inv, TypeOK
    <3> QED BY <3>2, <3>3
  <2>3. txn' \in [Workers -> Writes]
    BY <1>3, <1>6 DEF Inv, TypeOK
  <2> QED BY <1>1, <1>4, <1>5, <2>1, <2>2, <2>3 DEF Inv, TypeOK
<1>8. TxnOK'
  BY <1>3, <1>4, <1>5, <1>6, OthersStayOK
<1>9. AwareTraced'
  BY <1>5 DEF AwareTraced
<1>10. OneActivePerDevice'
  BY <1>1 DEF OneActivePerDevice, UniqueActive
<1>11. \A j \in JobIds : job'[j].why \in {"timeout", "confirmed_by_check"} => trace'[j].aware
  <2> SUFFICES ASSUME NEW j \in JobIds, job'[j].why \in {"timeout", "confirmed_by_check"}
               PROVE  trace'[j].aware
    OBVIOUS
  <2>1. CASE job'[j].why = job[j].why
    BY <1>5, <2>1 DEF Inv, TimedOutWasHandedOver, ConfirmedWasHandedOver
  <2>2. CASE job'[j].why = None
    BY <2>2, NoneAssumption DEF Reasons
  <2>3. CASE j \in t.upd /\ job'[j].why = t.why
    BY <1>2, <1>5, <2>3 DEF WritesOK, Sound
  <2> QED BY <1>4, <2>1, <2>2, <2>3
<1> QED BY <1>7, <1>8, <1>9, <1>10, <1>11
        DEF Inv, TimedOutWasHandedOver, ConfirmedWasHandedOver

LEMMA UnbindCommitInv ==
  ASSUME Inv, NEW w \in Workers, UnbindCommit(w)
  PROVE  Inv'
<1> DEFINE d == txn[w].dev
<1>1. /\ device' = IF txn[w].dirty THEN [device EXCEPT ![d].bound = FALSE] ELSE device
      /\ job' = [j \in JobIds |->
           IF j \in ActiveJobs(d)
           THEN [job[j] EXCEPT !.status = "superseded", !.why = "unbound", !.stale = FALSE]
           ELSE job[j]]
      /\ trace' = Traced(job')
      /\ txn' = [txn EXCEPT ![w] = Idle]
      /\ UNCHANGED visible
  BY DEF UnbindCommit
<1>2. /\ trace' \in [JobIds -> [aware : BOOLEAN, pushes : 0..PushCap]]
      /\ \A j \in JobIds : trace[j].aware => trace'[j].aware
      /\ \A j \in JobIds : job'[j].status \in Aware => trace'[j].aware
  BY <1>1, TracedType DEF Inv
<1>3. \A j \in JobIds :
        /\ job'[j] \in JobRow
        /\ job'[j].dev = job[j].dev /\ job'[j].fw = job[j].fw
        /\ \/ job'[j].status = job[j].status /\ job'[j].why = job[j].why
           \/ job[j].status \in Active /\ job'[j].status = "superseded" /\ job'[j].why = "unbound"
  <2> SUFFICES ASSUME NEW j \in JobIds
               PROVE  /\ job'[j] \in JobRow
                      /\ job'[j].dev = job[j].dev /\ job'[j].fw = job[j].fw
                      /\ \/ job'[j].status = job[j].status /\ job'[j].why = job[j].why
                         \/ /\ job[j].status \in Active
                            /\ job'[j].status = "superseded" /\ job'[j].why = "unbound"
    OBVIOUS
  <2>1. job[j] \in JobRow
    BY DEF Inv, TypeOK
  <2>2. CASE j \in ActiveJobs(d)
    <3>1. job'[j] = [job[j] EXCEPT !.status = "superseded", !.why = "unbound", !.stale = FALSE]
      BY <1>1, <2>2
    <3>2. job[j].status \in Active
      BY <2>2 DEF ActiveJobs
    <3> QED BY <2>1, <3>1, <3>2 DEF JobRow, Terminal, Reasons
  <2>3. CASE j \notin ActiveJobs(d)
    BY <1>1, <2>1, <2>3
  <2> QED BY <2>2, <2>3
<1>4. "absent" \notin Active /\ "superseded" \notin Active
  BY DEF Active, Aware
<1>5. TypeOK'
  <2>1. job' \in [JobIds -> JobRow]
    BY <1>1, <1>3
  <2>2. device' \in [Devices -> [user : Users, bound : BOOLEAN, current : Versions \cup {None}]]
    <3>1. CASE txn[w].dirty
      BY <1>1, <3>1, ZenonT(40) DEF Inv, TypeOK
    <3>2. CASE ~txn[w].dirty
      BY <1>1, <3>2 DEF Inv, TypeOK
    <3> QED BY <3>1, <3>2
  <2>3. txn' \in [Workers -> Writes]
    BY <1>1, IdleType DEF Inv, TypeOK
  <2>4. \A j \in JobIds : job'[j].status # "absent" =>
          job'[j].dev \in Devices /\ job'[j].fw \in Firmware
    BY <1>3, <1>4 DEF Inv, TypeOK
  <2> QED BY <1>1, <1>2, <2>1, <2>2, <2>3, <2>4 DEF Inv, TypeOK
<1>6. TxnOK'
  <2>1. \A j \in JobIds : job[j].status # "absent" => job'[j].status # "absent"
    BY <1>3
  <2>2. Sound(Idle, job', trace')
    BY NoneAssumption DEF Idle, Sound, Reasons
  <2> QED BY <1>1, <1>2, <2>1, <2>2, OthersStayOK
<1>7. AwareTraced'
  BY <1>2 DEF AwareTraced
<1>8. OneActivePerDevice'
  <2>1. \A j \in JobIds : job'[j].status \in Active =>
          job[j].status \in Active /\ job'[j].dev = job[j].dev
    BY <1>3, <1>4
  <2> QED BY <2>1 DEF Inv, OneActivePerDevice, OneActiveEach
<1>9. TimedOutWasHandedOver' /\ ConfirmedWasHandedOver'
  BY <1>2, <1>3 DEF Inv, TimedOutWasHandedOver, ConfirmedWasHandedOver
<1> QED BY <1>5, <1>6, <1>7, <1>8, <1>9 DEF Inv

LEMMA LoseInv ==
  ASSUME Inv, NEW w \in Workers, Lose(w)
  PROVE  Inv'
<1>1. txn' = [txn EXCEPT ![w] = Idle] /\ UNCHANGED <<job, device, visible, trace>>
  BY DEF Lose
<1>2. TypeOK'
  BY <1>1, IdleType DEF Inv, TypeOK
<1>3. TxnOK'
  <2>1. Sound(Idle, job', trace')
    BY NoneAssumption DEF Idle, Sound, Reasons
  <2> QED BY <1>1, <2>1, OthersStayOK
<1> QED BY <1>1, <1>2, <1>3 DEF Inv, AwareTraced, OneActivePerDevice, OneActiveEach,
                                TimedOutWasHandedOver, ConfirmedWasHandedOver

LEMMA PushInv ==
  ASSUME Inv, NEW w \in Workers, PushJobTerminal(w)
  PROVE  Inv'
<1>1. PICK j \in txn[w].upd :
        /\ txn[w].op = "push"
        /\ trace' = [trace EXCEPT ![j].pushes = IF @ = PushCap THEN @ ELSE @ + 1]
        /\ txn' = [txn EXCEPT ![w] = IF @.upd = {j} THEN Idle ELSE [@ EXCEPT !.upd = txn[w].upd \ {j}]]
        /\ UNCHANGED <<job, device, visible>>
  BY DEF PushJobTerminal
<1> DEFINE n == IF txn[w].upd = {j} THEN Idle ELSE [txn[w] EXCEPT !.upd = txn[w].upd \ {j}]
<1>2. txn[w] \in Writes /\ Sound(txn[w], job, trace)
  BY DEF Inv, TypeOK, TxnOK, WritesOK
<1>3. j \in JobIds
  BY <1>1, <1>2 DEF Writes
<1>4. /\ trace' \in [JobIds -> [aware : BOOLEAN, pushes : 0..PushCap]]
      /\ \A i \in JobIds : trace'[i].aware = trace[i].aware
  <2>1. trace[j] \in [aware : BOOLEAN, pushes : 0..PushCap]
    BY <1>3 DEF Inv, TypeOK
  <2>2. (IF trace[j].pushes = PushCap THEN trace[j].pushes ELSE trace[j].pushes + 1) \in 0..PushCap
    BY <2>1, PushCapAssumption
  <2> QED BY <1>1, <1>3, <2>1, <2>2 DEF Inv, TypeOK
<1>5. n \in Writes /\ Sound(n, job', trace')
  <2>1. CASE txn[w].upd = {j}
    <3>1. n = Idle
      BY <2>1
    <3> QED BY <3>1, IdleType, NoneAssumption DEF Idle, Sound, Reasons
  <2>2. CASE txn[w].upd # {j}
    <3>1. n = [txn[w] EXCEPT !.upd = txn[w].upd \ {j}]
      BY <2>2
    <3> HIDE DEF n
    <3>2. n \in Writes /\ n.upd = txn[w].upd \ {j} /\ n.ins = txn[w].ins /\ n.dev = txn[w].dev
          /\ n.push = txn[w].push /\ n.to = txn[w].to /\ n.op = txn[w].op /\ n.why = txn[w].why
      BY <1>2, <3>1 DEF Writes
    <3>3. txn[w].upd \subseteq JobIds
      BY <1>2 DEF Writes
    <3> QED BY <1>1, <1>2, <1>4, <3>2, <3>3 DEF Sound
  <2> QED BY <2>1, <2>2
<1>6. txn' = [txn EXCEPT ![w] = n]
  BY <1>1
<1> HIDE DEF n
<1>7. TypeOK'
  BY <1>1, <1>4, <1>5, <1>6, ZenonT(40) DEF Inv, TypeOK
<1>8. TxnOK'
  BY <1>1, <1>4, <1>5, <1>6, OthersStayOK
<1> QED BY <1>1, <1>4, <1>7, <1>8 DEF Inv, AwareTraced, OneActivePerDevice, OneActiveEach,
                                      TimedOutWasHandedOver, ConfirmedWasHandedOver

LEMMA OutsideInv ==
  ASSUME Inv,
         \/ \E j \in JobIds : Age(j)
         \/ \E d \in Devices, u \in Users : Rebind(d, u)
         \/ \E f \in Firmware : Publish(f) \/ Retire(f)
  PROVE  Inv'
<1>1. ASSUME NEW j \in JobIds, Age(j) PROVE Inv'
  <2>1. /\ job' = [job EXCEPT ![j].stale = TRUE]
        /\ UNCHANGED <<device, visible, txn, trace>>
    BY <1>1 DEF Age
  <2>2. /\ job' \in [JobIds -> JobRow]
        /\ \A i \in JobIds : /\ job'[i].status = job[i].status /\ job'[i].why = job[i].why
                             /\ job'[i].dev = job[i].dev /\ job'[i].fw = job[i].fw
    <3> SUFFICES ASSUME NEW i \in JobIds
                 PROVE  /\ job'[i] \in JobRow /\ job'[i].status = job[i].status
                        /\ job'[i].why = job[i].why /\ job'[i].dev = job[i].dev
                        /\ job'[i].fw = job[i].fw
      BY <2>1 DEF Inv, TypeOK
    <3>1. job[i] \in JobRow
      BY DEF Inv, TypeOK
    <3>2. job'[i] = IF i = j THEN [job[i] EXCEPT !.stale = TRUE] ELSE job[i]
      BY <2>1 DEF Inv, TypeOK
    <3> QED BY <3>1, <3>2 DEF JobRow
  <2>3. TypeOK'
    BY <2>1, <2>2 DEF Inv, TypeOK
  <2>4. TxnOK'
    <3> SUFFICES ASSUME NEW v \in Workers PROVE Sound(txn[v], job', trace')
      BY <2>1 DEF TxnOK, WritesOK
    <3>1. Sound(txn[v], job, trace) /\ txn[v].upd \subseteq JobIds
      BY DEF Inv, TypeOK, TxnOK, WritesOK, Writes
    <3> QED BY <2>1, <2>2, <3>1 DEF Sound
  <2> QED BY <2>1, <2>2, <2>3, <2>4 DEF Inv, AwareTraced, OneActivePerDevice, OneActiveEach,
                                       TimedOutWasHandedOver, ConfirmedWasHandedOver
<1>2. ASSUME UNCHANGED <<job, txn, trace>>,
             device' \in [Devices -> [user : Users, bound : BOOLEAN,
                                      current : Versions \cup {None}]],
             visible' \in [Firmware -> {"draft", "released", "retired"}]
      PROVE  Inv'
  BY <1>2 DEF Inv, TypeOK, TxnOK, WritesOK, Sound, AwareTraced, OneActivePerDevice,
              OneActiveEach, TimedOutWasHandedOver, ConfirmedWasHandedOver
<1>3. ASSUME NEW d \in Devices, NEW u \in Users, Rebind(d, u) PROVE Inv'
  <2>1. device' \in [Devices -> [user : Users, bound : BOOLEAN, current : Versions \cup {None}]]
    BY <1>3 DEF Rebind, Inv, TypeOK
  <2> QED BY <1>2, <1>3, <2>1 DEF Rebind, Inv, TypeOK
<1>4. ASSUME NEW f \in Firmware, Publish(f) \/ Retire(f) PROVE Inv'
  <2>1. visible' \in [Firmware -> {"draft", "released", "retired"}]
    BY <1>4 DEF Publish, Retire, SetVisibility, Inv, TypeOK
  <2> QED BY <1>2, <1>4, <2>1 DEF Publish, Retire, SetVisibility, Inv, TypeOK
<1> QED BY <1>1, <1>3, <1>4

LEMMA InitInv == Init => Inv
<1> SUFFICES ASSUME Init PROVE Inv
  OBVIOUS
<1>1. TypeOK
  <2>1. NoRow \in JobRow /\ NoRow.status = "absent"
    BY DEF NoRow, JobRow
  <2>2. NewTrace \in [aware : BOOLEAN, pushes : 0..PushCap]
    BY PushCapAssumption DEF NewTrace
  <2>3. device \in [Devices -> [user : Users, bound : BOOLEAN, current : Versions \cup {None}]]
    BY DEF Init
  <2>4. txn \in [Workers -> Writes]
    BY IdleType DEF Init
  <2> QED BY <2>1, <2>2, <2>3, <2>4 DEF Init, TypeOK
<1>2. TxnOK
  BY IdleType DEF Init, TxnOK
<1>3. \A j \in JobIds : job[j].status = "absent" /\ job[j].why = None
  BY DEF Init, NoRow
<1>4. "absent" \notin Active
  BY DEF Active, Aware
<1> QED BY <1>1, <1>2, <1>3, <1>4, NoneAssumption
        DEF Inv, AwareTraced, Active, Aware, OneActivePerDevice, OneActiveEach,
            TimedOutWasHandedOver, ConfirmedWasHandedOver, Reasons

LEMMA NextInv == Inv /\ [Next]_vars => Inv'
<1> SUFFICES ASSUME Inv, [Next]_vars PROVE Inv'
  OBVIOUS
<1>1. CASE UNCHANGED vars
  BY <1>1 DEF vars, Inv, TypeOK, TxnOK, WritesOK, Sound, AwareTraced, OneActivePerDevice,
              OneActiveEach, TimedOutWasHandedOver, ConfirmedWasHandedOver
<1>2. ASSUME NEW w \in Workers, WorkerStep(w) PROVE Inv'
  <2>1. CASE Request(w)
    BY <2>1, RequestInv
  <2>2. CASE Commit(w)
    BY <2>2, CommitInv
  <2>3. CASE UnbindCommit(w)
    BY <2>3, UnbindCommitInv
  <2>4. CASE PushJobTerminal(w)
    BY <2>4, PushInv
  <2>5. CASE Refuse(w) \/ Abort(w)
    BY <2>5, LoseInv DEF Refuse, Abort
  <2> QED BY <1>2, <2>1, <2>2, <2>3, <2>4, <2>5 DEF WorkerStep
<1> QED BY <1>1, <1>2, OutsideInv DEF Next

LEMMA Invariance == Spec => []Inv
BY InitInv, NextInv, PTL DEF Spec

-----------------------------------------------------------------------------
(* Every table and every transaction is well typed, and no committed or    *)
(* pending write names a row that does not exist.                          *)
THEOREM TypeCorrect == Spec => []TypeOK
<1>1. Inv => TypeOK
  BY DEF Inv
<1> QED BY <1>1, Invariance, PTL

(* The sweep never closes a reservation the device was not told of.        *)
THEOREM TimeoutsWereHandedOver == Spec => []TimedOutWasHandedOver
<1>1. Inv => TimedOutWasHandedOver
  BY DEF Inv
<1> QED BY <1>1, Invariance, PTL

(* A check confirms only jobs the device was told of.                      *)
THEOREM ConfirmationsWereHandedOver == Spec => []ConfirmedWasHandedOver
<1>1. Inv => ConfirmedWasHandedOver
  BY DEF Inv
<1> QED BY <1>1, Invariance, PTL

-----------------------------------------------------------------------------
(* What a transaction is about to do to the jobs: put a new one in the     *)
(* place of its device's reservations, close one it saw active (as         *)
(* superseded only a reservation) or, the sweep, some it saw handed over,  *)
(* or move one of them on.                                                 *)
Replaces(t, rows) ==
  /\ t.ins # None /\ t.push = FALSE
  /\ t.upd = {j \in JobIds : rows[j].dev = t.dev /\ rows[j].status \in Active}
  /\ t.to = "superseded" /\ t.why = "replaced"
  /\ \A j \in t.upd : rows[j].status = "requested"

Closes(t, rows) ==
  /\ t.ins = None /\ t.to \in Terminal /\ t.why # "replaced"
  /\ t.to = "superseded" => t.why = "already_on_target" /\ \A j \in t.upd : rows[j].status = "requested"
  /\ \/ \A i, j \in t.upd : i = j
     \/ t.to = "failed" /\ \A j \in t.upd : rows[j].status \in Aware

Moves(t) ==
  /\ t.ins = None /\ t.push = FALSE
  /\ t.to \in Aware \cup {None} /\ t.why = None
  /\ \A i, j \in t.upd : i = j

Plan(t, rows) ==
  /\ \A j \in t.upd : rows[j].status \in Active
  /\ Replaces(t, rows) \/ Closes(t, rows) \/ Moves(t)

(* A request opens a transaction that pushes nothing yet and follows such  *)
(* a plan.                                                                 *)
Opens(w, t) ==
  /\ Begin(w, t)
  /\ \/ t.op = "open" /\ Plan(t, job)
     \/ t.op = "unbind" /\ t.upd = {}

LEMMA MoveOpens ==
  ASSUME NEW w, NEW t \in Writes, NEW j, job[j].status \in Active, t.upd \subseteq {j},
         t.op = "open", t.ins = None, t.why = None, t.push = FALSE, t.to \in Aware \cup {None}, Begin(w, t)
  PROVE  Opens(w, t)
BY DEF Opens, Plan, Moves

LEMMA CheckOpens ==
  ASSUME NEW w \in Workers, NEW d \in Devices, NEW rep \in Versions \cup {None},
         NEW git \in BOOLEAN, Check(w, d, rep, git)
  PROVE  \E t : Opens(w, t)
<1> DEFINE c == CheckWrites(d, rep, git)
<1>1. c \in Writes /\ c.upd = {} /\ c.op = "open" /\ c.ins = None /\ c.why = None /\ c.push = FALSE
      /\ c.to = None
  BY CheckWritesType
<1>2. \A j \in ActiveJobs(d) : job[j].status \in Active /\ j \in JobIds
  BY DEF ActiveJobs
<1> HIDE DEF c
<1>3. CASE CheckNoJob(w, d, rep, git) \/ CheckPresignFails(w, d, rep, git)
  <2>1. Begin(w, c)
    BY <1>3 DEF CheckNoJob, CheckPresignFails, c
  <2> QED BY <1>1, <2>1 DEF Opens, Plan, Moves
<1>4. CASE CheckOnTarget(w, d, rep, git)
  <2> DEFINE t(j, handed) ==
               [c EXCEPT !.upd = {j},
                         !.to = IF handed THEN "succeeded" ELSE "superseded",
                         !.why = IF handed THEN "confirmed_by_check" ELSE "already_on_target",
                         !.push = handed]
  <2>1. PICK j \in ActiveJobs(d) : Begin(w, t(j, job[j].status \in Aware))
    BY <1>4 DEF CheckOnTarget, c
  <2>2. CASE job[j].status \in Aware
    <3>1. (job[j].status \in Aware) = TRUE
      BY <2>2
    <3>2. Begin(w, t(j, TRUE))
      BY <2>1, <3>1
    <3>3. t(j, TRUE).upd = {j} /\ t(j, TRUE).op = "open" /\ t(j, TRUE).ins = None
          /\ t(j, TRUE).to = "succeeded" /\ t(j, TRUE).why = "confirmed_by_check"
      BY <1>1 DEF Writes
    <3> HIDE DEF t
    <3> QED BY <1>2, <3>2, <3>3 DEF Opens, Plan, Closes, Terminal
  <2>3. CASE job[j].status \notin Aware
    <3>1. (job[j].status \in Aware) = FALSE
      BY <2>3
    <3>2. Begin(w, t(j, FALSE))
      BY <2>1, <3>1
    <3>3. t(j, FALSE).upd = {j} /\ t(j, FALSE).op = "open" /\ t(j, FALSE).ins = None
          /\ t(j, FALSE).to = "superseded" /\ t(j, FALSE).why = "already_on_target"
      BY <1>1 DEF Writes
    <3>4. job[j].status = "requested"
      BY <1>2, <2>3 DEF Active
    <3> HIDE DEF t
    <3> QED BY <1>2, <3>2, <3>3, <3>4 DEF Opens, Plan, Closes, Terminal
  <2> QED BY <2>2, <2>3
<1>5. CASE CheckOffer(w, d, rep, git)
  <2> DEFINE t(j) == [c EXCEPT !.upd = IF job[j].status = "notified" THEN {} ELSE {j},
                               !.to = "notified", !.offer = j]
  <2>1. PICK j \in ActiveJobs(d) : Begin(w, t(j))
    BY <1>5 DEF CheckOffer, c
  <2>2. /\ t(j) \in Writes /\ t(j).upd \subseteq {j} /\ t(j).op = "open" /\ t(j).ins = None
        /\ t(j).why = None /\ t(j).push = FALSE /\ t(j).to \in Aware
    BY <1>1, <1>2, ZenonT(40) DEF Writes, Active, Aware
  <2> HIDE DEF t
  <2> QED BY <1>2, <2>1, <2>2, MoveOpens
<1> QED BY <1>3, <1>4, <1>5 DEF Check

LEMMA ReportOpens ==
  ASSUME TypeOK, NEW w \in Workers, NEW m \in Messages, Report(w, m)
  PROVE  \E t : Opens(w, t)
<1> DEFINE r == ReportWrites(m.dev)
<1>1. r \in Writes /\ r.upd = {} /\ r.op = "open" /\ r.ins = None /\ r.why = None /\ r.push = FALSE
      /\ r.to = None
  BY ReportWritesType DEF Messages
<1>2. \A j \in ActiveJobs(m.dev) : j \in JobIds /\ job[j].status \in Active /\ job[j].fw \in Versions
  BY ActiveJobPresent, FirmwareAssumption
<1>3. m.version \in Versions \cup {None}
  BY DEF Messages
<1> HIDE DEF r
<1>4. CASE ReportNoJob(w, m)
  <2> DEFINE t == StoreVersion(r, m.dev, m.version)
  <2>1. Begin(w, t)
    BY <1>4 DEF ReportNoJob, r
  <2>2. t.upd = {} /\ t.op = "open" /\ t.ins = None /\ t.why = None /\ t.push = FALSE /\ t.to = None
    BY <1>1, <1>3, StoreVersionType
  <2> HIDE DEF t
  <2> QED BY <2>1, <2>2 DEF Opens, Plan, Moves
<1>5. CASE ReportSucceeded(w, m)
  <2> DEFINE v(j) == IF m.version # None THEN m.version ELSE job[j].fw
             s(j) == StoreVersion(r, m.dev, v(j))
             t(j) == [s(j) EXCEPT !.upd = {j}, !.to = "succeeded", !.push = TRUE]
  <2>1. PICK j \in ActiveJobs(m.dev) : Begin(w, t(j))
    BY <1>5 DEF ReportSucceeded, r
  <2>2. v(j) \in Versions \cup {None}
    BY <1>2, <1>3
  <2> HIDE DEF v
  <2>3. s(j) \in Writes /\ s(j).op = "open" /\ s(j).ins = None /\ s(j).why = None
    BY <1>1, <2>2, StoreVersionType
  <2> HIDE DEF s
  <2>4. t(j).upd = {j} /\ t(j).op = "open" /\ t(j).ins = None /\ t(j).to = "succeeded" /\ t(j).why = None
    BY <2>3 DEF Writes
  <2> HIDE DEF t
  <2> QED BY <1>2, <2>1, <2>4, NoneAssumption DEF Opens, Plan, Closes, Terminal, Reasons
<1>6. CASE ReportFailed(w, m)
  <2> DEFINE t(j) == [r EXCEPT !.upd = {j}, !.to = m.state, !.push = TRUE,
                               !.why = IF m.version # None THEN "version" ELSE None]
  <2>1. PICK j \in ActiveJobs(m.dev) : Begin(w, t(j))
    BY <1>6 DEF ReportFailed, r
  <2>2. t(j).upd = {j} /\ t(j).op = "open" /\ t(j).ins = None /\ t(j).to = m.state /\ t(j).why \in {"version", None}
    BY <1>1 DEF Writes
  <2>3. m.state \in {"failed", "rolled_back"}
    BY <1>6 DEF ReportFailed
  <2> HIDE DEF t
  <2> QED BY <1>2, <2>1, <2>2, <2>3, NoneAssumption DEF Opens, Plan, Closes, Terminal, Reasons
<1>7. CASE ReportProgress(w, m)
  <2> DEFINE same(j) == job[j].status = m.state
             t(j, pct) == [r EXCEPT !.upd = IF same(j) /\ ~pct THEN {} ELSE {j},
                                    !.to = IF same(j) THEN None ELSE m.state]
  <2>1. PICK j \in ActiveJobs(m.dev), pct \in BOOLEAN : Begin(w, t(j, pct))
    BY <1>7 DEF ReportProgress, r
  <2>2. m.state \in Aware
    BY <1>7 DEF ReportProgress, Progress, Aware
  <2>3. /\ t(j, pct).upd \subseteq {j} /\ t(j, pct).op = "open" /\ t(j, pct).ins = None
        /\ t(j, pct).why = None /\ t(j, pct).push = FALSE /\ t(j, pct).to \in Aware \cup {None}
    BY <1>1, <2>2 DEF Writes
  <2> HIDE DEF t
  <2> QED BY <1>2, <2>1, <2>3 DEF Opens, Plan, Moves
<1> QED BY <1>4, <1>5, <1>6, <1>7 DEF Report

LEMMA RequestOpens ==
  ASSUME TypeOK, NEW w \in Workers, Request(w)
  PROVE  \E t : Opens(w, t)
<1>1. CASE SweepTimedOutJobs(w)
  <2> DEFINE t == [Idle EXCEPT !.op = "open", !.upd = StaleJobs, !.to = "failed",
                               !.why = "timeout", !.push = TRUE]
  <2>1. /\ Begin(w, t) /\ t.op = "open" /\ t.upd = StaleJobs /\ t.ins = None
        /\ t.to = "failed" /\ t.why = "timeout"
    BY <1>1 DEF SweepTimedOutJobs, Idle
  <2> HIDE DEF t
  <2> QED BY <2>1 DEF Opens, Plan, Closes, StaleJobs, Active, Terminal
<1>2. ASSUME NEW d \in Devices, UnbindRead(w, d) PROVE \E t : Opens(w, t)
  <2> DEFINE t == [Idle EXCEPT !.op = "unbind", !.dev = d, !.dirty = device[d].bound]
  <2>1. Begin(w, t) /\ t.op = "unbind" /\ t.upd = {}
    BY <1>2 DEF UnbindRead, Idle
  <2> HIDE DEF t
  <2> QED BY <2>1 DEF Opens
<1>3. ASSUME NEW d \in Devices, NEW f \in Firmware, NEW force \in BOOLEAN,
             NEW by \in Requesters, Trigger(w, d, f, force, by)
      PROVE  \E t : Opens(w, t)
  <2> DEFINE n == [fw |-> f, force |-> force, by |-> by]
             t == [Idle EXCEPT !.op = "open", !.dev = d, !.upd = ActiveJobs(d),
                               !.to = "superseded", !.why = "replaced", !.ins = n]
  <2>1. /\ Begin(w, t) /\ t.op = "open" /\ t.upd = ActiveJobs(d) /\ t.dev = d /\ t.push = FALSE
        /\ t.ins = n /\ t.to = "superseded" /\ t.why = "replaced"
    BY <1>3 DEF Trigger, Idle
  <2>2. n # None
    <3>1. n \in NewJob
      BY RequesterAssumption DEF NewJob
    <3> QED BY <3>1, NoneAssumption
  <2>3. \A j \in ActiveJobs(d) : job[j].status = "requested" /\ job[j].status \in Active
    BY <1>3 DEF Trigger, ActiveJobs
  <2> HIDE DEF t, n
  <2> QED BY <2>1, <2>2, <2>3 DEF Opens, Plan, Replaces, ActiveJobs
<1> QED BY <1>1, <1>2, <1>3, CheckOpens, ReportOpens DEF Request, UserTrigger

(* The only step into the push phase is a commit that wrote the outcome.   *)
LEMMA PushStep ==
  ASSUME Inv, [Next]_vars, NEW w \in Workers, txn'[w].op = "push", txn[w].op # "push"
  PROVE  /\ txn'[w].to \in Pushed
         /\ \A j \in txn'[w].upd : job'[j].status = txn'[w].to
<1>1. ASSUME UNCHANGED txn PROVE FALSE
  BY <1>1
<1>2. PICK v \in Workers : WorkerStep(v)
  BY <1>1 DEF Next, vars, Age, Rebind, Publish, Retire, SetVisibility
<1>3. ASSUME NEW t, txn' = [txn EXCEPT ![v] = t] PROVE v = w /\ t.op = "push" /\ txn'[w] = t
  BY <1>3 DEF Inv, TypeOK
<1>4. ~Request(v)
  <2> SUFFICES ASSUME Request(v) PROVE FALSE
    OBVIOUS
  <2>1. PICK t : Opens(v, t)
    BY RequestOpens DEF Inv
  <2> QED BY <1>3, <2>1 DEF Opens, Begin
<1>5. ~UnbindCommit(v) /\ ~Refuse(v) /\ ~Abort(v)
  <2>1. Idle.op = "idle"
    BY DEF Idle
  <2> QED BY <1>3, <2>1 DEF UnbindCommit, Refuse, Abort, Lose
<1>6. ~PushJobTerminal(v)
  <2> SUFFICES ASSUME PushJobTerminal(v) PROVE FALSE
    OBVIOUS
  <2>1. PICK j \in txn[v].upd :
          /\ txn[v].op = "push"
          /\ txn' = [txn EXCEPT ![v] =
                       IF @.upd = {j} THEN Idle ELSE [@ EXCEPT !.upd = txn[v].upd \ {j}]]
    BY DEF PushJobTerminal
  <2> QED BY <1>3, <2>1
<1>7. PICK k \in NewKeys(v) : Finish(v) /\ job' = RowsAfter(v, k)
  BY <1>2, <1>4, <1>5, <1>6 DEF WorkerStep, Commit
<1> DEFINE t == txn[v]
           n == IF t.push THEN [Idle EXCEPT !.op = "push", !.upd = t.upd, !.to = t.to] ELSE Idle
<1>8. t \in Writes /\ WritesOK(t) /\ job \in [JobIds -> JobRow]
  BY DEF Inv, TypeOK, TxnOK
<1>9. txn' = [txn EXCEPT ![v] = n]
  BY <1>7 DEF Finish, Inv, TypeOK
<1>10. v = w /\ txn'[w] = n /\ n.op = "push"
  BY <1>3, <1>9
<1>11. t.push
  BY <1>10 DEF Idle
<1>12. n.upd = t.upd /\ n.to = t.to
  BY <1>11 DEF Idle
<1>13. t.to \in Pushed /\ t.to # None
  BY <1>8, <1>11, NoneAssumption DEF WritesOK, Sound, Pushed, Terminal
<1>14. ASSUME NEW j \in t.upd PROVE job'[j].status = t.to
  <2>1. j \in JobIds
    BY <1>8 DEF Writes
  <2>2. job'[j] = Rewrite(job[j], t)
    BY <1>7, <2>1 DEF RowsAfter
  <2>3. job[j] \in JobRow
    BY <1>8, <2>1
  <2> HIDE DEF t
  <2> QED BY <1>8, <1>13, <2>2, <2>3, RewriteType
<1> QED BY <1>10, <1>12, <1>13, <1>14

(* The App is told of an outcome only after the transaction that wrote it  *)
(* to the job has committed, for every number of overlapping requests.     *)
THEOREM PushesFollowCommits == Spec => PushFollowsCommit
<1>1. Inv /\ [Next]_vars => [\A w \in Workers :
        txn'[w].op = "push" /\ txn[w].op # "push" =>
          /\ txn'[w].to \in Pushed
          /\ \A j \in txn'[w].upd : job'[j].status = txn'[w].to]_vars
  BY PushStep
<1> QED BY <1>1, Invariance, PTL DEF Spec, PushFollowsCommit

-----------------------------------------------------------------------------
(* One request at a time: what an open transaction is about to do to the   *)
(* jobs is still what it saw fit when it commits.                          *)
Planned == \A w \in Workers : txn[w].op = "open" => Plan(txn[w], job)

Alone == \A v, w \in Workers : v = w

LEMMA PlanKept ==
  ASSUME NEW t, NEW rows, NEW more, t.upd \subseteq JobIds, Plan(t, rows),
         \A j \in JobIds : more[j].status = rows[j].status /\ more[j].dev = rows[j].dev
  PROVE  Plan(t, more)
<1>1. CASE Replaces(t, rows)
  BY <1>1 DEF Plan, Replaces
<1>2. CASE Closes(t, rows)
  BY <1>2 DEF Plan, Closes
<1>3. CASE Moves(t)
  BY <1>3 DEF Plan
<1> QED BY <1>1, <1>2, <1>3 DEF Plan

(* A step of the only worker ends what its transaction was about to do, or *)
(* opens one.                                                              *)
LEMMA PlannedStep ==
  ASSUME Alone, Inv, Planned, [Next]_vars
  PROVE  Planned'
<1> SUFFICES ASSUME NEW w \in Workers, txn'[w].op = "open" PROVE Plan(txn'[w], job')
  BY DEF Planned
<1>0. ASSUME UNCHANGED txn PROVE Plan(txn'[w], job) /\ txn'[w].upd \subseteq JobIds
  BY <1>0 DEF Planned, Inv, TypeOK, Writes
<1>1. CASE UNCHANGED <<job, txn>>
  BY <1>0, <1>1
<1>2. ASSUME NEW i \in JobIds, Age(i) PROVE Plan(txn'[w], job')
  <2>1. txn' = txn /\ job' = [job EXCEPT ![i].stale = TRUE]
    BY <1>2 DEF Age
  <2>2. \A j \in JobIds : job'[j].status = job[j].status /\ job'[j].dev = job[j].dev
    <3> SUFFICES ASSUME NEW j \in JobIds PROVE job'[j].status = job[j].status /\ job'[j].dev = job[j].dev
      OBVIOUS
    <3>1. job[j] \in JobRow /\ job'[j] = IF j = i THEN [job[j] EXCEPT !.stale = TRUE] ELSE job[j]
      BY <2>1 DEF Inv, TypeOK
    <3> QED BY <3>1 DEF JobRow
  <2>3. Plan(txn'[w], job) /\ txn'[w].upd \subseteq JobIds
    BY <1>0, <2>1
  <2> QED BY <2>2, <2>3, PlanKept
<1>3. ASSUME NEW v \in Workers, WorkerStep(v) PROVE Plan(txn'[w], job')
  <2>1. v = w
    BY DEF Alone
  <2>2. ASSUME NEW t, txn' = [txn EXCEPT ![v] = t] PROVE txn'[w] = t
    BY <2>1, <2>2 DEF Inv, TypeOK
  <2>3. CASE Request(v)
    <3>1. PICK t : Opens(v, t)
      BY <2>3, RequestOpens DEF Inv
    <3>2. txn'[w] = t /\ job' = job
      BY <2>2, <3>1 DEF Opens, Begin
    <3> QED BY <3>1, <3>2 DEF Opens
  <2>4. CASE Commit(v)
    <3> DEFINE n == IF txn[v].push
                    THEN [Idle EXCEPT !.op = "push", !.upd = txn[v].upd, !.to = txn[v].to]
                    ELSE Idle
    <3>1. txn' = [txn EXCEPT ![v] = n]
      BY <2>4 DEF Commit, Finish, Inv, TypeOK
    <3>2. n.op # "open"
      BY DEF Idle
    <3> QED BY <2>2, <3>1, <3>2
  <2>5. CASE UnbindCommit(v) \/ Refuse(v) \/ Abort(v)
    <3>1. txn' = [txn EXCEPT ![v] = Idle]
      BY <2>5 DEF UnbindCommit, Refuse, Abort, Lose
    <3>2. txn'[w] = Idle
      BY <2>2, <3>1
    <3> QED BY <3>2 DEF Idle
  <2>6. CASE PushJobTerminal(v)
    <3>1. PICK i \in txn[v].upd :
            /\ txn[v].op = "push"
            /\ txn' = [txn EXCEPT ![v] =
                         IF @.upd = {i} THEN Idle ELSE [@ EXCEPT !.upd = txn[v].upd \ {i}]]
      BY <2>6 DEF PushJobTerminal
    <3>2. CASE txn[v].upd = {i}
      <4>1. txn'[w] = Idle
        BY <2>2, <3>1, <3>2
      <4> QED BY <4>1 DEF Idle
    <3>3. CASE txn[v].upd # {i}
      <4>1. txn'[w] = [txn[v] EXCEPT !.upd = txn[v].upd \ {i}]
        BY <2>2, <3>1, <3>3
      <4>2. txn[v] \in Writes
        BY DEF Inv, TypeOK
      <4>3. txn'[w].op = txn[v].op
        BY <4>1, <4>2 DEF Writes
      <4> QED BY <3>1, <4>3
    <3> QED BY <3>2, <3>3
  <2> QED BY <1>3, <2>3, <2>4, <2>5, <2>6 DEF WorkerStep
<1> QED BY <1>1, <1>2, <1>3 DEF Next, vars, Rebind, Publish, Retire, SetVisibility

(* What a commit makes of each row. *)
LEMMA RowAfter ==
  ASSUME Inv, NEW w \in Workers, NEW k \in NewKeys(w), NEW j \in JobIds
  PROVE  /\ j \in txn[w].upd =>
              /\ RowsAfter(w, k)[j].dev = job[j].dev /\ job[j].status # "absent"
              /\ RowsAfter(w, k)[j].status = IF txn[w].to = None THEN job[j].status ELSE txn[w].to
              /\ RowsAfter(w, k)[j].why = IF txn[w].why = None THEN job[j].why ELSE txn[w].why
         /\ j \notin txn[w].upd /\ j = k =>
              /\ txn[w].ins # None /\ job[j].status = "absent" /\ RowsAfter(w, k)[j].status = "requested"
              /\ RowsAfter(w, k)[j].why = None /\ RowsAfter(w, k)[j].dev = txn[w].dev
         /\ j \notin txn[w].upd /\ j # k => RowsAfter(w, k)[j] = job[j]
<1> DEFINE t == txn[w]
           r == RowsAfter(w, k)[j]
<1>1. t \in Writes /\ job[j] \in JobRow /\ WritesOK(t)
  BY DEF Inv, TypeOK, TxnOK
<1>2. r = IF j \in t.upd THEN Rewrite(job[j], t)
          ELSE IF j = k THEN Row(t.dev, t.ins.fw, t.ins.force, t.ins.by)
          ELSE job[j]
  BY DEF RowsAfter
<1>3. CASE j \in t.upd
  <2>1. r = Rewrite(job[j], t) /\ job[j].status # "absent"
    BY <1>1, <1>2, <1>3 DEF WritesOK, Sound
  <2> HIDE DEF t, r
  <2>2. /\ r.dev = job[j].dev
        /\ r.status = IF t.to = None THEN job[j].status ELSE t.to
        /\ r.why = IF t.why = None THEN job[j].why ELSE t.why
    BY <1>1, <2>1, RewriteType
  <2>3. /\ RowsAfter(w, k)[j].dev = job[j].dev
        /\ RowsAfter(w, k)[j].status = IF txn[w].to = None THEN job[j].status ELSE txn[w].to
        /\ RowsAfter(w, k)[j].why = IF txn[w].why = None THEN job[j].why ELSE txn[w].why
    BY <2>2 DEF t, r
  <2>4. j \in txn[w].upd
    BY <1>3 DEF t
  <2> QED BY <2>1, <2>3, <2>4
<1>4. CASE j \notin t.upd /\ j = k
  <2>1. t.ins # None /\ job[j].status = "absent"
    BY <1>4, NoneAssumption DEF NewKeys
  <2>2. r = Row(t.dev, t.ins.fw, t.ins.force, t.ins.by)
    BY <1>2, <1>4
  <2>3. r.status = "requested" /\ r.why = None /\ r.dev = t.dev
    BY <2>2 DEF Row
  <2> QED BY <1>4, <2>1, <2>3
<1>5. CASE j \notin t.upd /\ j # k
  BY <1>2, <1>5
<1> QED BY <1>3, <1>4, <1>5

LEMMA TerminalStep ==
  ASSUME Inv, Planned, [Next]_vars, NEW j \in JobIds, job[j].status \in Terminal
  PROVE  job'[j].status = job[j].status
<1>1. job[j] \in JobRow /\ job[j].status \notin Active /\ job[j].status # "absent"
  BY DEF Inv, TypeOK, Active, Aware, Terminal
<1>2. CASE UNCHANGED job
  BY <1>2
<1>3. ASSUME NEW i \in JobIds, Age(i) PROVE job'[j].status = job[j].status
  BY <1>1, <1>3 DEF Age, Inv, TypeOK
<1>4. ASSUME NEW w \in Workers, Commit(w) PROVE job'[j].status = job[j].status
  <2>1. PICK k \in NewKeys(w) : txn[w].op = "open" /\ job' = RowsAfter(w, k)
    BY <1>4 DEF Commit
  <2>2. j \notin txn[w].upd
    BY <1>1, <2>1 DEF Planned, Plan
  <2> QED BY <1>1, <2>1, <2>2, RowAfter
<1>5. ASSUME NEW w \in Workers, UnbindCommit(w) PROVE job'[j].status = job[j].status
  BY <1>1, <1>5 DEF UnbindCommit, ActiveJobs
<1>6. ASSUME NEW w \in Workers, Request(w) PROVE UNCHANGED job
  BY <1>6, RequestOpens DEF Opens, Begin, Inv
<1> QED BY <1>2, <1>3, <1>4, <1>5, <1>6
        DEF Next, vars, WorkerStep, PushJobTerminal, Refuse, Abort, Lose, Rebind, Publish,
            Retire, SetVisibility

LEMMA PlannedInvariance == ASSUME Alone PROVE Spec => []Planned
<1>1. Init => Planned
  BY DEF Init, Idle, Planned
<1>2. Inv /\ Planned /\ [Next]_vars => Planned'
  BY PlannedStep
<1> QED BY <1>1, <1>2, Invariance, PTL DEF Spec

(* Without overlapping requests the outcome of a job is final.             *)
THEOREM SerialOutcomesAreFinal == ASSUME Alone PROVE Spec => TerminalIsFinal
<1>1. Inv /\ Planned /\ [Next]_vars => [\A j \in JobIds :
        job[j].status \in Terminal => job'[j].status = job[j].status]_vars
  BY TerminalStep
<1> QED BY <1>1, PlannedInvariance, Invariance, PTL DEF Spec, TerminalIsFinal

-----------------------------------------------------------------------------
(* What a step does to the job table, one request at a time.               *)
SameRow(j) == job'[j].status = job[j].status /\ job'[j].dev = job[j].dev /\ job'[j].why = job[j].why

RowsSame == \A j \in JobIds : SameRow(j)

RowsReplaced(k, d) ==
  /\ job[k].status = "absent" /\ job'[k].status = "requested" /\ job'[k].dev = d /\ job'[k].why = None
  /\ \A j \in ActiveJobs(d) :
       job[j].status = "requested" /\ job'[j].status = "superseded" /\ job'[j].dev = d /\ job'[j].why = "replaced"
  /\ \A j \in JobIds \ (ActiveJobs(d) \cup {k}) : SameRow(j)

RowMoved(i, s) ==
  /\ job[i].status \in Active /\ job'[i].status = s /\ job'[i].dev = job[i].dev /\ job'[i].why = job[i].why
  /\ \A j \in JobIds \ {i} : SameRow(j)

RowsClosed(J, s) ==
  /\ \A j \in J : /\ job[j].status \in Active /\ job'[j].status = s /\ job'[j].dev = job[j].dev
                  /\ job'[j].why = "replaced" => job[j].why = "replaced"
                  /\ s = "superseded" => \/ job'[j].why = "already_on_target" /\ job[j].status = "requested"
                                         \/ job'[j].why = "unbound"
  /\ \/ \A i, j \in J : i = j
     \/ s = "failed" /\ \A j \in J : job[j].status \in Aware
  /\ \A j \in JobIds \ J : SameRow(j)

RowsStep ==
  \/ RowsSame
  \/ \E k \in JobIds, d \in Devices : RowsReplaced(k, d)
  \/ \E i \in JobIds, s \in Aware : RowMoved(i, s)
  \/ \E J \in SUBSET JobIds, s \in Terminal : RowsClosed(J, s)

LEMMA CommitRows ==
  ASSUME Inv, Planned, NEW w \in Workers, Commit(w)
  PROVE  RowsStep
<1>1. PICK k \in NewKeys(w) : txn[w].op = "open" /\ job' = RowsAfter(w, k)
  BY DEF Commit
<1> DEFINE t == txn[w]
<1>2. t \in Writes /\ WritesOK(t) /\ Plan(t, job)
  BY <1>1 DEF Inv, TypeOK, TxnOK, Planned
<1>3. t.upd \subseteq JobIds /\ \A j \in t.upd : job[j].status \in Active
  BY <1>2 DEF Plan, Writes
<1>4. \A j \in JobIds :
        /\ j \in t.upd =>
             /\ job'[j].dev = job[j].dev
             /\ job'[j].status = IF t.to = None THEN job[j].status ELSE t.to
             /\ job'[j].why = IF t.why = None THEN job[j].why ELSE t.why
        /\ j \notin t.upd /\ j = k =>
             /\ t.ins # None /\ job[j].status = "absent" /\ job'[j].status = "requested"
             /\ job'[j].why = None /\ job'[j].dev = t.dev
        /\ j \notin t.upd /\ j # k => SameRow(j)
  BY <1>1, RowAfter DEF SameRow
<1>5. "absent" \notin Active /\ None \notin Active \cup Terminal /\ None \notin Reasons
  BY NoneAssumption DEF Active, Aware
<1>6. t.ins = None => k \notin JobIds
  BY <1>1, NoneAssumption DEF NewKeys
<1>7. CASE Replaces(t, job)
  <2>1. /\ t.upd = ActiveJobs(t.dev) /\ t.to = "superseded" /\ t.why = "replaced" /\ t.ins # None
        /\ t.dev \in Devices /\ \A j \in t.upd : job[j].status = "requested" /\ job[j].dev = t.dev
    BY <1>2, <1>7 DEF Replaces, ActiveJobs, WritesOK, Sound
  <2>2. k \in JobIds /\ job[k].status = "absent" /\ k \notin t.upd
    BY <1>1, <1>3, <1>5, <2>1 DEF NewKeys
  <2>3. t.to # None /\ t.why # None
    BY <1>5, <2>1 DEF Terminal, Reasons
  <2> HIDE DEF t
  <2>4. RowsReplaced(k, t.dev)
    BY <1>3, <1>4, <2>1, <2>2, <2>3 DEF RowsReplaced
  <2> QED BY <2>1, <2>2, <2>4 DEF RowsStep
<1>8. CASE Closes(t, job)
  <2>1. /\ t.to \in Terminal /\ t.why # "replaced" /\ k \notin JobIds
        /\ t.to = "superseded" => t.why = "already_on_target" /\ \A j \in t.upd : job[j].status = "requested"
        /\ \/ \A i, j \in t.upd : i = j
           \/ t.to = "failed" /\ \A j \in t.upd : job[j].status \in Aware
    BY <1>6, <1>8 DEF Closes
  <2>2. t.to # None /\ (t.why = "already_on_target" => t.why # None)
    BY <1>5, <2>1 DEF Reasons
  <2> HIDE DEF t
  <2>3. RowsClosed(t.upd, t.to)
    BY <1>3, <1>4, <2>1, <2>2 DEF RowsClosed
  <2> QED BY <1>3, <2>1, <2>3 DEF RowsStep
<1>9. CASE Moves(t)
  <2>1. t.to \in Aware \cup {None} /\ t.why = None /\ k \notin JobIds /\ \A i, j \in t.upd : i = j
    BY <1>6, <1>9 DEF Moves
  <2> HIDE DEF t
  <2>2. CASE t.to = None \/ t.upd = {}
    <3>1. RowsSame
      BY <1>4, <2>1, <2>2 DEF RowsSame, SameRow
    <3> QED BY <3>1 DEF RowsStep
  <2>3. CASE t.to # None /\ t.upd # {}
    <3>1. PICK i \in t.upd : t.upd = {i}
      BY <2>1, <2>3
    <3>2. RowMoved(i, t.to)
      BY <1>3, <1>4, <2>1, <2>3, <3>1 DEF RowMoved
    <3> QED BY <1>3, <2>1, <2>3, <3>2 DEF RowsStep
  <2> QED BY <2>2, <2>3
<1> QED BY <1>2, <1>7, <1>8, <1>9 DEF Plan

LEMMA UnbindRows ==
  ASSUME Inv, NEW w \in Workers, UnbindCommit(w)
  PROVE  RowsStep
<1> DEFINE J == ActiveJobs(txn[w].dev)
<1>1. job' = [j \in JobIds |->
           IF j \in J THEN [job[j] EXCEPT !.status = "superseded", !.why = "unbound", !.stale = FALSE]
           ELSE job[j]]
  BY DEF UnbindCommit
<1>2. J \subseteq JobIds /\ \A j \in J : job[j].status \in Active
  BY DEF ActiveJobs
<1>3. \A j \in JobIds : job[j] \in JobRow
  BY DEF Inv, TypeOK
<1>4. \A j \in J : job'[j].status = "superseded" /\ job'[j].why = "unbound" /\ job'[j].dev = job[j].dev
  BY <1>1, <1>2, <1>3 DEF JobRow
<1>5. \A j \in JobIds \ J : SameRow(j)
  BY <1>1 DEF SameRow
<1>6. \A i, j \in J : i = j
  BY DEF J, ActiveJobs, Inv, OneActivePerDevice, OneActiveEach
<1> HIDE DEF J
<1>7. RowsClosed(J, "superseded")
  BY <1>2, <1>4, <1>5, <1>6 DEF RowsClosed
<1> QED BY <1>2, <1>7 DEF RowsStep, Terminal

LEMMA StepRows ==
  ASSUME Inv, Planned, [Next]_vars
  PROVE  RowsStep
<1>1. CASE UNCHANGED job
  BY <1>1 DEF RowsStep, RowsSame, SameRow
<1>2. ASSUME NEW i \in JobIds, Age(i) PROVE RowsStep
  <2>1. job' = [job EXCEPT ![i].stale = TRUE]
    BY <1>2 DEF Age
  <2>2. ASSUME NEW j \in JobIds PROVE SameRow(j)
    <3>1. job[j] \in JobRow /\ job'[j] = IF j = i THEN [job[j] EXCEPT !.stale = TRUE] ELSE job[j]
      BY <2>1 DEF Inv, TypeOK
    <3> QED BY <3>1 DEF JobRow, SameRow
  <2> QED BY <2>2 DEF RowsStep, RowsSame
<1>3. ASSUME NEW w \in Workers, Request(w) PROVE UNCHANGED job
  BY <1>3, RequestOpens DEF Opens, Begin, Inv
<1> QED BY <1>1, <1>2, <1>3, CommitRows, UnbindRows
        DEF Next, vars, WorkerStep, PushJobTerminal, Refuse, Abort, Lose, Rebind, Publish,
            Retire, SetVisibility

-----------------------------------------------------------------------------
(* Without overlapping requests the job table keeps what OtaLifecycle says *)
(* of the drawn lifecycle: the rows' statuses and devices implement it,    *)
(* every step a step of it or a stutter.                                   *)
THEOREM JobsFollowLifecycle == ASSUME Alone PROVE Spec => FollowsLifecycle
<1> DEFINE status == [j \in JobIds |-> job[j].status]
           of == [j \in JobIds |-> job[j].dev]
<1>1. Init => Lifecycle!LInit
  BY DEF Init, NoRow, Lifecycle!LInit
<1>2. Inv /\ Planned /\ [Next]_vars => [Lifecycle!LNext]_Lifecycle!lvars
  <2> SUFFICES ASSUME Inv, Planned, [Next]_vars PROVE [Lifecycle!LNext]_Lifecycle!lvars
    OBVIOUS
  <2>1. RowsStep
    BY StepRows
  <2>2. CASE RowsSame
    <3>1. status' = status /\ of' = of
      BY <2>2 DEF RowsSame, SameRow
    <3> QED BY <3>1 DEF Lifecycle!lvars
  <2>3. ASSUME NEW k \in JobIds, NEW d \in Devices, RowsReplaced(k, d) PROVE Lifecycle!LNext
    <3>1. Lifecycle!UnfinishedJobs(d) = ActiveJobs(d)
      BY DEF Lifecycle!UnfinishedJobs, ActiveJobs, Lifecycle!Unfinished, Lifecycle!InProgress, Active, Aware
    <3>2. k \notin ActiveJobs(d) /\ \A j \in ActiveJobs(d) : j \in JobIds /\ job[j].dev = d
      BY <2>3 DEF RowsReplaced, ActiveJobs, Active, Aware
    <3>3. status' = [j \in JobIds |-> IF j = k THEN "requested"
                                       ELSE IF j \in ActiveJobs(d) THEN "superseded" ELSE status[j]]
      BY <2>3, <3>2 DEF RowsReplaced, SameRow
    <3>4. of' = [of EXCEPT ![k] = d]
      <4>1. \A j \in JobIds : job'[j].dev = IF j = k THEN d ELSE job[j].dev
        BY <2>3, <3>2 DEF RowsReplaced, SameRow
      <4> QED BY <4>1
    <3>5. status[k] = "absent" /\ \A j \in ActiveJobs(d) : status[j] = "requested"
      BY <2>3, <3>2 DEF RowsReplaced
    <3>6. Lifecycle!Requests(k, d)
      BY <3>1, <3>3, <3>4, <3>5 DEF Lifecycle!Requests
    <3> QED BY <3>6 DEF Lifecycle!LNext
  <2>4. ASSUME NEW i \in JobIds, NEW s \in Aware, RowMoved(i, s) PROVE Lifecycle!LNext
    <3>1. status' = [status EXCEPT ![i] = s] /\ of' = of
      BY <2>4 DEF RowMoved, SameRow
    <3>2. status[i] \in Lifecycle!Unfinished /\ s \in Lifecycle!InProgress
      BY <2>4 DEF RowMoved, Lifecycle!Unfinished, Lifecycle!InProgress, Active, Aware
    <3> QED BY <3>1, <3>2 DEF Lifecycle!LNext, Lifecycle!MovesOn
  <2>5. ASSUME NEW J \in SUBSET JobIds, NEW s \in Terminal, RowsClosed(J, s) PROVE Lifecycle!LNext
    <3>1. status' = [j \in JobIds |-> IF j \in J THEN s ELSE status[j]] /\ of' = of
      BY <2>5 DEF RowsClosed, SameRow
    <3>2. (\A j \in J : status[j] \in Lifecycle!Unfinished) /\ s \in Lifecycle!Outcome
      BY <2>5 DEF RowsClosed, Lifecycle!Unfinished, Lifecycle!InProgress, Lifecycle!Outcome, Active, Aware, Terminal
    <3>3. CASE \A i, j \in J : i = j
      <4>1. CASE J = {}
        BY <3>1, <4>1 DEF Lifecycle!LNext, Lifecycle!TimesOut
      <4>2. CASE J # {}
        <5>1. PICK i \in J : J = {i}
          BY <3>3, <4>2
        <5>2. status' = [status EXCEPT ![i] = s]
          BY <3>1, <5>1
        <5> QED BY <3>1, <3>2, <5>1, <5>2 DEF Lifecycle!LNext, Lifecycle!Ends
      <4> QED BY <4>1, <4>2
    <3>4. CASE s = "failed" /\ \A j \in J : job[j].status \in Aware
      <4>1. \A j \in J : status[j] \in Lifecycle!InProgress
        BY <3>4 DEF Aware, Lifecycle!InProgress
      <4> QED BY <3>1, <3>4, <4>1 DEF Lifecycle!LNext, Lifecycle!TimesOut
    <3> QED BY <2>5, <3>3, <3>4 DEF RowsClosed
  <2> QED BY <2>1, <2>2, <2>3, <2>4, <2>5 DEF RowsStep
<1> QED BY <1>1, <1>2, PlannedInvariance, Invariance, PTL DEF Spec, FollowsLifecycle, Lifecycle!LSpec

-----------------------------------------------------------------------------
(* A row that is not there says nothing, the device of a job not yet       *)
(* handed over was not told of it, and the pushes of a job that is to be   *)
(* pushed, or has not ended, are all to come.                              *)
AbsentRows == \A j \in JobIds : job[j].status = "absent" => job[j].dev = None /\ job[j].why = None

Untold == \A j \in JobIds : job[j].status \in {"absent", "requested"} => ~trace[j].aware

PushesLeft ==
  /\ \A j \in JobIds : job[j].status \notin Terminal => trace[j].pushes = 0
  /\ \A w \in Workers : txn[w].op = "push" =>
       \A j \in txn[w].upd : job[j].status \in Terminal /\ trace[j].pushes = 0

SerialInv == AbsentRows /\ Untold /\ SupersededNeverStarted /\ PushesLeft /\ PushedAtMostOnce

(* Nobody is told of a job but by a commit that hands it over.             *)
LEMMA AwareStep ==
  ASSUME Inv, [Next]_vars, NEW j \in JobIds, trace'[j].aware
  PROVE  trace[j].aware \/ job'[j].status \in Aware
<1>1. CASE UNCHANGED trace
  BY <1>1
<1>2. ASSUME NEW rows, trace' = Traced(rows) PROVE trace[j].aware \/ rows[j].status \in Aware
  <2> DEFINE h == rows[j].status \in Aware
  <2>1. trace[j] \in [aware : BOOLEAN, pushes : 0..PushCap]
    BY DEF Inv, TypeOK
  <2>2. trace'[j] = [trace[j] EXCEPT !.aware = trace[j].aware \/ h]
    BY <1>2 DEF Traced
  <2> HIDE DEF h
  <2>3. trace'[j].aware = (trace[j].aware \/ h)
    BY <2>1, <2>2
  <2> QED BY <2>3 DEF h
<1>3. ASSUME NEW w \in Workers, PushJobTerminal(w) PROVE trace[j].aware
  <2>1. PICK i : trace' = [trace EXCEPT ![i].pushes = IF @ = PushCap THEN @ ELSE @ + 1]
    BY <1>3 DEF PushJobTerminal
  <2>2. trace[j] \in [aware : BOOLEAN, pushes : 0..PushCap]
    BY DEF Inv, TypeOK
  <2>3. trace'[j].aware = trace[j].aware
    BY <2>1, <2>2 DEF Inv, TypeOK
  <2> QED BY <2>3
<1>4. ASSUME NEW w \in Workers, Request(w) PROVE UNCHANGED trace
  BY <1>4, RequestOpens DEF Opens, Begin, Inv
<1>5. ASSUME NEW w \in Workers, Commit(w) PROVE trace' = Traced(job')
  BY <1>5 DEF Commit
<1> QED BY <1>1, <1>2, <1>3, <1>4, <1>5
        DEF Next, vars, WorkerStep, UnbindCommit, Refuse, Abort, Lose, Age, Rebind, Publish, Retire, SetVisibility

LEMMA SerialRowsInv ==
  ASSUME Inv, Planned, SerialInv, [Next]_vars
  PROVE  AbsentRows' /\ Untold' /\ SupersededNeverStarted'
<1>0. /\ "absent" \notin Active \cup Terminal \cup Aware /\ "requested" \notin Terminal \cup Aware
      /\ "superseded" \notin Active \cup Aware
  BY DEF Active, Aware, Terminal
<1>1. \A j \in JobIds : trace'[j].aware => trace[j].aware \/ job'[j].status \in Aware
  BY AwareStep
<1>2. \A j \in JobIds : job[j].status # "absent" => job[j].dev \in Devices
  BY DEF Inv, TypeOK
<1>3. CASE RowsSame
  <2>1. \A j \in JobIds : job'[j].status = job[j].status /\ job'[j].dev = job[j].dev /\ job'[j].why = job[j].why
    BY <1>3 DEF RowsSame, SameRow
  <2> QED BY <1>0, <1>1, <2>1 DEF SerialInv, AbsentRows, Untold, SupersededNeverStarted
<1>4. ASSUME NEW k \in JobIds, NEW d \in Devices, RowsReplaced(k, d)
      PROVE  AbsentRows' /\ Untold' /\ SupersededNeverStarted'
  <2>1. /\ job[k].status = "absent" /\ job'[k].status = "requested" /\ job'[k].dev = d /\ job'[k].why = None
        /\ \A j \in ActiveJobs(d) : /\ job[j].status = "requested" /\ job'[j].status = "superseded"
                                    /\ job'[j].dev = d /\ job'[j].why = "replaced" /\ j # k
        /\ \A j \in JobIds : j \in ActiveJobs(d) \/ j = k \/ SameRow(j)
    BY <1>0, <1>4 DEF RowsReplaced
  <2>2. AbsentRows' /\ Untold'
    BY <1>0, <1>1, <2>1 DEF SerialInv, AbsentRows, Untold, SameRow
  <2>3. ASSUME NEW j \in JobIds, job'[j].status = "superseded", job'[j].why \in {"replaced", "already_on_target"}
        PROVE  ~trace'[j].aware
    BY <1>0, <1>1, <2>1, <2>3 DEF SerialInv, Untold, SupersededNeverStarted, SameRow
  <2>4. ASSUME NEW j \in JobIds, job'[j].why = "replaced"
        PROVE  \E i \in JobIds \ {j} : job'[i].dev = job'[j].dev
    <3>1. CASE j \in ActiveJobs(d)
      BY <2>1, <3>1
    <3>2. CASE j \notin ActiveJobs(d)
      <4>1. SameRow(j) /\ j # k
        BY <2>1, <2>4, <3>2, NoneAssumption DEF Reasons
      <4>2. PICK i \in JobIds \ {j} : job[i].dev = job[j].dev
        BY <2>4, <4>1 DEF SerialInv, SupersededNeverStarted, SameRow
      <4>3. job[j].dev \in Devices
        BY <1>2, <2>4, <4>1, NoneAssumption DEF SerialInv, AbsentRows, SameRow, Reasons
      <4>4. i # k
        BY <2>1, <4>2, <4>3, NoneAssumption DEF SerialInv, AbsentRows
      <4>5. job'[i].dev = job[i].dev
        <5>1. CASE i \in ActiveJobs(d)
          BY <2>1, <5>1 DEF ActiveJobs
        <5>2. CASE SameRow(i)
          BY <5>2 DEF SameRow
        <5> QED BY <2>1, <4>4, <5>1, <5>2
      <4> QED BY <4>1, <4>2, <4>5 DEF SameRow
    <3> QED BY <3>1, <3>2
  <2> QED BY <2>2, <2>3, <2>4 DEF SupersededNeverStarted
<1>5. ASSUME NEW J \in SUBSET JobIds, NEW s \in Aware \cup Terminal,
             \A j \in J : /\ job[j].status \in Active /\ job'[j].status = s /\ job'[j].dev = job[j].dev
                          /\ job'[j].why = "replaced" => job[j].why = "replaced"
                          /\ s = "superseded" => \/ job'[j].why = "already_on_target" /\ job[j].status = "requested"
                                                 \/ job'[j].why = "unbound",
             \A j \in JobIds \ J : SameRow(j)
      PROVE  AbsentRows' /\ Untold' /\ SupersededNeverStarted'
  <2>1. \A j \in JobIds : /\ job'[j].dev = job[j].dev
                          /\ job'[j].why = "replaced" => job[j].why = "replaced"
    BY <1>5 DEF SameRow
  <2>2. AbsentRows' /\ Untold'
    BY <1>0, <1>1, <1>5 DEF SerialInv, AbsentRows, Untold, SameRow
  <2>3. ASSUME NEW j \in JobIds, job'[j].status = "superseded", job'[j].why \in {"replaced", "already_on_target"}
        PROVE  ~trace'[j].aware
    BY <1>0, <1>1, <1>5, <2>3 DEF SerialInv, Untold, SupersededNeverStarted, SameRow
  <2>4. ASSUME NEW j \in JobIds, job'[j].why = "replaced"
        PROVE  \E i \in JobIds \ {j} : job'[i].dev = job'[j].dev
    <3>1. PICK i \in JobIds \ {j} : job[i].dev = job[j].dev
      BY <2>1, <2>4 DEF SerialInv, SupersededNeverStarted
    <3> QED BY <2>1, <3>1
  <2> QED BY <2>2, <2>3, <2>4 DEF SupersededNeverStarted
<1>6. ASSUME NEW i \in JobIds, NEW s \in Aware, RowMoved(i, s)
      PROVE  AbsentRows' /\ Untold' /\ SupersededNeverStarted'
  <2> DEFINE J == {i}
  <2>1. /\ \A j \in J : /\ job[j].status \in Active /\ job'[j].status = s /\ job'[j].dev = job[j].dev
                        /\ job'[j].why = "replaced" => job[j].why = "replaced"
                        /\ s = "superseded" => \/ job'[j].why = "already_on_target" /\ job[j].status = "requested"
                                               \/ job'[j].why = "unbound"
        /\ \A j \in JobIds \ J : SameRow(j)
        /\ J \in SUBSET JobIds /\ s \in Aware \cup Terminal
    BY <1>0, <1>6 DEF RowMoved
  <2> HIDE DEF J
  <2> QED BY <1>5, <2>1
<1>7. ASSUME NEW J \in SUBSET JobIds, NEW s \in Terminal, RowsClosed(J, s)
      PROVE  AbsentRows' /\ Untold' /\ SupersededNeverStarted'
  BY <1>5, <1>7 DEF RowsClosed
<1> QED BY <1>3, <1>4, <1>6, <1>7, StepRows DEF RowsStep

(* Only the push of a job counts as one.                                   *)
LEMMA PushCount ==
  ASSUME Inv, [Next]_vars, NEW j \in JobIds
  PROVE  \/ trace'[j].pushes = trace[j].pushes
         \/ /\ trace'[j].pushes = trace[j].pushes + 1
            /\ \E w \in Workers : txn[w].op = "push" /\ j \in txn[w].upd
<1>1. trace[j] \in [aware : BOOLEAN, pushes : 0..PushCap]
  BY DEF Inv, TypeOK
<1>2. CASE UNCHANGED trace
  BY <1>2
<1>3. ASSUME NEW rows, trace' = Traced(rows) PROVE trace'[j].pushes = trace[j].pushes
  BY <1>1, <1>3 DEF Traced
<1>4. ASSUME NEW w \in Workers, PushJobTerminal(w)
      PROVE  \/ trace'[j].pushes = trace[j].pushes
             \/ trace'[j].pushes = trace[j].pushes + 1 /\ txn[w].op = "push" /\ j \in txn[w].upd
  BY <1>1, <1>4 DEF PushJobTerminal, Inv, TypeOK
<1>5. ASSUME NEW w \in Workers, Request(w) PROVE UNCHANGED trace
  BY <1>5, RequestOpens DEF Opens, Begin, Inv
<1>6. ASSUME NEW w \in Workers, Commit(w) PROVE trace' = Traced(job')
  BY <1>6 DEF Commit
<1> QED BY <1>2, <1>3, <1>4, <1>5, <1>6
        DEF Next, vars, WorkerStep, UnbindCommit, Refuse, Abort, Lose, Age, Rebind, Publish, Retire, SetVisibility

(* What is still to be pushed was to be pushed before, or has just ended.  *)
LEMMA PushTxnStep ==
  ASSUME Alone, Inv, Planned, [Next]_vars, NEW w \in Workers, txn'[w].op = "push", NEW j \in txn'[w].upd
  PROVE  /\ j \in JobIds /\ trace'[j].pushes = trace[j].pushes
         /\ \/ txn[w].op = "push" /\ j \in txn[w].upd
            \/ job[j].status \in Active /\ job'[j].status \in Terminal
<1>1. CASE UNCHANGED <<txn, trace>>
  BY <1>1 DEF Inv, TypeOK, Writes
<1>2. ASSUME NEW v \in Workers, WorkerStep(v) PROVE v = w /\ WorkerStep(w)
  BY <1>2 DEF Alone
<1>3. ASSUME NEW t, txn' = [txn EXCEPT ![w] = t] PROVE txn'[w] = t
  BY <1>3 DEF Inv, TypeOK
<1>4. ~Request(w)
  <2> SUFFICES ASSUME Request(w) PROVE FALSE
    OBVIOUS
  <2>1. PICK t : Opens(w, t)
    BY RequestOpens DEF Inv
  <2> QED BY <1>3, <2>1 DEF Opens, Begin
<1>5. ~UnbindCommit(w) /\ ~Refuse(w) /\ ~Abort(w)
  <2>1. Idle.op = "idle"
    BY DEF Idle
  <2> QED BY <1>3, <2>1 DEF UnbindCommit, Refuse, Abort, Lose
<1>6. CASE PushJobTerminal(w)
  <2>1. PICK i \in txn[w].upd :
          /\ txn[w].op = "push"
          /\ trace' = [trace EXCEPT ![i].pushes = IF @ = PushCap THEN @ ELSE @ + 1]
          /\ txn' = [txn EXCEPT ![w] = IF @.upd = {i} THEN Idle ELSE [@ EXCEPT !.upd = txn[w].upd \ {i}]]
    BY <1>6 DEF PushJobTerminal
  <2>2. txn[w].upd # {i}
    BY <1>3, <2>1, SMTT(30) DEF Idle
  <2>3. txn'[w] = [txn[w] EXCEPT !.upd = txn[w].upd \ {i}]
    BY <1>3, <2>1, <2>2
  <2>4. txn[w] \in Writes
    BY DEF Inv, TypeOK
  <2>5. txn'[w].upd = txn[w].upd \ {i} /\ txn[w].upd \subseteq JobIds
    BY <2>3, <2>4 DEF Writes
  <2>6. trace'[j] = trace[j]
    BY <2>1, <2>5 DEF Inv, TypeOK
  <2> QED BY <2>1, <2>5, <2>6
<1>7. CASE Commit(w)
  <2>1. PICK k \in NewKeys(w) : Finish(w) /\ job' = RowsAfter(w, k) /\ trace' = Traced(job') /\ txn[w].op = "open"
    BY <1>7 DEF Commit
  <2> DEFINE t == txn[w]
             n == IF t.push THEN [Idle EXCEPT !.op = "push", !.upd = t.upd, !.to = t.to] ELSE Idle
  <2>2. t \in Writes /\ WritesOK(t) /\ Plan(t, job)
    BY <2>1 DEF Inv, TypeOK, TxnOK, Planned
  <2>3. txn'[w] = n
    BY <2>1 DEF Finish, Inv, TypeOK
  <2>4. t.push
    BY <2>3 DEF Idle
  <2>5. j \in t.upd /\ j \in JobIds /\ t.to \in Pushed
    BY <2>2, <2>3, <2>4 DEF Idle, Writes, WritesOK, Sound
  <2>6. job[j].status \in Active
    BY <2>2, <2>5 DEF Plan
  <2>7. job'[j].status = t.to
    BY <2>1, <2>5, RowAfter, NoneAssumption DEF Pushed, Terminal
  <2>8. trace[j] \in [aware : BOOLEAN, pushes : 0..PushCap]
    BY <2>5 DEF Inv, TypeOK
  <2>9. trace'[j].pushes = trace[j].pushes
    BY <2>1, <2>5, <2>8 DEF Traced
  <2> QED BY <2>5, <2>6, <2>7, <2>9 DEF Pushed, Terminal
<1> QED BY <1>1, <1>2, <1>4, <1>5, <1>6, <1>7
        DEF Next, vars, WorkerStep, Age, Rebind, Publish, Retire, SetVisibility

LEMMA PushesInv ==
  ASSUME Alone, Inv, Planned, SerialInv, [Next]_vars
  PROVE  PushesLeft' /\ PushedAtMostOnce'
<1>1. \A j \in JobIds : job[j].status \in Terminal => job'[j].status \in Terminal
  BY TerminalStep
<1>2. "absent" \notin Terminal /\ \A s \in Active : s \notin Terminal
  BY DEF Active, Aware, Terminal
<1>3. ASSUME NEW j \in JobIds
      PROVE  trace'[j].pushes <= 1 /\ (job'[j].status \notin Terminal => trace'[j].pushes = 0)
  <2>1. trace[j].pushes <= 1 /\ (job[j].status \notin Terminal => trace[j].pushes = 0)
    BY DEF SerialInv, PushedAtMostOnce, PushesLeft
  <2>2. (\E w \in Workers : txn[w].op = "push" /\ j \in txn[w].upd) =>
          trace[j].pushes = 0 /\ job[j].status \in Terminal
    BY DEF SerialInv, PushesLeft
  <2> QED BY <1>1, <2>1, <2>2, PushCount
<1>4. ASSUME NEW w \in Workers, txn'[w].op = "push", NEW j \in txn'[w].upd
      PROVE  job'[j].status \in Terminal /\ trace'[j].pushes = 0
  <2>1. j \in JobIds /\ trace'[j].pushes = trace[j].pushes
    BY <1>4, PushTxnStep
  <2>2. CASE txn[w].op = "push" /\ j \in txn[w].upd
    BY <1>1, <2>1, <2>2 DEF SerialInv, PushesLeft
  <2>3. CASE job[j].status \in Active /\ job'[j].status \in Terminal
    BY <1>2, <2>1, <2>3 DEF SerialInv, PushesLeft
  <2> QED BY <1>4, <2>2, <2>3, PushTxnStep
<1> QED BY <1>3, <1>4 DEF PushesLeft, PushedAtMostOnce

LEMMA SerialInvariance == ASSUME Alone PROVE Spec => []SerialInv
<1>1. Init => SerialInv
  BY NoneAssumption DEF Init, NoRow, NewTrace, Idle, SerialInv, AbsentRows, Untold, SupersededNeverStarted,
                        PushesLeft, PushedAtMostOnce, Reasons
<1>2. Inv /\ Planned /\ SerialInv /\ [Next]_vars => SerialInv'
  BY SerialRowsInv, PushesInv DEF SerialInv
<1> QED BY <1>1, <1>2, PlannedInvariance, Invariance, PTL DEF Spec

(* Without overlapping requests a job that is superseded as replaced or as *)
(* already on target had not been handed to its device, and one that was   *)
(* replaced has its successor in the table.                                *)
THEOREM SerialSupersededNeverStarted == ASSUME Alone PROVE Spec => []SupersededNeverStarted
<1>1. SerialInv => SupersededNeverStarted
  BY DEF SerialInv
<1> QED BY <1>1, SerialInvariance, PTL

(* Without overlapping requests the App is told at most once that a job    *)
(* has ended.                                                              *)
THEOREM SerialPushedAtMostOnce == ASSUME Alone PROVE Spec => []PushedAtMostOnce
<1>1. SerialInv => PushedAtMostOnce
  BY DEF SerialInv
<1> QED BY <1>1, SerialInvariance, PTL

--------------------------------------------------------------------------------
(* The loop of server and devices.                                         *)

(* What a device is and has published.                                     *)
Unit ==
  [runs : Versions, ran : SUBSET Versions, phase : {"idle", "working", "booted"},
   image : Versions \cup {None}, offer : [fw : Firmware, force : BOOLEAN] \cup {None}]

UnitOK(u) ==
  /\ u \in Unit /\ u.runs \in u.ran
  /\ u.phase = "working" => u.image \in Firmware
  /\ u.phase = "booted" => u.image \in u.ran

UnitsOK == unit \in [Devices -> Unit] /\ \A d \in Devices : UnitOK(unit[d])

(* A report of success names a version the device has run.                 *)
Truthful(m, units) == m.state = "succeeded" => m.version \in units[m.dev].ran

SentOK == sent \subseteq Messages /\ \A m \in sent : Truthful(m, unit)

(* A transaction writes down only a version the device has run, and offers *)
(* only a job that exists.                                                 *)
Honest(t, rows, units) ==
  /\ t.cur # None => t.dev \in Devices /\ t.cur \in units[t.dev].ran
  /\ t.offer # None => rows[t.offer].status # "absent"

TxnHonest == \A w \in Workers : Honest(txn[w], job, unit)

LoopInv == Inv /\ UnitsOK /\ SentOK /\ TxnHonest /\ ShownVersionWasRun

(* What no step takes back: a job that exists keeps its device and build,  *)
(* and a device has run what it has run.                                   *)
Keeps ==
  /\ \A j \in JobIds : job[j].status # "absent" =>
       job'[j].status # "absent" /\ job'[j].dev = job[j].dev /\ job'[j].fw = job[j].fw
  /\ \A d \in Devices : unit[d].ran \subseteq unit'[d].ran

-----------------------------------------------------------------------------
(* The steps of the loop are steps of OtaJobs.                             *)
LEMMA DeviceCheckOf ==
  ASSUME UnitsOK, NEW w \in Workers, DeviceCheck(w)
  PROVE  \E d \in Devices, rep \in Versions \cup {None}, git \in BOOLEAN :
           rep \in {unit[d].runs, None} /\ Check(w, d, rep, git)
BY DEF DeviceCheck, UnitsOK, Unit

LEMMA LoopStepIsStep ==
  ASSUME UnitsOK, SentOK, [UNext]_uvars
  PROVE  [Next]_vars
<1>1. ASSUME NEW w \in Workers, DeviceCheck(w) PROVE Request(w)
  BY <1>1, DeviceCheckOf DEF Request
<1>2. ASSUME NEW w \in Workers, DeviceReport(w) PROVE Request(w)
  BY <1>2 DEF DeviceReport, SentOK, Request
<1>3. ASSUME NEW w \in Workers, Respond(w) \/ Fail(w) PROVE WorkerStep(w)
  BY <1>3 DEF Respond, Fail, WorkerStep
<1>4. ASSUME ServerStep PROVE Next
  BY <1>4 DEF ServerStep, Next, WorkerStep, Request
<1>5. ASSUME NEW d \in Devices, UnitStep(d) PROVE UNCHANGED vars
  BY <1>5 DEF UnitStep, UnitStarts, UnitFails, UnitBoots, UnitConfirms, UnitRollsBack, Publishes
<1> QED BY <1>1, <1>2, <1>3, <1>4, <1>5 DEF UNext, uvars, vars, Next, WorkerStep

LEMMA LoopRows ==
  ASSUME Inv, [Next]_vars, NEW j \in JobIds, job[j].status # "absent"
  PROVE  job'[j].status # "absent" /\ job'[j].dev = job[j].dev /\ job'[j].fw = job[j].fw
<1>0. job[j] \in JobRow /\ "absent" \notin Active \cup Terminal
  BY DEF Inv, TypeOK, Active, Aware, Terminal
<1>1. CASE UNCHANGED job
  BY <1>1
<1>2. ASSUME NEW i \in JobIds, Age(i)
      PROVE  job'[j].status # "absent" /\ job'[j].dev = job[j].dev /\ job'[j].fw = job[j].fw
  <2>1. job'[j] = IF j = i THEN [job[j] EXCEPT !.stale = TRUE] ELSE job[j]
    BY <1>2 DEF Age, Inv, TypeOK
  <2> QED BY <1>0, <2>1 DEF JobRow
<1>3. ASSUME NEW w \in Workers, Commit(w)
      PROVE  job'[j].status # "absent" /\ job'[j].dev = job[j].dev /\ job'[j].fw = job[j].fw
  <2>1. PICK k \in NewKeys(w) : job' = RowsAfter(w, k)
    BY <1>3 DEF Commit
  <2>2. job'[j].status # "absent"
    BY <2>1, RowsAfterType
  <2>3. j # k
    BY NoneAssumption DEF NewKeys
  <2>4. CASE j \in txn[w].upd
    <3>1. job'[j] = Rewrite(job[j], txn[w]) /\ txn[w] \in Writes
      BY <2>1, <2>4 DEF RowsAfter, Inv, TypeOK
    <3> QED BY <1>0, <2>2, <3>1, RewriteType
  <2>5. CASE j \notin txn[w].upd
    BY <2>1, <2>2, <2>3, <2>5 DEF RowsAfter
  <2> QED BY <2>4, <2>5
<1>4. ASSUME NEW w \in Workers, UnbindCommit(w)
      PROVE  job'[j].status # "absent" /\ job'[j].dev = job[j].dev /\ job'[j].fw = job[j].fw
  <2>1. job'[j] = IF j \in ActiveJobs(txn[w].dev)
                  THEN [job[j] EXCEPT !.status = "superseded", !.why = "unbound", !.stale = FALSE]
                  ELSE job[j]
    BY <1>4 DEF UnbindCommit
  <2> QED BY <1>0, <2>1 DEF JobRow
<1>5. ASSUME NEW w \in Workers, Request(w) PROVE UNCHANGED job
  BY <1>5, RequestOpens DEF Opens, Begin, Inv
<1> QED BY <1>1, <1>2, <1>3, <1>4, <1>5
        DEF Next, vars, WorkerStep, PushJobTerminal, Refuse, Abort, Lose, Rebind, Publish, Retire, SetVisibility

-----------------------------------------------------------------------------
(* The devices.                                                            *)
LEMMA HandOverKeeps ==
  ASSUME LoopInv, NEW w \in Workers, unit' \in {unit, HandOver(w)}, UNCHANGED sent
  PROVE  UnitsOK' /\ SentOK' /\ \A d \in Devices : unit'[d].ran = unit[d].ran
<1> DEFINE j == txn[w].offer
           o == [fw |-> job[j].fw, force |-> job[j].force]
<1>1. CASE unit' = unit
  BY <1>1 DEF LoopInv, UnitsOK, SentOK
<1>2. CASE j # None /\ unit' = [unit EXCEPT ![job[j].dev].offer = o]
  <2>1. j \in JobIds /\ job[j].status # "absent" /\ job[j] \in JobRow
    BY <1>2 DEF LoopInv, Inv, TypeOK, Writes, TxnHonest, Honest
  <2>2. job[j].dev \in Devices /\ o \in [fw : Firmware, force : BOOLEAN]
    BY <2>1 DEF LoopInv, Inv, TypeOK, JobRow
  <2> HIDE DEF o
  <2>3. ASSUME NEW d \in Devices
        PROVE  /\ UnitOK(unit'[d]) /\ unit'[d].ran = unit[d].ran
    <3>1. unit'[d] = IF d = job[j].dev THEN [unit[d] EXCEPT !.offer = o] ELSE unit[d]
      BY <1>2, <2>2 DEF LoopInv, UnitsOK
    <3>2. unit[d] \in Unit /\ UnitOK(unit[d])
      BY DEF LoopInv, UnitsOK
    <3> QED BY <2>2, <3>1, <3>2 DEF Unit, UnitOK
  <2>4. UnitsOK'
    BY <1>2, <2>3 DEF LoopInv, UnitsOK, UnitOK
  <2>5. SentOK'
    BY <2>3 DEF LoopInv, SentOK, Truthful, Messages
  <2> QED BY <2>3, <2>4, <2>5
<1> QED BY <1>1, <1>2 DEF HandOver

(* A step of a device.                                                     *)
LEMMA UnitStepKeeps ==
  ASSUME LoopInv, NEW d \in Devices, NEW u, NEW state, NEW v \in Versions \cup {None},
         unit' = [unit EXCEPT ![d] = u], UnitOK(u), unit[d].ran \subseteq u.ran,
         state \in ReportStates, state = "succeeded" => v \in u.ran, Publishes(d, state, v)
  PROVE  UnitsOK' /\ SentOK' /\ \A e \in Devices : unit[e].ran \subseteq unit'[e].ran
<1>1. \A e \in Devices : unit'[e] = IF e = d THEN u ELSE unit[e]
  BY DEF LoopInv, UnitsOK
<1>2. u \in Unit
  BY DEF UnitOK
<1>3. UnitsOK'
  BY <1>1, <1>2 DEF LoopInv, UnitsOK
<1>4. \A e \in Devices : unit[e].ran \subseteq unit'[e].ran
  BY <1>1
<1> DEFINE m == [dev |-> d, state |-> state, version |-> v]
<1>5. sent' = sent \cup {m} /\ m \in Messages /\ Truthful(m, unit')
  BY <1>1 DEF Publishes, Messages, Truthful
<1> HIDE DEF m
<1>6. \A n \in sent : n \in Messages /\ Truthful(n, unit')
  BY <1>4 DEF LoopInv, SentOK, Truthful, Messages
<1>7. SentOK'
  BY <1>5, <1>6 DEF SentOK
<1> QED BY <1>3, <1>4, <1>7

LEMMA UnitStepInv ==
  ASSUME LoopInv, NEW d \in Devices, UnitStep(d)
  PROVE  UnitsOK' /\ SentOK' /\ \A e \in Devices : unit[e].ran \subseteq unit'[e].ran
<1> DEFINE x == unit[d]
<1>1. x \in Unit /\ UnitOK(x) /\ Firmware \subseteq Versions
  BY FirmwareAssumption DEF LoopInv, UnitsOK
<1>2. CASE UnitStarts(d)
  <2> DEFINE u == [x EXCEPT !.phase = "working", !.image = x.offer.fw, !.offer = None]
  <2>1. unit' = [unit EXCEPT ![d] = u] /\ Publishes(d, "downloading", None) /\ x.offer # None
    BY <1>2 DEF UnitStarts
  <2>2. x.offer.fw \in Firmware
    BY <1>1, <2>1 DEF Unit
  <2> DEFINE f == x.offer.fw
  <2> HIDE DEF x, f
  <2>3. UnitOK(u) /\ x.ran \subseteq u.ran
    BY <1>1, <2>2 DEF Unit, UnitOK, f
  <2> HIDE DEF u
  <2> QED BY <2>1, <2>3, UnitStepKeeps, UnitReportAssumption DEF x
<1>3. CASE UnitFails(d)
  <2> DEFINE u == [x EXCEPT !.phase = "idle", !.image = None]
  <2>1. unit' = [unit EXCEPT ![d] = u] /\ Publishes(d, "failed", None)
    BY <1>3 DEF UnitFails
  <2> HIDE DEF x
  <2>2. UnitOK(u) /\ x.ran \subseteq u.ran
    BY <1>1 DEF Unit, UnitOK
  <2> HIDE DEF u
  <2> QED BY <2>1, <2>2, UnitStepKeeps, UnitReportAssumption DEF x
<1>4. CASE UnitBoots(d)
  <2> DEFINE u == [x EXCEPT !.phase = "booted", !.image = x.runs, !.runs = x.image, !.ran = x.ran \cup {x.image}]
  <2>1. unit' = [unit EXCEPT ![d] = u] /\ Publishes(d, "rebooting", None) /\ x.phase = "working"
    BY <1>4 DEF UnitBoots, LoopInv, UnitsOK
  <2> HIDE DEF x
  <2>2. x.image \in Versions
    BY <1>1, <2>1 DEF UnitOK
  <2>3. UnitOK(u) /\ x.ran \subseteq u.ran
    BY <1>1, <2>2 DEF Unit, UnitOK
  <2> HIDE DEF u
  <2> QED BY <2>1, <2>3, UnitStepKeeps, UnitReportAssumption DEF x
<1>5. CASE UnitConfirms(d)
  <2> DEFINE u == [x EXCEPT !.phase = "idle", !.image = None]
  <2>1. unit' = [unit EXCEPT ![d] = u] /\ Publishes(d, "succeeded", x.runs)
    BY <1>5 DEF UnitConfirms
  <2> HIDE DEF x
  <2>2. UnitOK(u) /\ x.ran \subseteq u.ran /\ x.runs \in u.ran /\ x.runs \in Versions
    BY <1>1 DEF Unit, UnitOK
  <2> HIDE DEF u
  <2> QED BY <2>1, <2>2, UnitStepKeeps, UnitReportAssumption DEF x
<1>6. CASE UnitRollsBack(d)
  <2> DEFINE u == [x EXCEPT !.phase = "idle", !.image = None, !.runs = x.image]
  <2>1. unit' = [unit EXCEPT ![d] = u] /\ Publishes(d, "rolled_back", x.image) /\ x.phase = "booted"
    BY <1>6 DEF UnitRollsBack
  <2> HIDE DEF x
  <2>2. UnitOK(u) /\ x.ran \subseteq u.ran /\ x.image \in Versions
    BY <1>1, <2>1 DEF Unit, UnitOK
  <2> HIDE DEF u
  <2> QED BY <2>1, <2>2, UnitStepKeeps, UnitReportAssumption DEF x
<1> QED BY <1>2, <1>3, <1>4, <1>5, <1>6 DEF UnitStep

-----------------------------------------------------------------------------
(* The transactions.                                                       *)

(* The device of a job has run its build or a newer one.                   *)
HasRun(row, units) == \E v \in units[row.dev].ran : v \in Nat /\ v >= row.fw

(* A transaction closes a job as on target only if its device has.         *)
OnTargetOK(t, rows, units) ==
  t.why \in {"confirmed_by_check", "already_on_target"} => \A j \in t.upd : HasRun(rows[j], units)

Parses == \A d \in Devices : unit[d].ran \subseteq Nat

LEMMA LoopCheckOpens ==
  ASSUME LoopInv, NEW w \in Workers, NEW d \in Devices, NEW rep \in {unit[d].runs, None}, NEW git \in BOOLEAN,
         Check(w, d, rep, git)
  PROVE  \E t : Begin(w, t) /\ Honest(t, job, unit) /\ (Parses => OnTargetOK(t, job, unit))
<1> DEFINE c == CheckWrites(d, rep, git)
           shown == CurrentAtCheck(d, rep, git)
<1>1. rep \in Versions \cup {None} /\ unit[d].runs \in unit[d].ran
  BY DEF LoopInv, UnitsOK, UnitOK, Unit
<1>2. /\ c \in Writes /\ c.upd = {} /\ c.why = None /\ c.dev = d /\ c.offer = None
      /\ c.cur \in {None, rep}
  <2>1. c \in Writes /\ c.upd = {} /\ c.why = None
    BY <1>1, CheckWritesType
  <2>2. c.dev = d /\ c.offer = None /\ c.cur \in {None, rep}
    BY <1>1, CheckWritesFields
  <2> QED BY <2>1, <2>2
<1>3. c.cur # None => c.cur \in unit[d].ran
  BY <1>1, <1>2
<1>4. shown # None => shown \in unit[d].ran
  BY <1>1 DEF CurrentAtCheck, LoopInv, ShownVersionWasRun
<1>5. \A j \in ActiveJobs(d) : j \in JobIds /\ job[j].status # "absent" /\ job[j].dev = d /\ job[j].fw \in Firmware
  BY ActiveJobPresent DEF LoopInv, Inv, ActiveJobs
<1>6. None \notin {"confirmed_by_check", "already_on_target"}
  BY NoneAssumption DEF Reasons
<1> HIDE DEF c, shown
<1>7. CASE CheckNoJob(w, d, rep, git) \/ CheckPresignFails(w, d, rep, git)
  <2>1. Begin(w, c)
    BY <1>7 DEF CheckNoJob, CheckPresignFails, c
  <2> QED BY <1>2, <1>3, <1>6, <2>1 DEF Honest, OnTargetOK
<1>8. CASE CheckOnTarget(w, d, rep, git)
  <2> DEFINE t(j) == LET handed == job[j].status \in Aware IN
               [c EXCEPT !.upd = {j},
                         !.to = IF handed THEN "succeeded" ELSE "superseded",
                         !.why = IF handed THEN "confirmed_by_check" ELSE "already_on_target",
                         !.push = handed]
  <2>1. PICK j \in ActiveJobs(d) : OnTarget(j, shown) /\ Begin(w, t(j))
    BY <1>8 DEF CheckOnTarget, c, shown
  <2>2. t(j).upd = {j} /\ t(j).offer = None /\ t(j).cur = c.cur /\ t(j).dev = d
    BY <1>2 DEF Writes
  <2>3. ASSUME Parses PROVE HasRun(job[j], unit)
    <3>1. shown \in unit[d].ran /\ shown \in Nat
      BY <1>4, <2>1, <2>3 DEF OnTarget, Parses
    <3>2. job[j].fw \in Nat /\ shown >= job[j].fw
      BY <1>5, <2>1, <3>1, FirmwareAssumption DEF OnTarget, VersionLt
    <3> QED BY <1>5, <3>1, <3>2 DEF HasRun
  <2> HIDE DEF t
  <2> QED BY <1>3, <2>1, <2>2, <2>3 DEF Honest, OnTargetOK
<1>9. CASE CheckOffer(w, d, rep, git)
  <2> DEFINE t(j) == [c EXCEPT !.upd = IF job[j].status = "notified" THEN {} ELSE {j},
                               !.to = "notified", !.offer = j]
  <2>1. PICK j \in ActiveJobs(d) : Begin(w, t(j))
    BY <1>9 DEF CheckOffer, c
  <2>2. t(j).why = None /\ t(j).offer = j /\ t(j).cur = c.cur /\ t(j).dev = d
    BY <1>2 DEF Writes
  <2> HIDE DEF t
  <2> QED BY <1>3, <1>5, <1>6, <2>1, <2>2 DEF Honest, OnTargetOK
<1> QED BY <1>7, <1>8, <1>9 DEF Check

LEMMA LoopReportOpens ==
  ASSUME LoopInv, NEW w \in Workers, NEW m \in sent, Report(w, m)
  PROVE  \E t : Begin(w, t) /\ Honest(t, job, unit) /\ OnTargetOK(t, job, unit)
<1> DEFINE r == ReportWrites(m.dev)
<1>1. m \in Messages /\ m.dev \in Devices /\ m.version \in Versions \cup {None} /\ Truthful(m, unit)
  BY DEF LoopInv, SentOK, Messages
<1>2. r \in Writes /\ r.upd = {} /\ r.why = None /\ r.dev = m.dev /\ r.offer = None /\ r.cur = None
  BY <1>1, ReportWritesType
<1>3. None \notin Versions /\ None \notin {"confirmed_by_check", "already_on_target"}
  BY NoneAssumption DEF Reasons
<1>4. m.state = "succeeded" => m.version # None /\ m.version \in unit[m.dev].ran
  BY <1>1, <1>3 DEF Truthful, LoopInv, UnitsOK, UnitOK, Unit
<1> HIDE DEF r
<1>5. CASE ReportNoJob(w, m)
  <2> DEFINE t == StoreVersion(r, m.dev, m.version)
  <2>1. Begin(w, t) /\ m.state = "succeeded"
    BY <1>5 DEF ReportNoJob, r
  <2>2. t.why = None /\ t.offer = None /\ t.cur \in {None, m.version} /\ t.dev = m.dev
    BY <1>1, <1>2, StoreVersionType
  <2> HIDE DEF t
  <2> QED BY <1>1, <1>3, <1>4, <2>1, <2>2 DEF Honest, OnTargetOK
<1>6. CASE ReportSucceeded(w, m)
  <2> DEFINE s == StoreVersion(r, m.dev, m.version)
             t(j) == [s EXCEPT !.upd = {j}, !.to = "succeeded", !.push = TRUE]
  <2>1. PICK j \in ActiveJobs(m.dev) : m.state = "succeeded" /\ Begin(w, t(j))
    BY <1>4, <1>6 DEF ReportSucceeded, r
  <2>2. s \in Writes /\ s.why = None /\ s.offer = None /\ s.cur \in {None, m.version} /\ s.dev = m.dev
    BY <1>1, <1>2, StoreVersionType
  <2> HIDE DEF s
  <2>3. t(j).why = None /\ t(j).offer = None /\ t(j).cur \in {None, m.version} /\ t(j).dev = m.dev
    BY <2>2 DEF Writes
  <2> HIDE DEF t
  <2> QED BY <1>1, <1>3, <1>4, <2>1, <2>3 DEF Honest, OnTargetOK
<1>7. CASE ReportFailed(w, m)
  <2> DEFINE t(j) == [r EXCEPT !.upd = {j}, !.to = m.state, !.push = TRUE,
                               !.why = IF m.version # None THEN "version" ELSE None]
  <2>1. PICK j \in ActiveJobs(m.dev) : Begin(w, t(j))
    BY <1>7 DEF ReportFailed, r
  <2>2. t(j).why \in {"version", None} /\ t(j).offer = None /\ t(j).cur = None
    BY <1>2 DEF Writes
  <2> HIDE DEF t
  <2> QED BY <1>3, <2>1, <2>2 DEF Honest, OnTargetOK
<1>8. CASE ReportProgress(w, m)
  <2> DEFINE same(j) == job[j].status = m.state
             t(j, pct) == [r EXCEPT !.upd = IF same(j) /\ ~pct THEN {} ELSE {j},
                                    !.to = IF same(j) THEN None ELSE m.state]
  <2>1. PICK j \in ActiveJobs(m.dev), pct \in BOOLEAN : Begin(w, t(j, pct))
    BY <1>8 DEF ReportProgress, r
  <2>2. t(j, pct).why = None /\ t(j, pct).offer = None /\ t(j, pct).cur = None
    BY <1>2 DEF Writes
  <2> HIDE DEF t
  <2> QED BY <1>3, <2>1, <2>2 DEF Honest, OnTargetOK
<1> QED BY <1>5, <1>6, <1>7, <1>8 DEF Report

LEMMA LoopServerOpens ==
  ASSUME NEW w \in Workers, UserTrigger(w) \/ SweepTimedOutJobs(w)
  PROVE  \E t : Begin(w, t) /\ Honest(t, job, unit) /\ OnTargetOK(t, job, unit)
<1>1. CASE SweepTimedOutJobs(w)
  <2> DEFINE t == [Idle EXCEPT !.op = "open", !.upd = StaleJobs, !.to = "failed",
                               !.why = "timeout", !.push = TRUE]
  <2>1. Begin(w, t) /\ t.cur = None /\ t.offer = None /\ t.why = "timeout"
    BY <1>1 DEF SweepTimedOutJobs, Idle
  <2> HIDE DEF t
  <2> QED BY <2>1 DEF Honest, OnTargetOK
<1>2. CASE UserTrigger(w)
  <2>1. PICK d \in Devices, f \in Firmware, force \in BOOLEAN, by \in Requesters :
          Begin(w, [Idle EXCEPT !.op = "open", !.dev = d, !.upd = ActiveJobs(d),
                                !.to = "superseded", !.why = "replaced",
                                !.ins = [fw |-> f, force |-> force, by |-> by]])
    BY <1>2 DEF UserTrigger, Trigger
  <2> DEFINE t == [Idle EXCEPT !.op = "open", !.dev = d, !.upd = ActiveJobs(d),
                               !.to = "superseded", !.why = "replaced",
                               !.ins = [fw |-> f, force |-> force, by |-> by]]
  <2>2. Begin(w, t) /\ t.cur = None /\ t.offer = None /\ t.why = "replaced"
    BY <2>1 DEF Idle
  <2> HIDE DEF t
  <2> QED BY <2>2 DEF Honest, OnTargetOK
<1> QED BY <1>1, <1>2

(* What a transaction was to write stays honest while jobs keep their      *)
(* devices and devices have run more.                                      *)
LEMMA HonestKept ==
  ASSUME LoopInv, Keeps, NEW w \in Workers
  PROVE  /\ Honest(txn[w], job', unit')
         /\ OnTargetOK(txn[w], job, unit) => OnTargetOK(txn[w], job', unit')
<1>1. txn[w] \in Writes /\ Honest(txn[w], job, unit) /\ \A j \in txn[w].upd : job[j].status # "absent"
  BY DEF LoopInv, Inv, TypeOK, TxnOK, TxnHonest, WritesOK, Sound
<1>2. txn[w].upd \subseteq JobIds /\ txn[w].offer \in JobIds \cup {None}
  BY <1>1 DEF Writes
<1>3. Honest(txn[w], job', unit')
  BY <1>1, <1>2 DEF Honest, Keeps
<1>4. ASSUME NEW j \in txn[w].upd, HasRun(job[j], unit) PROVE HasRun(job'[j], unit')
  <2>1. job'[j].dev = job[j].dev /\ job'[j].fw = job[j].fw /\ job[j].dev \in Devices
    BY <1>1, <1>2 DEF Keeps, LoopInv, Inv, TypeOK
  <2> QED BY <1>4, <2>1 DEF HasRun, Keeps
<1> QED BY <1>3, <1>4 DEF OnTargetOK

(* A step keeps the transactions honest: it opens one that is, ends one,   *)
(* or leaves them as they are.                                             *)
TxnStep(w) ==
  \/ \E t : txn' = [txn EXCEPT ![w] = t] /\ Honest(t, job, unit) /\ (Parses => OnTargetOK(t, job, unit))
            /\ UNCHANGED <<job, unit>>
  \/ \E t : txn' = [txn EXCEPT ![w] = t] /\ t.cur = None /\ t.offer = None /\ t.why = None
  \/ \E t : /\ txn' = [txn EXCEPT ![w] = t] /\ t.cur = txn[w].cur /\ t.dev = txn[w].dev
            /\ t.offer = txn[w].offer /\ t.why = txn[w].why /\ t.upd \subseteq txn[w].upd
            /\ UNCHANGED <<job, unit>>

LEMMA LoopTxnStep ==
  ASSUME LoopInv, [UNext]_uvars
  PROVE  txn' = txn \/ \E w \in Workers : TxnStep(w)
<1>1. ASSUME NEW w \in Workers, DeviceCheck(w) PROVE TxnStep(w)
  <2>1. PICK d \in Devices, git \in BOOLEAN : \E rep \in {unit[d].runs, None} : Check(w, d, rep, git)
    BY <1>1 DEF DeviceCheck
  <2>2. PICK t : Begin(w, t) /\ Honest(t, job, unit) /\ (Parses => OnTargetOK(t, job, unit))
    BY <2>1, LoopCheckOpens
  <2> QED BY <1>1, <2>2 DEF TxnStep, Begin, DeviceCheck
<1>2. ASSUME NEW w \in Workers, DeviceReport(w) PROVE TxnStep(w)
  <2>1. PICK t : Begin(w, t) /\ Honest(t, job, unit) /\ OnTargetOK(t, job, unit)
    BY <1>2, LoopReportOpens DEF DeviceReport
  <2> QED BY <1>2, <2>1 DEF TxnStep, Begin, DeviceReport
<1>3. ASSUME NEW w \in Workers, UserTrigger(w) \/ SweepTimedOutJobs(w), UNCHANGED unit PROVE TxnStep(w)
  <2>1. PICK t : Begin(w, t) /\ Honest(t, job, unit) /\ OnTargetOK(t, job, unit)
    BY <1>3, LoopServerOpens
  <2> QED BY <1>3, <2>1 DEF TxnStep, Begin
<1>4. Idle.cur = None /\ Idle.offer = None /\ Idle.why = None
  BY DEF Idle
<1>5. ASSUME NEW w \in Workers, Fail(w) PROVE TxnStep(w)
  BY <1>4, <1>5 DEF Fail, Refuse, Abort, Lose, TxnStep
<1>6. ASSUME NEW w \in Workers, Respond(w) PROVE TxnStep(w)
  <2> DEFINE n == IF txn[w].push
                  THEN [Idle EXCEPT !.op = "push", !.upd = txn[w].upd, !.to = txn[w].to]
                  ELSE Idle
  <2>1. txn' = [txn EXCEPT ![w] = n]
    BY <1>6 DEF Respond, Commit, Finish, LoopInv, Inv, TypeOK
  <2>2. n.cur = None /\ n.offer = None /\ n.why = None
    BY DEF Idle
  <2> HIDE DEF n
  <2> QED BY <2>1, <2>2 DEF TxnStep
<1>7. ASSUME NEW w \in Workers, PushJobTerminal(w), UNCHANGED unit PROVE TxnStep(w)
  <2>1. PICK i \in txn[w].upd :
          /\ txn[w].op = "push"
          /\ txn' = [txn EXCEPT ![w] = IF @.upd = {i} THEN Idle ELSE [@ EXCEPT !.upd = txn[w].upd \ {i}]]
    BY <1>7 DEF PushJobTerminal
  <2>2. CASE txn[w].upd = {i}
    <3>1. txn' = [txn EXCEPT ![w] = Idle]
      BY <2>1, <2>2
    <3> QED BY <1>4, <3>1 DEF TxnStep
  <2>3. CASE txn[w].upd # {i}
    <3> DEFINE n == [txn[w] EXCEPT !.upd = txn[w].upd \ {i}]
    <3>1. txn' = [txn EXCEPT ![w] = n]
      BY <2>1, <2>3
    <3>2. txn[w] \in Writes
      BY DEF LoopInv, Inv, TypeOK
    <3>3. n.cur = txn[w].cur /\ n.dev = txn[w].dev /\ n.offer = txn[w].offer /\ n.why = txn[w].why
          /\ n.upd \subseteq txn[w].upd
      BY <3>2 DEF Writes
    <3>4. UNCHANGED <<job, unit>>
      BY <1>7 DEF PushJobTerminal
    <3> HIDE DEF n
    <3> QED BY <3>1, <3>3, <3>4 DEF TxnStep
  <2> QED BY <2>2, <2>3
<1>8. ASSUME NEW d \in Devices, UnitStep(d) PROVE txn' = txn
  BY <1>8 DEF UnitStep, UnitStarts, UnitFails, UnitBoots, UnitConfirms, UnitRollsBack, Publishes, vars
<1> QED BY <1>1, <1>2, <1>3, <1>5, <1>6, <1>7, <1>8
        DEF UNext, uvars, ServerStep, Age, Publish, Retire, SetVisibility

LEMMA LoopTxnInv ==
  ASSUME LoopInv, Keeps, [UNext]_uvars
  PROVE  /\ TxnHonest'
         /\ Parses /\ (\A w \in Workers : OnTargetOK(txn[w], job, unit)) =>
              \A w \in Workers : OnTargetOK(txn'[w], job', unit')
<1> SUFFICES ASSUME NEW v \in Workers
             PROVE  /\ Honest(txn'[v], job', unit')
                    /\ Parses /\ OnTargetOK(txn[v], job, unit) => OnTargetOK(txn'[v], job', unit')
  BY DEF TxnHonest
<1>0. None \notin {"confirmed_by_check", "already_on_target"}
  BY NoneAssumption DEF Reasons
<1>1. CASE txn'[v] = txn[v]
  BY <1>1, HonestKept
<1>2. ASSUME NEW w \in Workers, TxnStep(w), txn'[v] # txn[v]
      PROVE  /\ Honest(txn'[v], job', unit')
             /\ Parses /\ OnTargetOK(txn[v], job, unit) => OnTargetOK(txn'[v], job', unit')
  <2>0. ASSUME NEW t, txn' = [txn EXCEPT ![w] = t] PROVE txn'[v] = t
    BY <1>2, <2>0 DEF LoopInv, Inv, TypeOK
  <2>1. ASSUME NEW t, txn' = [txn EXCEPT ![w] = t], Honest(t, job, unit), Parses => OnTargetOK(t, job, unit),
               UNCHANGED <<job, unit>>
        PROVE  /\ Honest(txn'[v], job', unit')
               /\ Parses /\ OnTargetOK(txn[v], job, unit) => OnTargetOK(txn'[v], job', unit')
    BY <2>0, <2>1
  <2>2. ASSUME NEW t, txn' = [txn EXCEPT ![w] = t], t.cur = None, t.offer = None, t.why = None
        PROVE  Honest(txn'[v], job', unit') /\ OnTargetOK(txn'[v], job', unit')
    BY <1>0, <2>0, <2>2 DEF Honest, OnTargetOK
  <2>3. ASSUME NEW t, txn' = [txn EXCEPT ![w] = t], t.cur = txn[w].cur, t.dev = txn[w].dev,
               t.offer = txn[w].offer, t.why = txn[w].why, t.upd \subseteq txn[w].upd, UNCHANGED <<job, unit>>
        PROVE  /\ Honest(txn'[v], job', unit')
               /\ OnTargetOK(txn[v], job, unit) => OnTargetOK(txn'[v], job', unit')
    <3>1. v = w /\ txn'[v] = t
      BY <1>2, <2>0, <2>3 DEF LoopInv, Inv, TypeOK
    <3>2. Honest(txn[v], job, unit)
      BY DEF LoopInv, TxnHonest
    <3> QED BY <2>3, <3>1, <3>2 DEF Honest, OnTargetOK
  <2> QED BY <1>2, <2>1, <2>2, <2>3 DEF TxnStep
<1> QED BY <1>1, <1>2, LoopTxnStep

-----------------------------------------------------------------------------
LEMMA LoopKeeps ==
  ASSUME LoopInv, [UNext]_uvars
  PROVE  Keeps /\ UnitsOK' /\ SentOK'
<1>1. \A j \in JobIds : job[j].status # "absent" =>
        job'[j].status # "absent" /\ job'[j].dev = job[j].dev /\ job'[j].fw = job[j].fw
  BY LoopStepIsStep, LoopRows DEF LoopInv
<1>2. UnitsOK' /\ SentOK' /\ \A d \in Devices : unit[d].ran \subseteq unit'[d].ran
  <2>1. CASE UNCHANGED <<unit, sent>>
    BY <2>1 DEF LoopInv, UnitsOK, SentOK
  <2>2. ASSUME NEW w \in Workers, Respond(w) \/ Fail(w) PROVE unit' \in {unit, HandOver(w)} /\ UNCHANGED sent
    BY <2>2 DEF Respond, Fail
  <2>3. ASSUME NEW w \in Workers, Respond(w) \/ Fail(w)
        PROVE  UnitsOK' /\ SentOK' /\ \A d \in Devices : unit[d].ran \subseteq unit'[d].ran
    BY <2>2, <2>3, HandOverKeeps
  <2> QED BY <2>1, <2>3, UnitStepInv DEF UNext, uvars, DeviceCheck, DeviceReport, ServerStep
<1> QED BY <1>1, <1>2 DEF Keeps

LEMMA ShownStep ==
  ASSUME LoopInv, Keeps, [UNext]_uvars
  PROVE  ShownVersionWasRun'
<1>1. CASE device' = device
  BY <1>1 DEF LoopInv, ShownVersionWasRun, Keeps
<1>2. ASSUME NEW w \in Workers, Commit(w) PROVE ShownVersionWasRun'
  <2>1. Honest(txn[w], job, unit)
    BY DEF LoopInv, TxnHonest
  <2>2. CASE ~txn[w].dirty
    BY <1>1, <1>2, <2>2 DEF Commit
  <2>3. CASE txn[w].dirty
    <3>1. device' = [device EXCEPT ![txn[w].dev].current = txn[w].cur]
      BY <1>2, <2>3 DEF Commit
    <3>2. \A d \in Devices : device'[d].current \in {device[d].current, txn[w].cur}
                             /\ (device'[d].current = device[d].current \/ d = txn[w].dev)
      BY <3>1 DEF LoopInv, Inv, TypeOK
    <3> QED BY <2>1, <3>2 DEF LoopInv, ShownVersionWasRun, Keeps, Honest
  <2> QED BY <2>2, <2>3
<1>3. ASSUME NEW w \in Workers, Request(w) PROVE device' = device
  BY <1>3, RequestOpens DEF Opens, Begin, LoopInv, Inv
<1>4. ASSUME NEW w \in Workers, UnbindCommit(w) PROVE ShownVersionWasRun'
  <2>1. \A d \in Devices : device'[d].current = device[d].current
    BY <1>4, ZenonT(40) DEF UnbindCommit, LoopInv, Inv, TypeOK
  <2> QED BY <2>1 DEF LoopInv, ShownVersionWasRun, Keeps
<1>5. ASSUME NEW d \in Devices, NEW u \in Users, Rebind(d, u) PROVE ShownVersionWasRun'
  <2>1. \A e \in Devices : device'[e].current = device[e].current
    BY <1>5 DEF Rebind, LoopInv, Inv, TypeOK
  <2> QED BY <2>1 DEF LoopInv, ShownVersionWasRun, Keeps
<1> QED BY <1>1, <1>2, <1>3, <1>4, <1>5, LoopStepIsStep
        DEF LoopInv, Next, vars, WorkerStep, PushJobTerminal, Refuse, Abort, Lose, Age, Publish, Retire, SetVisibility

LEMMA LoopInit == UInit => LoopInv
<1> SUFFICES ASSUME UInit PROVE LoopInv
  OBVIOUS
<1>1. PICK base \in [Devices -> BaseVersions] : unit = [d \in Devices |-> Fresh(base[d])]
  BY DEF UInit
<1>2. Inv /\ sent = {}
  BY InitInv DEF UInit
<1>3. \A d \in Devices : UnitOK(Fresh(base[d])) /\ Fresh(base[d]) \in Unit
  BY BaseAssumption DEF Fresh, UnitOK, Unit
<1>4. UnitsOK
  BY <1>1, <1>3 DEF UnitsOK
<1>5. TxnHonest /\ ShownVersionWasRun
  BY DEF UInit, Init, Idle, TxnHonest, Honest, ShownVersionWasRun
<1> QED BY <1>2, <1>4, <1>5 DEF LoopInv, SentOK

LEMMA LoopNext == LoopInv /\ [UNext]_uvars => LoopInv'
<1> SUFFICES ASSUME LoopInv, [UNext]_uvars PROVE LoopInv'
  OBVIOUS
<1>1. Inv'
  BY LoopStepIsStep, NextInv DEF LoopInv
<1> QED BY <1>1, LoopKeeps, LoopTxnInv, ShownStep DEF LoopInv

LEMMA LoopInvariance == USpec => []LoopInv
BY LoopInit, LoopNext, PTL DEF USpec

(* The version the server shows for a device is one the device has run,    *)
(* whatever reports are late or repeated and whatever requests overlap.    *)
THEOREM ShownVersionsWereRun == USpec => []ShownVersionWasRun
<1>1. LoopInv => ShownVersionWasRun
  BY DEF LoopInv
<1> QED BY <1>1, LoopInvariance, PTL

-----------------------------------------------------------------------------
(* Devices whose versions all parse: a job that is closed as on target is  *)
(* closed for a device that has run it or something newer.                 *)
TargetInv ==
  /\ Parses
  /\ \A w \in Workers : OnTargetOK(txn[w], job, unit)
  /\ \A j \in JobIds : job[j].status = "absent" => job[j].why = None
  /\ OnTargetMeansInstalled

LEMMA RanStep ==
  ASSUME LoopInv, [UNext]_uvars, NEW d \in Devices
  PROVE  unit'[d].ran \subseteq unit[d].ran \cup Firmware
<1>1. CASE unit' = unit
  BY <1>1
<1>2. ASSUME NEW w \in Workers, Respond(w) \/ Fail(w) PROVE unit'[d].ran = unit[d].ran
  <2>1. unit' \in {unit, HandOver(w)} /\ UNCHANGED sent
    BY <1>2 DEF Respond, Fail
  <2> QED BY <2>1, HandOverKeeps
<1>3. ASSUME NEW e \in Devices, UnitStep(e) PROVE unit'[d].ran \subseteq unit[d].ran \cup Firmware
  <2>1. unit \in [Devices -> Unit] /\ unit[d] \in Unit /\ UnitOK(unit[e])
    BY DEF LoopInv, UnitsOK
  <2>2. CASE UnitBoots(e)
    <3>1. unit[e].image \in Firmware
      BY <2>1, <2>2 DEF UnitBoots, UnitOK
    <3>2. unit'[d].ran = IF d = e THEN unit[d].ran \cup {unit[e].image} ELSE unit[d].ran
      BY <2>1, <2>2 DEF UnitBoots, Unit
    <3> QED BY <3>1, <3>2
  <2>3. CASE UnitStarts(e) \/ UnitFails(e) \/ UnitConfirms(e) \/ UnitRollsBack(e)
    <3>1. unit'[d].ran = unit[d].ran
      BY <2>1, <2>3 DEF UnitStarts, UnitFails, UnitConfirms, UnitRollsBack, Unit
    <3> QED BY <3>1
  <2> QED BY <1>3, <2>2, <2>3 DEF UnitStep
<1> QED BY <1>1, <1>2, <1>3 DEF UNext, uvars, DeviceCheck, DeviceReport, ServerStep

(* A reason is written by the transaction that updates the row.            *)
LEMMA WhyStep ==
  ASSUME Inv, [Next]_vars, NEW j \in JobIds
  PROVE  /\ \/ job'[j].why \in {job[j].why, None, "unbound"}
            \/ \E w \in Workers : j \in txn[w].upd /\ job'[j].why = txn[w].why
         /\ job'[j].status = "absent" => job'[j].why = job[j].why
<1>0. job[j] \in JobRow
  BY DEF Inv, TypeOK
<1>1. CASE UNCHANGED job
  BY <1>1
<1>2. ASSUME NEW i \in JobIds, Age(i) PROVE job'[j].why = job[j].why
  <2>1. job'[j] = IF j = i THEN [job[j] EXCEPT !.stale = TRUE] ELSE job[j]
    BY <1>2 DEF Age, Inv, TypeOK
  <2> QED BY <1>0, <2>1 DEF JobRow
<1>3. ASSUME NEW w \in Workers, Commit(w)
      PROVE  /\ \/ job'[j].why \in {job[j].why, None, "unbound"}
                \/ j \in txn[w].upd /\ job'[j].why = txn[w].why
             /\ job'[j].status = "absent" => job'[j].why = job[j].why
  <2>1. PICK k \in NewKeys(w) : job' = RowsAfter(w, k)
    BY <1>3 DEF Commit
  <2>2. job[j].status # "absent" => job'[j].status # "absent"
    BY <2>1, RowsAfterType
  <2> QED BY <2>1, <2>2, RowAfter
<1>4. ASSUME NEW w \in Workers, UnbindCommit(w)
      PROVE  job'[j].why \in {job[j].why, "unbound"} /\ (job'[j].status = "absent" => job'[j].why = job[j].why)
  <2>1. job'[j] = IF j \in ActiveJobs(txn[w].dev)
                  THEN [job[j] EXCEPT !.status = "superseded", !.why = "unbound", !.stale = FALSE]
                  ELSE job[j]
    BY <1>4 DEF UnbindCommit
  <2> QED BY <1>0, <2>1 DEF JobRow
<1>5. ASSUME NEW w \in Workers, Request(w) PROVE UNCHANGED job
  BY <1>5, RequestOpens DEF Opens, Begin, Inv
<1> QED BY <1>1, <1>2, <1>3, <1>4, <1>5
        DEF Next, vars, WorkerStep, PushJobTerminal, Refuse, Abort, Lose, Rebind, Publish, Retire, SetVisibility

LEMMA TargetNext ==
  ASSUME LoopInv, TargetInv, [UNext]_uvars
  PROVE  TargetInv'
<1>0. Inv /\ [Next]_vars /\ Keeps
  BY LoopStepIsStep, LoopKeeps DEF LoopInv
<1>1. Parses'
  BY RanStep, FirmwareAssumption DEF TargetInv, Parses
<1>2. \A w \in Workers : OnTargetOK(txn'[w], job', unit')
  BY <1>0, LoopTxnInv DEF TargetInv
<1>3. \A j \in JobIds : job'[j].status = "absent" => job[j].status = "absent" /\ job'[j].why = job[j].why
  BY <1>0, WhyStep DEF Keeps
<1>4. ASSUME NEW j \in JobIds, job'[j].why \in {"confirmed_by_check", "already_on_target"}
      PROVE  HasRun(job'[j], unit')
  <2>1. HasRun(job[j], unit) /\ job[j].status # "absent"
    <3>1. CASE job'[j].why = job[j].why
      BY <1>4, <3>1, NoneAssumption DEF TargetInv, OnTargetMeansInstalled, Installed, HasRun, Reasons
    <3>2. ASSUME NEW w \in Workers, j \in txn[w].upd, job'[j].why = txn[w].why
          PROVE  HasRun(job[j], unit) /\ job[j].status # "absent"
      BY <1>0, <1>4, <3>2 DEF TargetInv, OnTargetOK, Inv, TxnOK, WritesOK, Sound
    <3>3. job'[j].why \notin {None, "unbound"}
      BY <1>4, NoneAssumption DEF Reasons
    <3> QED BY <1>0, <3>1, <3>2, <3>3, WhyStep
  <2>2. job'[j].dev = job[j].dev /\ job'[j].fw = job[j].fw /\ job[j].dev \in Devices
    BY <1>0, <2>1 DEF Keeps, Inv, TypeOK
  <2> QED BY <1>0, <2>1, <2>2 DEF HasRun, Keeps
<1>5. OnTargetMeansInstalled'
  BY <1>4 DEF OnTargetMeansInstalled, Installed, HasRun
<1> QED BY <1>1, <1>2, <1>3, <1>5 DEF TargetInv

(* Of devices that leave the factory with versions that parse, a job the   *)
(* check closes as on target is closed for a device that has run its build *)
(* or a newer one, whatever requests overlap and however late its reports  *)
(* are.                                                                    *)
THEOREM OnTargetIsInstalled == ASSUME BaseVersions \subseteq Nat PROVE USpec => []OnTargetMeansInstalled
<1>1. UInit => TargetInv
  <2> SUFFICES ASSUME UInit PROVE TargetInv
    OBVIOUS
  <2>1. PICK base \in [Devices -> BaseVersions] : unit = [d \in Devices |-> Fresh(base[d])]
    BY DEF UInit
  <2>2. \A d \in Devices : unit[d].ran \subseteq Nat
    BY <2>1 DEF Fresh
  <2>3. \A j \in JobIds : job[j].why = None
    BY DEF UInit, Init, NoRow
  <2>4. \A w \in Workers : txn[w].why = None
    BY DEF UInit, Init, Idle
  <2> QED BY <2>2, <2>3, <2>4, NoneAssumption DEF TargetInv, Parses, OnTargetOK, OnTargetMeansInstalled, Reasons
<1>2. LoopInv /\ TargetInv /\ [UNext]_uvars => TargetInv'
  BY TargetNext
<1>3. TargetInv => OnTargetMeansInstalled
  BY DEF TargetInv
<1> QED BY <1>1, <1>2, <1>3, LoopInvariance, PTL DEF USpec

=============================================================================
