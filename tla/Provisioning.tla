----------------------------- MODULE Provisioning -----------------------------
(***************************************************************************)
(* Provisioning sessions and device ownership (api/modules/device:         *)
(* service.py and the webhook handlers of iot.py) against the tables       *)
(* device_provisioning_sessions and devices.                               *)
(*                                                                         *)
(* As in OtaJobs, a handler reads rows without locks, then commits the     *)
(* columns it changed: a column assigned the value it was loaded with is   *)
(* not written.  Two locks outlive a statement: verify_connectivity        *)
(* flushes its session row before it waits for the pong, and               *)
(* set_active_device updates the other devices before it reads its own.    *)
(***************************************************************************)
EXTENDS Naturals, FiniteSets

CONSTANTS
  Workers,       \* concurrent transactions of the api replicas
  Users,
  Devices,       \* hardware ids
  SessionCount,  \* bounds the sessions created
  MaxActive,     \* unfinished sessions kept per user (5 in the code)
  None           \* SQL NULL, a column left alone, an unused field

(* active_sessions[:-(MaxActive - 1)] needs a slice of at least one *)
ASSUME MaxActiveAssumption == MaxActive \in Nat \ {0, 1}
ASSUME CountAssumption == SessionCount \in Nat
Statuses == {"absent", "created", "verifying", "verified", "failed", "expired", "bound",
             "cancelled", "deleted"}

ASSUME NoneAssumption == None \notin Users \cup Devices \cup Nat \cup BOOLEAN \cup Statuses

Sessions == 1 .. SessionCount  \* in the order of expires_at

Unfinished == {"created", "verifying"}
Invalid    == {"expired", "bound", "cancelled"}

VARIABLES
  session,  \* device_provisioning_sessions
  device,   \* devices: owner, binding_status and active_state
  txn       \* per worker, what its open transaction will write

vars == <<session, device, txn>>

NoSession == [status |-> "absent", user |-> None, hw |-> None, age |-> "fresh"]
NoDevice  == [present |-> FALSE, user |-> None, bound |-> FALSE, active |-> FALSE]

(* Pending writes: session s gets status to and hardware id hw, the        *)
(* sessions cancel are cancelled, by gets a new session; device d gets     *)
(* owner user, binding and activity, or is inserted; the devices others    *)
(* become standby.  None leaves a column alone.                            *)
Idle == [op |-> "idle", s |-> None, to |-> None, hw |-> None, cancel |-> {}, by |-> None,
         d |-> None, user |-> None, bound |-> None, active |-> None, others |-> {}]

Exists(s) == session[s].status \notin {"absent", "deleted"}

Begin(w, writes) ==
  /\ txn[w].op = "idle"
  /\ txn' = [txn EXCEPT ![w] = writes]
  /\ UNCHANGED <<session, device>>

(* What SQLAlchemy emits for a column assigned new on a row loaded with old. *)
Changed(new, old) == IF new = old THEN None ELSE new

-----------------------------------------------------------------------------
(* create_provisioning_session: all but the newest MaxActive - 1           *)
(* unfinished sessions of the user are cancelled.                          *)

UnfinishedOf(u) == {s \in Sessions : session[s].user = u /\ session[s].status \in Unfinished}

(* mutant: one session too many is kept *)
KeepsOneMore(u) ==
  {s \in UnfinishedOf(u) : Cardinality({r \in UnfinishedOf(u) : r > s}) > MaxActive - 1}

ToCancel(u) ==
  {s \in UnfinishedOf(u) : Cardinality({r \in UnfinishedOf(u) : r > s}) >= MaxActive - 1}

CreateSession(w, u) == Begin(w, [Idle EXCEPT !.op = "create", !.by = u, !.cancel = ToCancel(u)])

(* issue_mqtt_credentials, without the certificate. *)
IssueCredentials(w, u, s, d) ==
  /\ session[s].user = u /\ session[s].age = "fresh"
  /\ Exists(s) /\ session[s].status \notin Invalid
  /\ Begin(w, [Idle EXCEPT !.op = "write", !.s = s, !.hw = Changed(d, session[s].hw)])

(* device.online with a session id. *)
HandleOnline(w, s, d) ==
  /\ session[s].status = "created"
  /\ Begin(w, IF session[s].age # "fresh"
              THEN [Idle EXCEPT !.op = "write", !.s = s, !.to = "expired"]
              ELSE [Idle EXCEPT !.op = "write", !.s = s, !.to = "verifying",
                                !.hw = Changed(d, session[s].hw)])

(* verify_connectivity.  The status is not looked at. *)
VerifyExpired(w, u, s) ==
  /\ Exists(s) /\ session[s].user = u /\ session[s].age # "fresh"
  /\ Begin(w, [Idle EXCEPT !.op = "write", !.s = s, !.to = "expired"])

Locked(w, s) == \E v \in Workers \ {w} : txn[v].op = "verify" /\ txn[v].s = s

VerifyConnectivity(w, u, s, d) ==
  /\ Exists(s) /\ session[s].user = u /\ session[s].age = "fresh"
  /\ d # None \/ session[s].hw # None
  /\ ~Locked(w, s)
  /\ Begin(w, [Idle EXCEPT !.op = "verify", !.s = s, !.hw = d])

(* The pong with this request's nonce arrives within 2 x 3 s, or not. *)
VerifyAnswer(w, outcome) == LET s == txn[w].s IN
  /\ txn[w].op = "verify" /\ Exists(s)
  /\ session' = [session EXCEPT ![s].status = outcome,
                                ![s].hw = IF txn[w].hw = None THEN @ ELSE txn[w].hw]
  /\ txn' = [txn EXCEPT ![w] = Idle]
  /\ UNCHANGED device

-----------------------------------------------------------------------------
(* Binding: device.register over the webhook, POST /v1/device/bind. *)

(* uq_devices_one_active_per_user, which does not look at binding_status *)
OneActiveEach(rows) == \A d, e \in Devices :
  d # e /\ rows[d].active /\ rows[e].active => rows[d].user # rows[e].user

UniqueActive(rows) == OneActiveEach(rows)

HasActive(u) == \E d \in Devices : device[d].user = u /\ device[d].active /\ device[d].bound

Insert(s, d, u) ==
  [Idle EXCEPT !.op = "insert", !.s = s, !.to = "bound", !.d = d,
               !.user = u, !.bound = TRUE, !.active = ~HasActive(u)]

Closes(s) == [Idle EXCEPT !.op = "write", !.s = s, !.to = "bound"]

RegisterNew(w, s, d) ==
  /\ session[s].status = "verifying" /\ ~device[d].present
  /\ Begin(w, Insert(s, d, session[s].user))

RegisterUnbound(w, s, d) ==
  /\ session[s].status = "verifying" /\ device[d].present /\ ~device[d].bound
  /\ Begin(w, [Closes(s) EXCEPT !.d = d, !.bound = TRUE,
                                !.user = Changed(session[s].user, device[d].user)])

(* mutant: the conflict branch does not return *)
RegisterAny(w, s, d) ==
  /\ session[s].status = "verifying" /\ device[d].bound
  /\ Begin(w, Closes(s))

RegisterAgain(w, s, d) ==
  /\ session[s].status = "verifying"
  /\ device[d].bound /\ device[d].user = session[s].user
  /\ Begin(w, Closes(s))

HandleRegister(w, s, d) ==
  RegisterNew(w, s, d) \/ RegisterUnbound(w, s, d) \/ RegisterAgain(w, s, d)

MayBind(u, s) == Exists(s) /\ session[s].user = u /\ session[s].status = "verified"

BindNew(w, u, s, d) ==
  /\ MayBind(u, s) /\ ~device[d].present
  /\ Begin(w, Insert(s, d, u))

BindOwn(w, u, s, d) ==
  /\ MayBind(u, s) /\ device[d].user = u
  /\ Begin(w, [Closes(s) EXCEPT !.d = d, !.bound = Changed(TRUE, device[d].bound)])

(* Handing an unbound device over, with what autoflush writes in between:  *)
(* the new owner, before the activity is decided.                          *)
TakeOver(w, u, s, d) ==
  /\ MayBind(u, s) /\ device[d].present /\ device[d].user # u
  /\ UniqueActive([device EXCEPT ![d].user = u])
  /\ LET others == \E e \in Devices \ {d} : device[e].user = u
     IN Begin(w, [Closes(s) EXCEPT !.d = d, !.user = u, !.bound = TRUE,
                                   !.active = Changed(~others, device[d].active)])

(* mutant: a device bound to someone else is taken over *)
BindTakesOver(w, u, s, d) == TakeOver(w, u, s, d)

BindUnbound(w, u, s, d) == ~device[d].bound /\ TakeOver(w, u, s, d)

BindDevice(w, u, s, d) ==
  BindNew(w, u, s, d) \/ BindOwn(w, u, s, d) \/ BindUnbound(w, u, s, d)

-----------------------------------------------------------------------------
DeviceLocked(w, d) == \E v \in Workers \ {w} : d \in txn[v].others

(* set_active_device *)
SetActive(w, u, d) == LET others == {e \in Devices \ {d} : device[e].user = u} IN
  /\ device[d].user = u
  /\ \A e \in others : ~DeviceLocked(w, e)
  /\ Begin(w, [Idle EXCEPT !.op = "write", !.d = d, !.others = others,
                           !.active = Changed(TRUE, device[d].active)])

(* unbind_device reads the row, then waits for the factory reset. *)
UnbindRead(w, u, d) ==
  /\ device[d].user = u
  /\ Begin(w, [Idle EXCEPT !.op = "unbind", !.d = d, !.by = u,
                           !.bound = Changed(FALSE, device[d].bound),
                           !.active = Changed(FALSE, device[d].active)])

Set(column, value) == IF value = None THEN column ELSE value

(* The device rows after the transaction of w. *)
DeviceAfter(w) == LET t == txn[w] IN
  [d \in Devices |->
     IF d \in t.others THEN [device[d] EXCEPT !.active = FALSE]
     ELSE IF d # t.d THEN device[d]
     ELSE [present |-> TRUE, user |-> Set(device[d].user, t.user),
           bound |-> Set(device[d].bound, t.bound), active |-> Set(device[d].active, t.active)]]

(* The newest other device of the user that is online is made active. *)
Promoted(w) == LET rows == DeviceAfter(w) IN
  IF txn[w].active = None THEN {rows}
  ELSE {rows} \cup
    {[rows EXCEPT ![c].active = TRUE] :
       c \in {e \in Devices \ {txn[w].d} : rows[e].user = txn[w].by /\ rows[e].bound}}

-----------------------------------------------------------------------------
(* The end of a transaction. *)

SessionAfter(w) == LET t == txn[w] IN
  [s \in Sessions |->
     IF s = t.s THEN [session[s] EXCEPT !.status = Set(@, t.to), !.hw = Set(@, t.hw)]
     ELSE IF s \in t.cancel THEN [session[s] EXCEPT !.status = "cancelled"]
     ELSE session[s]]

Touched(w) == txn[w].cancel \cup ({txn[w].s} \ {None})

(* The rows a commit updates are there and not locked. *)
MayWrite(w) ==
  /\ \A s \in Touched(w) : Exists(s) /\ ~Locked(w, s)
  /\ ~DeviceLocked(w, txn[w].d)

UnbindCommit(w) ==
  /\ txn[w].op = "unbind" /\ MayWrite(w)
  /\ \E rows \in Promoted(w) : UniqueActive(rows) /\ device' = rows
  /\ txn' = [txn EXCEPT ![w] = Idle]
  /\ UNCHANGED session

CommitCreate(w) ==
  /\ txn[w].op = "create" /\ MayWrite(w)
  /\ \E s \in Sessions :
       /\ session[s].status = "absent"
       /\ \A r \in Sessions : r < s => session[r].status # "absent"
       /\ session' = [SessionAfter(w) EXCEPT ![s] =
                        [status |-> "created", user |-> txn[w].by, hw |-> None, age |-> "fresh"]]
  /\ txn' = [txn EXCEPT ![w] = Idle]
  /\ UNCHANGED device

Commit(w) ==
  /\ txn[w].op \in {"write", "insert"} /\ MayWrite(w)
  /\ txn[w].op = "insert" => ~device[txn[w].d].present
  /\ UniqueActive(DeviceAfter(w))
  /\ session' = SessionAfter(w)
  /\ device' = DeviceAfter(w)
  /\ txn' = [txn EXCEPT ![w] = Idle]

Lose(w) ==
  /\ txn' = [txn EXCEPT ![w] = Idle]
  /\ UNCHANGED <<session, device>>

(* A unique index refuses the rows. *)
Refuse(w) ==
  /\ \/ txn[w].op = "insert" /\ device[txn[w].d].present
     \/ txn[w].op \in {"insert", "write", "unbind"} /\ ~UniqueActive(DeviceAfter(w))
  /\ Lose(w)

(* A row is gone, Postgres breaks a deadlock, the replica dies. *)
Abort(w) == txn[w].op # "idle" /\ Lose(w)

(* Thirty minutes pass since the session was created, or seven days more. *)
Expire(s) ==
  /\ Exists(s) /\ session[s].age # "old"
  /\ \A r \in Sessions : r < s /\ Exists(r) => session[r].age # "fresh"
  /\ session' = [session EXCEPT ![s].age = IF @ = "fresh" THEN "expired" ELSE "old"]
  /\ UNCHANGED <<device, txn>>

(* _session_cleanup *)
SessionCleanup ==
  /\ \E s \in Sessions : Exists(s) /\ session[s].age = "old"
  /\ \A v \in Workers : txn[v].op = "verify" => session[txn[v].s].age # "old"
  /\ session' = [s \in Sessions |->
       IF Exists(s) /\ session[s].age = "old" THEN [NoSession EXCEPT !.status = "deleted"]
       ELSE session[s]]
  /\ UNCHANGED <<device, txn>>

-----------------------------------------------------------------------------
Init ==
  /\ session = [s \in Sessions |-> NoSession]
  /\ device = [d \in Devices |-> NoDevice]
  /\ txn = [w \in Workers |-> Idle]

SessionRequest(w) ==
  \/ \E u \in Users : CreateSession(w, u)
  \/ \E u \in Users, s \in Sessions, d \in Devices : IssueCredentials(w, u, s, d)
  \/ \E s \in Sessions, d \in Devices : HandleOnline(w, s, d)
  \/ \E u \in Users, s \in Sessions : VerifyExpired(w, u, s)
  \/ \E u \in Users, s \in Sessions, d \in Devices \cup {None} : VerifyConnectivity(w, u, s, d)

BindRequest(w) ==
  \/ \E s \in Sessions, d \in Devices : HandleRegister(w, s, d)
  \/ \E u \in Users, s \in Sessions, d \in Devices : BindDevice(w, u, s, d)
  \/ \E u \in Users, d \in Devices : SetActive(w, u, d) \/ UnbindRead(w, u, d)

WorkerStep(w) ==
  \/ SessionRequest(w) \/ BindRequest(w)
  \/ \E outcome \in {"verified", "failed"} : VerifyAnswer(w, outcome)
  \/ CommitCreate(w) \/ Commit(w) \/ UnbindCommit(w) \/ Refuse(w) \/ Abort(w)

Next ==
  \/ \E w \in Workers : WorkerStep(w)
  \/ \E s \in Sessions : Expire(s)
  \/ SessionCleanup

Spec == Init /\ [][Next]_vars

-----------------------------------------------------------------------------
(* Type invariant: rows and pending writes hold values of their columns,   *)
(* and a device row has an owner.                                          *)
TypeOK ==
  /\ session \in [Sessions -> [status : Statuses, user : Users \cup {None},
                               hw : Devices \cup {None}, age : {"fresh", "expired", "old"}]]
  /\ device \in [Devices -> [present : BOOLEAN, user : Users \cup {None},
                             bound : BOOLEAN, active : BOOLEAN]]
  /\ txn \in [Workers ->
       [op : {"idle", "create", "write", "insert", "verify", "unbind"},
        s : Sessions \cup {None}, to : Statuses \cup {None}, hw : Devices \cup {None},
        cancel : SUBSET Sessions, by : Users \cup {None}, d : Devices \cup {None},
        user : Users \cup {None}, bound : BOOLEAN \cup {None}, active : BOOLEAN \cup {None},
        others : SUBSET Devices]]
  /\ \A d \in Devices : device[d].present = (device[d].user # None)

(* A bound device does not change hands: another account has to wait until *)
(* its owner unbinds it (_handle_register and bind_device refuse it).  Two *)
(* requests that overlap can break it.                                     *)
OwnerKeepsDevice == [][\A d \in Devices :
  device[d].bound /\ device'[d].bound => device'[d].user = device[d].user]_vars

(* When the App hears "bound", the session's user holds a bound device     *)
(* (_handle_register and bind_device close session and device together).   *)
BoundSessionHoldsDevice == [][\A s \in Sessions :
  session[s].status # "bound" /\ session'[s].status = "bound" =>
    \E d \in Devices : device'[d].bound /\ device'[d].user = session'[s].user]_vars

(* A user keeps at most MaxActive unfinished sessions                      *)
(* (create_provisioning_session).                                          *)
UnfinishedSessionsBounded == \A u \in Users : Cardinality(UnfinishedOf(u)) <= MaxActive
=============================================================================
