-------------------------- MODULE ProvisioningProofs --------------------------
(***************************************************************************)
(* Theorems of Provisioning, for every number of workers, users, devices   *)
(* and sessions.  Inv adds to the types what the open transactions rely    *)
(* on: sessions and inserted devices have an owner, updated devices exist. *)
(* That a bound device keeps its owner holds only when one transaction is  *)
(* open at a time: what it will write then still fits the row it read      *)
(* (WritesFit), because nobody else can change that row in between.  So do *)
(* the bound on unfinished sessions and the device of a bound session      *)
(* (Follows): what create_provisioning_session counted is still what there *)
(* is, and a session is closed only on the rows that were read.            *)
(***************************************************************************)
EXTENDS Provisioning, FiniteSetTheorems, TLAPS

Writes == [op : {"idle", "create", "write", "insert", "verify", "unbind"},
           s : Sessions \cup {None}, to : Statuses \cup {None}, hw : Devices \cup {None},
           cancel : SUBSET Sessions, by : Users \cup {None}, d : Devices \cup {None},
           user : Users \cup {None}, bound : BOOLEAN \cup {None},
           active : BOOLEAN \cup {None}, others : SUBSET Devices]

SessionRows == [status : Statuses, user : Users \cup {None},
                hw : Devices \cup {None}, age : {"fresh", "expired", "old"}]

DeviceRows == [present : BOOLEAN, user : Users \cup {None}, bound : BOOLEAN, active : BOOLEAN]

SessionsOwned == \A s \in Sessions : Exists(s) => session[s].user \in Users

WritesOK(t) ==
  /\ t.op = "create" => t.by \in Users
  /\ t.op = "verify" => t.s \in Sessions
  /\ t.op = "insert" => t.d \in Devices /\ t.user \in Users
  /\ t.op # "insert" /\ t.d # None => device[t.d].present
  /\ t.op = "unbind" => t.user = None

Inv == TypeOK /\ SessionsOwned /\ \A w \in Workers : WritesOK(txn[w])

LEMMA IdleType == Idle \in Writes /\ WritesOK(Idle)
BY NoneAssumption DEF Idle, Writes, WritesOK

(* A transaction opened with well-typed writes keeps the invariant. *)
LEMMA BeginInv ==
  ASSUME Inv, NEW w \in Workers, NEW c \in Writes, WritesOK(c), Begin(w, c)
  PROVE  Inv'
<1>1. txn' = [txn EXCEPT ![w] = c] /\ UNCHANGED <<session, device>>
  BY DEF Begin
<1>2. txn' \in [Workers -> Writes]
  BY <1>1 DEF Inv, TypeOK, Writes
<1>3. TypeOK'
  BY <1>1, <1>2 DEF Inv, TypeOK, Writes
<1>4. SessionsOwned'
  BY <1>1 DEF Inv, SessionsOwned, Exists
<1>5. ASSUME NEW v \in Workers PROVE WritesOK(txn[v])'
  <2>1. txn'[v] = IF v = w THEN c ELSE txn[v]
    BY <1>1 DEF Inv, TypeOK
  <2>2. WritesOK(txn[v])
    BY DEF Inv
  <2> QED BY <1>1, <2>1, <2>2 DEF WritesOK
<1> QED BY <1>3, <1>4, <1>5 DEF Inv

LEMMA SessionRequestInv ==
  ASSUME Inv, NEW w \in Workers, SessionRequest(w)
  PROVE  Inv'
<1> USE NoneAssumption DEF Writes, WritesOK, Idle, Statuses
<1>1. CASE \E u \in Users : CreateSession(w, u)
  <2>1. PICK u \in Users : CreateSession(w, u)
    BY <1>1
  <2> DEFINE c == [Idle EXCEPT !.op = "create", !.by = u, !.cancel = ToCancel(u)]
  <2>2. ToCancel(u) \subseteq Sessions
    BY DEF ToCancel, UnfinishedOf
  <2>3. c \in Writes /\ WritesOK(c)
    BY <2>2
  <2>4. Begin(w, c)
    BY <2>1 DEF CreateSession
  <2> HIDE DEF c, Writes, WritesOK, Idle, Statuses
  <2> QED BY <2>3, <2>4, BeginInv
<1>2. CASE \E u \in Users, s \in Sessions, d \in Devices : IssueCredentials(w, u, s, d)
  <2>1. PICK u \in Users, s \in Sessions, d \in Devices : IssueCredentials(w, u, s, d)
    BY <1>2
  <2> DEFINE c == [Idle EXCEPT !.op = "write", !.s = s, !.hw = Changed(d, session[s].hw)]
  <2>3. c \in Writes /\ WritesOK(c)
    BY DEF Changed
  <2>4. Begin(w, c)
    BY <2>1 DEF IssueCredentials
  <2> HIDE DEF c, Writes, WritesOK, Idle, Statuses
  <2> QED BY <2>3, <2>4, BeginInv
<1>3. CASE \E s \in Sessions, d \in Devices : HandleOnline(w, s, d)
  <2>1. PICK s \in Sessions, d \in Devices : HandleOnline(w, s, d)
    BY <1>3
  <2> DEFINE c == IF session[s].age # "fresh"
              THEN [Idle EXCEPT !.op = "write", !.s = s, !.to = "expired"]
              ELSE [Idle EXCEPT !.op = "write", !.s = s, !.to = "verifying",
                                !.hw = Changed(d, session[s].hw)]
  <2>3. c \in Writes /\ WritesOK(c)
    BY DEF Changed
  <2>4. Begin(w, c)
    BY <2>1 DEF HandleOnline
  <2> HIDE DEF c, Writes, WritesOK, Idle, Statuses
  <2> QED BY <2>3, <2>4, BeginInv
<1>4. CASE \E u \in Users, s \in Sessions : VerifyExpired(w, u, s)
  <2>1. PICK u \in Users, s \in Sessions : VerifyExpired(w, u, s)
    BY <1>4
  <2> DEFINE c == [Idle EXCEPT !.op = "write", !.s = s, !.to = "expired"]
  <2>3. c \in Writes /\ WritesOK(c)
    OBVIOUS
  <2>4. Begin(w, c)
    BY <2>1 DEF VerifyExpired
  <2> HIDE DEF c, Writes, WritesOK, Idle, Statuses
  <2> QED BY <2>3, <2>4, BeginInv
<1>5. CASE \E u \in Users, s \in Sessions, d \in Devices \cup {None} : VerifyConnectivity(w, u, s, d)
  <2>1. PICK u \in Users, s \in Sessions, d \in Devices \cup {None} : VerifyConnectivity(w, u, s, d)
    BY <1>5
  <2> DEFINE c == [Idle EXCEPT !.op = "verify", !.s = s, !.hw = d]
  <2>3. c \in Writes /\ WritesOK(c)
    OBVIOUS
  <2>4. Begin(w, c)
    BY <2>1 DEF VerifyConnectivity
  <2> HIDE DEF c, Writes, WritesOK, Idle, Statuses
  <2> QED BY <2>3, <2>4, BeginInv
<1> QED BY <1>1, <1>2, <1>3, <1>4, <1>5 DEF SessionRequest

LEMMA InsertType ==
  ASSUME NEW s \in Sessions, NEW d \in Devices, NEW u \in Users
  PROVE  Insert(s, d, u) \in Writes /\ WritesOK(Insert(s, d, u))
<1>1. CASE HasActive(u)
  BY <1>1, NoneAssumption DEF Insert, Writes, WritesOK, Idle, Statuses
<1>2. CASE ~HasActive(u)
  BY <1>2, NoneAssumption DEF Insert, Writes, WritesOK, Idle, Statuses
<1> QED BY <1>1, <1>2

(* What a binding of an existing device will write. *)
LEMMA ClosesType ==
  ASSUME NEW s \in Sessions, NEW d \in Devices, NEW u \in Users \cup {None},
         NEW b \in BOOLEAN \cup {None}, NEW a \in BOOLEAN \cup {None}, device[d].present
  PROVE  LET c == [Idle EXCEPT !.op = "write", !.s = s, !.to = "bound", !.d = d,
                               !.user = u, !.bound = b, !.active = a]
         IN c \in Writes /\ WritesOK(c)
BY NoneAssumption DEF Writes, WritesOK, Idle, Statuses

LEMMA HandleRegisterInv ==
  ASSUME Inv, NEW w \in Workers, NEW s \in Sessions, NEW d \in Devices, HandleRegister(w, s, d)
  PROVE  Inv'
<1> DEFINE u == session[s].user
<1>1. session[s].status = "verifying" /\ u \in Users
  BY DEF HandleRegister, RegisterNew, RegisterUnbound, RegisterAgain, Inv, SessionsOwned, Exists
<1>2. CASE RegisterNew(w, s, d)
  BY <1>1, <1>2, InsertType, BeginInv DEF RegisterNew
<1>3. CASE RegisterUnbound(w, s, d)
  <2> DEFINE c == [Closes(s) EXCEPT !.d = d, !.bound = TRUE, !.user = Changed(u, device[d].user)]
  <2>1. device[d].present /\ Changed(u, device[d].user) \in Users \cup {None}
    BY <1>1, <1>3 DEF RegisterUnbound, Changed
  <2>2. c \in Writes /\ WritesOK(c)
    BY <2>1, NoneAssumption DEF Closes, Writes, WritesOK, Idle, Statuses
  <2> QED BY <1>3, <2>2, BeginInv DEF RegisterUnbound
<1>4. CASE RegisterAgain(w, s, d)
  <2>1. Closes(s) \in Writes /\ WritesOK(Closes(s))
    BY NoneAssumption DEF Closes, Writes, WritesOK, Idle, Statuses
  <2> QED BY <1>4, <2>1, BeginInv DEF RegisterAgain
<1> QED BY <1>2, <1>3, <1>4 DEF HandleRegister

LEMMA BindDeviceInv ==
  ASSUME Inv, NEW w \in Workers, NEW u \in Users, NEW s \in Sessions, NEW d \in Devices,
         BindDevice(w, u, s, d)
  PROVE  Inv'
<1>1. CASE BindNew(w, u, s, d)
  BY <1>1, InsertType, BeginInv DEF BindNew
<1>2. CASE BindOwn(w, u, s, d)
  <2> DEFINE c == [Closes(s) EXCEPT !.d = d, !.bound = Changed(TRUE, device[d].bound)]
  <2>1. device[d].present
    BY <1>2, NoneAssumption DEF BindOwn, Inv, TypeOK
  <2>2. Changed(TRUE, device[d].bound) \in BOOLEAN \cup {None}
    BY DEF Changed
  <2>3. c \in Writes /\ WritesOK(c)
    BY <2>1, <2>2, NoneAssumption DEF Closes, Writes, WritesOK, Idle, Statuses
  <2> QED BY <1>2, <2>3, BeginInv DEF BindOwn
<1>3. CASE BindUnbound(w, u, s, d)
  <2> DEFINE others == \E e \in Devices \ {d} : device[e].user = u
             a == Changed(~others, device[d].active)
             c == [Closes(s) EXCEPT !.d = d, !.user = u, !.bound = TRUE, !.active = a]
  <2>1. device[d].present /\ Begin(w, c)
    BY <1>3 DEF BindUnbound, TakeOver
  <2>2. a \in BOOLEAN \cup {None}
    <3> HIDE DEF others
    <3>1. CASE others
      BY <3>1 DEF Changed
    <3>2. CASE ~others
      BY <3>2 DEF Changed
    <3> QED BY <3>1, <3>2
  <2> HIDE DEF a
  <2>3. c \in Writes /\ WritesOK(c)
    BY <2>1, <2>2, NoneAssumption DEF Closes, Writes, WritesOK, Idle, Statuses
  <2> QED BY <2>1, <2>3, BeginInv
<1> QED BY <1>1, <1>2, <1>3 DEF BindDevice

LEMMA SwitchInv ==
  ASSUME Inv, NEW w \in Workers, NEW u \in Users, NEW d \in Devices,
         SetActive(w, u, d) \/ UnbindRead(w, u, d)
  PROVE  Inv'
<1>1. device[d].present
  BY NoneAssumption DEF SetActive, UnbindRead, Inv, TypeOK
<1>2. CASE SetActive(w, u, d)
  <2> DEFINE others == {e \in Devices \ {d} : device[e].user = u}
             a == Changed(TRUE, device[d].active)
             c == [Idle EXCEPT !.op = "write", !.d = d, !.others = others, !.active = a]
  <2>1. others \subseteq Devices /\ a \in BOOLEAN \cup {None}
    BY DEF Changed
  <2>2. Begin(w, c)
    BY <1>2 DEF SetActive
  <2> HIDE DEF others, a
  <2>3. c \in Writes /\ WritesOK(c)
    BY <1>1, <2>1, NoneAssumption DEF Writes, WritesOK, Idle, Statuses
  <2> QED BY <2>2, <2>3, BeginInv
<1>3. CASE UnbindRead(w, u, d)
  <2> DEFINE b == Changed(FALSE, device[d].bound)
             a == Changed(FALSE, device[d].active)
             c == [Idle EXCEPT !.op = "unbind", !.d = d, !.by = u, !.bound = b, !.active = a]
  <2>1. a \in BOOLEAN \cup {None} /\ b \in BOOLEAN \cup {None}
    BY DEF Changed
  <2>2. Begin(w, c)
    BY <1>3 DEF UnbindRead
  <2> HIDE DEF b, a
  <2>3. c \in Writes /\ WritesOK(c)
    BY <1>1, <2>1, NoneAssumption DEF Writes, WritesOK, Idle, Statuses
  <2> QED BY <2>2, <2>3, BeginInv
<1> QED BY <1>2, <1>3

LEMMA BindRequestInv ==
  ASSUME Inv, NEW w \in Workers, BindRequest(w)
  PROVE  Inv'
BY HandleRegisterInv, BindDeviceInv, SwitchInv DEF BindRequest

(* Dropping a transaction, sessions aside. *)
LEMMA DropInv ==
  ASSUME Inv, NEW w \in Workers, txn' = [txn EXCEPT ![w] = Idle], UNCHANGED device,
         session' \in [Sessions -> SessionRows], SessionsOwned'
  PROVE  Inv'
<1>1. txn' \in [Workers -> Writes]
  BY IdleType DEF Inv, TypeOK, Writes
<1>2. TypeOK'
  BY <1>1 DEF Inv, TypeOK, Writes, SessionRows
<1>3. ASSUME NEW v \in Workers PROVE WritesOK(txn[v])'
  <2>1. txn'[v] = IF v = w THEN Idle ELSE txn[v]
    BY DEF Inv, TypeOK
  <2> QED BY <2>1, IdleType DEF Inv, WritesOK
<1> QED BY <1>2, <1>3 DEF Inv

LEMMA SessionAfterType ==
  ASSUME Inv, NEW w \in Workers, MayWrite(w)
  PROVE  /\ SessionAfter(w) \in [Sessions -> SessionRows]
         /\ \A s \in Sessions : SessionAfter(w)[s].user = session[s].user
         /\ \A s \in Sessions : SessionAfter(w)[s].status = session[s].status \/ Exists(s)
<1> DEFINE t == txn[w]
<1>1. t \in Writes /\ session \in [Sessions -> SessionRows]
  BY DEF Inv, TypeOK, Writes, SessionRows
<1>2. ASSUME NEW s \in Sessions
      PROVE  LET r == SessionAfter(w)[s] IN
             /\ r \in SessionRows /\ r.user = session[s].user
             /\ r.status = session[s].status \/ Exists(s)
  <2>1. SessionAfter(w)[s] =
          IF s = t.s THEN [session[s] EXCEPT !.status = Set(@, t.to), !.hw = Set(@, t.hw)]
          ELSE IF s \in t.cancel THEN [session[s] EXCEPT !.status = "cancelled"]
          ELSE session[s]
    BY DEF SessionAfter
  <2>2. session[s] \in SessionRows
    BY <1>1
  <2>3. CASE s = t.s
    <3>1. s \in Touched(w)
      BY <2>3, NoneAssumption DEF Touched, Sessions
    <3>2. Set(session[s].status, t.to) \in Statuses /\ Set(session[s].hw, t.hw) \in Devices \cup {None}
      BY <1>1, <2>2 DEF Set, Writes, SessionRows
    <3> QED BY <2>1, <2>2, <2>3, <3>1, <3>2 DEF MayWrite, SessionRows
  <2>4. CASE s # t.s /\ s \in t.cancel
    <3>1. s \in Touched(w)
      BY <2>4 DEF Touched
    <3> QED BY <2>1, <2>2, <2>4, <3>1 DEF MayWrite, SessionRows, Statuses
  <2>5. CASE s # t.s /\ s \notin t.cancel
    BY <2>1, <2>2, <2>5
  <2> QED BY <2>3, <2>4, <2>5
<1>3. SessionAfter(w) = [s \in Sessions |-> SessionAfter(w)[s]]
  BY DEF SessionAfter
<1> QED BY <1>2, <1>3

LEMMA DeviceAfterType ==
  ASSUME Inv, NEW w \in Workers
  PROVE  /\ DeviceAfter(w) \in [Devices -> DeviceRows]
         /\ \A d \in Devices : DeviceAfter(w)[d].present = (DeviceAfter(w)[d].user # None)
         /\ \A d \in Devices : device[d].present => DeviceAfter(w)[d].present
         /\ \A d \in Devices : DeviceAfter(w)[d].user =
              IF d \in txn[w].others \/ d # txn[w].d THEN device[d].user
              ELSE Set(device[d].user, txn[w].user)
<1> DEFINE t == txn[w]
<1>1. t \in Writes /\ WritesOK(t) /\ device \in [Devices -> DeviceRows]
  BY DEF Inv, TypeOK, Writes, DeviceRows
<1>2. ASSUME NEW d \in Devices
      PROVE  LET r == DeviceAfter(w)[d] IN
             /\ r \in DeviceRows /\ r.present = (r.user # None)
             /\ device[d].present => r.present
             /\ r.user = IF d \in t.others \/ d # t.d THEN device[d].user
                         ELSE Set(device[d].user, t.user)
  <2>1. DeviceAfter(w)[d] =
          IF d \in t.others THEN [device[d] EXCEPT !.active = FALSE]
          ELSE IF d # t.d THEN device[d]
          ELSE [present |-> TRUE, user |-> Set(device[d].user, t.user),
                bound |-> Set(device[d].bound, t.bound), active |-> Set(device[d].active, t.active)]
    BY DEF DeviceAfter
  <2>2. device[d] \in DeviceRows /\ device[d].present = (device[d].user # None)
    BY <1>1 DEF Inv, TypeOK
  <2>3. CASE d \in t.others \/ d # t.d
    BY <2>1, <2>2, <2>3 DEF DeviceRows
  <2>4. CASE d \notin t.others /\ d = t.d
    <3>1. Set(device[d].bound, t.bound) \in BOOLEAN
      BY <1>1, <2>2 DEF Set, Writes, DeviceRows
    <3>2. Set(device[d].active, t.active) \in BOOLEAN
      BY <1>1, <2>2 DEF Set, Writes, DeviceRows
    <3>3. Set(device[d].user, t.user) \in Users
      BY <1>1, <2>2, <2>4, NoneAssumption DEF Set, Writes, DeviceRows, WritesOK
    <3>4. DeviceAfter(w)[d] =
            [present |-> TRUE, user |-> Set(device[d].user, t.user),
             bound |-> Set(device[d].bound, t.bound), active |-> Set(device[d].active, t.active)]
      BY <2>1, <2>4
    <3>5. DeviceAfter(w)[d] \in DeviceRows
      BY <3>1, <3>2, <3>3, <3>4 DEF DeviceRows
    <3>6. /\ DeviceAfter(w)[d].present
          /\ DeviceAfter(w)[d].user = Set(device[d].user, t.user)
          /\ DeviceAfter(w)[d].user # None
      BY <3>3, <3>4, NoneAssumption
    <3> QED BY <2>4, <3>5, <3>6 DEF DeviceRows
  <2> QED BY <2>3, <2>4
<1>3. DeviceAfter(w) = [d \in Devices |-> DeviceAfter(w)[d]]
  BY DEF DeviceAfter
<1> QED BY <1>2, <1>3

(* Writing device rows and dropping the transaction keeps the invariant. *)
LEMMA StoreInv ==
  ASSUME Inv, NEW w \in Workers, txn' = [txn EXCEPT ![w] = Idle],
         session' \in [Sessions -> SessionRows], SessionsOwned',
         device' \in [Devices -> DeviceRows],
         \A d \in Devices : device'[d].present = (device'[d].user # None),
         \A d \in Devices : device[d].present => device'[d].present
  PROVE  Inv'
<1>1. txn' \in [Workers -> Writes]
  BY IdleType DEF Inv, TypeOK, Writes
<1>2. TypeOK'
  BY <1>1 DEF Inv, TypeOK, Writes, SessionRows, DeviceRows
<1>3. ASSUME NEW v \in Workers PROVE WritesOK(txn[v])'
  <2>1. txn'[v] = IF v = w THEN Idle ELSE txn[v]
    BY DEF Inv, TypeOK
  <2>2. txn[v].d \in Devices \cup {None} /\ WritesOK(txn[v])
    BY DEF Inv, TypeOK
  <2>3. txn'[v].op # "insert" /\ txn'[v].d # None => device'[txn'[v].d].present
    BY <2>1, <2>2 DEF WritesOK, Idle
  <2>4. WritesOK(Idle)
    BY IdleType
  <2>5. CASE v = w
    BY <2>1, <2>3, <2>5 DEF WritesOK, Idle
  <2>6. CASE v # w
    BY <2>1, <2>2, <2>3, <2>6 DEF WritesOK
  <2> QED BY <2>5, <2>6
<1> QED BY <1>2, <1>3 DEF Inv

LEMMA SessionsKept ==
  ASSUME Inv PROVE session \in [Sessions -> SessionRows]
BY DEF Inv, TypeOK, SessionRows

LEMMA CommitInv ==
  ASSUME Inv, NEW w \in Workers, Commit(w)
  PROVE  Inv'
<1>1. /\ MayWrite(w) /\ session' = SessionAfter(w) /\ device' = DeviceAfter(w)
      /\ txn' = [txn EXCEPT ![w] = Idle]
  BY DEF Commit
<1>2. SessionsOwned'
  BY <1>1, SessionAfterType DEF SessionsOwned, Exists, Inv
<1> QED BY <1>1, <1>2, SessionAfterType, DeviceAfterType, StoreInv

LEMMA UnbindCommitInv ==
  ASSUME Inv, NEW w \in Workers, UnbindCommit(w)
  PROVE  /\ Inv'
         /\ \A d \in Devices : device'[d].user = DeviceAfter(w)[d].user
<1>1. PICK rows \in Promoted(w) : device' = rows
  BY DEF UnbindCommit
<1>2. /\ rows \in [Devices -> DeviceRows]
      /\ \A d \in Devices : rows[d].user = DeviceAfter(w)[d].user
      /\ \A d \in Devices : rows[d].present = DeviceAfter(w)[d].present
  <2>1. CASE rows = DeviceAfter(w)
    BY <2>1, DeviceAfterType
  <2>2. CASE rows # DeviceAfter(w)
    <3>1. PICK c \in Devices : rows = [DeviceAfter(w) EXCEPT ![c].active = TRUE]
      BY <2>2 DEF Promoted
    <3>2. DeviceAfter(w)[c] \in DeviceRows
      BY DeviceAfterType
    <3>3. \A d \in Devices \ {c} : rows[d] = DeviceAfter(w)[d]
      BY <3>1, DeviceAfterType
    <3>4. rows[c] = [DeviceAfter(w)[c] EXCEPT !.active = TRUE]
      BY <3>1, DeviceAfterType
    <3>5. rows[c] \in DeviceRows /\ rows[c].user = DeviceAfter(w)[c].user
          /\ rows[c].present = DeviceAfter(w)[c].present
      BY <3>2, <3>4 DEF DeviceRows
    <3>6. rows = [d \in Devices |-> rows[d]]
      BY <3>1, DeviceAfterType
    <3>7. rows \in [Devices -> DeviceRows]
      BY <3>3, <3>5, <3>6, DeviceAfterType
    <3> QED BY <3>3, <3>5, <3>7
  <2> QED BY <2>1, <2>2
<1>3. txn' = [txn EXCEPT ![w] = Idle] /\ session' = session
  BY DEF UnbindCommit
<1>4. SessionsOwned'
  BY <1>3 DEF SessionsOwned, Exists, Inv
<1>5. session' \in [Sessions -> SessionRows]
  BY <1>3, SessionsKept
<1>6. /\ device' \in [Devices -> DeviceRows]
      /\ \A d \in Devices : device'[d].present = (device'[d].user # None)
  <2>1. ASSUME NEW d \in Devices PROVE device'[d].present = (device'[d].user # None)
    <3>1. DeviceAfter(w)[d].present = (DeviceAfter(w)[d].user # None)
      BY DeviceAfterType
    <3>2. rows[d].present = DeviceAfter(w)[d].present /\ rows[d].user = DeviceAfter(w)[d].user
      BY <1>2
    <3> QED BY <1>1, <3>1, <3>2
  <2> QED BY <1>1, <1>2, <2>1
<1>7. \A d \in Devices : device[d].present => device'[d].present
  BY <1>1, <1>2, DeviceAfterType
<1>8. Inv'
  BY <1>3, <1>4, <1>5, <1>6, <1>7, StoreInv
<1> QED BY <1>1, <1>2, <1>8

LEMMA SessionStepInv ==
  ASSUME Inv, NEW w \in Workers,
         \/ \E outcome \in {"verified", "failed"} : VerifyAnswer(w, outcome)
         \/ CommitCreate(w)
  PROVE  Inv' /\ UNCHANGED device
<1> USE NoneAssumption
<1>1. CASE \E outcome \in {"verified", "failed"} : VerifyAnswer(w, outcome)
  <2>1. PICK outcome \in {"verified", "failed"} : VerifyAnswer(w, outcome)
    BY <1>1
  <2> DEFINE s == txn[w].s
             h == IF txn[w].hw = None THEN session[s].hw ELSE txn[w].hw
  <2>2. s \in Sessions /\ Exists(s) /\ h \in Devices \cup {None}
    BY <2>1 DEF VerifyAnswer, Inv, TypeOK, WritesOK
  <2>3. session' = [session EXCEPT ![s].status = outcome, ![s].hw = h]
    BY <2>1, <2>2, SessionsKept DEF VerifyAnswer, SessionRows
  <2>4. session' \in [Sessions -> SessionRows] /\ \A r \in Sessions : session'[r].user = session[r].user
    BY <2>2, <2>3, SessionsKept DEF SessionRows, Statuses
  <2>5. \A r \in Sessions : Exists(r)' => Exists(r)
    BY <2>2, <2>3, SessionsKept DEF Exists, SessionRows
  <2>6. SessionsOwned'
    BY <2>4, <2>5 DEF SessionsOwned, Inv
  <2> QED BY <2>1, <2>4, <2>6, DropInv DEF VerifyAnswer
<1>2. CASE CommitCreate(w)
  <2>1. PICK s \in Sessions : session' = [SessionAfter(w) EXCEPT ![s] =
          [status |-> "created", user |-> txn[w].by, hw |-> None, age |-> "fresh"]]
    BY <1>2 DEF CommitCreate
  <2>2. MayWrite(w) /\ txn[w].by \in Users
    BY <1>2 DEF CommitCreate, Inv, WritesOK
  <2>3. session' \in [Sessions -> SessionRows]
    BY <2>1, <2>2, SessionAfterType DEF SessionRows, Statuses
  <2>4. SessionsOwned'
    BY <2>1, <2>2, SessionAfterType DEF SessionsOwned, Exists, Inv
  <2> QED BY <1>2, <2>3, <2>4, DropInv DEF CommitCreate
<1> QED BY <1>1, <1>2

LEMMA LoseInv ==
  ASSUME Inv, NEW w \in Workers, Lose(w)
  PROVE  Inv'
<1>1. SessionsOwned'
  BY DEF Lose, SessionsOwned, Exists, Inv
<1> QED BY <1>1, SessionsKept, DropInv DEF Lose

LEMMA AgeInv ==
  ASSUME Inv, (\E s \in Sessions : Expire(s)) \/ SessionCleanup
  PROVE  Inv'
<1>1. UNCHANGED <<device, txn>>
  BY DEF Expire, SessionCleanup
<1>2. session' \in [Sessions -> SessionRows] /\ SessionsOwned'
  <2>1. CASE \E s \in Sessions : Expire(s)
    <3>1. PICK s \in Sessions : Expire(s)
      BY <2>1
    <3>2. session' = [session EXCEPT ![s].age = IF session[s].age = "fresh" THEN "expired" ELSE "old"]
      BY <3>1, SessionsKept DEF Expire, SessionRows
    <3> QED BY <3>2, SessionsKept DEF SessionRows, SessionsOwned, Exists, Inv
  <2>2. CASE SessionCleanup
    <3> USE <2>2, SessionsKept
    <3>1. \A s \in Sessions : session'[s] =
            IF Exists(s) /\ session[s].age = "old" THEN [NoSession EXCEPT !.status = "deleted"]
            ELSE session[s]
      BY DEF SessionCleanup
    <3>2. session' \in [Sessions -> SessionRows]
      BY DEF SessionCleanup, NoSession, SessionRows, Statuses
    <3>3. SessionsOwned'
      BY <3>1 DEF SessionsOwned, Exists, Inv, NoSession
    <3> QED BY <3>2, <3>3
  <2> QED BY <2>1, <2>2
<1>3. TypeOK' /\ \A w \in Workers : WritesOK(txn[w])'
  BY <1>1, <1>2 DEF Inv, TypeOK, SessionRows, WritesOK
<1> QED BY <1>2, <1>3 DEF Inv

LEMMA InitInv == Init => Inv
<1> SUFFICES ASSUME Init PROVE Inv
  OBVIOUS
<1>1. TypeOK
  <2>1. session \in [Sessions -> SessionRows]
    BY DEF Init, NoSession, SessionRows, Statuses
  <2>2. device \in [Devices -> DeviceRows]
    BY DEF Init, NoDevice, DeviceRows
  <2>3. \A d \in Devices : device[d].present = (device[d].user # None)
    BY DEF Init, NoDevice
  <2>4. txn \in [Workers -> Writes]
    BY IdleType DEF Init
  <2> QED BY <2>1, <2>2, <2>3, <2>4 DEF TypeOK, SessionRows, DeviceRows, Writes
<1>2. SessionsOwned /\ \A w \in Workers : WritesOK(txn[w])
  BY IdleType DEF Init, SessionsOwned, Exists, NoSession
<1> QED BY <1>1, <1>2 DEF Inv

LEMMA NextInv == Inv /\ [Next]_vars => Inv'
<1> SUFFICES ASSUME Inv, [Next]_vars PROVE Inv'
  OBVIOUS
<1>1. CASE \E w \in Workers : WorkerStep(w)
  <2>1. PICK w \in Workers : WorkerStep(w)
    BY <1>1
  <2>2. (Refuse(w) \/ Abort(w)) => Lose(w)
    BY DEF Refuse, Abort
  <2> QED BY <2>1, <2>2, SessionRequestInv, BindRequestInv, SessionStepInv, CommitInv,
             UnbindCommitInv, LoseInv DEF WorkerStep
<1>2. CASE (\E s \in Sessions : Expire(s)) \/ SessionCleanup
  BY <1>2, AgeInv
<1>3. CASE UNCHANGED vars
  BY <1>3 DEF vars, Inv, TypeOK, SessionsOwned, Exists, WritesOK
<1> QED BY <1>1, <1>2, <1>3 DEF Next

LEMMA Invariance == Spec => []Inv
BY InitInv, NextInv, PTL DEF Spec

(* Rows and pending writes are well typed for every number of workers,     *)
(* users, devices and sessions.                                            *)
THEOREM TypeCorrect == Spec => []TypeOK
<1>1. Inv => TypeOK
  BY DEF Inv
<1> QED BY <1>1, Invariance, PTL

-----------------------------------------------------------------------------
(* Only the commits of bindings, switches and unbindings write devices. *)
LEMMA DeviceStep ==
  ASSUME [Next]_vars
  PROVE  UNCHANGED device \/ \E w \in Workers : Commit(w) \/ UnbindCommit(w)
<1>1. ASSUME NEW w \in Workers, SessionRequest(w) PROVE UNCHANGED device
  BY <1>1 DEF SessionRequest, CreateSession, IssueCredentials, HandleOnline, VerifyExpired,
              VerifyConnectivity, Begin
<1>2. ASSUME NEW w \in Workers, BindRequest(w) PROVE UNCHANGED device
  BY <1>2 DEF BindRequest, HandleRegister, BindDevice, RegisterNew, RegisterUnbound,
              RegisterAgain, BindNew, BindOwn, BindUnbound, TakeOver, SetActive, UnbindRead, Begin
<1>3. ASSUME NEW w \in Workers, Refuse(w) \/ Abort(w) \/ CommitCreate(w) PROVE UNCHANGED device
  BY <1>3 DEF Refuse, Abort, Lose, CommitCreate
<1>4. ASSUME NEW w \in Workers, NEW o, VerifyAnswer(w, o) PROVE UNCHANGED device
  BY <1>4 DEF VerifyAnswer
<1>5. (\E s \in Sessions : Expire(s)) \/ SessionCleanup \/ UNCHANGED vars => UNCHANGED device
  BY DEF Expire, SessionCleanup, vars
<1> QED BY <1>1, <1>2, <1>3, <1>4, <1>5 DEF Next, WorkerStep

-----------------------------------------------------------------------------
(* One transaction at a time. *)
Alone == \A v, w \in Workers : v = w

AbsentIsUnbound == \A d \in Devices : ~device[d].present => ~device[d].bound

(* A pending change of owner concerns an unbound device, or changes nothing. *)
WritesFit == \A w \in Workers : txn[w].user # None =>
  ~device[txn[w].d].bound \/ device[txn[w].d].user = txn[w].user

FitInv == Inv /\ AbsentIsUnbound /\ WritesFit

(* A request reads the row it will write. *)
LEMMA RequestFits ==
  ASSUME FitInv, NEW w \in Workers, SessionRequest(w) \/ BindRequest(w)
  PROVE  txn'[w].user # None =>
           ~device[txn'[w].d].bound \/ device[txn'[w].d].user = txn'[w].user
<1> USE DEF Idle
<1>0. ASSUME NEW c, Begin(w, c) PROVE txn'[w] = c
  BY <1>0 DEF Begin, FitInv, Inv, TypeOK
<1>1. ASSUME SessionRequest(w) PROVE txn'[w].user = None
  <2>1. CASE \E u \in Users : CreateSession(w, u)
    BY <1>0, <2>1 DEF CreateSession
  <2>2. CASE \E u \in Users, s \in Sessions, d \in Devices : IssueCredentials(w, u, s, d)
    BY <1>0, <2>2 DEF IssueCredentials
  <2>3. CASE \E s \in Sessions, d \in Devices : HandleOnline(w, s, d)
    <3>1. PICK s \in Sessions, d \in Devices : HandleOnline(w, s, d)
      BY <2>3
    <3>2. CASE session[s].age # "fresh"
      BY <1>0, <3>1, <3>2 DEF HandleOnline
    <3>3. CASE session[s].age = "fresh"
      BY <1>0, <3>1, <3>3 DEF HandleOnline
    <3> QED BY <3>2, <3>3
  <2>4. CASE \E u \in Users, s \in Sessions : VerifyExpired(w, u, s)
    BY <1>0, <2>4 DEF VerifyExpired
  <2>5. CASE \E u \in Users, s \in Sessions, d \in Devices \cup {None} : VerifyConnectivity(w, u, s, d)
    BY <1>0, <2>5 DEF VerifyConnectivity
  <2> QED BY <1>1, <2>1, <2>2, <2>3, <2>4, <2>5 DEF SessionRequest
<1>2. ASSUME NEW s \in Sessions, NEW d \in Devices, HandleRegister(w, s, d)
      PROVE  txn'[w].user # None =>
               ~device[txn'[w].d].bound \/ device[txn'[w].d].user = txn'[w].user
  <2>1. CASE RegisterNew(w, s, d)
    BY <1>0, <2>1 DEF RegisterNew, Insert, FitInv, AbsentIsUnbound, Begin, Inv, TypeOK
  <2>2. CASE RegisterUnbound(w, s, d)
    BY <1>0, <2>2 DEF RegisterUnbound, Closes, FitInv, Begin, Inv, TypeOK
  <2>3. CASE RegisterAgain(w, s, d)
    BY <1>0, <2>3 DEF RegisterAgain, Closes, FitInv, Begin, Inv, TypeOK
  <2> QED BY <1>2, <2>1, <2>2, <2>3 DEF HandleRegister
<1>3. ASSUME NEW u \in Users, NEW s \in Sessions, NEW d \in Devices, BindDevice(w, u, s, d)
      PROVE  txn'[w].user # None =>
               ~device[txn'[w].d].bound \/ device[txn'[w].d].user = txn'[w].user
  <2>1. CASE BindNew(w, u, s, d)
    BY <1>0, <2>1 DEF BindNew, Insert, FitInv, AbsentIsUnbound, Begin, Inv, TypeOK
  <2>2. CASE BindOwn(w, u, s, d)
    BY <1>0, <2>2 DEF BindOwn, Closes, FitInv, Begin, Inv, TypeOK
  <2>3. CASE BindUnbound(w, u, s, d)
    BY <1>0, <2>3 DEF BindUnbound, TakeOver, Closes, FitInv, Begin, Inv, TypeOK
  <2> QED BY <1>3, <2>1, <2>2, <2>3 DEF BindDevice
<1>4. ASSUME NEW u \in Users, NEW d \in Devices, SetActive(w, u, d) \/ UnbindRead(w, u, d)
      PROVE  txn'[w].user = None
  <2>1. CASE SetActive(w, u, d)
    BY <1>0, <2>1 DEF SetActive
  <2>2. CASE UnbindRead(w, u, d)
    BY <1>0, <2>2 DEF UnbindRead
  <2> QED BY <1>4, <2>1, <2>2
<1> QED BY <1>1, <1>2, <1>3, <1>4 DEF BindRequest

(* A commit binds no device that has no row. *)
LEMMA CommitBinds ==
  ASSUME FitInv, NEW w \in Workers, Commit(w) \/ UnbindCommit(w)
  PROVE  AbsentIsUnbound'
<1>1. ASSUME NEW d \in Devices, ~DeviceAfter(w)[d].present
      PROVE  ~DeviceAfter(w)[d].bound
  <2>1. d \in txn[w].others \/ d # txn[w].d
    BY <1>1 DEF DeviceAfter
  <2>2. device[d] \in DeviceRows
    BY DEF FitInv, Inv, TypeOK, DeviceRows
  <2> QED BY <1>1, <2>1, <2>2 DEF DeviceAfter, FitInv, AbsentIsUnbound, DeviceRows
<1>2. CASE Commit(w)
  BY <1>1, <1>2 DEF Commit, AbsentIsUnbound
<1>3. CASE UnbindCommit(w)
  <2>1. PICK rows \in Promoted(w) : device' = rows
    BY <1>3 DEF UnbindCommit
  <2>2. ASSUME NEW d \in Devices
        PROVE  rows[d].present = DeviceAfter(w)[d].present /\ rows[d].bound = DeviceAfter(w)[d].bound
    <3>1. CASE rows = DeviceAfter(w)
      BY <3>1
    <3>2. CASE rows # DeviceAfter(w)
      <4>1. PICK c \in Devices : rows = [DeviceAfter(w) EXCEPT ![c].active = TRUE]
        BY <3>2 DEF Promoted
      <4>2. DeviceAfter(w) \in [Devices -> DeviceRows]
        BY DeviceAfterType DEF FitInv
      <4>3. rows[d] = IF d = c THEN [DeviceAfter(w)[d] EXCEPT !.active = TRUE] ELSE DeviceAfter(w)[d]
        BY <4>1, <4>2
      <4> QED BY <4>2, <4>3 DEF DeviceRows
    <3> QED BY <3>1, <3>2
  <2> QED BY <1>1, <2>1, <2>2 DEF AbsentIsUnbound
<1> QED BY <1>2, <1>3

LEMMA FitStep == ASSUME Alone PROVE FitInv /\ [Next]_vars => FitInv'
<1> SUFFICES ASSUME FitInv, [Next]_vars PROVE FitInv'
  OBVIOUS
<1>1. Inv'
  BY NextInv DEF FitInv
<1>2. CASE \E w \in Workers : SessionRequest(w) \/ BindRequest(w)
  <2>1. PICK w \in Workers : SessionRequest(w) \/ BindRequest(w)
    BY <1>2
  <2>2. UNCHANGED device
    BY <2>1 DEF SessionRequest, CreateSession, IssueCredentials, HandleOnline, VerifyExpired,
                VerifyConnectivity, BindRequest, HandleRegister, BindDevice, RegisterNew,
                RegisterUnbound, RegisterAgain, BindNew, BindOwn, BindUnbound, TakeOver,
                SetActive, UnbindRead, Begin
  <2>3. WritesFit'
    BY <2>1, <2>2, RequestFits DEF Alone, WritesFit
  <2> QED BY <1>1, <2>2, <2>3 DEF FitInv, AbsentIsUnbound
<1>3. CASE \E w \in Workers : Commit(w) \/ UnbindCommit(w)
  <2>1. PICK w \in Workers : Commit(w) \/ UnbindCommit(w)
    BY <1>3
  <2>2. \A v \in Workers : txn'[v] = Idle
    BY <2>1 DEF Alone, Commit, UnbindCommit, FitInv, Inv, TypeOK
  <2> QED BY <1>1, <2>1, <2>2, CommitBinds DEF FitInv, WritesFit, Idle
<1>4. CASE UNCHANGED device /\ \A w \in Workers : txn'[w] \in {txn[w], Idle}
  BY <1>1, <1>4 DEF FitInv, WritesFit, AbsentIsUnbound, Idle
<1>5. ASSUME NEW w \in Workers, NEW o, VerifyAnswer(w, o) \/ CommitCreate(w) \/ Refuse(w) \/ Abort(w)
      PROVE  UNCHANGED device /\ \A v \in Workers : txn'[v] \in {txn[v], Idle}
  BY <1>5 DEF VerifyAnswer, CommitCreate, Refuse, Abort, Lose, FitInv, Inv, TypeOK
<1>6. (\E s \in Sessions : Expire(s)) \/ SessionCleanup \/ UNCHANGED vars
        => UNCHANGED <<device, txn>>
  BY DEF Expire, SessionCleanup, vars
<1> QED BY <1>2, <1>3, <1>4, <1>5, <1>6 DEF Next, WorkerStep

LEMMA OwnerStep == FitInv /\ [Next]_vars =>
  \A d \in Devices : device[d].bound /\ device'[d].bound => device'[d].user = device[d].user
<1> SUFFICES ASSUME FitInv, [Next]_vars, NEW d \in Devices, device[d].bound
             PROVE  device'[d].user = device[d].user
  OBVIOUS
<1>1. ASSUME NEW w \in Workers PROVE DeviceAfter(w)[d].user = device[d].user
  <2>1. DeviceAfter(w)[d].user =
          IF d \in txn[w].others \/ d # txn[w].d THEN device[d].user
          ELSE Set(device[d].user, txn[w].user)
    BY DeviceAfterType DEF FitInv
  <2>2. CASE d = txn[w].d /\ txn[w].user # None
    BY <2>1, <2>2 DEF Set, FitInv, WritesFit
  <2>3. CASE ~(d = txn[w].d /\ txn[w].user # None)
    BY <2>1, <2>3 DEF Set
  <2> QED BY <2>2, <2>3
<1>2. ASSUME NEW w \in Workers, UnbindCommit(w) PROVE device'[d].user = device[d].user
  BY <1>1, <1>2, UnbindCommitInv DEF FitInv
<1>3. ASSUME NEW w \in Workers, Commit(w) PROVE device'[d].user = device[d].user
  BY <1>1, <1>3 DEF Commit
<1> QED BY <1>2, <1>3, DeviceStep

(* With one transaction open at a time, a bound device keeps its owner     *)
(* until it is unbound: neither _handle_register nor bind_device takes a   *)
(* device over.  (Two can: each has read the device as unbound.)           *)
THEOREM SerialOwnersKept == ASSUME Alone PROVE Spec => OwnerKeepsDevice
<1>1. Init => FitInv
  <2> SUFFICES ASSUME Init PROVE FitInv
    OBVIOUS
  <2>1. AbsentIsUnbound /\ WritesFit
    BY DEF Init, AbsentIsUnbound, WritesFit, NoDevice, Idle
  <2> QED BY <2>1, InitInv DEF FitInv
<1>2. FitInv /\ [Next]_vars => FitInv'
  BY FitStep
<1>3. FitInv /\ [Next]_vars =>
        [\A d \in Devices :
           device[d].bound /\ device'[d].bound => device'[d].user = device[d].user]_vars
  BY OwnerStep
<1> QED BY <1>1, <1>2, <1>3, PTL DEF Spec, OwnerKeepsDevice
-----------------------------------------------------------------------------
(* Of a finite set of numbers, those with fewer than k greater ones are at *)
(* most k: the number of greater ones tells them apart.                    *)
LEMMA NewestFew ==
  ASSUME NEW S \in SUBSET Nat, IsFiniteSet(S), NEW k \in Nat
  PROVE  LET T == {s \in S : ~(Cardinality({r \in S : r > s}) >= k)}
         IN  IsFiniteSet(T) /\ Cardinality(T) <= k
<1> DEFINE Above(s) == {r \in S : r > s}
           T == {s \in S : ~(Cardinality(Above(s)) >= k)}
           f == [s \in T |-> Cardinality(Above(s))]
<1>1. \A s \in S : IsFiniteSet(Above(s)) /\ Cardinality(Above(s)) \in Nat
  BY FS_Subset, FS_CardinalityType
<1>2. IsFiniteSet(0..(k - 1)) /\ Cardinality(0..(k - 1)) = k
  BY FS_Interval
<1>3. ASSUME NEW s \in S, NEW t \in S, s < t PROVE Cardinality(Above(s)) # Cardinality(Above(t))
  <2>1. s \in Nat /\ t \in Nat /\ \A r \in S : r \in Nat /\ (r > t => r > s)
    BY <1>3
  <2>2. Above(t) \in SUBSET Above(s) /\ t \in Above(s) /\ t \notin Above(t)
    <3>1. Above(t) \in SUBSET Above(s)
      BY <2>1
    <3>2. t > s /\ ~(t > t)
      BY <1>3, <2>1
    <3>3. t \in S
      BY <1>3
    <3> QED BY <3>1, <3>2, <3>3
  <2> QED BY <1>1, <2>2, FS_Subset
<1>4. f \in [T -> 0..(k - 1)]
  <2>1. ASSUME NEW s \in T PROVE Cardinality(Above(s)) \in 0..(k - 1)
    <3>1. Cardinality(Above(s)) \in Nat /\ ~(Cardinality(Above(s)) >= k)
      BY <1>1
    <3> HIDE DEF Above, T
    <3> QED BY <3>1
  <2> HIDE DEF Above, T
  <2> QED BY <2>1
<1>5. f \in Injection(T, 0..(k - 1))
  <2>1. ASSUME NEW s \in T, NEW t \in T, f[s] = f[t] PROVE s = t
    <3>1. s < t \/ t < s \/ s = t
      OBVIOUS
    <3> QED BY <1>3, <2>1, <3>1
  <2> HIDE DEF f, T
  <2> QED BY <1>4, <2>1 DEF Injection, IsInjective
<1> HIDE DEF f
<1>6. IsFiniteSet(T) /\ Cardinality(T) <= k
  BY <1>2, <1>5, FS_Injection
<1> QED BY <1>6

LEMMA Unfinishing ==
  /\ \A u : UnfinishedOf(u) \in SUBSET Nat /\ IsFiniteSet(UnfinishedOf(u))
  /\ \A u, C : /\ IsFiniteSet(UnfinishedOf(u) \ C)
               /\ Cardinality(UnfinishedOf(u) \ C) \in Nat
               /\ Cardinality(UnfinishedOf(u)) \in Nat
<1>1. Sessions \in SUBSET Nat /\ IsFiniteSet(Sessions)
  BY CountAssumption, FS_Interval DEF Sessions
<1>2. \A u : UnfinishedOf(u) \in SUBSET Sessions
  BY DEF UnfinishedOf
<1>3. \A u, C : (UnfinishedOf(u) \ C) \in SUBSET Sessions
  BY <1>2
<1> QED BY <1>1, <1>2, <1>3, FS_Subset, FS_CardinalityType

LEMMA CancelsEnough == \A u : Cardinality(UnfinishedOf(u) \ ToCancel(u)) <= MaxActive - 1
<1> SUFFICES ASSUME NEW u PROVE Cardinality(UnfinishedOf(u) \ ToCancel(u)) <= MaxActive - 1
  OBVIOUS
<1> DEFINE S == UnfinishedOf(u)
           T == {s \in S : ~(Cardinality({r \in S : r > s}) >= MaxActive - 1)}
<1>1. S \in SUBSET Nat /\ IsFiniteSet(S) /\ MaxActive - 1 \in Nat
  BY Unfinishing, MaxActiveAssumption
<1>2. UnfinishedOf(u) \ ToCancel(u) = T
  BY DEF ToCancel
<1> HIDE DEF S
<1>3. Cardinality(T) <= MaxActive - 1
  BY <1>1, NewestFew
<1> QED BY <1>2, <1>3

-----------------------------------------------------------------------------
(* After t is committed device d will be bound, to the user of session t.s.*)
WillHold(t, d) ==
  /\ d \notin t.others
  /\ IF d = t.d
     THEN Set(device[d].bound, t.bound) = TRUE /\ Set(device[d].user, t.user) = session[t.s].user
     ELSE device[d].bound = TRUE /\ device[d].user = session[t.s].user

(* What one open transaction is going to write still follows from the rows *)
(* it read: it creates a session where there is room for one, it does not  *)
(* reopen a finished session, and it closes a session as bound only with   *)
(* its user's device.                                                      *)
Follows(t) ==
  /\ t.to # None => t.s \in Sessions
  /\ t.op = "create" => t.s = None /\ Cardinality(UnfinishedOf(t.by) \ t.cancel) <= MaxActive - 1
  /\ t.to # "created"
  /\ t.to = "verifying" /\ Exists(t.s) => session[t.s].status \in Unfinished
  /\ t.to = "bound" /\ Exists(t.s) => \E d \in Devices : WillHold(t, d)

SerialInv == Inv /\ (\A w \in Workers : Follows(txn[w])) /\ UnfinishedSessionsBounded

LEMMA NoStatus == None \notin {"created", "verifying", "bound"}
BY NoneAssumption DEF Statuses

LEMMA IdleFollows == Follows(Idle)
BY NoStatus DEF Follows, Idle

(* A transaction that writes no status, or one that ends a session, or     *)
(* that is a verification of one that is not finished, follows.            *)
LEMMA HarmlessFollows ==
  ASSUME NEW t, t.op # "create",
         \/ t.to = None
         \/ t.to = "expired" /\ t.s \in Sessions
         \/ t.to = "verifying" /\ t.s \in Sessions /\ session[t.s].status \in Unfinished
  PROVE  Follows(t)
BY NoStatus DEF Follows

LEMMA SessionRequestFollows ==
  ASSUME Inv, NEW w \in Workers, SessionRequest(w)
  PROVE  Follows(txn'[w])
<1> USE DEF Idle
<1>0. ASSUME NEW c, Begin(w, c) PROVE txn'[w] = c
  BY <1>0 DEF Begin, Inv, TypeOK
<1>1. CASE \E u \in Users : CreateSession(w, u)
  <2>1. PICK u \in Users : CreateSession(w, u)
    BY <1>1
  <2>2. txn'[w] = [Idle EXCEPT !.op = "create", !.by = u, !.cancel = ToCancel(u)]
    BY <1>0, <2>1 DEF CreateSession
  <2>3. txn'[w].op = "create" /\ txn'[w].to = None /\ txn'[w].s = None
        /\ txn'[w].by = u /\ txn'[w].cancel = ToCancel(u)
    BY <2>2
  <2> QED BY <2>3, CancelsEnough, NoStatus DEF Follows
<1>2. CASE \E u \in Users, s \in Sessions, d \in Devices : IssueCredentials(w, u, s, d)
  <2>1. txn'[w].op # "create" /\ txn'[w].to = None
    BY <1>0, <1>2 DEF IssueCredentials
  <2> QED BY <2>1, HarmlessFollows
<1>3. CASE \E s \in Sessions, d \in Devices : HandleOnline(w, s, d)
  <2>1. PICK s \in Sessions, d \in Devices : HandleOnline(w, s, d)
    BY <1>3
  <2>2. CASE session[s].age # "fresh"
    <3>1. txn'[w].op # "create" /\ txn'[w].to = "expired" /\ txn'[w].s \in Sessions
      BY <1>0, <2>1, <2>2 DEF HandleOnline
    <3> QED BY <3>1, HarmlessFollows
  <2>3. CASE session[s].age = "fresh"
    <3>1. txn'[w].op # "create" /\ txn'[w].to = "verifying" /\ txn'[w].s = s
      BY <1>0, <2>1, <2>3 DEF HandleOnline
    <3>2. session[s].status \in Unfinished
      BY <2>1 DEF HandleOnline, Unfinished
    <3> QED BY <3>1, <3>2, HarmlessFollows
  <2> QED BY <2>2, <2>3
<1>4. CASE \E u \in Users, s \in Sessions : VerifyExpired(w, u, s)
  <2>1. txn'[w].op # "create" /\ txn'[w].to = "expired" /\ txn'[w].s \in Sessions
    BY <1>0, <1>4 DEF VerifyExpired
  <2> QED BY <2>1, HarmlessFollows
<1>5. CASE \E u \in Users, s \in Sessions, d \in Devices \cup {None} : VerifyConnectivity(w, u, s, d)
  <2>1. txn'[w].op # "create" /\ txn'[w].to = None
    BY <1>0, <1>5 DEF VerifyConnectivity
  <2> QED BY <2>1, HarmlessFollows
<1> QED BY <1>1, <1>2, <1>3, <1>4, <1>5 DEF SessionRequest

(* A binding that will leave a device bound to the session's user follows. *)
LEMMA BindingFollows ==
  ASSUME NEW t, NEW d \in Devices, t.op # "create", t.to = "bound", t.s \in Sessions, WillHold(t, d)
  PROVE  Follows(t)
BY DEF Follows

LEMMA BindRequestFollows ==
  ASSUME Inv, NEW w \in Workers, BindRequest(w)
  PROVE  Follows(txn'[w])
<1> USE DEF Idle
<1>0. ASSUME NEW c, Begin(w, c) PROVE txn'[w] = c
  BY <1>0 DEF Begin, Inv, TypeOK
<1>1. ASSUME NEW s \in Sessions, NEW d \in Devices, NEW u \in Users, session[s].user = u,
             Begin(w, Insert(s, d, u))
      PROVE  Follows(txn'[w])
  <2>1. /\ txn'[w].op = "insert" /\ txn'[w].to = "bound" /\ txn'[w].s = s /\ txn'[w].d = d
        /\ txn'[w].others = {} /\ txn'[w].user = u /\ txn'[w].bound = TRUE
    BY <1>0, <1>1, ZenonT(40) DEF Insert
  <2>2. WillHold(txn'[w], d)
    BY <1>1, <2>1, NoneAssumption DEF WillHold, Set
  <2> QED BY <2>1, <2>2, BindingFollows
<1>2. ASSUME NEW s \in Sessions, NEW d \in Devices, HandleRegister(w, s, d) PROVE Follows(txn'[w])
  <2> DEFINE u == session[s].user
  <2>0. u \in Users
    BY <1>2 DEF HandleRegister, RegisterNew, RegisterUnbound, RegisterAgain, Inv, SessionsOwned, Exists
  <2>1. CASE RegisterNew(w, s, d)
    BY <1>1, <2>0, <2>1 DEF RegisterNew
  <2>2. CASE RegisterUnbound(w, s, d)
    <3>1. /\ txn'[w].op = "write" /\ txn'[w].to = "bound" /\ txn'[w].s = s /\ txn'[w].d = d
          /\ txn'[w].others = {} /\ txn'[w].bound = TRUE /\ txn'[w].user = Changed(u, device[d].user)
      <4>1. txn'[w] = [Closes(s) EXCEPT !.d = d, !.bound = TRUE, !.user = Changed(u, device[d].user)]
        BY <1>0, <2>2 DEF RegisterUnbound
      <4> QED BY <4>1 DEF Closes
    <3>2. Set(device[d].user, Changed(u, device[d].user)) = u
      BY <2>0, NoneAssumption DEF Set, Changed
    <3>3. Set(device[d].bound, TRUE) = TRUE
      BY NoneAssumption DEF Set
    <3>4. WillHold(txn'[w], d)
      BY <3>1, <3>2, <3>3 DEF WillHold
    <3> QED BY <3>1, <3>4, BindingFollows
  <2>3. CASE RegisterAgain(w, s, d)
    <3>1. /\ txn'[w].op = "write" /\ txn'[w].to = "bound" /\ txn'[w].s = s /\ txn'[w].d = None
          /\ txn'[w].others = {}
      <4>1. txn'[w] = Closes(s)
        BY <1>0, <2>3 DEF RegisterAgain
      <4> QED BY <4>1 DEF Closes
    <3>2. d # None /\ device[d].bound = TRUE /\ device[d].user = u
      BY <2>3, NoneAssumption DEF RegisterAgain, Inv, TypeOK
    <3>3. WillHold(txn'[w], d)
      BY <3>1, <3>2 DEF WillHold
    <3> QED BY <3>1, <3>3, BindingFollows
  <2> QED BY <1>2, <2>1, <2>2, <2>3 DEF HandleRegister
<1>3. ASSUME NEW u \in Users, NEW s \in Sessions, NEW d \in Devices, BindDevice(w, u, s, d)
      PROVE  Follows(txn'[w])
  <2>0. session[s].user = u
    BY <1>3 DEF BindDevice, BindNew, BindOwn, BindUnbound, TakeOver, MayBind
  <2>1. CASE BindNew(w, u, s, d)
    BY <1>1, <2>0, <2>1 DEF BindNew
  <2>2. CASE BindOwn(w, u, s, d)
    <3>1. /\ txn'[w].op = "write" /\ txn'[w].to = "bound" /\ txn'[w].s = s /\ txn'[w].d = d
          /\ txn'[w].others = {} /\ txn'[w].user = None
          /\ txn'[w].bound = Changed(TRUE, device[d].bound)
      BY <1>0, <2>2 DEF BindOwn, Closes
    <3>2. device[d].bound \in BOOLEAN /\ TRUE # None
      BY NoneAssumption DEF Inv, TypeOK
    <3>3. Set(device[d].bound, Changed(TRUE, device[d].bound)) = TRUE
      BY <3>2 DEF Set, Changed
    <3>4. Set(device[d].user, None) = u
      BY <2>2 DEF Set, BindOwn
    <3>5. WillHold(txn'[w], d)
      BY <2>0, <3>1, <3>3, <3>4 DEF WillHold
    <3> QED BY <3>1, <3>5, BindingFollows
  <2>3. CASE BindUnbound(w, u, s, d)
    <3>1. /\ txn'[w].op = "write" /\ txn'[w].to = "bound" /\ txn'[w].s = s /\ txn'[w].d = d
          /\ txn'[w].others = {} /\ txn'[w].user = u /\ txn'[w].bound = TRUE
      <4> DEFINE others == \E e \in Devices \ {d} : device[e].user = u
                 x == Changed(~others, device[d].active)
      <4>1. Begin(w, [Closes(s) EXCEPT !.d = d, !.user = u, !.bound = TRUE, !.active = x])
        BY <2>3 DEF BindUnbound, TakeOver
      <4> HIDE DEF x
      <4>2. txn'[w] = [Closes(s) EXCEPT !.d = d, !.user = u, !.bound = TRUE, !.active = x]
        BY <1>0, <4>1
      <4> QED BY <4>2 DEF Closes
    <3>2. WillHold(txn'[w], d)
      BY <2>0, <3>1, NoneAssumption DEF WillHold, Set
    <3> QED BY <3>1, <3>2, BindingFollows
  <2> QED BY <1>3, <2>1, <2>2, <2>3 DEF BindDevice
<1>4. ASSUME NEW u \in Users, NEW d \in Devices, SetActive(w, u, d) \/ UnbindRead(w, u, d)
      PROVE  Follows(txn'[w])
  <2>1. CASE SetActive(w, u, d)
    <3>1. txn'[w].op # "create" /\ txn'[w].to = None
      BY <1>0, <2>1 DEF SetActive
    <3> QED BY <3>1, HarmlessFollows
  <2>2. CASE UnbindRead(w, u, d)
    <3>1. txn'[w].op # "create" /\ txn'[w].to = None
      BY <1>0, <2>2 DEF UnbindRead
    <3> QED BY <3>1, HarmlessFollows
  <2> QED BY <1>4, <2>1, <2>2
<1> QED BY <1>2, <1>3, <1>4 DEF BindRequest

-----------------------------------------------------------------------------
(* Sessions that do not become unfinished, change hands or come back. *)
Winds ==
  \A s \in Sessions : Exists(s)' =>
    /\ Exists(s) /\ session'[s].user = session[s].user
    /\ session'[s].status \in Unfinished => session[s].status \in Unfinished

LEMMA WindsFewer ==
  ASSUME Winds, NEW u, NEW C
  PROVE  /\ Cardinality(UnfinishedOf(u)' \ C) <= Cardinality(UnfinishedOf(u) \ C)
         /\ Cardinality(UnfinishedOf(u)' \ C) \in Nat
         /\ Cardinality(UnfinishedOf(u) \ C) \in Nat
<1>1. (UnfinishedOf(u)' \ C) \in SUBSET (UnfinishedOf(u) \ C)
  BY DEF UnfinishedOf, Winds, Exists, Unfinished
<1>2. IsFiniteSet(UnfinishedOf(u) \ C)
  BY Unfinishing
<1> QED BY <1>1, <1>2, FS_Subset, FS_CardinalityType

LEMMA WindsBounded ==
  ASSUME UnfinishedSessionsBounded, Winds
  PROVE  UnfinishedSessionsBounded'
<1> SUFFICES ASSUME NEW u \in Users PROVE Cardinality(UnfinishedOf(u)') <= MaxActive
  BY DEF UnfinishedSessionsBounded
<1>1. \A S : S \ {} = S
  OBVIOUS
<1>2. /\ Cardinality(UnfinishedOf(u)') <= Cardinality(UnfinishedOf(u))
      /\ Cardinality(UnfinishedOf(u)') \in Nat /\ Cardinality(UnfinishedOf(u)) \in Nat
  BY <1>1, WindsFewer
<1> QED BY <1>2, MaxActiveAssumption DEF UnfinishedSessionsBounded

(* A transaction left alone still follows, if sessions only age or go.     *)
LEMMA FollowsKept ==
  ASSUME NEW w \in Workers, Follows(txn[w]), txn'[w] = txn[w], device' = device,
         \A s \in Sessions : Exists(s)' => session'[s].status = session[s].status /\ session'[s].user = session[s].user
  PROVE  Follows(txn[w])'
<1> DEFINE t == txn[w]
<1>0. txn[w]' = txn[w]
  OBVIOUS
<1>1. \A s \in Sessions : Exists(s)' => Exists(s)
  BY DEF Exists
<1>2. Winds
  BY <1>1 DEF Winds
<1>3. t.op = "create" => Cardinality(UnfinishedOf(t.by)' \ t.cancel) <= MaxActive - 1
  <2> SUFFICES ASSUME t.op = "create" PROVE Cardinality(UnfinishedOf(t.by)' \ t.cancel) <= MaxActive - 1
    OBVIOUS
  <2>1. /\ Cardinality(UnfinishedOf(t.by)' \ t.cancel) <= Cardinality(UnfinishedOf(t.by) \ t.cancel)
        /\ Cardinality(UnfinishedOf(t.by)' \ t.cancel) \in Nat
        /\ Cardinality(UnfinishedOf(t.by) \ t.cancel) \in Nat
    BY <1>2, WindsFewer
  <2>2. Cardinality(UnfinishedOf(t.by) \ t.cancel) <= MaxActive - 1
    BY DEF Follows
  <2> QED BY <2>1, <2>2, MaxActiveAssumption
<1>4. t.to = "verifying" /\ Exists(t.s)' => session'[t.s].status \in Unfinished
  BY <1>1, NoStatus DEF Follows
<1>5. t.to = "bound" /\ Exists(t.s)' => \E d \in Devices : WillHold(t, d)'
  <2> SUFFICES ASSUME t.to = "bound", Exists(t.s)' PROVE \E d \in Devices : WillHold(t, d)'
    OBVIOUS
  <2>1. t.s \in Sessions /\ session'[t.s].user = session[t.s].user
    BY NoStatus DEF Follows
  <2>2. PICK d \in Devices : WillHold(t, d)
    BY <1>1, <2>1 DEF Follows
  <2>3. WillHold(t, d)'
    BY <1>0, <2>1, <2>2 DEF WillHold
  <2> QED BY <2>3
<1> QED BY <1>0, <1>3, <1>4, <1>5 DEF Follows

LEMMA CommitWinds ==
  ASSUME Inv, NEW w \in Workers, Follows(txn[w]), MayWrite(w)
  PROVE  \A s \in Sessions :
           /\ SessionAfter(w)[s].user = session[s].user
           /\ SessionAfter(w)[s].status \in Unfinished =>
                session[s].status \in Unfinished /\ (txn[w].s = None => s \notin txn[w].cancel)
           /\ SessionAfter(w)[s].status \notin {"absent", "deleted"} => Exists(s)
<1> DEFINE t == txn[w]
<1> SUFFICES ASSUME NEW s \in Sessions
             PROVE  /\ SessionAfter(w)[s].status \in Unfinished =>
                         session[s].status \in Unfinished /\ (t.s = None => s \notin t.cancel)
                    /\ SessionAfter(w)[s].status \notin {"absent", "deleted"} => Exists(s)
  BY SessionAfterType
<1>1. SessionAfter(w)[s].status \notin {"absent", "deleted"} => Exists(s)
  BY SessionAfterType DEF Exists
<1>2. SessionAfter(w)[s] =
        IF s = t.s THEN [session[s] EXCEPT !.status = Set(@, t.to), !.hw = Set(@, t.hw)]
        ELSE IF s \in t.cancel THEN [session[s] EXCEPT !.status = "cancelled"]
        ELSE session[s]
  BY DEF SessionAfter
<1>3. session[s] \in SessionRows /\ None \notin Sessions
  BY SessionsKept, NoneAssumption DEF Sessions
<1>4. CASE s = t.s
  <2>1. SessionAfter(w)[s].status = Set(session[s].status, t.to)
    BY <1>2, <1>3, <1>4 DEF SessionRows
  <2>2. Exists(s)
    BY <1>3, <1>4 DEF MayWrite, Touched
  <2>3. t.to = "verifying" => session[s].status \in Unfinished
    BY <1>4, <2>2 DEF Follows
  <2>4. Set(session[s].status, t.to) \in Unfinished => session[s].status \in Unfinished
    BY <2>3 DEF Follows, Set, Unfinished
  <2> QED BY <1>1, <1>3, <1>4, <2>1, <2>4
<1>5. CASE s # t.s /\ s \in t.cancel
  <2>1. SessionAfter(w)[s].status = "cancelled"
    BY <1>2, <1>3, <1>5 DEF SessionRows
  <2> QED BY <1>1, <2>1 DEF Unfinished
<1>6. CASE s # t.s /\ s \notin t.cancel
  BY <1>1, <1>2, <1>6
<1> QED BY <1>4, <1>5, <1>6

LEMMA CreateBounded ==
  ASSUME SerialInv, NEW w \in Workers, CommitCreate(w)
  PROVE  UnfinishedSessionsBounded'
<1> DEFINE t == txn[w]
<1>1. PICK s \in Sessions : session' = [SessionAfter(w) EXCEPT ![s] =
        [status |-> "created", user |-> t.by, hw |-> None, age |-> "fresh"]]
  BY DEF CommitCreate
<1>2. MayWrite(w) /\ t.op = "create" /\ t.s = None /\ Follows(t) /\ Inv
  BY DEF CommitCreate, SerialInv, Follows
<1>3. SessionAfter(w) \in [Sessions -> SessionRows]
  BY <1>2, SessionAfterType
<1>4. \A r \in Sessions : session'[r] =
        IF r = s THEN [status |-> "created", user |-> t.by, hw |-> None, age |-> "fresh"]
        ELSE SessionAfter(w)[r]
  BY <1>1, <1>3
<1> SUFFICES ASSUME NEW u \in Users PROVE Cardinality(UnfinishedOf(u)') <= MaxActive
  BY DEF UnfinishedSessionsBounded
<1>5. Cardinality(UnfinishedOf(u)) \in Nat /\ Cardinality(UnfinishedOf(u)) <= MaxActive /\ IsFiniteSet(UnfinishedOf(u))
  <2>1. UnfinishedOf(u) \ {} = UnfinishedOf(u)
    OBVIOUS
  <2> QED BY <2>1, Unfinishing DEF SerialInv, UnfinishedSessionsBounded
<1>6. CASE u # t.by
  <2>1. UnfinishedOf(u)' \in SUBSET UnfinishedOf(u)
    BY <1>2, <1>4, <1>6, CommitWinds DEF UnfinishedOf
  <2>2. IsFiniteSet(UnfinishedOf(u)') /\ Cardinality(UnfinishedOf(u)') <= Cardinality(UnfinishedOf(u))
    BY <1>5, <2>1, FS_Subset
  <2> QED BY <1>5, <2>2, FS_CardinalityType, MaxActiveAssumption
<1>7. CASE u = t.by
  <2> DEFINE S == UnfinishedOf(u) \ t.cancel
  <2>1. UnfinishedOf(u)' \in SUBSET (S \cup {s})
    BY <1>2, <1>4, CommitWinds DEF UnfinishedOf
  <2>2. IsFiniteSet(S) /\ Cardinality(S) \in Nat /\ Cardinality(S) <= MaxActive - 1
    BY <1>2, <1>7, Unfinishing DEF Follows
  <2> HIDE DEF S
  <2>3. IsFiniteSet(S \cup {s}) /\ Cardinality(S \cup {s}) <= Cardinality(S) + 1 /\ Cardinality(S \cup {s}) \in Nat
    <3>1. IsFiniteSet(S \cup {s}) /\ Cardinality(S \cup {s}) = IF s \in S THEN Cardinality(S) ELSE Cardinality(S) + 1
      BY <2>2, FS_AddElement
    <3> QED BY <2>2, <3>1
  <2>4. IsFiniteSet(UnfinishedOf(u)') /\ Cardinality(UnfinishedOf(u)') <= Cardinality(S \cup {s})
    BY <2>1, <2>3, FS_Subset
  <2> QED BY <2>2, <2>3, <2>4, FS_CardinalityType, MaxActiveAssumption
<1> QED BY <1>6, <1>7

LEMMA SerialStep == ASSUME Alone PROVE SerialInv /\ [Next]_vars => SerialInv'
<1> SUFFICES ASSUME SerialInv, [Next]_vars PROVE SerialInv'
  OBVIOUS
<1>1. Inv /\ Inv'
  BY NextInv DEF SerialInv
<1>2. ASSUME \A w \in Workers : txn'[w] = Idle PROVE \A w \in Workers : Follows(txn[w])'
  BY <1>2, IdleFollows, NoStatus DEF Follows, Idle
<1>3. ASSUME UNCHANGED session PROVE Winds
  BY <1>3 DEF Winds, Exists
<1>4. ASSUME NEW w \in Workers, SessionRequest(w) \/ BindRequest(w) PROVE SerialInv'
  <2>1. UNCHANGED <<session, device>>
    BY <1>4 DEF SessionRequest, CreateSession, IssueCredentials, HandleOnline, VerifyExpired,
                VerifyConnectivity, BindRequest, HandleRegister, BindDevice, RegisterNew,
                RegisterUnbound, RegisterAgain, BindNew, BindOwn, BindUnbound, TakeOver,
                SetActive, UnbindRead, Begin
  <2>2. Follows(txn'[w])
    BY <1>1, <1>4, SessionRequestFollows, BindRequestFollows
  <2>3. Follows(txn[w])'
    BY <2>1, <2>2 DEF Follows, WillHold, UnfinishedOf, Exists
  <2>4. \A v \in Workers : Follows(txn[v])'
    BY <2>3 DEF Alone
  <2> QED BY <1>1, <1>3, <2>1, <2>4, WindsBounded DEF SerialInv
<1>5. ASSUME NEW w \in Workers, Commit(w) PROVE SerialInv'
  <2>1. Winds
    BY <1>1, <1>5, CommitWinds DEF Commit, SerialInv, Winds, Exists
  <2>2. \A v \in Workers : txn'[v] = Idle
    BY <1>1, <1>5 DEF Alone, Commit, Inv, TypeOK
  <2> QED BY <1>1, <1>2, <2>1, <2>2, WindsBounded DEF SerialInv
<1>6. ASSUME NEW w \in Workers, CommitCreate(w) PROVE SerialInv'
  <2>1. \A v \in Workers : txn'[v] = Idle
    BY <1>1, <1>6 DEF Alone, CommitCreate, Inv, TypeOK
  <2> QED BY <1>1, <1>2, <1>6, <2>1, CreateBounded DEF SerialInv
<1>7. ASSUME NEW w \in Workers, NEW o \in {"verified", "failed"}, VerifyAnswer(w, o) PROVE SerialInv'
  <2> DEFINE s == txn[w].s
             h == IF txn[w].hw = None THEN session[s].hw ELSE txn[w].hw
  <2>1. s \in Sessions /\ Exists(s) /\ session' = [session EXCEPT ![s].status = o, ![s].hw = h]
    BY <1>1, <1>7, SessionsKept DEF VerifyAnswer, SessionRows, Inv, WritesOK
  <2>2. \A r \in Sessions : /\ session'[r].user = session[r].user
                            /\ session'[r].status = IF r = s THEN o ELSE session[r].status
    BY <1>1, <2>1, SessionsKept DEF SessionRows
  <2>3. Winds
    BY <2>1, <2>2 DEF Winds, Exists, Unfinished
  <2>4. \A v \in Workers : txn'[v] = Idle
    BY <1>1, <1>7 DEF Alone, VerifyAnswer, Inv, TypeOK
  <2> QED BY <1>1, <1>2, <2>3, <2>4, WindsBounded DEF SerialInv
<1>8. ASSUME NEW w \in Workers, UnbindCommit(w) \/ Refuse(w) \/ Abort(w) PROVE SerialInv'
  <2>1. UNCHANGED session /\ \A v \in Workers : txn'[v] = Idle
    BY <1>1, <1>8 DEF Alone, UnbindCommit, Refuse, Abort, Lose, Inv, TypeOK
  <2> QED BY <1>1, <1>2, <1>3, <2>1, WindsBounded DEF SerialInv
<1>9. ASSUME UNCHANGED <<device, txn>>,
             \A s \in Sessions : Exists(s)' => session'[s].status = session[s].status
                                               /\ session'[s].user = session[s].user
      PROVE  SerialInv'
  <2>1. Winds
    BY <1>9 DEF Winds, Exists
  <2>2. \A w \in Workers : Follows(txn[w])'
    BY <1>9, FollowsKept DEF SerialInv
  <2> QED BY <1>1, <2>1, <2>2, WindsBounded DEF SerialInv
<1>10. ASSUME NEW s \in Sessions, Expire(s) PROVE SerialInv'
  <2>1. session' = [session EXCEPT ![s].age = IF session[s].age = "fresh" THEN "expired" ELSE "old"]
    BY <1>1, <1>10, SessionsKept DEF Expire, SessionRows
  <2>2. \A r \in Sessions : session'[r].status = session[r].status /\ session'[r].user = session[r].user
    BY <1>1, <2>1, SessionsKept DEF SessionRows
  <2> QED BY <1>9, <1>10, <2>2 DEF Expire
<1>11. ASSUME SessionCleanup PROVE SerialInv'
  <2>1. \A r \in Sessions : Exists(r)' => session'[r] = session[r]
    BY <1>11 DEF SessionCleanup, Exists, NoSession
  <2> QED BY <1>9, <1>11, <2>1 DEF SessionCleanup
<1>12. CASE UNCHANGED vars
  BY <1>9, <1>12 DEF vars
<1> QED BY <1>4, <1>5, <1>6, <1>7, <1>8, <1>10, <1>11, <1>12 DEF Next, WorkerStep

LEMMA SerialInit == Init => SerialInv
<1> SUFFICES ASSUME Init PROVE SerialInv
  OBVIOUS
<1>1. \A w \in Workers : Follows(txn[w])
  BY IdleFollows DEF Init
<1>2. \A u : UnfinishedOf(u) = {}
  BY DEF Init, UnfinishedOf, NoSession, Unfinished
<1>3. UnfinishedSessionsBounded
  BY <1>2, FS_EmptySet, MaxActiveAssumption DEF UnfinishedSessionsBounded
<1> QED BY <1>1, <1>3, InitInv DEF SerialInv

(* With one transaction open at a time, a user never has more than         *)
(* MaxActive sessions to finish: create_provisioning_session cancels all   *)
(* but the newest MaxActive - 1, and no handler reopens one.               *)
THEOREM SerialUnfinishedBounded == ASSUME Alone PROVE Spec => []UnfinishedSessionsBounded
<1>1. SerialInv => UnfinishedSessionsBounded
  BY DEF SerialInv
<1>2. SerialInv /\ [Next]_vars => SerialInv'
  BY SerialStep
<1> QED BY <1>1, <1>2, SerialInit, PTL DEF Spec

(* Only a commit closes a session as bound. *)
LEMMA BoundByCommit ==
  ASSUME SerialInv, [Next]_vars, NEW s \in Sessions,
         session[s].status # "bound", session'[s].status = "bound"
  PROVE  \E w \in Workers : Commit(w)
<1> USE DEF SerialInv
<1>0. \A r \in Sessions : session[r] \in SessionRows
  BY SessionsKept
<1>1. ASSUME NEW w \in Workers, SessionRequest(w) \/ BindRequest(w) PROVE FALSE
  BY <1>1 DEF SessionRequest, CreateSession, IssueCredentials, HandleOnline, VerifyExpired,
              VerifyConnectivity, BindRequest, HandleRegister, BindDevice, RegisterNew,
              RegisterUnbound, RegisterAgain, BindNew, BindOwn, BindUnbound, TakeOver,
              SetActive, UnbindRead, Begin
<1>2. ASSUME NEW w \in Workers, UnbindCommit(w) \/ Refuse(w) \/ Abort(w) PROVE FALSE
  BY <1>2 DEF UnbindCommit, Refuse, Abort, Lose
<1>3. ASSUME NEW w \in Workers, NEW o \in {"verified", "failed"}, VerifyAnswer(w, o) PROVE FALSE
  <2> DEFINE h == IF txn[w].hw = None THEN session[txn[w].s].hw ELSE txn[w].hw
  <2>1. txn[w].s \in Sessions /\ session' = [session EXCEPT ![txn[w].s].status = o, ![txn[w].s].hw = h]
    BY <1>3, SessionsKept DEF VerifyAnswer, SessionRows, Inv, WritesOK
  <2>2. session'[s].status = IF s = txn[w].s THEN o ELSE session[s].status
    BY <1>0, <2>1, SessionsKept DEF SessionRows
  <2> QED BY <2>2
<1>4. ASSUME NEW w \in Workers, CommitCreate(w) PROVE FALSE
  <2>1. PICK r \in Sessions : session' = [SessionAfter(w) EXCEPT ![r] =
          [status |-> "created", user |-> txn[w].by, hw |-> None, age |-> "fresh"]]
    BY <1>4 DEF CommitCreate
  <2>2. s # r /\ SessionAfter(w)[s].status = "bound"
    BY <1>4, <2>1, SessionAfterType DEF CommitCreate
  <2>3. SessionAfter(w)[s] =
          IF s = txn[w].s THEN [session[s] EXCEPT !.status = Set(@, txn[w].to), !.hw = Set(@, txn[w].hw)]
          ELSE IF s \in txn[w].cancel THEN [session[s] EXCEPT !.status = "cancelled"]
          ELSE session[s]
    BY DEF SessionAfter
  <2>4. s = txn[w].s
    BY <1>0, <2>2, <2>3 DEF SessionRows
  <2>5. s \in Nat /\ None \notin Nat
    BY NoneAssumption DEF Sessions
  <2>6. txn[w].op = "create" /\ Follows(txn[w])
    BY <1>4 DEF CommitCreate
  <2>7. txn[w].s = None
    BY <2>6 DEF Follows
  <2> QED BY <2>4, <2>5, <2>7
<1>5. ASSUME NEW r \in Sessions, Expire(r) PROVE FALSE
  <2>1. session' = [session EXCEPT ![r].age = IF session[r].age = "fresh" THEN "expired" ELSE "old"]
    BY <1>5, SessionsKept DEF Expire, SessionRows
  <2> QED BY <1>0, <2>1, SessionsKept DEF SessionRows
<1>6. ASSUME SessionCleanup PROVE FALSE
  BY <1>6 DEF SessionCleanup, NoSession
<1>7. CASE UNCHANGED vars
  BY <1>7 DEF vars
<1> QED BY <1>1, <1>2, <1>3, <1>4, <1>5, <1>6, <1>7 DEF Next, WorkerStep

LEMMA BoundStep ==
  ASSUME SerialInv, [Next]_vars, NEW s \in Sessions,
         session[s].status # "bound", session'[s].status = "bound"
  PROVE  \E d \in Devices : device'[d].bound /\ device'[d].user = session'[s].user
<1>1. PICK w \in Workers : Commit(w)
  BY BoundByCommit
<1> DEFINE t == txn[w]
<1>2. MayWrite(w) /\ session' = SessionAfter(w) /\ device' = DeviceAfter(w) /\ Inv /\ Follows(t)
  BY <1>1 DEF Commit, SerialInv
<1>3. session[s] \in SessionRows
  BY <1>2, SessionsKept
<1>4. SessionAfter(w)[s] =
        IF s = t.s THEN [session[s] EXCEPT !.status = Set(@, t.to), !.hw = Set(@, t.hw)]
        ELSE IF s \in t.cancel THEN [session[s] EXCEPT !.status = "cancelled"]
        ELSE session[s]
  BY DEF SessionAfter
<1>5. s = t.s
  BY <1>2, <1>3, <1>4 DEF SessionRows
<1>6. t.to = "bound"
  BY <1>2, <1>3, <1>4, <1>5 DEF SessionRows, Set
<1>7. Exists(s)
  BY <1>2, <1>5, NoneAssumption DEF MayWrite, Touched, Sessions
<1>8. PICK d \in Devices : WillHold(t, d)
  BY <1>2, <1>5, <1>6, <1>7 DEF Follows
<1>9. device'[d] =
        IF d # t.d THEN device[d]
        ELSE [present |-> TRUE, user |-> Set(device[d].user, t.user),
              bound |-> Set(device[d].bound, t.bound), active |-> Set(device[d].active, t.active)]
  BY <1>2, <1>8 DEF DeviceAfter, WillHold
<1>10. session'[s].user = session[s].user
  BY <1>2, SessionAfterType
<1> QED BY <1>5, <1>8, <1>9, <1>10 DEF WillHold

(* With one transaction open at a time, a session is closed as bound only  *)
(* together with its device: _handle_register and bind_device write both   *)
(* in one commit, or close the session of a user who holds the device      *)
(* already.                                                                *)
THEOREM SerialBoundHolds == ASSUME Alone PROVE Spec => BoundSessionHoldsDevice
<1>1. SerialInv /\ [Next]_vars => SerialInv'
  BY SerialStep
<1>2. SerialInv /\ [Next]_vars =>
        [\A s \in Sessions : session[s].status # "bound" /\ session'[s].status = "bound" =>
           \E d \in Devices : device'[d].bound /\ device'[d].user = session'[s].user]_vars
  BY BoundStep
<1> QED BY <1>1, <1>2, SerialInit, PTL DEF Spec, BoundSessionHoldsDevice
=============================================================================
