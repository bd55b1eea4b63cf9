-------------------------- MODULE DeviceCertificates --------------------------
(***************************************************************************)
(* The X.509 certificates of one device (api/modules/device/service.py,    *)
(* core/aws.py).  A provisioning session issues one: the certificates      *)
(* attached to the device's Thing are detached and deactivated, a new one  *)
(* is created and attached, and its arn is kept with the session and, once *)
(* the device is bound, with the device, so that unbinding can deactivate  *)
(* it.  AWS, Redis and Postgres are each told by calls of their own: one   *)
(* may fail after the others were made, and two requests may interleave.   *)
(***************************************************************************)
EXTENDS Integers, FiniteSets

CONSTANTS
  SessionCount,  \* bounds the provisioning sessions
  CertCount,     \* bounds the certificates
  IssueCount,    \* bounds the requests for credentials under way
  Troubles       \* what may happen: requests that overlap, or are of an older
                 \* session; calls that fail; a bound device that registers again

ASSUME CertAssumption ==
  /\ {SessionCount, CertCount, IssueCount} \subseteq Nat
  /\ Troubles \subseteq SUBSET {"overlap", "fail", "again"}

VARIABLES
  trouble,   \* of this behaviour, a member of Troubles
  made,      \* certificates created so far, by their order; 0 is none
  active,    \* those AWS IoT accepts
  attached,  \* list_thing_principals of the Thing
  allowed,   \* those with the device policy
  sessions,  \* the state of each, as far as it is asked for here, and its certificate_arn
  cached,    \* provision:cert:{session_id}
  requests,  \* issue_mqtt_credentials
  bound,     \* the device: whether it is bound, through which session, its certificate_arn
  holds      \* the session and the certificate the device has been given last

certVars == <<trouble, made, active, attached, allowed, sessions, cached, requests, bound, holds>>

-----------------------------------------------------------------------------
CertSessions == 1..SessionCount
Certificates == 1..CertCount
Requests     == 1..IssueCount

NoRequest == [at |-> "none", s |-> 0, old |-> {}, cert |-> 0]

CertInit ==
  /\ trouble \in Troubles /\ made = 0 /\ active = {} /\ attached = {} /\ allowed = {}
  /\ sessions = [s \in CertSessions |-> [st |-> "open", arn |-> 0]]
  /\ cached = [s \in CertSessions |-> 0] /\ requests = [r \in Requests |-> NoRequest]
  /\ bound = [is |-> FALSE, s |-> 0, arn |-> 0] /\ holds = [s |-> 0, cert |-> 0]

NoneUnderWay == \A r \in Requests : requests[r] = NoRequest

(* "closed": bound, cancelled; any other state but "expired" is "open". *)
Open(s) == sessions[s].st = "open"

Works(c) == c \in active \cap attached \cap allowed

-----------------------------------------------------------------------------
(* POST /provisioning/sessions/{id}/mqtt-credentials.                      *)

Goes(r, at) == requests' = [requests EXCEPT ![r].at = at]

(* The session is read before its cached credentials are.  A device goes   *)
(* on to a newer session, or asks again in its own after a reboot.         *)
Requested(r, s) ==
  /\ requests[r] = NoRequest /\ (NoneUnderWay \/ "overlap" \in trouble)
  /\ Open(s) /\ (s >= holds.s \/ "overlap" \in trouble)
  /\ requests' = [requests EXCEPT ![r] = [NoRequest EXCEPT !.at = "asks", !.s = s]]
  /\ holds' = IF s > holds.s THEN [s |-> s, cert |-> 0] ELSE holds
  /\ UNCHANGED <<trouble, made, active, attached, allowed, sessions, cached, bound>>

(* The device has the answer, or has rebooted. *)
Answered(r, c) ==
  /\ requests' = [requests EXCEPT ![r] = NoRequest]
  /\ holds' \in {holds} \cup {[s |-> requests[r].s, cert |-> c]}

AnswersCached(r) == LET c == cached[requests[r].s] IN
  /\ requests[r].at = "asks" /\ c # 0 /\ Answered(r, c)
  /\ UNCHANGED <<trouble, made, active, attached, allowed, sessions, cached, bound>>

(* mutant: the certificates of another Thing are asked for *)
OfAnotherThing == {}

(* list_thing_principals *)
Principals == attached

(* A list that fails is taken for an empty one. *)
Lists(r) ==
  /\ requests[r].at = "asks" /\ cached[requests[r].s] = 0
  /\ \E old \in {Principals} \cup (IF "fail" \in trouble THEN {{}} ELSE {}) :
       requests' = [requests EXCEPT ![r].at = "cleans", ![r].old = old]
  /\ UNCHANGED <<trouble, made, active, attached, allowed, sessions, cached, bound, holds>>

(* An error with one certificate is logged, and the next is taken. *)
Detaches(r, c) ==
  /\ requests[r].at = "cleans" /\ c \in requests[r].old
  /\ \/ /\ attached' = attached \ {c}
        /\ requests' = [requests EXCEPT ![r].at = "detached", ![r].cert = c]
     \/ /\ "fail" \in trouble /\ UNCHANGED attached
        /\ requests' = [requests EXCEPT ![r].old = @ \ {c}]
  /\ UNCHANGED <<trouble, made, active, allowed, sessions, cached, bound, holds>>

Deactivates(r) == LET c == requests[r].cert IN
  /\ requests[r].at = "detached"
  /\ active' \in {active \ {c}} \cup (IF "fail" \in trouble THEN {active} ELSE {})
  /\ requests' = [requests EXCEPT ![r].at = "cleans", ![r].old = @ \ {c}, ![r].cert = 0]
  /\ UNCHANGED <<trouble, made, attached, allowed, sessions, cached, bound, holds>>

Creates(r) ==
  /\ requests[r].at = "cleans" /\ requests[r].old = {} /\ made < CertCount
  /\ made' = made + 1 /\ active' = active \cup {made + 1}
  /\ requests' = [requests EXCEPT ![r].at = "created", ![r].cert = made + 1]
  /\ UNCHANGED <<trouble, attached, allowed, sessions, cached, bound, holds>>

(* The Thing is there, or made, first. *)
Attaches(r) ==
  /\ requests[r].at = "created" /\ attached' = attached \cup {requests[r].cert}
  /\ Goes(r, "attached")
  /\ UNCHANGED <<trouble, made, active, allowed, sessions, cached, bound, holds>>

Allows(r) ==
  /\ requests[r].at = "attached" /\ allowed' = allowed \cup {requests[r].cert}
  /\ Goes(r, "allowed")
  /\ UNCHANGED <<trouble, made, active, attached, sessions, cached, bound, holds>>

Caches(r) ==
  /\ requests[r].at = "allowed" /\ cached' = [cached EXCEPT ![requests[r].s] = requests[r].cert]
  /\ Goes(r, "cached")
  /\ UNCHANGED <<trouble, made, active, attached, allowed, sessions, bound, holds>>

Commits(r) ==
  /\ requests[r].at = "cached"
  /\ sessions' = [sessions EXCEPT ![requests[r].s].arn = requests[r].cert]
  /\ Answered(r, requests[r].cert)
  /\ UNCHANGED <<trouble, made, active, attached, allowed, cached, bound>>

(* An error of any other call rolls the session back: what AWS and Redis   *)
(* were told stays.                                                        *)
RollsBack(r) ==
  /\ "fail" \in trouble /\ requests[r].at \in {"cleans", "created", "attached", "allowed", "cached"}
  /\ requests' = [requests EXCEPT ![r] = NoRequest]
  /\ UNCHANGED <<trouble, made, active, attached, allowed, sessions, cached, bound, holds>>

-----------------------------------------------------------------------------
(* Binding and unbinding.                                                  *)

(* Only a device that gets through to the broker is verified or registers. *)
Connected(s) ==
  /\ holds.s = s /\ Works(holds.cert) /\ Open(s)
  /\ NoneUnderWay \/ "overlap" \in trouble

Binds(s, arn) ==
  /\ bound' = [is |-> TRUE, s |-> s, arn |-> arn]
  /\ sessions' = [sessions EXCEPT ![s].st = "closed"]
  /\ UNCHANGED <<trouble, made, active, attached, allowed, cached, requests, holds>>

(* mutant: the arn stays with the session *)
KeptArn(s) == bound.arn

NewestArn(s) == IF sessions[s].arn # 0 THEN sessions[s].arn ELSE bound.arn

(* POST /device/bind, and the registration of a new or unbound device. *)
BindDevice(s) == Connected(s) /\ Binds(s, NewestArn(s))

(* _handle_register, of a device its user has already: no arn is taken. *)
RegisterOwn(s) ==
  /\ "again" \in trouble /\ bound.is /\ Connected(s) /\ Binds(s, bound.arn)

UnbindDevice ==
  /\ bound.is /\ (NoneUnderWay \/ "overlap" \in trouble) /\ bound' = [bound EXCEPT !.is = FALSE]
  /\ active' \in {active \ {bound.arn}} \cup (IF "fail" \in trouble THEN {active} ELSE {})
  /\ UNCHANGED <<trouble, made, attached, allowed, sessions, cached, requests, holds>>

SessionMoves(s, from, to) ==
  /\ sessions[s].st \in from /\ sessions' = [sessions EXCEPT ![s].st = to]
  /\ UNCHANGED <<trouble, made, active, attached, allowed, cached, requests, bound, holds>>

Cancelled(s) == SessionMoves(s, {"open"}, "closed")

Expires(s) == SessionMoves(s, {"open", "closed"}, "expired")

(* A session that has not expired is "verifying", and then "verified" or   *)
(* "failed", whatever it was.                                              *)
VerifyConnectivity(s) == SessionMoves(s, {"closed"}, "open")

CertNext ==
  \/ \E r \in Requests : \/ \E s \in CertSessions : Requested(r, s)
                         \/ AnswersCached(r) \/ Lists(r) \/ Deactivates(r) \/ Creates(r) \/ Attaches(r)
                         \/ Allows(r) \/ Caches(r) \/ Commits(r) \/ RollsBack(r)
                         \/ \E c \in Certificates : Detaches(r, c)
  \/ \E s \in CertSessions : \/ BindDevice(s) \/ RegisterOwn(s)
                             \/ Cancelled(s) \/ Expires(s) \/ VerifyConnectivity(s)
  \/ UnbindDevice

CertSpec == CertInit /\ [][CertNext]_certVars

-----------------------------------------------------------------------------
(* Properties.                                                             *)

(* Type invariant.                                                         *)
CertTypeOK ==
  /\ trouble \in Troubles /\ made \in 0..CertCount
  /\ {active, attached, allowed} \subseteq SUBSET (1..made)
  /\ sessions \in [CertSessions -> [st : {"open", "closed", "expired"}, arn : 0..made]]
  /\ cached \in [CertSessions -> 0..made]
  /\ requests \in [Requests -> [at : {"none", "asks", "cleans", "detached", "created", "attached",
       "allowed", "cached"}, s : CertSessions \cup {0}, old : SUBSET (1..made), cert : 0..made]]
  /\ bound \in [is : BOOLEAN, s : CertSessions \cup {0}, arn : 0..made]
  /\ holds \in [s : CertSessions \cup {0}, cert : 0..made]

(* Whatever failed before, and however often the device asks again in its  *)
(* newest session (service.py:66-80), the credentials it is answered with  *)
(* work when they are given; and they alone do, if nothing fails: "old     *)
(* certificates from previous provisioning attempts are cleaned up".  Only *)
(* a device that has been unbound is answered with what unbinding has      *)
(* deactivated: verify_connectivity (service.py:141-198) opens the session *)
(* it was bound in once more, and the credentials are still cached.        *)
AnswersWork ==
  [][ \A c \in Certificates :
        holds' # holds /\ holds'.cert = c /\ "overlap" \notin trouble /\ (bound.is \/ bound.arn # c) =>
          Works(c) /\ ("fail" \in trouble \/ attached \cap active = {c}) ]_certVars

CutOff == bound.is /\ ~bound'.is /\ bound.s = holds.s => active' = {}

(* Once the device is unbound no certificate it was ever issued is active, *)
(* if it was bound through the session it got its certificate in           *)
(* (service.py:499-505): the arn has come from the session to the device,  *)
(* and every certificate before it has been deactivated.                   *)
UnbindCutsOff == [][trouble = {} => CutOff]_certVars

(* "Deactivate IoT certificate" (service.py:499): also for a device that   *)
(* was set up again while it was bound.                                    *)
UnbindAlwaysCutsOff == [][CutOff]_certVars
=============================================================================
