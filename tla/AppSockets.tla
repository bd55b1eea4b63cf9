----------------------------- MODULE AppSockets -----------------------------
(***************************************************************************)
(* The sockets of a user's Apps (api/modules/ws/manager.py, router.py).    *)
(* Each pod keeps its own registry, one socket per App; what is for an App *)
(* on another pod, or for all of them, goes through Redis Pub/Sub, which   *)
(* every pod's listener reads once it has subscribed.  A send awaits, and  *)
(* removes the App from the registry if it fails.                          *)
(***************************************************************************)
EXTENDS Integers, Sequences, FiniteSets

CONSTANTS
  Pods,
  Apps,         \* the Apps of one user, by their key
  ConnCount,    \* bounds the connections
  NoteCount     \* bounds the messages

ASSUME SocketAssumption == {ConnCount, NoteCount} \subseteq Nat /\ Apps # {} /\ Pods # {}

VARIABLES
  conns,     \* the sockets, and their handlers
  registry,  \* _connections of each pod, 0 where the App is not in it
  listener,  \* _listener_task of each pod
  inbox,     \* what Redis has sent it
  fan,       \* the message it is sending, to whom it still has to
  locals,    \* sends of broadcast under way
  notes,     \* messages so far
  due        \* of each message, the sockets it was published for

appVars == <<conns, registry, listener, inbox, fan, locals, notes, due>>

-----------------------------------------------------------------------------
Conns == 1..ConnCount
Notes == 1..NoteCount

AnApp == CHOOSE a \in Apps : TRUE
APod == CHOOSE p \in Pods : TRUE

(* at: "lost" once the App is gone, "over" once the handler knows; alone:  *)
(* nothing of an earlier socket of the App was left on the pod.            *)
NoConn == [at |-> "none", app |-> AnApp, pod |-> APod, alone |-> FALSE, roasts |-> FALSE, got |-> {}]
NoFan == [note |-> 0, left |-> {}]

SocketInit ==
  /\ conns = [c \in Conns |-> NoConn] /\ registry = [p \in Pods |-> [a \in Apps |-> 0]]
  /\ listener = [p \in Pods |-> "none"] /\ inbox = [p \in Pods |-> <<>>]
  /\ fan = [p \in Pods |-> NoFan] /\ locals = {} /\ notes = 0
  /\ due = [n \in Notes |-> {}]

-----------------------------------------------------------------------------
(* The handler of a socket: websocket_app.                                 *)

Of(a, p) == {c \in Conns : conns[c].at # "none" /\ conns[c].app = a /\ conns[c].pod = p}

Alone(a, p) ==
  /\ \A c \in Of(a, p) : conns[c].at = "over"
  /\ fan[p].left \cap Of(a, p) = {} /\ \A s \in locals : s.conn \notin Of(a, p)

Connect(c, a, p) ==
  /\ conns[c].at = "none" /\ \A d \in 1..(c - 1) : conns[d].at # "none"
  /\ conns' = [conns EXCEPT ![c] = [NoConn EXCEPT !.at = "open", !.app = a, !.pod = p,
                                                  !.alone = Alone(a, p)]]
  /\ registry' = [registry EXCEPT ![p][a] = c]
  /\ listener' = [listener EXCEPT ![p] = IF @ = "none" THEN "starting" ELSE @]
  /\ UNCHANGED <<inbox, fan, locals, notes, due>>

AppGoes(c) ==
  /\ conns[c].at = "open" /\ conns' = [conns EXCEPT ![c].at = "lost"]
  /\ UNCHANGED <<registry, listener, inbox, fan, locals, notes, due>>

(* start_roast: the handler waits for the agent, and reads nothing. *)
StartsRoast(c) ==
  /\ conns[c].at = "open" /\ conns' = [conns EXCEPT ![c].roasts = ~@]
  /\ UNCHANGED <<registry, listener, inbox, fan, locals, notes, due>>

(* mutant: every App of the user is removed *)
AllPopped(reg, a) == [b \in Apps |-> 0]

Popped(reg, a) == [reg EXCEPT ![a] = 0]

(* The read, or the send of the roast's answer, finds the App gone. *)
HandlerEnds(c) == LET p == conns[c].pod IN
  /\ conns[c].at = "lost"
  /\ conns' = [conns EXCEPT ![c].at = "over", ![c].roasts = FALSE]
  /\ registry' = [registry EXCEPT ![p] = Popped(@, conns[c].app)]
  /\ UNCHANGED <<listener, inbox, fan, locals, notes, due>>

-----------------------------------------------------------------------------
(* Messages.                                                               *)

(* What a send to c comes to: TRUE if it does not fail. *)
Sends(c) == IF conns[c].at = "open" THEN {TRUE}
            ELSE IF conns[c].at = "lost" THEN BOOLEAN ELSE {FALSE}

Told(c, note) == [conns EXCEPT ![c].got = IF conns[c].at = "open" THEN @ \cup {note} ELSE @]

(* A message for one App, or all of them, told by the set of Apps.         *)
Publish(note, to) ==
  /\ inbox' = [p \in Pods |-> IF listener[p] = "listening"
                              THEN Append(inbox[p], [note |-> note, to |-> to]) ELSE inbox[p]]
  /\ due' = [due EXCEPT ![note] = {registry[p][a] : p \in {q \in Pods : listener[q] = "listening"},
                                                    a \in to} \ {0}]

BroadcastToUser ==
  /\ notes < NoteCount /\ notes' = notes + 1 /\ Publish(notes + 1, Apps)
  /\ UNCHANGED <<conns, registry, listener, fan, locals>>

(* broadcast: to the pod's own socket, and through Redis if it has none or *)
(* the send fails.                                                         *)
Broadcast(p, a) ==
  /\ notes < NoteCount /\ notes' = notes + 1
  /\ IF registry[p][a] # 0
     THEN /\ locals' = locals \cup {[conn |-> registry[p][a], note |-> notes + 1]}
          /\ UNCHANGED <<inbox, due>>
     ELSE Publish(notes + 1, {a}) /\ UNCHANGED locals
  /\ UNCHANGED <<conns, registry, listener, fan>>

LocalSent(s) == LET c == conns[s.conn] IN
  /\ s \in locals /\ locals' = locals \ {s}
  /\ \E ok \in Sends(s.conn) :
       /\ conns' = IF ok THEN Told(s.conn, s.note) ELSE conns
       /\ registry' = IF ok THEN registry ELSE [registry EXCEPT ![c.pod] = Popped(@, c.app)]
       /\ IF ok THEN UNCHANGED <<inbox, due>> ELSE Publish(s.note, {c.app})
  /\ UNCHANGED <<listener, fan, notes>>

-----------------------------------------------------------------------------
(* The listener of a pod.                                                  *)

Subscribes(p) ==
  /\ listener[p] \in {"starting", "crashed"} /\ listener' = [listener EXCEPT ![p] = "listening"]
  /\ UNCHANGED <<conns, registry, inbox, fan, locals, notes, due>>

(* The connection to Redis is lost, with what it had brought. *)
Crashes(p) ==
  /\ listener[p] = "listening" /\ fan[p] = NoFan /\ listener' = [listener EXCEPT ![p] = "crashed"]
  /\ inbox' = [inbox EXCEPT ![p] = <<>>]
  /\ due' = [n \in Notes |-> {c \in due[n] : conns[c].pod # p \/ n \in conns[c].got}]
  /\ UNCHANGED <<conns, registry, fan, locals, notes>>

(* The sockets are taken when the message is, and sent to one by one.      *)
Takes(p) ==
  /\ listener[p] = "listening" /\ fan[p] = NoFan /\ inbox[p] # <<>>
  /\ LET m == Head(inbox[p])
         to == {registry[p][a] : a \in m.to} \ {0}
     IN fan' = [fan EXCEPT ![p] = IF to = {} THEN NoFan ELSE [note |-> m.note, left |-> to]]
  /\ inbox' = [inbox EXCEPT ![p] = Tail(@)]
  /\ UNCHANGED <<conns, registry, listener, locals, notes, due>>

(* mutant: a send that fails ends the loop *)
LeftIfSent(left, c, ok) == IF ok THEN left \ {c} ELSE {}

LeftAfter(left, c, ok) == left \ {c}

FanSends(p, c) ==
  /\ c \in fan[p].left
  /\ \E ok \in Sends(c) :
       LET left == LeftAfter(fan[p].left, c, ok) IN
       /\ fan' = [fan EXCEPT ![p] = IF left = {} THEN NoFan ELSE [fan[p] EXCEPT !.left = left]]
       /\ conns' = IF ok THEN Told(c, fan[p].note) ELSE conns
       /\ registry' = IF ok THEN registry ELSE [registry EXCEPT ![p] = Popped(@, conns[c].app)]
  /\ UNCHANGED <<listener, inbox, locals, notes, due>>

SocketNext ==
  \/ \E c \in Conns : AppGoes(c) \/ StartsRoast(c) \/ HandlerEnds(c)
  \/ \E c \in Conns, a \in Apps, p \in Pods : Connect(c, a, p)
  \/ BroadcastToUser \/ (\E s \in locals : LocalSent(s))
  \/ \E p \in Pods, a \in Apps : Broadcast(p, a)
  \/ \E p \in Pods : Subscribes(p) \/ Crashes(p) \/ Takes(p) \/ \E c \in Conns : FanSends(p, c)

SocketSpec == SocketInit /\ [][SocketNext]_appVars

-----------------------------------------------------------------------------
(* Properties.                                                             *)

SocketStates == [at : {"none", "open", "lost", "over"}, app : Apps, pod : Pods,
                 alone : BOOLEAN, roasts : BOOLEAN, got : SUBSET Notes]

(* Type invariant.                                                         *)
SocketTypeOK ==
  /\ conns \in [Conns -> SocketStates]
  /\ registry \in [Pods -> [Apps -> Conns \cup {0}]]
  /\ listener \in [Pods -> {"none", "starting", "listening", "crashed"}]
  /\ inbox \in [Pods -> Seq([note : Notes, to : SUBSET Apps])]
  /\ fan \in [Pods -> {NoFan} \cup [note : Notes, left : SUBSET Conns]]
  /\ locals \subseteq [conn : Conns, note : Notes] /\ notes \in 0..NoteCount
  /\ due \in [Notes -> SUBSET Conns]

Newest(c) == \A d \in Of(conns[c].app, conns[c].pod) : d <= c

(* An App that came when nothing of its earlier socket was left on the pod *)
(* stays in the registry while it is connected, whatever becomes of the    *)
(* other Apps and of the sends under way.                                  *)
OpenIsReachable == \A c \in Conns :
  conns[c].at = "open" /\ conns[c].alone /\ Newest(c) =>
    registry[conns[c].pod][conns[c].app] = c

(* A message that has gone through Redis has reached every socket that was *)
(* in the registry of a listening pod and still is: a socket that fails    *)
(* does not keep it from the others.                                       *)
PublishedArrives == \A p \in Pods : inbox[p] = <<>> /\ fan[p] = NoFan =>
  \A n \in Notes : \A c \in due[n] :
    conns[c].at = "open" /\ conns[c].pod = p /\ registry[p][conns[c].app] = c => n \in conns[c].got

(* "All real-time events flow through this single connection"              *)
(* (router.py:1-6): also after the App has reconnected.                    *)
ReconnectIsReachable == \A c \in Conns :
  conns[c].at = "open" /\ Newest(c) => registry[conns[c].pod][conns[c].app] = c
=============================================================================
