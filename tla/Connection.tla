----------------------------- MODULE Connection -----------------------------
(***************************************************************************)
(* The live connection of the plugin to its active server: main.ts makes a *)
(* RoomSyncSocket whenever the active server, its login or the hosted      *)
(* relay changes, and syncWsClient.ts keeps each of them connected, with a *)
(* health probe, a hello that must be answered, a reconnect timer and a    *)
(* classifier for failures of pinned TLS.  Nearly every step awaits, and   *)
(* the socket, the login or the whole connection may be another one when   *)
(* the await ends; generations and identity checks are to tell.            *)
(***************************************************************************)
EXTENDS Naturals, FiniteSets

CONSTANTS
    Socks,       \* RoomSyncSocket objects that may exist together
    MaxConnects, \* bound on the connections main.ts starts of its own accord
    MaxFaults,   \* bound on losses, outages, slow answers and failures
    None

VARIABLES
    dev,     \* the relay: up, not stopped by its host, its identity rotated; the device's token, revoked
    saved,   \* the saved connection: its token, whether it is the active server
    main,    \* syncSocket, syncConnectGeneration, crdtSessionManager, crdtRetirementFailed
    calls,   \* runs of connectSyncSocket between two awaits
    sock,    \* each RoomSyncSocket
    mig,     \* migrateConnection under way
    waits,   \* the socket a CRDT request was sent on and not answered yet
    count,   \* connections and faults so far
    falsely  \* the server was given up while the relay still accepted the device

vars == <<dev, saved, main, calls, sock, mig, waits, count, falsely>>

(***************************************************************************)
(* A RoomSyncSocket: closedByUser, the step open() waits in, its WebSocket *)
(* and what is on the way to it, and the timer.  An open() of an older     *)
(* generation does nothing any more and is left out.                       *)
(***************************************************************************)
NoWs == [st |-> None, acked |-> FALSE, msg |-> None, mute |-> FALSE, token |-> 0]
NoSock == [closed |-> TRUE, step |-> None, ws |-> NoWs, timer |-> FALSE, handling |-> FALSE, state |-> "offline"]

Init ==
    /\ dev = [up |-> TRUE, token |-> 1, revoked |-> FALSE, rotated |-> FALSE, hosted |-> TRUE]
    /\ saved = [token |-> 1, active |-> TRUE]
    /\ main = [sync |-> None, gen |-> 0, manager |-> 0, failed |-> FALSE]
    /\ calls = {}
    /\ sock = [s \in Socks |-> NoSock]
    /\ mig = None
    /\ waits = None
    /\ count = [connects |-> 0, faults |-> 0]
    /\ falsely = FALSE

Accepted(token) == token = dev.token /\ ~dev.revoked
Fault == count.faults < MaxFaults /\ count' = [count EXCEPT !.faults = @ + 1]

\* Mutant: only the state tells the CRDT lane, and some paths leave the state alone.
ToldMutState(s) == waits' = waits

\* deps.crdt.onDisconnected: every request that waits is failed.
Told(s) == waits' = None

(***************************************************************************)
(* RoomSyncSocket                                                          *)
(***************************************************************************)
\* open(): a new generation, the previous WebSocket dropped, the health probe sent.
Opened(k) == [k EXCEPT !.step = "probe", !.ws = NoWs]

\* Mutant: disconnect leaves the reconnect timer running.
DisconnectedMutTimer(k) == [NoSock EXCEPT !.handling = k.handling, !.timer = k.timer]

\* disconnect()
Disconnected(k) == [NoSock EXCEPT !.handling = k.handling]

\* scheduleReconnect()
Scheduled(k) == [k EXCEPT !.timer = TRUE]

Current(s) == ~sock[s].closed

ProbeOk(s) ==
    /\ Current(s) /\ sock[s].step = "probe"
    /\ dev.up /\ ~dev.rotated
    /\ sock' = [sock EXCEPT ![s].step = None, ![s].ws = [NoWs EXCEPT !.st = "connecting"]]
    /\ UNCHANGED <<dev, saved, main, calls, mig, waits, count, falsely>>

\* The probe fails: a pinned connection asks what to do, any other tries again later.
ProbeFails(s) ==
    /\ Current(s) /\ sock[s].step = "probe"
    /\ ~dev.up \/ dev.rotated
    /\ \/ sock' = [sock EXCEPT ![s].step = "decide"]
       \/ ~dev.rotated /\ sock' = [sock EXCEPT ![s] = Scheduled([@ EXCEPT !.step = None])]
    /\ UNCHANGED <<dev, saved, main, calls, mig, waits, count, falsely>>

Stopped(k) == [k EXCEPT !.closed = TRUE, !.step = None, !.ws = NoWs, !.state = "offline"]

(***************************************************************************)
(* handlePinnedTransportFailure: "retry" once a rotation was followed,     *)
(* "normal" when the relay does not answer or presents the saved identity, *)
(* "stop" at an identity no chain leads to.  SavedServer has the details.  *)
(***************************************************************************)
Decided(s, k) ==
    \/ /\ dev.up /\ dev.rotated
       /\ dev' = [dev EXCEPT !.rotated = FALSE]
       /\ sock' = [sock EXCEPT ![s] = Opened(k)]
       /\ UNCHANGED <<waits, count>>
    \/ /\ ~(dev.up /\ dev.rotated)
       /\ sock' = [sock EXCEPT ![s] = Scheduled(k)]
       /\ UNCHANGED <<dev, waits, count>>
    \/ /\ dev.up /\ dev.rotated /\ Fault
       /\ sock' = [sock EXCEPT ![s] = Stopped(k)]
       /\ Told(s)
       /\ UNCHANGED dev

Decide(s) ==
    /\ Current(s) /\ sock[s].step = "decide"
    /\ Decided(s, [sock[s] EXCEPT !.step = None])
    /\ UNCHANGED <<saved, main, calls, mig, falsely>>

\* The reconnect timer: disconnect() and open() clear it.
TimerFires(s) ==
    /\ sock[s].timer
    /\ sock' = [sock EXCEPT ![s] = Opened([@ EXCEPT !.timer = FALSE])]
    /\ UNCHANGED <<dev, saved, main, calls, mig, waits, count, falsely>>

\* The WebSocket opens and says hello, with the token saved at this moment.
WsOpens(s) ==
    /\ Current(s) /\ sock[s].ws.st = "connecting" /\ dev.up
    /\ sock' = [sock EXCEPT ![s].ws.st = "open", ![s].ws.token = saved.token]
    /\ UNCHANGED <<dev, saved, main, calls, mig, waits, count, falsely>>

(***************************************************************************)
(* The relay answers the hello, or is too busy ever to.                    *)
(***************************************************************************)
HelloAnswered(s) ==
    /\ Current(s) /\ sock[s].ws.st = "open" /\ ~sock[s].ws.acked /\ sock[s].ws.msg = None /\ ~sock[s].ws.mute /\ dev.up
    /\ sock' = [sock EXCEPT ![s].ws.msg = IF Accepted(sock[s].ws.token) THEN "hello_ok" ELSE "hello_error"]
    /\ UNCHANGED <<dev, saved, main, calls, mig, waits, count, falsely>>

HelloSwallowed(s) ==
    /\ Current(s) /\ sock[s].ws.st = "open" /\ ~sock[s].ws.acked /\ sock[s].ws.msg = None /\ ~sock[s].ws.mute
    /\ Fault
    /\ sock' = [sock EXCEPT ![s].ws.mute = TRUE]
    /\ UNCHANGED <<dev, saved, main, calls, mig, waits, falsely>>

HelloOk(s) ==
    /\ Current(s) /\ sock[s].ws.msg = "hello_ok"
    /\ sock' = [sock EXCEPT ![s].ws.acked = TRUE, ![s].ws.msg = None, ![s].state = "connected"]
    /\ UNCHANGED <<dev, saved, main, calls, mig, waits, count, falsely>>

\* hello_error and revoked: the server is no longer the active one, the socket stays closed.
GivenUp(s) ==
    /\ Current(s) /\ sock[s].ws.msg \in {"hello_error", "revoked"}
    /\ sock' = [sock EXCEPT ![s] = Disconnected(@)]
    /\ saved' = [saved EXCEPT !.active = FALSE]
    /\ falsely' = (falsely \/ ~dev.revoked)
    /\ Told(s)
    /\ UNCHANGED <<dev, main, calls, mig, count>>

(***************************************************************************)
(* The close event: what is left of the WebSocket is forgotten and every   *)
(* waiting request told.  Codes 4001 and 4002 are for whoever changed the  *)
(* credentials; during a classification that decides; else it reconnects.  *)
(***************************************************************************)
AfterClose(k, code) ==
    IF code = "rotated" THEN [k EXCEPT !.ws = NoWs, !.closed = TRUE, !.state = "offline"]
    ELSE Scheduled([k EXCEPT !.ws = NoWs, !.state = "connecting"])

Closes(s, code) ==
    /\ sock' = [sock EXCEPT ![s] = AfterClose(@, code)]
    /\ Told(s)
    /\ UNCHANGED <<dev, saved, main, calls, mig, falsely>>

\* The network, the relay or an outage ends it.
WsLost(s) ==
    /\ Current(s) /\ sock[s].ws.st # None /\ sock[s].ws.msg # "close_4001"
    /\ IF dev.up THEN Fault ELSE UNCHANGED count
    /\ Closes(s, "lost")

\* closeDeviceConnections reached it.
WsRotated(s) ==
    /\ Current(s) /\ sock[s].ws.msg = "close_4001"
    /\ UNCHANGED count
    /\ Closes(s, "rotated")

\* Mutant: a hello that is never answered holds the connection for good.
AckTimedOutMutNever(s) == FALSE

AckTimedOut(s) == sock[s].ws.st = "open" /\ ~sock[s].ws.acked /\ sock[s].ws.msg # "close_4001"

\* helloAckTimer, at once for a hello that got lost, or before a slow answer.
AckTimeout(s) ==
    /\ Current(s) /\ AckTimedOut(s)
    /\ IF sock[s].ws.mute THEN UNCHANGED count ELSE Fault
    /\ Closes(s, "lost")

(***************************************************************************)
(* A failing pinned WebSocket emits error and then close, which leaves the *)
(* next step to the classifier; the state is not touched until it answers. *)
(***************************************************************************)
WsFails(s) ==
    /\ Current(s) /\ sock[s].ws.st = "connecting" /\ ~sock[s].handling
    /\ ~dev.up \/ dev.rotated
    /\ sock' = [sock EXCEPT ![s].ws = NoWs, ![s].handling = TRUE]
    /\ Told(s)
    /\ UNCHANGED <<dev, saved, main, calls, mig, count, falsely>>

\* A socket disconnected meanwhile, or one opened again, leaves the answer alone.
Classified(s) ==
    /\ sock[s].handling
    /\ LET k == [sock[s] EXCEPT !.handling = FALSE] IN
       IF Current(s) /\ k.step = None /\ k.ws = NoWs /\ ~k.timer
       THEN Decided(s, k)
       ELSE sock' = [sock EXCEPT ![s] = k] /\ UNCHANGED <<dev, waits, count>>
    /\ UNCHANGED <<saved, main, calls, mig, falsely>>

\* A CRDT request and its answer.
Asks(s) ==
    /\ Current(s) /\ sock[s].ws.acked /\ waits = None
    /\ waits' = s
    /\ UNCHANGED <<dev, saved, main, calls, sock, mig, count, falsely>>

Answers ==
    /\ waits # None /\ sock[waits].ws.acked /\ dev.up
    /\ waits' = None
    /\ UNCHANGED <<dev, saved, main, calls, sock, mig, count, falsely>>

(***************************************************************************)
(* main.ts                                                                 *)
(***************************************************************************)
\* disconnectSyncSocket
DropsSync == IF main.sync = None THEN sock ELSE [sock EXCEPT ![main.sync] = Disconnected(@)]
ToldOf == IF main.sync # None /\ sock[main.sync].state # "offline" THEN waits' = None ELSE UNCHANGED waits

(***************************************************************************)
(* connectSyncSocket.  A call either keeps the CRDT sessions, and drops    *)
(* the old socket at once, or retires them first; a manager is known by    *)
(* the call that made it.                                                  *)
(***************************************************************************)
Keeps(preserve) == preserve /\ ~main.failed /\ saved.active /\ main.manager # 0

Call(at, keep) == [gen |-> main.gen + 1, at |-> at, active |-> saved.active, keep |-> keep, old |-> main.manager]

Connects(preserve) ==
    IF Keeps(preserve)
    THEN /\ calls' = calls \cup {Call("scanning", TRUE)}
         /\ main' = [main EXCEPT !.gen = @ + 1, !.sync = None]
         /\ sock' = DropsSync /\ ToldOf
    ELSE /\ calls' = calls \cup {Call("retiring", FALSE)}
         /\ main' = [main EXCEPT !.gen = @ + 1]
         /\ UNCHANGED <<sock, waits>>

\* A server joined, activated, moved: whatever calls connectSyncSocket.
Reconnect ==
    /\ count.connects < MaxConnects
    /\ count' = [count EXCEPT !.connects = @ + 1]
    /\ Connects(FALSE)
    /\ UNCHANGED <<dev, saved, mig, falsely>>

\* startEmbeddedServer, when the active server is this device's own.
StartHosting ==
    /\ count.connects < MaxConnects
    /\ count' = [count EXCEPT !.connects = @ + 1]
    /\ dev' = [dev EXCEPT !.up = TRUE, !.hosted = TRUE]
    /\ Connects(TRUE)
    /\ UNCHANGED <<saved, mig, falsely>>

\* stopEmbeddedServer
StopHosting ==
    /\ dev.up /\ dev.hosted /\ count.connects < MaxConnects
    /\ count' = [count EXCEPT !.connects = @ + 1]
    /\ dev' = [dev EXCEPT !.up = FALSE, !.hosted = FALSE]
    /\ sock' = DropsSync /\ ToldOf
    /\ main' = [main EXCEPT !.sync = None]
    /\ UNCHANGED <<saved, calls, mig, falsely>>

\* Mutant: the call goes on after the await whatever has been called since.
StillWantedMutAlways(c) == TRUE

\* generation === this.syncConnectGeneration and the active server is the one it began with
StillWanted(c) == c.gen = main.gen /\ c.active = saved.active

\* The sessions are retired; a call still wanted drops the old socket, and without a server that is all.
Retired(c) ==
    /\ c \in calls /\ c.at = "retiring"
    /\ LET m == IF main.manager = c.old THEN [main EXCEPT !.manager = 0, !.failed = FALSE] ELSE main IN
       IF StillWanted(c)
       THEN /\ sock' = DropsSync /\ ToldOf
            /\ main' = [m EXCEPT !.sync = None]
            /\ calls' = (calls \ {c}) \cup IF c.active THEN {[c EXCEPT !.at = "scanning"]} ELSE {}
       ELSE /\ main' = m
            /\ calls' = calls \ {c}
            /\ UNCHANGED <<sock, waits>>
    /\ UNCHANGED <<dev, saved, mig, count, falsely>>

\* They cannot be saved: local sync is paused.
RetireFails(c) ==
    /\ c \in calls /\ c.at = "retiring" /\ c.old # 0
    /\ Fault
    /\ calls' = calls \ {c}
    /\ sock' = DropsSync /\ ToldOf
    /\ main' = [main EXCEPT !.sync = None, !.failed = TRUE]
    /\ UNCHANGED <<dev, saved, mig, falsely>>

\* After scanMountedRoomLocalCollisions a call that retired the sessions makes a manager, and the new socket connects.
Made(c, s) ==
    /\ c \in calls /\ c.at = "scanning"
    /\ sock[s] = NoSock /\ \A t \in Socks : sock[t] = NoSock => s <= t
    /\ calls' = calls \ {c}
    /\ LET manager == IF c.keep THEN main.manager ELSE c.gen IN
       IF ~StillWanted(c)
       THEN UNCHANGED <<sock, main>>
       ELSE IF manager = 0 \/ ~dev.hosted
       THEN main' = [main EXCEPT !.manager = manager] /\ UNCHANGED sock
       ELSE /\ sock' = [sock EXCEPT ![s] = [Opened(NoSock) EXCEPT !.closed = FALSE, !.state = "connecting"]]
            /\ main' = [main EXCEPT !.sync = s, !.manager = manager]
    /\ UNCHANGED <<dev, saved, mig, waits, count, falsely>>

(***************************************************************************)
(* migrateConnection: the relay exchanges the token and closes the         *)
(* device's sockets; the plugin saves the new one and connects again.      *)
(***************************************************************************)
Migrates ==
    /\ mig = None /\ dev.token = 1 /\ saved.token = 1 /\ dev.up /\ Accepted(1)
    /\ dev' = [dev EXCEPT !.token = 2]
    /\ sock' = [s \in Socks |-> IF Current(s) /\ sock[s].ws.acked THEN [sock[s] EXCEPT !.ws.msg = "close_4001"] ELSE sock[s]]
    /\ mig' = "answered"
    /\ UNCHANGED <<saved, main, calls, waits, count, falsely>>

MigratePersists ==
    /\ mig = "answered"
    /\ saved' = [saved EXCEPT !.token = 2]
    /\ mig' = "done"
    /\ IF saved.active THEN Connects(FALSE) ELSE UNCHANGED <<main, calls, sock, waits>>
    /\ UNCHANGED <<dev, count, falsely>>

(***************************************************************************)
(* The relay's side.                                                       *)
(***************************************************************************)
GoesDown == dev.up /\ Fault /\ dev' = [dev EXCEPT !.up = FALSE] /\ UNCHANGED <<saved, main, calls, sock, mig, waits, falsely>>
ComesUp == ~dev.up /\ dev.hosted /\ dev' = [dev EXCEPT !.up = TRUE] /\ UNCHANGED <<saved, main, calls, sock, mig, waits, count, falsely>>

\* An identity rotation restarts the TLS listener and closes its sockets.
Rotates ==
    /\ dev.up /\ ~dev.rotated /\ Fault
    /\ dev' = [dev EXCEPT !.rotated = TRUE]
    /\ sock' = [s \in Socks |-> IF Current(s) /\ sock[s].ws.st = "open" THEN AfterClose(sock[s], "lost") ELSE sock[s]]
    /\ waits' = None
    /\ UNCHANGED <<saved, main, calls, mig, falsely>>

Revokes ==
    /\ ~dev.revoked /\ Fault
    /\ dev' = [dev EXCEPT !.revoked = TRUE]
    /\ sock' = [s \in Socks |-> IF Current(s) /\ sock[s].ws.acked THEN [sock[s] EXCEPT !.ws.msg = "revoked"] ELSE sock[s]]
    /\ UNCHANGED <<saved, main, calls, mig, waits, falsely>>

SockStep(s) ==
    \/ ProbeOk(s) \/ ProbeFails(s) \/ Decide(s) \/ TimerFires(s) \/ WsOpens(s) \/ WsFails(s) \/ Classified(s)
    \/ HelloAnswered(s) \/ HelloOk(s) \/ GivenUp(s) \/ WsRotated(s)
    \/ AckTimeout(s) \/ WsLost(s)

MainStep == \E c \in calls : Retired(c) \/ RetireFails(c) \/ \E s \in Socks : Made(c, s)

Next ==
    \/ \E s \in Socks : SockStep(s) \/ HelloSwallowed(s) \/ Asks(s)
    \/ Answers
    \/ Reconnect \/ StartHosting \/ StopHosting
    \/ MainStep
    \/ Migrates \/ MigratePersists
    \/ GoesDown \/ ComesUp \/ Rotates \/ Revokes

Spec == Init /\ [][Next]_vars

\* Timers fire, awaits end, an outage ends, the relay answers what it receives.
FairSpec ==
    Spec /\ WF_vars(\E s \in Socks : SockStep(s)) /\ WF_vars(MainStep) /\ WF_vars(MigratePersists) /\ WF_vars(ComesUp)

(***************************************************************************)
(* Properties                                                              *)
(***************************************************************************)
TypeOK ==
    /\ main.sync \in Socks \cup {None}
    /\ waits \in Socks \cup {None}
    /\ \A s \in Socks : sock[s].state \in {"offline", "connecting", "connected"} /\ sock[s].ws.token \in 0..2

(***************************************************************************)
(* However many connects and disconnects overlap, one socket is alive, the *)
(* one main.ts holds: a second would apply every remote change twice and   *)
(* outlive the server it belongs to.                                       *)
(***************************************************************************)
OneSocket == \A s \in Socks : s # main.sync => sock[s].closed /\ sock[s].ws = NoWs /\ ~sock[s].timer /\ sock[s].step = None

(***************************************************************************)
(* No CRDT request waits for an answer from a WebSocket that is gone: each *)
(* way of losing one tells the CRDT lane (syncWsClient.ts, close handler). *)
(***************************************************************************)
WaitersAreTold == waits # None => sock[waits].ws.acked /\ ~sock[waits].closed

(***************************************************************************)
(* A socket that has not been closed on purpose is, once outages and       *)
(* failures end, connected for good: no combination of probe, hello timer, *)
(* reconnect timer and classifier leaves it with nothing under way.        *)
(***************************************************************************)
Reconnects ==
    <>[](main.sync # None /\ ~sock[main.sync].closed => sock[main.sync].ws.acked /\ sock[main.sync].state = "connected")

(***************************************************************************)
(* Checked and violated: "The workflow that caused the rotation owns the   *)
(* next connection; retrying this socket would authenticate with the       *)
(* now-invalid token and falsely classify the device as revoked"           *)
(* (syncWsClient.ts, close handler).  A socket that was reconnecting while *)
(* the relay exchanged the token says hello with the old one.              *)
(***************************************************************************)
NeverFalselyRevoked == ~falsely

(***************************************************************************)
(* Checked and violated: Start keeps "the existing Y.Docs and editor       *)
(* bindings alive" (main.ts, startEmbeddedServer).  A call that retires    *)
(* the sessions may end after a newer one that keeps them: the socket is   *)
(* then connected without a session manager, or there is no socket.        *)
(***************************************************************************)
ConnectedHasSessions == calls = {} /\ main.sync # None => main.manager # 0

=============================================================================
