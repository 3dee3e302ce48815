----------------------------- MODULE SavedServer -----------------------------
(***************************************************************************)
(* One saved connection of the plugin (ServerConnectionManager.ts) and the *)
(* server it belongs to: the device token, the pinned identity and the     *)
(* history of applied rotations on the one side, the device's row, the     *)
(* security state and the identity presented on the other.  Moving to TLS, *)
(* accepting an invite, changing the address and following a rotation each *)
(* await an answer and then replace the saved connection, several at once, *)
(* while the owner migrates, rotates and enforces.                         *)
(*                                                                         *)
(* Identities are numbered in the order of their rotations: the record of  *)
(* rotation i leads from identity i - 1 to identity i and is signed by the *)
(* former.  HostSecurity has the host's side of a rotation.                *)
(***************************************************************************)
EXTENDS Naturals, Sequences, FiniteSets

CONSTANTS
    Recs,       \* failed requests that may be looking for a rotation together
    MaxIds,     \* bound on the identities of the server
    MaxTokens,  \* bound on the tokens issued to the device
    MaxPending, \* bound on the requests under way together (one recovery always may)
    MaxFaults,  \* bound on lost answers and failed saves of the settings
    None

VARIABLES
    server,   \* security state, migration mode, identity presented, address
    device,   \* the device's row: the token it accepts, its token_security
    conn,     \* the saved connection, None before the device joins
    mig,      \* migrateConnection under way
    acc,      \* acceptInviteForServer under way
    move,     \* updateServerAddress or findServerOnLan under way
    req,      \* another request of the plugin under way
    rec,      \* each handlePinnedConnectionFailure under way
    expired,  \* rotation records past their 30 days
    tlsTokens,\* tokens issued over TLS
    faults,
    lost,     \* a rotated token never reached the settings
    raced     \* an accepted invite replaced a connection that had changed meanwhile

vars == <<server, device, conn, mig, acc, move, req, rec, expired, tlsTokens, faults, lost, raced>>

NoOp == [at |-> None]
Idle(op) == op.at = None
Recovering == {r \in Recs : ~Idle(rec[r])}
Room == Cardinality(Recovering) + Cardinality({i \in 1..4 : ~Idle(<<mig, acc, move, req>>[i])}) < MaxPending
Begins(op) == Idle(op) /\ Room

Init ==
    /\ \/ server = [state |-> "plain_legacy", strict |-> FALSE, id |-> 1, addr |-> 1]
       \/ server = [state |-> "pinned_tls", strict |-> FALSE, id |-> 1, addr |-> 1]
    /\ device = [token |-> 0, security |-> "plain"]
    /\ conn = None
    /\ mig = NoOp /\ acc = NoOp /\ move = NoOp /\ req = NoOp
    /\ rec = [r \in Recs |-> NoOp]
    /\ expired = {} /\ tlsTokens = {}
    /\ faults = 0 /\ lost = FALSE /\ raced = FALSE

PlainServed == server.state \in {"plain_legacy", "tls_migrating"}
TlsServed == server.state # "plain_legacy"

\* A request with this connection's address, transport and pin reaches the server.
Reaches(c) ==
    /\ c.addr = server.addr
    /\ IF c.https THEN TlsServed /\ c.pin = server.id ELSE PlainServed

\* authenticateActiveDeviceToken
Honoured(token) ==
    /\ token = device.token
    /\ ~(server.state = "tls_enforced" /\ device.security = "plain")

Fault == faults < MaxFaults /\ faults' = faults + 1

(***************************************************************************)
(* The owner.                                                              *)
(***************************************************************************)
Migrates(strict) ==
    /\ server.state = "plain_legacy"
    /\ server' = [server EXCEPT !.state = "tls_migrating", !.strict = strict]

Enforces == server.state = "tls_migrating" /\ server' = [server EXCEPT !.state = "tls_enforced"]

Rotates ==
    /\ server.state \in {"tls_enforced", "pinned_tls"}
    /\ server.id < MaxIds
    /\ server' = [server EXCEPT !.id = @ + 1]

MovesAway == server.addr = 1 /\ server' = [server EXCEPT !.addr = 2]

Owner ==
    /\ \/ \E s \in BOOLEAN : Migrates(s)
       \/ Enforces \/ Rotates \/ MovesAway
    /\ UNCHANGED <<device, conn, mig, acc, move, req, rec, expired, tlsTokens, faults, lost, raced>>

\* notAfter passes for a rotation's record: for one of them, which is the bound.
Expires ==
    /\ expired = {} /\ \E i \in 2..server.id : expired' = {i}
    /\ UNCHANGED <<server, device, conn, mig, acc, move, req, rec, tlsTokens, faults, lost, raced>>

(***************************************************************************)
(* Tokens.                                                                 *)
(***************************************************************************)
Fresh == device.token + 1

Issues(security) ==
    /\ Fresh <= MaxTokens
    /\ device' = [token |-> Fresh, security |-> security]
    /\ tlsTokens' = IF security = "tls" THEN tlsTokens \cup {Fresh} ELSE tlsTokens

(***************************************************************************)
(* joinServer and upsertServer: the device registers, over TLS with the    *)
(* pin of its invite.  No rotation has been applied yet, whatever happened *)
(* before.                                                                 *)
(***************************************************************************)
Join(https) ==
    /\ conn = None
    /\ IF https THEN TlsServed ELSE PlainServed
    /\ Issues(IF https THEN "tls" ELSE "plain")
    /\ conn' = [https |-> https, addr |-> server.addr, pin |-> IF https THEN server.id ELSE 0, applied |-> {},
                token |-> Fresh, sec |-> "ok", status |-> "active"]
    /\ UNCHANGED <<server, mig, acc, move, req, rec, expired, faults, lost, raced>>

(***************************************************************************)
(* persistConnectionReplacement: the one saved object takes the new state, *)
(* and its old one back when the settings cannot be saved.                 *)
(***************************************************************************)
\* Mutant: the replacement's fields are applied to all but the token.
ReplacesMutToken(c) == conn' = [c EXCEPT !.token = conn.token]

Replaces(c) == conn' = c

Saves(c, rotated) ==
    \/ Replaces(c) /\ UNCHANGED <<faults, lost>>
    \/ Fault /\ lost' = (lost \/ rotated) /\ UNCHANGED conn

(***************************************************************************)
(* migrateConnection: upgrade-info over the plain transport, then          *)
(* complete-tls-migration over the pinned one, which gives a new token and *)
(* closes the device's sockets.  main.ts starts one at a time and only for *)
(* a plain connection.                                                     *)
(***************************************************************************)
MigrateAsks ==
    /\ conn # None /\ ~conn.https /\ Begins(mig)
    /\ Reaches(conn) /\ Honoured(conn.token)
    /\ server.state = "tls_migrating" /\ ~server.strict
    /\ mig' = [at |-> "info", cand |-> [conn EXCEPT !.https = TRUE, !.addr = server.addr, !.pin = server.id,
                                                    !.sec = "migrating"]]
    /\ UNCHANGED <<server, device, conn, acc, move, req, rec, expired, tlsTokens, faults, lost, raced>>

MigrateCompletes ==
    /\ mig.at = "info"
    /\ IF Reaches(mig.cand) /\ Honoured(mig.cand.token)
       THEN /\ Issues("tls")
            /\ mig' = [at |-> "answered", cand |-> [mig.cand EXCEPT !.token = Fresh, !.sec = "ok"]]
       ELSE /\ mig' = NoOp
            /\ UNCHANGED <<device, tlsTokens>>
    /\ UNCHANGED <<server, conn, acc, move, req, rec, expired, faults, lost, raced>>

MigratePersists ==
    /\ mig.at = "answered"
    /\ Saves(mig.cand, TRUE)
    /\ mig' = NoOp
    /\ UNCHANGED <<server, device, acc, move, req, rec, expired, tlsTokens, raced>>

MigrateLost ==
    /\ mig.at = "answered" /\ Fault
    /\ lost' = TRUE
    /\ mig' = NoOp
    /\ UNCHANGED <<server, device, conn, acc, move, req, rec, expired, tlsTokens, raced>>

(***************************************************************************)
(* acceptInviteForServer: the invite carries the server's pin when it      *)
(* serves TLS.  With the pin already saved, or none, the token goes along; *)
(* with another pin only a proof of it, which the relay takes during a     *)
(* strict migration alone.  The replacement is made from the connection as *)
(* it was before the request.                                              *)
(***************************************************************************)
AcceptSends(pinned) ==
    /\ conn # None /\ Begins(acc)
    /\ IF pinned THEN TlsServed ELSE ~conn.https
    /\ acc' = [at |-> "sent", pinned |-> pinned, proof |-> pinned /\ conn.pin # server.id, from |-> conn, new |-> FALSE,
               cand |-> IF pinned THEN [conn EXCEPT !.https = TRUE, !.addr = server.addr, !.pin = server.id, !.sec = "ok"]
                        ELSE conn]
    /\ UNCHANGED <<server, device, conn, mig, move, req, rec, expired, tlsTokens, faults, lost, raced>>

\* authenticateDeviceInviteProof and the route's guards around it
Proven == server.state = "tls_migrating" /\ server.strict /\ device.security = "plain" /\ acc.cand.token = device.token

\* Mutant: accepting an invite gives a new token over either transport.
RotatesTokenMutPlain(c) == device.security = "plain"

\* acceptInviteAndMaybeRotateDeviceToken
RotatesToken(c) == c.https /\ device.security = "plain"

AcceptAnswered ==
    /\ acc.at = "sent"
    /\ IF Reaches(acc.cand) /\ IF acc.proof THEN Proven ELSE Honoured(acc.cand.token)
       THEN IF RotatesToken(acc.cand)
            THEN /\ Issues("tls")
                 /\ acc' = [acc EXCEPT !.at = "answered", !.new = TRUE, !.cand.token = Fresh]
            ELSE /\ acc' = [acc EXCEPT !.at = "answered"]
                 /\ UNCHANGED <<device, tlsTokens>>
       ELSE /\ acc' = NoOp
            /\ UNCHANGED <<device, tlsTokens>>
    /\ UNCHANGED <<server, conn, mig, move, req, rec, expired, faults, lost, raced>>

\* Nothing to replace: no pin, no new token, the address the connection has.
Unchanged == ~acc.pinned /\ ~acc.new /\ acc.cand.addr = conn.addr /\ acc.cand.https = conn.https

AcceptPersists ==
    /\ acc.at = "answered"
    /\ IF Unchanged
       THEN UNCHANGED <<conn, faults, lost, raced>>
       ELSE /\ Saves(acc.cand, acc.new)
            /\ raced' = (raced \/ conn # acc.from)
    /\ acc' = NoOp
    /\ UNCHANGED <<server, device, mig, move, req, rec, expired, tlsTokens>>

AcceptLost ==
    /\ acc.at = "answered" /\ Fault
    /\ lost' = (lost \/ acc.new)
    /\ acc' = NoOp
    /\ UNCHANGED <<server, device, conn, mig, move, req, rec, expired, tlsTokens, raced>>

(***************************************************************************)
(* updateServerAddress, and findServerOnLan for a pinned connection: the   *)
(* server at the new address has to know the saved login before the        *)
(* address is replaced, in the connection as it is by then.                *)
(***************************************************************************)
MoveAsks ==
    /\ conn # None /\ Begins(move) /\ conn.addr # server.addr
    /\ LET c == [conn EXCEPT !.addr = server.addr] IN
       /\ Reaches(c) /\ Honoured(c.token)
       /\ move' = [at |-> "answered", addr |-> server.addr]
    /\ UNCHANGED <<server, device, conn, mig, acc, req, rec, expired, tlsTokens, faults, lost, raced>>

MovePersists ==
    /\ move.at = "answered"
    /\ Saves([conn EXCEPT !.addr = move.addr], FALSE)
    /\ move' = NoOp
    /\ UNCHANGED <<server, device, mig, acc, req, rec, expired, tlsTokens, raced>>

(***************************************************************************)
(* Any other request (RelayApiClient.request), with the token its client   *)
(* was made with.  A 401 marks the connection revoked, a success of a      *)
(* pinned one marks it verified.                                           *)
(***************************************************************************)
RequestSends ==
    /\ conn # None /\ Begins(req) /\ conn.addr = server.addr
    /\ req' = [at |-> "sent", c |-> conn]
    /\ UNCHANGED <<server, device, conn, mig, acc, move, rec, expired, tlsTokens, faults, lost, raced>>

RequestAnswered ==
    /\ req.at = "sent"
    /\ req' = IF ~Reaches(req.c) THEN NoOp ELSE [at |-> IF req.c.token = device.token THEN "ok" ELSE "unauthorized", c |-> req.c]
    /\ UNCHANGED <<server, device, conn, mig, acc, move, rec, expired, tlsTokens, faults, lost, raced>>

\* markServerRevoked, markSuccessfulPinnedConnection
RequestTaken ==
    /\ req.at \in {"ok", "unauthorized"}
    /\ conn' = IF req.at = "unauthorized" THEN [conn EXCEPT !.status = "revoked"]
               ELSE IF req.c.https /\ conn.https THEN [conn EXCEPT !.sec = "ok"] ELSE conn
    /\ req' = NoOp
    /\ UNCHANGED <<server, device, mig, acc, move, rec, expired, tlsTokens, faults, lost, raced>>

(***************************************************************************)
(* handlePinnedConnectionFailure, for a request that met another identity: *)
(* fetchRotationProbe reads the identity presented and the whole history   *)
(* of rotations; those the connection has not applied are verified one     *)
(* after the other from the saved pin on.                                  *)
(***************************************************************************)
\* The leading records of a history of n identities that are already applied end at this identity.
AppliedTo(applied, n) == CHOOSE p \in 1..n : 2..p \subseteq applied /\ (p = n \/ p + 1 \notin applied)

\* Mutant: one missed rotation is followed, not several.
FollowsMutOne(c, n) ==
    LET p == AppliedTo(c.applied, n) IN c.pin = p /\ p + 1 = n /\ n \notin c.applied \cup expired

\* The loops of handlePinnedConnectionFailure and verifyRotationRecord.
Follows(c, n) ==
    LET p == AppliedTo(c.applied, n) IN
    /\ c.pin = p /\ p < n
    /\ (p + 1)..n \cap (c.applied \cup expired) = {}

Probe(r) ==
    /\ conn # None /\ conn.https /\ conn.addr = server.addr /\ TlsServed
    /\ Idle(rec[r]) /\ r = CHOOSE q \in Recs : Idle(rec[q]) \* which idle one does not matter
    /\ (Room \/ Recovering = {}) /\ conn.pin # server.id
    /\ rec' = [rec EXCEPT ![r] = [at |-> "probed", n |-> server.id]]
    /\ UNCHANGED <<server, device, conn, mig, acc, move, req, expired, tlsTokens, faults, lost, raced>>

\* Mutant: the mismatch is only logged.
AlarmedMutSilent(c) == c

\* The mismatch is saved and shown; the sync socket stops.
Alarmed(c) == [c EXCEPT !.sec = "pin_mismatch"]

Derive(r) ==
    /\ rec[r].at = "probed"
    /\ LET n == rec[r].n IN
       \/ /\ conn.pin = n
          /\ rec' = [rec EXCEPT ![r] = NoOp]
          /\ UNCHANGED <<conn, faults, lost>>
       \/ /\ conn.pin # n /\ Follows(conn, n)
          /\ rec' = [rec EXCEPT ![r] = [at |-> "verified", n |-> n, applied |-> conn.applied \cup 2..n]]
          /\ UNCHANGED <<conn, faults, lost>>
       \/ /\ conn.pin # n /\ ~Follows(conn, n)
          /\ rec' = [rec EXCEPT ![r] = NoOp]
          /\ Saves(Alarmed(conn), FALSE)
    /\ UNCHANGED <<server, device, mig, acc, move, req, expired, tlsTokens, raced>>

\* The pin and the history come from the verified records, all else from the connection as it now is.
Followed(c, n, applied) == [c EXCEPT !.pin = n, !.applied = applied, !.sec = "ok"]

FollowPersists(r) ==
    /\ rec[r].at = "verified"
    /\ Saves(Followed(conn, rec[r].n, rec[r].applied), FALSE)
    /\ rec' = [rec EXCEPT ![r] = NoOp]
    /\ UNCHANGED <<server, device, mig, acc, move, req, expired, tlsTokens, raced>>

Next ==
    \/ Owner \/ Expires
    \/ \E h \in BOOLEAN : Join(h)
    \/ MigrateAsks \/ MigrateCompletes \/ MigratePersists \/ MigrateLost
    \/ \E p \in BOOLEAN : AcceptSends(p)
    \/ AcceptAnswered \/ AcceptPersists \/ AcceptLost
    \/ MoveAsks \/ MovePersists
    \/ RequestSends \/ RequestAnswered \/ RequestTaken
    \/ \E r \in Recs : Probe(r) \/ Derive(r) \/ FollowPersists(r)

Spec == Init /\ [][Next]_vars

(***************************************************************************)
(* The sync socket goes on reconnecting, and each attempt that meets       *)
(* another identity looks for a rotation, until a mismatch stops it        *)
(* (syncWsClient.ts).                                                      *)
(***************************************************************************)
Recovers ==
    \E r \in Recs : (conn # None /\ conn.sec # "pin_mismatch" /\ Probe(r)) \/ Derive(r) \/ FollowPersists(r)

FairSpec == Spec /\ WF_vars(Recovers)

(***************************************************************************)
(* Properties                                                              *)
(***************************************************************************)
TypeOK ==
    /\ server.id \in 1..MaxIds
    /\ device \in [token : 0..MaxTokens, security : {"plain", "tls"}]
    /\ conn # None => conn.pin \in 0..MaxIds /\ conn.applied \subseteq 2..MaxIds /\ conn.token \in 1..MaxTokens

(***************************************************************************)
(* The saved token is the one the relay accepts, or the answer carrying    *)
(* that one is still on its way to the settings, whichever of migrations,  *)
(* invites, recoveries and address changes overlap.  The relay forgets the *)
(* old token as it answers, so an answer lost there is a device locked     *)
(* out: lost answers and failed saves are exempt, and so is an accepted    *)
(* invite that puts back the connection it started from (raced).           *)
(***************************************************************************)
SavedTokenIsHonoured ==
    conn # None /\ ~lost /\ ~raced =>
        \/ conn.token = device.token
        \/ mig.at = "answered" /\ mig.cand.token = device.token
        \/ acc.at = "answered" /\ acc.cand.token = device.token

(***************************************************************************)
(* A token the relay gave out over TLS never goes over plain HTTP: the     *)
(* saved connection, and any request under way, that carries one uses TLS. *)
(***************************************************************************)
TlsTokensStayOnTls ==
    /\ conn # None /\ ~conn.https => conn.token \notin tlsTokens
    /\ ~Idle(req) /\ ~req.c.https => req.c.token \notin tlsTokens
    /\ ~Idle(acc) /\ ~acc.cand.https => acc.cand.token \notin tlsTokens

\* The connection joined, or was pinned anew, after a rotation it has never applied.
Late(c) == ~(2..c.pin \subseteq c.applied)

Mismatched == conn # None /\ conn'.sec = "pin_mismatch" /\ conn.sec # "pin_mismatch"

(***************************************************************************)
(* The "different server" alarm, which stops the connection for good, is   *)
(* raised only when no signed chain leads from the saved pin to the        *)
(* identity presented, whatever recoveries overlap and however many        *)
(* rotations they missed.  Exempt: a record out of its 30 days, a probe    *)
(* older than the saved pin, and (see NoFalseAlarm) a late connection.     *)
(***************************************************************************)
AlarmIsReal ==
    [][Mismatched =>
        \/ raced \/ Late(conn)
        \/ \E r \in Recs : rec[r].at = "probed" /\ rec'[r] = NoOp /\ (rec[r].n < conn.pin \/ 2..rec[r].n \cap expired # {})]_vars

(***************************************************************************)
(* Checked and violated: "A planned rotation is accepted automatically     *)
(* only when the client can verify a signature chain from the previously   *)
(* pinned identity" (SECURITY.md).  A device that joined after a rotation  *)
(* can verify the next one and is stopped all the same.                    *)
(***************************************************************************)
NoFalseAlarm ==
    [][Mismatched /\ ~raced =>
        \E r \in Recs : rec[r].at = "probed" /\ rec'[r] = NoOp /\ (rec[r].n < conn.pin \/ 2..rec[r].n \cap expired # {})]_vars

(***************************************************************************)
(* When the owner stops rotating, a pinned connection that reaches the     *)
(* server's address comes to the identity it presents, or its alarm rings. *)
(***************************************************************************)
CatchesUp ==
    <>[](conn # None /\ conn.https /\ conn.addr = server.addr => conn.pin = server.id \/ conn.sec = "pin_mismatch")

\* Checked and violated: a 401 means that the saved token "no longer resolves to anything" (markServerRevoked).
RevokedIsReal == conn # None /\ conn.status = "revoked" => conn.token # device.token

=============================================================================
