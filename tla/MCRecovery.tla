------------------------------ MODULE MCRecovery ------------------------------
(***************************************************************************)
(* What keeps going through faults and restarts: small instances of        *)
(* FileReplace, RelayDb, HostSecurity, SavedServer and Connection.  They   *)
(* share no state: a behaviour is one of one of them, while the others     *)
(* rest.                                                                   *)
(***************************************************************************)
EXTENDS RelayDb, TLC

CONSTANTS
    img1, img2, img3, Partial,
    Socks, MaxConnects, MaxFaults, \* Connection's
    Clicks, MaxClicks, MaxHostFaults, MaxIdentities, \* HostSecurity's
    Recs, MaxIds, MaxTokens, MaxPending, MaxLosses \* SavedServer's

VARIABLES
    part, \* what the behaviour is about
    target, temp, backup, pc, goal, new, moved, committed, result, seen, reliable,
    server, tls, apps, manager, call, count,
    relay, device, conn, mig, acc, move, req, rec, expired, tlsTokens, faults, lost, raced,
    dev, saved, main, calls, sock, migrating, waits, connects, falsely

File == INSTANCE FileReplace WITH Images <- {img1, img2, img3}, RenamesLie <- TRUE
Tls == INSTANCE HostSecurity WITH host <- server, disk <- tls,
    Calls <- Clicks, MaxCalls <- MaxClicks, MaxFaults <- MaxHostFaults, MaxIds <- MaxIdentities
Account == INSTANCE SavedServer WITH server <- relay, MaxFaults <- MaxLosses
Live == INSTANCE Connection WITH mig <- migrating, count <- connects

fileVars == <<target, temp, backup, pc, goal, new, moved, committed, result, seen, reliable>>
tlsVars == <<server, tls, apps, manager, call, count>>
accountVars ==
    <<relay, device, conn, mig, acc, move, req, rec, expired, tlsTokens, faults, lost, raced>>
liveVars == <<dev, saved, main, calls, sock, migrating, waits, connects, falsely>>

\* The modules that rest do so in one initial state.
MCInit ==
    /\ part \in {"file", "db", "tls", "account", "live"}
    /\ Init /\ File!Init /\ Tls!Init /\ Account!Init /\ Live!Init
    /\ part # "file" => target = None
    /\ part # "db" => host = "desktop"
    /\ part # "tls" => server = "embedded" /\ ~tls.owner
    /\ part # "account" => relay.state = "plain_legacy"

MCNext ==
    \/ part = "file" /\ File!Next
       /\ UNCHANGED <<part, vars, tlsVars, accountVars, liveVars>>
    \/ part = "db" /\ Next
       /\ UNCHANGED <<part, fileVars, tlsVars, accountVars, liveVars>>
    \/ part = "tls" /\ Tls!Next
       /\ UNCHANGED <<part, fileVars, vars, accountVars, liveVars>>
    \/ part = "account" /\ Account!Next
       /\ UNCHANGED <<part, fileVars, vars, tlsVars, liveVars>>
    \/ part = "live" /\ Live!Next
       /\ UNCHANGED <<part, fileVars, vars, tlsVars, accountVars>>

\* The fairness of each module.
MCFairness ==
    /\ WF_fileVars(part = "file" /\ File!Continue)
    /\ WF_vars(part = "db" /\ SaveGoesOn) /\ WF_vars(part = "db" /\ DurableGoesOn)
    /\ WF_vars(part = "db" /\ AccessLooksAgain) /\ WF_vars(part = "db" /\ AccessStarts)
    /\ WF_vars(part = "db" /\ AccessEnds)
    /\ WF_accountVars(part = "account" /\ Account!Recovers)
    /\ WF_liveVars(part = "live" /\ \E s \in Socks : Live!SockStep(s))
    /\ WF_liveVars(part = "live" /\ Live!MainStep) /\ WF_liveVars(part = "live" /\ Live!MigratePersists)
    /\ WF_liveVars(part = "live" /\ Live!ComesUp)

MCSpec == MCInit /\ [][MCNext]_<<part, fileVars, vars, tlsVars, accountVars, liveVars>>
          /\ MCFairness

\* FileReplace: once the adapter works a replacement succeeds.
ReplacementsSucceed == File!ReplacementsSucceed
\* HostSecurity: between operations the file, the routes and the listener tell one
\* identity, what a relay presents is what a restart finds, and a server with an owner
\* neither goes back towards plain HTTP nor gives it up unless the owner says so.
OneIdentity ==
    /\ [](Tls!TypeOK /\ Tls!OneIdentity /\ Tls!PresentedIsSaved)
    /\ Tls!NeverBackToPlain /\ Tls!OnlyTheOwnerEnforces
\* Connection: one socket is alive, the one main.ts holds, and no CRDT request waits on
\* a WebSocket that is gone.
OneSocket == Live!TypeOK /\ Live!OneSocket /\ Live!WaitersAreTold
\* Connection: a socket that is kept is, once faults end, connected for good.
Reconnects == Live!Reconnects
\* SavedServer: the saved token is the one the relay accepts, or its answer is on the
\* way, and one handed out over TLS is sent over TLS only.
SavedTokenIsHonoured == Account!TypeOK /\ Account!SavedTokenIsHonoured /\ Account!TlsTokensStayOnTls
\* SavedServer: a pinned connection comes to the identity presented or its alarm rings,
\* and the alarm rings only for an identity no chain leads to.
CatchesUp == Account!CatchesUp /\ Account!AlarmIsReal
\* RelayDb: every durable operation ends, requests that wait get their turn, and one
\* that got it is not refused its first change.
AllAreServed == DurablesEnd /\ RequestsGetTheirTurn /\ []TurnsCanWrite
=============================================================================
