---------------------------- MODULE HostSecurity ----------------------------
(***************************************************************************)
(* The transport security of a hosted server: serverManager.ts starts and  *)
(* stops the embedded relay, moves it from plain HTTP over both transports *)
(* to TLS alone, and rotates the identity its clients pin.  Each of these  *)
(* touches three places, the database's server_meta, the identity file and *)
(* the open listeners, one after the other, and any step can fail or be    *)
(* the last one before the program ends.  A standalone relay (index.ts)    *)
(* makes the same moves only when it starts.                               *)
(***************************************************************************)
EXTENDS Naturals, Sequences

CONSTANTS
    Calls,        \* the owner's clicks that can be under way together
    MaxCalls,     \* bound on the operations the owner starts
    MaxFaults,    \* bound on the failures and crashes
    MaxIds,       \* bound on the identities generated
    None

VARIABLES
    host,      \* the plugin's embedded relay, or a relay process of its own
    disk,      \* what a restart finds: security state, owner, identity chain
    apps,      \* the relay apps of this process
    manager,   \* EmbeddedRelayServer's fields and status
    call,      \* the operations under way
    count      \* operations, faults and identities so far

vars == <<host, disk, apps, manager, call, count>>

States == {"plain_legacy", "tls_migrating", "tls_enforced", "pinned_tls"}
AppIds == 1..2
Last(chain) == chain[Len(chain)]

\* A state never written counts as the legacy one (getSecurityState).
StateOf(image) == IF image.state = None THEN "plain_legacy" ELSE image.state
PlainServed(state) == state \in {"plain_legacy", "tls_migrating"}

NoApp == [open |-> FALSE, image |-> None, chain |-> <<>>, url |-> FALSE, plain |-> FALSE, tls |-> 0]
Stopped == [app |-> None, running |-> FALSE, state |-> None, pin |-> 0]
NoCall == [op |-> None, at |-> None, app |-> None, prev |-> <<>>, next |-> <<>>]

TypeOK ==
    /\ disk \in [state : States \cup {None}, owner : BOOLEAN, chain : Seq(1..MaxIds)]
    /\ \A a \in AppIds : apps[a].tls \in 0..MaxIds
    /\ manager.app \in AppIds \cup {None}

(***************************************************************************)
(* The fresh database of a new install, or one an older version left: with *)
(* an owner and no security state.                                         *)
(***************************************************************************)
Init ==
    /\ host \in {"embedded", "standalone"}
    /\ disk \in {[state |-> None, owner |-> o, chain |-> <<>>] : o \in BOOLEAN}
    /\ apps = [a \in AppIds |-> NoApp]
    /\ manager = Stopped
    /\ call = [c \in Calls |-> NoCall]
    /\ count = [calls |-> 0, faults |-> 0, ids |-> 0]

Idle(c) == call[c] = NoCall
Begins(c) == host = "embedded" /\ Idle(c) /\ count.calls < MaxCalls
Counted == count' = [count EXCEPT !.calls = @ + 1]
At(c, op, at) == call[c].op = op /\ call[c].at = at
Goes(c, at) == call' = [call EXCEPT ![c].at = at]
Ends(c) == call' = [call EXCEPT ![c] = NoCall]
Fault == count.faults < MaxFaults /\ count' = [count EXCEPT !.faults = @ + 1]
AppOf(c) == apps[call[c].app]

\* requireRunningSecurityContext
Running == manager.app # None /\ manager.running

(***************************************************************************)
(* The database.  A durable change writes the whole image of the app that  *)
(* makes it, and fails once the app is closed.                             *)
(***************************************************************************)
SetState(image, s) == [image EXCEPT !.state = s]
Saved(image) == [disk EXCEPT !.state = image.state, !.owner = image.owner]

(***************************************************************************)
(* Start: open the database, settle the security state of a fresh one,     *)
(* load or make the identity, open the listeners that state calls for.     *)
(***************************************************************************)
FreeApp(a) == ~apps[a].open /\ ~apps[a].plain /\ apps[a].tls = 0

Open(c, a) ==
    /\ Begins(c) /\ Counted
    /\ ~manager.running
    /\ FreeApp(a) /\ \A b \in 1..(a - 1) : ~FreeApp(b)
    /\ apps' = [apps EXCEPT ![a] = [NoApp EXCEPT !.open = TRUE, !.image = [state |-> disk.state, owner |-> disk.owner]]]
    /\ call' = [call EXCEPT ![c] = [NoCall EXCEPT !.op = "start", !.at = "opened", !.app = a]]
    /\ UNCHANGED <<disk, manager>>

\* Mutant: every server without a written state is taken for a fresh one.
SettledMutAny(image) == IF image.state = None THEN SetState(image, "pinned_tls") ELSE image

\* freshUnbootstrapped: no owner and no written state begins with TLS alone.
Settled(image) == IF image.state = None /\ ~image.owner THEN SetState(image, "pinned_tls") ELSE image

Settle(c) ==
    /\ At(c, "start", "opened")
    /\ apps' = [apps EXCEPT ![call[c].app].image = Settled(@)]
    /\ disk' = Saved(Settled(AppOf(c).image))
    /\ Goes(c, "settled")
    /\ UNCHANGED <<manager, count>>

\* Mutant: the identity is used before it is saved.
KeepIdentityMutNot(chain) == UNCHANGED disk

\* store.save
KeepIdentity(chain) == disk' = [disk EXCEPT !.chain = chain]

\* ensureServerIdentity: the stored identity, or a new one, saved first.
Identify(c) ==
    /\ At(c, "start", "settled")
    /\ \/ /\ disk.chain # <<>>
          /\ apps' = [apps EXCEPT ![call[c].app].chain = disk.chain]
          /\ UNCHANGED <<disk, count>>
       \/ /\ disk.chain = <<>> /\ count.ids < MaxIds
          /\ apps' = [apps EXCEPT ![call[c].app].chain = <<count.ids + 1>>]
          /\ KeepIdentity(<<count.ids + 1>>)
          /\ count' = [count EXCEPT !.ids = @ + 1]
    /\ Goes(c, "identified")
    /\ UNCHANGED <<manager>>

\* Mutant: the legacy listener comes up whatever the state.
ListensMutPlain(app) ==
    LET tls == StateOf(app.image) # "plain_legacy" IN
    [app EXCEPT !.plain = TRUE, !.url = tls, !.tls = IF tls THEN Last(app.chain) ELSE 0]

\* The listeners start() opens for a state.
Listens(app) ==
    LET tls == StateOf(app.image) # "plain_legacy" IN
    [app EXCEPT !.plain = PlainServed(StateOf(app.image)), !.url = tls, !.tls = IF tls THEN Last(app.chain) ELSE 0]

Listen(c) ==
    /\ At(c, "start", "identified")
    /\ LET app == Listens(AppOf(c)) IN
       /\ apps' = [apps EXCEPT ![call[c].app] = app]
       /\ manager' = [app |-> call[c].app, running |-> TRUE, state |-> StateOf(app.image), pin |-> app.tls]
       /\ Ends(c)
    /\ UNCHANGED <<disk, count>>

\* Any step of start() can throw: it closes what it opened and forgets this.app, whosever that is.
StartFails(c) ==
    /\ call[c].op = "start" /\ Fault
    /\ apps' = [apps EXCEPT ![call[c].app] = NoApp]
    /\ manager' = Stopped
    /\ Ends(c)
    /\ UNCHANGED <<disk>>

(***************************************************************************)
(* Stop.  this.app is forgotten first; the final save of the database can  *)
(* fail, and then nothing corrects the status.                             *)
(***************************************************************************)
Stop(c) ==
    /\ Begins(c) /\ Counted /\ manager.app # None
    /\ manager' = [manager EXCEPT !.app = None]
    /\ call' = [call EXCEPT ![c] = [NoCall EXCEPT !.op = "stop", !.at = "closing", !.app = manager.app]]
    /\ UNCHANGED <<disk, apps>>

Close(c) ==
    /\ At(c, "stop", "closing")
    /\ apps' = [apps EXCEPT ![call[c].app] = NoApp]
    /\ disk' = Saved(AppOf(c).image)
    /\ manager' = Stopped
    /\ Ends(c)
    /\ UNCHANGED count

CloseFails(c) ==
    /\ At(c, "stop", "closing") /\ Fault
    /\ apps' = [apps EXCEPT ![call[c].app] = NoApp]
    /\ Ends(c)
    /\ UNCHANGED <<disk, manager>>

(***************************************************************************)
(* enableTlsMigration: the TLS listener opens, then the state is made      *)
(* durable; when that fails the listener closes again.                     *)
(***************************************************************************)
EnableListens(c) ==
    /\ Begins(c) /\ Counted /\ Running /\ manager.state = "plain_legacy"
    /\ disk.chain # <<>>
    /\ apps' = [apps EXCEPT ![manager.app].chain = disk.chain, ![manager.app].url = TRUE,
                            ![manager.app].tls = Last(disk.chain)]
    /\ call' = [call EXCEPT ![c] = [NoCall EXCEPT !.op = "enable", !.at = "listening", !.app = manager.app]]
    /\ UNCHANGED <<disk, manager>>

EnableCommits(c) ==
    /\ At(c, "enable", "listening") /\ AppOf(c).open
    /\ apps' = [apps EXCEPT ![call[c].app].image = SetState(@, "tls_migrating")]
    /\ disk' = Saved(SetState(AppOf(c).image, "tls_migrating"))
    /\ manager' = [manager EXCEPT !.running = TRUE, !.state = "tls_migrating", !.pin = Last(AppOf(c).chain)]
    /\ Ends(c)
    /\ UNCHANGED count

\* Mutant: a failed migration leaves its listener open.
UndoneMutListens(app) == [app EXCEPT !.url = FALSE]

Undone(app) == [app EXCEPT !.url = FALSE, !.tls = 0]

EnableFails(c) ==
    /\ At(c, "enable", "listening")
    /\ IF AppOf(c).open THEN Fault ELSE UNCHANGED count
    /\ apps' = [apps EXCEPT ![call[c].app] = Undone(@)]
    /\ Ends(c)
    /\ UNCHANGED <<disk, manager>>

(***************************************************************************)
(* enforceTls: the state first, then the plain listener goes; if it will   *)
(* not close the whole relay stops.                                        *)
(***************************************************************************)
EnforceCommits(c) ==
    /\ Begins(c) /\ Counted /\ Running /\ manager.state = "tls_migrating"
    /\ LET image == SetState(apps[manager.app].image, "tls_enforced") IN
       /\ apps' = [apps EXCEPT ![manager.app].image = image]
       /\ disk' = Saved(image)
    /\ call' = [call EXCEPT ![c] = [NoCall EXCEPT !.op = "enforce", !.at = "closing", !.app = manager.app]]
    /\ UNCHANGED <<manager>>

\* Mutant: the plain listener stays.
ClosedPlainMutStays(app) == app

ClosedPlain(app) == [app EXCEPT !.plain = FALSE]

EnforceCloses(c) ==
    /\ At(c, "enforce", "closing")
    /\ apps' = [apps EXCEPT ![call[c].app] = ClosedPlain(@)]
    /\ manager' = [manager EXCEPT !.running = TRUE, !.state = "tls_enforced"]
    /\ Ends(c)
    /\ UNCHANGED <<disk, count>>

EnforceCloseFails(c) ==
    /\ At(c, "enforce", "closing") /\ Fault
    /\ apps' = [apps EXCEPT ![call[c].app] = NoApp]
    /\ manager' = Stopped
    /\ Ends(c)
    /\ UNCHANGED <<disk>>

(***************************************************************************)
(* rotateIdentity: the new identity is saved, the TLS listener restarts    *)
(* under it, the rotation is recorded.  A failure saves the old identity   *)
(* again and restarts the listener under it; if that fails too the relay   *)
(* stops.                                                                  *)
(***************************************************************************)
RotateSaves(c) ==
    /\ Begins(c) /\ Running /\ manager.state \in {"tls_enforced", "pinned_tls"}
    /\ count.ids < MaxIds
    /\ LET prev == apps[manager.app].chain
           next == Append(prev, count.ids + 1) IN
       /\ KeepIdentity(next)
       /\ call' = [call EXCEPT ![c] = [op |-> "rotate", at |-> "saved", app |-> manager.app, prev |-> prev, next |-> next]]
    /\ count' = [count EXCEPT !.calls = @ + 1, !.ids = @ + 1]
    /\ UNCHANGED <<apps, manager>>

RotateRestarts(c) ==
    /\ At(c, "rotate", "saved")
    /\ apps' = [apps EXCEPT ![call[c].app].tls = Last(call[c].next), ![call[c].app].chain = call[c].next]
    /\ Goes(c, "recording")
    /\ UNCHANGED <<disk, manager, count>>

RotateRestartFails(c) ==
    /\ At(c, "rotate", "saved") /\ Fault
    /\ apps' = [apps EXCEPT ![call[c].app].tls = 0]
    /\ Goes(c, "rollback")
    /\ UNCHANGED <<disk, manager>>

RotateRecorded(c) ==
    /\ At(c, "rotate", "recording") /\ AppOf(c).open
    /\ disk' = Saved(AppOf(c).image)
    /\ manager' = [manager EXCEPT !.running = TRUE, !.pin = Last(call[c].next)]
    /\ Ends(c)
    /\ UNCHANGED <<apps, count>>

RotateRecordFails(c) ==
    /\ At(c, "rotate", "recording")
    /\ IF AppOf(c).open THEN Fault ELSE UNCHANGED count
    /\ apps' = [apps EXCEPT ![call[c].app].tls = 0]
    /\ Goes(c, "rollback")
    /\ UNCHANGED <<disk, manager>>

\* Mutant: the rollback restarts the listener and leaves the new identity in the file.
RollbackFileMut(chain) == disk.chain

RollbackFile(chain) == chain

RolledBack(c) ==
    /\ At(c, "rotate", "rollback")
    /\ disk' = [disk EXCEPT !.chain = RollbackFile(call[c].prev)]
    /\ apps' = [apps EXCEPT ![call[c].app].tls = Last(call[c].prev), ![call[c].app].chain = call[c].prev]
    /\ Ends(c)
    /\ UNCHANGED <<manager, count>>

\* Mutant: the relay goes on after a rollback that failed.
GivenUpMutRuns(a) == UNCHANGED <<apps, manager>>

GivenUp(a) == apps' = [apps EXCEPT ![a] = NoApp] /\ manager' = Stopped

RollbackFails(c) ==
    /\ At(c, "rotate", "rollback") /\ Fault
    /\ disk' \in {disk, [disk EXCEPT !.chain = call[c].prev]}
    /\ GivenUp(call[c].app)
    /\ Ends(c)

(***************************************************************************)
(* The first owner registers; the v0.1 database comes back in the place of *)
(* one nobody owns; the program ends between any two steps.                *)
(***************************************************************************)
Bootstrap ==
    /\ manager.app # None /\ ~apps[manager.app].image.owner
    /\ apps' = [apps EXCEPT ![manager.app].image.owner = TRUE]
    /\ disk' = Saved([apps[manager.app].image EXCEPT !.owner = TRUE])
    /\ UNCHANGED <<manager, call, count>>

\* restoreLegacyV01Backup's stop and exchange; its restart is another Open.
Restore(c) ==
    /\ Begins(c) /\ Counted /\ Running /\ ~apps[manager.app].image.owner
    /\ apps' = [apps EXCEPT ![manager.app] = NoApp]
    /\ disk' = [disk EXCEPT !.state = None, !.owner = TRUE]
    /\ manager' = Stopped
    /\ UNCHANGED <<call>>

Crash ==
    /\ Fault
    /\ \/ \E a \in AppIds : apps[a].open
       \/ \E c \in Calls : ~Idle(c)
    /\ apps' = [a \in AppIds |-> NoApp]
    /\ manager' = Stopped
    /\ call' = [c \in Calls |-> NoCall]
    /\ UNCHANGED <<disk>>

(***************************************************************************)
(* The standalone relay reads TLS_DUAL_STACK and moves the state forward   *)
(* when it starts, or refuses to.                                          *)
(***************************************************************************)
\* Mutant: an enforced server starts on both transports when told to.
NextStateMutBack(state, dual, owner) ==
    IF dual THEN "tls_migrating" ELSE IF PlainServed(state) THEN "tls_enforced" ELSE state

\* resolvePinnedStartupState; None when it throws.
NextState(state, dual, owner) ==
    CASE ~owner /\ dual -> None
      [] ~owner /\ ~dual -> IF PlainServed(state) THEN "pinned_tls" ELSE state
      [] owner /\ state = "plain_legacy" -> IF dual THEN "tls_migrating" ELSE None
      [] owner /\ state = "tls_migrating" -> IF dual THEN "tls_migrating" ELSE "tls_enforced"
      [] OTHER -> IF dual THEN None ELSE state

StandaloneStarts(dual) ==
    /\ host = "standalone" /\ count.calls < MaxCalls /\ manager.app = None
    /\ LET s == NextState(StateOf(disk), dual, disk.owner)
           id == IF disk.chain = <<>> THEN count.ids + 1 ELSE Last(disk.chain)
           chain == IF disk.chain = <<>> THEN <<id>> ELSE disk.chain IN
       /\ s # None /\ id <= MaxIds
       /\ disk' = [state |-> s, owner |-> disk.owner, chain |-> chain]
       /\ apps' = [apps EXCEPT ![1] = [open |-> TRUE, image |-> [state |-> s, owner |-> disk.owner], chain |-> chain,
                                       url |-> TRUE, plain |-> dual, tls |-> id]]
       /\ manager' = [app |-> 1, running |-> TRUE, state |-> s, pin |-> id]
          /\ count' = [count EXCEPT !.calls = @ + 1, !.ids = IF id > @ THEN id ELSE @]
    /\ UNCHANGED call

Steps ==
    \/ \E c \in Calls :
        \/ \E a \in AppIds : Open(c, a)
        \/ Settle(c) \/ Identify(c) \/ Listen(c) \/ StartFails(c)
        \/ Stop(c) \/ Close(c) \/ CloseFails(c)
        \/ EnableListens(c) \/ EnableCommits(c) \/ EnableFails(c)
        \/ EnforceCommits(c) \/ EnforceCloses(c) \/ EnforceCloseFails(c)
        \/ RotateSaves(c) \/ RotateRestarts(c) \/ RotateRestartFails(c) \/ RotateRecorded(c) \/ RotateRecordFails(c)
        \/ RolledBack(c) \/ RollbackFails(c)
        \/ Restore(c)
    \/ Bootstrap
    \/ Crash
    \/ \E dual \in BOOLEAN : StandaloneStarts(dual)

Next == Steps /\ UNCHANGED host

Spec == Init /\ [][Next]_vars

(***************************************************************************)
(* Properties                                                              *)
(***************************************************************************)
AllIdle == \A c \in Calls : Idle(c)

(***************************************************************************)
(* Between operations a running server is one thing in its three places:   *)
(* the identity in the file is the one the routes hand out and the TLS     *)
(* listener presents, the listeners are those of the durable security      *)
(* state, and the status the owner reads says so.  This holds after any    *)
(* failure, rollback or crash (serverManager.ts rotateIdentity: "no        *)
(* identity that is simultaneously true on disk and on the wire").         *)
(***************************************************************************)
OneIdentity ==
    AllIdle /\ manager.app # None =>
        LET app == apps[manager.app]
            state == StateOf(app.image)
            tls == IF state = "plain_legacy" THEN 0 ELSE Last(app.chain) IN
        /\ app.open
        /\ disk.state = app.image.state
        /\ disk.chain = app.chain
        /\ app.tls = tls /\ app.url = (tls # 0) /\ manager.pin = tls
        /\ app.plain = PlainServed(state)
        /\ manager.state = state

(***************************************************************************)
(* An identity is presented to clients only once the file holds it: after  *)
(* a crash at any point the server comes back under an identity that those *)
(* who pinned it at that moment accept.                                    *)
(***************************************************************************)
PresentedIsSaved == \A a \in AppIds : apps[a].tls # 0 => apps[a].tls \in {disk.chain[i] : i \in 1..Len(disk.chain)}

Rank(state) == IF state = "plain_legacy" THEN 0 ELSE IF state = "tls_migrating" THEN 1 ELSE 2

(***************************************************************************)
(* A server with an owner never goes back towards plain HTTP, across       *)
(* restarts, failures and crashes: devices that left the plain transport   *)
(* hold tokens that are not meant to be sent over it.                      *)
(***************************************************************************)
NeverBackToPlain == [][disk.owner => Rank(StateOf(disk')) >= Rank(StateOf(disk))]_vars

(***************************************************************************)
(* Devices that know only the plain address keep a way in until the owner  *)
(* enforces TLS: a server an older version left, with an owner, is not     *)
(* moved to TLS alone by a start.                                          *)
(***************************************************************************)
OnlyTheOwnerEnforces ==
    [][disk.owner /\ Rank(StateOf(disk)) < 2 /\ Rank(StateOf(disk')) = 2 =>
        \/ \E c \in Calls : call'[c].op = "enforce"
        \/ host = "standalone"]_vars

(***************************************************************************)
(* Checked and violated: "the embedded server is a singleton - one         *)
(* process, one database, one owner identity" (ServerConnectionManager.ts, *)
(* hasOwnServer).                                                          *)
(***************************************************************************)
OneServer == \A a, b \in AppIds : apps[a].plain \/ apps[a].tls # 0 => (apps[b].plain \/ apps[b].tls # 0 => a = b)

=============================================================================
