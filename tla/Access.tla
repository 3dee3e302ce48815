------------------------------- MODULE Access -------------------------------
(***************************************************************************)
(* Who may do what on a relay, and which sockets still hold what they were *)
(* once granted: users and their devices, teams, invites, the access rules *)
(* of one room, and the subscriptions of authenticated connections.  A     *)
(* request is one step: its checks and its transaction run without an      *)
(* await between them, except that an invite is created in a later turn    *)
(* (durable) than the one that checked what it invites to.  The server's   *)
(* owner may make every request, so it does not matter who else may.       *)
(***************************************************************************)
EXTENDS Naturals, Sequences, FiniteSets

CONSTANTS
  Users, Owner,      \* people; the server's owner, who also owns the room
  Devices, UserOf,   \* their devices
  Teams, Invites,    \* teams and invites that may come to exist
  Paths, NoPath,     \* the room's paths, and the empty one of room-wide checks
  Patterns, Covers,  \* path patterns and the paths each matches
  Whole,             \* the pattern for the whole room
  Custom,            \* permission sets given one by one instead of by preset
  NewTeams,          \* teams that do not exist at first
  Subjects,          \* whom the rules are about
  MaxRules, MaxUses, \* bounds: rules at a time, uses of an invite
  None

Reader == {"subscribe", "read"}
Editor == Reader \cup {"write"}
Blocked == Editor
Permissions == Editor

ASSUME AccessAssumption ==
  /\ Owner \in Users /\ UserOf \in [Devices -> Users]
  /\ Users \cap (Teams \cup Devices) = {}
  /\ Whole \in Patterns /\ Covers \in [Patterns -> SUBSET (Paths \cup {NoPath})]
  /\ Covers[Whole] = Paths \cup {NoPath}
  /\ None \notin Teams /\ NewTeams \subseteq Teams /\ Subjects \subseteq Users \cup Teams
  /\ Custom \subseteq (SUBSET Permissions) \ {{}}
  /\ MaxRules \in Nat /\ MaxUses \in Nat

VARIABLES
  known,       \* users with a row
  enrolled,    \* devices with a row
  revoked,     \* users and devices whose row is revoked
  recovering,  \* owner's devices restored on the host and not yet kept
  team,        \* per team: whether its row was made and deleted, and its members
  room,        \* does the room exist
  rules,       \* its access rules, oldest first
  invite,      \* per invite: its row, or the request that will insert it
  socket,      \* per device: its connection
  subscribed,  \* devices whose connection is subscribed to the room
  unsettled    \* history: users admitted to a team since rules were last applied

vars == <<known, enrolled, revoked, recovering, team, room, rules, invite,
          socket, subscribed, unsettled>>

Rule == [subject: Users \cup Teams, effect: {"allow", "deny"},
         perms: (SUBSET Permissions) \ {{}}, pattern: Patterns]
Invite == [target: {"team"}, team: Teams, landed: BOOLEAN, left: 0..MaxUses]
          \cup [target: {"room"}, preset: {Reader, Editor}, landed: BOOLEAN, left: 0..MaxUses]

Init ==
  /\ known = {Owner}
  /\ enrolled \in {D \in SUBSET Devices : \A d \in D : UserOf[d] = Owner}
  /\ revoked = {} /\ recovering = {}
  /\ team = [t \in Teams |-> [is |-> IF t \in NewTeams THEN "unborn" ELSE "alive",
                              members |-> IF t \in NewTeams THEN {} ELSE {Owner}]]
  /\ room = TRUE /\ rules = <<>>
  /\ invite = [i \in Invites |-> None]
  /\ socket = [d \in Devices |-> "none"] /\ subscribed = {}
  /\ unsettled = {}

-----------------------------------------------------------------------------
\* The rules rs without those whose index is not in K.  (SelectSeq, in a form that can be
\* reasoned about.)
Only(rs, K) ==
  LET at == CHOOSE at \in [1..Cardinality(K) -> K] : \A i, j \in DOMAIN at : i < j => at[i] < at[j]
  IN [i \in 1..Cardinality(K) |-> rs[at[i]]]

(* The policy: a matching deny decides, then ownership, then a matching allow. *)

TeamsOf(u) == {t \in Teams : u \in team[t].members}

Matches(effect, u, p, path) ==
  \E k \in DOMAIN rules : /\ rules[k].effect = effect
                          /\ rules[k].subject \in TeamsOf(u) \cup {u}
                          /\ p \in rules[k].perms
                          /\ path \in Covers[rules[k].pattern]

Allowed(u, p, path) ==
  /\ ~Matches("deny", u, p, path)
  /\ u = Owner \/ Matches("allow", u, p, path)

\* What a new allow rule leaves of the denials of the same subject and pattern: a
\* full block goes, another denial keeps what the new rule does not grant.
\* Mutant: a block that the new rule does not cover keeps the rest.
SupersedeMutNarrows(rs, subject, perms, pattern) ==
  LET Left(r) == IF r.effect = "deny" /\ r.subject = subject /\ r.pattern = pattern
                   THEN [r EXCEPT !.perms = @ \ Reader] ELSE r
  IN Only([k \in DOMAIN rs |-> Left(rs[k])], {k \in DOMAIN rs : Left(rs[k]).perms # {}})

Supersede(rs, subject, perms, pattern) ==
  LET Rest(denied) == IF denied = Blocked THEN {} ELSE denied \ perms
      Left(r) == IF r.effect = "deny" /\ r.subject = subject /\ r.pattern = pattern
                   THEN [r EXCEPT !.perms = Rest(@)] ELSE r
  IN Only([k \in DOMAIN rs |-> Left(rs[k])], {k \in DOMAIN rs : Left(rs[k]).perms # {}})

WithRule(rs, rule) ==
  Append(IF rule.effect = "allow"
           THEN Supersede(rs, rule.subject, rule.perms, rule.pattern) ELSE rs, rule)

\* A room invite renews the oldest whole-room grant of a person, or adds one.
WithGrant(rs, u, preset) ==
  LET Grants == {k \in DOMAIN rs : /\ rs[k].subject = u /\ rs[k].effect = "allow"
                                   /\ rs[k].pattern = Whole}
      oldest == CHOOSE k \in Grants : \A j \in Grants : k <= j
  IN IF Grants = {}
       THEN WithRule(rs, [subject |-> u, effect |-> "allow", perms |-> preset,
                          pattern |-> Whole])
       ELSE Supersede([rs EXCEPT ![oldest].perms = preset], u, preset, Whole)

\* After rules or memberships changed: who no longer may, no longer listens.
\* Mutant: the subscriptions stay.
RevalidateMutStays ==
  /\ subscribed' = subscribed
  /\ unsettled' = {}

Revalidate ==
  /\ subscribed' = IF room' THEN {d \in subscribed : Allowed(UserOf[d], "subscribe", NoPath)'}
                            ELSE subscribed
  /\ unsettled' = {}

-----------------------------------------------------------------------------
(* Teams. *)

CreateTeam(t) ==
  /\ team[t].is = "unborn"
  /\ team' = [team EXCEPT ![t] = [is |-> "alive", members |-> {Owner}]]
  /\ UNCHANGED <<known, enrolled, revoked, recovering, room, rules, invite, socket,
                 subscribed, unsettled>>

AddTeamMember(t, u) ==
  /\ team[t].is = "alive" /\ u \in known \ revoked
  /\ team' = [team EXCEPT ![t].members = @ \cup {u}]
  /\ unsettled' = unsettled \cup {u}
  /\ UNCHANGED <<known, enrolled, revoked, recovering, room, rules, invite, socket,
                 subscribed>>

RevokeMember(t, u) ==
  /\ team[t].is = "alive"
  /\ team' = [team EXCEPT ![t].members = @ \ {u}]
  /\ UNCHANGED <<known, enrolled, revoked, recovering, room, rules, invite, socket>>
  /\ Revalidate

\* A deleted team takes its grants, its invites and its memberships along.
DeleteTeam(t) ==
  /\ team[t].is = "alive"
  /\ team' = [team EXCEPT ![t] = [is |-> "deleted", members |-> {}]]
  /\ rules' = Only(rules, {k \in DOMAIN rules : rules[k].subject # t})
  /\ invite' = [i \in Invites |->
       IF invite[i] # None /\ invite[i].target = "team" /\ invite[i].team = t /\ invite[i].landed
         THEN None ELSE invite[i]]
  /\ UNCHANGED <<known, enrolled, revoked, recovering, room, socket>>
  /\ Revalidate

-----------------------------------------------------------------------------
(* The room's rules. *)

CreateAclRule(rule) ==
  /\ room /\ Len(rules) < MaxRules
  /\ rule.subject \in Teams => team[rule.subject].is # "unborn"
  /\ rules' = WithRule(rules, rule)
  /\ UNCHANGED <<known, enrolled, revoked, recovering, team, room, invite, socket>>
  /\ Revalidate

\* What the route accepts: presets, a deny preset being a full block, or a list.
AskedRules ==
  [subject: Subjects, effect: {"allow"}, perms: {Reader, Editor} \cup Custom,
   pattern: Patterns]
  \cup [subject: Subjects, effect: {"deny"}, perms: {Blocked} \cup Custom,
        pattern: Patterns]

DeleteAclRule(k) ==
  /\ room
  /\ rules' = Only(rules, DOMAIN rules \ {k})
  /\ UNCHANGED <<known, enrolled, revoked, recovering, team, room, invite, socket>>
  /\ Revalidate

DeleteRoom ==
  /\ room
  /\ room' = FALSE /\ rules' = <<>>
  /\ invite' = [i \in Invites |->
       IF invite[i] # None /\ invite[i].target = "room" /\ invite[i].landed THEN None ELSE invite[i]]
  /\ UNCHANGED <<known, enrolled, revoked, recovering, team, socket, subscribed, unsettled>>

-----------------------------------------------------------------------------
(* Invites. *)

AskTeamInvite(i, t, uses) ==
  /\ invite[i] = None /\ team[t].is = "alive"
  /\ invite' = [invite EXCEPT ![i] = [target |-> "team", team |-> t, landed |-> FALSE, left |-> uses]]
  /\ UNCHANGED <<known, enrolled, revoked, recovering, team, room, rules, socket,
                 subscribed, unsettled>>

AskRoomInvite(i, preset, uses) ==
  /\ invite[i] = None /\ room
  /\ invite' = [invite EXCEPT ![i] = [target |-> "room", preset |-> preset, landed |-> FALSE,
                                      left |-> uses]]
  /\ UNCHANGED <<known, enrolled, revoked, recovering, team, room, rules, socket,
                 subscribed, unsettled>>

\* The row is inserted whatever has become of the team or the room meanwhile.
CreateInvite(i) ==
  /\ invite[i] # None /\ ~invite[i].landed
  /\ invite' = [invite EXCEPT ![i].landed = TRUE]
  /\ UNCHANGED <<known, enrolled, revoked, recovering, team, room, rules, socket,
                 subscribed, unsettled>>

\* An invite that opens something: it is not used up or expired, and what it
\* invites to exists.
\* Mutant: an invite serves once more than it says.
ValidMutUsedUp(i) ==
  /\ invite[i] # None /\ invite[i].landed
  /\ IF invite[i].target = "team" THEN team[invite[i].team].is = "alive" ELSE room

\* Mutant: what it invites to is not looked up.
ValidMutUnchecked(i) ==
  /\ invite[i] # None /\ invite[i].landed /\ invite[i].left > 0

Valid(i) ==
  /\ invite[i] # None /\ invite[i].landed /\ invite[i].left > 0
  /\ IF invite[i].target = "team" THEN team[invite[i].team].is = "alive" ELSE room

\* What using invite i gives to u.
Use(i, u) ==
  /\ invite' = [invite EXCEPT ![i].left = @ - 1]
  /\ \/ /\ invite[i].target = "team"
        /\ team' = [team EXCEPT ![invite[i].team].members = @ \cup {u}]
        /\ unsettled' = unsettled \cup {u}
        /\ UNCHANGED rules
     \/ /\ invite[i].target = "room" /\ Len(rules) < MaxRules
        /\ rules' = WithGrant(rules, u, invite[i].preset)
        /\ UNCHANGED <<team, unsettled>>

JoinInvite(i, d) ==
  /\ Valid(i) /\ UserOf[d] \notin known /\ d \notin enrolled
  /\ known' = known \cup {UserOf[d]} /\ enrolled' = enrolled \cup {d}
  /\ Use(i, UserOf[d])
  /\ UNCHANGED <<revoked, recovering, room, socket, subscribed>>

AcceptInvite(i, u) ==
  /\ Valid(i) /\ u \in known \ revoked
  /\ Use(i, u)
  /\ UNCHANGED <<known, enrolled, revoked, recovering, room, socket, subscribed>>

ExpireInvite(i) ==
  /\ invite[i] # None /\ invite[i].landed
  /\ invite' = [invite EXCEPT ![i].left = 0]
  /\ UNCHANGED <<known, enrolled, revoked, recovering, team, room, rules, socket,
                 subscribed, unsettled>>

-----------------------------------------------------------------------------
(* Users and devices. *)

AddDevice(d) ==
  /\ UserOf[d] \in known \ revoked /\ d \notin enrolled
  /\ enrolled' = enrolled \cup {d}
  /\ UNCHANGED <<known, revoked, recovering, team, room, rules, invite, socket,
                 subscribed, unsettled>>

Closing(D) == [d \in Devices |-> IF d \in D /\ socket[d] = "open" THEN "closing" ELSE socket[d]]

\* Mutant: the user's devices are left as they are.
RevokeUserMutSockets(u) ==
  /\ u \in known \ {Owner}
  /\ revoked' = revoked \cup {u} \cup {d \in enrolled : UserOf[d] = u}
  /\ UNCHANGED <<known, enrolled, recovering, team, room, rules, invite, socket, subscribed,
                 unsettled>>

RevokeUser(u) ==
  /\ u \in known \ {Owner}
  /\ revoked' = revoked \cup {u} \cup {d \in enrolled : UserOf[d] = u}
  /\ socket' = Closing({d \in Devices : UserOf[d] = u})
  /\ UNCHANGED <<known, enrolled, recovering, team, room, rules, invite, subscribed,
                 unsettled>>

RevokeDevice(d) ==
  /\ d \in enrolled
  /\ revoked' = revoked \cup {d}
  /\ socket' = Closing({d})
  /\ UNCHANGED <<known, enrolled, recovering, team, room, rules, invite, subscribed,
                 unsettled>>

\* The host gives its owner a new device, and takes it back when the plugin
\* cannot save the token.
RecoverOwnerDevice(d) ==
  /\ UserOf[d] = Owner /\ d \notin enrolled
  /\ enrolled' = enrolled \cup {d} /\ recovering' = recovering \cup {d}
  /\ UNCHANGED <<known, revoked, team, room, rules, invite, socket, subscribed, unsettled>>

RevokeRecoveredDevice(d) ==
  /\ d \in recovering
  /\ revoked' = revoked \cup {d} /\ recovering' = recovering \ {d}
  /\ UNCHANGED <<known, enrolled, team, room, rules, invite, socket, subscribed, unsettled>>

KeepRecoveredDevice(d) ==
  /\ d \in recovering
  /\ recovering' = recovering \ {d}
  /\ UNCHANGED <<known, enrolled, revoked, team, room, rules, invite, socket, subscribed,
                 unsettled>>

-----------------------------------------------------------------------------
(* Connections.  What a connection knows of its user is what hello found. *)

\* Mutant: a token is looked up without asking whether its device is revoked.
HelloMutRevoked(d) ==
  /\ socket[d] = "none" /\ d \in enrolled \ recovering
  /\ UserOf[d] \notin revoked
  /\ socket' = [socket EXCEPT ![d] = "open"]
  /\ UNCHANGED <<known, enrolled, revoked, recovering, team, room, rules, invite,
                 subscribed, unsettled>>

Hello(d) ==
  /\ socket[d] = "none" /\ d \in enrolled \ recovering
  /\ d \notin revoked /\ UserOf[d] \notin revoked
  /\ socket' = [socket EXCEPT ![d] = "open"]
  /\ UNCHANGED <<known, enrolled, revoked, recovering, team, room, rules, invite,
                 subscribed, unsettled>>

\* A message still in a closing socket is handled like any other.
SubscribeRoom(d) ==
  /\ socket[d] # "none" /\ room /\ d \notin subscribed
  /\ Allowed(UserOf[d], "subscribe", NoPath)
  /\ subscribed' = subscribed \cup {d}
  /\ UNCHANGED <<known, enrolled, revoked, recovering, team, room, rules, invite, socket,
                 unsettled>>

UnsubscribeRoom(d) ==
  /\ socket[d] # "none" /\ d \in subscribed
  /\ subscribed' = subscribed \ {d}
  /\ UNCHANGED <<known, enrolled, revoked, recovering, team, room, rules, invite, socket,
                 unsettled>>

SocketCloses(d) ==
  /\ socket[d] # "none"
  /\ socket' = [socket EXCEPT ![d] = "none"] /\ subscribed' = subscribed \ {d}
  /\ UNCHANGED <<known, enrolled, revoked, recovering, team, room, rules, invite, unsettled>>

Next ==
  \/ \E t \in Teams : CreateTeam(t) \/ DeleteTeam(t)
  \/ \E t \in Teams, u \in Users : AddTeamMember(t, u) \/ RevokeMember(t, u)
  \/ \E rule \in AskedRules : CreateAclRule(rule)
  \/ \E k \in DOMAIN rules : DeleteAclRule(k)
  \/ DeleteRoom
  \/ \E i \in Invites, uses \in 1..MaxUses :
       \/ \E t \in Teams : AskTeamInvite(i, t, uses)
       \/ \E preset \in {Reader, Editor} : AskRoomInvite(i, preset, uses)
  \/ \E i \in Invites : CreateInvite(i) \/ ExpireInvite(i)
  \/ \E i \in Invites, d \in Devices : JoinInvite(i, d)
  \/ \E i \in Invites, u \in Users : AcceptInvite(i, u)
  \/ \E u \in Users : RevokeUser(u)
  \/ \E d \in Devices :
       \/ AddDevice(d) \/ RevokeDevice(d)
       \/ RecoverOwnerDevice(d) \/ RevokeRecoveredDevice(d) \/ KeepRecoveredDevice(d)
       \/ Hello(d) \/ SubscribeRoom(d) \/ UnsubscribeRoom(d) \/ SocketCloses(d)

Spec == Init /\ [][Next]_vars

-----------------------------------------------------------------------------
(* The types of the variables. *)
TypeOK ==
  /\ known \subseteq Users /\ enrolled \subseteq Devices
  /\ revoked \subseteq Users \cup Devices /\ recovering \subseteq enrolled
  /\ team \in [Teams -> [is: {"unborn", "alive", "deleted"}, members: SUBSET Users]]
  /\ room \in BOOLEAN /\ rules \in Seq(Rule)
  /\ invite \in [Invites -> Invite \cup {None}]
  /\ socket \in [Devices -> {"none", "open", "closing"}]
  /\ subscribed \subseteq Devices /\ unsettled \subseteq Users

\* A connection that listens to the room belongs to someone who may: whatever
\* rule, membership or team was taken away, its revalidation took the
\* subscription along.  The one exception is the code's: admitting a person to a
\* team, whose rules may deny them, is not revalidated until the next change.
SubscribersAllowed ==
  room => \A d \in subscribed : \/ Allowed(UserOf[d], "subscribe", NoPath)
                                \/ UserOf[d] \in unsettled

\* No connection stays open for a revoked device or a device of a revoked user.
OpenIsActive ==
  \A d \in Devices : socket[d] = "open" => d \notin revoked /\ UserOf[d] \notin revoked

\* A deleted room has no rules and a deleted team no members: nobody gets in by an
\* invite, even one whose row was inserted after the deletion.
DeadHoldNothing ==
  /\ ~room => rules = <<>>
  /\ \A t \in Teams : team[t].is # "alive" => team[t].members = {}

\* What is revoked or deleted holds nothing: no open connection, no rules, no members.
RevocationTakesEffect == TypeOK /\ OpenIsActive /\ DeadHoldNothing

Granted(u, rs) == {rs[k].perms : k \in {j \in DOMAIN rs :
  rs[j].subject = u /\ rs[j].effect = "allow" /\ rs[j].pattern = Whole}}

DeniedElsewhere(u, p, path) ==
  \E k \in DOMAIN rules :
    /\ rules[k].effect = "deny" /\ p \in rules[k].perms /\ path \in Covers[rules[k].pattern]
    /\ rules[k].subject \in TeamsOf(u) \/ (rules[k].subject = u /\ rules[k].pattern # Whole)

\* A whole-room grant is worth something: at once the person has every permission
\* of it at every path, except where a rule about a team of theirs or about a part
\* of the room denies it.  (A person who was blocked could not be let in again.)
GrantTakesEffect ==
  [][\A u \in Users : \A perms \in Granted(u, rules') \ Granted(u, rules) :
       \A p \in perms, path \in Paths :
         Allowed(u, p, path)' \/ DeniedElsewhere(u, p, path)']_vars
=============================================================================
