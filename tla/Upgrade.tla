------------------------------ MODULE Upgrade ------------------------------
(* How a database of an older release becomes one of this release: the       *)
(* migrations run on the image in memory each time it is opened, and what    *)
(* they made is kept only by the next save. An image is one of the team      *)
(* scoped v0.1 schema, of the released v0.1 schema, or of this one.          *)
EXTENDS Naturals, FiniteSets

CONSTANTS
    Users,          \* users of the server
    Teams,          \* teams of the old database
    Rooms,          \* ids of rooms and of what older releases called shares
    Mounts,         \* mount names
    MaxRules,       \* bound: rules made by hand after the upgrade
    None

VARIABLES
    disk,           \* the saved image
    mem,            \* the image the process works on, None when it is closed
    first,          \* the image the first opening found
    made            \* ids of the rules made by hand since

vars == <<disk, mem, first, made>>

\* A rule of the old table names a role of its team, a user, or some other
\* kind of subject that this release no longer knows.
OldRule == [id : {1}, team : Teams, kind : {"role", "user", "other"},
            subject : Users \cup {"owner", "admin", "member"},
            effect : {"allow", "deny"}, perms : {"reader", "editor"}]

Room == [id : Rooms, owner : Users, mount : Mounts]

Image(schema, owners, members, oldRules, rules, rooms, shares, marks) ==
    [schema |-> schema, owners |-> owners, members |-> members, oldRules |-> oldRules,
     rules |-> rules, rooms |-> rooms, shares |-> shares, marks |-> marks]

---------------------------------------------------------------------------
(* The team scoped schema.                                                  *)

HasRole(img, team, user, role) ==
    [team |-> team, user |-> user, role |-> role, active |-> TRUE] \in img.members

NewRule(id, user, effect, perms) == [id |-> id, user |-> user, effect |-> effect, perms |-> perms]

\* Mutant: the rows of every team are joined, not those of the rule's team.
ExpandedRulesMutAnyTeam(img) ==
    {NewRule(<<r.id, None>>, r.subject, r.effect, r.perms) :
        r \in {s \in img.oldRules : s.kind = "user"}}
    \cup (UNION {{NewRule(<<r.id, u>>, u, r.effect, r.perms) :
                     u \in {v \in Users : \E t \in Teams : HasRole(img, t, v, r.subject)}} :
                 r \in {s \in img.oldRules : s.kind = "role" /\ s.subject \in {"admin", "member"}}})
    \cup {NewRule(<<r.id, img.owners[r.team]>>, img.owners[r.team], r.effect, r.perms) :
            r \in {s \in img.oldRules : s.kind = "role" /\ s.subject = "owner"}}

\* A rule for a user is carried over under its id, one for the admins or the
\* members is written out for each who is one, one for the owner for the owner.
ExpandedRules(img) ==
    {NewRule(<<r.id, None>>, r.subject, r.effect, r.perms) :
        r \in {s \in img.oldRules : s.kind = "user"}}
    \cup (UNION {{NewRule(<<r.id, u>>, u, r.effect, r.perms) :
                     u \in {v \in Users : HasRole(img, r.team, v, r.subject)}} :
                 r \in {s \in img.oldRules : s.kind = "role" /\ s.subject \in {"admin", "member"}}})
    \cup {NewRule(<<r.id, img.owners[r.team]>>, img.owners[r.team], r.effect, r.perms) :
            r \in {s \in img.oldRules : s.kind = "role" /\ s.subject = "owner"}}

\* A share that a room of the same id contradicts.
ShareConflict(img) == \E s \in img.shares, r \in img.rooms : s.id = r.id /\ s # r

\* Two rooms of one owner under one mount name.
MountConflict(img) ==
    \E s, r \in img.shares \cup img.rooms :
        s.id # r.id /\ s.owner = r.owner /\ s.mount = r.mount

\* The migration refuses such a database before it touches it.
Refused(img) == img.schema = "team" /\ (ShareConflict(img) \/ MountConflict(img))

\* Mutant: a database that has rooms keeps only those.
MergedRoomsMutEither(img) == IF img.rooms = {} THEN img.shares ELSE img.rooms

\* Shares without a room of their id become rooms.
MergedRooms(img) ==
    img.rooms \cup {s \in img.shares : \A r \in img.rooms : r.id # s.id}

\* One transaction: the rules are read by the roles of before, then the owners
\* of teams become admins of them.
TeamsMigrated(img) ==
    IF img.schema # "team"
    THEN img
    ELSE [img EXCEPT !.schema = "current",
                     !.rules = ExpandedRules(img),
                     !.members = {IF m.role = "owner" THEN [m EXCEPT !.role = "admin"] ELSE m : m \in @},
                     !.rooms = MergedRooms(img),
                     !.marks = @ \cup {"legacy_v01_migrated"}]

\* A database of either older schema is remembered as one.
Marked(img, old) ==
    [img EXCEPT !.schema = "current",
                !.marks = IF old THEN @ \cup {"legacy_v01_migrated"} ELSE @]

\* Mutant: the mark is not written.
WidenedMutAlways(img) ==
    [img EXCEPT !.rules = {IF r.effect = "deny" /\ r.perms = "reader"
                           THEN [r EXCEPT !.perms = "blocked"] ELSE r : r \in @}]

\* Once per database, a rule that denies exactly what a reader may do is taken
\* for a block of everything.
Widened(img) ==
    IF "acl_reader_denies_blocked" \in img.marks
    THEN img
    ELSE [img EXCEPT !.rules = {IF r.effect = "deny" /\ r.perms = "reader"
                                THEN [r EXCEPT !.perms = "blocked"] ELSE r : r \in @},
                     !.marks = @ \cup {"acl_reader_denies_blocked"}]

IsV01(img) == img.schema \in {"team", "released"}

\* Mutant: what the database was is looked up after the teams are migrated.
MigratedMutLate(img) ==
    Widened(Marked([TeamsMigrated(img) EXCEPT !.marks = img.marks],
                   IsV01(TeamsMigrated(img))))

\* All of it, as an opening runs it.
Migrated(img) == Widened(Marked(TeamsMigrated(img), IsV01(img)))

---------------------------------------------------------------------------
(* The process.                                                             *)

\* A refused database is closed again, as it was.
Open ==
    /\ mem = None /\ ~Refused(disk)
    /\ mem' = Migrated(disk)
    /\ first' = IF first = None THEN disk ELSE first
    /\ UNCHANGED <<disk, made>>

\* The relay's core runs the migrations once more on the open image.
OpenCore ==
    /\ mem # None
    /\ mem' = Migrated(mem)
    /\ UNCHANGED <<disk, first, made>>

Save ==
    /\ mem # None /\ disk # mem
    /\ disk' = mem
    /\ UNCHANGED <<mem, first, made>>

\* An owner denies someone reading, or more, in a room.
AddRule(user, perms) ==
    /\ mem # None /\ Cardinality(made) < MaxRules
    /\ LET id == <<2 + Cardinality(made), None>> IN
        /\ mem' = [mem EXCEPT !.rules = @ \cup {NewRule(id, user, "deny", perms)}]
        /\ made' = made \cup {[id |-> id, perms |-> perms]}
    /\ UNCHANGED <<disk, first>>

\* The process ends, and what was not saved with it.
Stop ==
    /\ mem # None
    /\ mem' = None
    /\ UNCHANGED <<disk, first, made>>

---------------------------------------------------------------------------
\* Whoever owns a team is its owner by role too; the others have one role in
\* it, had one, or none.
Memberships(owners) ==
    {{[team |-> t, user |-> owners[t], role |-> "owner", active |-> TRUE] : t \in Teams}
        \cup {[team |-> p[1], user |-> p[2], role |-> f[p][1], active |-> f[p][2]] :
                p \in {q \in Teams \X Users : owners[q[1]] # q[2] /\ f[q] # None}} :
        f \in [Teams \X Users -> ({"admin", "member"} \X BOOLEAN) \cup {None}]}

TeamImages ==
    {Image("team", o, m, {r}, {}, {}, {}, {}) :
        o \in [Teams -> Users],
        m \in UNION {Memberships(p) : p \in [Teams -> Users]},
        r \in {s \in OldRule : s.kind = "user" <=> s.subject \in Users}}

Coherent(img) ==
    \A t \in Teams : {m.user : m \in {n \in img.members : n.team = t /\ n.role = "owner"}} = {img.owners[t]}

RoomSets == {s \in SUBSET Room : \A a, b \in s : a.id = b.id => a = b}

\* A share's table allows what the room's table forbids, and the other way
\* around; each holds an id once.
RoomImages ==
    {Image("team", o, {}, {}, {}, r, s, {}) :
        o \in {[t \in Teams |-> CHOOSE u \in Users : TRUE]}, r \in RoomSets, s \in RoomSets}

OtherImages ==
    {Image(x[1], [t \in Teams |-> CHOOSE u \in Users : TRUE], {}, {},
           {NewRule(<<1, None>>, v, e, p)}, {}, {}, x[2]) :
        x \in {<<"released", {}>>, <<"current", {}>>, <<"current", {"acl_reader_denies_blocked"}>>},
        v \in Users, e \in {"allow", "deny"}, p \in {"reader", "editor"}}

Init ==
    /\ disk \in {i \in TeamImages : Coherent(i)} \cup RoomImages \cup OtherImages
    /\ mem = None
    /\ first = None
    /\ made = {}

Next ==
    \/ Open \/ OpenCore \/ Save \/ Stop
    \/ \E u \in Users, p \in {"reader", "editor"} : AddRule(u, p)

Spec == Init /\ [][Next]_vars

---------------------------------------------------------------------------
(* What an upgrade must not do.                                             *)

\* The rules that were about a user before: by name, or by a role the user
\* had and was not removed from.
RulesOver(img, user) ==
    {[effect |-> r.effect,
      perms |-> IF r.effect = "deny" /\ r.perms = "reader" THEN "blocked" ELSE r.perms] :
        r \in {s \in img.oldRules :
                \/ s.kind = "user" /\ s.subject = user
                \/ s.kind = "role" /\ HasRole(img, s.team, user, s.subject)}}

\* Nobody gains or loses a rule by the upgrade, however often it is run, cut
\* off or run again.
MembersKeepTheirRules ==
    mem # None /\ first.schema = "team" =>
        \A u \in Users :
            {[effect |-> r.effect, perms |-> r.perms] :
                r \in {s \in mem.rules : s.user = u /\ s.id \notin {x.id : x \in made}}}
            = RulesOver(first, u)

\* A rule an owner made in this release is what the owner made it, also after
\* later openings.
HandMadeRulesStay ==
    mem # None => \A x \in made : \A r \in mem.rules : r.id = x.id => r.perms = x.perms

\* Every room and share of the old database is a room of the new one, once,
\* with its owner and name, and no two of an owner share a name.
RoomsAreKept ==
    mem # None /\ first.schema = "team" =>
        /\ mem.rooms = first.rooms \cup first.shares
        /\ \A a, b \in mem.rooms : (a.owner = b.owner /\ a.mount = b.mount) \/ a.id = b.id => a = b

\* The mark by which the host offers a backup for restoring, and by which it
\* recognises one as restored, tells where the database came from.
MarkTellsTheHistory ==
    mem # None => ("legacy_v01_migrated" \in mem.marks <=> IsV01(first))
=============================================================================
