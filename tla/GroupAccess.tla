---------------------------- MODULE GroupAccess ----------------------------
(***************************************************************************)
(* Who has which role on one dataset.  AuthorizationDB holds the roles of  *)
(* a dataset as entries, each a role with a list of users and a list of    *)
(* groups.  The checks look at the users only, so whoever changes a group, *)
(* or the role of a group, has to change the users of the entries as well: *)
(* a user stands in an entry as often as the groups of the entry have the  *)
(* user as a member, and once more if the role was given by hand.  Nothing *)
(* keeps a list of members from naming a user twice.                       *)
(*                                                                         *)
(* One action is one store operation of a handler of routers/groups.py or  *)
(* routers/authorization.py; handlers interleave, and may die in between.  *)
(***************************************************************************)
EXTENDS Naturals, FiniteSets, Sequences

CONSTANTS
    Users,      \* UserDB documents, by their e-mail
    ReadOnly,   \* the users with read_only_user
    Groups,     \* GroupDB documents
    Creator,    \* who made each group
    Invited,    \* the members it was asked for with
    NewLists,   \* the lists PUT /groups/{id} comes with: not empty
    Roles,      \* the roles requests ask for
    Requests,   \* handlers that may run at the same time
    MaxServed   \* bound: requests served

RoleType == {"owner", "viewer", "uploader", "editor"}
None == "none"

Member == [user : Users, editor : BOOLEAN]
MembersOf(s) == {s[i].user : i \in DOMAIN s}
Has(s, m) == \E i \in DOMAIN s : s[i] = m
Places(s, u) == {i \in DOMAIN s : s[i].user = u}
Times(s, u) == Cardinality(Places(s, u))

\* save_group: whoever makes a group is a member of it, as an editor
Made(g) ==
    LET maker == [user |-> Creator[g], editor |-> TRUE]
    IN  IF Has(Invited[g], maker) THEN Invited[g] ELSE Append(Invited[g], maker)

ASSUME UsersAssumption == ReadOnly \subseteq Users
ASSUME GroupsAssumption == /\ IsFiniteSet(Groups)
                           /\ Creator \in [Groups -> Users]
                           /\ Invited \in [Groups -> Seq(Member)]
ASSUME ListsAssumption == \A s \in NewLists : s \in Seq(Member) /\ s # <<>>
ASSUME RolesAssumption == Roles \subseteq RoleType
ASSUME ServedAssumption == MaxServed \in Nat

\* An AuthorizationDB document: how often user_ids has each user, and group_ids
Bag == [Users -> Nat]
Entry == [role : RoleType, users : Bag, groups : SUBSET Groups]
EntryOf(role, n, G) == [role |-> role, users |-> n, groups |-> G]

Nobody == [u \in Users |-> 0]
Once(v) == [u \in Users |-> IF u = v THEN 1 ELSE 0]
Listed(s) == [u \in Users |-> Times(s, u)]

\* user_ids.append n[u] times; user_ids.remove n[u] times, as long as the user is there
Plus(e, n) == [e EXCEPT !.users = [u \in Users |-> @[u] + n[u]]]

\* Seeded fault: the user is taken off without a look whether the entry has the user.
MinusUnchecked(e, n) == [e EXCEPT !.users = [u \in Users |-> @[u] - n[u]]]

\* Seeded fault: the user is taken off wherever the entry has the user.
MinusEverywhere(e, n) ==
    [e EXCEPT !.users = [u \in Users |-> IF n[u] > 0 THEN 0 ELSE @[u]]]

Minus(e, n) ==
    [e EXCEPT !.users = [u \in Users |-> IF n[u] <= @[u] THEN @[u] - n[u] ELSE 0]]

\* What requests ask for
Calls ==
    [op : {"AddMember", "UpdateMember"}, group : Groups, user : Users,
     role : {"editor", "viewer"}, list : {<<>>}]
    \cup [op : {"RemoveMember"}, group : Groups, user : Users, role : {None}, list : {<<>>}]
    \cup [op : {"EditGroup"}, group : Groups, user : {None}, role : {None}, list : NewLists]
    \cup [op : {"DeleteGroup", "RemoveGroupRole"}, group : Groups, user : {None},
          role : {None}, list : {<<>>}]
    \cup [op : {"SetGroupRole"}, group : Groups, user : {None}, role : Roles, list : {<<>>}]
    \cup [op : {"SetUserRole"}, group : {None}, user : Users, role : Roles, list : {<<>>}]
    \cup [op : {"RemoveUserRole"}, group : {None}, user : Users, role : {None}, list : {<<>>}]

NoCall == [op |-> None, group |-> None, user |-> None, role |-> None, list |-> <<>>]

VARIABLES
    alive,       \* the groups that are not deleted
    members,     \* GroupDB.users of each group, in order
    auth,        \* the AuthorizationDB documents of the dataset, in order of insertion
    req,         \* the handlers: what they serve, the next operation, local variables
    served,      \* requests served so far
    asked,       \* history: the calls that were made
    overlapped,  \* history: two handlers once ran at the same time
    died         \* history: a handler once died

stores == <<alive, members, auth>>
history == <<served, asked, overlapped, died>>
vars == <<alive, members, auth, req, served, asked, overlapped, died>>

\* The documents a handler holds: what it is about to write, and under which id
Copy == [id : Nat, entry : Entry]

Labels == {"idle", "group", "saveMember", "push", "entries", "takeRole", "dropMember",
           "newMembers", "again", "findGroup", "findUser", "saveRemoved", "findRole",
           "saveRole", "count", "saveAgain", "readers", "lastReaders", "insertRole",
           "insertUser"}

Handler ==
    [call : Calls \cup {NoCall}, pc : Labels,
     list   : Seq(Member),   \* users of the group as read (and changed) by the handler
     old    : Seq(Member),   \* users of the group as remove_dataset_group_role read them
     at     : Nat,           \* the place in list of the member that is leaving or looked at
     nth    : Nat,           \* the place in call.list of the member edit_group is adding
     copies : SUBSET Copy]

Idle == [call |-> NoCall, pc |-> "idle", list |-> <<>>, old |-> <<>>, at |-> 0, nth |-> 0,
         copies |-> {}]

Ids == DOMAIN auth
WithGroup(g) == {i \in Ids : g \in auth[i].groups}
WithUser(u) == {i \in Ids : auth[i].users[u] > 0}

\* Seeded fault: any entry of the dataset is found, whatever its role.
WithAnyRole(role) == Ids

WithRole(role) == {i \in Ids : auth[i].role = role}

CopyOf(i) == [id |-> i, entry |-> auth[i]]

\* How often groups of G have the user as a member
Occurrences(G, u) ==
    Cardinality(UNION {{g} \X Places(members[g], u) : g \in G})

-----------------------------------------------------------------------------
Op(r) == req[r].call.op
GroupOf(r) == req[r].call.group
UserOf(r) == req[r].call.user
RoleOf(r) == req[r].call.role
At(r, ops, label) == Op(r) \in ops /\ req[r].pc = label

End(r) == req' = [req EXCEPT ![r] = Idle] /\ UNCHANGED history
Goto(r, label) == req' = [req EXCEPT ![r].pc = label] /\ UNCHANGED history
GotoWith(r, label, copies) ==
    /\ req' = [req EXCEPT ![r] = [@ EXCEPT !.pc = label, !.copies = copies]]
    /\ UNCHANGED history

FirstOf(op) == IF op = "RemoveGroupRole" THEN "again"
               ELSE IF op \in {"SetUserRole", "RemoveUserRole"} THEN "findUser"
               ELSE "group"

\* A request that passed its checks: the dataset is there, and so is the user
Arrive(r) == \E call \in Calls :
    /\ req[r].pc = "idle"
    /\ served < MaxServed
    /\ req' = [req EXCEPT ![r] = [Idle EXCEPT !.call = call, !.pc = FirstOf(call.op)]]
    /\ served' = served + 1
    /\ asked' = asked \cup {call}
    /\ overlapped' = (overlapped \/ \E q \in Requests \ {r} : req[q].pc # "idle")
    /\ UNCHANGED <<stores, died>>

\* GroupDB.get finds nothing: 404
GroupNotFound(r) ==
    /\ req[r].pc \in {"group", "again"}
    /\ GroupOf(r) \notin alive
    /\ End(r)
    /\ UNCHANGED stores

\* group.users.remove(m) takes off the first member that equals m
Dropped(s, i) == [j \in 1..(Len(s) - 1) |-> IF j < i THEN s[j] ELSE s[j + 1]]
FirstAt(s, i, m) == s[i] = m /\ \A j \in 1..(i - 1) : s[j] # m

\* group.replace() raises when the group is gone
Replace(g, s) == members' = IF g \in alive THEN [members EXCEPT ![g] = s] ELSE members

-----------------------------------------------------------------------------
(* add_member and update_member: read the group, save it with the new or   *)
(* changed member; add_member then adds the user to the entries            *)
AddMember(r) ==
    LET g == GroupOf(r)
        new == [user |-> UserOf(r), editor |-> RoleOf(r) = "editor"]
    IN  /\ At(r, {"AddMember"}, "group")
        /\ g \in alive
        /\ \/ /\ UserOf(r) \in MembersOf(members[g])
              /\ End(r)
           \/ /\ UserOf(r) \notin MembersOf(members[g])
              /\ req' = [req EXCEPT ![r] = [@ EXCEPT !.pc = "saveMember",
                                                     !.list = Append(members[g], new)]]
              /\ UNCHANGED history
        /\ UNCHANGED stores

UpdateMember(r) ==
    LET s == members[GroupOf(r)]
    IN  /\ At(r, {"UpdateMember"}, "group")
        /\ GroupOf(r) \in alive
        /\ \/ /\ UserOf(r) \notin MembersOf(s)
              /\ End(r)
           \/ \E i \in Places(s, UserOf(r)) :
                /\ \A j \in Places(s, UserOf(r)) : i <= j
                /\ req' = [req EXCEPT ![r] = [@ EXCEPT
                     !.pc = "saveMember",
                     !.list = [s EXCEPT ![i].editor = (RoleOf(r) = "editor")]]]
                /\ UNCHANGED history
        /\ UNCHANGED stores

SaveMember(r) ==
    /\ At(r, {"AddMember", "UpdateMember"}, "saveMember")
    /\ Replace(GroupOf(r), req[r].list)
    /\ IF Op(r) = "AddMember" /\ GroupOf(r) \in alive THEN Goto(r, "push") ELSE End(r)
    /\ UNCHANGED <<alive, auth>>

Push(r) ==
    /\ At(r, {"AddMember"}, "push")
    /\ auth' = [i \in Ids |-> IF i \in WithGroup(GroupOf(r))
                              THEN Plus(auth[i], Once(UserOf(r))) ELSE auth[i]]
    /\ End(r)
    /\ UNCHANGED <<alive, members>>

-----------------------------------------------------------------------------
(* remove_member, and edit_group for each member that is not in the new    *)
(* list: the user is taken out of the entries as they were read, one after *)
(* the other, and then out of the group                                    *)

\* Seeded fault: the group is saved first and the entries later.
RemoveMemberGroupFirst(r) ==
    LET s == members[GroupOf(r)]
    IN  /\ At(r, {"RemoveMember"}, "group")
        /\ GroupOf(r) \in alive
        /\ \E i \in Places(s, UserOf(r)) :
             /\ \A j \in Places(s, UserOf(r)) : j <= i
             /\ req' = [req EXCEPT ![r] = [@ EXCEPT !.pc = "entries", !.list = s, !.at = i]]
             /\ Replace(GroupOf(r), Dropped(s, i))
        /\ UNCHANGED <<alive, auth, history>>

RemoveMember(r) ==
    LET s == members[GroupOf(r)]
    IN  /\ At(r, {"RemoveMember"}, "group")
        /\ GroupOf(r) \in alive
        /\ \/ /\ UserOf(r) \notin MembersOf(s)
              /\ End(r)
           \/ \E i \in Places(s, UserOf(r)) :
                /\ \A j \in Places(s, UserOf(r)) : j <= i
                /\ req' = [req EXCEPT ![r] = [@ EXCEPT !.pc = "entries", !.list = s, !.at = i]]
                /\ UNCHANGED history
        /\ UNCHANGED stores

\* The loop of edit_group runs over the list it removes from: the member that
\* follows one that was removed is not looked at.
Leaving(s, list, i) == {j \in i..Len(s) : ~ Has(list, s[j])}
GotoNextLeaving(r, s, i) ==
    LET leaving == Leaving(s, req[r].call.list, i)
    IN  /\ \/ /\ leaving = {}
              /\ req' = [req EXCEPT ![r] = [@ EXCEPT !.pc = "newMembers", !.list = s,
                                                     !.nth = 1, !.at = 1]]
           \/ \E j \in leaving :
                /\ \A k \in leaving : j <= k
                /\ req' = [req EXCEPT ![r] = [@ EXCEPT !.pc = "entries", !.list = s, !.at = j]]
        /\ UNCHANGED history

EditGroup(r) ==
    /\ At(r, {"EditGroup"}, "group")
    /\ GroupOf(r) \in alive
    /\ GotoNextLeaving(r, members[GroupOf(r)], 1)
    /\ UNCHANGED stores

Leaver(r) == req[r].list[req[r].at].user

\* remove_member leaves entries without the user alone
ReadEntries(r) ==
    /\ At(r, {"RemoveMember", "EditGroup"}, "entries")
    /\ GotoWith(r, "takeRole", {CopyOf(i) : i \in
          {i \in WithGroup(GroupOf(r)) : Op(r) = "RemoveMember" => i \in WithUser(Leaver(r))}})
    /\ UNCHANGED stores

\* edit_group fails with a ValueError at an entry without the user
TakeRole(r) ==
    /\ At(r, {"RemoveMember", "EditGroup"}, "takeRole")
    /\ \/ /\ req[r].copies = {}
          /\ Goto(r, "dropMember")
          /\ UNCHANGED auth
       \/ \E c \in req[r].copies :
            \/ /\ c.entry.users[Leaver(r)] > 0
               /\ auth' = [auth EXCEPT ![c.id] = Minus(c.entry, Once(Leaver(r)))]
               /\ GotoWith(r, "takeRole", req[r].copies \ {c})
            \/ /\ c.entry.users[Leaver(r)] = 0
               /\ End(r)
               /\ UNCHANGED auth
    /\ UNCHANGED <<alive, members>>

DropMember(r) ==
    /\ At(r, {"RemoveMember", "EditGroup"}, "dropMember")
    /\ \E i \in DOMAIN req[r].list :
         LET s == Dropped(req[r].list, i)
         IN  /\ FirstAt(req[r].list, i, req[r].list[req[r].at])
             /\ Replace(GroupOf(r), s)
             /\ IF Op(r) = "EditGroup" /\ GroupOf(r) \in alive
                THEN GotoNextLeaving(r, s, req[r].at + 1)
                ELSE End(r)
    /\ UNCHANGED <<alive, auth>>

\* edit_group goes through the new list.  It puts a member who is there in the place of
\* each member of that user with another editor flag; the others it adds, and fails at
\* the first: it asks the new Member for its e-mail, which only the user in it has.
Since(r, k) == IF k = req[r].nth THEN req[r].at ELSE 1
Changing(r, k) ==
    LET s == req[r].list
        m == req[r].call.list[k]
    IN  {i \in DOMAIN s : i >= Since(r, k) /\ s[i].user = m.user /\ s[i].editor # m.editor}
ToAdd(r) == {k \in DOMAIN req[r].call.list :
    k >= req[r].nth /\ (~ Has(req[r].list, req[r].call.list[k]) \/ Changing(r, k) # {})}

AddMissing(r, k) ==
    /\ ~ Has(req[r].list, req[r].call.list[k])
    /\ Replace(GroupOf(r), Append(req[r].list, req[r].call.list[k]))
    /\ End(r)

ChangeEditor(r, k) ==
    /\ Has(req[r].list, req[r].call.list[k])
    /\ \E i \in Changing(r, k), j \in DOMAIN req[r].list :
         LET s == Append(Dropped(req[r].list, j), req[r].call.list[k])
         IN  /\ \A h \in Changing(r, k) : i <= h
             /\ FirstAt(req[r].list, j, req[r].list[i])
             /\ Replace(GroupOf(r), s)
             /\ IF GroupOf(r) \in alive
                THEN /\ req' = [req EXCEPT ![r] = [@ EXCEPT !.list = s, !.nth = k, !.at = i + 1]]
                     /\ UNCHANGED history
                ELSE End(r)

NewMembers(r) ==
    /\ At(r, {"EditGroup"}, "newMembers")
    /\ \/ /\ ToAdd(r) = {}
          /\ Replace(GroupOf(r), req[r].list)
          /\ End(r)
       \/ \E k \in ToAdd(r) :
            /\ \A j \in ToAdd(r) : k <= j
            /\ AddMissing(r, k) \/ ChangeEditor(r, k)
    /\ UNCHANGED <<alive, auth>>

DeleteGroup(r) ==
    /\ At(r, {"DeleteGroup"}, "group")
    /\ GroupOf(r) \in alive
    /\ alive' = alive \ {GroupOf(r)}
    /\ End(r)
    /\ UNCHANGED <<members, auth>>

-----------------------------------------------------------------------------
(* The removals of a role, alone or as the first half of setting one: take *)
(* the group with its members, or the user once, out of one entry          *)
SetGroupRole(r) ==
    /\ At(r, {"SetGroupRole"}, "group")
    /\ GroupOf(r) \in alive
    /\ req' = [req EXCEPT ![r] = [@ EXCEPT !.pc = "again", !.list = members[GroupOf(r)]]]
    /\ UNCHANGED <<stores, history>>

RemoveGroupRole(r) ==
    /\ At(r, {"SetGroupRole", "RemoveGroupRole"}, "again")
    /\ GroupOf(r) \in alive
    /\ req' = [req EXCEPT ![r] = [@ EXCEPT !.pc = "findGroup", !.old = members[GroupOf(r)]]]
    /\ UNCHANGED <<stores, history>>

AfterRemoval(r) ==
    IF Op(r) \in {"SetGroupRole", "SetUserRole"} THEN GotoWith(r, "findRole", {}) ELSE End(r)

FindGroupEntry(r) ==
    LET g == GroupOf(r)
        gone(e) == Minus([e EXCEPT !.groups = @ \ {g}], Listed(req[r].old))
    IN  /\ At(r, {"SetGroupRole", "RemoveGroupRole"}, "findGroup")
        /\ \/ /\ WithGroup(g) = {}
              /\ AfterRemoval(r)
           \/ \E i \in WithGroup(g) :
                GotoWith(r, "saveRemoved", {[id |-> i, entry |-> gone(auth[i])]})
        /\ UNCHANGED stores

RemoveUserRole(r) ==
    /\ At(r, {"SetUserRole", "RemoveUserRole"}, "findUser")
    /\ \/ /\ WithUser(UserOf(r)) = {}
          /\ AfterRemoval(r)
       \/ \E i \in WithUser(UserOf(r)) :
            GotoWith(r, "saveRemoved", {[id |-> i, entry |-> Minus(auth[i], Once(UserOf(r)))]})
    /\ UNCHANGED stores

SaveRemoved(r) ==
    /\ req[r].pc = "saveRemoved"
    /\ \E c \in req[r].copies : auth' = [auth EXCEPT ![c.id] = c.entry]
    /\ AfterRemoval(r)
    /\ UNCHANGED <<alive, members>>

-----------------------------------------------------------------------------
(* set_dataset_group_role and set_dataset_user_role: add to an entry that  *)
(* has the role, or make one                                               *)
Readers(r) == [u \in Users |-> IF u \in ReadOnly THEN Times(req[r].list, u) ELSE 0]
Writers(r) == [u \in Users |-> IF u \in ReadOnly THEN 0 ELSE Times(req[r].list, u)]

ShareWithGroup(r) ==
    LET g == GroupOf(r)
        with(e) == Plus([e EXCEPT !.groups = @ \cup {g}], Writers(r))
    IN  /\ At(r, {"SetGroupRole"}, "findRole")
        /\ \/ /\ WithRole(RoleOf(r)) = {}
              /\ Goto(r, "readers")
           \/ \E i \in WithRole(RoleOf(r)) :
                IF g \in auth[i].groups THEN End(r)
                ELSE GotoWith(r, "saveRole", {[id |-> i, entry |-> with(auth[i])]})
        /\ UNCHANGED stores

\* Members who may only read get the role of a viewer.
InsertReaders(r) ==
    /\ Op(r) = "SetGroupRole" /\ req[r].pc \in {"readers", "lastReaders"}
    /\ auth' = IF Readers(r) = Nobody THEN auth
               ELSE Append(auth, EntryOf("viewer", Readers(r), {GroupOf(r)}))
    /\ IF req[r].pc = "readers" THEN Goto(r, "insertRole") ELSE End(r)
    /\ UNCHANGED <<alive, members>>

InsertRole(r) ==
    /\ At(r, {"SetGroupRole"}, "insertRole")
    /\ auth' = IF Writers(r) = Nobody THEN auth
               ELSE Append(auth, EntryOf(RoleOf(r), Writers(r), {GroupOf(r)}))
    /\ End(r)
    /\ UNCHANGED <<alive, members>>

ShareWithUser(r) ==
    LET u == UserOf(r)
    IN  /\ At(r, {"SetUserRole"}, "findRole")
        /\ IF u \in ReadOnly /\ RoleOf(r) # "viewer" THEN End(r)
           ELSE \/ /\ WithRole(RoleOf(r)) = {}
                   /\ Goto(r, "insertUser")
                \/ \E i \in WithRole(RoleOf(r)) :
                     IF auth[i].users[u] > 0 THEN Goto(r, "insertUser")
                     ELSE GotoWith(r, "saveRole", {[id |-> i, entry |-> Plus(auth[i], Once(u))]})
        /\ UNCHANGED stores

\* auth_db.replace() and auth_db.save() after the user or the members were added
SaveRole(r) ==
    /\ req[r].pc \in {"saveRole", "saveAgain"}
    /\ \E c \in req[r].copies : auth' = [auth EXCEPT ![c.id] = c.entry]
    /\ CASE Op(r) = "SetGroupRole" -> Goto(r, "lastReaders")
         [] req[r].pc = "saveAgain" -> End(r)
         [] OTHER -> Goto(r, "count")
    /\ UNCHANGED <<alive, members>>

\* Where the groups of the entry account for the user, the user is added once more.
CountGroups(r) ==
    /\ At(r, {"SetUserRole"}, "count")
    /\ \E c \in req[r].copies :
         IF c.entry.users[UserOf(r)] = Occurrences(c.entry.groups \cap alive, UserOf(r))
         THEN GotoWith(r, "saveAgain", {[c EXCEPT !.entry = Plus(@, Once(UserOf(r)))]})
         ELSE End(r)
    /\ UNCHANGED stores

InsertUser(r) ==
    /\ At(r, {"SetUserRole"}, "insertUser")
    /\ auth' = Append(auth, EntryOf(RoleOf(r), Once(UserOf(r)), {}))
    /\ End(r)
    /\ UNCHANGED <<alive, members>>

-----------------------------------------------------------------------------
\* The worker of a handler dies, or a search index or store call in it raises.
Crash(r) ==
    /\ req[r].pc # "idle"
    /\ req' = [req EXCEPT ![r] = Idle]
    /\ died' = TRUE
    /\ UNCHANGED <<stores, served, asked, overlapped>>

Init ==
    /\ alive = Groups
    /\ members = [g \in Groups |-> Made(g)]
    /\ auth = << EntryOf("owner", Nobody, {}) >>
    /\ req = [r \in Requests |-> Idle]
    /\ served = 0
    /\ asked = {}
    /\ overlapped = FALSE
    /\ died = FALSE

Next == \E r \in Requests :
    \/ Arrive(r) \/ GroupNotFound(r) \/ AddMember(r) \/ UpdateMember(r) \/ SaveMember(r)
    \/ Push(r) \/ RemoveMember(r) \/ EditGroup(r) \/ ReadEntries(r) \/ TakeRole(r)
    \/ DropMember(r) \/ NewMembers(r) \/ DeleteGroup(r) \/ SetGroupRole(r)
    \/ RemoveGroupRole(r) \/ FindGroupEntry(r) \/ RemoveUserRole(r) \/ SaveRemoved(r)
    \/ ShareWithGroup(r) \/ InsertReaders(r) \/ InsertRole(r) \/ ShareWithUser(r)
    \/ SaveRole(r) \/ CountGroups(r) \/ InsertUser(r) \/ Crash(r)

Spec == Init /\ [][Next]_vars

-----------------------------------------------------------------------------
Edited(g) == \E c \in asked : c.op = "EditGroup" /\ c.group = g
ByHand(u, ops) == \E c \in asked : c.op \in ops /\ c.user = u
Memberships(i, u, G) == Occurrences(auth[i].groups \cap G, u)

Joined(u, g) ==
    \/ u \in MembersOf(Made(g))
    \/ \E c \in asked : /\ c.group = g
                        /\ \/ c.op = "AddMember" /\ c.user = u
                           \/ c.op = "EditGroup" /\ u \in MembersOf(c.list)

TypeOK ==
    /\ alive \subseteq Groups
    /\ members \in [Groups -> Seq(Member)]
    /\ auth \in Seq(Entry)
    /\ req \in [Requests -> Handler]
    /\ served \in 0..MaxServed
    /\ asked \subseteq Calls
    /\ overlapped \in BOOLEAN
    /\ died \in BOOLEAN

\* Nobody stands in an entry more often than the groups of the entry have the user as a
\* member (a group that names the user twice counts twice), plus once for a role given by
\* hand: a role is taken away before the membership it comes with and given after it, so
\* that no handler that dies, fails half way or edits a whole group leaves a role behind.
\* Handlers that ran at the same time write documents they read before; and a group that
\* is deleted stays in its entries.
NoRoleBeyondGroups == overlapped \/ \A i \in Ids, u \in Users :
    \/ ~ auth[i].groups \subseteq alive
    \/ auth[i].users[u] <= Memberships(i, u, Groups) + (IF ByHand(u, {"SetUserRole"}) THEN 1 ELSE 0)

\* "user_ids list MUST be kept current": a member of a group who may also write stands in
\* every entry the group is in, in each once for each such membership, whatever was done
\* to groups and their roles before, unless the user's own role was set or taken by hand,
\* one of the user's groups was edited as a whole (edit_group), or a handler died, ran
\* with another or is still at it.  The members of a group who may only read have an entry
\* for viewers of their own, without the others; taking one of the others, or the group,
\* out of an entry takes that user off the viewers all the same, also where another group
\* put the user there.
Writing == {g \in Groups : \A u \in ReadOnly : ~ Joined(u, g)}
Excused(u, role) == \E g \in Groups :
    Joined(u, g) /\ (Edited(g) \/ (role = "viewer" /\ g \notin Writing))
MembersHaveRole ==
    \/ overlapped \/ died \/ \E r \in Requests : req[r].pc # "idle"
    \/ \A i \in Ids, u \in Users \ ReadOnly :
         \/ ByHand(u, {"SetUserRole", "RemoveUserRole"})
         \/ Excused(u, auth[i].role)
         \/ auth[i].users[u] >= Memberships(i, u, alive)

\* Somebody asked for every role that is held: for this user, or for a group the user was
\* a member of at some time, in whatever order handlers that run at the same time, die or
\* write stale documents do their work.  A viewer may be a member of a group with any role.
Shared(g, role) == \E c \in asked :
    c.op = "SetGroupRole" /\ c.group = g /\ role \in {c.role, "viewer"}
Given(u, role) == \E c \in asked : c.op = "SetUserRole" /\ c.user = u /\ c.role = role
Accounted(u, role) ==
    \/ Given(u, role)
    \/ \E g \in Groups : Joined(u, g) /\ Shared(g, role)
RolesWereAsked == \A i \in Ids, u \in Users :
    auth[i].users[u] > 0 => Accounted(u, auth[i].role)

=============================================================================
