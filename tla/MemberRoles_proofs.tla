------------------------- MODULE MemberRoles_proofs -------------------------
(***************************************************************************)
(* Proofs about GroupAccess while handlers run one after the other and     *)
(* none dies: a member of a group stands in every entry of the group, as   *)
(* often as the groups of the entry have the user as a member.             *)
(***************************************************************************)
EXTENDS GroupRoles_proofs

USE UsersAssumption, GroupsAssumption, ListsAssumption, RolesAssumption, ServedAssumption

-----------------------------------------------------------------------------
\* The users of whom the property says anything, and the entries it holds for
Owed(u, role) ==
    /\ u \in Users \ ReadOnly
    /\ ~ ByHand(u, {"SetUserRole", "RemoveUserRole"})
    /\ ~ Excused(u, role)
Enough(e, u) == Count(e.groups, u) <= e.users[u]
OneShort(e, u) == Count(e.groups, u) <= e.users[u] + 1
Full(e) == \A u \in Users : Owed(u, e.role) => Enough(e, u)

Stored(i, e) == i \in Ids /\ auth[i] = e
AllFull == \A i, e : Stored(i, e) => Full(e)

\* A member that was saved is not added to the entry yet, or one that is leaving was taken
\* off the entry already.
Lags(r, i, e, u) ==
    /\ GroupOf(r) \in e.groups
    /\ \/ req[r].pc = "push" /\ u = UserOf(r)
       \/ req[r].pc = "takeRole" /\ u = Leaver(r) /\ \A x \in req[r].copies : x.id # i
       \/ req[r].pc = "dropMember" /\ u = Leaver(r)

\* What a handler that is alone knows of the members of its group
KnowsGroup(r, g) ==
    /\ req[r].pc = "saveMember" => \A u \in Users :
         Times(req[r].list, u) <= IF Op(r) = "AddMember" /\ u = UserOf(r)
                                  THEN Times(members[g], u) + 1 ELSE Times(members[g], u)
    /\ req[r].pc \in Taking /\ Op(r) = "RemoveMember" =>
         /\ g \in alive
         /\ Within(req[r].list, members[g])
         /\ req[r].pc = "takeRole" => \A x \in req[r].copies : x.entry.users[Leaver(r)] > 0
    /\ req[r].pc = "findGroup" => Within(req[r].old, members[g])
    /\ Op(r) = "SetGroupRole" /\ req[r].pc \notin {"idle", "group"} =>
         Within(members[g], req[r].list)
Knows(r) ==
    /\ \A g \in Groups : GroupOf(r) = g => KnowsGroup(r, g)
    /\ req[r].pc \in {"saveRemoved", "saveRole", "count", "saveAgain"} =>
         \A x \in req[r].copies : Full(x.entry)

EntriesOK == \A i, e : Stored(i, e) => \A u \in Users : Owed(u, e.role) =>
    Enough(e, u) \/ (OneShort(e, u) /\ \E r \in Requests : Lags(r, i, e, u))
MembersSure == EntriesOK /\ \A r \in Requests : Knows(r)
MembersOK == overlapped \/ died \/ MembersSure

-----------------------------------------------------------------------------
\* Counting after a group got a list with nobody more often than before
Shrinks ==
    \/ members' = members
    \/ \E g \in Groups : OneGroup(g) /\ Within(members'[g], members[g])

LEMMA CountFewer ==
  ASSUME IInv, Shrinks, NEW G \in SUBSET Groups, NEW u \in Users
  PROVE  Count(G, u)' <= Count(G, u) /\ Count(G, u)' \in Nat /\ Count(G, u) \in Nat
<1>1. Count(G, u) \in Nat
  BY CountType
<1>2. CASE members' = members
  <2>1. Count(G, u)' = Count(G, u)
    BY <1>2 DEF Count, CountIn, Parts, Places
  <2> QED
    BY <1>1, <2>1
<1>3. CASE \E g \in Groups : OneGroup(g) /\ Within(members'[g], members[g])
  <2> PICK g \in Groups : OneGroup(g) /\ Within(members'[g], members[g])
    BY <1>3
  <2>1. Times(members'[g], u) <= Times(members[g], u)
    BY DEF Within
  <2>2. Recounted(g)
    BY CountsChanged
  <2>3. /\ Count(G, u)' \in Nat /\ Times(members[g], u) \in Nat /\ Times(members'[g], u) \in Nat
        /\ Count(G, u)' = IF g \in G THEN Count(G, u) - Times(members[g], u) + Times(members'[g], u)
                          ELSE Count(G, u)
    BY <2>2 DEF Recounted
  <2> QED
    BY <1>1, <2>1, <2>3
<1> QED
  BY <1>2, <1>3 DEF Shrinks

LEMMA CountNone ==
  ASSUME NEW u
  PROVE  Count({}, u) = 0
<1>1. Parts(members, {}, u) = {}
  BY DEF Parts
<1> QED
  BY <1>1, FS_EmptySet DEF Count, CountIn

LEMMA CountOne ==
  ASSUME IInv, NEW g \in Groups, NEW u
  PROVE  Count({g}, u) = Times(members[g], u) /\ Times(members[g], u) \in Nat
<1> PICK N \in SUBSET Groups : N = {}
  OBVIOUS
<1>1. g \notin N /\ {g} = Among(N, g)
  BY DEF Among
<1>2. Count(Among(N, g), u) = Count(N, u) + Times(members[g], u) /\ Times(members[g], u) \in Nat
  BY <1>1, CountAdded
<1>3. Count(N, u) = 0
  BY CountNone
<1>4. Count({g}, u) = Count(Among(N, g), u)
  BY <1>1
<1> QED
  BY <1>2, <1>3, <1>4

-----------------------------------------------------------------------------
\* A request that is made takes users out, never in.
LEMMA OwedBefore ==
  ASSUME asked \subseteq asked', NEW u, NEW role, Owed(u, role)'
  PROVE  Owed(u, role)
<1>1. \A v, g : Joined(v, g) => Joined(v, g)'
  BY DEF Joined
<1>2. \A g : Edited(g) => Edited(g)'
  BY DEF Edited
<1>3. \A g : g \in Writing' => g \in Writing
  BY <1>1 DEF Writing
<1>4. Excused(u, role) => Excused(u, role)'
  BY <1>1, <1>2, <1>3 DEF Excused
<1>5. ByHand(u, {"SetUserRole", "RemoveUserRole"}) => ByHand(u, {"SetUserRole", "RemoveUserRole"})'
  BY DEF ByHand
<1> QED
  BY <1>4, <1>5 DEF Owed

LEMMA SameOwed ==
  ASSUME asked' = asked, NEW u, NEW role
  PROVE  Owed(u, role)' <=> Owed(u, role)
  BY DEF Owed, Excused, Joined, Edited, Writing, ByHand

\* Nobody joins.
LEMMA FullStays ==
  ASSUME IInv, NEW e \in Entry, Full(e), asked \subseteq asked', Shrinks
  PROVE  Full(e)'
<1> SUFFICES ASSUME NEW u \in Users, Owed(u, e.role)' PROVE Enough(e, u)'
  BY DEF Full
<1>1. Enough(e, u)
  BY OwedBefore DEF Full
<1>2. e.groups \in SUBSET Groups /\ e.users[u] \in Nat
  BY EntryFacts
<1>3. Count(e.groups, u) \in Nat /\ Count(e.groups, u)' \in Nat
      /\ Count(e.groups, u)' <= Count(e.groups, u)
  BY <1>2, CountFewer
<1> QED
  BY <1>1, <1>2, <1>3 DEF Enough

LEMMA SameEnough ==
  ASSUME members' = members, NEW e, NEW u
  PROVE  (Enough(e, u)' <=> Enough(e, u)) /\ (OneShort(e, u)' <=> OneShort(e, u))
  BY DEF Enough, OneShort, Count, CountIn, Parts, Places

LEMMA SameFull ==
  ASSUME UNCHANGED <<members, asked>>, NEW e
  PROVE  Full(e)' <=> Full(e)
  BY SameOwed, SameEnough DEF Full

LEMMA AllFullStays ==
  ASSUME IInv, AllFull, auth' = auth, asked \subseteq asked', Shrinks
  PROVE  AllFull'
<1> SUFFICES ASSUME NEW i, NEW e, Stored(i, e)' PROVE Full(e)'
  BY DEF AllFull
<1>1. Stored(i, e) /\ e \in Entry
  BY StoresFine DEF Stored, Ids
<1> QED
  BY <1>1, FullStays DEF AllFull

LEMMA WrittenFull ==
  ASSUME IInv, AllFull, UNCHANGED <<members, asked>>, NEW id, NEW e, Full(e),
         auth' = [auth EXCEPT ![id] = e]
  PROVE  AllFull'
<1> SUFFICES ASSUME NEW i, NEW d, Stored(i, d)' PROVE Full(d)'
  BY DEF AllFull
<1>1. d = e \/ Stored(i, d)
  BY DEF Stored, Ids
<1> QED
  BY <1>1, SameFull DEF AllFull

LEMMA InsertedFull ==
  ASSUME IInv, AllFull, UNCHANGED <<members, asked>>, NEW e \in Entry, Full(e),
         auth' = Append(auth, e)
  PROVE  AllFull'
<1> SUFFICES ASSUME NEW i, NEW d, Stored(i, d)' PROVE Full(d)'
  BY DEF AllFull
<1>1. d = e \/ Stored(i, d)
  <2>1. auth \in Seq(Entry) /\ i \in DOMAIN auth' /\ auth'[i] = d
    BY StoresFine DEF Stored, Ids
  <2>2. i \in DOMAIN auth \/ i = Len(auth) + 1
    BY <2>1
  <2>3. i \in DOMAIN auth => auth'[i] = auth[i]
    BY <2>1
  <2>4. auth'[Len(auth) + 1] = e
    BY <2>1
  <2> QED
    BY <2>1, <2>2, <2>3, <2>4 DEF Stored, Ids
<1> QED
  BY <1>1, SameFull DEF AllFull

-----------------------------------------------------------------------------
\* One handler goes on while the others are idle.
LEMMA FullEntries == ASSUME AllFull' PROVE EntriesOK'
  BY DEF AllFull, EntriesOK, Full

LEMMA MembersMove ==
  ASSUME IInv, NEW r \in Requests, \A q \in Requests \ {r} : req[q].pc = "idle",
         NEW h, req' = [req EXCEPT ![r] = h], EntriesOK', Knows(r)'
  PROVE  MembersSure'
<1>1. \A q \in Requests : q # r => req'[q].pc = "idle"
  BY DEF IInv, TypeOK
<1>2. \A q \in Requests : q # r => Knows(q)'
  BY <1>1 DEF Knows, KnowsGroup, Taking
<1> QED
  BY <1>2 DEF MembersSure

LEMMA MembersGo ==
  ASSUME IInv, SoleOK, NEW r \in Requests, req[r].pc # "idle",
         NEW h, req' = [req EXCEPT ![r] = h], EntriesOK', Knows(r)'
  PROVE  MembersSure'
<1>1. \A q \in Requests \ {r} : req[q].pc = "idle"
  BY DEF SoleOK, Alone
<1> QED
  BY <1>1, MembersMove

LEMMA MembersEnd ==
  ASSUME IInv, SoleOK, NEW r \in Requests, req[r].pc # "idle", End(r), AllFull'
  PROVE  MembersSure'
<1>1. req' = [req EXCEPT ![r] = Idle] /\ req'[r] = Idle
  BY DEF End, IInv, TypeOK
<1>2. Knows(r)'
  BY <1>1 DEF Knows, KnowsGroup, Taking, Idle
<1> QED
  BY <1>1, <1>2, FullEntries, MembersGo

\* Only the handler that is at work leaves an entry short of a user.
LEMMA LateEntry ==
  ASSUME SoleOK, MembersSure, NEW r \in Requests, req[r].pc # "idle",
         NEW i, NEW e, Stored(i, e), NEW u \in Users, Owed(u, e.role)
  PROVE  Enough(e, u) \/ (OneShort(e, u) /\ Lags(r, i, e, u))
<1>1. \A q \in Requests : q # r => ~ Lags(q, i, e, u)
  BY DEF SoleOK, Alone, Lags
<1> QED
  BY <1>1 DEF MembersSure, EntriesOK

LEMMA EntriesFull ==
  ASSUME SoleOK, MembersSure, NEW r \in Requests,
         req[r].pc \notin {"idle", "push", "takeRole", "dropMember"}
  PROVE  AllFull
<1>1. \A i, e, u : ~ Lags(r, i, e, u)
  BY DEF Lags
<1> QED
  BY <1>1, LateEntry DEF AllFull, Full

\* A handler that only read goes on, or ends.
LEMMA MembersRead ==
  ASSUME IInv, SoleOK, MembersSure, NEW r \in Requests,
         req[r].pc \notin {"idle", "push", "takeRole", "dropMember"}, UNCHANGED stores,
         NEW h, req' = [req EXCEPT ![r] = h], asked' = asked, Knows(r)'
  PROVE  MembersSure'
<1>1. AllFull
  BY EntriesFull
<1>2. AllFull'
  BY <1>1, AllFullStays DEF stores, Shrinks
<1> QED
  BY <1>2, FullEntries, MembersGo

LEMMA MembersEndRead ==
  ASSUME IInv, SoleOK, MembersSure, NEW r \in Requests,
         req[r].pc \notin {"idle", "push", "takeRole", "dropMember"}, UNCHANGED stores, End(r)
  PROVE  MembersSure'
<1>1. AllFull
  BY EntriesFull
<1>2. AllFull'
  BY <1>1, AllFullStays DEF stores, Shrinks, End, history
<1> QED
  BY <1>2, MembersEnd

-----------------------------------------------------------------------------
\* Members
LEMMA AddMemberSure ==
  ASSUME IInv, SoleOK, MembersSure, NEW r \in Requests, AddMember(r) PROVE MembersSure'
<1> PICK g \in Groups : g = GroupOf(r)
  BY CallFacts DEF AddMember, At
<1> DEFINE m == [user |-> UserOf(r), editor |-> RoleOf(r) = "editor"]
           h == [req[r] EXCEPT !.pc = "saveMember", !.list = Append(members[g], m)]
<1>1. /\ Op(r) = "AddMember" /\ req[r].pc = "group" /\ UserOf(r) \in Users
      /\ members[g] \in Seq(Member) /\ req[r] \in Handler /\ UNCHANGED stores
  BY HandlerFacts, CallFacts, StoresFine DEF AddMember, At
<1>2. CASE End(r)
  BY <1>1, <1>2, MembersEndRead
<1>3. CASE /\ UserOf(r) \notin MembersOf(members[g])
           /\ req' = [req EXCEPT ![r] = h]
           /\ UNCHANGED history
  <2>1. m \in Member /\ m.user = UserOf(r)
    BY <1>1 DEF Member
  <2>2. Append(members[g], m) \in Seq(Member)
    BY <1>1, <2>1, AppendMember
  <2>3. \A u \in Users : Times(Append(members[g], m), u) =
                            IF u = UserOf(r) THEN Times(members[g], u) + 1 ELSE Times(members[g], u)
    <3> TAKE u \in Users
    <3>1. Times(Append(members[g], m), u) = Times(members[g], u) + (IF m.user = u THEN 1 ELSE 0)
      BY <1>1, <2>1, TimesAppended
    <3>2. Times(members[g], u) \in Nat
      BY <1>1, TimesNat
    <3> HIDE DEF m
    <3> QED
      BY <2>1, <3>1, <3>2
  <2>4. /\ req'[r].pc = "saveMember" /\ req'[r].call = req[r].call
        /\ req'[r].list = Append(members[g], m)
    BY <1>1, <1>3 DEF IInv, TypeOK, Handler
  <2>5. members' = members /\ asked' = asked
    BY <1>1, <1>3 DEF stores, history
  <2> HIDE DEF m, h
  <2>6. \A u \in Users : Times(members[g], u) \in Nat
    BY <1>1, TimesNat
  <2>7. KnowsGroup(r, g)'
    BY <1>1, <2>3, <2>4, <2>5, <2>6 DEF KnowsGroup, Taking, Op, UserOf
  <2>8. Knows(r)'
    BY <2>4, <2>7 DEF Knows, GroupOf
  <2> QED
    BY <1>1, <1>3, <2>5, <2>8, MembersRead
<1> QED
  BY <1>1, <1>2, <1>3 DEF AddMember

LEMMA UpdateMemberSure ==
  ASSUME IInv, SoleOK, MembersSure, NEW r \in Requests, UpdateMember(r) PROVE MembersSure'
<1> PICK g \in Groups : g = GroupOf(r)
  BY CallFacts DEF UpdateMember, At
<1> DEFINE s == members[g]
           b == RoleOf(r) = "editor"
<1>1. /\ Op(r) = "UpdateMember" /\ req[r].pc = "group" /\ UNCHANGED stores
      /\ s \in Seq(Member) /\ req[r] \in Handler
  BY HandlerFacts, StoresFine DEF UpdateMember, At
<1>2. CASE End(r)
  BY <1>1, <1>2, MembersEndRead
<1>3. CASE \E i \in Places(s, UserOf(r)) :
             /\ req' = [req EXCEPT ![r] = [@ EXCEPT !.pc = "saveMember", !.list = [s EXCEPT ![i].editor = b]]]
             /\ UNCHANGED history
  <2> PICK i \in Places(s, UserOf(r)) :
             /\ req' = [req EXCEPT ![r] = [@ EXCEPT !.pc = "saveMember", !.list = [s EXCEPT ![i].editor = b]]]
             /\ UNCHANGED history
    BY <1>3
  <2> DEFINE t == [s EXCEPT ![i].editor = b]
             h == [req[r] EXCEPT !.pc = "saveMember", !.list = t]
  <2>1. req' = [req EXCEPT ![r] = h]
    OBVIOUS
  <2>2. Within(t, s)
    <3> PICK q \in Seq(Member), c \in BOOLEAN : q = s /\ c = b
      BY <1>1
    <3>1. i \in DOMAIN q
      BY DEF Places
    <3>2. Within(Reset(q, i, c), q)
      BY <3>1, SameAfterReset
    <3> QED
      BY <3>2 DEF Reset
  <2>3. h.pc = "saveMember" /\ h.call = req[r].call /\ h.list = t
    BY <1>1 DEF Handler
  <2>4. members' = members /\ asked' = asked
    BY <1>1 DEF stores, history
  <2> HIDE DEF b, t, h
  <2>5. req'[r] = h
    BY <2>1 DEF IInv, TypeOK
  <2>7. KnowsGroup(r, g)'
    BY <1>1, <2>2, <2>3, <2>4, <2>5 DEF KnowsGroup, Taking, Op, UserOf, Within
  <2>8. Knows(r)'
    BY <2>3, <2>5, <2>7 DEF Knows, GroupOf
  <2> QED
    BY <1>1, <2>1, <2>4, <2>8, MembersRead
<1> QED
  BY <1>1, <1>2, <1>3 DEF UpdateMember

\* The new member is one short in the entries of the group; nobody else has joined.
LEMMA SaveMemberSure ==
  ASSUME IInv, SoleOK, MembersSure, NEW r \in Requests, SaveMember(r) PROVE MembersSure'
<1> PICK g \in Groups : g = GroupOf(r)
  BY CallFacts DEF SaveMember, At
<1> PICK s \in Seq(Member) : s = req[r].list
  BY HandlerFacts
<1>1. /\ req[r].pc = "saveMember" /\ Op(r) \in {"AddMember", "UpdateMember"}
      /\ UNCHANGED <<alive, auth>> /\ asked' = asked /\ Replace(g, s)
  BY DEF SaveMember, At, End, Goto, history
<1>2. \A u \in Users : Times(s, u) <= IF Op(r) = "AddMember" /\ u = UserOf(r)
                                         THEN Times(members[g], u) + 1 ELSE Times(members[g], u)
  BY <1>1 DEF MembersSure, Knows, KnowsGroup
<1>3. AllFull
  BY <1>1, EntriesFull
<1>4. /\ OneGroup(g) /\ (g \in alive => members'[g] = s) /\ (g \notin alive => members' = members)
      /\ Recounted(g)
  BY <1>1, ReplacedGroup, CountsChanged
<1>5. CASE End(r) /\ (Op(r) = "UpdateMember" \/ g \notin alive)
  <2>1. Shrinks
    BY <1>2, <1>4, <1>5 DEF Shrinks, Within
  <2>2. AllFull'
    BY <1>1, <1>3, <2>1, AllFullStays
  <2> QED
    BY <1>1, <1>5, <2>2, MembersEnd
<1>6. CASE Op(r) = "AddMember" /\ g \in alive /\ Goto(r, "push")
  <2>1. /\ req' = [req EXCEPT ![r] = req'[r]] /\ req'[r].pc = "push"
        /\ req'[r].call = req[r].call
    BY <1>6, AfterGoto
  <2> PICK v \in Users : v = UserOf(r)
    BY <1>6, CallFacts
  <2>2. /\ members'[g] = s
        /\ \A u \in Users : Times(s, u) <= IF u = v THEN Times(members[g], u) + 1 ELSE Times(members[g], u)
    BY <1>2, <1>4, <1>6
  <2>3. ASSUME NEW i, NEW e, Stored(i, e)', NEW u \in Users, Owed(u, e.role)'
        PROVE  Enough(e, u)' \/ (OneShort(e, u)' /\ Lags(r, i, e, u)')
    <3>1. Stored(i, e) /\ e \in Entry
      BY <1>1, <2>3, StoresFine DEF Stored, Ids
    <3>2. Owed(u, e.role)
      BY <1>1, <2>3, SameOwed
    <3>3. Enough(e, u) /\ e.groups \in SUBSET Groups /\ e.users[u] \in Nat
      BY <1>3, <3>1, <3>2, EntryFacts DEF AllFull, Full
    <3>4. /\ Count(e.groups, u)' \in Nat /\ Times(members[g], u) \in Nat /\ Times(s, u) \in Nat
          /\ Count(e.groups, u)' =
               IF g \in e.groups THEN Count(e.groups, u) - Times(members[g], u) + Times(s, u)
               ELSE Count(e.groups, u)
      BY <1>4, <2>2, <3>3 DEF Recounted, Count
    <3>5. Count(e.groups, u) \in Nat /\ Count(e.groups, u) <= e.users[u]
      BY <3>3, CountType DEF Enough
    <3>6. CASE g \notin e.groups \/ u # v
      <4>1. Count(e.groups, u)' <= e.users[u]
        BY <2>2, <3>3, <3>4, <3>5, <3>6
      <4> QED
        BY <4>1 DEF Enough
    <3>7. CASE g \in e.groups /\ u = v
      <4>1. Lags(r, i, e, u)'
        BY <2>1, <3>7 DEF Lags, GroupOf, UserOf
      <4>2. Count(e.groups, u)' <= e.users[u] + 1
        BY <2>2, <3>3, <3>4, <3>5, <3>7
      <4> QED
        BY <4>1, <4>2 DEF OneShort
    <3> QED
      BY <3>6, <3>7
  <2>4. EntriesOK'
    BY <2>3 DEF EntriesOK
  <2>5. Knows(r)'
    BY <1>6, <2>1 DEF Knows, KnowsGroup, Taking, Op
  <2> QED
    BY <1>1, <2>1, <2>4, <2>5, MembersGo
<1> QED
  BY <1>1, <1>5, <1>6 DEF SaveMember

\* Roles and groups stay as they are.
LEMMA PlusRole ==
  ASSUME NEW e \in Entry, NEW n
  PROVE  /\ Plus(e, n).role = e.role /\ Minus(e, n).role = e.role
         /\ Minus(e, n).groups = e.groups
  BY DEF Plus, Minus, Entry

\* Who is taken off once is one short at most.
LEMMA MinusOne ==
  ASSUME IInv, NEW e \in Entry, NEW v \in Users, NEW u \in Users, Enough(e, u)
  PROVE  Enough(Minus(e, Once(v)), u) \/ (OneShort(Minus(e, Once(v)), u) /\ u = v)
<1> DEFINE f == Minus(e, Once(v))
<1>1. /\ f.users[u] = IF u = v /\ e.users[u] > 0 THEN e.users[u] - 1 ELSE e.users[u]
      /\ f.groups = e.groups /\ e.users[u] \in Nat
  BY OnceUsers
<1> HIDE DEF f
<1>2. Count(e.groups, u) \in Nat /\ Count(e.groups, u) <= e.users[u]
  BY EntryFacts, CountType DEF Enough
<1>3. Enough(f, u) \/ (OneShort(f, u) /\ u = v)
  BY <1>1, <1>2 DEF Enough, OneShort
<1> QED
  BY <1>3 DEF f

\* A user who was one short and is added has enough.
LEMMA PlusFull ==
  ASSUME IInv, NEW e \in Entry, NEW v \in Users,
         \A u \in Users : Owed(u, e.role) => Enough(e, u) \/ (OneShort(e, u) /\ u = v)
  PROVE  Full(Plus(e, Once(v)))
<1> DEFINE f == Plus(e, Once(v))
<1>1. f.role = e.role
  BY PlusRole
<1>2. ASSUME NEW u \in Users
      PROVE  /\ f.users[u] = IF u = v THEN e.users[u] + 1 ELSE e.users[u]
             /\ f.groups = e.groups /\ e.users[u] \in Nat
  BY OnceUsers
<1> HIDE DEF f
<1>3. ASSUME NEW u \in Users, Owed(u, e.role) PROVE Count(e.groups, u) <= f.users[u]
  <2>1. \/ Count(e.groups, u) <= e.users[u]
        \/ Count(e.groups, u) <= e.users[u] + 1 /\ u = v
    BY <1>3 DEF Enough, OneShort
  <2>2. Count(e.groups, u) \in Nat
    BY EntryFacts, CountType
  <2> QED
    BY <1>2, <2>1, <2>2
<1> QED
  BY <1>1, <1>2, <1>3 DEF Full, Enough, f

\* Every entry of the group gets the new member.
LEMMA PushSure ==
  ASSUME IInv, SoleOK, MembersSure, NEW r \in Requests, Push(r) PROVE MembersSure'
<1> PICK g \in Groups, v \in Users : g = GroupOf(r) /\ v = UserOf(r)
  BY CallFacts DEF Push, At
<1>1. /\ req[r].pc = "push" /\ End(r) /\ UNCHANGED <<alive, members, asked>>
      /\ DOMAIN auth' = DOMAIN auth
      /\ \A i \in DOMAIN auth :
           auth'[i] = IF i \in WithGroup(g) THEN Plus(auth[i], Once(v)) ELSE auth[i]
  BY DEF Push, At, End, history, Ids
<1>2. ASSUME NEW i, NEW d, Stored(i, d)' PROVE Full(d)
  <2>1. i \in DOMAIN auth /\ d = IF i \in WithGroup(g) THEN Plus(auth[i], Once(v)) ELSE auth[i]
    BY <1>1, <1>2 DEF Stored, Ids
  <2> PICK e \in Entry : e = auth[i]
    BY <2>1, StoresFine
  <2>2. Stored(i, e) /\ (i \in WithGroup(g) <=> g \in e.groups)
    BY <2>1 DEF Stored, WithGroup, Ids
  <2>3. ASSUME NEW u \in Users, Owed(u, e.role)
        PROVE  Enough(e, u) \/ (OneShort(e, u) /\ g \in e.groups /\ u = v)
    BY <1>1, <2>2, <2>3, LateEntry DEF Lags
  <2>4. CASE g \notin e.groups
    BY <2>1, <2>2, <2>3, <2>4 DEF Full
  <2>5. CASE g \in e.groups
    <3>1. Full(Plus(e, Once(v)))
      BY <2>3, PlusFull
    <3> QED
      BY <2>1, <2>2, <2>5, <3>1
  <2> QED
    BY <2>4, <2>5
<1>3. AllFull'
  BY <1>1, <1>2, SameFull DEF AllFull
<1> QED
  BY <1>1, <1>3, MembersEnd

LEMMA RemoveMemberSure ==
  ASSUME IInv, SoleOK, MembersSure, NEW r \in Requests, RemoveMember(r) PROVE MembersSure'
<1> PICK g \in Groups : g = GroupOf(r)
  BY CallFacts DEF RemoveMember, At
<1> DEFINE s == members[g]
<1>1. /\ Op(r) = "RemoveMember" /\ req[r].pc = "group" /\ req[r] \in Handler
      /\ UNCHANGED stores /\ g \in alive
  BY HandlerFacts DEF RemoveMember, At
<1>2. CASE End(r)
  BY <1>1, <1>2, MembersEndRead
<1>3. CASE \E i \in Places(s, UserOf(r)) :
             /\ req' = [req EXCEPT ![r] = [@ EXCEPT !.pc = "entries", !.list = s, !.at = i]]
             /\ UNCHANGED history
  <2> PICK i \in Places(s, UserOf(r)) :
             /\ req' = [req EXCEPT ![r] = [@ EXCEPT !.pc = "entries", !.list = s, !.at = i]]
             /\ UNCHANGED history
    BY <1>3
  <2> DEFINE h == [req[r] EXCEPT !.pc = "entries", !.list = s, !.at = i]
  <2>1. req' = [req EXCEPT ![r] = h] /\ UNCHANGED <<asked, members, alive>>
    BY <1>1 DEF history, stores
  <2>2. h.pc = "entries" /\ h.call = req[r].call /\ h.list = s
    BY <1>1 DEF Handler
  <2> HIDE DEF h
  <2>3. req'[r] = h
    BY <2>1 DEF IInv, TypeOK
  <2>4. Within(s, s)
    BY StoresFine, WithinSelf
  <2>5. KnowsGroup(r, g)'
    BY <1>1, <2>1, <2>2, <2>3, <2>4 DEF KnowsGroup, Taking, Op, Within
  <2>6. Knows(r)'
    BY <2>2, <2>3, <2>5 DEF Knows, GroupOf
  <2> QED
    BY <1>1, <2>1, <2>6, MembersRead
<1> QED
  BY <1>1, <1>2, <1>3 DEF RemoveMember

\* What a handler of remove_member knows when it takes the user off entries
LEMMA Removing ==
  ASSUME IInv, SoleOK, MembersSure, NEW r \in Requests, req[r].pc \in Taking,
         Op(r) = "RemoveMember", NEW g \in Groups, g = GroupOf(r)
  PROVE  /\ g \in alive /\ Within(req[r].list, members[g])
         /\ req[r].list \in Seq(Member) /\ req[r].at \in DOMAIN req[r].list
         /\ Leaver(r) \in Users
<1>1. /\ KnowsGroup(r, g) /\ req[r].at \in DOMAIN req[r].list /\ req[r].list \in Seq(Member)
  BY HandlerFacts DEF MembersSure, Knows, SoleOK, LeaveSure
<1>2. Leaver(r) \in Users
  BY <1>1, UsersOfList DEF Leaver, MembersOf
<1> QED
  BY <1>1, <1>2 DEF KnowsGroup

LEMMA ReadEntriesSure ==
  ASSUME IInv, SoleOK, MembersSure, NEW r \in Requests, ReadEntries(r), Op(r) = "RemoveMember"
  PROVE  MembersSure'
<1> PICK g \in Groups : g = GroupOf(r)
  BY CallFacts
<1> DEFINE taken == {i \in WithGroup(g) : i \in WithUser(Leaver(r))}
           copies == {CopyOf(i) : i \in taken}
<1>1. /\ req[r].pc = "entries" /\ GotoWith(r, "takeRole", copies) /\ UNCHANGED stores
  BY DEF ReadEntries, At
<1>2. /\ req' = [req EXCEPT ![r] = req'[r]] /\ asked' = asked
      /\ req'[r].pc = "takeRole" /\ req'[r].call = req[r].call /\ req'[r].list = req[r].list
      /\ req'[r].at = req[r].at /\ req'[r].copies = copies
  BY <1>1, AfterGotoWith
<1>3. \A x \in copies : x.entry.users[Leaver(r)] > 0
  BY DEF CopyOf, WithUser
<1> HIDE DEF copies
<1>4. Leaver(r)' = Leaver(r) /\ UNCHANGED <<members, alive>>
  BY <1>1, <1>2 DEF Leaver, stores
<1>5. g \in alive /\ Within(req[r].list, members[g])
  BY <1>1, Removing DEF Taking
<1>6. KnowsGroup(r, g)'
  BY <1>2, <1>3, <1>4, <1>5 DEF KnowsGroup, Taking, Op, Within
<1>7. Knows(r)'
  BY <1>2, <1>6 DEF Knows, GroupOf
<1> QED
  BY <1>1, <1>2, <1>7, MembersRead

\* An entry the user was taken off is one short, until the user leaves the group.
LEMMA TakeRoleSure ==
  ASSUME IInv, SoleOK, MembersSure, NEW r \in Requests, TakeRole(r), Op(r) = "RemoveMember"
  PROVE  MembersSure'
<1> PICK g \in Groups : g = GroupOf(r)
  BY CallFacts
<1>1. /\ req[r].pc = "takeRole" /\ UNCHANGED <<alive, members>>
      /\ \A x \in req[r].copies : x.id \in WithGroup(g) /\ x.entry = auth[x.id]
  BY DEF TakeRole, At, SoleOK, LeaveSure
<1> PICK v \in Users : v = Leaver(r)
  BY <1>1, Removing DEF Taking
<1>2. g \in alive /\ Within(req[r].list, members[g])
  BY <1>1, Removing DEF Taking
<1>3. \A x \in req[r].copies : x.entry.users[v] > 0
  BY <1>1 DEF MembersSure, Knows, KnowsGroup, Taking
<1>4. ASSUME req'[r].pc \in {"takeRole", "dropMember"}, req'[r].call = req[r].call,
             req'[r].list = req[r].list, req'[r].at = req[r].at, asked' = asked,
             req'[r].copies \subseteq req[r].copies
      PROVE  Knows(r)' /\ Leaver(r)' = v /\ GroupOf(r)' = g
  <2>1. Leaver(r)' = v /\ GroupOf(r)' = g
    BY <1>4 DEF Leaver, GroupOf
  <2>2. KnowsGroup(r, g)'
    BY <1>1, <1>2, <1>3, <1>4, <2>1 DEF KnowsGroup, Taking, Op, Within
  <2> QED
    BY <1>4, <2>1, <2>2 DEF Knows
<1>5. ASSUME NEW i, NEW e, Stored(i, e), NEW u \in Users, Owed(u, e.role)
      PROVE  Enough(e, u) \/ (OneShort(e, u) /\ g \in e.groups /\ u = v
                                /\ \A x \in req[r].copies : x.id # i)
  BY <1>1, <1>5, LateEntry DEF Lags
<1>6. CASE req[r].copies = {} /\ Goto(r, "dropMember") /\ UNCHANGED auth
  <2>1. /\ req' = [req EXCEPT ![r] = req'[r]] /\ req'[r].pc = "dropMember"
        /\ req'[r].call = req[r].call /\ req'[r].list = req[r].list /\ req'[r].at = req[r].at
        /\ req'[r].copies = req[r].copies /\ asked' = asked
    BY <1>6, AfterGoto
  <2>2. Knows(r)' /\ Leaver(r)' = v /\ GroupOf(r)' = g
    BY <1>4, <2>1
  <2>3. ASSUME NEW i, NEW e, Stored(i, e)', NEW u \in Users, Owed(u, e.role)'
        PROVE  Enough(e, u)' \/ (OneShort(e, u)' /\ Lags(r, i, e, u)')
    <3>1. Stored(i, e) /\ Owed(u, e.role)
      BY <1>6, <2>1, <2>3, SameOwed DEF Stored, Ids
    <3>2. Enough(e, u) \/ (OneShort(e, u) /\ g \in e.groups /\ u = v)
      BY <1>5, <3>1
    <3>3. g \in e.groups /\ u = v => Lags(r, i, e, u)'
      BY <2>1, <2>2 DEF Lags
    <3> QED
      BY <1>1, <3>2, <3>3, SameEnough
  <2>4. EntriesOK'
    BY <1>1, <2>1, <2>3 DEF EntriesOK, MembersSure
  <2> QED
    BY <1>1, <2>1, <2>2, <2>4, MembersGo
<1>7. ASSUME NEW x \in req[r].copies, auth' = [auth EXCEPT ![x.id] = Minus(x.entry, Once(v))],
             GotoWith(r, "takeRole", req[r].copies \ {x})
      PROVE  MembersSure'
  <2> DEFINE e == x.entry
             f == Minus(e, Once(v))
             copies == req[r].copies \ {x}
  <2>1. /\ req' = [req EXCEPT ![r] = req'[r]] /\ asked' = asked /\ req'[r].pc = "takeRole"
        /\ req'[r].call = req[r].call /\ req'[r].list = req[r].list
        /\ req'[r].at = req[r].at /\ req'[r].copies = copies
    BY <1>7, AfterGotoWith
  <2>2. Knows(r)' /\ Leaver(r)' = v /\ GroupOf(r)' = g
    BY <1>4, <2>1
  <2>3. Stored(x.id, e) /\ e \in Entry /\ g \in e.groups /\ e.users[v] > 0
    BY <1>1, <1>3, StoresFine DEF Stored, WithGroup, Ids
  <2>4. f.groups = e.groups /\ f.role = e.role
    BY <2>3, PlusRole
  <2>5. \A y \in copies : y.id # x.id
    <3>1. \A y \in req[r].copies : y \in Copy /\ y = [id |-> y.id, entry |-> y.entry]
      BY HandlerFacts DEF Copy
    <3> QED
      BY <1>1, <3>1
  <2> HIDE DEF f, e, copies
  <2>6. ASSUME NEW i, NEW d, Stored(i, d)', NEW u \in Users, Owed(u, d.role)'
        PROVE  Enough(d, u)' \/ (OneShort(d, u)' /\ Lags(r, i, d, u)')
    <3>1. Owed(u, d.role)
      BY <2>1, <2>6, SameOwed
    <3>2. CASE i = x.id
      <4>1. d = f
        BY <1>7, <2>3, <2>6, <3>2 DEF Stored, Ids, f, e
      <4>2. Enough(e, u)
        BY <1>5, <2>3, <2>4, <3>1, <4>1
      <4>3. Enough(f, u) \/ (OneShort(f, u) /\ u = v)
        BY <2>3, <4>2, MinusOne DEF f
      <4>4. u = v => Lags(r, i, d, u)'
        BY <2>1, <2>2, <2>3, <2>4, <2>5, <3>2, <4>1 DEF Lags
      <4> QED
        BY <1>1, <4>1, <4>3, <4>4, SameEnough
    <3>3. CASE i # x.id
      <4>1. Stored(i, d)
        BY <1>7, <2>6, <3>3 DEF Stored, Ids
      <4>2. Enough(d, u) \/ (OneShort(d, u) /\ g \in d.groups /\ u = v
                               /\ \A y \in req[r].copies : y.id # i)
        BY <1>5, <3>1, <4>1
      <4>3. g \in d.groups /\ u = v /\ (\A y \in req[r].copies : y.id # i) => Lags(r, i, d, u)'
        BY <2>1, <2>2 DEF Lags, copies
      <4> QED
        BY <1>1, <4>2, <4>3, SameEnough
    <3> QED
      BY <3>2, <3>3
  <2>7. EntriesOK'
    BY <1>1, <2>1, <2>6 DEF EntriesOK, MembersSure
  <2> QED
    BY <1>1, <2>1, <2>2, <2>7, MembersGo
<1>8. CASE \E x \in req[r].copies : x.entry.users[v] = 0
  BY <1>3, <1>8
<1> QED
  BY <1>6, <1>7, <1>8 DEF TakeRole

\* Where the user was taken off, the group has the user once less.
LEMMA DropMemberSure ==
  ASSUME IInv, SoleOK, MembersSure, NEW r \in Requests, DropMember(r), Op(r) = "RemoveMember"
  PROVE  MembersSure'
<1> PICK g \in Groups : g = GroupOf(r)
  BY CallFacts
<1>1. /\ req[r].pc = "dropMember" /\ End(r) /\ UNCHANGED <<alive, auth>> /\ asked' = asked
  BY DEF DropMember, At, End, history
<1> PICK s \in Seq(Member), v \in Users : s = req[r].list /\ v = Leaver(r)
  BY <1>1, Removing DEF Taking
<1>2. g \in alive /\ Within(s, members[g]) /\ v = s[req[r].at].user
  BY <1>1, Removing DEF Taking, Leaver
<1> PICK k \in DOMAIN s : s[k].user = v /\ Replace(g, Dropped(s, k))
  BY <1>2 DEF DropMember, FirstAt
<1>3. PICK t \in Seq(Member) : t = Dropped(s, k)
  <2>1. k \in Nat
    OBVIOUS
  <2> QED
    BY <2>1, DroppedMember
<1>4. OneGroup(g) /\ members'[g] = t
  BY <1>2, <1>3, ReplacedGroup
<1>5. Recounted(g)
  BY <1>4, CountsChanged
<1>6. ASSUME NEW u \in Users
      PROVE  /\ Times(t, u) = Times(s, u) - (IF v = u THEN 1 ELSE 0) /\ Times(s, u) \in Nat
             /\ Times(s, u) <= Times(members[g], u)
  <2>1. Times(t, u) = Times(s, u) - (IF s[k].user = u THEN 1 ELSE 0)
    BY <1>3, TimesDropped
  <2>2. Times(s, u) \in Nat
    BY TimesNat
  <2>3. Times(s, u) <= Times(members[g], u)
    BY <1>2 DEF Within
  <2> QED
    BY <2>1, <2>2, <2>3
<1>7. ASSUME NEW i, NEW e, Stored(i, e)', NEW u \in Users, Owed(u, e.role)' PROVE Enough(e, u)'
  <2>1. Stored(i, e) /\ Owed(u, e.role) /\ e \in Entry
    BY <1>1, <1>7, SameOwed, StoresFine DEF Stored, Ids
  <2>2. Enough(e, u) \/ (OneShort(e, u) /\ g \in e.groups /\ u = v)
    BY <1>1, <2>1, LateEntry DEF Lags
  <2>3. /\ e.groups \in SUBSET Groups /\ e.users[u] \in Nat
        /\ Count(e.groups, u) \in Nat
    BY <2>1, EntryFacts, CountType
  <2>4. /\ Times(members[g], u) \in Nat /\ Times(t, u) \in Nat
        /\ Count(e.groups, u)' =
             IF g \in e.groups THEN Count(e.groups, u) - Times(members[g], u) + Times(t, u)
             ELSE Count(e.groups, u)
    BY <1>4, <1>5, <2>3 DEF Recounted, Count
  <2>5. CASE Count(e.groups, u) <= e.users[u]
    <3>1. Times(t, u) <= Times(members[g], u)
      BY <1>6, <2>4
    <3>2. Count(e.groups, u)' <= e.users[u]
      BY <2>3, <2>4, <2>5, <3>1
    <3> QED
      BY <3>2 DEF Enough
  <2>6. CASE Count(e.groups, u) <= e.users[u] + 1 /\ g \in e.groups /\ u = v
    <3>1. Count(e.groups, u)' <= e.users[u]
      BY <1>6, <2>3, <2>4, <2>6
    <3> QED
      BY <3>1 DEF Enough
  <2> QED
    BY <2>2, <2>5, <2>6 DEF Enough, OneShort
<1>8. AllFull'
  BY <1>7 DEF AllFull, Full
<1> QED
  BY <1>1, <1>8, MembersEnd

\* Whoever is owed anything never was in a group that is edited as a whole.
LEMMA EditedAlone ==
  ASSUME IInv, NEW r \in Requests, Op(r) = "EditGroup", NEW g, g = GroupOf(r), NEW u, NEW role,
         Owed(u, role)
  PROVE  g \in Groups /\ ~ Joined(u, g) /\ Edited(g)
<1>1. g \in Groups /\ Edited(g)
  BY CallFacts DEF Edited, Op, GroupOf
<1> QED
  BY <1>1 DEF Owed, Excused

LEMMA EditGoes ==
  ASSUME IInv, SoleOK, NEW r \in Requests, Op(r) = "EditGroup", req[r].pc # "idle",
         NEW h, req' = [req EXCEPT ![r] = h], h.call = req[r].call,
         h.pc \in {"entries", "takeRole", "dropMember", "newMembers"}, AllFull'
  PROVE  MembersSure'
<1>1. req'[r] = h
  BY DEF IInv, TypeOK
<1>2. Knows(r)'
  BY <1>1 DEF Knows, KnowsGroup, Taking, Op
<1> QED
  BY <1>2, FullEntries, MembersGo

LEMMA EditEntries ==
  ASSUME IInv, SoleOK, MembersSure, NEW r \in Requests, Op(r) = "EditGroup",
         req[r].pc \in {"group", "entries", "takeRole", "dropMember", "newMembers"}
  PROVE  AllFull
<1> SUFFICES ASSUME NEW i, NEW e, Stored(i, e), NEW u \in Users, Owed(u, e.role)
             PROVE  Enough(e, u)
  BY DEF AllFull, Full
<1>1. ASSUME Lags(r, i, e, u) PROVE FALSE
  <2>1. req[r].pc \in Taking /\ u = Leaver(r)
    BY <1>1 DEF Lags, Taking
  <2>2. /\ req[r].at \in DOMAIN req[r].list
        /\ ListInv(req[r].list, GroupOf(r))
    BY <2>1, HandlerFacts DEF SoleOK, LeaveSure
  <2>3. Joined(u, GroupOf(r))
    BY <2>1, <2>2 DEF ListInv, Leaver, MembersOf
  <2> QED
    BY <2>3, EditedAlone
<1> QED
  BY <1>1, LateEntry

\* The entries and the group change for members of the group only.
Alike(d, e) == /\ d.role = e.role /\ d.groups = e.groups
               /\ \A u \in Users : Owed(u, e.role) => d.users[u] = e.users[u]

LEMMA EditFull ==
  ASSUME IInv, IInv', AllFull, NEW r \in Requests, Op(r) = "EditGroup", asked' = asked,
         NEW g \in Groups, g = GroupOf(r), \A x \in Groups \ {g} : members'[x] = members[x],
         \A i, d : Stored(i, d)' => \E j, e : Stored(j, e) /\ Alike(d, e)
  PROVE  AllFull'
<1> SUFFICES ASSUME NEW i, NEW d, Stored(i, d)', NEW u \in Users, Owed(u, d.role)'
             PROVE  Enough(d, u)'
  BY DEF AllFull, Full
<1> PICK j, e : Stored(j, e) /\ Alike(d, e)
  OBVIOUS
<1>1. e \in Entry /\ d.role = e.role /\ d.groups = e.groups
  BY StoresFine DEF Stored, Ids, Alike
<1>2. Owed(u, e.role)
  BY <1>1, SameOwed
<1>3. d.users[u] = e.users[u] /\ e.users[u] \in Nat /\ e.groups \in SUBSET Groups
  BY <1>1, <1>2, EntryFacts DEF Alike
<1>4. Enough(e, u)
  BY <1>2 DEF AllFull, Full
<1>5. u \notin MembersOf(members'[g])
  <2>1. ~ Joined(u, g)
    BY <1>2, EditedAlone
  <2>2. \A w \in MembersOf(members'[g]) : Joined(w, g)'
    BY DEF IInv, ListInv
  <2>3. Joined(u, g)' <=> Joined(u, g)
    BY DEF Joined
  <2> QED
    BY <2>1, <2>2, <2>3
<1>6. OneGroup(g) /\ Times(members'[g], u) = 0
  <2>1. members' \in [Groups -> Seq(Member)]
    BY DEF IInv, TypeOK
  <2>2. OneGroup(g)
    BY <2>1 DEF OneGroup
  <2> PICK s \in Seq(Member) : s = members'[g]
    BY <2>1
  <2>3. ~ (Times(s, u) > 0) /\ Times(s, u) \in Nat
    BY <1>5, TimesMember, TimesNat
  <2> QED
    BY <2>2, <2>3
<1>7. /\ Count(e.groups, u) \in Nat /\ Count(e.groups, u)' \in Nat
      /\ Count(e.groups, u)' <= Count(e.groups, u)
  <2>1. Recounted(g)
    BY <1>6, CountsChanged
  <2>2. /\ Count(e.groups, u)' \in Nat /\ Times(members[g], u) \in Nat
        /\ Count(e.groups, u)' =
             IF g \in e.groups THEN Count(e.groups, u) - Times(members[g], u) + Times(members'[g], u)
             ELSE Count(e.groups, u)
    BY <1>3, <2>1 DEF Recounted, Count
  <2>3. Count(e.groups, u) \in Nat
    BY <1>3, CountType
  <2> QED
    BY <1>6, <2>2, <2>3
<1>8. Enough(d, u)' <=> Count(e.groups, u)' <= e.users[u]
  BY <1>1, <1>3 DEF Enough
<1> QED
  BY <1>3, <1>4, <1>7, <1>8 DEF Enough

LEMMA EditSure ==
  ASSUME IInv, IInv', SoleOK, MembersSure, NEW r \in Requests, Op(r) = "EditGroup",
         \/ EditGroup(r) \/ ReadEntries(r) \/ TakeRole(r) \/ DropMember(r) \/ NewMembers(r)
  PROVE  MembersSure'
<1> PICK g \in Groups : g = GroupOf(r)
  BY CallFacts
<1>1. req[r].pc \in {"group", "entries", "takeRole", "dropMember", "newMembers"}
  BY DEF EditGroup, ReadEntries, TakeRole, DropMember, NewMembers, At
<1>2. AllFull
  BY <1>1, EditEntries
<1>3. Edited(g)
  BY CallFacts DEF Edited, Op, GroupOf
<1>4. ASSUME asked' = asked, auth' = auth, \A x \in Groups \ {g} : members'[x] = members[x]
      PROVE  AllFull'
  <2>2. \A i, d : Stored(i, d)' => Stored(i, d) /\ Alike(d, d)
    BY <1>4 DEF Stored, Ids, Alike
  <2> QED
    BY <1>2, <1>4, <2>2, EditFull
<1>5. ASSUME NEW s, Replace(g, s) PROVE \A x \in Groups \ {g} : members'[x] = members[x]
  BY <1>5, StoresFine DEF Replace
<1>6. ASSUME NEW i \in Nat \ {0}, NEW s \in Seq(Member), GotoNextLeaving(r, s, i),
             AllFull'
      PROVE  MembersSure'
  <2>1. /\ req' = [req EXCEPT ![r] = req'[r]] /\ req'[r].call = req[r].call
        /\ req'[r].pc \in {"newMembers", "entries"}
    BY <1>6, AfterNextLeaving
  <2> QED
    BY <1>1, <1>6, <2>1, EditGoes
<1>7. CASE EditGroup(r)
  <2>1. /\ GotoNextLeaving(r, members[g], 1) /\ UNCHANGED stores /\ asked' = asked
        /\ members[g] \in Seq(Member)
    BY <1>7, StoresFine DEF EditGroup, GotoNextLeaving, history
  <2>2. AllFull'
    BY <1>4, <2>1 DEF stores
  <2> QED
    BY <1>6, <2>1, <2>2
<1>8. CASE ReadEntries(r)
  <2>1. UNCHANGED stores /\ \E copies : GotoWith(r, "takeRole", copies)
    BY <1>8 DEF ReadEntries
  <2>2. /\ req' = [req EXCEPT ![r] = req'[r]] /\ req'[r].call = req[r].call
        /\ req'[r].pc = "takeRole" /\ asked' = asked
    BY <2>1, AfterGotoWith
  <2>3. AllFull'
    BY <1>4, <2>1, <2>2 DEF stores
  <2> QED
    BY <1>1, <2>2, <2>3, EditGoes
<1>9. CASE TakeRole(r)
  <2>1. req[r].pc = "takeRole" /\ UNCHANGED <<alive, members>>
    BY <1>9 DEF TakeRole, At
  <2>2. ASSUME NEW label \in {"takeRole", "dropMember"}, AllFull',
               Goto(r, label) \/ \E copies : GotoWith(r, label, copies)
        PROVE  MembersSure'
    <3>1. /\ req' = [req EXCEPT ![r] = req'[r]] /\ req'[r].call = req[r].call
          /\ req'[r].pc = label
      BY <2>2, AfterGoto, AfterGotoWith
    <3> QED
      BY <1>1, <2>2, <3>1, EditGoes
  <2>3. CASE UNCHANGED auth /\ (Goto(r, "dropMember") \/ End(r))
    <3>1. AllFull'
      BY <1>4, <2>1, <2>3 DEF Goto, End, history
    <3> QED
      BY <1>1, <2>2, <2>3, <3>1, MembersEnd
  <2>4. ASSUME NEW x \in req[r].copies, auth' = [auth EXCEPT ![x.id] = Minus(x.entry, Once(Leaver(r)))],
               GotoWith(r, "takeRole", req[r].copies \ {x})
        PROVE  MembersSure'
    <3> PICK v \in Users : v = Leaver(r)
      BY <2>1, HandlerFacts, UsersOfList DEF SoleOK, LeaveSure, Taking, Leaver, MembersOf
    <3>1. asked' = asked
      BY <2>1, <2>4 DEF GotoWith, history, MembersSure
    <3>2. Stored(x.id, x.entry) /\ x.entry \in Entry
      BY <2>1, StoresFine DEF SoleOK, LeaveSure, WithGroup, Stored, Ids
    <3>3. \A role : ~ Owed(v, role)
      <4>1. /\ req[r].at \in DOMAIN req[r].list /\ ListInv(req[r].list, g)
        BY <2>1, HandlerFacts DEF SoleOK, LeaveSure, Taking
      <4>2. Joined(v, g)
        BY <4>1 DEF ListInv, Leaver, MembersOf
      <4> QED
        BY <4>2, EditedAlone
    <3>4. Alike(Minus(x.entry, Once(v)), x.entry)
      <4>1. \A u \in Users : u # v => Minus(x.entry, Once(v)).users[u] = x.entry.users[u]
        BY <3>2, OnceUsers
      <4>2. Minus(x.entry, Once(v)).groups = x.entry.groups
        BY <3>2, PlusRole
      <4> QED
        BY <3>2, <3>3, <4>1, <4>2, PlusRole DEF Alike
    <3> PICK f, e, k : f = Minus(x.entry, Once(v)) /\ e = x.entry /\ k = x.id
      OBVIOUS
    <3>5. ASSUME NEW i, NEW d, Stored(i, d)'
          PROVE  \E j, b : Stored(j, b) /\ Alike(d, b)
      <4>1. (d = f /\ Stored(k, e)) \/ Stored(i, d)
        BY <2>4, <3>2, <3>5 DEF Stored, Ids
      <4>2. Alike(d, d)
        BY DEF Alike
      <4> QED
        BY <3>4, <4>1, <4>2
    <3>6. \A y \in Groups \ {g} : members'[y] = members[y]
      BY <2>1
    <3>7. AllFull'
      BY <1>2, <3>1, <3>5, <3>6, EditFull
    <3> QED
      BY <2>2, <2>4, <3>1, <3>7
  <2> QED
    BY <1>9, <2>3, <2>4 DEF TakeRole
<1>10. CASE DropMember(r)
  <2> PICK k \in DOMAIN req[r].list :
         /\ Replace(g, Dropped(req[r].list, k))
         /\ End(r) \/ GotoNextLeaving(r, Dropped(req[r].list, k), req[r].at + 1)
    BY <1>10 DEF DropMember
  <2>1. PICK s \in Seq(Member) : s = Dropped(req[r].list, k)
    <3> PICK q \in Seq(Member) : q = req[r].list
      BY HandlerFacts
    <3>1. k \in Nat
      OBVIOUS
    <3> QED
      BY <3>1, DroppedMember
  <2>2. /\ Replace(g, s) /\ UNCHANGED auth /\ asked' = asked
        /\ End(r) \/ GotoNextLeaving(r, s, req[r].at + 1)
    BY <1>10, <2>1 DEF DropMember, GotoNextLeaving, End, history
  <2>3. req[r].at + 1 \in Nat \ {0}
    BY HandlerFacts
  <2>4. AllFull'
    BY <1>4, <1>5, <2>2
  <2> QED
    BY <1>1, <1>6, <2>2, <2>3, <2>4, MembersEnd
<1>11. CASE NewMembers(r)
  <2>1. /\ \E s : Replace(g, s)
        /\ UNCHANGED auth /\ asked' = asked
        /\ End(r) \/ \E h : req' = [req EXCEPT ![r] = h] /\ h.call = req[r].call /\ h.pc = "newMembers"
    <3>1. CASE \E k \in ToAdd(r) : ChangeEditor(r, k) /\ ~ End(r)
      <4> PICK k \in ToAdd(r) : ChangeEditor(r, k) /\ ~ End(r)
        BY <3>1
      <4> PICK s, i :
             /\ Replace(g, s) /\ UNCHANGED history
             /\ req' = [req EXCEPT ![r] = [@ EXCEPT !.list = s, !.nth = k, !.at = i + 1]]
        BY DEF ChangeEditor
      <4> PICK h : h = [req[r] EXCEPT !.list = s, !.nth = k, !.at = i + 1]
        OBVIOUS
      <4>1. req[r] \in Handler /\ req[r].pc = "newMembers"
        BY <1>11, HandlerFacts DEF NewMembers, At
      <4>2. h.call = req[r].call /\ h.pc = "newMembers"
        BY <4>1 DEF Handler
      <4>3. req' = [req EXCEPT ![r] = h]
        OBVIOUS
      <4>4. UNCHANGED auth /\ asked' = asked
        BY <1>11 DEF NewMembers, history
      <4> QED
        BY <4>2, <4>3, <4>4
    <3>2. CASE ~ \E k \in ToAdd(r) : ChangeEditor(r, k) /\ ~ End(r)
      <4>1. End(r) /\ (\E s : Replace(g, s)) /\ UNCHANGED auth
        BY <1>11, <3>2 DEF NewMembers, AddMissing, ChangeEditor
      <4> QED
        BY <4>1 DEF End, history
    <3> QED
      BY <3>1, <3>2
  <2>2. AllFull'
    BY <1>4, <1>5, <2>1
  <2> QED
    BY <1>1, <2>1, <2>2, MembersEnd, EditGoes
<1> QED
  BY <1>7, <1>8, <1>9, <1>10, <1>11

LEMMA LeavingSure ==
  ASSUME IInv, IInv', SoleOK, MembersSure, NEW r \in Requests,
         \/ EditGroup(r) \/ ReadEntries(r) \/ TakeRole(r) \/ DropMember(r) \/ NewMembers(r)
  PROVE  MembersSure'
<1>1. CASE Op(r) = "EditGroup"
  BY <1>1, EditSure
<1>2. CASE Op(r) # "EditGroup"
  <2>1. Op(r) = "RemoveMember" /\ (ReadEntries(r) \/ TakeRole(r) \/ DropMember(r))
    BY <1>2 DEF EditGroup, ReadEntries, TakeRole, DropMember, NewMembers, At
  <2> QED
    BY <2>1, ReadEntriesSure, TakeRoleSure, DropMemberSure
<1> QED
  BY <1>1, <1>2

-----------------------------------------------------------------------------
\* A group that is gone counts no more, or is not found.
LEMMA GroupGoneSure ==
  ASSUME IInv, SoleOK, MembersSure, NEW r \in Requests, GroupNotFound(r) \/ DeleteGroup(r)
  PROVE  MembersSure'
<1>1. /\ req[r].pc \in {"group", "again"} /\ End(r) /\ UNCHANGED <<members, auth>>
      /\ asked' = asked
  BY DEF GroupNotFound, DeleteGroup, At, End, history, stores
<1>2. AllFull
  BY <1>1, EntriesFull
<1>3. AllFull'
  BY <1>1, <1>2, AllFullStays DEF Shrinks
<1> QED
  BY <1>1, <1>3, MembersEnd

LEMMA SetGroupRoleSure ==
  ASSUME IInv, SoleOK, MembersSure, NEW r \in Requests, SetGroupRole(r) PROVE MembersSure'
<1> PICK g \in Groups : g = GroupOf(r)
  BY CallFacts DEF SetGroupRole, At
<1> DEFINE h == [req[r] EXCEPT !.pc = "again", !.list = members[g]]
<1>1. /\ req[r].pc = "group" /\ Op(r) = "SetGroupRole" /\ UNCHANGED stores /\ asked' = asked
      /\ req' = [req EXCEPT ![r] = h] /\ req[r] \in Handler /\ req \in [Requests -> Handler]
  BY HandlerFacts DEF SetGroupRole, At, history, IInv, TypeOK
<1>2. h.pc = "again" /\ h.call = req[r].call /\ h.list = members[g]
  BY <1>1 DEF Handler
<1> HIDE DEF h
<1>3. /\ req'[r] = h /\ members' = members
      /\ \A u \in Users : Times(members[g], u) \in Nat
  BY <1>1, StoresFine, TimesNat DEF stores
<1>4. KnowsGroup(r, g)'
  BY <1>1, <1>2, <1>3 DEF KnowsGroup, Taking, Op, Within
<1>5. Knows(r)'
  BY <1>2, <1>3, <1>4 DEF Knows, GroupOf
<1> QED
  BY <1>1, <1>5, MembersRead

LEMMA RemoveGroupRoleSure ==
  ASSUME IInv, SoleOK, MembersSure, NEW r \in Requests, RemoveGroupRole(r) PROVE MembersSure'
<1> PICK g \in Groups : g = GroupOf(r)
  BY CallFacts DEF RemoveGroupRole, At
<1> DEFINE h == [req[r] EXCEPT !.pc = "findGroup", !.old = members[g]]
<1>1. /\ req[r].pc = "again" /\ UNCHANGED stores /\ asked' = asked
      /\ Op(r) \in {"SetGroupRole", "RemoveGroupRole"}
      /\ req' = [req EXCEPT ![r] = h] /\ req[r] \in Handler /\ req \in [Requests -> Handler]
  BY HandlerFacts DEF RemoveGroupRole, At, history, IInv, TypeOK
<1>2. /\ h.pc = "findGroup" /\ h.call = req[r].call /\ h.list = req[r].list
      /\ h.old = members[g]
  BY <1>1 DEF Handler
<1> HIDE DEF h
<1>3. req'[r] = h /\ members' = members
  BY <1>1 DEF stores
<1>4. /\ Op(r) = "SetGroupRole" => Within(members[g], req[r].list)
      /\ \A u \in Users : Times(members[g], u) \in Nat
  BY <1>1, StoresFine, TimesNat DEF MembersSure, Knows, KnowsGroup
<1>5. KnowsGroup(r, g)'
  BY <1>1, <1>2, <1>3, <1>4 DEF KnowsGroup, Taking, Op, Within
<1>6. Knows(r)'
  BY <1>2, <1>3, <1>5 DEF Knows, GroupOf
<1> QED
  BY <1>1, <1>6, MembersRead

-----------------------------------------------------------------------------
\* What is left to know of the group once a role is found, written or added
Saving == {"saveRemoved", "saveRole", "count", "saveAgain"}
Adds == {"findRole", "readers", "lastReaders", "insertRole", "insertUser"}
Finding == Saving \cup Adds \cup {"findGroup", "findUser"}

LEMMA StillKnows ==
  ASSUME IInv, MembersSure, NEW r \in Requests, members' = members, asked' = asked,
         req[r].pc \in Finding, req'[r].call = req[r].call, req'[r].list = req[r].list,
         req'[r].pc \in Saving \cup Adds,
         req'[r].pc \in Saving => \A x \in req'[r].copies : Full(x.entry)
  PROVE  Knows(r)'
<1>1. \A g \in Groups : GroupOf(r) = g => KnowsGroup(r, g)
  BY DEF MembersSure, Knows
<1>2. ASSUME NEW g \in Groups, GroupOf(r) = g PROVE KnowsGroup(r, g)'
  <2>1. Op(r) = "SetGroupRole" => Within(members[g], req[r].list)
    BY <1>1, <1>2 DEF KnowsGroup, Finding, Saving, Adds
  <2> QED
    BY <2>1 DEF KnowsGroup, Saving, Adds, Taking, Op, Within
<1>3. ASSUME req'[r].pc \in Saving PROVE (\A x \in req[r].copies : Full(x.entry))'
  <2>1. \A y \in {x.entry : x \in req'[r].copies} : Full(y)
    BY <1>3
  <2>2. \A y \in {x.entry : x \in req'[r].copies} : Full(y)'
    BY <2>1, SameFull
  <2> QED
    BY <2>2 DEF Full
<1> QED
  BY <1>2, <1>3 DEF Knows, GroupOf, Saving

\* A handler that found an entry holds one document, which it may write.
LEMMA OneCopySure ==
  ASSUME IInv, SoleOK, MembersSure, NEW r \in Requests, UNCHANGED stores,
         req[r].pc \in Finding, NEW label \in Saving, NEW i, NEW e, Full(e),
         GotoWith(r, label, {[id |-> i, entry |-> e]})
  PROVE  MembersSure'
<1>1. /\ req' = [req EXCEPT ![r] = req'[r]] /\ asked' = asked /\ req'[r].pc = label
      /\ req'[r].call = req[r].call /\ req'[r].list = req[r].list
      /\ req'[r].copies = {[id |-> i, entry |-> e]}
  BY AfterGotoWith
<1>2. \A x \in req'[r].copies : Full(x.entry)
  BY <1>1
<1>3. Knows(r)'
  BY <1>1, <1>2, StillKnows DEF stores
<1> QED
  BY <1>1, <1>3, MembersRead DEF Finding, Saving, Adds

\* After it was written, or when nothing was found, a role may be added.
LEMMA LaterSure ==
  ASSUME IInv, SoleOK, MembersSure, NEW r \in Requests, members' = members, AllFull',
         req[r].pc \in Finding, NEW label \in Adds,
         Goto(r, label) \/ GotoWith(r, label, {})
  PROVE  MembersSure'
<1>1. /\ req' = [req EXCEPT ![r] = req'[r]] /\ asked' = asked /\ req'[r].pc = label
      /\ req'[r].call = req[r].call /\ req'[r].list = req[r].list
  BY AfterGoto, AfterGotoWith
<1>2. label \notin Saving
  BY DEF Saving, Adds
<1>3. Knows(r)'
  BY <1>1, <1>2, StillKnows
<1> QED
  BY <1>1, <1>3, FullEntries, MembersGo DEF Finding, Saving, Adds

\* The same when nothing was written
LEMMA FoundNothing ==
  ASSUME IInv, SoleOK, MembersSure, NEW r \in Requests, UNCHANGED stores,
         req[r].pc \in Finding,
         \/ End(r)
         \/ \E label \in Adds : Goto(r, label) \/ GotoWith(r, label, {})
  PROVE  MembersSure'
<1>1. req[r].pc \notin {"idle", "push", "takeRole", "dropMember"}
  BY DEF Finding, Saving, Adds
<1>2. AllFull /\ asked' = asked
  BY <1>1, EntriesFull DEF End, Goto, GotoWith, history
<1>3. AllFull' /\ members' = members
  BY <1>2, AllFullStays DEF stores, Shrinks
<1> QED
  BY <1>1, <1>3, MembersEndRead, LaterSure

-----------------------------------------------------------------------------
\* A group takes off its members only, and none of them more often than it has them.
LEMMA WithoutGroupFull ==
  ASSUME IInv, NEW e \in Entry, Full(e), NEW g \in e.groups, NEW n \in Bag,
         \A u \in Users : n[u] <= Times(members[g], u),
         NEW d \in Entry, d.users = e.users, d.groups = e.groups \ {g}, d.role = e.role
  PROVE  Full(Minus(d, n))
<1> DEFINE f == Minus(d, n)
<1>1. e.groups \in SUBSET Groups /\ \A u \in Users : e.users[u] \in Nat
  BY EntryFacts
<1>2. f.role = e.role
  BY PlusRole
<1>3. ASSUME NEW u \in Users
      PROVE  /\ f.users[u] = IF n[u] <= e.users[u] THEN e.users[u] - n[u] ELSE 0
             /\ f.groups = e.groups \ {g} /\ n[u] \in Nat
  <2>1. /\ Minus(d, n).users[u] = IF n[u] <= d.users[u] THEN d.users[u] - n[u] ELSE 0
        /\ Minus(d, n).groups = d.groups /\ n[u] \in Nat
    BY MinusUsers
  <2> QED
    BY <2>1
<1> HIDE DEF f
<1>4. ASSUME NEW u \in Users, Owed(u, e.role) PROVE Count(f.groups, u) <= f.users[u]
  <2>1. Count(e.groups, u) <= e.users[u]
    BY <1>4 DEF Full, Enough
  <2> PICK H \in SUBSET Groups : H = Without(e.groups, g)
    BY <1>1 DEF Without
  <2>2. Count(H, u) \in Nat
    BY CountType
  <2>3. Count(e.groups, u) = Count(H, u) + Times(members[g], u) /\ Times(members[g], u) \in Nat
    <3> PICK G \in SUBSET Groups : G = e.groups /\ g \in G
      BY <1>1
    <3>1. /\ Count(G, u) = Count(Without(G, g), u) + Times(members[g], u)
          /\ Times(members[g], u) \in Nat
      BY CountRemoved
    <3> QED
      BY <3>1
  <2>4. n[u] <= Times(members[g], u) /\ e.users[u] \in Nat
    BY <1>1
  <2>5. Count(H, u) <= f.users[u]
    BY <1>3, <2>1, <2>2, <2>3, <2>4
  <2> QED
    BY <1>3, <2>5 DEF Without
<1> QED
  BY <1>2, <1>4 DEF Full, Enough, f

LEMMA FindGroupEntrySure ==
  ASSUME IInv, SoleOK, MembersSure, NEW r \in Requests, FindGroupEntry(r) PROVE MembersSure'
<1> PICK g \in Groups : g = GroupOf(r)
  BY CallFacts DEF FindGroupEntry, At
<1>1. /\ req[r].pc = "findGroup" /\ UNCHANGED stores
      /\ \A u \in Users : Listed(req[r].old)[u] <= Times(members[g], u)
      /\ Listed(req[r].old) \in Bag
  BY HandlerFacts, BagTypes DEF FindGroupEntry, At, MembersSure, Knows, KnowsGroup, Within, Listed
<1>2. AllFull
  BY <1>1, EntriesFull
<1>3. CASE AfterRemoval(r)
  BY <1>1, <1>3, FoundNothing DEF AfterRemoval, Finding, Adds
<1>4. CASE \E i \in WithGroup(g) : GotoWith(r, "saveRemoved",
             {[id |-> i, entry |->
                 Minus([auth[i] EXCEPT !.groups = @ \ {g}], Listed(req[r].old))]})
  <2> PICK i \in WithGroup(g) : GotoWith(r, "saveRemoved",
             {[id |-> i, entry |->
                 Minus([auth[i] EXCEPT !.groups = @ \ {g}], Listed(req[r].old))]})
    BY <1>4
  <2> PICK e \in Entry : e = auth[i] /\ Full(e) /\ g \in e.groups
    BY <1>2, StoresFine DEF AllFull, Stored, WithGroup, Ids
  <2>1. PICK d \in Entry : /\ d = TakenOut(e, g)
                           /\ d.users = e.users /\ d.groups = e.groups \ {g}
                           /\ d.role = e.role
    BY EntryWithout
  <2>2. PICK f : f = Minus(d, Listed(req[r].old)) /\ Full(f)
    BY <1>1, <2>1, WithoutGroupFull
  <2>3. GotoWith(r, "saveRemoved", {[id |-> i, entry |-> f]})
    BY <2>1, <2>2 DEF TakenOut
  <2> QED
    BY <1>1, <2>2, <2>3, OneCopySure DEF Finding, Saving
<1> QED
  BY <1>3, <1>4 DEF FindGroupEntry

\* A user who is taken off by hand is owed nothing.
LEMMA HandIsNotOwed ==
  ASSUME IInv, NEW r \in Requests, Op(r) \in {"SetUserRole", "RemoveUserRole"},
         NEW u, u = UserOf(r), NEW role
  PROVE  ~ Owed(u, role)
<1>1. req[r].call \in asked
  BY HandlerFacts DEF None
<1> QED
  BY <1>1 DEF Owed, ByHand, Op, UserOf

LEMMA RemoveUserRoleSure ==
  ASSUME IInv, SoleOK, MembersSure, NEW r \in Requests, RemoveUserRole(r) PROVE MembersSure'
<1> PICK v \in Users : v = UserOf(r)
  BY HandlerFacts, CallFields DEF RemoveUserRole, At, Op, UserOf, None
<1>1. /\ req[r].pc = "findUser" /\ UNCHANGED stores
      /\ \A role : ~ Owed(v, role)
  BY HandIsNotOwed DEF RemoveUserRole, At
<1>2. AllFull
  BY <1>1, EntriesFull
<1>3. CASE AfterRemoval(r)
  BY <1>1, <1>3, FoundNothing DEF AfterRemoval, Finding, Adds
<1>4. CASE \E i \in WithUser(v) : GotoWith(r, "saveRemoved",
             {[id |-> i, entry |-> Minus(auth[i], Once(v))]})
  <2> PICK i \in WithUser(v) : GotoWith(r, "saveRemoved",
             {[id |-> i, entry |-> Minus(auth[i], Once(v))]})
    BY <1>4
  <2> PICK e \in Entry : e = auth[i] /\ Full(e)
    BY <1>2, StoresFine DEF AllFull, Stored, WithUser, Ids
  <2> DEFINE f == Minus(e, Once(v))
  <2>1. f.role = e.role
    BY PlusRole
  <2>2. ASSUME NEW u \in Users, u # v PROVE f.users[u] = e.users[u] /\ f.groups = e.groups
    BY <2>2, OnceUsers
  <2>3. GotoWith(r, "saveRemoved", {[id |-> i, entry |-> f]})
    OBVIOUS
  <2> HIDE DEF f
  <2>4. Full(f)
    BY <1>1, <2>1, <2>2 DEF Full, Enough
  <2> QED
    BY <1>1, <2>3, <2>4, OneCopySure DEF Finding, Saving
<1> QED
  BY <1>3, <1>4 DEF RemoveUserRole

LEMMA SaveRemovedSure ==
  ASSUME IInv, SoleOK, MembersSure, NEW r \in Requests, SaveRemoved(r) PROVE MembersSure'
<1>1. /\ req[r].pc = "saveRemoved" /\ AfterRemoval(r) /\ UNCHANGED <<alive, members, asked>>
      /\ \A x \in req[r].copies : Full(x.entry)
  BY DEF SaveRemoved, MembersSure, Knows, AfterRemoval, End, GotoWith, history
<1> PICK x \in req[r].copies : auth' = [auth EXCEPT ![x.id] = x.entry]
  BY DEF SaveRemoved
<1>2. AllFull'
  BY <1>1, EntriesFull, WrittenFull
<1>4. CASE End(r)
  BY <1>1, <1>2, <1>4, MembersEnd
<1>5. CASE GotoWith(r, "findRole", {})
  BY <1>1, <1>2, <1>5, LaterSure DEF Finding, Saving, Adds
<1> QED
  BY <1>1, <1>4, <1>5 DEF AfterRemoval

-----------------------------------------------------------------------------
\* All members come with their group, but for those who may only read.
LEMMA WithGroupFull ==
  ASSUME IInv, NEW e \in Entry, Full(e), NEW g \in Groups \ e.groups, NEW n \in Bag,
         \A u \in Users \ ReadOnly : Times(members[g], u) <= n[u],
         NEW d \in Entry, d.users = e.users, d.groups = e.groups \cup {g}, d.role = e.role
  PROVE  Full(Plus(d, n))
<1> DEFINE f == Plus(d, n)
<1>1. e.groups \in SUBSET Groups /\ \A u \in Users : e.users[u] \in Nat
  BY EntryFacts
<1>2. f.role = e.role
  BY PlusRole
<1>3. ASSUME NEW u \in Users
      PROVE  /\ f.users[u] = e.users[u] + n[u] /\ n[u] \in Nat
             /\ f.groups = e.groups \cup {g}
  <2>1. Plus(d, n).users[u] = d.users[u] + n[u] /\ Plus(d, n).groups = d.groups /\ n[u] \in Nat
    BY PlusUsers
  <2> QED
    BY <2>1
<1> HIDE DEF f
<1>4. ASSUME NEW u \in Users, Owed(u, e.role) PROVE Count(f.groups, u) <= f.users[u]
  <2>1. Count(e.groups, u) <= e.users[u] /\ u \notin ReadOnly
    BY <1>4 DEF Full, Enough, Owed
  <2>2. Count(e.groups, u) \in Nat
    BY <1>1, CountType
  <2>3. /\ Count(Among(e.groups, g), u) = Count(e.groups, u) + Times(members[g], u)
        /\ Times(members[g], u) \in Nat
    BY <1>1, CountAdded
  <2>4. Times(members[g], u) <= n[u] /\ e.users[u] \in Nat
    BY <1>1, <2>1
  <2>5. Count(Among(e.groups, g), u) <= f.users[u]
    BY <1>3, <2>1, <2>2, <2>3, <2>4
  <2> QED
    BY <1>3, <2>5 DEF Among
<1> QED
  BY <1>2, <1>4 DEF Full, Enough, f

\* What a handler adds for its group is all that the group has, but for those who may
\* only read.
LEMMA SharesAll ==
  ASSUME IInv, MembersSure, NEW r \in Requests, NEW g \in Groups, g = GroupOf(r),
         Op(r) = "SetGroupRole", req[r].pc \notin {"idle", "group"}
  PROVE  /\ Readers(r) \in Bag /\ Writers(r) \in Bag
         /\ \A u \in Users \ ReadOnly : Times(members[g], u) <= Writers(r)[u]
<1>1. Readers(r) \in Bag /\ Writers(r) \in Bag
  BY HandlerFacts, SharedBags
<1>2. \A u \in Users : Times(members[g], u) <= Times(req[r].list, u)
  BY DEF MembersSure, Knows, KnowsGroup, Within
<1>3. \A u \in Users \ ReadOnly : Writers(r)[u] = Times(req[r].list, u)
  BY DEF Writers
<1> QED
  BY <1>1, <1>2, <1>3

LEMMA ShareWithGroupSure ==
  ASSUME IInv, SoleOK, MembersSure, NEW r \in Requests, ShareWithGroup(r) PROVE MembersSure'
<1> PICK g \in Groups : g = GroupOf(r)
  BY CallFacts DEF ShareWithGroup, At
<1> DEFINE with(e) == Plus([e EXCEPT !.groups = @ \cup {g}], Writers(r))
<1>1. /\ req[r].pc = "findRole" /\ Op(r) = "SetGroupRole" /\ UNCHANGED stores
      /\ Writers(r) \in Bag /\ \A u \in Users \ ReadOnly : Times(members[g], u) <= Writers(r)[u]
  BY SharesAll DEF ShareWithGroup, At
<1>2. AllFull
  BY <1>1, EntriesFull
<1>3. CASE Goto(r, "readers") \/ End(r)
  BY <1>1, <1>3, FoundNothing DEF Finding, Adds
<1>4. CASE \E i \in DOMAIN auth : /\ g \notin auth[i].groups
                                  /\ GotoWith(r, "saveRole", {[id |-> i, entry |-> with(auth[i])]})
  <2> PICK i \in DOMAIN auth : /\ g \notin auth[i].groups
                               /\ GotoWith(r, "saveRole", {[id |-> i, entry |-> with(auth[i])]})
    BY <1>4
  <2> PICK e \in Entry : e = auth[i] /\ Full(e)
    BY <1>2, StoresFine DEF AllFull, Stored, Ids
  <2>1. PICK d \in Entry : /\ d = PutIn(e, g)
                           /\ d.users = e.users /\ d.groups = e.groups \cup {g}
                           /\ d.role = e.role
    BY EntryWith
  <2>2. PICK f : f = Plus(d, Writers(r)) /\ Full(f)
    BY <1>1, <2>1, WithGroupFull
  <2>3. GotoWith(r, "saveRole", {[id |-> i, entry |-> f]})
    BY <2>1, <2>2 DEF PutIn
  <2> QED
    BY <1>1, <2>2, <2>3, OneCopySure DEF Finding, Saving, Adds
<1> QED
  BY <1>3, <1>4 DEF ShareWithGroup, WithRole, Ids

\* A new entry has all members of its group who are owed the role.
LEMMA GroupEntryFull ==
  ASSUME IInv, NEW role, NEW g \in Groups, NEW n \in Bag,
         \A u \in Users : Owed(u, role) => Times(members[g], u) <= n[u]
  PROVE  Full(EntryOf(role, n, {g}))
<1> PICK e : e = EntryOf(role, n, {g})
  OBVIOUS
<1>1. e.role = role /\ e.groups = {g} /\ e.users = n
  BY DEF EntryOf
<1>2. ASSUME NEW u \in Users, Owed(u, role) PROVE Count({g}, u) <= n[u]
  <2>1. Count({g}, u) = Times(members[g], u)
    BY CountOne
  <2> QED
    BY <1>2, <2>1
<1>3. Full(e)
  BY <1>1, <1>2 DEF Full, Enough
<1> QED
  BY <1>3

LEMMA UserEntryFull ==
  ASSUME NEW role, NEW n \in Bag PROVE Full(EntryOf(role, n, {}))
<1> PICK e : e = EntryOf(role, n, {})
  OBVIOUS
<1>1. e.role = role /\ e.groups = {} /\ e.users = n
  BY DEF EntryOf
<1>2. ASSUME NEW u \in Users PROVE Count({}, u) <= n[u]
  <2>1. Count({}, u) = 0
    BY CountNone
  <2>2. n[u] \in Nat
    BY DEF Bag
  <2> QED
    BY <2>1, <2>2
<1>3. Full(e)
  BY <1>1, <1>2 DEF Full, Enough
<1> QED
  BY <1>3

\* Whoever may only read comes in an entry of viewers; the other members are excused there.
LEMMA InsertReadersSure ==
  ASSUME IInv, SoleOK, MembersSure, NEW r \in Requests, InsertReaders(r) PROVE MembersSure'
<1> PICK g \in Groups : g = GroupOf(r)
  BY CallFacts DEF InsertReaders
<1>1. /\ req[r].pc \in {"readers", "lastReaders"} /\ UNCHANGED <<alive, members, asked>>
      /\ End(r) \/ Goto(r, "insertRole")
      /\ ListInv(req[r].list, g) /\ ListInv(members[g], g)
      /\ req[r].list \in Seq(Member) /\ members[g] \in Seq(Member)
  BY HandlerFacts, StoresFine DEF InsertReaders, End, Goto, history
<1> PICK n \in Bag : n = Readers(r)
  BY <1>1, SharedBags
<1>2. AllFull
  BY <1>1, EntriesFull
<1>3. AllFull'
  <2>1. CASE auth' = auth
    BY <1>1, <1>2, <2>1, AllFullStays DEF Shrinks
  <2>2. CASE n # Nobody /\ auth' = Append(auth, EntryOf("viewer", n, {g}))
    <3>1. PICK v \in Users : n[v] > 0
      BY <2>2 DEF Bag, Nobody
    <3>2. v \in ReadOnly /\ Joined(v, g)
      <4>1. v \in MembersOf(req[r].list)
        BY <1>1, <3>1, SharedBags
      <4>2. v \in ReadOnly
        BY <3>1 DEF Readers
      <4> QED
        BY <1>1, <4>1, <4>2 DEF ListInv
    <3>3. \A u : Joined(u, g) => ~ Owed(u, "viewer")
      BY <3>2 DEF Owed, Excused, Writing
    <3>4. ASSUME NEW u \in Users, Owed(u, "viewer") PROVE Times(members[g], u) <= n[u]
      <4>1. u \notin MembersOf(members[g])
        BY <1>1, <3>3, <3>4 DEF ListInv
      <4>2. ~ Times(members[g], u) > 0 /\ Times(members[g], u) \in Nat
        BY <1>1, <4>1, TimesMember, TimesNat
      <4> QED
        BY <4>2 DEF Bag
    <3> PICK e : e = EntryOf("viewer", n, {g})
      OBVIOUS
    <3>5. Full(e)
      BY <3>4, GroupEntryFull
    <3>6. e \in Entry
      BY DEF EntryOf, Entry, RoleType
    <3>7. auth' = Append(auth, e)
      BY <2>2
    <3> QED
      BY <1>1, <1>2, <3>5, <3>6, <3>7, InsertedFull
  <2>3. auth' = auth \/ (n # Nobody /\ auth' = Append(auth, EntryOf("viewer", n, {g})))
    BY DEF InsertReaders
  <2> QED
    BY <2>1, <2>2, <2>3
<1> QED
  BY <1>1, <1>3, MembersEnd, LaterSure DEF Finding, Adds

LEMMA InsertRoleSure ==
  ASSUME IInv, SoleOK, MembersSure, NEW r \in Requests, InsertRole(r) PROVE MembersSure'
<1> PICK g \in Groups : g = GroupOf(r)
  BY CallFacts DEF InsertRole, At
<1>1. /\ req[r].pc = "insertRole" /\ UNCHANGED <<alive, members, asked>> /\ End(r)
      /\ RoleOf(r) \in RoleType /\ Op(r) = "SetGroupRole"
  BY CallFacts DEF InsertRole, At, End, history
<1> PICK role \in RoleType : role = RoleOf(r)
  BY <1>1
<1> PICK n \in Bag : n = Writers(r) /\ \A u \in Users \ ReadOnly : Times(members[g], u) <= n[u]
  BY <1>1, SharesAll
<1>2. AllFull
  BY <1>1, EntriesFull
<1>3. AllFull'
  <2>1. CASE auth' = auth
    BY <1>1, <1>2, <2>1, AllFullStays DEF Shrinks
  <2>2. CASE auth' = Append(auth, EntryOf(role, n, {g}))
    <3> PICK e : e = EntryOf(role, n, {g})
      OBVIOUS
    <3>1. \A u \in Users : Owed(u, role) => Times(members[g], u) <= n[u]
      BY DEF Owed
    <3>2. Full(e)
      BY <3>1, GroupEntryFull
    <3>3. e \in Entry
      BY DEF EntryOf, Entry
    <3> QED
      BY <1>1, <1>2, <2>2, <3>2, <3>3, InsertedFull
  <2> QED
    BY <2>1, <2>2 DEF InsertRole
<1> QED
  BY <1>1, <1>3, MembersEnd

-----------------------------------------------------------------------------
LEMMA PlusStaysFull ==
  ASSUME IInv, NEW e \in Entry, Full(e), NEW v \in Users
  PROVE  Full(Plus(e, Once(v)))
  BY PlusFull DEF Full

LEMMA ShareWithUserSure ==
  ASSUME IInv, SoleOK, MembersSure, NEW r \in Requests, ShareWithUser(r) PROVE MembersSure'
<1> PICK u \in Users : u = UserOf(r)
  BY CallFacts DEF ShareWithUser, At
<1>1. req[r].pc = "findRole" /\ UNCHANGED stores
  BY DEF ShareWithUser, At
<1>2. AllFull
  BY <1>1, EntriesFull
<1>3. CASE Goto(r, "insertUser") \/ End(r)
  BY <1>1, <1>3, FoundNothing DEF Finding, Adds
<1>4. CASE \E i \in DOMAIN auth :
             GotoWith(r, "saveRole", {[id |-> i, entry |-> Plus(auth[i], Once(u))]})
  <2> PICK i \in DOMAIN auth :
             GotoWith(r, "saveRole", {[id |-> i, entry |-> Plus(auth[i], Once(u))]})
    BY <1>4
  <2> PICK e \in Entry : e = auth[i] /\ Full(e)
    BY <1>2, StoresFine DEF AllFull, Stored, Ids
  <2>1. PICK f : f = Plus(e, Once(u)) /\ Full(f)
    BY PlusStaysFull
  <2>2. GotoWith(r, "saveRole", {[id |-> i, entry |-> f]})
    BY <2>1
  <2> QED
    BY <1>1, <2>1, <2>2, OneCopySure DEF Finding, Saving, Adds
<1> QED
  BY <1>3, <1>4 DEF ShareWithUser, WithRole, Ids

LEMMA SaveRoleSure ==
  ASSUME IInv, SoleOK, MembersSure, NEW r \in Requests, SaveRole(r) PROVE MembersSure'
<1>1. /\ req[r].pc \in {"saveRole", "saveAgain"} /\ UNCHANGED <<alive, members, asked>>
      /\ \A x \in req[r].copies : Full(x.entry)
      /\ End(r) \/ Goto(r, "lastReaders") \/ Goto(r, "count")
  BY DEF SaveRole, MembersSure, Knows, End, Goto, history
<1> PICK x \in req[r].copies : auth' = [auth EXCEPT ![x.id] = x.entry]
  BY DEF SaveRole
<1>2. AllFull'
  BY <1>1, EntriesFull, WrittenFull
<1>4. CASE End(r) \/ Goto(r, "lastReaders")
  BY <1>1, <1>2, <1>4, MembersEnd, LaterSure DEF Finding, Saving, Adds
<1>5. CASE Goto(r, "count")
  <2>1. /\ req' = [req EXCEPT ![r] = req'[r]] /\ req'[r].pc = "count"
        /\ req'[r].call = req[r].call /\ req'[r].list = req[r].list
        /\ req'[r].copies = req[r].copies
    BY <1>5, AfterGoto
  <2>2. Knows(r)'
    BY <1>1, <2>1, StillKnows DEF Finding, Saving
  <2> QED
    BY <1>1, <1>2, <2>1, <2>2, FullEntries, MembersGo
<1> QED
  BY <1>1, <1>4, <1>5

LEMMA CountGroupsSure ==
  ASSUME IInv, SoleOK, MembersSure, NEW r \in Requests, CountGroups(r) PROVE MembersSure'
<1> PICK u \in Users : u = UserOf(r)
  BY CallFacts DEF CountGroups, At
<1>1. /\ req[r].pc = "count" /\ UNCHANGED stores
      /\ \A x \in req[r].copies : Full(x.entry) /\ x \in Copy
  BY HandlerFacts DEF CountGroups, At, MembersSure, Knows
<1>2. CASE End(r)
  BY <1>1, <1>2, FoundNothing DEF Finding, Saving
<1>3. ASSUME NEW x \in req[r].copies,
             GotoWith(r, "saveAgain", {[x EXCEPT !.entry = Plus(@, Once(u))]})
      PROVE  MembersSure'
  <2> PICK e \in Entry : e = x.entry /\ Full(e)
    BY <1>1 DEF Copy
  <2>1. PICK f : f = Plus(e, Once(u)) /\ Full(f)
    BY PlusStaysFull
  <2>2. [x EXCEPT !.entry = Plus(@, Once(u))] = [id |-> x.id, entry |-> f]
    <3>1. [x EXCEPT !.entry = Plus(@, Once(u))] = [id |-> x.id, entry |-> Plus(x.entry, Once(u))]
      BY <1>1 DEF Copy
    <3> QED
      BY <2>1, <3>1
  <2>3. GotoWith(r, "saveAgain", {[id |-> x.id, entry |-> f]})
    BY <1>3, <2>2
  <2> QED
    BY <1>1, <2>1, <2>3, OneCopySure DEF Finding, Saving
<1> QED
  BY <1>2, <1>3 DEF CountGroups

LEMMA InsertUserSure ==
  ASSUME IInv, SoleOK, MembersSure, NEW r \in Requests, InsertUser(r) PROVE MembersSure'
<1> PICK n \in Bag : n = Once(UserOf(r))
  BY BagTypes
<1> PICK e : e = EntryOf(RoleOf(r), n, {})
  OBVIOUS
<1>1. /\ req[r].pc = "insertUser" /\ End(r) /\ UNCHANGED <<alive, members, asked>>
      /\ auth' = Append(auth, e) /\ RoleOf(r) \in RoleType
  BY CallFacts DEF InsertUser, At, End, history
<1>2. Full(e)
  BY UserEntryFull
<1>3. e \in Entry
  BY <1>1 DEF EntryOf, Entry
<1>4. AllFull'
  BY <1>1, <1>2, <1>3, EntriesFull, InsertedFull
<1> QED
  BY <1>1, <1>4, MembersEnd

-----------------------------------------------------------------------------
\* A request that arrives while another is served ends the promise.
LEMMA ArriveSure ==
  ASSUME IInv, SoleOK, MembersSure, NEW r \in Requests, Arrive(r) PROVE MembersOK'
<1> PICK call \in Calls :
       /\ req[r].pc = "idle"
       /\ req' = [req EXCEPT ![r] = [Idle EXCEPT !.call = call, !.pc = FirstOf(call.op)]]
       /\ asked' = asked \cup {call}
       /\ overlapped' = (overlapped \/ \E q \in Requests \ {r} : req[q].pc # "idle")
       /\ UNCHANGED stores
  BY DEF Arrive
<1> DEFINE h == [Idle EXCEPT !.call = call, !.pc = FirstOf(call.op)]
<1>1. /\ h.call = call
      /\ h.pc = "group" \/ (h.pc = "findUser" /\ call.op # "SetGroupRole")
           \/ (h.pc = "again" /\ call.op # "SetGroupRole")
  BY DEF FirstOf, Idle
<1>2. req' = [req EXCEPT ![r] = h]
  OBVIOUS
<1> HIDE DEF h
<1>3. CASE \E q \in Requests \ {r} : req[q].pc # "idle"
  BY <1>3 DEF MembersOK
<1>4. CASE \A q \in Requests \ {r} : req[q].pc = "idle"
  <2>1. \A q \in Requests : req[q].pc = "idle"
    BY <1>4
  <2>2. \A q, i, e, u : q \in Requests => ~ Lags(q, i, e, u)
    BY <2>1 DEF Lags
  <2>3. AllFull
    BY <2>2 DEF AllFull, Full, MembersSure, EntriesOK
  <2>4. AllFull'
    BY <2>3, AllFullStays DEF stores, Shrinks
  <2>5. req'[r] = h
    BY <1>2 DEF IInv, TypeOK
  <2>6. Knows(r)'
    BY <1>1, <2>5 DEF Knows, KnowsGroup, Taking, Op
  <2> QED
    BY <1>2, <1>4, <2>4, <2>6, FullEntries, MembersMove DEF MembersOK
<1> QED
  BY <1>3, <1>4

LEMMA InitMembers == Init => MembersOK
<1> SUFFICES ASSUME Init PROVE MembersSure
  BY DEF MembersOK
<1>1. \A r \in Requests : req[r] = Idle
  BY DEF Init
<1>2. \A r \in Requests : Knows(r)
  BY <1>1 DEF Knows, KnowsGroup, Taking, Idle
<1>3. AllFull
  <2> PICK n \in Bag : n = Nobody
    BY BagTypes
  <2>1. \A i, e : Stored(i, e) => e = EntryOf("owner", n, {})
    BY DEF Init, Stored, Ids
  <2> QED
    BY <2>1, UserEntryFull DEF AllFull
<1>4. EntriesOK
  BY <1>3 DEF AllFull, Full, EntriesOK
<1> QED
  BY <1>2, <1>4 DEF MembersSure

LEMMA UnchangedMembers == MembersOK /\ UNCHANGED vars => MembersOK'
<1> SUFFICES ASSUME MembersSure, UNCHANGED vars PROVE MembersSure'
  BY DEF MembersOK, vars
<1>1. UNCHANGED <<alive, members, auth, req, asked>>
  BY DEF vars
<1>3. EntriesOK'
  <2> SUFFICES ASSUME NEW i, NEW e, Stored(i, e)', NEW u \in Users, Owed(u, e.role)'
               PROVE  Enough(e, u)' \/ (OneShort(e, u)' /\ (\E r \in Requests : Lags(r, i, e, u))')
    BY DEF EntriesOK
  <2>1. Stored(i, e) /\ Owed(u, e.role)
    BY <1>1, SameOwed DEF Stored, Ids
  <2>2. (\E r \in Requests : Lags(r, i, e, u)) => (\E r \in Requests : Lags(r, i, e, u))'
    BY <1>1 DEF Lags, GroupOf, UserOf, Leaver
  <2> QED
    BY <1>1, <2>1, <2>2, SameEnough DEF MembersSure, EntriesOK
<1>4. ASSUME NEW r \in Requests PROVE Knows(r)'
  <2>1. Knows(r)
    BY DEF MembersSure
  <2>2. \A g \in Groups : GroupOf(r)' = g => KnowsGroup(r, g)'
    BY <1>1, <2>1 DEF Knows, KnowsGroup, Taking, Op, GroupOf, UserOf, Leaver, Within
  <2>3. \A y \in {x.entry : x \in req[r].copies} : Full(y)' <=> Full(y)
    BY <1>1, SameFull
  <2>4. req[r].pc \in Saving => \A y \in {x.entry : x \in req[r].copies} : Full(y)'
    BY <2>1, <2>3 DEF Knows, Saving
  <2>5. (req[r].pc \in Saving => \A x \in req[r].copies : Full(x.entry))'
    BY <1>1, <2>4 DEF Full
  <2> QED
    BY <2>2, <2>5 DEF Knows, Saving
<1> QED
  BY <1>3, <1>4 DEF MembersSure

\* Once two handlers ran at the same time, or one died, nothing more is claimed.
LEMMA DiedStays ==
  ASSUME died, NEW r \in Requests,
    \/ Arrive(r) \/ GroupNotFound(r) \/ AddMember(r) \/ UpdateMember(r) \/ SaveMember(r)
    \/ Push(r) \/ RemoveMember(r) \/ EditGroup(r) \/ ReadEntries(r) \/ TakeRole(r)
    \/ DropMember(r) \/ NewMembers(r) \/ DeleteGroup(r) \/ SetGroupRole(r)
    \/ RemoveGroupRole(r) \/ FindGroupEntry(r) \/ RemoveUserRole(r) \/ SaveRemoved(r)
    \/ ShareWithGroup(r) \/ InsertReaders(r) \/ InsertRole(r) \/ ShareWithUser(r)
    \/ SaveRole(r) \/ CountGroups(r) \/ InsertUser(r) \/ Crash(r)
  PROVE  died'
<1> USE DEF history, End, Goto, GotoWith
<1>1. CASE Arrive(r) \/ GroupNotFound(r) \/ DeleteGroup(r) \/ Crash(r)
  BY <1>1 DEF Arrive, GroupNotFound, DeleteGroup, Crash
<1>2. CASE AddMember(r) \/ UpdateMember(r) \/ SaveMember(r) \/ Push(r)
  BY <1>2 DEF AddMember, UpdateMember, SaveMember, Push
<1>3. CASE \/ RemoveMember(r) \/ EditGroup(r) \/ ReadEntries(r) \/ TakeRole(r)
           \/ DropMember(r) \/ NewMembers(r)
  BY <1>3 DEF RemoveMember, EditGroup, ReadEntries, TakeRole, DropMember, NewMembers,
     AddMissing, ChangeEditor, GotoNextLeaving
<1>4. CASE \/ SetGroupRole(r) \/ RemoveGroupRole(r) \/ FindGroupEntry(r)
           \/ RemoveUserRole(r) \/ SaveRemoved(r)
  BY <1>4 DEF SetGroupRole, RemoveGroupRole, FindGroupEntry, RemoveUserRole, SaveRemoved,
     AfterRemoval
<1>5. CASE \/ ShareWithGroup(r) \/ InsertReaders(r) \/ InsertRole(r) \/ ShareWithUser(r)
           \/ SaveRole(r) \/ CountGroups(r) \/ InsertUser(r)
  BY <1>5 DEF ShareWithGroup, InsertReaders, InsertRole, ShareWithUser, SaveRole,
     CountGroups, InsertUser
<1> QED
  BY <1>1, <1>2, <1>3, <1>4, <1>5

LEMMA NextMembers ==
  IInv /\ IInv' /\ RolesOK /\ MembersOK /\ [Next]_vars => MembersOK'
<1> SUFFICES ASSUME IInv, IInv', RolesOK, MembersOK, Next PROVE MembersOK'
  BY UnchangedMembers
<1> PICK r \in Requests :
    \/ Arrive(r) \/ GroupNotFound(r) \/ AddMember(r) \/ UpdateMember(r) \/ SaveMember(r)
    \/ Push(r) \/ RemoveMember(r) \/ EditGroup(r) \/ ReadEntries(r) \/ TakeRole(r)
    \/ DropMember(r) \/ NewMembers(r) \/ DeleteGroup(r) \/ SetGroupRole(r)
    \/ RemoveGroupRole(r) \/ FindGroupEntry(r) \/ RemoveUserRole(r) \/ SaveRemoved(r)
    \/ ShareWithGroup(r) \/ InsertReaders(r) \/ InsertRole(r) \/ ShareWithUser(r)
    \/ SaveRole(r) \/ CountGroups(r) \/ InsertUser(r) \/ Crash(r)
  BY DEF Next
<1>1. CASE overlapped \/ died
  BY <1>1, OverlapStays, DiedStays DEF MembersOK
<1>2. CASE SoleOK /\ MembersSure
  <2>1. CASE Arrive(r) \/ Crash(r)
    BY <1>2, <2>1, ArriveSure DEF MembersOK, Crash
  <2>2. CASE GroupNotFound(r) \/ DeleteGroup(r)
    BY <1>2, <2>2, GroupGoneSure DEF MembersOK
  <2>3. CASE AddMember(r) \/ UpdateMember(r) \/ SaveMember(r) \/ Push(r)
    BY <1>2, <2>3, AddMemberSure, UpdateMemberSure, SaveMemberSure, PushSure DEF MembersOK
  <2>4. CASE RemoveMember(r)
    BY <1>2, <2>4, RemoveMemberSure DEF MembersOK
  <2>5. CASE EditGroup(r) \/ ReadEntries(r) \/ TakeRole(r) \/ DropMember(r) \/ NewMembers(r)
    BY <1>2, <2>5, LeavingSure DEF MembersOK
  <2>6. CASE \/ SetGroupRole(r) \/ RemoveGroupRole(r) \/ FindGroupEntry(r)
             \/ RemoveUserRole(r) \/ SaveRemoved(r)
    BY <1>2, <2>6, SetGroupRoleSure, RemoveGroupRoleSure, FindGroupEntrySure,
       RemoveUserRoleSure, SaveRemovedSure DEF MembersOK
  <2>7. CASE \/ ShareWithGroup(r) \/ InsertReaders(r) \/ InsertRole(r) \/ ShareWithUser(r)
             \/ SaveRole(r) \/ CountGroups(r) \/ InsertUser(r)
    BY <1>2, <2>7, ShareWithGroupSure, InsertReadersSure, InsertRoleSure, ShareWithUserSure,
       SaveRoleSure, CountGroupsSure, InsertUserSure DEF MembersOK
  <2> QED
    BY <2>1, <2>2, <2>3, <2>4, <2>5, <2>6, <2>7
<1> QED
  BY <1>1, <1>2 DEF RolesOK, MembersOK

LEMMA MembersInvariant == Spec => []MembersOK
  BY Invariant, RolesInvariant, InitMembers, NextMembers, PTL DEF Spec

\* "user_ids list MUST be kept current": as long as handlers run one after the other and
\* none dies, adding and removing members, sharing with groups and taking it back in
\* routers/groups.py and routers/authorization.py keep every member of a group in every
\* entry of the group, once for each of the groups, for any number of users, groups and
\* requests; left out are the users and entries that MembersHaveRole names.
THEOREM MembersKeepRoles == Spec => []MembersHaveRole
<1>1. ASSUME IInv, MembersSure, \A r \in Requests : req[r].pc = "idle",
             NEW i \in Ids, NEW u \in Users, Owed(u, auth[i].role)
      PROVE  auth[i].users[u] >= Memberships(i, u, alive)
  <2> PICK e \in Entry : e = auth[i]
    BY <1>1, StoresFine DEF Ids
  <2>1. \A r \in Requests : ~ Lags(r, i, e, u)
    BY <1>1 DEF Lags
  <2>2. Count(e.groups, u) <= e.users[u]
    BY <1>1, <2>1 DEF MembersSure, EntriesOK, Stored, Enough
  <2>3. e.groups \in SUBSET Groups /\ e.users[u] \in Nat
    BY EntryFacts
  <2>4. /\ Count(e.groups, u) \in Nat /\ Count(e.groups \cap alive, u) \in Nat
        /\ Count(e.groups \cap alive, u) <= Count(e.groups, u)
    <3> PICK G \in SUBSET Groups : G = e.groups
      BY <2>3
    <3> PICK H \in SUBSET G : H = e.groups \cap alive
      OBVIOUS
    <3>1. /\ Count(G, u) \in Nat /\ Count(H, u) \in Nat /\ Count(H, u) <= Count(G, u)
      BY <1>1, CountType, CountPart
    <3> QED
      BY <3>1
  <2>5. Memberships(i, u, alive) = Count(e.groups \cap alive, u)
    BY DEF Memberships, Occurrences, Count, CountIn, Parts
  <2> QED
    BY <2>2, <2>3, <2>4, <2>5
<1>2. IInv /\ MembersOK => MembersHaveRole
  BY <1>1 DEF MembersOK, MembersHaveRole, Owed
<1> QED
  BY <1>2, Invariant, MembersInvariant, PTL

=============================================================================
