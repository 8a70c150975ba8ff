-------------------------- MODULE GroupRoles_proofs --------------------------
(***************************************************************************)
(* Proofs about GroupAccess while handlers run one after the other, though *)
(* any of them may die or fail half way: nobody stands in an entry more    *)
(* often than the groups of the entry account for.                         *)
(***************************************************************************)
EXTENDS GroupAccess_proofs

-----------------------------------------------------------------------------
\* How often the groups of an entry have the user as a member, and the role given by hand
Parts(m, G, u) == UNION {{g} \X Places(m[g], u) : g \in G}
CountIn(m, G, u) == Cardinality(Parts(m, G, u))
Count(G, u) == CountIn(members, G, u)
HandGiven(u) == IF ByHand(u, {"SetUserRole"}) THEN 1 ELSE 0

\* Nobody stands in the entry more often than that, and user u so much less often that
\* it may be added, or that it may leave a group
Bounded(e) == e.groups \subseteq alive =>
    \A u \in Users : e.users[u] <= Count(e.groups, u) + HandGiven(u)
Spare(e, u) == e.groups \subseteq alive =>
    e.users[u] + 1 <= Count(e.groups, u) + HandGiven(u)
Leaves(e, u) == e.users[u] = 0 \/ Spare(e, u)

Alone == \A r, q \in Requests : req[r].pc # "idle" /\ req[q].pc # "idle" => r = q

\* What a handler that is alone knows of the group and of the entries
Within(s, t) == \A u \in Users : Times(s, u) <= Times(t, u)
Covers(r) == Within(members[GroupOf(r)], req[r].list)
Taking == {"entries", "takeRole", "dropMember"}
AddSure(r) ==
    /\ req[r].pc = "saveMember" =>
         /\ Covers(r)
         /\ Op(r) = "AddMember" => Times(members[GroupOf(r)], UserOf(r)) + 1
                                      <= Times(req[r].list, UserOf(r))
    /\ req[r].pc = "push" => \A i \in WithGroup(GroupOf(r)) : Spare(auth[i], UserOf(r))
LeaveSure(r) ==
    /\ req[r].pc \in Taking \cup {"newMembers"} => Covers(r)
    /\ req[r].pc \in Taking => req[r].at \in DOMAIN req[r].list
    /\ req[r].pc = "takeRole" =>
         /\ \A x \in req[r].copies : x.id \in WithGroup(GroupOf(r)) /\ x.entry = auth[x.id]
         /\ \A i \in WithGroup(GroupOf(r)) :
              (\A x \in req[r].copies : x.id # i) => Leaves(auth[i], Leaver(r))
    /\ req[r].pc = "dropMember" => \A i \in WithGroup(GroupOf(r)) : Leaves(auth[i], Leaver(r))
ShareSure(r) ==
    /\ Op(r) = "SetGroupRole" /\ req[r].pc # "idle" =>
         Within(req[r].list, members[GroupOf(r)])
    /\ req[r].pc = "findGroup" =>
         /\ GroupOf(r) \in alive
         /\ Within(members[GroupOf(r)], req[r].old)
    /\ req[r].pc \in {"saveRemoved", "saveRole", "count", "saveAgain"} =>
         \A x \in req[r].copies : Bounded(x.entry)

SoleOK ==
    /\ Alone
    /\ \A i \in Ids : Bounded(auth[i])
    /\ \A r \in Requests : AddSure(r) /\ LeaveSure(r) /\ ShareSure(r)
RolesOK == overlapped \/ SoleOK

-----------------------------------------------------------------------------
\* Counting members of groups
Among(G, g) == G \cup {g}
Without(G, g) == G \ {g}
MemberLists == [Groups -> Seq(Member)]

LEMMA PartsFinite ==
  ASSUME NEW m \in MemberLists, NEW G \in SUBSET Groups, NEW u
  PROVE  IsFiniteSet(Parts(m, G, u)) /\ CountIn(m, G, u) \in Nat
<1> DEFINE f == [g \in G |-> {g} \X Places(m[g], u)]
           S == {f[g] : g \in G}
<1>1. IsFiniteSet(G)
  BY FS_Subset, GroupsAssumption
<1>2. f \in Surjection(G, S)
  BY DEF Surjection
<1>3. IsFiniteSet(S)
  BY <1>1, <1>2, FS_Surjection
<1>4. ASSUME NEW g \in G PROVE IsFiniteSet(f[g])
  <2>1. IsFiniteSet(Places(m[g], u)) /\ IsFiniteSet({g})
    BY TimesNat, FS_Singleton DEF MemberLists
  <2> QED
    BY <2>1, FS_Product
<1>5. Parts(m, G, u) = UNION S
  BY DEF Parts
<1> HIDE DEF f
<1>6. IsFiniteSet(UNION S)
  BY <1>3, <1>4, FS_UNION
<1> QED
  BY <1>5, <1>6, FS_CardinalityType DEF CountIn

LEMMA SameAfterReset ==
  ASSUME NEW s \in Seq(Member), NEW i \in DOMAIN s, NEW b \in BOOLEAN
  PROVE  Within(s, Reset(s, i, b)) /\ Within(Reset(s, i, b), s)
<1>1. \A u \in Users : Times(Reset(s, i, b), u) = Times(s, u) /\ Times(s, u) \in Nat
  BY TimesChanged, TimesNat
<1> QED
  BY <1>1 DEF Within

LEMMA CountInJoined ==
  ASSUME NEW m \in MemberLists, NEW G \in SUBSET Groups, NEW g \in Groups, g \notin G,
         NEW u
  PROVE  CountIn(m, Among(G, g), u) = CountIn(m, G, u) + Times(m[g], u)
<1> DEFINE P == {g} \X Places(m[g], u)
<1>1. Parts(m, Among(G, g), u) = Parts(m, G, u) \cup P
  BY DEF Parts, Among
<1>2. Parts(m, G, u) \cap P = {}
  BY DEF Parts
<1>3. IsFiniteSet(Places(m[g], u)) /\ Times(m[g], u) \in Nat
  BY TimesNat DEF MemberLists
<1>4. IsFiniteSet({g}) /\ Cardinality({g}) = 1
  BY FS_Singleton
<1>5. IsFiniteSet(P) /\ Cardinality(P) = 1 * Times(m[g], u)
  BY <1>3, <1>4, FS_Product DEF Times
<1>6. IsFiniteSet(Parts(m, G, u)) /\ CountIn(m, G, u) \in Nat
  BY PartsFinite
<1>7. Cardinality({}) = 0
  BY FS_EmptySet
<1> HIDE DEF P
<1>8. Cardinality(Parts(m, G, u) \cup P) = CountIn(m, G, u) + Cardinality(P) - 0
  BY <1>2, <1>5, <1>6, <1>7, FS_Union DEF CountIn
<1>9. CountIn(m, Among(G, g), u) = Cardinality(Parts(m, G, u) \cup P)
  BY <1>1 DEF CountIn
<1>10. Cardinality(P) = Times(m[g], u)
  BY <1>3, <1>5
<1> QED
  BY <1>3, <1>6, <1>8, <1>9, <1>10

LEMMA CountInChanged ==
  ASSUME NEW m \in MemberLists, NEW n \in MemberLists,
         NEW g \in Groups, \A x \in Groups \ {g} : n[x] = m[x], NEW G \in SUBSET Groups, NEW u
  PROVE  CountIn(n, G, u) = IF g \in G THEN CountIn(m, G, u) - Times(m[g], u) + Times(n[g], u)
                            ELSE CountIn(m, G, u)
<1>1. Parts(n, G \ {g}, u) = Parts(m, G \ {g}, u)
  BY DEF Parts
<1>2. CASE g \notin G
  <2>1. G \ {g} = G
    BY <1>2
  <2> QED
    BY <1>1, <1>2, <2>1 DEF CountIn
<1>3. CASE g \in G
  <2> PICK H \in SUBSET Groups : H = G \ {g}
    OBVIOUS
  <2>1. g \in Groups /\ g \notin H /\ G = Among(H, g)
    BY <1>3 DEF Among
  <2>2. CountIn(n, G, u) = CountIn(n, H, u) + Times(n[g], u)
    BY <2>1, CountInJoined
  <2>3. CountIn(m, G, u) = CountIn(m, H, u) + Times(m[g], u)
    BY <2>1, CountInJoined
  <2>4. CountIn(n, H, u) = CountIn(m, H, u) /\ CountIn(m, H, u) \in Nat
    BY <1>1, PartsFinite DEF CountIn
  <2>5. Times(m[g], u) \in Nat /\ Times(n[g], u) \in Nat
    BY TimesNat DEF MemberLists
  <2> QED
    BY <1>3, <2>2, <2>3, <2>4, <2>5
<1> QED
  BY <1>2, <1>3

USE UsersAssumption, GroupsAssumption, ListsAssumption, RolesAssumption, ServedAssumption

LEMMA CountType ==
  ASSUME IInv, NEW G \in SUBSET Groups, NEW u
  PROVE  Count(G, u) \in Nat /\ HandGiven(u) \in {0, 1}
  BY StoresFine, PartsFinite DEF Count, HandGiven, MemberLists

LEMMA CountAdded ==
  ASSUME IInv, NEW G \in SUBSET Groups, NEW g \in Groups, g \notin G, NEW u
  PROVE  /\ Count(Among(G, g), u) = Count(G, u) + Times(members[g], u)
         /\ Times(members[g], u) \in Nat
  BY StoresFine, CountInJoined, TimesNat DEF Count, MemberLists

LEMMA CountRemoved ==
  ASSUME IInv, NEW G \in SUBSET Groups, NEW g \in G, NEW u
  PROVE  /\ Count(G, u) = Count(Without(G, g), u) + Times(members[g], u)
         /\ Times(members[g], u) \in Nat
<1> PICK H \in SUBSET Groups : H = Without(G, g)
  BY DEF Without
<1>1. g \in Groups /\ g \notin H /\ G = Among(H, g)
  BY DEF Without, Among
<1> QED
  BY <1>1, CountAdded

LEMMA CountPart ==
  ASSUME IInv, NEW G \in SUBSET Groups, NEW H \in SUBSET G, NEW u
  PROVE  Count(H, u) <= Count(G, u)
<1>1. Parts(members, H, u) \subseteq Parts(members, G, u)
  BY DEF Parts
<1>2. IsFiniteSet(Parts(members, G, u))
  BY StoresFine, PartsFinite DEF MemberLists
<1> QED
  BY <1>1, <1>2, FS_Subset DEF Count, CountIn

\* Counting after a group got a new list of members
OneGroup(g) ==
    /\ members' \in [Groups -> Seq(Member)]
    /\ \A x \in Groups \ {g} : members'[x] = members[x]
Grows ==
    \/ members' = members
    \/ \E g \in Groups : OneGroup(g) /\ Within(members[g], members'[g])

LEMMA CountChanged ==
  ASSUME IInv, NEW g \in Groups, OneGroup(g), NEW G \in SUBSET Groups, NEW u
  PROVE  /\ Count(G, u)' \in Nat /\ Times(members[g], u) \in Nat /\ Times(members'[g], u) \in Nat
         /\ Count(G, u)' = IF g \in G THEN Count(G, u) - Times(members[g], u) + Times(members'[g], u)
                           ELSE Count(G, u)
<1> PICK m \in MemberLists : m = members
  BY StoresFine DEF MemberLists
<1> PICK n \in MemberLists : n = members'
  BY DEF OneGroup, MemberLists
<1>1. \A x \in Groups \ {g} : n[x] = m[x]
  BY DEF OneGroup
<1>2. CountIn(n, G, u) \in Nat /\ CountIn(m, G, u) \in Nat
  BY PartsFinite
<1>3. CountIn(n, G, u) = IF g \in G THEN CountIn(m, G, u) - Times(m[g], u) + Times(n[g], u)
                         ELSE CountIn(m, G, u)
  BY <1>1, CountInChanged
<1>4. Count(G, u)' = CountIn(n, G, u) /\ Count(G, u) = CountIn(m, G, u)
  BY DEF Count, CountIn, Parts, Places
<1>5. Times(m[g], u) \in Nat /\ Times(n[g], u) \in Nat
  BY TimesNat DEF MemberLists
<1> QED
  BY <1>2, <1>3, <1>4, <1>5

Recounted(g) == \A G \in SUBSET Groups, u \in Users :
    /\ Count(G, u)' \in Nat /\ Times(members[g], u) \in Nat /\ Times(members'[g], u) \in Nat
    /\ Count(G, u)' = IF g \in G THEN Count(G, u) - Times(members[g], u) + Times(members'[g], u)
                      ELSE Count(G, u)

LEMMA CountsChanged ==
  ASSUME IInv, NEW g \in Groups, OneGroup(g)
  PROVE  Recounted(g)
<1> SUFFICES ASSUME NEW G \in SUBSET Groups, NEW u \in Users
             PROVE  /\ Count(G, u)' \in Nat
                    /\ Times(members[g], u) \in Nat /\ Times(members'[g], u) \in Nat
                    /\ Count(G, u)' = IF g \in G
                                      THEN Count(G, u) - Times(members[g], u) + Times(members'[g], u)
                                      ELSE Count(G, u)
  BY DEF Recounted
<1> QED
  BY CountChanged

LEMMA CountKept ==
  ASSUME IInv, Grows, NEW G \in SUBSET Groups, NEW u \in Users
  PROVE  Count(G, u) <= Count(G, u)' /\ Count(G, u)' \in Nat
<1>1. Count(G, u) \in Nat
  BY CountType
<1>2. CASE members' = members
  <2>1. Count(G, u)' = Count(G, u)
    BY <1>2 DEF Count, CountIn, Parts, Places
  <2> QED
    BY <1>1, <2>1
<1>3. CASE \E g \in Groups : OneGroup(g) /\ Within(members[g], members'[g])
  <2> PICK g \in Groups : OneGroup(g) /\ Within(members[g], members'[g])
    BY <1>3
  <2>1. Times(members[g], u) <= Times(members'[g], u)
    BY DEF Within
  <2>2. /\ Count(G, u)' \in Nat /\ Times(members[g], u) \in Nat /\ Times(members'[g], u) \in Nat
        /\ Count(G, u)' = IF g \in G THEN Count(G, u) - Times(members[g], u) + Times(members'[g], u)
                          ELSE Count(G, u)
    BY CountChanged
  <2> QED
    BY <1>1, <2>1, <2>2
<1> QED
  BY <1>2, <1>3 DEF Grows

LEMMA WithinSelf ==
  ASSUME NEW s \in Seq(Member)
  PROVE  Within(s, s)
  BY TimesNat DEF Within

LEMMA ReplacedGroup ==
  ASSUME IInv, NEW g \in Groups, NEW s \in Seq(Member), Replace(g, s)
  PROVE  /\ OneGroup(g) /\ members[g] \in Seq(Member)
         /\ g \in alive => members'[g] = s
         /\ g \notin alive => members' = members
  BY StoresFine DEF Replace, OneGroup

LEMMA ReplacedGrows ==
  ASSUME IInv, NEW g \in Groups, NEW s \in Seq(Member), Replace(g, s), Within(members[g], s)
  PROVE  Grows
  BY ReplacedGroup DEF Grows

\* Users of entries
LEMMA PlusUsers ==
  ASSUME NEW e \in Entry, NEW n \in Bag, NEW u \in Users
  PROVE  /\ Plus(e, n).users[u] = e.users[u] + n[u]
         /\ Plus(e, n).groups = e.groups /\ e.users[u] \in Nat /\ n[u] \in Nat
  BY DEF Plus, Entry, Bag

LEMMA EntryFacts ==
  ASSUME NEW e \in Entry
  PROVE  e.groups \in SUBSET Groups /\ \A u \in Users : e.users[u] \in Nat
  BY DEF Entry, Bag

\* An entry without a group, and with one
TakenOut(e, g) == [e EXCEPT !.groups = @ \ {g}]
PutIn(e, g) == [e EXCEPT !.groups = @ \cup {g}]

LEMMA EntryWithout ==
  ASSUME NEW e \in Entry, NEW g
  PROVE  /\ TakenOut(e, g) \in Entry /\ TakenOut(e, g).users = e.users
         /\ TakenOut(e, g).groups = e.groups \ {g} /\ TakenOut(e, g).role = e.role
<1>1. TakenOut(e, g) \in Entry
  BY DEF Entry, TakenOut
<1>2. /\ TakenOut(e, g).users = e.users /\ TakenOut(e, g).groups = e.groups \ {g}
      /\ TakenOut(e, g).role = e.role
  BY DEF Entry, TakenOut
<1> QED
  BY <1>1, <1>2

LEMMA EntryWith ==
  ASSUME NEW e \in Entry, NEW g \in Groups
  PROVE  /\ PutIn(e, g) \in Entry /\ PutIn(e, g).users = e.users
         /\ PutIn(e, g).groups = e.groups \cup {g} /\ PutIn(e, g).role = e.role
<1>1. PutIn(e, g) \in Entry
  BY DEF Entry, PutIn
<1>2. /\ PutIn(e, g).users = e.users /\ PutIn(e, g).groups = e.groups \cup {g}
      /\ PutIn(e, g).role = e.role
  BY DEF Entry, PutIn
<1> QED
  BY <1>1, <1>2

LEMMA MinusUsers ==
  ASSUME NEW e \in Entry, NEW n \in Bag, NEW u \in Users
  PROVE  /\ Minus(e, n).users[u] = IF n[u] <= e.users[u] THEN e.users[u] - n[u] ELSE 0
         /\ Minus(e, n).groups = e.groups /\ e.users[u] \in Nat /\ n[u] \in Nat
  BY DEF Minus, Entry, Bag

LEMMA OnceUsers ==
  ASSUME NEW e \in Entry, NEW u \in Users, NEW v \in Users
  PROVE  /\ Plus(e, Once(u)).users[v] = IF v = u THEN e.users[v] + 1 ELSE e.users[v]
         /\ Plus(e, Once(u)).groups = e.groups /\ e.users[v] \in Nat
         /\ Minus(e, Once(u)).users[v] =
              IF v = u /\ e.users[v] > 0 THEN e.users[v] - 1 ELSE e.users[v]
         /\ Minus(e, Once(u)).groups = e.groups
<1>1. Once(u) \in Bag /\ Once(u)[v] = IF v = u THEN 1 ELSE 0
  BY BagTypes DEF Once
<1>2. /\ Plus(e, Once(u)).users[v] = e.users[v] + Once(u)[v]
      /\ Plus(e, Once(u)).groups = e.groups /\ e.users[v] \in Nat
  BY <1>1, PlusUsers
<1>3. /\ Minus(e, Once(u)).users[v] =
           IF Once(u)[v] <= e.users[v] THEN e.users[v] - Once(u)[v] ELSE 0
      /\ Minus(e, Once(u)).groups = e.groups
  BY <1>1, MinusUsers
<1> QED
  BY <1>1, <1>2, <1>3

-----------------------------------------------------------------------------
\* Entries stay bounded while groups are only joined, deleted and asked about.
LEMMA BoundedKept ==
  ASSUME IInv, NEW e \in Entry, Bounded(e), alive' \subseteq alive, asked \subseteq asked', Grows
  PROVE  Bounded(e)'
<1> SUFFICES ASSUME e.groups \subseteq alive', NEW u \in Users
             PROVE  e.users[u] <= Count(e.groups, u)' + HandGiven(u)'
  BY DEF Bounded
<1>1. e.groups \in SUBSET Groups /\ e.users[u] \in Nat
  BY EntryFacts
<1>2. e.users[u] <= Count(e.groups, u) + HandGiven(u)
  BY DEF Bounded
<1>3. Count(e.groups, u) <= Count(e.groups, u)' /\ Count(e.groups, u)' \in Nat
  BY <1>1, CountKept
<1>4. HandGiven(u) <= HandGiven(u)' /\ HandGiven(u)' \in Nat
  BY DEF HandGiven, ByHand
<1> QED
  BY <1>1, <1>2, <1>3, <1>4, CountType

LEMMA AllBounded ==
  ASSUME IInv, SoleOK, auth' = auth, alive' \subseteq alive, asked \subseteq asked', Grows
  PROVE  (\A i \in Ids : Bounded(auth[i]))'
<1>1. \A i \in Ids : auth[i] \in Entry /\ Bounded(auth[i])
  BY StoresFine DEF SoleOK, Ids
<1>2. \A i \in Ids : Bounded(auth[i])' <=> \A x \in {auth[i]} : Bounded(x)'
  BY DEF Bounded
<1>3. \A x \in {auth[i] : i \in Ids} : Bounded(x)'
  BY <1>1, BoundedKept
<1> QED
  BY <1>2, <1>3 DEF Ids

\* One handler goes on while the others are idle.
LEMMA SoleMove ==
  ASSUME IInv, SoleOK, NEW r \in Requests, \A q \in Requests \ {r} : req[q].pc = "idle",
         NEW h, req' = [req EXCEPT ![r] = h], (\A i \in Ids : Bounded(auth[i]))',
         AddSure(r)', LeaveSure(r)', ShareSure(r)'
  PROVE  SoleOK'
<1>1. \A q \in Requests : q # r => req'[q] = req[q] /\ req[q].pc = "idle"
  BY DEF IInv, TypeOK
<1>2. Alone'
  BY <1>1 DEF Alone
<1>3. \A q \in Requests : q # r => (AddSure(q) /\ LeaveSure(q) /\ ShareSure(q))'
  BY <1>1 DEF AddSure, LeaveSure, ShareSure, Taking
<1> QED
  BY <1>2, <1>3 DEF SoleOK

LEMMA SoleGo ==
  ASSUME IInv, SoleOK, NEW r \in Requests, req[r].pc # "idle", NEW h,
         req' = [req EXCEPT ![r] = h], (\A i \in Ids : Bounded(auth[i]))',
         AddSure(r)', LeaveSure(r)', ShareSure(r)'
  PROVE  SoleOK'
<1>1. \A q \in Requests \ {r} : req[q].pc = "idle"
  BY DEF SoleOK, Alone
<1> QED
  BY <1>1, SoleMove

LEMMA SoleIdle ==
  ASSUME IInv, SoleOK, NEW r \in Requests, req[r].pc # "idle",
         req' = [req EXCEPT ![r] = Idle], (\A i \in Ids : Bounded(auth[i]))'
  PROVE  SoleOK'
<1>1. req'[r] = Idle
  BY DEF IInv, TypeOK
<1>2. AddSure(r)' /\ LeaveSure(r)' /\ ShareSure(r)'
  BY <1>1 DEF AddSure, LeaveSure, ShareSure, Taking, Idle
<1> QED
  BY <1>2, SoleGo

LEMMA SoleEnd ==
  ASSUME IInv, SoleOK, NEW r \in Requests, req[r].pc # "idle", End(r),
         (\A i \in Ids : Bounded(auth[i]))'
  PROVE  SoleOK'
  BY SoleIdle DEF End

\* A handler that only read ends.
LEMMA SoleEndRead ==
  ASSUME IInv, SoleOK, NEW r \in Requests, req[r].pc # "idle", End(r), UNCHANGED stores
  PROVE  SoleOK'
<1>1. (\A i \in Ids : Bounded(auth[i]))'
  BY AllBounded DEF End, stores, history, Grows
<1> QED
  BY <1>1, SoleEnd

LEMMA AfterGoto ==
  ASSUME IInv, NEW r \in Requests, NEW label, Goto(r, label)
  PROVE  /\ req' = [req EXCEPT ![r] = req'[r]] /\ asked' = asked
         /\ req'[r].pc = label /\ req'[r].call = req[r].call /\ req'[r].list = req[r].list
         /\ req'[r].old = req[r].old /\ req'[r].at = req[r].at /\ req'[r].nth = req[r].nth
         /\ req'[r].copies = req[r].copies
  BY DEF Goto, IInv, TypeOK, Handler, history

LEMMA AfterGotoWith ==
  ASSUME IInv, NEW r \in Requests, NEW label, NEW copies, GotoWith(r, label, copies)
  PROVE  /\ req' = [req EXCEPT ![r] = req'[r]] /\ asked' = asked
         /\ req'[r].pc = label /\ req'[r].call = req[r].call /\ req'[r].list = req[r].list
         /\ req'[r].old = req[r].old /\ req'[r].at = req[r].at /\ req'[r].nth = req[r].nth
         /\ req'[r].copies = copies
  BY DEF GotoWith, IInv, TypeOK, Handler, history

\* A handler that only read goes on.
LEMMA SoleRead ==
  ASSUME IInv, SoleOK, NEW r \in Requests, req[r].pc # "idle", UNCHANGED stores,
         NEW h, req' = [req EXCEPT ![r] = h], asked' = asked,
         AddSure(r)', LeaveSure(r)', ShareSure(r)'
  PROVE  SoleOK'
<1>1. (\A i \in Ids : Bounded(auth[i]))'
  BY AllBounded DEF stores, Grows
<1> QED
  BY <1>1, SoleGo

\* Nothing an entry is measured by changes.
LEMMA SameBounded ==
  ASSUME UNCHANGED <<alive, members, asked>>, NEW e
  PROVE  Bounded(e)' <=> Bounded(e)
  BY DEF Bounded, Count, CountIn, Parts, Places, HandGiven, ByHand

LEMMA WrittenBounded ==
  ASSUME IInv, SoleOK, UNCHANGED <<alive, members, asked>>, NEW id, NEW e, Bounded(e),
         auth' = [auth EXCEPT ![id] = e]
  PROVE  (\A i \in Ids : Bounded(auth[i]))'
<1>1. \A i \in DOMAIN auth : auth'[i] \in {e, auth[i]}
  OBVIOUS
<1>2. \A i \in DOMAIN auth : Bounded(auth[i])
  BY DEF SoleOK, Ids
<1>3. \A x \in {e} \cup {auth[i] : i \in DOMAIN auth} : Bounded(x)'
  BY <1>2, SameBounded
<1>4. \A x \in {auth'[i] : i \in DOMAIN auth'} : Bounded(x)'
  BY <1>1, <1>3
<1>5. \A i \in DOMAIN auth' : Bounded(auth[i])' <=> \A x \in {auth'[i]} : Bounded(x)'
  BY DEF Bounded
<1> QED
  BY <1>4, <1>5 DEF Ids

LEMMA InsertedBounded ==
  ASSUME IInv, SoleOK, UNCHANGED <<alive, members, asked>>, NEW e \in Entry, Bounded(e),
         auth' = Append(auth, e)
  PROVE  (\A i \in Ids : Bounded(auth[i]))'
<1>1. \A i \in DOMAIN auth' : auth'[i] \in {e} \cup {auth[j] : j \in DOMAIN auth}
  <2>1. auth \in Seq(Entry)
    BY StoresFine
  <2>2. \A i \in DOMAIN auth' : i \in DOMAIN auth \/ i = Len(auth) + 1
    BY <2>1
  <2>3. \A i \in DOMAIN auth : auth'[i] = auth[i]
    BY <2>1
  <2>4. auth'[Len(auth) + 1] = e
    BY <2>1
  <2> QED
    BY <2>2, <2>3, <2>4
<1>2. \A i \in DOMAIN auth : Bounded(auth[i])
  BY DEF SoleOK, Ids
<1>3. \A x \in {e} \cup {auth[i] : i \in DOMAIN auth} : Bounded(x)'
  BY <1>2, SameBounded
<1>4. \A x \in {auth'[i] : i \in DOMAIN auth'} : Bounded(x)'
  BY <1>1, <1>3
<1>5. \A i \in DOMAIN auth' : Bounded(auth[i])' <=> \A x \in {auth'[i]} : Bounded(x)'
  BY DEF Bounded
<1> QED
  BY <1>4, <1>5 DEF Ids

-----------------------------------------------------------------------------
\* Members
LEMMA AddMemberSole ==
  ASSUME IInv, SoleOK, NEW r \in Requests, AddMember(r) PROVE SoleOK'
<1> DEFINE g == GroupOf(r)
           m == [user |-> UserOf(r), editor |-> RoleOf(r) = "editor"]
           h == [req[r] EXCEPT !.pc = "saveMember", !.list = Append(members[g], m)]
<1>1. /\ Op(r) = "AddMember" /\ req[r].pc = "group" /\ g \in Groups /\ UserOf(r) \in Users
      /\ members[g] \in Seq(Member) /\ req[r] \in Handler
  BY HandlerFacts, CallFacts, StoresFine DEF AddMember, At
<1>2. CASE End(r)
  BY <1>1, <1>2, SoleEndRead DEF AddMember
<1>3. CASE /\ UserOf(r) \notin MembersOf(members[g])
           /\ req' = [req EXCEPT ![r] = h]
           /\ UNCHANGED history
  <2>1. m \in Member
    BY <1>1 DEF Member
  <2>2. \A u : /\ Times(members[g], u) \in Nat
              /\ Times(Append(members[g], m), u)
                   = Times(members[g], u) + (IF UserOf(r) = u THEN 1 ELSE 0)
    BY <1>1, <2>1, TimesNat, TimesAppended
  <2>3. /\ req'[r].pc = "saveMember" /\ req'[r].call = req[r].call
        /\ req'[r].list = Append(members[g], m)
    BY <1>1, <1>3 DEF IInv, TypeOK, Handler
  <2>4. members' = members /\ UNCHANGED stores /\ asked' = asked
    BY <1>3 DEF AddMember, stores, history
  <2> HIDE DEF m, h
  <2>5. /\ Within(members[g], Append(members[g], m))
        /\ Times(members[g], UserOf(r)) + 1 <= Times(Append(members[g], m), UserOf(r))
    BY <2>2 DEF Within
  <2>6. AddSure(r)' /\ LeaveSure(r)' /\ ShareSure(r)'
    BY <1>1, <1>3, <2>3, <2>4, <2>5
    DEF AddSure, LeaveSure, ShareSure, Taking, Covers, Op, UserOf, GroupOf
  <2> QED
    BY <1>1, <1>3, <2>4, <2>6, SoleRead
<1> QED
  BY <1>2, <1>3 DEF AddMember

LEMMA UpdateMemberSole ==
  ASSUME IInv, SoleOK, NEW r \in Requests, UpdateMember(r) PROVE SoleOK'
<1> DEFINE s == members[GroupOf(r)]
           b == RoleOf(r) = "editor"
<1>1. /\ Op(r) = "UpdateMember" /\ req[r].pc = "group" /\ GroupOf(r) \in Groups
      /\ s \in Seq(Member) /\ req[r] \in Handler
  BY HandlerFacts, CallFacts, StoresFine DEF UpdateMember, At
<1>2. CASE End(r)
  BY <1>1, <1>2, SoleEndRead DEF UpdateMember
<1>3. CASE \E i \in Places(s, UserOf(r)) :
             /\ req' = [req EXCEPT ![r] = [@ EXCEPT !.pc = "saveMember", !.list = [s EXCEPT ![i].editor = b]]]
             /\ UNCHANGED history
  <2> PICK i \in Places(s, UserOf(r)) :
             /\ req' = [req EXCEPT ![r] = [@ EXCEPT !.pc = "saveMember", !.list = [s EXCEPT ![i].editor = b]]]
             /\ UNCHANGED history
    BY <1>3
  <2> DEFINE t == [s EXCEPT ![i].editor = b]
             h == [req[r] EXCEPT !.pc = "saveMember", !.list = t]
  <2>1. req' = [req EXCEPT ![r] = h]
    OBVIOUS
  <2>0. i \in DOMAIN s /\ b \in BOOLEAN
    BY DEF Places
  <2>2. Within(s, t)
    <3> PICK q \in Seq(Member), c \in BOOLEAN : q = s /\ c = b
      BY <1>1, <2>0
    <3>1. i \in DOMAIN q
      BY <2>0
    <3>2. Within(q, Reset(q, i, c))
      BY <3>1, SameAfterReset
    <3> QED
      BY <3>2 DEF Reset
  <2>3. h.pc = "saveMember" /\ h.call = req[r].call /\ h.list = t
    BY <1>1 DEF Handler
  <2>4. members' = members /\ UNCHANGED stores /\ asked' = asked
    BY DEF UpdateMember, stores, history
  <2> HIDE DEF b, t, h
  <2>5. req'[r] = h
    BY <2>1 DEF IInv, TypeOK
  <2>6. AddSure(r)' /\ LeaveSure(r)' /\ ShareSure(r)'
    BY <1>1, <2>2, <2>3, <2>4, <2>5
    DEF AddSure, LeaveSure, ShareSure, Taking, Covers, Op, UserOf, GroupOf
  <2> QED
    BY <1>1, <2>1, <2>4, <2>6, SoleRead
<1> QED
  BY <1>2, <1>3 DEF UpdateMember

\* The member that add_member saved is not counted in the entries yet.
LEMMA SaveMemberSole ==
  ASSUME IInv, SoleOK, NEW r \in Requests, SaveMember(r) PROVE SoleOK'
<1> PICK g \in Groups : g = GroupOf(r)
  BY CallFacts DEF SaveMember, At
<1>1. /\ req[r].pc = "saveMember" /\ Covers(r)
      /\ AddSure(r) /\ UNCHANGED <<alive, auth>> /\ asked' = asked
      /\ members \in [Groups -> Seq(Member)]
  BY StoresFine DEF SaveMember, At, SoleOK, AddSure, End, Goto, history
<1>2. /\ Replace(g, req[r].list) /\ req[r].list \in Seq(Member) /\ OneGroup(g)
      /\ g \in alive => members'[g] = req[r].list
      /\ Grows
  <2>1. Replace(g, req[r].list) /\ req[r].list \in Seq(Member)
    BY HandlerFacts DEF SaveMember
  <2> QED
    BY <1>1, <2>1, ReplacedGroup, ReplacedGrows DEF Covers
<1>3. (\A i \in Ids : Bounded(auth[i]))'
  BY <1>1, <1>2, AllBounded
<1>4. CASE End(r)
  BY <1>1, <1>3, <1>4, SoleEnd
<1>5. CASE Op(r) = "AddMember" /\ g \in alive /\ Goto(r, "push")
  <2> PICK u \in Users : u = UserOf(r)
    BY <1>5, CallFacts
  <2>1. Times(members[g], u) + 1 <= Times(members'[g], u)
    BY <1>1, <1>2, <1>5 DEF AddSure
  <2>2. ASSUME NEW e \in Entry, Bounded(e), g \in e.groups PROVE Spare(e, u)'
    <3> SUFFICES ASSUME e.groups \subseteq alive
                 PROVE  e.users[u] + 1 <= Count(e.groups, u)' + HandGiven(u)'
      BY <1>1 DEF Spare
    <3>1. e.groups \in SUBSET Groups /\ e.users[u] \in Nat
      BY EntryFacts
    <3>2. e.users[u] <= Count(e.groups, u) + HandGiven(u)
      BY <2>2 DEF Bounded
    <3>3. /\ Count(e.groups, u)' \in Nat /\ Times(members[g], u) \in Nat
          /\ Times(members'[g], u) \in Nat
          /\ Count(e.groups, u)' = Count(e.groups, u) - Times(members[g], u) + Times(members'[g], u)
      <4>1. Recounted(g)
        BY <1>2, CountsChanged
      <4> QED
        BY <2>2, <3>1, <4>1 DEF Recounted, Count
    <3>4. HandGiven(u)' = HandGiven(u)
      BY <1>1 DEF HandGiven, ByHand
    <3>5. Count(e.groups, u) \in Nat /\ HandGiven(u) \in {0, 1}
      BY <3>1, CountType
    <3> QED
      BY <2>1, <3>1, <3>2, <3>3, <3>4, <3>5
  <2>3. /\ req' = [req EXCEPT ![r] = req'[r]] /\ req'[r].pc = "push"
        /\ req'[r].call = req[r].call
    BY <1>5, AfterGoto
  <2>4. AddSure(r)'
    <3>1. GroupOf(r)' = g /\ UserOf(r)' = u
      BY <2>3 DEF GroupOf, UserOf
    <3>2. \A x \in {auth[i] : i \in WithGroup(g)} : Spare(x, u)'
      BY <2>2, StoresFine DEF SoleOK, WithGroup, Ids
    <3>3. WithGroup(g)' = WithGroup(g)
      BY <1>1 DEF WithGroup, Ids
    <3>4. \A i \in WithGroup(g) : Spare(auth[i], u)' <=> \A x \in {auth[i]} : Spare(x, u)'
      BY <1>1 DEF Spare
    <3> QED
      BY <1>1, <2>3, <3>1, <3>2, <3>3, <3>4 DEF AddSure
  <2>5. LeaveSure(r)' /\ ShareSure(r)'
    BY <1>5, <2>3 DEF LeaveSure, ShareSure, Taking, Op
  <2> QED
    BY <1>1, <1>3, <2>3, <2>4, <2>5, SoleGo
<1> QED
  BY <1>4, <1>5 DEF SaveMember

\* Every entry the group is in has room for the new member.
LEMMA PushSole ==
  ASSUME IInv, SoleOK, NEW r \in Requests, Push(r) PROVE SoleOK'
<1> PICK g \in Groups, u \in Users : g = GroupOf(r) /\ u = UserOf(r)
  BY CallFacts DEF Push, At
<1>1. /\ req[r].pc = "push" /\ End(r) /\ UNCHANGED <<alive, members, asked>>
      /\ \A i \in WithGroup(g) : Spare(auth[i], u)
  BY DEF Push, At, SoleOK, AddSure, End, history
<1>2. ASSUME NEW e \in Entry, Bounded(e), Spare(e, u) PROVE Bounded(Plus(e, Once(u)))
  <2> DEFINE f == Plus(e, Once(u))
  <2>0. ASSUME NEW v \in Users
        PROVE  f.groups = e.groups /\ f.users[v] = IF v = u THEN e.users[v] + 1 ELSE e.users[v]
    BY OnceUsers
  <2>1. /\ f.groups = e.groups
        /\ \A v \in Users : f.users[v] = IF v = u THEN e.users[v] + 1 ELSE e.users[v]
    BY <2>0
  <2> HIDE DEF f
  <2> QED
    BY <1>2, <2>1 DEF Bounded, Spare, f
<1>3. \A x \in {auth[i] : i \in DOMAIN auth} : Bounded(x)'
  BY <1>1, StoresFine, SameBounded DEF SoleOK, Ids
<1>4. \A x \in {Plus(auth[i], Once(u)) : i \in WithGroup(g)} : Bounded(x)'
  BY <1>1, <1>2, StoresFine, SameBounded DEF SoleOK, WithGroup, Ids
<1>5. /\ DOMAIN auth' = DOMAIN auth
      /\ \A i \in DOMAIN auth :
           auth'[i] = IF i \in WithGroup(g) THEN Plus(auth[i], Once(u)) ELSE auth[i]
  BY DEF Push, Ids
<1>6. \A x \in {auth'[i] : i \in DOMAIN auth'} : Bounded(x)'
  BY <1>3, <1>4, <1>5
<1>7. \A i \in DOMAIN auth' : Bounded(auth[i])' <=> \A x \in {auth'[i]} : Bounded(x)'
  BY DEF Bounded
<1>8. (\A i \in Ids : Bounded(auth[i]))'
  BY <1>6, <1>7 DEF Ids
<1> QED
  BY <1>1, <1>8, SoleEnd

LEMMA RemoveMemberSole ==
  ASSUME IInv, SoleOK, NEW r \in Requests, RemoveMember(r) PROVE SoleOK'
<1> DEFINE s == members[GroupOf(r)]
<1>1. /\ Op(r) = "RemoveMember" /\ req[r].pc = "group" /\ req[r] \in Handler
      /\ UNCHANGED stores /\ Within(s, s)
  BY HandlerFacts, CallFacts, StoresFine, WithinSelf DEF RemoveMember, At
<1>2. CASE End(r)
  BY <1>1, <1>2, SoleEndRead
<1>3. CASE \E i \in Places(s, UserOf(r)) :
             /\ req' = [req EXCEPT ![r] = [@ EXCEPT !.pc = "entries", !.list = s, !.at = i]]
             /\ UNCHANGED history
  <2> PICK i \in Places(s, UserOf(r)) :
             /\ req' = [req EXCEPT ![r] = [@ EXCEPT !.pc = "entries", !.list = s, !.at = i]]
             /\ UNCHANGED history
    BY <1>3
  <2> DEFINE h == [req[r] EXCEPT !.pc = "entries", !.list = s, !.at = i]
  <2>0. i \in DOMAIN s
    BY DEF Places
  <2>1. req' = [req EXCEPT ![r] = h] /\ asked' = asked /\ members' = members
    BY <1>1 DEF history, stores
  <2>2. h.pc = "entries" /\ h.call = req[r].call /\ h.list = s /\ h.at = i
    BY <1>1 DEF Handler
  <2> HIDE DEF h
  <2>3. req'[r] = h
    BY <2>1 DEF IInv, TypeOK
  <2>4. AddSure(r)' /\ LeaveSure(r)' /\ ShareSure(r)'
    BY <1>1, <2>0, <2>1, <2>2, <2>3
    DEF AddSure, LeaveSure, ShareSure, Taking, Covers, Op, GroupOf
  <2> QED
    BY <1>1, <2>1, <2>4, SoleRead
<1> QED
  BY <1>2, <1>3 DEF RemoveMember

LEMMA AfterNextLeaving ==
  ASSUME IInv, NEW r \in Requests, NEW i \in Nat \ {0}, NEW s \in Seq(Member),
         GotoNextLeaving(r, s, i)
  PROVE  /\ req' = [req EXCEPT ![r] = req'[r]] /\ req'[r].call = req[r].call
         /\ req'[r].list = s
         /\ req'[r].pc = "newMembers" \/ (req'[r].pc = "entries" /\ req'[r].at \in DOMAIN s)
<1>1. Leaving(s, req[r].call.list, i) \subseteq DOMAIN s
  BY DEF Leaving
<1>2. req[r] \in Handler /\ req \in [Requests -> Handler]
  BY DEF IInv, TypeOK
<1>3. CASE req' = [req EXCEPT ![r] = [@ EXCEPT !.pc = "newMembers", !.list = s,
                                             !.nth = 1, !.at = 1]]
  <2> DEFINE h == [req[r] EXCEPT !.pc = "newMembers", !.list = s, !.nth = 1, !.at = 1]
  <2>1. h.pc = "newMembers" /\ h.call = req[r].call /\ h.list = s
    BY <1>2 DEF Handler
  <2>2. req' = [req EXCEPT ![r] = h]
    BY <1>3
  <2> HIDE DEF h
  <2>3. req'[r] = h
    BY <1>2, <2>2
  <2>4. req' = [req EXCEPT ![r] = req'[r]]
    BY <2>2, <2>3
  <2> QED
    BY <2>1, <2>3, <2>4
<1>4. CASE \E j \in Leaving(s, req[r].call.list, i) :
             req' = [req EXCEPT ![r] = [@ EXCEPT !.pc = "entries", !.list = s, !.at = j]]
  <2> PICK j \in DOMAIN s : req' = [req EXCEPT ![r] = [@ EXCEPT !.pc = "entries", !.list = s, !.at = j]]
    BY <1>1, <1>4
  <2> DEFINE h == [req[r] EXCEPT !.pc = "entries", !.list = s, !.at = j]
  <2>1. h.pc = "entries" /\ h.call = req[r].call /\ h.list = s /\ h.at = j
    BY <1>2 DEF Handler
  <2>2. req' = [req EXCEPT ![r] = h]
    OBVIOUS
  <2> HIDE DEF h
  <2>3. req'[r] = h
    BY <1>2, <2>2
  <2> QED
    BY <2>1, <2>2, <2>3
<1> QED
  BY <1>3, <1>4 DEF GotoNextLeaving

LEMMA NextLeavingSole ==
  ASSUME IInv, SoleOK, NEW r \in Requests, Op(r) = "EditGroup", req[r].pc # "idle",
         NEW i \in Nat \ {0}, NEW s \in Seq(Member), GotoNextLeaving(r, s, i),
         Within(members'[GroupOf(r)], s),
         (\A j \in Ids : Bounded(auth[j]))'
  PROVE  SoleOK'
<1>1. /\ req' = [req EXCEPT ![r] = req'[r]] /\ req'[r].call = req[r].call /\ req'[r].list = s
      /\ req'[r].pc = "newMembers" \/ (req'[r].pc = "entries" /\ req'[r].at \in DOMAIN s)
  BY AfterNextLeaving
<1>2. AddSure(r)' /\ LeaveSure(r)' /\ ShareSure(r)'
  BY <1>1 DEF AddSure, LeaveSure, ShareSure, Taking, Covers, Op, GroupOf
<1> QED
  BY <1>1, <1>2, SoleGo

LEMMA EditGroupSole ==
  ASSUME IInv, SoleOK, NEW r \in Requests, EditGroup(r) PROVE SoleOK'
<1> PICK g \in Groups : g = GroupOf(r)
  BY CallFacts DEF EditGroup, At
<1>1. /\ Op(r) = "EditGroup" /\ req[r].pc = "group" /\ members[g] \in Seq(Member)
      /\ GotoNextLeaving(r, members[g], 1) /\ UNCHANGED stores /\ asked' = asked
  BY StoresFine DEF EditGroup, At, GotoNextLeaving, history
<1>2. (\A i \in Ids : Bounded(auth[i]))'
  BY <1>1, AllBounded DEF stores, Grows
<1> PICK s \in Seq(Member) : s = members[g]
  BY <1>1
<1>3. GotoNextLeaving(r, s, 1)
  BY <1>1 DEF GotoNextLeaving
<1>4. /\ Within(members'[GroupOf(r)], s)
      /\ req[r].pc # "idle" /\ 1 \in Nat \ {0}
  BY <1>1, WithinSelf DEF stores
<1> QED
  BY <1>1, <1>2, <1>3, <1>4, NextLeavingSole

\* remove_member leaves out the entries the user does not stand in.
LEMMA ReadEntriesSole ==
  ASSUME IInv, SoleOK, NEW r \in Requests, ReadEntries(r) PROVE SoleOK'
<1> PICK g \in Groups : g = GroupOf(r)
  BY CallFacts DEF ReadEntries, At
<1> DEFINE taken == {i \in WithGroup(g) : Op(r) = "RemoveMember" => i \in WithUser(Leaver(r))}
           copies == {CopyOf(i) : i \in taken}
<1>1. /\ req[r].pc = "entries" /\ Op(r) \in {"RemoveMember", "EditGroup"}
      /\ GotoWith(r, "takeRole", copies) /\ UNCHANGED stores
      /\ Covers(r) /\ req[r].at \in DOMAIN req[r].list /\ req[r].list \in Seq(Member)
  BY HandlerFacts DEF ReadEntries, At, SoleOK, LeaveSure, Taking
<1>2. /\ req' = [req EXCEPT ![r] = req'[r]] /\ asked' = asked
      /\ req'[r].pc = "takeRole" /\ req'[r].call = req[r].call /\ req'[r].list = req[r].list
      /\ req'[r].at = req[r].at /\ req'[r].copies = copies
  BY <1>1, AfterGotoWith
<1>3. \A x \in copies : x.id \in WithGroup(g) /\ x.entry = auth[x.id]
  BY DEF CopyOf
<1>4. ASSUME NEW i \in WithGroup(g), \A x \in copies : x.id # i
      PROVE  auth[i].users[Leaver(r)] = 0
  <2>1. i \notin taken
    <3>1. i \in taken => CopyOf(i) \in copies
      OBVIOUS
    <3>2. CopyOf(i).id = i
      BY DEF CopyOf
    <3> QED
      BY <1>4, <3>1, <3>2
  <2>2. i \in DOMAIN auth /\ auth[i] \in Entry
    BY StoresFine DEF WithGroup, Ids
  <2>3. Leaver(r) \in Users
    BY <1>1, UsersOfList DEF Leaver, MembersOf
  <2>4. auth[i].users[Leaver(r)] \in Nat
    BY <2>2, <2>3, EntryFacts
  <2> QED
    BY <2>1, <2>2, <2>4 DEF WithUser, Ids
<1> HIDE DEF copies
<1>5. LeaveSure(r)'
  <2>1. /\ GroupOf(r)' = g /\ Leaver(r)' = Leaver(r) /\ WithGroup(g)' = WithGroup(g)
        /\ auth' = auth /\ members' = members
    BY <1>1, <1>2 DEF GroupOf, Leaver, WithGroup, Ids, stores
  <2>2. Covers(r)'
    BY <1>1, <1>2, <2>1 DEF Covers, GroupOf
  <2> QED
    BY <1>1, <1>2, <1>3, <1>4, <2>1, <2>2 DEF LeaveSure, Taking, Leaves
<1>6. AddSure(r)' /\ ShareSure(r)'
  BY <1>1, <1>2 DEF AddSure, ShareSure, Op
<1> QED
  BY <1>1, <1>2, <1>5, <1>6, SoleRead

LEMMA MinusBounded ==
  ASSUME IInv, NEW e \in Entry, Bounded(e), NEW n \in Bag
  PROVE  Bounded(Minus(e, n))
<1> DEFINE f == Minus(e, n)
<1>1. ASSUME NEW u \in Users
      PROVE  /\ f.users[u] <= e.users[u] /\ f.users[u] \in Nat
             /\ e.users[u] \in Nat /\ f.groups = e.groups
  <2>1. /\ f.users[u] = IF n[u] <= e.users[u] THEN e.users[u] - n[u] ELSE 0
        /\ f.groups = e.groups /\ e.users[u] \in Nat /\ n[u] \in Nat
    BY MinusUsers
  <2> HIDE DEF f
  <2> QED
    BY <2>1
<1>2. e.groups \in SUBSET Groups
  BY DEF Entry
<1>3. \A u \in Users : Count(e.groups, u) \in Nat /\ HandGiven(u) \in {0, 1}
  BY <1>2, CountType
<1> HIDE DEF f
<1>4. ASSUME e.groups \subseteq alive, NEW u \in Users
      PROVE  f.users[u] <= Count(e.groups, u) + HandGiven(u)
  <2>1. e.users[u] <= Count(e.groups, u) + HandGiven(u)
    BY <1>4 DEF Bounded
  <2>2. /\ Count(e.groups, u) \in Nat /\ HandGiven(u) \in {0, 1}
        /\ f.users[u] <= e.users[u] /\ f.users[u] \in Nat /\ e.users[u] \in Nat
    BY <1>1, <1>3, <1>4
  <2> QED
    BY <2>1, <2>2
<1> QED
  BY <1>1, <1>4 DEF Bounded, f

\* A user who was taken off an entry may leave one of its groups.
LEMMA TakenBounded ==
  ASSUME IInv, NEW e \in Entry, Bounded(e), NEW u \in Users, e.users[u] > 0
  PROVE  /\ Minus(e, Once(u)).groups = e.groups
         /\ Bounded(Minus(e, Once(u))) /\ Spare(Minus(e, Once(u)), u)
<1>1. Minus(e, Once(u)).users[u] = e.users[u] - 1 /\ Minus(e, Once(u)).groups = e.groups
  BY OnceUsers
<1>2. e.groups \in SUBSET Groups /\ e.users[u] \in Nat
  BY EntryFacts
<1>3. Count(e.groups, u) \in Nat /\ HandGiven(u) \in {0, 1}
  BY <1>2, CountType
<1>4. ASSUME e.groups \subseteq alive
      PROVE  Minus(e, Once(u)).users[u] + 1 <= Count(e.groups, u) + HandGiven(u)
  <2>1. e.users[u] <= Count(e.groups, u) + HandGiven(u)
    BY <1>4 DEF Bounded
  <2> QED
    BY <1>1, <1>2, <1>3, <2>1
<1> QED
  BY <1>1, <1>4, MinusBounded, BagTypes DEF Spare

\* The user is taken off the entry as it is, and so may leave the group.
LEMMA TakeRoleSole ==
  ASSUME IInv, SoleOK, NEW r \in Requests, TakeRole(r) PROVE SoleOK'
<1> PICK g \in Groups : g = GroupOf(r)
  BY CallFacts DEF TakeRole, At
<1>1. /\ req[r].pc = "takeRole" /\ Op(r) \in {"RemoveMember", "EditGroup"}
      /\ UNCHANGED <<alive, members>>
      /\ Covers(r) /\ req[r].at \in DOMAIN req[r].list /\ req[r].list \in Seq(Member)
      /\ \A x \in req[r].copies : x.id \in WithGroup(g) /\ x.entry = auth[x.id]
      /\ \A i \in WithGroup(g) :
           (\A x \in req[r].copies : x.id # i) => Leaves(auth[i], Leaver(r))
  BY HandlerFacts DEF TakeRole, At, SoleOK, LeaveSure, Taking
<1> PICK u \in Users : u = Leaver(r)
  BY <1>1, UsersOfList DEF Leaver, MembersOf
<1>2. ASSUME req'[r].call = req[r].call, req'[r].list = req[r].list, req'[r].at = req[r].at
      PROVE  /\ GroupOf(r)' = g /\ Leaver(r)' = u /\ Op(r)' = Op(r) /\ Covers(r)'
             /\ (req[r].at \in DOMAIN req[r].list)'
  BY <1>1, <1>2 DEF GroupOf, Leaver, Op, Covers
<1>3. CASE req[r].copies = {} /\ Goto(r, "dropMember") /\ UNCHANGED auth
  <2>1. /\ req' = [req EXCEPT ![r] = req'[r]] /\ req'[r].pc = "dropMember"
        /\ req'[r].call = req[r].call /\ req'[r].list = req[r].list /\ req'[r].at = req[r].at
        /\ UNCHANGED stores /\ asked' = asked
    BY <1>1, <1>3, AfterGoto DEF stores
  <2>2. \A i \in WithGroup(g) : Leaves(auth[i], u)
    BY <1>1, <1>3
  <2>3. (\A i \in WithGroup(g) : Leaves(auth[i], u))'
    BY <2>1, <2>2 DEF stores, WithGroup, Ids, Leaves, Spare, Count, CountIn, Parts, Places, HandGiven, ByHand
  <2>4. LeaveSure(r)'
    BY <1>2, <1>3, <2>1, <2>3 DEF LeaveSure, Taking
  <2>5. AddSure(r)' /\ ShareSure(r)'
    BY <1>1, <1>2, <1>3, <2>1 DEF AddSure, ShareSure
  <2> QED
    BY <1>1, <2>1, <2>4, <2>5, SoleRead
<1>4. CASE End(r) /\ UNCHANGED auth
  BY <1>1, <1>4, SoleEndRead DEF stores
<1>5. ASSUME NEW x \in req[r].copies, x.entry.users[u] > 0,
             auth' = [auth EXCEPT ![x.id] = Minus(x.entry, Once(u))],
             GotoWith(r, "takeRole", req[r].copies \ {x})
      PROVE  SoleOK'
  <2> DEFINE e == x.entry
             f == Minus(e, Once(u))
             copies == req[r].copies \ {x}
  <2>1. /\ req' = [req EXCEPT ![r] = req'[r]] /\ asked' = asked /\ req'[r].pc = "takeRole"
        /\ req'[r].call = req[r].call /\ req'[r].list = req[r].list
        /\ req'[r].at = req[r].at /\ req'[r].copies = copies
    BY <1>5, AfterGotoWith
  <2>2. /\ x.id \in DOMAIN auth /\ e = auth[x.id] /\ e \in Entry /\ Bounded(e)
        /\ e.groups \in SUBSET Groups
    BY <1>1, StoresFine DEF WithGroup, Ids, SoleOK, Entry
  <2>3. e.users[u] > 0
    BY <1>5
  <2>4. f.groups = e.groups /\ Bounded(f) /\ Spare(f, u)
    BY <2>2, <2>3, TakenBounded
  <2> HIDE DEF f, e, copies
  <2>5. auth' = [auth EXCEPT ![x.id] = f] /\ x.entry = e
    BY <1>5 DEF f, e
  <2>6. (\A i \in Ids : Bounded(auth[i]))'
    BY <1>1, <2>1, <2>4, <2>5, WrittenBounded
  <2>7. /\ DOMAIN auth' = DOMAIN auth
        /\ \A i \in DOMAIN auth : auth'[i] = IF i = x.id THEN f ELSE auth[i]
    BY <2>5
  <2>8. WithGroup(g)' = WithGroup(g)
    BY <2>2, <2>4, <2>7 DEF WithGroup, Ids
  <2>9. \A y \in copies : y.id # x.id
    <3>1. \A y \in req[r].copies : y \in Copy /\ y = [id |-> y.id, entry |-> y.entry]
      BY HandlerFacts DEF Copy
    <3> QED
      BY <1>1, <3>1 DEF copies
  <2>10. \A y \in copies : y.id \in WithGroup(g) /\ y.entry = auth'[y.id]
    BY <1>1, <2>7, <2>9 DEF copies, WithGroup, Ids
  <2>11. ASSUME NEW i \in WithGroup(g), \A y \in copies : y.id # i
         PROVE  Leaves(auth'[i], u)
    <3>1. CASE i = x.id
      BY <2>2, <2>4, <2>7, <3>1 DEF Leaves
    <3>2. CASE i # x.id
      <4>1. \A y \in req[r].copies : y.id # i
        BY <2>11, <3>2 DEF copies
      <4>2. i \in DOMAIN auth
        BY DEF WithGroup, Ids
      <4> QED
        BY <1>1, <2>7, <3>2, <4>1, <4>2
    <3> QED
      BY <3>1, <3>2
  <2>12. \A i \in WithGroup(g) : Leaves(auth[i], u)' <=> Leaves(auth'[i], u)
    BY <1>1, <2>1 DEF Leaves, Spare, Count, CountIn, Parts, Places, HandGiven, ByHand
  <2>13. LeaveSure(r)'
    BY <1>2, <2>1, <2>8, <2>10, <2>11, <2>12 DEF LeaveSure, Taking
  <2>14. AddSure(r)' /\ ShareSure(r)'
    BY <1>1, <2>1 DEF AddSure, ShareSure, Op
  <2> QED
    BY <1>1, <2>1, <2>6, <2>13, <2>14, SoleGo
<1> QED
  BY <1>3, <1>4, <1>5 DEF TakeRole

\* The member leaves the group: the entries it stood in have room for that.
LEMMA DropMemberSole ==
  ASSUME IInv, SoleOK, NEW r \in Requests, DropMember(r) PROVE SoleOK'
<1> PICK g \in Groups : g = GroupOf(r)
  BY CallFacts DEF DropMember, At
<1>1. /\ req[r].pc = "dropMember" /\ UNCHANGED <<alive, auth>> /\ asked' = asked
      /\ Op(r) \in {"RemoveMember", "EditGroup"}
      /\ Covers(r) /\ req[r].at \in DOMAIN req[r].list /\ req[r].list \in Seq(Member)
      /\ req[r].at \in Nat \ {0}
      /\ \A i \in WithGroup(g) : Leaves(auth[i], Leaver(r))
      /\ members \in [Groups -> Seq(Member)]
  <2>1. /\ req[r].pc = "dropMember" /\ UNCHANGED <<alive, auth>>
        /\ Op(r) \in {"RemoveMember", "EditGroup"}
    BY DEF DropMember, At
  <2>2. asked' = asked
    BY DEF DropMember, End, GotoNextLeaving, Goto, history
  <2>3. Covers(r) /\ req[r].at \in DOMAIN req[r].list
    BY <2>1 DEF SoleOK, LeaveSure, Taking
  <2>4. \A i \in WithGroup(g) : Leaves(auth[i], Leaver(r))
    BY <2>1 DEF SoleOK, LeaveSure
  <2>5. req[r].list \in Seq(Member) /\ members \in [Groups -> Seq(Member)]
    BY HandlerFacts, StoresFine
  <2>6. req[r].at \in Nat \ {0}
    BY <2>3, <2>5
  <2> QED
    BY <2>1, <2>2, <2>3, <2>4, <2>5, <2>6
<1> PICK k \in DOMAIN req[r].list :
       /\ req[r].list[k] = req[r].list[req[r].at]
       /\ Replace(g, Dropped(req[r].list, k))
       /\ \/ End(r)
          \/ /\ Op(r) = "EditGroup" /\ g \in alive
             /\ GotoNextLeaving(r, Dropped(req[r].list, k), req[r].at + 1)
  BY DEF DropMember, FirstAt
<1> DEFINE t == Dropped(req[r].list, k)
<1>2. /\ Replace(g, t)
      /\ End(r) \/ (Op(r) = "EditGroup" /\ g \in alive /\ GotoNextLeaving(r, t, req[r].at + 1))
  OBVIOUS
<1> PICK u \in Users : u = Leaver(r)
  BY <1>1, UsersOfList DEF Leaver, MembersOf
<1>3. /\ t \in Seq(Member)
      /\ \A v \in Users : /\ Times(members[g], v) \in Nat /\ Times(t, v) \in Nat
                          /\ Times(members[g], v) <= Times(t, v) + (IF v = u THEN 1 ELSE 0)
  <2>1. t \in Seq(Member)
    <3> PICK q \in Seq(Member) : q = req[r].list
      BY <1>1
    <3>1. k \in Nat
      BY <1>1
    <3> QED
      BY <3>1, DroppedMember
  <2>2. ASSUME NEW v \in Users
        PROVE  /\ Times(t, v) = Times(req[r].list, v) - (IF v = u THEN 1 ELSE 0)
               /\ Times(members[g], v) \in Nat /\ Times(t, v) \in Nat
               /\ Times(req[r].list, v) \in Nat
               /\ Times(members[g], v) <= Times(req[r].list, v)
    <3>1. Times(t, v) = Times(req[r].list, v) - (IF v = u THEN 1 ELSE 0)
      BY <1>1, TimesDropped DEF Leaver
    <3>2. Times(members[g], v) \in Nat /\ Times(t, v) \in Nat /\ Times(req[r].list, v) \in Nat
      BY <1>1, <2>1, TimesNat
    <3>3. Times(members[g], v) <= Times(req[r].list, v)
      BY <1>1 DEF Covers, Within
    <3> QED
      BY <3>1, <3>2, <3>3
  <2> HIDE DEF t
  <2> QED
    BY <2>1, <2>2
<1> PICK s \in Seq(Member) : s = t
  BY <1>3
<1> HIDE DEF t
<1>4. /\ OneGroup(g) /\ (g \in alive => members'[g] = s)
      /\ \A v \in Users : Times(members[g], v) <= Times(members'[g], v) + (IF v = u THEN 1 ELSE 0)
  <2>1. OneGroup(g) /\ (g \in alive => members'[g] = s) /\ (g \notin alive => members' = members)
    BY <1>2, ReplacedGroup
  <2> QED
    BY <1>3, <2>1
<1>5. ASSUME NEW e \in Entry, Bounded(e), g \in e.groups => Leaves(e, u) PROVE Bounded(e)'
  <2> SUFFICES ASSUME e.groups \subseteq alive, NEW v \in Users
               PROVE  e.users[v] <= Count(e.groups, v)' + HandGiven(v)'
    BY <1>1 DEF Bounded
  <2>1. e.groups \in SUBSET Groups /\ e.users[v] \in Nat
    BY EntryFacts
  <2>2. e.users[v] <= Count(e.groups, v) + HandGiven(v)
    BY <1>5 DEF Bounded
  <2>3. HandGiven(v)' = HandGiven(v)
    BY <1>1 DEF HandGiven, ByHand
  <2>4. Count(e.groups, v) \in Nat /\ HandGiven(v) \in {0, 1}
    BY <2>1, CountType
  <2>5. /\ Count(e.groups, v)' \in Nat /\ Times(members[g], v) \in Nat
        /\ Times(members'[g], v) \in Nat
        /\ Count(e.groups, v)' =
             IF g \in e.groups THEN Count(e.groups, v) - Times(members[g], v) + Times(members'[g], v)
             ELSE Count(e.groups, v)
    <3>1. Recounted(g)
      BY <1>4, CountsChanged
    <3> QED
      BY <2>1, <3>1 DEF Recounted, Count
  <2>6. Times(members[g], v) <= Times(members'[g], v) + (IF v = u THEN 1 ELSE 0)
    BY <1>4
  <2>7. CASE v # u \/ g \notin e.groups
    BY <2>1, <2>2, <2>3, <2>4, <2>5, <2>6, <2>7
  <2>8. CASE v = u /\ g \in e.groups
    <3>1. e.users[v] = 0 \/ e.users[v] + 1 <= Count(e.groups, v) + HandGiven(v)
      BY <1>5, <2>8 DEF Leaves, Spare
    <3> QED
      BY <2>1, <2>3, <2>4, <2>5, <2>6, <2>8, <3>1
  <2> QED
    BY <2>7, <2>8
<1>6. \A x \in {auth[i] : i \in DOMAIN auth} : Bounded(x)'
  BY <1>1, <1>5, StoresFine DEF SoleOK, WithGroup, Ids
<1>7. \A i \in DOMAIN auth : Bounded(auth[i])' <=> \A x \in {auth[i]} : Bounded(x)'
  BY <1>1 DEF Bounded
<1>8. (\A i \in Ids : Bounded(auth[i]))'
  BY <1>1, <1>6, <1>7 DEF Ids
<1>9. CASE End(r)
  BY <1>1, <1>8, <1>9, SoleEnd
<1>10. CASE Op(r) = "EditGroup" /\ g \in alive /\ GotoNextLeaving(r, t, req[r].at + 1)
  <2> PICK n \in Nat \ {0} : n = req[r].at + 1
    BY <1>1
  <2>1. GotoNextLeaving(r, s, n)
    BY <1>10 DEF GotoNextLeaving
  <2>2. Within(members'[GroupOf(r)], s)
    BY <1>4, <1>10, WithinSelf
  <2> QED
    BY <1>1, <1>8, <1>10, <2>1, <2>2, NextLeavingSole
<1> QED
  BY <1>2, <1>9, <1>10

\* A member of the new list takes the place of one of the same user, or comes on top.
LEMMA ListChanged ==
  ASSUME NEW s \in Seq(Member), NEW m \in Member, NEW j \in DOMAIN s, s[j].user = m.user
  PROVE  /\ Append(Dropped(s, j), m) \in Seq(Member)
         /\ \A u : Times(Append(Dropped(s, j), m), u) = Times(s, u)
<1>1. Dropped(s, j) \in Seq(Member)
  BY DroppedMember
<1>2. ASSUME NEW u PROVE Times(Append(Dropped(s, j), m), u) = Times(s, u)
  <2>1. Times(Append(Dropped(s, j), m), u) = Times(Dropped(s, j), u) + (IF m.user = u THEN 1 ELSE 0)
    BY <1>1, TimesAppended
  <2>2. Times(Dropped(s, j), u) = Times(s, u) - (IF m.user = u THEN 1 ELSE 0)
    BY TimesDropped
  <2> QED
    BY <2>1, <2>2, TimesNat
<1> QED
  BY <1>1, <1>2

LEMMA NewMembersSole ==
  ASSUME IInv, SoleOK, NEW r \in Requests, NewMembers(r) PROVE SoleOK'
<1> PICK g \in Groups : g = GroupOf(r)
  BY CallFacts DEF NewMembers, At
<1> DEFINE s == req[r].list
           list == req[r].call.list
<1>1. /\ req[r].pc = "newMembers" /\ Op(r) = "EditGroup" /\ req[r] \in Handler
      /\ UNCHANGED <<alive, auth>> /\ s \in Seq(Member) /\ list \in Seq(Member)
      /\ members \in [Groups -> Seq(Member)] /\ Within(members[g], s)
  BY HandlerFacts, CallFacts, StoresFine, ListsAssumption
  DEF NewMembers, At, SoleOK, LeaveSure, Covers
<1>2. ASSUME NEW t \in Seq(Member), Within(s, t), Replace(g, t), asked' = asked
      PROVE  /\ (\A i \in Ids : Bounded(auth[i]))'
             /\ g \in alive => members'[g] = t
  <2>1. \A u \in Users : /\ Times(members[g], u) \in Nat /\ Times(s, u) \in Nat
                          /\ Times(t, u) \in Nat
    BY <1>1, TimesNat
  <2>2. Within(members[g], t)
    BY <1>1, <1>2, <2>1 DEF Within
  <2> QED
    BY <1>1, <1>2, <2>2, ReplacedGroup, ReplacedGrows, AllBounded
<1>3. CASE Replace(g, s) /\ End(r)
  BY <1>1, <1>2, <1>3, WithinSelf, SoleEnd DEF End, history
<1>4. ASSUME NEW k \in DOMAIN list, AddMissing(r, k) PROVE SoleOK'
  <2> DEFINE t == Append(s, list[k])
  <2>1. list[k] \in Member /\ t \in Seq(Member) /\ Replace(g, t) /\ End(r) /\ asked' = asked
    BY <1>1, <1>4, AppendMember DEF AddMissing, End, history
  <2>2. Within(s, t)
    <3>1. ASSUME NEW u \in Users
          PROVE  /\ Times(s, u) \in Nat
                 /\ Times(t, u) = Times(s, u) + (IF list[k].user = u THEN 1 ELSE 0)
      BY <1>1, <2>1, TimesNat, TimesAppended
    <3> HIDE DEF t
    <3> QED
      BY <3>1 DEF Within
  <2> HIDE DEF t
  <2>3. (\A i \in Ids : Bounded(auth[i]))'
    BY <1>2, <2>1, <2>2
  <2> QED
    BY <1>1, <2>1, <2>3, SoleEnd
<1>5. ASSUME NEW k \in DOMAIN list, ChangeEditor(r, k) PROVE SoleOK'
  <2> PICK i \in Changing(r, k), j \in DOMAIN s :
         /\ s[j] = s[i]
         /\ Replace(g, Append(Dropped(s, j), list[k]))
         /\ \/ /\ g \in alive
               /\ req' = [req EXCEPT ![r] = [@ EXCEPT !.list = Append(Dropped(s, j), list[k]),
                                                      !.nth = k, !.at = i + 1]]
               /\ UNCHANGED history
            \/ End(r)
    BY <1>5 DEF ChangeEditor, FirstAt
  <2> DEFINE t == Append(Dropped(s, j), list[k])
             h == [req[r] EXCEPT !.list = t, !.nth = k, !.at = i + 1]
  <2>1. list[k] \in Member /\ s[j].user = list[k].user
    BY <1>1 DEF Changing
  <2>2. t \in Seq(Member) /\ \A u : Times(t, u) = Times(s, u)
    BY <1>1, <2>1, ListChanged
  <2>3. Within(s, t)
    BY <1>1, <2>2, TimesNat DEF Within
  <2>4. h.pc = "newMembers" /\ h.call = req[r].call /\ h.list = t
    BY <1>1 DEF Handler
  <2>5. /\ Replace(g, t)
        /\ (g \in alive /\ req' = [req EXCEPT ![r] = h] /\ UNCHANGED history) \/ End(r)
    OBVIOUS
  <2> HIDE DEF t, h
  <2>6. asked' = asked
    BY <2>5 DEF End, history
  <2>7. (\A x \in Ids : Bounded(auth[x]))' /\ (g \in alive => members'[g] = t)
    BY <1>2, <2>2, <2>3, <2>5, <2>6
  <2>8. CASE End(r)
    BY <1>1, <2>7, <2>8, SoleEnd
  <2>9. CASE g \in alive /\ req' = [req EXCEPT ![r] = h] /\ UNCHANGED history
    <3>1. req'[r] = h
      BY <2>9 DEF IInv, TypeOK
    <3>2. Within(members'[g], t)
      BY <2>2, <2>7, <2>9, WithinSelf
    <3>3. AddSure(r)' /\ LeaveSure(r)' /\ ShareSure(r)'
      BY <1>1, <2>4, <3>1, <3>2 DEF AddSure, LeaveSure, ShareSure, Taking, Covers, Op, GroupOf
    <3> QED
      BY <1>1, <2>7, <2>9, <3>3, SoleGo
  <2> QED
    BY <2>5, <2>8, <2>9
<1> QED
  BY <1>3, <1>4, <1>5 DEF NewMembers, ToAdd

LEMMA GroupGoneSole ==
  ASSUME IInv, SoleOK, NEW r \in Requests, GroupNotFound(r) \/ DeleteGroup(r) PROVE SoleOK'
<1>1. CASE GroupNotFound(r)
  BY <1>1, SoleEndRead DEF GroupNotFound
<1>2. CASE DeleteGroup(r)
  <2>1. (\A i \in Ids : Bounded(auth[i]))'
    BY <1>2, AllBounded DEF DeleteGroup, End, history, Grows
  <2> QED
    BY <1>2, <2>1, SoleEnd DEF DeleteGroup, At
<1> QED
  BY <1>1, <1>2

-----------------------------------------------------------------------------
\* Roles
LEMMA SetGroupRoleSole ==
  ASSUME IInv, SoleOK, NEW r \in Requests, SetGroupRole(r) PROVE SoleOK'
<1> DEFINE h == [req[r] EXCEPT !.pc = "again", !.list = members[GroupOf(r)]]
<1>1. /\ req[r].pc = "group" /\ Op(r) = "SetGroupRole" /\ UNCHANGED stores /\ asked' = asked
      /\ req' = [req EXCEPT ![r] = h] /\ req[r] \in Handler /\ req \in [Requests -> Handler]
  BY HandlerFacts DEF SetGroupRole, At, history, IInv, TypeOK
<1>2. h.pc = "again" /\ h.call = req[r].call /\ h.list = members[GroupOf(r)]
  BY <1>1 DEF Handler
<1> HIDE DEF h
<1>3. req'[r] = h /\ members' = members /\ Within(members[GroupOf(r)], members[GroupOf(r)])
  BY <1>1, CallFacts, StoresFine, WithinSelf DEF stores
<1>4. AddSure(r)' /\ LeaveSure(r)' /\ ShareSure(r)'
  BY <1>1, <1>2, <1>3 DEF AddSure, LeaveSure, ShareSure, Taking, Op, GroupOf
<1> QED
  BY <1>1, <1>4, SoleRead

LEMMA RemoveGroupRoleSole ==
  ASSUME IInv, SoleOK, NEW r \in Requests, RemoveGroupRole(r) PROVE SoleOK'
<1> DEFINE h == [req[r] EXCEPT !.pc = "findGroup", !.old = members[GroupOf(r)]]
<1>1. /\ req[r].pc = "again" /\ GroupOf(r) \in alive /\ UNCHANGED stores /\ asked' = asked
      /\ req' = [req EXCEPT ![r] = h] /\ req[r] \in Handler /\ req \in [Requests -> Handler]
      /\ Within(members[GroupOf(r)], members[GroupOf(r)])
  BY HandlerFacts, StoresFine, WithinSelf DEF RemoveGroupRole, At, history, IInv, TypeOK
<1>2. /\ h.pc = "findGroup" /\ h.call = req[r].call /\ h.list = req[r].list
      /\ h.old = members[GroupOf(r)]
  BY <1>1 DEF Handler
<1> HIDE DEF h
<1>3. req'[r] = h /\ UNCHANGED <<members, alive>>
  BY <1>1 DEF stores
<1>4. ShareSure(r)'
  BY <1>1, <1>2, <1>3 DEF SoleOK, ShareSure, Op, GroupOf
<1>5. AddSure(r)' /\ LeaveSure(r)'
  BY <1>2, <1>3 DEF AddSure, LeaveSure, Taking
<1> QED
  BY <1>1, <1>4, <1>5, SoleRead

\* A handler that found an entry holds one document, which it may write.
LEMMA OneCopySole ==
  ASSUME IInv, SoleOK, NEW r \in Requests, req[r].pc # "idle", UNCHANGED stores,
         NEW label \in {"saveRemoved", "saveRole", "saveAgain"}, NEW i, NEW e, Bounded(e),
         GotoWith(r, label, {[id |-> i, entry |-> e]})
  PROVE  SoleOK'
<1>1. /\ req' = [req EXCEPT ![r] = req'[r]] /\ asked' = asked /\ req'[r].pc = label
      /\ req'[r].call = req[r].call /\ req'[r].list = req[r].list
      /\ req'[r].copies = {[id |-> i, entry |-> e]}
  BY AfterGotoWith
<1>2. Bounded(e)' /\ members' = members
  BY <1>1, SameBounded DEF stores
<1>3. Op(r)' = Op(r) /\ GroupOf(r)' = GroupOf(r)
  BY <1>1 DEF Op, GroupOf
<1>4. (Op(r) = "SetGroupRole" => Within(req[r].list, members[GroupOf(r)]))'
  BY <1>1, <1>2, <1>3 DEF SoleOK, ShareSure
<1>5. (\A x \in req[r].copies : Bounded(x.entry))'
  BY <1>1, <1>2 DEF Bounded
<1>6. AddSure(r)' /\ LeaveSure(r)' /\ ShareSure(r)'
  BY <1>1, <1>4, <1>5 DEF AddSure, LeaveSure, ShareSure, Taking
<1> QED
  BY <1>1, <1>6, SoleRead

\* After it was written, or when nothing was found, a role may be added.
LEMMA LaterSole ==
  ASSUME IInv, SoleOK, NEW r \in Requests, req[r].pc # "idle", UNCHANGED <<alive, members>>,
         (\A i \in Ids : Bounded(auth[i]))',
         NEW label \in {"findRole", "readers", "lastReaders", "insertRole", "insertUser"},
         Goto(r, label) \/ GotoWith(r, label, {})
  PROVE  SoleOK'
<1>1. /\ req' = [req EXCEPT ![r] = req'[r]] /\ asked' = asked /\ req'[r].pc = label
      /\ req'[r].call = req[r].call /\ req'[r].list = req[r].list
  BY AfterGoto, AfterGotoWith
<1>2. AddSure(r)' /\ LeaveSure(r)' /\ ShareSure(r)'
  BY <1>1 DEF AddSure, LeaveSure, SoleOK, ShareSure, Taking, Op, GroupOf
<1> QED
  BY <1>1, <1>2, SoleGo

LEMMA AfterRemovalSole ==
  ASSUME IInv, SoleOK, NEW r \in Requests, req[r].pc # "idle", UNCHANGED <<alive, members>>,
         (\A i \in Ids : Bounded(auth[i]))', AfterRemoval(r)
  PROVE  SoleOK'
  BY LaterSole, SoleEnd DEF AfterRemoval

\* A group takes its members with it: no more of them than it accounts for.
LEMMA WithoutGroupBounded ==
  ASSUME IInv, NEW e \in Entry, Bounded(e), NEW g \in e.groups, g \in alive, NEW n \in Bag,
         \A u \in Users : Times(members[g], u) <= n[u],
         NEW d \in Entry, d.users = e.users, d.groups = e.groups \ {g}
  PROVE  Bounded(Minus(d, n))
<1> DEFINE f == Minus(d, n)
<1>1. e.groups \in SUBSET Groups /\ \A u \in Users : e.users[u] \in Nat
  BY EntryFacts
<1>2. ASSUME NEW u \in Users
      PROVE  /\ f.users[u] = IF n[u] <= e.users[u] THEN e.users[u] - n[u] ELSE 0
             /\ f.groups = e.groups \ {g} /\ n[u] \in Nat
  <2>1. /\ Minus(d, n).users[u] = IF n[u] <= d.users[u] THEN d.users[u] - n[u] ELSE 0
        /\ Minus(d, n).groups = d.groups /\ n[u] \in Nat
    BY MinusUsers
  <2> QED
    BY <2>1
<1> HIDE DEF f
<1>3. ASSUME f.groups \subseteq alive, NEW u \in Users
      PROVE  f.users[u] <= Count(f.groups, u) + HandGiven(u)
  <2>1. e.users[u] <= Count(e.groups, u) + HandGiven(u)
    BY <1>2, <1>3 DEF Bounded
  <2> PICK H \in SUBSET Groups : H = Without(e.groups, g)
    BY <1>1 DEF Without
  <2>2. /\ HandGiven(u) \in {0, 1} /\ Count(H, u) \in Nat
    BY CountType
  <2>3. Count(e.groups, u) = Count(H, u) + Times(members[g], u) /\ Times(members[g], u) \in Nat
    BY <1>1, CountRemoved
  <2>4. Times(members[g], u) <= n[u] /\ e.users[u] \in Nat
    BY <1>1
  <2>5. f.users[u] <= Count(H, u) + HandGiven(u)
    BY <1>2, <2>1, <2>2, <2>3, <2>4
  <2> QED
    BY <1>2, <2>5 DEF Without
<1> QED
  BY <1>3 DEF Bounded, f

LEMMA FindGroupEntrySole ==
  ASSUME IInv, SoleOK, NEW r \in Requests, FindGroupEntry(r) PROVE SoleOK'
<1> PICK g \in Groups : g = GroupOf(r)
  BY CallFacts DEF FindGroupEntry, At
<1>1. /\ req[r].pc = "findGroup" /\ g \in alive /\ UNCHANGED stores
      /\ \A u \in Users : Times(members[g], u) <= Listed(req[r].old)[u]
      /\ Listed(req[r].old) \in Bag
  BY HandlerFacts, BagTypes DEF FindGroupEntry, At, SoleOK, ShareSure, Within, Listed
<1>2. CASE AfterRemoval(r)
  <2>1. asked' = asked
    BY <1>2 DEF AfterRemoval, End, GotoWith, history
  <2>2. (\A i \in Ids : Bounded(auth[i]))'
    BY <1>1, <2>1, AllBounded DEF stores, Grows
  <2> QED
    BY <1>1, <1>2, <2>2, AfterRemovalSole DEF stores
<1>3. CASE \E i \in WithGroup(g) : GotoWith(r, "saveRemoved",
             {[id |-> i, entry |->
                 Minus([auth[i] EXCEPT !.groups = @ \ {g}], Listed(req[r].old))]})
  <2> PICK i \in WithGroup(g) : GotoWith(r, "saveRemoved",
             {[id |-> i, entry |->
                 Minus([auth[i] EXCEPT !.groups = @ \ {g}], Listed(req[r].old))]})
    BY <1>3
  <2> PICK e \in Entry : e = auth[i] /\ Bounded(e) /\ g \in e.groups
    BY StoresFine DEF SoleOK, WithGroup, Ids
  <2>1. PICK d \in Entry : /\ d = TakenOut(e, g)
                           /\ d.users = e.users /\ d.groups = e.groups \ {g}
    BY EntryWithout
  <2>2. PICK f : f = Minus(d, Listed(req[r].old)) /\ Bounded(f)
    BY <1>1, <2>1, WithoutGroupBounded
  <2>3. GotoWith(r, "saveRemoved", {[id |-> i, entry |-> f]})
    BY <2>1, <2>2 DEF TakenOut
  <2> QED
    BY <1>1, <2>2, <2>3, OneCopySole
<1> QED
  BY <1>2, <1>3 DEF FindGroupEntry

LEMMA RemoveUserRoleSole ==
  ASSUME IInv, SoleOK, NEW r \in Requests, RemoveUserRole(r) PROVE SoleOK'
<1>1. req[r].pc = "findUser" /\ UNCHANGED stores
  BY DEF RemoveUserRole, At
<1>2. CASE AfterRemoval(r)
  <2>1. asked' = asked
    BY <1>2 DEF AfterRemoval, End, GotoWith, history
  <2>2. (\A i \in Ids : Bounded(auth[i]))'
    BY <1>1, <2>1, AllBounded DEF stores, Grows
  <2> QED
    BY <1>1, <1>2, <2>2, AfterRemovalSole DEF stores
<1>3. CASE \E i \in WithUser(UserOf(r)) : GotoWith(r, "saveRemoved",
             {[id |-> i, entry |-> Minus(auth[i], Once(UserOf(r)))]})
  <2> PICK i \in WithUser(UserOf(r)) : GotoWith(r, "saveRemoved",
             {[id |-> i, entry |-> Minus(auth[i], Once(UserOf(r)))]})
    BY <1>3
  <2>1. auth[i] \in Entry /\ Bounded(auth[i])
    BY StoresFine DEF SoleOK, WithUser, Ids
  <2>2. PICK f : f = Minus(auth[i], Once(UserOf(r))) /\ Bounded(f)
    BY <2>1, MinusBounded, BagTypes
  <2>3. GotoWith(r, "saveRemoved", {[id |-> i, entry |-> f]})
    BY <2>2
  <2> QED
    BY <1>1, <2>2, <2>3, OneCopySole
<1> QED
  BY <1>2, <1>3 DEF RemoveUserRole

LEMMA SaveRemovedSole ==
  ASSUME IInv, SoleOK, NEW r \in Requests, SaveRemoved(r) PROVE SoleOK'
<1>1. /\ req[r].pc = "saveRemoved" /\ AfterRemoval(r) /\ UNCHANGED <<alive, members, asked>>
      /\ \A x \in req[r].copies : Bounded(x.entry)
  BY DEF SaveRemoved, SoleOK, ShareSure, AfterRemoval, End, GotoWith, history
<1> PICK x \in req[r].copies : auth' = [auth EXCEPT ![x.id] = x.entry]
  BY DEF SaveRemoved
<1>2. (\A i \in Ids : Bounded(auth[i]))'
  BY <1>1, WrittenBounded
<1> QED
  BY <1>1, <1>2, AfterRemovalSole

\* Members come with their group: no more of them than it accounts for.
LEMMA WithGroupBounded ==
  ASSUME IInv, NEW e \in Entry, Bounded(e), NEW g \in Groups \ e.groups, NEW n \in Bag,
         \A u \in Users : n[u] <= Times(members[g], u),
         NEW d \in Entry, d.users = e.users, d.groups = e.groups \cup {g}
  PROVE  Bounded(Plus(d, n))
<1> DEFINE f == Plus(d, n)
<1>1. e.groups \in SUBSET Groups /\ \A u \in Users : e.users[u] \in Nat
  BY EntryFacts
<1>2. ASSUME NEW u \in Users
      PROVE  /\ f.users[u] = e.users[u] + n[u] /\ n[u] \in Nat
             /\ f.groups = e.groups \cup {g}
  <2>1. Plus(d, n).users[u] = d.users[u] + n[u] /\ Plus(d, n).groups = d.groups /\ n[u] \in Nat
    BY PlusUsers
  <2> QED
    BY <2>1
<1> HIDE DEF f
<1>3. ASSUME f.groups \subseteq alive, NEW u \in Users
      PROVE  f.users[u] <= Count(f.groups, u) + HandGiven(u)
  <2>1. e.users[u] <= Count(e.groups, u) + HandGiven(u)
    BY <1>2, <1>3 DEF Bounded
  <2>2. Count(e.groups, u) \in Nat /\ HandGiven(u) \in {0, 1}
    BY <1>1, CountType
  <2>3. /\ Count(Among(e.groups, g), u) = Count(e.groups, u) + Times(members[g], u)
        /\ Times(members[g], u) \in Nat
    BY <1>1, CountAdded
  <2>4. n[u] <= Times(members[g], u) /\ e.users[u] \in Nat
    BY <1>1
  <2>5. f.users[u] <= Count(Among(e.groups, g), u) + HandGiven(u)
    BY <1>2, <2>1, <2>2, <2>3, <2>4
  <2> QED
    BY <1>2, <2>5 DEF Among
<1> QED
  BY <1>3 DEF Bounded, f

\* What a handler adds for its group is no more than the group accounts for.
LEMMA SharedWithin ==
  ASSUME IInv, SoleOK, NEW r \in Requests, NEW g \in Groups, g = GroupOf(r),
         Op(r) = "SetGroupRole", req[r].pc # "idle"
  PROVE  /\ Readers(r) \in Bag /\ Writers(r) \in Bag
         /\ \A u \in Users : Readers(r)[u] <= Times(members[g], u)
         /\ \A u \in Users : Writers(r)[u] <= Times(members[g], u)
<1>1. req[r].list \in Seq(Member) /\ Readers(r) \in Bag /\ Writers(r) \in Bag
  BY HandlerFacts, SharedBags
<1>2. \A u \in Users : /\ Times(members[g], u) \in Nat
                        /\ Times(req[r].list, u) <= Times(members[g], u)
  BY StoresFine, TimesNat DEF SoleOK, ShareSure, Within
<1>3. /\ \A u \in Users : Readers(r)[u] \in {0, Times(req[r].list, u)}
      /\ \A u \in Users : Writers(r)[u] \in {0, Times(req[r].list, u)}
  BY DEF Readers, Writers
<1>4. ASSUME NEW u \in Users
      PROVE  Readers(r)[u] <= Times(members[g], u) /\ Writers(r)[u] <= Times(members[g], u)
  BY <1>2, <1>3
<1> QED
  BY <1>1, <1>4

LEMMA ShareWithGroupSole ==
  ASSUME IInv, SoleOK, NEW r \in Requests, ShareWithGroup(r) PROVE SoleOK'
<1> PICK g \in Groups : g = GroupOf(r)
  BY CallFacts DEF ShareWithGroup, At
<1> DEFINE with(e) == Plus([e EXCEPT !.groups = @ \cup {g}], Writers(r))
<1>1. /\ req[r].pc = "findRole" /\ Op(r) = "SetGroupRole" /\ UNCHANGED stores
      /\ Writers(r) \in Bag /\ \A u \in Users : Writers(r)[u] <= Times(members[g], u)
  BY SharedWithin DEF ShareWithGroup, At
<1>2. CASE Goto(r, "readers")
  <2>1. (\A i \in Ids : Bounded(auth[i]))'
    BY <1>1, <1>2, AllBounded DEF stores, Goto, history, Grows
  <2> QED
    BY <1>1, <1>2, <2>1, LaterSole DEF stores
<1>3. CASE End(r)
  BY <1>1, <1>3, SoleEndRead
<1>4. CASE \E i \in DOMAIN auth : /\ g \notin auth[i].groups
                                  /\ GotoWith(r, "saveRole", {[id |-> i, entry |-> with(auth[i])]})
  <2> PICK i \in DOMAIN auth : /\ g \notin auth[i].groups
                               /\ GotoWith(r, "saveRole", {[id |-> i, entry |-> with(auth[i])]})
    BY <1>4
  <2> PICK e \in Entry : e = auth[i] /\ Bounded(e)
    BY StoresFine DEF SoleOK, Ids
  <2>1. PICK d \in Entry : /\ d = PutIn(e, g)
                           /\ d.users = e.users /\ d.groups = e.groups \cup {g}
    BY EntryWith
  <2>2. PICK f : f = Plus(d, Writers(r)) /\ Bounded(f)
    BY <1>1, <2>1, WithGroupBounded
  <2>3. GotoWith(r, "saveRole", {[id |-> i, entry |-> f]})
    BY <2>1, <2>2 DEF PutIn
  <2> QED
    BY <1>1, <2>2, <2>3, OneCopySole
<1> QED
  BY <1>2, <1>3, <1>4 DEF ShareWithGroup, WithRole, Ids

\* A new entry for members of one group
LEMMA GroupEntryBounded ==
  ASSUME IInv, NEW role, NEW g \in Groups, NEW n \in Bag,
         \A u \in Users : n[u] <= Times(members[g], u)
  PROVE  Bounded(EntryOf(role, n, {g}))
<1>1. EntryOf(role, n, {g}).groups = {g} /\ EntryOf(role, n, {g}).users = n
  BY DEF EntryOf
<1>2. ASSUME NEW u \in Users PROVE n[u] <= Count({g}, u) + HandGiven(u)
  <2> PICK N \in SUBSET Groups : N = {}
    OBVIOUS
  <2>1. g \notin N /\ {g} = Among(N, g)
    BY DEF Among
  <2>2. Count(N, u) \in Nat /\ HandGiven(u) \in {0, 1}
    BY CountType
  <2>3. /\ Count(Among(N, g), u) = Count(N, u) + Times(members[g], u)
        /\ Times(members[g], u) \in Nat
    BY <2>1, CountAdded
  <2>4. n[u] <= Times(members[g], u) /\ n[u] \in Nat
    BY DEF Bag
  <2>5. Count({g}, u) = Count(N, u) + Times(members[g], u)
    BY <2>1, <2>3
  <2> QED
    BY <2>2, <2>3, <2>4, <2>5
<1> QED
  BY <1>1, <1>2 DEF Bounded

LEMMA UserEntryBounded ==
  ASSUME IInv, NEW role, NEW u \in Users, HandGiven(u) = 1
  PROVE  Bounded(EntryOf(role, Once(u), {}))
<1>1. \A v \in Users : Count({}, v) \in Nat /\ HandGiven(v) \in {0, 1}
  BY CountType
<1> QED
  BY <1>1 DEF Bounded, EntryOf, Once

LEMMA InsertedSole ==
  ASSUME IInv, SoleOK, NEW r \in Requests, InsertReaders(r) \/ InsertRole(r) PROVE SoleOK'
<1> PICK g \in Groups : g = GroupOf(r)
  BY CallFacts DEF InsertReaders, InsertRole, At
<1>1. /\ req[r].pc \in {"readers", "lastReaders", "insertRole"} /\ Op(r) = "SetGroupRole"
      /\ UNCHANGED <<alive, members, asked>>
      /\ End(r) \/ Goto(r, "insertRole")
  BY DEF InsertReaders, InsertRole, At, End, Goto, history
<1>2. (\A i \in Ids : Bounded(auth[i]))'
  <2>1. /\ Readers(r) \in Bag /\ \A u \in Users : Readers(r)[u] <= Times(members[g], u)
        /\ Writers(r) \in Bag /\ \A u \in Users : Writers(r)[u] <= Times(members[g], u)
        /\ RoleOf(r) \in RoleType
    BY <1>1, CallFacts, SharedWithin
  <2>2. CASE auth' = auth
    BY <1>1, <2>2, AllBounded DEF Grows
  <2>3. ASSUME NEW role \in RoleType, NEW n \in Bag, \A u \in Users : n[u] <= Times(members[g], u),
               auth' = Append(auth, EntryOf(role, n, {g}))
        PROVE  (\A i \in Ids : Bounded(auth[i]))'
    <3>1. EntryOf(role, n, {g}) \in Entry
      BY DEF EntryOf, Entry
    <3> QED
      BY <1>1, <2>3, <3>1, GroupEntryBounded, InsertedBounded
  <2>4. CASE InsertReaders(r)
    <3>1. "viewer" \in RoleType
      BY DEF RoleType
    <3> QED
      BY <2>1, <2>2, <2>3, <2>4, <3>1 DEF InsertReaders
  <2>5. CASE InsertRole(r)
    BY <2>1, <2>2, <2>3, <2>5 DEF InsertRole
  <2> QED
    BY <2>4, <2>5
<1> QED
  BY <1>1, <1>2, SoleEnd, LaterSole

-----------------------------------------------------------------------------
LEMMA HandGivenHere ==
  ASSUME IInv, NEW r \in Requests, Op(r) = "SetUserRole", NEW u, u = UserOf(r)
  PROVE  HandGiven(u) = 1
<1>1. req[r].call \in asked
  BY CallFacts
<1> QED
  BY <1>1 DEF HandGiven, ByHand, Op, UserOf

\* A user who stands in an entry no more often than its groups have the user
LEMMA GivenByHandBounded ==
  ASSUME IInv, NEW e \in Entry, Bounded(e), NEW u \in Users, HandGiven(u) = 1,
         e.groups \subseteq alive => e.users[u] <= Count(e.groups, u)
  PROVE  Bounded(Plus(e, Once(u)))
<1> DEFINE f == Plus(e, Once(u))
<1>1. ASSUME NEW v \in Users
      PROVE  /\ f.users[v] = IF v = u THEN e.users[v] + 1 ELSE e.users[v]
             /\ f.groups = e.groups /\ e.users[v] \in Nat
  <2>1. /\ Plus(e, Once(u)).users[v] = IF v = u THEN e.users[v] + 1 ELSE e.users[v]
        /\ Plus(e, Once(u)).groups = e.groups /\ e.users[v] \in Nat
    BY OnceUsers
  <2> QED
    BY <2>1
<1> HIDE DEF f
<1>2. ASSUME e.groups \subseteq alive, NEW v \in Users
      PROVE  f.users[v] <= Count(e.groups, v) + HandGiven(v)
  <2>1. e.users[v] <= Count(e.groups, v) + HandGiven(v)
    BY <1>2 DEF Bounded
  <2>2. Count(e.groups, v) \in Nat
    <3>1. e.groups \in SUBSET Groups
      BY DEF Entry
    <3> QED
      BY <3>1, CountType
  <2> QED
    BY <1>1, <1>2, <2>1, <2>2
<1> QED
  BY <1>1, <1>2 DEF Bounded, f

LEMMA ShareWithUserSole ==
  ASSUME IInv, SoleOK, NEW r \in Requests, ShareWithUser(r) PROVE SoleOK'
<1> PICK u \in Users : u = UserOf(r)
  BY CallFacts DEF ShareWithUser, At
<1>1. /\ req[r].pc = "findRole" /\ Op(r) = "SetUserRole" /\ UNCHANGED stores
      /\ HandGiven(u) = 1
  BY HandGivenHere DEF ShareWithUser, At
<1>2. CASE Goto(r, "insertUser")
  <2>1. (\A i \in Ids : Bounded(auth[i]))'
    BY <1>1, <1>2, AllBounded DEF stores, Goto, history, Grows
  <2> QED
    BY <1>1, <1>2, <2>1, LaterSole DEF stores
<1>3. CASE End(r)
  BY <1>1, <1>3, SoleEndRead
<1>4. CASE \E i \in DOMAIN auth :
             /\ ~ auth[i].users[u] > 0
             /\ GotoWith(r, "saveRole", {[id |-> i, entry |-> Plus(auth[i], Once(u))]})
  <2> PICK i \in DOMAIN auth :
             /\ ~ auth[i].users[u] > 0
             /\ GotoWith(r, "saveRole", {[id |-> i, entry |-> Plus(auth[i], Once(u))]})
    BY <1>4
  <2> PICK e \in Entry : e = auth[i] /\ Bounded(e)
    BY StoresFine DEF SoleOK, Ids
  <2>1. e.users[u] = 0 /\ Count(e.groups, u) \in Nat
    BY CountType, EntryFacts
  <2>2. PICK f : f = Plus(e, Once(u)) /\ Bounded(f)
    BY <1>1, <2>1, GivenByHandBounded
  <2>3. GotoWith(r, "saveRole", {[id |-> i, entry |-> f]})
    BY <2>2
  <2> QED
    BY <1>1, <2>2, <2>3, OneCopySole
<1> QED
  BY <1>2, <1>3, <1>4 DEF ShareWithUser, WithRole, Ids

LEMMA SaveRoleSole ==
  ASSUME IInv, SoleOK, NEW r \in Requests, SaveRole(r) PROVE SoleOK'
<1>1. /\ req[r].pc \in {"saveRole", "saveAgain"} /\ UNCHANGED <<alive, members, asked>>
      /\ \A x \in req[r].copies : Bounded(x.entry)
      /\ End(r) \/ Goto(r, "lastReaders") \/ (Op(r) # "SetGroupRole" /\ Goto(r, "count"))
  BY DEF SaveRole, SoleOK, ShareSure, End, Goto, history
<1> PICK x \in req[r].copies : auth' = [auth EXCEPT ![x.id] = x.entry]
  BY DEF SaveRole
<1>2. (\A i \in Ids : Bounded(auth[i]))'
  BY <1>1, WrittenBounded
<1>3. CASE End(r) \/ Goto(r, "lastReaders")
  BY <1>1, <1>2, <1>3, SoleEnd, LaterSole
<1>4. CASE Op(r) # "SetGroupRole" /\ Goto(r, "count")
  <2>1. /\ req' = [req EXCEPT ![r] = req'[r]] /\ req'[r].pc = "count"
        /\ req'[r].call = req[r].call /\ req'[r].copies = req[r].copies
    BY <1>4, AfterGoto
  <2>2. \A y \in {z.entry : z \in req[r].copies} : Bounded(y)'
    BY <1>1, SameBounded
  <2>3. \A z \in req[r].copies : Bounded(z.entry)'
    BY <2>2 DEF Bounded
  <2>4. AddSure(r)' /\ LeaveSure(r)' /\ ShareSure(r)'
    BY <1>4, <2>1, <2>3 DEF AddSure, LeaveSure, ShareSure, Taking, Op
  <2> QED
    BY <1>1, <1>2, <2>1, <2>4, SoleGo
<1> QED
  BY <1>1, <1>3, <1>4

\* The user is added once more only if the groups alone account for the entry as it is.
LEMMA CountGroupsSole ==
  ASSUME IInv, SoleOK, NEW r \in Requests, CountGroups(r) PROVE SoleOK'
<1> PICK u \in Users : u = UserOf(r)
  BY CallFacts DEF CountGroups, At
<1>1. /\ req[r].pc = "count" /\ Op(r) = "SetUserRole" /\ UNCHANGED stores /\ HandGiven(u) = 1
      /\ \A x \in req[r].copies : Bounded(x.entry) /\ x \in Copy
  BY HandGivenHere, HandlerFacts DEF CountGroups, At, SoleOK, ShareSure
<1>2. CASE End(r)
  BY <1>1, <1>2, SoleEndRead
<1>3. ASSUME NEW x \in req[r].copies,
             x.entry.users[u] = Count(x.entry.groups \cap alive, u),
             GotoWith(r, "saveAgain", {[x EXCEPT !.entry = Plus(@, Once(u))]})
      PROVE  SoleOK'
  <2> PICK e \in Entry : e = x.entry /\ Bounded(e) /\ e.groups \in SUBSET Groups
    BY <1>1 DEF Copy, Entry
  <2>1. Count(e.groups \cap alive, u) <= Count(e.groups, u)
    BY CountPart
  <2>2. PICK f : f = Plus(e, Once(u)) /\ Bounded(f)
    BY <1>1, <1>3, <2>1, GivenByHandBounded
  <2>3. [x EXCEPT !.entry = Plus(@, Once(u))] = [id |-> x.id, entry |-> f]
    <3>1. [x EXCEPT !.entry = Plus(@, Once(u))] = [id |-> x.id, entry |-> Plus(x.entry, Once(u))]
      BY <1>1 DEF Copy
    <3> QED
      BY <2>2, <3>1
  <2>4. GotoWith(r, "saveAgain", {[id |-> x.id, entry |-> f]})
    BY <1>3, <2>3
  <2> QED
    BY <1>1, <2>2, <2>4, OneCopySole
<1> QED
  BY <1>2, <1>3 DEF CountGroups, Occurrences, Count, CountIn, Parts

LEMMA InsertUserSole ==
  ASSUME IInv, SoleOK, NEW r \in Requests, InsertUser(r) PROVE SoleOK'
<1> PICK u \in Users : u = UserOf(r)
  BY CallFacts DEF InsertUser, At
<1>1. /\ req[r].pc = "insertUser" /\ End(r) /\ UNCHANGED <<alive, members, asked>>
      /\ HandGiven(u) = 1 /\ RoleOf(r) \in RoleType
  BY HandGivenHere, CallFacts DEF InsertUser, At, End, history
<1>2. EntryOf(RoleOf(r), Once(u), {}) \in Entry /\ Bounded(EntryOf(RoleOf(r), Once(u), {}))
  BY <1>1, UserEntryBounded, BagTypes DEF EntryOf, Entry
<1> PICK e \in Entry : e = EntryOf(RoleOf(r), Once(u), {}) /\ Bounded(e)
  BY <1>2
<1>3. auth' = Append(auth, e)
  BY DEF InsertUser
<1>4. (\A i \in Ids : Bounded(auth[i]))'
  BY <1>1, <1>3, InsertedBounded
<1> QED
  BY <1>1, <1>4, SoleEnd

-----------------------------------------------------------------------------
\* A request that arrives while another is served ends the promise.
LEMMA ArriveSole ==
  ASSUME IInv, SoleOK, NEW r \in Requests, Arrive(r) PROVE RolesOK'
<1> PICK call \in Calls :
       /\ req[r].pc = "idle"
       /\ req' = [req EXCEPT ![r] = [Idle EXCEPT !.call = call, !.pc = FirstOf(call.op)]]
       /\ asked' = asked \cup {call}
       /\ overlapped' = (overlapped \/ \E q \in Requests \ {r} : req[q].pc # "idle")
       /\ UNCHANGED stores
  BY DEF Arrive
<1> DEFINE h == [Idle EXCEPT !.call = call, !.pc = FirstOf(call.op)]
<1>1. h.pc \in {"again", "findUser", "group"} /\ h.call = call /\ h.list = <<>>
  BY DEF FirstOf, Idle
<1>2. req' = [req EXCEPT ![r] = h]
  OBVIOUS
<1> HIDE DEF h
<1>3. CASE \E q \in Requests \ {r} : req[q].pc # "idle"
  BY <1>3 DEF RolesOK
<1>4. CASE \A q \in Requests \ {r} : req[q].pc = "idle"
  <2>1. (\A i \in Ids : Bounded(auth[i]))'
    BY AllBounded DEF stores, Grows
  <2>2. req'[r] = h
    BY <1>2 DEF IInv, TypeOK
  <2>3. AddSure(r)' /\ LeaveSure(r)'
    BY <1>1, <2>2 DEF AddSure, LeaveSure, Taking
  <2>4. ShareSure(r)'
    <3>1. CASE call.op = "SetGroupRole"
      <4>1. call.group \in Groups /\ members' = members
        BY <3>1, CallFields DEF stores
      <4>2. \A u : Times(<<>>, u) = 0
        BY FS_EmptySet DEF Times, Places
      <4>3. Within(<<>>, members[call.group])
        BY <4>1, <4>2, StoresFine, TimesNat DEF Within
      <4> QED
        BY <1>1, <2>2, <4>1, <4>3 DEF ShareSure, GroupOf
    <3>2. CASE call.op # "SetGroupRole"
      BY <1>1, <2>2, <3>2 DEF ShareSure, Op
    <3> QED
      BY <3>1, <3>2
  <2> QED
    BY <1>2, <1>4, <2>1, <2>3, <2>4, SoleMove DEF RolesOK
<1> QED
  BY <1>3, <1>4

LEMMA CrashSole ==
  ASSUME IInv, SoleOK, NEW r \in Requests, Crash(r) PROVE SoleOK'
<1>1. (\A i \in Ids : Bounded(auth[i]))'
  BY AllBounded DEF Crash, stores, Grows
<1> QED
  BY <1>1, SoleIdle DEF Crash

LEMMA InitRoles == Init => RolesOK
<1> SUFFICES ASSUME Init PROVE SoleOK
  BY DEF RolesOK
<1>1. \A r \in Requests : req[r] = Idle
  BY DEF Init
<1>2. Alone /\ \A r \in Requests : AddSure(r) /\ LeaveSure(r) /\ ShareSure(r)
  BY <1>1 DEF Alone, AddSure, LeaveSure, ShareSure, Taking, Idle
<1>3. Ids = {1} /\ auth[1] = EntryOf("owner", Nobody, {})
  BY DEF Init, Ids
<1>4. Bounded(EntryOf("owner", Nobody, {}))
  <2>1. \A u \in Users : Count({}, u) \in Nat /\ HandGiven(u) \in {0, 1}
    BY InitIInv, CountType
  <2> QED
    BY <2>1 DEF Bounded, EntryOf, Nobody
<1> QED
  BY <1>2, <1>3, <1>4 DEF SoleOK

LEMMA UnchangedRoles == RolesOK /\ UNCHANGED vars => RolesOK'
<1> SUFFICES ASSUME SoleOK, UNCHANGED vars PROVE SoleOK'
  BY DEF RolesOK, vars
<1>1. \A e : Bounded(e)' <=> Bounded(e)
  BY SameBounded DEF vars
<1>2. (\A i \in Ids : Bounded(auth[i]))'
  BY DEF vars, SoleOK, Ids, Bounded, Count, CountIn, Parts, Places, HandGiven, ByHand
<1>3. Alone'
  BY DEF vars, SoleOK, Alone
<1>4. ASSUME NEW r \in Requests PROVE AddSure(r)' /\ LeaveSure(r)' /\ ShareSure(r)'
  <2>1. AddSure(r) /\ LeaveSure(r) /\ ShareSure(r)
    BY DEF SoleOK
  <2>2. AddSure(r)'
    BY <2>1 DEF vars, AddSure, Covers, Op, UserOf, GroupOf, WithGroup, Ids, Spare, Count,
       CountIn, Parts, Places, HandGiven, ByHand
  <2>3. LeaveSure(r)'
    <3>1. UNCHANGED <<members, auth, req>>
      BY DEF vars
    <3>2. Covers(r)' <=> Covers(r)
      BY <3>1 DEF Covers, Within, GroupOf, Places
    <3>3. \A e, u : Leaves(e, u)' <=> Leaves(e, u)
      BY DEF vars, Leaves, Spare, Count, CountIn, Parts, Places, HandGiven, ByHand
    <3>4. UNCHANGED <<Leaver(r), GroupOf(r), WithGroup(GroupOf(r))>>
      BY <3>1 DEF Leaver, GroupOf, WithGroup, Ids
    <3> QED
      BY <2>1, <3>1, <3>2, <3>3, <3>4 DEF LeaveSure, Taking
  <2>4. ShareSure(r)'
    <3>1. UNCHANGED <<members, alive, req>>
      BY DEF vars
    <3>2. \A s, t : Within(s, t)' <=> Within(s, t)
      BY DEF Within, Places
    <3>3. UNCHANGED <<Op(r), GroupOf(r)>>
      BY <3>1 DEF Op, GroupOf
    <3> QED
      BY <1>1, <2>1, <3>1, <3>2, <3>3 DEF ShareSure
  <2> QED
    BY <2>2, <2>3, <2>4
<1> QED
  BY <1>2, <1>3, <1>4 DEF SoleOK

\* Once two handlers ran at the same time, nothing more is claimed.
LEMMA OverlapStays ==
  ASSUME overlapped, NEW r \in Requests,
    \/ Arrive(r) \/ GroupNotFound(r) \/ AddMember(r) \/ UpdateMember(r) \/ SaveMember(r)
    \/ Push(r) \/ RemoveMember(r) \/ EditGroup(r) \/ ReadEntries(r) \/ TakeRole(r)
    \/ DropMember(r) \/ NewMembers(r) \/ DeleteGroup(r) \/ SetGroupRole(r)
    \/ RemoveGroupRole(r) \/ FindGroupEntry(r) \/ RemoveUserRole(r) \/ SaveRemoved(r)
    \/ ShareWithGroup(r) \/ InsertReaders(r) \/ InsertRole(r) \/ ShareWithUser(r)
    \/ SaveRole(r) \/ CountGroups(r) \/ InsertUser(r) \/ Crash(r)
  PROVE  overlapped'
<1> USE DEF history, End, Goto, GotoWith
<1>1. CASE Arrive(r) \/ GroupNotFound(r) \/ DeleteGroup(r) \/ Crash(r)
  BY <1>1 DEF Arrive, GroupNotFound, DeleteGroup, Crash
<1>2. CASE AddMember(r) \/ UpdateMember(r) \/ SaveMember(r) \/ Push(r)
  BY <1>2 DEF AddMember, UpdateMember, SaveMember, Push
<1>3. CASE \/ RemoveMember(r) \/ EditGroup(r) \/ ReadEntries(r) \/ TakeRole(r)
           \/ DropMember(r) \/ NewMembers(r)
  BY <1>3 DEF RemoveMember, EditGroup, ReadEntries, TakeRole, DropMember, NewMembers,
     GotoNextLeaving, AddMissing, ChangeEditor
<1>4. CASE \/ SetGroupRole(r) \/ RemoveGroupRole(r) \/ FindGroupEntry(r)
           \/ RemoveUserRole(r) \/ SaveRemoved(r)
  BY <1>4 DEF SetGroupRole, RemoveGroupRole, FindGroupEntry, RemoveUserRole, SaveRemoved,
     AfterRemoval
<1>5. CASE \/ ShareWithGroup(r) \/ InsertReaders(r) \/ InsertRole(r) \/ ShareWithUser(r)
           \/ SaveRole(r) \/ CountGroups(r) \/ InsertUser(r)
  BY <1>5 DEF ShareWithGroup, InsertReaders, InsertRole, ShareWithUser, SaveRole,
     CountGroups, InsertUser
<1> QED
  BY <1>1, <1>2, <1>3, <1>4, <1>5

LEMMA NextRoles == IInv /\ RolesOK /\ [Next]_vars => RolesOK'
<1> SUFFICES ASSUME IInv, RolesOK, Next PROVE RolesOK'
  BY UnchangedRoles
<1> PICK r \in Requests :
    \/ Arrive(r) \/ GroupNotFound(r) \/ AddMember(r) \/ UpdateMember(r) \/ SaveMember(r)
    \/ Push(r) \/ RemoveMember(r) \/ EditGroup(r) \/ ReadEntries(r) \/ TakeRole(r)
    \/ DropMember(r) \/ NewMembers(r) \/ DeleteGroup(r) \/ SetGroupRole(r)
    \/ RemoveGroupRole(r) \/ FindGroupEntry(r) \/ RemoveUserRole(r) \/ SaveRemoved(r)
    \/ ShareWithGroup(r) \/ InsertReaders(r) \/ InsertRole(r) \/ ShareWithUser(r)
    \/ SaveRole(r) \/ CountGroups(r) \/ InsertUser(r) \/ Crash(r)
  BY DEF Next
<1>1. CASE overlapped
  BY <1>1, OverlapStays DEF RolesOK
<1>2. CASE SoleOK
  <2>1. CASE Arrive(r)
    BY <1>2, <2>1, ArriveSole
  <2>2. CASE GroupNotFound(r) \/ DeleteGroup(r) \/ Crash(r)
    BY <1>2, <2>2, GroupGoneSole, CrashSole DEF RolesOK
  <2>3. CASE AddMember(r) \/ UpdateMember(r) \/ SaveMember(r) \/ Push(r)
    BY <1>2, <2>3, AddMemberSole, UpdateMemberSole, SaveMemberSole, PushSole DEF RolesOK
  <2>4. CASE \/ RemoveMember(r) \/ EditGroup(r) \/ ReadEntries(r) \/ TakeRole(r)
             \/ DropMember(r) \/ NewMembers(r)
    BY <1>2, <2>4, RemoveMemberSole, EditGroupSole, ReadEntriesSole, TakeRoleSole,
       DropMemberSole, NewMembersSole DEF RolesOK
  <2>5. CASE \/ SetGroupRole(r) \/ RemoveGroupRole(r) \/ FindGroupEntry(r)
             \/ RemoveUserRole(r) \/ SaveRemoved(r)
    BY <1>2, <2>5, SetGroupRoleSole, RemoveGroupRoleSole, FindGroupEntrySole,
       RemoveUserRoleSole, SaveRemovedSole DEF RolesOK
  <2>6. CASE \/ ShareWithGroup(r) \/ InsertReaders(r) \/ InsertRole(r) \/ ShareWithUser(r)
             \/ SaveRole(r) \/ CountGroups(r) \/ InsertUser(r)
    BY <1>2, <2>6, ShareWithGroupSole, InsertedSole, ShareWithUserSole, SaveRoleSole,
       CountGroupsSole, InsertUserSole DEF RolesOK
  <2> QED
    BY <2>1, <2>2, <2>3, <2>4, <2>5, <2>6
<1> QED
  BY <1>1, <1>2 DEF RolesOK

LEMMA RolesInvariant == Spec => []RolesOK
  BY Invariant, InitRoles, NextRoles, PTL DEF Spec

\* As long as handlers run one after the other, whichever of them die or fail half way,
\* nobody stands in an entry more often than the groups of the entry have the user as a
\* member, plus once for a role given by hand: what the order of the store operations in
\* routers/groups.py and routers/authorization.py promises, for any number of users, groups
\* and requests.  Only an entry with a group that was deleted is left out.
THEOREM RolesStayWithinGroups == Spec => []NoRoleBeyondGroups
<1>1. ASSUME IInv, SoleOK, NEW i \in Ids, NEW u \in Users, auth[i].groups \subseteq alive
      PROVE  auth[i].users[u] <=
               Memberships(i, u, Groups) + (IF ByHand(u, {"SetUserRole"}) THEN 1 ELSE 0)
  <2>1. auth[i].groups \cap Groups = auth[i].groups
    BY <1>1, StoresFine
  <2>2. Memberships(i, u, Groups) = Count(auth[i].groups, u)
    BY <2>1 DEF Memberships, Occurrences, Count, CountIn, Parts
  <2>3. auth[i].users[u] <= Count(auth[i].groups, u) + HandGiven(u)
    BY <1>1 DEF SoleOK, Bounded
  <2> QED
    BY <2>2, <2>3 DEF HandGiven
<1>2. IInv /\ RolesOK => NoRoleBeyondGroups
  BY <1>1 DEF RolesOK, NoRoleBeyondGroups
<1> QED
  BY <1>2, Invariant, RolesInvariant, PTL

=============================================================================
