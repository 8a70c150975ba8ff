------------------------- MODULE GroupAccess_proofs -------------------------
(* Proofs about GroupAccess, for any users, groups and number of requests. *)
EXTENDS GroupAccess, FiniteSetTheorems, TLAPS

USE UsersAssumption, GroupsAssumption, ListsAssumption, RolesAssumption, ServedAssumption

-----------------------------------------------------------------------------
\* Who may stand in an entry, which groups, and which members a list may have: all of
\* these only grow with what was asked for.
EntryInv(e) ==
    /\ \A u \in Users : e.users[u] > 0 => Accounted(u, e.role)
    /\ \A g \in e.groups : Shared(g, e.role)
ListInv(s, g) == \A u \in MembersOf(s) : Joined(u, g)

\* A handler serves a call that was made, holds only members that joined its group, and
\* only entries it may write; the one a user is added to has the role that was asked for.
Adding == {"saveRole", "count"}
FoundRole(h, label) == h.call.op = "SetUserRole" /\ label \in Adding =>
    \A x \in h.copies : x.entry.role = h.call.role
HandlerInv(h) ==
    /\ h.call \in asked \cup {NoCall}
    /\ ListInv(h.list, h.call.group)
    /\ \A x \in h.copies : EntryInv(x.entry)
    /\ FoundRole(h, h.pc)

IInv ==
    /\ TypeOK
    /\ \A g \in Groups : ListInv(members[g], g)
    /\ \A i \in Ids : EntryInv(auth[i])
    /\ \A r \in Requests : HandlerInv(req[r])

USE DEF Adding

-----------------------------------------------------------------------------
\* Lists of members
LEMMA AppendMember ==
  ASSUME NEW s \in Seq(Member), NEW m \in Member
  PROVE  /\ Append(s, m) \in Seq(Member)
         /\ MembersOf(Append(s, m)) = MembersOf(s) \cup {m.user}
<1> DEFINE t == Append(s, m)
<1>1. /\ t \in Seq(Member) /\ Len(t) = Len(s) + 1 /\ Len(s) \in Nat
      /\ DOMAIN s = 1..Len(s) /\ DOMAIN t = 1..(Len(s) + 1)
  OBVIOUS
<1>2. t[Len(s) + 1] = m /\ \A i \in 1..Len(s) : t[i] = s[i]
  OBVIOUS
<1>3. ASSUME NEW i \in DOMAIN t PROVE t[i].user \in MembersOf(s) \cup {m.user}
  <2>1. i \in DOMAIN s \/ i = Len(s) + 1
    BY <1>1
  <2> QED
    BY <2>1, <1>1, <1>2 DEF MembersOf
<1>4. ASSUME NEW i \in DOMAIN s PROVE s[i].user \in MembersOf(t)
  <2>1. i \in DOMAIN t /\ t[i] = s[i]
    BY <1>1, <1>2
  <2> QED
    BY <2>1 DEF MembersOf
<1>5. m.user \in MembersOf(t)
  <2>1. Len(s) + 1 \in DOMAIN t
    BY <1>1
  <2> QED
    BY <2>1, <1>2 DEF MembersOf
<1>6. MembersOf(t) \subseteq MembersOf(s) \cup {m.user}
  BY <1>3 DEF MembersOf
<1>7. MembersOf(s) \subseteq MembersOf(t)
  BY <1>4 DEF MembersOf
<1> QED
  BY <1>1, <1>5, <1>6, <1>7

LEMMA UsersOfList ==
  ASSUME NEW s \in Seq(Member)
  PROVE  MembersOf(s) \subseteq Users
<1>1. \A i \in DOMAIN s : s[i] \in Member
  OBVIOUS
<1>2. \A i \in DOMAIN s : s[i].user \in Users
  BY <1>1 DEF Member
<1> QED
  BY <1>2 DEF MembersOf

LEMMA SeqOfFunction ==
  ASSUME NEW S, NEW n \in Nat, NEW f \in [1..n -> S]
  PROVE  f \in Seq(S)
  OBVIOUS

LEMMA DroppedMember ==
  ASSUME NEW s \in Seq(Member), NEW i \in Nat
  PROVE  /\ Dropped(s, i) \in Seq(Member)
         /\ MembersOf(Dropped(s, i)) \subseteq MembersOf(s)
<1>1. \A j \in 1..(Len(s) - 1) : j \in DOMAIN s /\ j + 1 \in DOMAIN s
  OBVIOUS
<1>2. \A j \in 1..(Len(s) - 1) : Dropped(s, i)[j] \in {s[j], s[j + 1]}
  BY DEF Dropped
<1>3. Dropped(s, i) \in [1..(Len(s) - 1) -> Member]
  BY <1>1 DEF Dropped
<1>4. Dropped(s, i) \in Seq(Member)
  <2>1. CASE Len(s) = 0
    <3>1. 1..(Len(s) - 1) = 1..0
      BY <2>1
    <3> QED
      BY <3>1, <1>3, SeqOfFunction
  <2>2. CASE Len(s) # 0
    <3>1. Len(s) - 1 \in Nat
      BY <2>2
    <3> QED
      BY <3>1, <1>3, SeqOfFunction
  <2> QED
    BY <2>1, <2>2
<1>5. DOMAIN Dropped(s, i) = 1..(Len(s) - 1)
  BY DEF Dropped
<1> QED
  BY <1>1, <1>2, <1>4, <1>5 DEF MembersOf

LEMMA ChangedMember ==
  ASSUME NEW s \in Seq(Member), NEW i \in DOMAIN s, NEW b \in BOOLEAN
  PROVE  /\ [s EXCEPT ![i].editor = b] \in Seq(Member)
         /\ MembersOf([s EXCEPT ![i].editor = b]) = MembersOf(s)
<1> DEFINE t == [s EXCEPT ![i].editor = b]
<1>1. DOMAIN t = DOMAIN s /\ Len(s) \in Nat /\ DOMAIN s = 1..Len(s)
  OBVIOUS
<1>2. ASSUME NEW j \in DOMAIN s
      PROVE  s[j] \in Member /\ t[j] \in Member /\ t[j].user = s[j].user
  <2>1. s[j] \in Member
    BY <1>1
  <2>2. t[j] = IF j = i THEN [s[j] EXCEPT !.editor = b] ELSE s[j]
    OBVIOUS
  <2> QED
    BY <2>1, <2>2 DEF Member
<1>3. t \in [1..Len(s) -> Member]
  BY <1>1, <1>2
<1>4. t \in Seq(Member)
  BY <1>1, <1>3, SeqOfFunction
<1>5. MembersOf(t) = MembersOf(s)
  BY <1>1, <1>2 DEF MembersOf
<1> QED
  BY <1>4, <1>5

LEMMA MadeMembers ==
  ASSUME NEW g \in Groups
  PROVE  Made(g) \in Seq(Member)
<1> DEFINE m == [user |-> Creator[g], editor |-> TRUE]
<1>1. m \in Member /\ Invited[g] \in Seq(Member)
  BY DEF Member
<1>2. Made(g) \in {Invited[g], Append(Invited[g], m)}
  BY DEF Made
<1> HIDE DEF m
<1> QED
  BY <1>1, <1>2

\* How often a list names a user
LEMMA TimesNat ==
  ASSUME NEW s \in Seq(Member), NEW u
  PROVE  IsFiniteSet(Places(s, u)) /\ Times(s, u) \in Nat
<1>1. Len(s) \in Nat /\ DOMAIN s = 1..Len(s)
  OBVIOUS
<1>2. Places(s, u) \in SUBSET (1..Len(s))
  BY <1>1 DEF Places
<1>3. IsFiniteSet(1..Len(s))
  BY <1>1, FS_Interval
<1>4. IsFiniteSet(Places(s, u))
  BY <1>2, <1>3, FS_Subset
<1> QED
  BY <1>4, FS_CardinalityType DEF Times

LEMMA TimesMember ==
  ASSUME NEW s \in Seq(Member), NEW u
  PROVE  Times(s, u) > 0 <=> u \in MembersOf(s)
<1>1. Times(s, u) = 0 <=> Places(s, u) = {}
  BY TimesNat, FS_EmptySet DEF Times
<1>2. Places(s, u) = {} <=> u \notin MembersOf(s)
  BY DEF Places, MembersOf
<1> QED
  BY <1>1, <1>2, TimesNat

LEMMA TimesAppended ==
  ASSUME NEW s \in Seq(Member), NEW m \in Member, NEW u
  PROVE  Times(Append(s, m), u) = Times(s, u) + (IF m.user = u THEN 1 ELSE 0)
<1> DEFINE t == Append(s, m)
           n == Len(s) + 1
<1>1. Len(s) \in Nat /\ DOMAIN s = 1..Len(s) /\ DOMAIN t = 1..n
  OBVIOUS
<1>2. t[n] = m /\ \A i \in 1..Len(s) : t[i] = s[i]
  OBVIOUS
<1>3. n \notin Places(s, u) /\ 1..n = (1..Len(s)) \cup {n}
  BY <1>1 DEF Places
<1>4. Places(t, u) = IF m.user = u THEN Places(s, u) \cup {n} ELSE Places(s, u)
  <2> HIDE DEF t, n
  <2> QED
    BY <1>1, <1>2, <1>3 DEF Places
<1> HIDE DEF t, n
<1>5. CASE m.user = u
  BY <1>3, <1>4, <1>5, TimesNat, FS_AddElement DEF Times, t
<1>6. CASE m.user # u
  BY <1>4, <1>6, TimesNat DEF Times, t
<1> QED
  BY <1>5, <1>6

LEMMA TimesDropped ==
  ASSUME NEW s \in Seq(Member), NEW i \in DOMAIN s, NEW u
  PROVE  Times(Dropped(s, i), u) = Times(s, u) - (IF s[i].user = u THEN 1 ELSE 0)
<1> DEFINE t == Dropped(s, i)
           S == Places(t, u)
           T == Places(s, u) \ {i}
           f == [j \in S |-> IF j < i THEN j ELSE j + 1]
<1>1. Len(s) \in Nat /\ DOMAIN s = 1..Len(s) /\ DOMAIN t = 1..(Len(s) - 1) /\ i \in 1..Len(s)
  BY DEF Dropped
<1>2. \A j \in 1..(Len(s) - 1) : t[j] = IF j < i THEN s[j] ELSE s[j + 1]
  BY DEF Dropped
<1>3. S \subseteq 1..(Len(s) - 1) /\ \A j \in 1..(Len(s) - 1) : j \in S <=> t[j].user = u
  BY <1>1 DEF Places
<1>4. T \subseteq 1..Len(s) /\ \A k \in 1..Len(s) : k \in T <=> s[k].user = u /\ k # i
  BY <1>1 DEF Places
<1> HIDE DEF t, S, T
<1>5. ASSUME NEW j \in S PROVE f[j] \in T
  <2>1. CASE j < i
    BY <1>1, <1>2, <1>3, <1>4, <2>1
  <2>2. CASE ~ (j < i)
    BY <1>1, <1>2, <1>3, <1>4, <2>2
  <2> QED
    BY <2>1, <2>2
<1>6. \A j, k \in S : f[j] = f[k] => j = k
  BY <1>1, <1>3
<1>7. ASSUME NEW k \in T PROVE \E j \in S : f[j] = k
  <2>1. CASE k < i
    <3>1. k \in 1..(Len(s) - 1) /\ t[k] = s[k]
      BY <1>1, <1>2, <1>4, <2>1
    <3> QED
      BY <1>1, <1>3, <1>4, <2>1, <3>1
  <2>2. CASE ~ (k < i)
    <3>1. k - 1 \in 1..(Len(s) - 1) /\ ~ (k - 1 < i) /\ (k - 1) + 1 = k
      BY <1>1, <1>4, <2>2
    <3>2. t[k - 1] = s[k]
      BY <1>2, <3>1
    <3>3. k - 1 \in S
      BY <1>3, <1>4, <3>1, <3>2
    <3> QED
      BY <3>1, <3>3
  <2> QED
    BY <2>1, <2>2
<1>8. f \in Bijection(S, T)
  BY <1>5, <1>6, <1>7 DEF Bijection, Injection, Surjection, IsInjective
<1>9. t \in Seq(Member) /\ IsFiniteSet(S)
  BY <1>1, DroppedMember, TimesNat DEF S, t
<1>10. Cardinality(T) = Cardinality(S)
  BY <1>8, <1>9, FS_Bijection DEF ExistsBijection
<1>11. i \in Places(s, u) <=> s[i].user = u
  BY DEF Places
<1>12. Cardinality(T) = IF s[i].user = u THEN Times(s, u) - 1 ELSE Times(s, u)
  BY <1>11, TimesNat, FS_RemoveElement DEF T, Times
<1> QED
  BY <1>10, <1>12, TimesNat DEF Times, S, t

Reset(s, i, b) == [s EXCEPT ![i].editor = b]

LEMMA TimesChanged ==
  ASSUME NEW s \in Seq(Member), NEW i \in DOMAIN s, NEW b \in BOOLEAN, NEW u
  PROVE  Times(Reset(s, i, b), u) = Times(s, u)
<1> DEFINE t == [s EXCEPT ![i].editor = b]
<1>1. DOMAIN t = DOMAIN s
  OBVIOUS
<1>2. ASSUME NEW j \in DOMAIN s PROVE t[j].user = s[j].user
  <2>1. s[j] \in Member
    OBVIOUS
  <2>2. t[j] = IF j = i THEN [s[j] EXCEPT !.editor = b] ELSE s[j]
    OBVIOUS
  <2> QED
    BY <2>1, <2>2 DEF Member
<1> HIDE DEF t
<1>3. Places(t, u) = Places(s, u)
  BY <1>1, <1>2 DEF Places
<1> QED
  BY <1>3 DEF Times, t, Reset

\* The bags that entries are changed by
LEMMA BagTypes ==
  /\ Nobody \in Bag /\ \A v : Once(v) \in Bag
  /\ \A s \in Seq(Member) : Listed(s) \in Bag
  BY TimesNat DEF Nobody, Once, Listed, Bag

LEMMA SharedBags ==
  ASSUME NEW r, req[r].list \in Seq(Member)
  PROVE  /\ Readers(r) \in Bag /\ Writers(r) \in Bag
         /\ \A u \in Users : Readers(r)[u] > 0 => u \in MembersOf(req[r].list)
         /\ \A u \in Users : Writers(r)[u] > 0 => u \in MembersOf(req[r].list)
<1>1. \A u \in Users : Times(req[r].list, u) \in Nat
  BY TimesNat
<1>2. \A u \in Users : Times(req[r].list, u) > 0 => u \in MembersOf(req[r].list)
  BY TimesMember
<1>3. /\ \A u \in Users : Readers(r)[u] = IF u \in ReadOnly THEN Times(req[r].list, u) ELSE 0
      /\ \A u \in Users : Writers(r)[u] = IF u \in ReadOnly THEN 0 ELSE Times(req[r].list, u)
  BY DEF Readers, Writers
<1>4. Readers(r) \in Bag /\ Writers(r) \in Bag
  BY <1>1 DEF Readers, Writers, Bag
<1> QED
  BY <1>2, <1>3, <1>4

\* Entries
LEMMA EntryFields ==
  ASSUME NEW e \in Entry, NEW f \in [Users -> Nat]
  PROVE  /\ [e EXCEPT !.users = f] \in Entry
         /\ [e EXCEPT !.users = f].users = f
         /\ [e EXCEPT !.users = f].role = e.role
         /\ [e EXCEPT !.users = f].groups = e.groups
  BY DEF Entry, Bag

LEMMA PlusEntry ==
  ASSUME NEW e \in Entry, EntryInv(e), NEW n \in Bag,
         \A u \in Users : n[u] > 0 => Accounted(u, e.role)
  PROVE  Plus(e, n) \in Entry /\ EntryInv(Plus(e, n)) /\ Plus(e, n).role = e.role
<1> DEFINE f == [u \in Users |-> e.users[u] + n[u]]
<1>1. e.users \in [Users -> Nat] /\ n \in [Users -> Nat]
  BY DEF Entry, Bag
<1>2. f \in [Users -> Nat]
  BY <1>1
<1>3. Plus(e, n) = [e EXCEPT !.users = f]
  BY DEF Plus, Entry
<1>4. \A u \in Users : f[u] > 0 => n[u] > 0 \/ e.users[u] > 0
  BY <1>1
<1> HIDE DEF f
<1> QED
  BY <1>2, <1>3, <1>4, EntryFields DEF EntryInv

LEMMA PlusOne ==
  ASSUME NEW e \in Entry, EntryInv(e), NEW u \in Users, Accounted(u, e.role)
  PROVE  /\ Plus(e, Once(u)) \in Entry /\ EntryInv(Plus(e, Once(u)))
         /\ Plus(e, Once(u)).role = e.role
<1>1. \A v \in Users : Once(u)[v] > 0 => v = u
  BY DEF Once
<1> QED
  BY <1>1, PlusEntry, BagTypes

LEMMA MinusEntry ==
  ASSUME NEW e \in Entry, EntryInv(e), NEW n \in Bag
  PROVE  Minus(e, n) \in Entry /\ EntryInv(Minus(e, n))
<1> DEFINE f == [u \in Users |-> IF n[u] <= e.users[u] THEN e.users[u] - n[u] ELSE 0]
<1>1. e.users \in [Users -> Nat] /\ n \in [Users -> Nat]
  BY DEF Entry, Bag
<1>2. f \in [Users -> Nat]
  BY <1>1
<1>3. Minus(e, n) = [e EXCEPT !.users = f]
  BY DEF Minus, Entry
<1>4. \A u \in Users : f[u] > 0 => e.users[u] > 0
  BY <1>1
<1> HIDE DEF f
<1> QED
  BY <1>2, <1>3, <1>4, EntryFields DEF EntryInv

LEMMA NewEntry ==
  ASSUME NEW role \in RoleType, NEW n \in Bag, NEW G \in SUBSET Groups,
         \A u \in Users : n[u] > 0 => Accounted(u, role), \A g \in G : Shared(g, role)
  PROVE  EntryOf(role, n, G) \in Entry /\ EntryInv(EntryOf(role, n, G))
  BY DEF EntryOf, Entry, EntryInv

-----------------------------------------------------------------------------
\* Handlers
LEMMA CallFields ==
  ASSUME NEW call \in Calls
  PROVE  /\ call.op \in {"AddMember", "UpdateMember", "RemoveMember", "EditGroup", "DeleteGroup",
                         "RemoveGroupRole", "SetGroupRole", "SetUserRole", "RemoveUserRole"}
         /\ call.op \notin {"SetUserRole", "RemoveUserRole"} => call.group \in Groups
         /\ call.op \in {"AddMember", "UpdateMember", "RemoveMember", "SetUserRole",
                         "RemoveUserRole"} => call.user \in Users
         /\ call.op \in {"SetGroupRole", "SetUserRole"} => call.role \in RoleType
         /\ call.op = "EditGroup" => call.list \in NewLists
  BY DEF Calls

LEMMA IdleHandler == Idle \in Handler /\ HandlerInv(Idle)
<1>1. <<>> \in Seq(Member) /\ DOMAIN <<>> = {}
  OBVIOUS
<1>2. Idle \in Handler
  BY <1>1 DEF Idle, Handler, Labels
<1> QED
  BY <1>1, <1>2 DEF Idle, HandlerInv, ListInv, MembersOf, FoundRole

LEMMA HandlerAt ==
  ASSUME NEW h \in Handler, HandlerInv(h), NEW label \in Labels, FoundRole(h, label)
  PROVE  [h EXCEPT !.pc = label] \in Handler /\ HandlerInv([h EXCEPT !.pc = label])
  BY DEF Handler, HandlerInv, FoundRole

LEMMA HandlerWith ==
  ASSUME NEW h \in Handler, HandlerInv(h), NEW label \in Labels,
         NEW copies \in SUBSET Copy, \A x \in copies : EntryInv(x.entry),
         FoundRole([h EXCEPT !.copies = copies], label)
  PROVE  /\ [h EXCEPT !.pc = label, !.copies = copies] \in Handler
         /\ HandlerInv([h EXCEPT !.pc = label, !.copies = copies])
  BY DEF Handler, HandlerInv, FoundRole

LEMMA HandlerList ==
  ASSUME NEW h \in Handler, HandlerInv(h), NEW label \in Labels \ Adding,
         NEW s \in Seq(Member), ListInv(s, h.call.group)
  PROVE  /\ [h EXCEPT !.pc = label, !.list = s] \in Handler
         /\ HandlerInv([h EXCEPT !.pc = label, !.list = s])
  BY DEF Handler, HandlerInv, FoundRole

LEMMA HandlerPlace ==
  ASSUME NEW h \in Handler, HandlerInv(h), NEW label \in Labels \ Adding,
         NEW s \in Seq(Member), ListInv(s, h.call.group), NEW n \in Nat
  PROVE  /\ [h EXCEPT !.pc = label, !.list = s, !.at = n] \in Handler
         /\ HandlerInv([h EXCEPT !.pc = label, !.list = s, !.at = n])
  BY DEF Handler, HandlerInv, FoundRole

LEMMA HandlerAdding ==
  ASSUME NEW h \in Handler, HandlerInv(h), NEW label \in Labels \ Adding,
         NEW s \in Seq(Member), ListInv(s, h.call.group), NEW k \in Nat, NEW n \in Nat
  PROVE  /\ [h EXCEPT !.pc = label, !.list = s, !.nth = k, !.at = n] \in Handler
         /\ HandlerInv([h EXCEPT !.pc = label, !.list = s, !.nth = k, !.at = n])
  BY DEF Handler, HandlerInv, FoundRole

LEMMA HandlerChanging ==
  ASSUME NEW h \in Handler, HandlerInv(h), h.pc \notin Adding,
         NEW s \in Seq(Member), ListInv(s, h.call.group), NEW k \in Nat, NEW n \in Nat
  PROVE  /\ [h EXCEPT !.list = s, !.nth = k, !.at = n] \in Handler
         /\ HandlerInv([h EXCEPT !.list = s, !.nth = k, !.at = n])
  BY DEF Handler, HandlerInv, FoundRole

LEMMA HandlerOld ==
  ASSUME NEW h \in Handler, HandlerInv(h), NEW label \in Labels \ Adding, NEW old \in Seq(Member)
  PROVE  /\ [h EXCEPT !.pc = label, !.old = old] \in Handler
         /\ HandlerInv([h EXCEPT !.pc = label, !.old = old])
  BY DEF Handler, HandlerInv, FoundRole

LEMMA HandlerFacts ==
  ASSUME IInv, NEW r \in Requests
  PROVE  /\ req[r] \in Handler /\ HandlerInv(req[r])
         /\ req[r].list \in Seq(Member) /\ ListInv(req[r].list, GroupOf(r))
         /\ req[r].old \in Seq(Member) /\ req[r].at \in Nat /\ req[r].nth \in Nat
         /\ req[r].copies \in SUBSET Copy
         /\ \A x \in req[r].copies : x.id \in Nat /\ x.entry \in Entry /\ EntryInv(x.entry)
         /\ Op(r) # None => req[r].call \in asked /\ req[r].call \in Calls
  BY DEF IInv, TypeOK, Handler, HandlerInv, Copy, Op, GroupOf, NoCall

LEMMA CallFacts ==
  ASSUME IInv, NEW r \in Requests
  PROVE  /\ Op(r) \in {"AddMember", "UpdateMember", "RemoveMember", "EditGroup", "DeleteGroup",
                       "RemoveGroupRole", "SetGroupRole"}
              => req[r].call \in asked /\ GroupOf(r) \in Groups
         /\ Op(r) \in {"AddMember", "SetUserRole"} => req[r].call \in asked /\ UserOf(r) \in Users
         /\ Op(r) \in {"SetGroupRole", "SetUserRole"}
              => req[r].call \in asked /\ RoleOf(r) \in RoleType
         /\ Op(r) = "EditGroup" => req[r].call \in asked /\ req[r].call.list \in NewLists
<1>1. CASE Op(r) = None
  BY <1>1 DEF None
<1>2. CASE Op(r) # None
  BY <1>2, HandlerFacts, CallFields DEF Op, GroupOf, UserOf, RoleOf
<1> QED
  BY <1>1, <1>2

LEMMA StepKeeps ==
  ASSUME IInv, NEW r \in Requests, NEW h \in Handler, HandlerInv(h),
         req' = [req EXCEPT ![r] = h],
         alive' \subseteq Groups, served' \in 0..MaxServed, asked' = asked,
         overlapped' \in BOOLEAN, died' \in BOOLEAN,
         members' \in [Groups -> Seq(Member)], \A g \in Groups : ListInv(members'[g], g),
         auth' \in Seq(Entry), \A i \in DOMAIN auth' : EntryInv(auth'[i])
  PROVE  IInv'
<1>1. req' \in [Requests -> Handler] /\ \A q \in Requests : HandlerInv(req'[q])
  BY DEF IInv, TypeOK
<1>2. TypeOK'
  BY <1>1 DEF IInv, TypeOK
<1>3. /\ \A u, role : Accounted(u, role)' <=> Accounted(u, role)
      /\ \A u, g : Joined(u, g)' <=> Joined(u, g)
      /\ \A g, role : Shared(g, role)' <=> Shared(g, role)
  BY DEF Accounted, Given, Joined, Shared
<1>4. (\A g \in Groups : ListInv(members[g], g))'
  BY <1>3 DEF ListInv
<1>5. (\A i \in Ids : EntryInv(auth[i]))'
  BY <1>3 DEF Ids, EntryInv
<1>6. (\A q \in Requests : HandlerInv(req[q]))'
  BY <1>1, <1>3 DEF HandlerInv, ListInv, EntryInv, FoundRole
<1> QED
  BY <1>2, <1>4, <1>5, <1>6 DEF IInv

LEMMA ReadingKeeps ==
  ASSUME IInv, NEW r \in Requests, NEW h \in Handler, HandlerInv(h),
         req' = [req EXCEPT ![r] = h], UNCHANGED <<stores, history>>
  PROVE  IInv'
  BY StepKeeps DEF IInv, TypeOK, Ids, stores, history

LEMMA MembersReplaced ==
  ASSUME IInv, NEW g \in Groups, NEW s \in Seq(Member), ListInv(s, g), Replace(g, s)
  PROVE  members' \in [Groups -> Seq(Member)] /\ \A x \in Groups : ListInv(members'[x], x)
  BY DEF IInv, TypeOK, Replace

LEMMA EntryReplaced ==
  ASSUME IInv, NEW id \in Nat, NEW e \in Entry, EntryInv(e), auth' = [auth EXCEPT ![id] = e]
  PROVE  auth' \in Seq(Entry) /\ \A i \in DOMAIN auth' : EntryInv(auth'[i])
<1>1. /\ auth \in Seq(Entry) /\ DOMAIN auth = 1..Len(auth) /\ Len(auth) \in Nat
      /\ \A i \in DOMAIN auth : auth[i] \in Entry /\ EntryInv(auth[i])
  BY DEF IInv, TypeOK, Ids
<1>2. DOMAIN auth' = DOMAIN auth
  OBVIOUS
<1>3. ASSUME NEW i \in DOMAIN auth PROVE auth'[i] \in Entry /\ EntryInv(auth'[i])
  <2>1. auth'[i] = IF i = id THEN e ELSE auth[i]
    BY <1>1
  <2>2. CASE i = id
    BY <2>1, <2>2
  <2>3. CASE i # id
    BY <1>1, <2>1, <2>3
  <2> QED
    BY <2>2, <2>3
<1>4. auth' \in [1..Len(auth) -> Entry]
  BY <1>1, <1>2, <1>3
<1> QED
  BY <1>1, <1>2, <1>3, <1>4, SeqOfFunction

LEMMA EntryInserted ==
  ASSUME IInv, NEW e \in Entry, EntryInv(e), auth' = Append(auth, e)
  PROVE  auth' \in Seq(Entry) /\ \A i \in DOMAIN auth' : EntryInv(auth'[i])
<1>1. auth \in Seq(Entry) /\ auth' \in Seq(Entry)
  BY DEF IInv, TypeOK
<1>2. ASSUME NEW i \in DOMAIN auth' PROVE EntryInv(auth'[i])
  <2>1. CASE i \in DOMAIN auth
    BY <1>1, <2>1 DEF IInv, Ids
  <2>2. CASE i = Len(auth) + 1
    BY <1>1, <2>2
  <2> QED
    BY <1>1, <2>1, <2>2
<1> QED
  BY <1>1, <1>2

\* The handler ends, goes on, or goes on with other documents
LEMMA EndKeeps ==
  ASSUME IInv, NEW r \in Requests, End(r),
         alive' \subseteq Groups,
         members' \in [Groups -> Seq(Member)], \A g \in Groups : ListInv(members'[g], g),
         auth' \in Seq(Entry), \A i \in DOMAIN auth' : EntryInv(auth'[i])
  PROVE  IInv'
  BY IdleHandler, StepKeeps DEF End, history, IInv, TypeOK

LEMMA GotoKeeps ==
  ASSUME IInv, NEW r \in Requests, NEW label \in Labels, Goto(r, label),
         label = "count" => req[r].pc = "saveRole", label # "saveRole",
         alive' \subseteq Groups,
         members' \in [Groups -> Seq(Member)], \A g \in Groups : ListInv(members'[g], g),
         auth' \in Seq(Entry), \A i \in DOMAIN auth' : EntryInv(auth'[i])
  PROVE  IInv'
<1> DEFINE h == [req[r] EXCEPT !.pc = label]
<1>0. FoundRole(req[r], label)
  BY HandlerFacts DEF HandlerInv, FoundRole, Adding
<1>1. h \in Handler /\ HandlerInv(h)
  BY <1>0, HandlerFacts, HandlerAt
<1>2. req' = [req EXCEPT ![r] = h]
  BY DEF Goto
<1> HIDE DEF h
<1> QED
  BY <1>1, <1>2, StepKeeps DEF Goto, history, IInv, TypeOK

LEMMA GotoWithKeeps ==
  ASSUME IInv, NEW r \in Requests, NEW label \in Labels, NEW copies \in SUBSET Copy,
         \A x \in copies : EntryInv(x.entry), GotoWith(r, label, copies),
         Op(r) = "SetUserRole" /\ label \in Adding => \A x \in copies : x.entry.role = RoleOf(r),
         alive' \subseteq Groups,
         members' \in [Groups -> Seq(Member)], \A g \in Groups : ListInv(members'[g], g),
         auth' \in Seq(Entry), \A i \in DOMAIN auth' : EntryInv(auth'[i])
  PROVE  IInv'
<1> DEFINE h == [req[r] EXCEPT !.pc = label, !.copies = copies]
<1>0. FoundRole([req[r] EXCEPT !.copies = copies], label)
  BY HandlerFacts DEF Handler, FoundRole, Op, RoleOf
<1>1. h \in Handler /\ HandlerInv(h)
  BY <1>0, HandlerFacts, HandlerWith
<1>2. req' = [req EXCEPT ![r] = h]
  BY DEF GotoWith
<1> HIDE DEF h
<1> QED
  BY <1>1, <1>2, StepKeeps DEF GotoWith, history, IInv, TypeOK

LEMMA StoresFine ==
  ASSUME IInv
  PROVE  /\ alive \subseteq Groups
         /\ members \in [Groups -> Seq(Member)] /\ \A g \in Groups : ListInv(members[g], g)
         /\ auth \in Seq(Entry) /\ \A i \in DOMAIN auth : auth[i] \in Entry /\ EntryInv(auth[i])
         /\ DOMAIN auth \subseteq Nat
  BY DEF IInv, TypeOK, Ids

\* What was asked for stays asked for
LEMMA ArriveKeeps ==
  ASSUME IInv, NEW r \in Requests, Arrive(r) PROVE IInv'
<1> PICK call \in Calls :
       /\ served < MaxServed
       /\ req' = [req EXCEPT ![r] = [Idle EXCEPT !.call = call, !.pc = FirstOf(call.op)]]
       /\ served' = served + 1
       /\ asked' = asked \cup {call}
  BY DEF Arrive
<1> DEFINE h == [Idle EXCEPT !.call = call, !.pc = FirstOf(call.op)]
<1>1. /\ h \in Handler /\ h.call = call /\ h.list = <<>> /\ h.copies = {}
      /\ asked' \in SUBSET Calls
  <2>1. FirstOf(call.op) \in Labels
    BY DEF FirstOf, Labels
  <2> QED
    BY <2>1, IdleHandler DEF Handler, Idle, IInv, TypeOK
<1>2. TypeOK'
  <2>1. served' \in 0..MaxServed
    BY DEF IInv, TypeOK
  <2>2. overlapped' \in BOOLEAN
    BY DEF Arrive, IInv, TypeOK
  <2> QED
    BY <1>1, <2>1, <2>2 DEF Arrive, IInv, TypeOK, stores
<1>3. /\ \A u, role : Accounted(u, role) => Accounted(u, role)'
      /\ \A u, g : Joined(u, g) => Joined(u, g)'
      /\ \A g, role : Shared(g, role) => Shared(g, role)'
  BY DEF Accounted, Given, Joined, Shared
<1>4. UNCHANGED <<members, auth>>
  BY DEF Arrive, stores
<1>5. (\A g \in Groups : ListInv(members[g], g))'
  BY <1>3, <1>4 DEF IInv, ListInv
<1>6. (\A i \in Ids : EntryInv(auth[i]))'
  BY <1>3, <1>4 DEF IInv, Ids, EntryInv
<1>7. (\A q \in Requests : HandlerInv(req[q]))'
  <2> SUFFICES ASSUME NEW q \in Requests PROVE HandlerInv(req[q])'
    OBVIOUS
  <2>1. CASE q = r
    <3>1. req'[q] = h
      BY <2>1 DEF IInv, TypeOK
    <3>2. MembersOf(<<>>) = {}
      BY DEF MembersOf
    <3>3. h.call \in asked' /\ MembersOf(h.list) = {} /\ h.copies = {}
      BY <1>1, <3>2
    <3> HIDE DEF h
    <3> QED
      BY <3>1, <3>3 DEF HandlerInv, ListInv, FoundRole
  <2>2. CASE q # r
    <3>1. req'[q] = req[q] /\ HandlerInv(req[q])
      BY <2>2 DEF IInv, TypeOK
    <3>2. (req[q].call \in asked \cup {NoCall})'
      BY <3>1 DEF HandlerInv
    <3>3. ListInv(req[q].list, req[q].call.group)'
      BY <1>3, <3>1 DEF HandlerInv, ListInv
    <3>4. (\A x \in req[q].copies : EntryInv(x.entry))'
      BY <1>3, <3>1 DEF HandlerInv, EntryInv
    <3> QED
      BY <3>1, <3>2, <3>3, <3>4 DEF HandlerInv, FoundRole
  <2> QED
    BY <2>1, <2>2
<1> QED
  BY <1>2, <1>5, <1>6, <1>7 DEF IInv

-----------------------------------------------------------------------------
\* Membership
LEMMA AddMemberKeeps ==
  ASSUME IInv, NEW r \in Requests, AddMember(r) PROVE IInv'
<1> DEFINE g == GroupOf(r)
           s == Append(members[g], [user |-> UserOf(r), editor |-> RoleOf(r) = "editor"])
<1>1. /\ Op(r) = "AddMember" /\ req[r].call \in asked /\ g \in Groups /\ UserOf(r) \in Users
      /\ req[r] \in Handler /\ HandlerInv(req[r]) /\ members[g] \in Seq(Member)
  BY HandlerFacts, CallFacts, StoresFine DEF AddMember, At
<1>2. CASE End(r)
  BY <1>2, EndKeeps, StoresFine DEF AddMember, stores
<1>3. CASE /\ req' = [req EXCEPT ![r] = [@ EXCEPT !.pc = "saveMember", !.list = s]]
           /\ UNCHANGED history
  <2>1. [user |-> UserOf(r), editor |-> RoleOf(r) = "editor"] \in Member
    BY <1>1 DEF Member
  <2>2. s \in Seq(Member) /\ MembersOf(s) = MembersOf(members[g]) \cup {UserOf(r)}
    BY <1>1, <2>1, AppendMember
  <2>3. Joined(UserOf(r), g)
    BY <1>1 DEF Joined, Op, GroupOf, UserOf
  <2>4. ListInv(s, g)
    BY <1>1, <2>2, <2>3, StoresFine DEF ListInv
  <2>5. "saveMember" \in Labels /\ ListInv(s, req[r].call.group)
    BY <2>4 DEF Labels, GroupOf
  <2> DEFINE h == [req[r] EXCEPT !.pc = "saveMember", !.list = s]
  <2>6. req' = [req EXCEPT ![r] = h]
    BY <1>3
  <2> HIDE DEF s
  <2>7. h \in Handler /\ HandlerInv(h)
    BY <1>1, <2>2, <2>5, HandlerList
  <2> HIDE DEF h
  <2> QED
    BY <1>3, <2>6, <2>7, ReadingKeeps DEF AddMember
<1> QED
  BY <1>2, <1>3 DEF AddMember

LEMMA UpdateMemberKeeps ==
  ASSUME IInv, NEW r \in Requests, UpdateMember(r) PROVE IInv'
<1> DEFINE g == GroupOf(r)
<1>1. /\ g \in Groups /\ req[r] \in Handler /\ HandlerInv(req[r])
      /\ members[g] \in Seq(Member) /\ ListInv(members[g], g)
  BY HandlerFacts, CallFacts, StoresFine DEF UpdateMember, At
<1>2. CASE End(r)
  BY <1>2, EndKeeps, StoresFine DEF UpdateMember, stores
<1>3. CASE \E i \in Places(members[g], UserOf(r)) :
             /\ req' = [req EXCEPT ![r] = [@ EXCEPT !.pc = "saveMember",
                                                    !.list = [members[g] EXCEPT ![i].editor = (RoleOf(r) = "editor")]]]
             /\ UNCHANGED history
  <2> PICK i \in Places(members[g], UserOf(r)) :
             /\ req' = [req EXCEPT ![r] = [@ EXCEPT !.pc = "saveMember",
                                                    !.list = [members[g] EXCEPT ![i].editor = (RoleOf(r) = "editor")]]]
             /\ UNCHANGED history
    BY <1>3
  <2> DEFINE s == [members[g] EXCEPT ![i].editor = (RoleOf(r) = "editor")]
             h == [req[r] EXCEPT !.pc = "saveMember", !.list = s]
  <2>1. s \in Seq(Member) /\ MembersOf(s) = MembersOf(members[g])
    BY <1>1, ChangedMember DEF Places
  <2>2. req' = [req EXCEPT ![r] = h]
    OBVIOUS
  <2> HIDE DEF s
  <2>3. "saveMember" \in Labels /\ ListInv(s, req[r].call.group)
    BY <1>1, <2>1 DEF Labels, GroupOf, ListInv
  <2>4. h \in Handler /\ HandlerInv(h)
    BY <1>1, <2>1, <2>3, HandlerList
  <2> HIDE DEF h
  <2> QED
    BY <2>2, <2>4, ReadingKeeps DEF UpdateMember
<1> QED
  BY <1>2, <1>3 DEF UpdateMember

LEMMA SaveMemberKeeps ==
  ASSUME IInv, NEW r \in Requests, SaveMember(r) PROVE IInv'
<1>1. GroupOf(r) \in Groups
  BY CallFacts DEF SaveMember, At
<1>2. members' \in [Groups -> Seq(Member)] /\ \A g \in Groups : ListInv(members'[g], g)
  BY <1>1, HandlerFacts, MembersReplaced DEF SaveMember
<1>3. End(r) \/ Goto(r, "push")
  BY DEF SaveMember
<1>4. "push" \in Labels
  BY DEF Labels
<1> QED
  BY <1>2, <1>3, <1>4, EndKeeps, GotoKeeps, StoresFine DEF SaveMember

LEMMA PushKeeps ==
  ASSUME IInv, NEW r \in Requests, Push(r) PROVE IInv'
<1> DEFINE g == GroupOf(r)
           u == UserOf(r)
<1>1. /\ Op(r) = "AddMember" /\ req[r].call \in asked /\ g \in Groups /\ u \in Users
  BY CallFacts DEF Push, At
<1>2. Joined(u, g)
  BY <1>1 DEF Joined, Op, GroupOf, UserOf
<1>3. ASSUME NEW i \in DOMAIN auth, i \in WithGroup(g)
      PROVE  Plus(auth[i], Once(u)) \in Entry /\ EntryInv(Plus(auth[i], Once(u)))
  <2>1. Accounted(u, auth[i].role)
    BY <1>1, <1>2, <1>3, StoresFine DEF WithGroup, EntryInv, Accounted
  <2> QED
    BY <1>1, <2>1, PlusOne, StoresFine
<1>4. ASSUME NEW i \in DOMAIN auth PROVE auth'[i] \in Entry /\ EntryInv(auth'[i])
  <2>1. auth'[i] = IF i \in WithGroup(g) THEN Plus(auth[i], Once(u)) ELSE auth[i]
    BY DEF Push, Ids
  <2> QED
    BY <1>3, <2>1, StoresFine
<1>5. auth' \in Seq(Entry) /\ \A i \in DOMAIN auth' : EntryInv(auth'[i])
  <2>1. DOMAIN auth' = DOMAIN auth /\ auth' = [i \in DOMAIN auth |-> auth'[i]]
    BY DEF Push, Ids
  <2>2. DOMAIN auth = 1..Len(auth) /\ Len(auth) \in Nat
    BY StoresFine
  <2>3. auth' \in [1..Len(auth) -> Entry]
    BY <1>4, <2>1, <2>2
  <2> QED
    BY <1>4, <2>1, <2>2, <2>3, SeqOfFunction
<1> QED
  BY <1>5, EndKeeps, StoresFine DEF Push

LEMMA RemoveMemberKeeps ==
  ASSUME IInv, NEW r \in Requests, RemoveMember(r) PROVE IInv'
<1> DEFINE s == members[GroupOf(r)]
<1>1. /\ GroupOf(r) \in Groups /\ req[r] \in Handler /\ HandlerInv(req[r])
      /\ s \in Seq(Member) /\ ListInv(s, GroupOf(r))
  BY HandlerFacts, CallFacts, StoresFine DEF RemoveMember, At
<1>2. CASE End(r)
  BY <1>2, EndKeeps, StoresFine DEF RemoveMember, stores
<1>3. CASE \E i \in Places(s, UserOf(r)) :
             /\ req' = [req EXCEPT ![r] = [@ EXCEPT !.pc = "entries", !.list = s, !.at = i]]
             /\ UNCHANGED history
  <2> PICK i \in Places(s, UserOf(r)) :
             /\ req' = [req EXCEPT ![r] = [@ EXCEPT !.pc = "entries", !.list = s, !.at = i]]
             /\ UNCHANGED history
    BY <1>3
  <2> DEFINE h == [req[r] EXCEPT !.pc = "entries", !.list = s, !.at = i]
  <2>1. req' = [req EXCEPT ![r] = h]
    OBVIOUS
  <2>2. "entries" \in Labels /\ i \in Nat /\ ListInv(s, req[r].call.group)
    BY <1>1 DEF Labels, GroupOf, Places
  <2> HIDE DEF s
  <2>3. h \in Handler /\ HandlerInv(h)
    BY <1>1, <2>2, HandlerPlace
  <2> HIDE DEF h
  <2> QED
    BY <2>1, <2>3, ReadingKeeps DEF RemoveMember
<1> QED
  BY <1>2, <1>3 DEF RemoveMember

\* edit_group goes on to the next member that leaves, or to the new members
LEMMA NextLeavingKeeps ==
  ASSUME IInv, NEW r \in Requests, NEW i \in Nat, NEW s \in Seq(Member),
         ListInv(s, GroupOf(r)), GotoNextLeaving(r, s, i), alive' \subseteq Groups,
         members' \in [Groups -> Seq(Member)], \A g \in Groups : ListInv(members'[g], g),
         auth' = auth
  PROVE  IInv'
<1>1. /\ req[r] \in Handler /\ HandlerInv(req[r]) /\ ListInv(s, req[r].call.group)
      /\ {"newMembers", "entries"} \subseteq Labels
  BY HandlerFacts DEF GroupOf, Labels
<1>2. PICK h \in Handler : HandlerInv(h) /\ req' = [req EXCEPT ![r] = h]
  <2>1. CASE req' = [req EXCEPT ![r] = [@ EXCEPT !.pc = "newMembers", !.list = s,
                                                 !.nth = 1, !.at = 1]]
    <3> DEFINE h == [req[r] EXCEPT !.pc = "newMembers", !.list = s, !.nth = 1, !.at = 1]
    <3>1. h \in Handler /\ HandlerInv(h)
      BY <1>1, HandlerAdding
    <3>2. req' = [req EXCEPT ![r] = h]
      BY <2>1
    <3> QED
      BY <3>1, <3>2
  <2>2. CASE \E j \in Nat : req' = [req EXCEPT ![r] = [@ EXCEPT !.pc = "entries", !.list = s, !.at = j]]
    <3> PICK j \in Nat : req' = [req EXCEPT ![r] = [@ EXCEPT !.pc = "entries", !.list = s, !.at = j]]
      BY <2>2
    <3> DEFINE h == [req[r] EXCEPT !.pc = "entries", !.list = s, !.at = j]
    <3>1. h \in Handler /\ HandlerInv(h)
      BY <1>1, HandlerPlace
    <3>2. req' = [req EXCEPT ![r] = h]
      OBVIOUS
    <3> QED
      BY <3>1, <3>2
  <2>3. Leaving(s, req[r].call.list, i) \subseteq Nat
    BY DEF Leaving
  <2> QED
    BY <2>1, <2>2, <2>3 DEF GotoNextLeaving
<1> QED
  BY <1>2, StepKeeps, StoresFine DEF GotoNextLeaving, history, IInv, TypeOK

LEMMA EditGroupKeeps ==
  ASSUME IInv, NEW r \in Requests, EditGroup(r) PROVE IInv'
<1>1. /\ GroupOf(r) \in Groups /\ members[GroupOf(r)] \in Seq(Member)
      /\ ListInv(members[GroupOf(r)], GroupOf(r))
  BY CallFacts, StoresFine DEF EditGroup, At
<1>2. GotoNextLeaving(r, members[GroupOf(r)], 1) /\ UNCHANGED stores
  BY DEF EditGroup
<1> QED
  BY <1>1, <1>2, NextLeavingKeeps, StoresFine DEF stores

LEMMA ReadEntriesKeeps ==
  ASSUME IInv, NEW r \in Requests, ReadEntries(r) PROVE IInv'
<1> DEFINE copies == {CopyOf(i) : i \in
          {i \in WithGroup(GroupOf(r)) : Op(r) = "RemoveMember" => i \in WithUser(Leaver(r))}}
<1>1. copies \in SUBSET Copy /\ \A x \in copies : EntryInv(x.entry)
  BY StoresFine DEF CopyOf, Copy, WithGroup, Ids
<1>2. GotoWith(r, "takeRole", copies) /\ UNCHANGED stores
  BY DEF ReadEntries
<1>3. "takeRole" \in Labels
  BY DEF Labels
<1> HIDE DEF copies
<1> QED
  BY <1>1, <1>2, <1>3, GotoWithKeeps, StoresFine DEF stores

LEMMA TakeRoleKeeps ==
  ASSUME IInv, NEW r \in Requests, TakeRole(r) PROVE IInv'
<1>1. {"takeRole", "dropMember"} \subseteq Labels
  BY DEF Labels
<1>2. UNCHANGED <<alive, members>>
  BY DEF TakeRole
<1>3. CASE Goto(r, "dropMember") /\ UNCHANGED auth
  BY <1>1, <1>2, <1>3, GotoKeeps, StoresFine
<1>4. CASE End(r) /\ UNCHANGED auth
  BY <1>2, <1>4, EndKeeps, StoresFine
<1>5. CASE \E x \in req[r].copies :
             /\ auth' = [auth EXCEPT ![x.id] = Minus(x.entry, Once(Leaver(r)))]
             /\ GotoWith(r, "takeRole", req[r].copies \ {x})
  <2> PICK x \in req[r].copies :
             /\ auth' = [auth EXCEPT ![x.id] = Minus(x.entry, Once(Leaver(r)))]
             /\ GotoWith(r, "takeRole", req[r].copies \ {x})
    BY <1>5
  <2> DEFINE e == Minus(x.entry, Once(Leaver(r)))
             copies == req[r].copies \ {x}
  <2>1. x.id \in Nat /\ e \in Entry /\ EntryInv(e)
    BY HandlerFacts, MinusEntry, BagTypes
  <2>2. copies \in SUBSET Copy /\ \A y \in copies : EntryInv(y.entry)
    BY HandlerFacts
  <2>3. auth' = [auth EXCEPT ![x.id] = e] /\ GotoWith(r, "takeRole", copies)
    OBVIOUS
  <2> HIDE DEF e, copies
  <2>4. auth' \in Seq(Entry) /\ \A i \in DOMAIN auth' : EntryInv(auth'[i])
    BY <2>1, <2>3, EntryReplaced
  <2> QED
    BY <1>1, <1>2, <2>2, <2>3, <2>4, GotoWithKeeps, StoresFine
<1> QED
  BY <1>3, <1>4, <1>5 DEF TakeRole

LEMMA DropMemberKeeps ==
  ASSUME IInv, NEW r \in Requests, DropMember(r) PROVE IInv'
<1> PICK i \in DOMAIN req[r].list :
       /\ Replace(GroupOf(r), Dropped(req[r].list, i))
       /\ \/ GotoNextLeaving(r, Dropped(req[r].list, i), req[r].at + 1)
          \/ End(r)
  BY DEF DropMember
<1> DEFINE s == Dropped(req[r].list, i)
<1>1. /\ GroupOf(r) \in Groups /\ req[r].list \in Seq(Member) /\ req[r].at \in Nat
      /\ ListInv(req[r].list, GroupOf(r)) /\ i \in Nat /\ UNCHANGED <<alive, auth>>
  BY HandlerFacts, CallFacts DEF DropMember, At
<1>2. s \in Seq(Member) /\ MembersOf(s) \subseteq MembersOf(req[r].list)
  BY <1>1, DroppedMember
<1>3. Replace(GroupOf(r), s) /\ (GotoNextLeaving(r, s, req[r].at + 1) \/ End(r))
  OBVIOUS
<1> HIDE DEF s
<1>4. ListInv(s, GroupOf(r))
  BY <1>1, <1>2 DEF ListInv
<1>5. members' \in [Groups -> Seq(Member)] /\ \A g \in Groups : ListInv(members'[g], g)
  BY <1>1, <1>2, <1>3, <1>4, MembersReplaced
<1>6. CASE End(r)
  BY <1>1, <1>5, <1>6, EndKeeps, StoresFine
<1>7. CASE GotoNextLeaving(r, s, req[r].at + 1)
  <2>1. req[r].at + 1 \in Nat
    BY <1>1
  <2> QED
    BY <1>1, <1>2, <1>4, <1>5, <1>7, <2>1, NextLeavingKeeps, StoresFine
<1> QED
  BY <1>3, <1>6, <1>7

\* A member of the new list who is added to the group
LEMMA AddedMember ==
  ASSUME IInv, NEW r \in Requests, Op(r) = "EditGroup", NEW k \in ToAdd(r),
         NEW s \in Seq(Member), MembersOf(s) \subseteq MembersOf(req[r].list)
  PROVE  /\ req[r].call.list[k] \in Member /\ k \in Nat
         /\ Append(s, req[r].call.list[k]) \in Seq(Member)
         /\ ListInv(Append(s, req[r].call.list[k]), GroupOf(r))
<1> DEFINE list == req[r].call.list
<1>1. /\ GroupOf(r) \in Groups /\ ListInv(req[r].list, GroupOf(r)) /\ req[r].nth \in Nat
      /\ req[r].call \in asked /\ list \in NewLists
  BY HandlerFacts, CallFacts
<1>2. list \in Seq(Member)
  BY <1>1, ListsAssumption
<1>3. k \in DOMAIN list /\ k \in Nat
  BY <1>2 DEF ToAdd
<1>4. list[k] \in Member /\ list[k].user \in MembersOf(list)
  BY <1>2, <1>3 DEF MembersOf
<1>5. Joined(list[k].user, GroupOf(r))
  BY <1>1, <1>4 DEF Joined, Op, GroupOf
<1>6. /\ Append(s, list[k]) \in Seq(Member)
      /\ MembersOf(Append(s, list[k])) = MembersOf(s) \cup {list[k].user}
  BY <1>4, AppendMember
<1> QED
  BY <1>1, <1>3, <1>4, <1>5, <1>6 DEF ListInv

LEMMA ChangeEditorKeeps ==
  ASSUME IInv, NEW r \in Requests, At(r, {"EditGroup"}, "newMembers"), NEW k \in ToAdd(r),
         ChangeEditor(r, k), UNCHANGED <<alive, auth>>
  PROVE  IInv'
<1> PICK i \in Changing(r, k), j \in DOMAIN req[r].list :
       LET s == Append(Dropped(req[r].list, j), req[r].call.list[k])
       IN  /\ Replace(GroupOf(r), s)
           /\ \/ /\ req' = [req EXCEPT ![r] = [@ EXCEPT !.list = s, !.nth = k, !.at = i + 1]]
                 /\ UNCHANGED history
              \/ End(r)
  BY DEF ChangeEditor
<1> DEFINE s == Append(Dropped(req[r].list, j), req[r].call.list[k])
           h == [req[r] EXCEPT !.list = s, !.nth = k, !.at = i + 1]
<1>1. /\ GroupOf(r) \in Groups /\ req[r] \in Handler /\ HandlerInv(req[r])
      /\ req[r].list \in Seq(Member) /\ j \in Nat /\ Op(r) = "EditGroup"
      /\ req[r].pc \notin Adding /\ req[r].nth \in Nat /\ req[r].at \in Nat
  BY HandlerFacts, CallFacts DEF At
<1>2. /\ Dropped(req[r].list, j) \in Seq(Member)
      /\ MembersOf(Dropped(req[r].list, j)) \subseteq MembersOf(req[r].list)
  BY <1>1, DroppedMember
<1>3. s \in Seq(Member) /\ ListInv(s, GroupOf(r)) /\ k \in Nat
  BY <1>1, <1>2, AddedMember
<1>4. i + 1 \in Nat
  BY <1>1 DEF Changing
<1>5. Replace(GroupOf(r), s) /\ ((req' = [req EXCEPT ![r] = h] /\ UNCHANGED history) \/ End(r))
  OBVIOUS
<1> HIDE DEF s
<1>6. h \in Handler /\ HandlerInv(h)
  BY <1>1, <1>3, <1>4, HandlerChanging DEF GroupOf
<1> HIDE DEF h
<1>7. members' \in [Groups -> Seq(Member)] /\ \A x \in Groups : ListInv(members'[x], x)
  BY <1>1, <1>3, <1>5, MembersReplaced
<1>8. CASE End(r)
  BY <1>7, <1>8, EndKeeps, StoresFine
<1>9. CASE req' = [req EXCEPT ![r] = h] /\ UNCHANGED history
  BY <1>6, <1>7, <1>9, StepKeeps, StoresFine DEF history, IInv, TypeOK
<1> QED
  BY <1>5, <1>8, <1>9

LEMMA NewMembersKeeps ==
  ASSUME IInv, NEW r \in Requests, NewMembers(r) PROVE IInv'
<1>1. /\ GroupOf(r) \in Groups /\ req[r].list \in Seq(Member)
      /\ ListInv(req[r].list, GroupOf(r)) /\ At(r, {"EditGroup"}, "newMembers")
      /\ Op(r) = "EditGroup" /\ UNCHANGED <<alive, auth>>
  BY HandlerFacts, CallFacts DEF NewMembers, At
<1>2. ASSUME NEW s \in Seq(Member), ListInv(s, GroupOf(r)), Replace(GroupOf(r), s), End(r)
      PROVE  IInv'
  <2>1. members' \in [Groups -> Seq(Member)] /\ \A x \in Groups : ListInv(members'[x], x)
    BY <1>1, <1>2, MembersReplaced
  <2> QED
    BY <1>1, <1>2, <2>1, EndKeeps, StoresFine
<1>3. ASSUME NEW k \in ToAdd(r), AddMissing(r, k) PROVE IInv'
  <2>1. /\ Append(req[r].list, req[r].call.list[k]) \in Seq(Member)
        /\ ListInv(Append(req[r].list, req[r].call.list[k]), GroupOf(r))
    BY <1>1, AddedMember
  <2> QED
    BY <1>2, <1>3, <2>1 DEF AddMissing
<1>4. ASSUME NEW k \in ToAdd(r), ChangeEditor(r, k) PROVE IInv'
  BY <1>1, <1>4, ChangeEditorKeeps
<1> QED
  BY <1>1, <1>2, <1>3, <1>4 DEF NewMembers

-----------------------------------------------------------------------------
\* Roles of groups and of users
LEMMA SetGroupRoleKeeps ==
  ASSUME IInv, NEW r \in Requests, SetGroupRole(r) PROVE IInv'
<1> DEFINE s == members[GroupOf(r)]
           h == [req[r] EXCEPT !.pc = "again", !.list = s]
<1>1. /\ GroupOf(r) \in Groups /\ req[r] \in Handler /\ HandlerInv(req[r])
      /\ s \in Seq(Member) /\ ListInv(s, req[r].call.group) /\ "again" \in Labels
  BY HandlerFacts, CallFacts, StoresFine DEF SetGroupRole, At, GroupOf, Labels
<1>2. req' = [req EXCEPT ![r] = h] /\ UNCHANGED <<stores, history>>
  BY DEF SetGroupRole
<1>3. h \in Handler /\ HandlerInv(h)
  BY <1>1, HandlerList
<1> HIDE DEF h
<1> QED
  BY <1>2, <1>3, ReadingKeeps

LEMMA RemoveGroupRoleKeeps ==
  ASSUME IInv, NEW r \in Requests, RemoveGroupRole(r) PROVE IInv'
<1> DEFINE s == members[GroupOf(r)]
           h == [req[r] EXCEPT !.pc = "findGroup", !.old = s]
<1>1. /\ GroupOf(r) \in Groups /\ req[r] \in Handler /\ HandlerInv(req[r])
      /\ s \in Seq(Member) /\ "findGroup" \in Labels
  BY HandlerFacts, CallFacts, StoresFine DEF RemoveGroupRole, At, Labels
<1>2. req' = [req EXCEPT ![r] = h] /\ UNCHANGED <<stores, history>>
  BY DEF RemoveGroupRole
<1>3. h \in Handler /\ HandlerInv(h)
  BY <1>1, HandlerOld
<1> HIDE DEF h
<1> QED
  BY <1>2, <1>3, ReadingKeeps

LEMMA AfterRemovalKeeps ==
  ASSUME IInv, NEW r \in Requests, AfterRemoval(r), UNCHANGED <<alive, members>>,
         auth' \in Seq(Entry), \A i \in DOMAIN auth' : EntryInv(auth'[i])
  PROVE  IInv'
<1>1. "findRole" \in Labels /\ {} \in SUBSET Copy /\ \A x \in {} : EntryInv(x.entry)
  BY DEF Labels
<1>2. CASE GotoWith(r, "findRole", {})
  BY <1>1, <1>2, GotoWithKeeps, StoresFine
<1>3. CASE End(r)
  BY <1>3, EndKeeps, StoresFine
<1> QED
  BY <1>2, <1>3 DEF AfterRemoval

\* One document is kept for the next write
LEMMA OneCopyKeeps ==
  ASSUME IInv, NEW r \in Requests, NEW label \in Labels, NEW id \in Nat, NEW e \in Entry,
         EntryInv(e), GotoWith(r, label, {[id |-> id, entry |-> e]}), UNCHANGED stores,
         Op(r) = "SetUserRole" /\ label \in Adding => e.role = RoleOf(r)
  PROVE  IInv'
<1> DEFINE copies == {[id |-> id, entry |-> e]}
<1>1. /\ copies \in SUBSET Copy /\ \A x \in copies : EntryInv(x.entry)
      /\ Op(r) = "SetUserRole" /\ label \in Adding => \A x \in copies : x.entry.role = RoleOf(r)
  BY DEF Copy
<1>2. GotoWith(r, label, copies)
  OBVIOUS
<1> HIDE DEF copies
<1> QED
  BY <1>1, <1>2, GotoWithKeeps, StoresFine DEF stores

LEMMA WithoutGroup ==
  ASSUME NEW e \in Entry, EntryInv(e), NEW g
  PROVE  [e EXCEPT !.groups = @ \ {g}] \in Entry /\ EntryInv([e EXCEPT !.groups = @ \ {g}])
  BY DEF Entry, EntryInv

LEMMA FindGroupEntryKeeps ==
  ASSUME IInv, NEW r \in Requests, FindGroupEntry(r) PROVE IInv'
<1>1. CASE AfterRemoval(r)
  BY <1>1, AfterRemovalKeeps, StoresFine DEF FindGroupEntry, stores
<1>2. ASSUME NEW i \in WithGroup(GroupOf(r)),
             GotoWith(r, "saveRemoved", {[id |-> i, entry |->
                 Minus([auth[i] EXCEPT !.groups = @ \ {GroupOf(r)}], Listed(req[r].old))]})
      PROVE  IInv'
  <2> DEFINE e == Minus([auth[i] EXCEPT !.groups = @ \ {GroupOf(r)}], Listed(req[r].old))
  <2>1. i \in Nat /\ auth[i] \in Entry /\ EntryInv(auth[i])
    BY StoresFine DEF WithGroup, Ids
  <2>2. e \in Entry /\ EntryInv(e)
    BY <2>1, WithoutGroup, MinusEntry, BagTypes, HandlerFacts
  <2>3. GotoWith(r, "saveRemoved", {[id |-> i, entry |-> e]}) /\ UNCHANGED stores
    BY <1>2 DEF FindGroupEntry
  <2>4. "saveRemoved" \in Labels
    BY DEF Labels
  <2> HIDE DEF e
  <2> QED
    BY <2>1, <2>2, <2>3, <2>4, OneCopyKeeps
<1> QED
  BY <1>1, <1>2 DEF FindGroupEntry

LEMMA RemoveUserRoleKeeps ==
  ASSUME IInv, NEW r \in Requests, RemoveUserRole(r) PROVE IInv'
<1>1. CASE AfterRemoval(r)
  BY <1>1, AfterRemovalKeeps, StoresFine DEF RemoveUserRole, stores
<1>2. ASSUME NEW i \in WithUser(UserOf(r)),
             GotoWith(r, "saveRemoved", {[id |-> i, entry |-> Minus(auth[i], Once(UserOf(r)))]})
      PROVE  IInv'
  <2>1. i \in Nat /\ auth[i] \in Entry /\ EntryInv(auth[i])
    BY StoresFine DEF WithUser, Ids
  <2>2. Minus(auth[i], Once(UserOf(r))) \in Entry /\ EntryInv(Minus(auth[i], Once(UserOf(r))))
    BY <2>1, MinusEntry, BagTypes
  <2>3. "saveRemoved" \in Labels /\ UNCHANGED stores
    BY DEF Labels, RemoveUserRole
  <2> QED
    BY <1>2, <2>1, <2>2, <2>3, OneCopyKeeps
<1> QED
  BY <1>1, <1>2 DEF RemoveUserRole

\* A document that was kept is written
LEMMA CopyWritten ==
  ASSUME IInv, NEW r \in Requests, \E x \in req[r].copies : auth' = [auth EXCEPT ![x.id] = x.entry]
  PROVE  auth' \in Seq(Entry) /\ \A i \in DOMAIN auth' : EntryInv(auth'[i])
<1> PICK x \in req[r].copies : auth' = [auth EXCEPT ![x.id] = x.entry]
  OBVIOUS
<1>1. x.id \in Nat /\ x.entry \in Entry /\ EntryInv(x.entry)
  BY HandlerFacts
<1> QED
  BY <1>1, EntryReplaced

LEMMA SaveRemovedKeeps ==
  ASSUME IInv, NEW r \in Requests, SaveRemoved(r) PROVE IInv'
<1>1. auth' \in Seq(Entry) /\ \A i \in DOMAIN auth' : EntryInv(auth'[i])
  BY CopyWritten DEF SaveRemoved
<1> QED
  BY <1>1, AfterRemovalKeeps DEF SaveRemoved

LEMMA SaveRoleKeeps ==
  ASSUME IInv, NEW r \in Requests, SaveRole(r) PROVE IInv'
<1>1. auth' \in Seq(Entry) /\ \A i \in DOMAIN auth' : EntryInv(auth'[i])
  BY CopyWritten DEF SaveRole
<1>2. {"lastReaders", "count"} \subseteq Labels
  BY DEF Labels
<1>3. Goto(r, "lastReaders") \/ Goto(r, "count") \/ End(r)
  BY DEF SaveRole
<1> QED
  BY <1>1, <1>2, <1>3, GotoKeeps, EndKeeps, StoresFine DEF SaveRole

LEMMA WithGroupToo ==
  ASSUME NEW e \in Entry, EntryInv(e), NEW g \in Groups, Shared(g, e.role)
  PROVE  /\ [e EXCEPT !.groups = @ \cup {g}] \in Entry
         /\ EntryInv([e EXCEPT !.groups = @ \cup {g}])
         /\ [e EXCEPT !.groups = @ \cup {g}].role = e.role
  BY DEF Entry, EntryInv

LEMMA ShareWithGroupKeeps ==
  ASSUME IInv, NEW r \in Requests, ShareWithGroup(r) PROVE IInv'
<1> DEFINE g == GroupOf(r)
<1>1. /\ g \in Groups /\ Shared(g, RoleOf(r)) /\ req[r].list \in Seq(Member)
      /\ ListInv(req[r].list, g) /\ {"readers", "saveRole"} \subseteq Labels /\ UNCHANGED stores
      /\ Op(r) = "SetGroupRole"
  BY CallFacts, HandlerFacts DEF ShareWithGroup, At, Shared, Op, GroupOf, RoleOf, Labels
<1>2. CASE Goto(r, "readers")
  BY <1>1, <1>2, GotoKeeps, StoresFine DEF stores
<1>3. CASE End(r)
  BY <1>1, <1>3, EndKeeps, StoresFine DEF stores
<1>4. ASSUME NEW i \in WithRole(RoleOf(r)),
             GotoWith(r, "saveRole", {[id |-> i, entry |->
                 Plus([auth[i] EXCEPT !.groups = @ \cup {g}], Writers(r))]})
      PROVE  IInv'
  <2> DEFINE e == [auth[i] EXCEPT !.groups = @ \cup {g}]
  <2>1. i \in Nat /\ auth[i] \in Entry /\ EntryInv(auth[i]) /\ auth[i].role = RoleOf(r)
    BY StoresFine DEF WithRole, Ids
  <2>2. e \in Entry /\ EntryInv(e) /\ e.role = RoleOf(r)
    BY <1>1, <2>1, WithGroupToo
  <2>3. Writers(r) \in Bag /\ \A u \in Users : Writers(r)[u] > 0 => Joined(u, g)
    BY <1>1, SharedBags DEF ListInv
  <2>4. \A u \in Users : Writers(r)[u] > 0 => Accounted(u, e.role)
    BY <1>1, <2>2, <2>3 DEF Accounted
  <2>5. GotoWith(r, "saveRole", {[id |-> i, entry |-> Plus(e, Writers(r))]})
    BY <1>4
  <2> HIDE DEF e
  <2>6. Plus(e, Writers(r)) \in Entry /\ EntryInv(Plus(e, Writers(r)))
    BY <2>2, <2>3, <2>4, PlusEntry
  <2> QED
    BY <1>1, <2>1, <2>5, <2>6, OneCopyKeeps
<1> QED
  BY <1>2, <1>3, <1>4 DEF ShareWithGroup

LEMMA InsertReadersKeeps ==
  ASSUME IInv, NEW r \in Requests, InsertReaders(r) PROVE IInv'
<1> DEFINE e == EntryOf("viewer", Readers(r), {GroupOf(r)})
<1>1. /\ GroupOf(r) \in Groups /\ Shared(GroupOf(r), "viewer")
      /\ req[r].list \in Seq(Member) /\ ListInv(req[r].list, GroupOf(r))
  BY CallFacts, HandlerFacts DEF InsertReaders, Shared, Op, GroupOf
<1>2. /\ Readers(r) \in Bag /\ \A u \in Users : Readers(r)[u] > 0 => Accounted(u, "viewer")
      /\ "viewer" \in RoleType
  BY <1>1, SharedBags DEF ListInv, Accounted, RoleType
<1>3. e \in Entry /\ EntryInv(e)
  BY <1>1, <1>2, NewEntry
<1> HIDE DEF e
<1>4. auth' \in Seq(Entry) /\ \A i \in DOMAIN auth' : EntryInv(auth'[i])
  <2>1. auth' = auth \/ auth' = Append(auth, e)
    BY DEF InsertReaders, e
  <2> QED
    BY <1>3, <2>1, EntryInserted, StoresFine
<1>5. "insertRole" \in Labels /\ (Goto(r, "insertRole") \/ End(r))
  BY DEF InsertReaders, Labels
<1> QED
  BY <1>4, <1>5, GotoKeeps, EndKeeps, StoresFine DEF InsertReaders

LEMMA InsertRoleKeeps ==
  ASSUME IInv, NEW r \in Requests, InsertRole(r) PROVE IInv'
<1> DEFINE e == EntryOf(RoleOf(r), Writers(r), {GroupOf(r)})
<1>1. /\ GroupOf(r) \in Groups /\ Shared(GroupOf(r), RoleOf(r)) /\ RoleOf(r) \in RoleType
      /\ req[r].list \in Seq(Member) /\ ListInv(req[r].list, GroupOf(r))
  BY CallFacts, HandlerFacts DEF InsertRole, At, Shared, Op, GroupOf, RoleOf
<1>2. Writers(r) \in Bag /\ \A u \in Users : Writers(r)[u] > 0 => Accounted(u, RoleOf(r))
  BY <1>1, SharedBags DEF ListInv, Accounted
<1>3. e \in Entry /\ EntryInv(e)
  BY <1>1, <1>2, NewEntry
<1> HIDE DEF e
<1>4. auth' \in Seq(Entry) /\ \A i \in DOMAIN auth' : EntryInv(auth'[i])
  <2>1. auth' = auth \/ auth' = Append(auth, e)
    BY DEF InsertRole, e
  <2> QED
    BY <1>3, <2>1, EntryInserted, StoresFine
<1> QED
  BY <1>4, EndKeeps, StoresFine DEF InsertRole

LEMMA InsertUserKeeps ==
  ASSUME IInv, NEW r \in Requests, InsertUser(r) PROVE IInv'
<1> DEFINE e == EntryOf(RoleOf(r), Once(UserOf(r)), {})
<1>1. /\ UserOf(r) \in Users /\ RoleOf(r) \in RoleType /\ Given(UserOf(r), RoleOf(r))
  BY CallFacts DEF InsertUser, At, Given, Op, UserOf, RoleOf
<1>2. e \in Entry /\ EntryInv(e)
  <2>1. \A v \in Users : Once(UserOf(r))[v] > 0 => v = UserOf(r)
    BY DEF Once
  <2> QED
    BY <1>1, <2>1, NewEntry, BagTypes DEF Accounted
<1>3. auth' = Append(auth, e)
  BY DEF InsertUser
<1> HIDE DEF e
<1> QED
  BY <1>2, <1>3, EntryInserted, EndKeeps, StoresFine DEF InsertUser

LEMMA ShareWithUserKeeps ==
  ASSUME IInv, NEW r \in Requests, ShareWithUser(r) PROVE IInv'
<1> DEFINE u == UserOf(r)
<1>1. /\ u \in Users /\ Given(u, RoleOf(r)) /\ {"insertUser", "saveRole"} \subseteq Labels
      /\ UNCHANGED stores
  BY CallFacts DEF ShareWithUser, At, Given, Op, UserOf, RoleOf, Labels
<1>2. CASE Goto(r, "insertUser")
  BY <1>1, <1>2, GotoKeeps, StoresFine DEF stores
<1>3. CASE End(r)
  BY <1>1, <1>3, EndKeeps, StoresFine DEF stores
<1>4. ASSUME NEW i \in WithRole(RoleOf(r)),
             GotoWith(r, "saveRole", {[id |-> i, entry |-> Plus(auth[i], Once(u))]})
      PROVE  IInv'
  <2>1. i \in Nat /\ auth[i] \in Entry /\ EntryInv(auth[i]) /\ auth[i].role = RoleOf(r)
    BY StoresFine DEF WithRole, Ids
  <2>2. Accounted(u, auth[i].role)
    BY <1>1, <2>1 DEF Accounted
  <2>3. /\ Plus(auth[i], Once(u)) \in Entry /\ EntryInv(Plus(auth[i], Once(u)))
        /\ Plus(auth[i], Once(u)).role = RoleOf(r)
    BY <1>1, <2>1, <2>2, PlusOne
  <2> QED
    BY <1>1, <1>4, <2>1, <2>3, OneCopyKeeps
<1> QED
  BY <1>2, <1>3, <1>4 DEF ShareWithUser

LEMMA CountGroupsKeeps ==
  ASSUME IInv, NEW r \in Requests, CountGroups(r) PROVE IInv'
<1> DEFINE u == UserOf(r)
<1>1. /\ u \in Users /\ Given(u, RoleOf(r)) /\ "saveAgain" \in Labels /\ UNCHANGED stores
      /\ Op(r) = "SetUserRole" /\ req[r].pc = "count"
  BY CallFacts DEF CountGroups, At, Given, Op, UserOf, RoleOf, Labels
<1>2. CASE End(r)
  BY <1>1, <1>2, EndKeeps, StoresFine DEF stores
<1>3. ASSUME NEW x \in req[r].copies,
             GotoWith(r, "saveAgain", {[x EXCEPT !.entry = Plus(@, Once(u))]})
      PROVE  IInv'
  <2>1. x \in Copy /\ x.id \in Nat /\ x.entry \in Entry /\ EntryInv(x.entry)
    BY HandlerFacts
  <2>2. x.entry.role = RoleOf(r)
    BY <1>1, HandlerFacts DEF HandlerInv, FoundRole, Op, RoleOf
  <2>3. Accounted(u, x.entry.role)
    BY <1>1, <2>2 DEF Accounted
  <2>4. Plus(x.entry, Once(u)) \in Entry /\ EntryInv(Plus(x.entry, Once(u)))
    BY <1>1, <2>1, <2>3, PlusOne
  <2>5. [x EXCEPT !.entry = Plus(@, Once(u))] = [id |-> x.id, entry |-> Plus(x.entry, Once(u))]
    BY <2>1 DEF Copy
  <2> QED
    BY <1>1, <1>3, <2>1, <2>4, <2>5, OneCopyKeeps
<1> QED
  BY <1>2, <1>3 DEF CountGroups

-----------------------------------------------------------------------------
LEMMA OtherKeeps ==
  ASSUME IInv, NEW r \in Requests, GroupNotFound(r) \/ DeleteGroup(r) \/ Crash(r)
  PROVE  IInv'
<1>1. CASE GroupNotFound(r)
  BY <1>1, EndKeeps, StoresFine DEF GroupNotFound, stores
<1>2. CASE DeleteGroup(r)
  BY <1>2, EndKeeps, StoresFine DEF DeleteGroup
<1>3. CASE Crash(r)
  BY <1>3, IdleHandler, StepKeeps, StoresFine DEF Crash, stores, IInv, TypeOK
<1> QED
  BY <1>1, <1>2, <1>3

LEMMA InitIInv == Init => IInv
<1> SUFFICES ASSUME Init PROVE IInv
  OBVIOUS
<1>1. members \in [Groups -> Seq(Member)] /\ \A g \in Groups : ListInv(members[g], g)
  <2> SUFFICES ASSUME NEW g \in Groups
               PROVE  Made(g) \in Seq(Member) /\ ListInv(Made(g), g)
    BY DEF Init
  <2> QED
    BY MadeMembers DEF ListInv, Joined
<1>2. EntryOf("owner", Nobody, {}) \in Entry /\ EntryInv(EntryOf("owner", Nobody, {}))
  <2>1. \A u \in Users : ~ (Nobody[u] > 0)
    BY DEF Nobody
  <2> QED
    BY <2>1, NewEntry, BagTypes DEF RoleType
<1>3. auth \in Seq(Entry) /\ \A i \in DOMAIN auth : EntryInv(auth[i])
  BY <1>2 DEF Init
<1>4. req \in [Requests -> Handler] /\ \A r \in Requests : HandlerInv(req[r])
  BY IdleHandler DEF Init
<1>5. alive \subseteq Groups /\ served \in 0..MaxServed /\ asked \subseteq Calls
  BY DEF Init
<1>6. overlapped \in BOOLEAN /\ died \in BOOLEAN
  BY DEF Init
<1>7. TypeOK
  BY <1>1, <1>3, <1>4, <1>5, <1>6 DEF TypeOK
<1> QED
  BY <1>1, <1>3, <1>4, <1>7 DEF IInv, Ids

LEMMA UnchangedIInv == IInv /\ UNCHANGED vars => IInv'
<1> SUFFICES ASSUME IInv, UNCHANGED vars PROVE IInv'
  OBVIOUS
<1>1. TypeOK'
  BY DEF IInv, TypeOK, vars
<1>2. /\ \A u, role : Accounted(u, role)' <=> Accounted(u, role)
      /\ \A u, g : Joined(u, g)' <=> Joined(u, g)
      /\ \A g, role : Shared(g, role)' <=> Shared(g, role)
  BY DEF vars, Accounted, Given, Joined, Shared
<1> QED
  BY <1>1, <1>2 DEF IInv, vars, Ids, ListInv, EntryInv, HandlerInv, FoundRole

LEMMA NextIInv == IInv /\ [Next]_vars => IInv'
<1> SUFFICES ASSUME IInv, Next PROVE IInv'
  BY UnchangedIInv
<1> PICK r \in Requests :
    \/ Arrive(r) \/ GroupNotFound(r) \/ AddMember(r) \/ UpdateMember(r) \/ SaveMember(r)
    \/ Push(r) \/ RemoveMember(r) \/ EditGroup(r) \/ ReadEntries(r) \/ TakeRole(r)
    \/ DropMember(r) \/ NewMembers(r) \/ DeleteGroup(r) \/ SetGroupRole(r)
    \/ RemoveGroupRole(r) \/ FindGroupEntry(r) \/ RemoveUserRole(r) \/ SaveRemoved(r)
    \/ ShareWithGroup(r) \/ InsertReaders(r) \/ InsertRole(r) \/ ShareWithUser(r)
    \/ SaveRole(r) \/ CountGroups(r) \/ InsertUser(r) \/ Crash(r)
  BY DEF Next
<1>1. CASE Arrive(r) \/ GroupNotFound(r) \/ DeleteGroup(r) \/ Crash(r)
  BY <1>1, ArriveKeeps, OtherKeeps
<1>2. CASE AddMember(r) \/ UpdateMember(r) \/ SaveMember(r) \/ Push(r)
  BY <1>2, AddMemberKeeps, UpdateMemberKeeps, SaveMemberKeeps, PushKeeps
<1>3. CASE \/ RemoveMember(r) \/ EditGroup(r) \/ ReadEntries(r) \/ TakeRole(r)
           \/ DropMember(r) \/ NewMembers(r)
  BY <1>3, RemoveMemberKeeps, EditGroupKeeps, ReadEntriesKeeps, TakeRoleKeeps,
     DropMemberKeeps, NewMembersKeeps
<1>4. CASE \/ SetGroupRole(r) \/ RemoveGroupRole(r) \/ FindGroupEntry(r)
           \/ RemoveUserRole(r) \/ SaveRemoved(r)
  BY <1>4, SetGroupRoleKeeps, RemoveGroupRoleKeeps, FindGroupEntryKeeps,
     RemoveUserRoleKeeps, SaveRemovedKeeps
<1>5. CASE \/ ShareWithGroup(r) \/ InsertReaders(r) \/ InsertRole(r) \/ ShareWithUser(r)
           \/ SaveRole(r) \/ CountGroups(r) \/ InsertUser(r)
  BY <1>5, ShareWithGroupKeeps, InsertReadersKeeps, InsertRoleKeeps, ShareWithUserKeeps,
     SaveRoleKeeps, CountGroupsKeeps, InsertUserKeeps
<1> QED
  BY <1>1, <1>2, <1>3, <1>4, <1>5

LEMMA Invariant == Spec => []IInv
  BY InitIInv, NextIInv, PTL DEF Spec

\* The roles, the members of the groups and what handlers hold keep their types through
\* every order of the store operations of routers/groups.py and routers/authorization.py,
\* whichever of them are cut off.
THEOREM TypeCorrect == Spec => []TypeOK
<1>1. IInv => TypeOK
  BY DEF IInv
<1> QED
  BY <1>1, Invariant, PTL

\* Whoever stands in an entry of a dataset has its role from a request that gave it to the
\* user, or to a group the user was a member of at some time: no order of the handlers'
\* store operations, no document written back late and no handler that dies gives a role
\* nobody asked for.
THEOREM RolesComeFromRequests == Spec => []RolesWereAsked
<1>1. IInv => RolesWereAsked
  BY DEF IInv, RolesWereAsked, EntryInv
<1> QED
  BY <1>1, Invariant, PTL

=============================================================================
