SPECIFICATION Spec
CONSTANTS
    a = a
    c = c
    Users = {a, c}
    ReadOnly = {c}
    Groups = {g1, g2}
    Creator <- TheCreator
    Invited <- NoneInvited
    NewLists <- SomeLists
    Roles = {"viewer", "editor"}
    Requests = {r1, r2}
    MaxServed = 3
SYMMETRY Symmetry
CHECK_DEADLOCK FALSE
INVARIANTS
    TypeOK
    NoRoleBeyondGroups
    MembersHaveRole
    RolesWereAsked
