---------------------------- MODULE VersionList ----------------------------
(***************************************************************************)
(* What a user of dataset versioning may rely on, however the handlers     *)
(* interleave: a released version gets the number 1 or the number after    *)
(* one that was given before, and keeps it; a version that was deleted is  *)
(* never offered as released again.                                        *)
(***************************************************************************)
EXTENDS Naturals

CONSTANT Ids  \* released versions

VARIABLES
    number,   \* the number each version was given, 0 before it is released
    state     \* how the version is listed

States == {"absent", "released", "deleted"}

Init == /\ number = [i \in Ids |-> 0]
        /\ state = [i \in Ids |-> "absent"]

\* The number after one given before: the last one, unless releases overlap, which may
\* then get the same
Release(i) ==
    /\ number[i] = 0
    /\ \E k \in {number[j] + 1 : j \in Ids} : number' = [number EXCEPT ![i] = k]
    /\ state' = [state EXCEPT ![i] = "released"]

\* Delete one version; it stays in the list, marked
Withdraw(i) ==
    /\ number[i] # 0
    /\ state' = [state EXCEPT ![i] = "deleted"]
    /\ UNCHANGED number

\* The dataset goes and takes its versions with it
Erase(i) ==
    /\ number[i] # 0
    /\ state' = [state EXCEPT ![i] = "absent"]
    /\ UNCHANGED number

Next == \E i \in Ids : Release(i) \/ Withdraw(i) \/ Erase(i)

Spec == Init /\ [][Next]_<<number, state>>

=============================================================================
