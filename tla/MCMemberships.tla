---------------------------- MODULE MCMemberships ----------------------------
(* Instances of Memberships for TLC. *)
EXTENDS Memberships, TLC

(* Ids, users and handlers are interchangeable. *)
Interchangeable ==
    Permutations(Members) \cup Permutations(Users) \cup Permutations(Invitations)
        \cup Permutations(Requests)
==============================================================================
