---------------------------- MODULE MCStoreDesk ----------------------------
(* Instances of StoreDesk for TLC. *)
EXTENDS StoreDesk, TLC

Symmetric == Permutations(Requests) \cup Permutations(Keys) \cup Permutations(Codes)

Running == {req[r].op : r \in {q \in Requests : req[q].pc # "idle"}}

MethodsAsBegun ==
    \A m \in Methods : /\ method[m] = IF m \in Started THEN "ON" ELSE "NONE"
                       /\ \A s \in Founded : binding[s][m] = method[m]

(* One subject at a time: the stores, the payment methods and new stores,  *)
(* or the sales of the stores there are.                                   *)
OneSubject ==
    \/ Running \subseteq {"status", "update", "create"} /\ MethodsAsBegun /\ sales = {}
    \/ Running \subseteq {"status", "create", "method", "replace", "bind"} /\ sales = {}
    \/ Running \subseteq {"status", "sale"} /\ MethodsAsBegun
          /\ \A s \in Stores \ Founded : store[s] = "NONE"
=============================================================================
