----------------------------- MODULE MCListings -----------------------------
(* Two stores of one organization and one of another. *)
EXTENDS Listings, TLC

CONSTANTS o1, o2, s1, s2, s3

MCOrgOf == (s1 :> o1) @@ (s2 :> o1) @@ (s3 :> o2)

(* A change of a product by one of its sellers, and an attempt of somebody *)
(* unknown to log in: no column of the two is alike.                       *)
MCEvents ==
    {[user |-> "seller", membership |-> "member", type |-> "changed", outcome |-> "SUCCESS",
      entityType |-> "product", entity |-> "item"],
     [user |-> Unset, membership |-> Unset, type |-> "login", outcome |-> "FAILURE",
      entityType |-> Unset, entity |-> Unset]}

Plain == [name |-> 1, kind |-> Unset, stock |-> NoStock, expires |-> 0, event |-> NoEvent]
Named(n) == [Plain EXCEPT !.name = n]
Kind(n, k) == [Named(n) EXCEPT !.kind = k]
Stocked(n, k) == [Kind(n, k) EXCEPT !.stock = 1]

(* The rows of a list differ in every column a clause of it looks at.      *)
MCContents ==
    [l \in Lists |->
        CASE l = "sales" -> {Plain}
          [] l = "audit" -> {[Plain EXCEPT !.event = e] : e \in Events}
          [] l \in {"members", "stores", "categories"} -> {Named(1), Named(2)}
          [] l = "movements" -> {Kind(1, 1), Kind(1, 2), Kind(2, 1)}
          [] l = "invitations" -> {[Named(n) EXCEPT !.expires = n] : n \in 1..2}
          [] l = "products" -> {Kind(1, Unset), Kind(2, 1)}
          [] l = "catalog" -> {Kind(1, 1), Stocked(2, Unset)}
          [] l = "inventory" -> {Named(1), Stocked(1, Unset), Stocked(2, Unset)}]

(* The client acts in the first store: the stores of an organization, and  *)
(* the organizations, are alike.                                           *)
ClientOfFirst == walk.q.org = o1 /\ walk.q.store \in {Unset, s1}

(* Every filter is tried on every table, by TotalIsComplete.  A walk, which*)
(* a filter can only make shorter, is followed to its end with some.       *)
Few ==
    /\ walk.q.kind = Unset /\ walk.q.event = NoEvent
    /\ list \in {"invitations", "products", "catalog"} => walk.q.search = Unset
    /\ list = "invitations" => walk.q.from = Unset /\ walk.q.to = Unset

(* Pages of one are read where a walk misses nothing: in the audit trail,  *)
(* and in the unfiltered members and invitations.                          *)
Unfiltered == walk.q = [NoFilter EXCEPT !.org = walk.q.org]

Short ==
    list = "audit" \/ walk.size = 2 \/ (list \in {"members", "invitations"} /\ Unfiltered)

Bounds == walk.pc = "idle" \/ (ClientOfFirst /\ Short /\ Few)
=============================================================================
