---------------------------- MODULE MCCatalogue ----------------------------
(* An instance of Catalogue for TLC. *)
EXTENDS Catalogue, TLC

(* Three names with one slug or none, and one of its own. *)
SmallNames == {<<"A">>, <<"a", "!">>, <<"!">>, <<"b", " ", "a">>}

Symmetric == Permutations(Requests) \cup Permutations(Orgs) \cup Permutations(Skus)
             \cup Permutations(ProductIds) \cup Permutations(Categories)

Running == {req[r].op : r \in {q \in Requests : req[q].pc # "idle"}}

(* One subject at a time: the products, with a category that stays as it   *)
(* is, or the categories.                                                  *)
OneSubject ==
    \/ /\ Running \subseteq {"create", "update", "activate", "deactivate"}
       /\ \A c \in Categories :
             category[c] # NoCategory => category[c].name = <<"A">> /\ category[c].active
       /\ \E c \in Categories : /\ category[c] # NoCategory
                                /\ \A d \in Categories \ {c} : category[d] = NoCategory
                                /\ \A r \in Requests : req[r].category \in {None, c}
    \/ /\ Running \subseteq {"categorize", "recategorize", "open", "close"}
       /\ \A p \in ProductIds : products[p] = NoProduct
=============================================================================
