---------------------------- MODULE SaleRegister ----------------------------
(***************************************************************************)
(* What POST /sales promises about idempotency keys and sale numbers: the  *)
(* first request with a key opens a sale with a number that no other sale  *)
(* of the store has, and every request with that key, then or later, is    *)
(* answered with that sale.  StoreDesk implements it statement by          *)
(* statement.                                                              *)
(***************************************************************************)
CONSTANTS Stores, Keys, Numbers

VARIABLES
    opened,     \* <<store, key, number>> of every sale
    answers     \* <<store, key, number>> of every answer given

Open(s, k, n) ==
    /\ \A m \in Numbers : <<s, k, m>> \notin opened
    /\ \A j \in Keys : <<s, j, n>> \notin opened
    /\ opened' = opened \cup {<<s, k, n>>}
    /\ answers' = answers \cup {<<s, k, n>>}

Repeat(s, k, n) ==
    /\ <<s, k, n>> \in opened
    /\ answers' = answers \cup {<<s, k, n>>}
    /\ UNCHANGED opened

Init == opened = {} /\ answers = {}

Next == \E s \in Stores, k \in Keys, n \in Numbers : Open(s, k, n) \/ Repeat(s, k, n)

Spec == Init /\ [][Next]_<<opened, answers>>
=============================================================================
