----------------------------- MODULE MCAccounts -----------------------------
(* An instance of Accounts for TLC.  Tokens last for one tick of the clock. *)
EXTENDS Accounts, TLC

MCTTL == [p \in Purposes |-> 1]

Symmetric == Permutations(Tokens) \cup Permutations(Requests)

(* One subject at a time: the tokens and the password of the first user,   *)
(* whose address must be verified, or, with and without that, two users    *)
(* and one request at a time before any mail arrives or password changes.  *)
First(S) == CHOOSE x \in S : TRUE

OneUser ==
    /\ requireVerifiedEmail
    /\ \A u \in Users : users[u].there =>
          u = First(Users) /\ users[u].email.box = First(Boxes) /\ users[u].name = First(Names)
    /\ \A slug \in Slugs : organizations[slug] # None => slug = First(Slugs)

OneRequest ==
    /\ Cardinality({r \in Requests : req[r].pc # "idle"}) <= 1
    /\ mailbox = {} /\ clock = 0
    /\ \A u \in Users : users[u].version = 0 /\ users[u].status = "ACTIVE"
    /\ Cardinality({t \in Tokens : tokens[t].there}) <= 2

OneSubject == OneUser \/ OneRequest
=============================================================================
