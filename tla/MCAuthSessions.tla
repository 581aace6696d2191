--------------------------- MODULE MCAuthSessions ---------------------------
(* Instances of AuthSessions for TLC. *)
EXTENDS AuthSessions, TLC

(* Ids and handlers are interchangeable. *)
Interchangeable ==
    Permutations(Requests) \cup Permutations(Sessions) \cup Permutations(Tokens)
=============================================================================
