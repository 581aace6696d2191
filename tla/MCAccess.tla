------------------------------ MODULE MCAccess ------------------------------
(* One owner, one other member and a manager who may pass on one scope of  *)
(* the store but not the other.                                            *)
EXTENDS Access

Role(level, scopes, mutable) ==
    [there |-> TRUE, level |-> level, scopes |-> scopes, active |-> TRUE, mutable |-> mutable]
NoRole == [there |-> FALSE, level |-> "ORGANIZATION", scopes |-> {}, active |-> FALSE, mutable |-> TRUE]

MCOrganizationScopes == {"manage", "owners"}
MCStoreScopes == {"sell", "read"}

MCRoles ==
    [r \in Roles |->
        CASE r = "owner" -> Role("ORGANIZATION", Scopes, FALSE)
          [] r = "manager" -> Role("ORGANIZATION", {"manage", "read"}, FALSE)
          [] r = "clerk" -> Role("STORE", {"read"}, TRUE)
          [] r = "helper" -> NoRole]

MCBindings ==
    [m \in Members |-> [b \in Roles \X Places |->
        IF \/ b[2] = None /\ <<m, b[1]>> \in {<<"ana", "owner">>, <<"bia", "manager">>}
           \/ b[2] # None /\ <<m, b[1]>> = <<"eva", "clerk">>
          THEN Never ELSE 0]]

(* What is asked of roles.Service while tokens are made: the clerk role of *)
(* eva is given, taken away, runs out, and changes.                        *)
TokenRequests ==
    {Assignment("ana", "eva", "clerk", s, until) : s \in Stores, until \in {1, Never}}
        \cup {Removal("ana", "eva", "clerk", s) : s \in Stores}
        \cup {Update("ana", "clerk", {"sell"}, FALSE), Status("ana", "clerk", FALSE)}

(* Two members with different powers make, change and assign two roles. *)
GrantRequests ==
    {Update(a, "clerk", {"sell", "read"}, FALSE) : a \in {"ana", "bia"}}
        \cup {Status("ana", "clerk", FALSE), Status("bia", "clerk", TRUE)}
        \cup {Creation(a, "helper", "ORGANIZATION", {"sell"}) : a \in {"ana", "bia"}}
        \cup {Creation("bia", "helper", "ORGANIZATION", {"manage", "read"}),
              Creation("ana", "helper", "STORE", {"manage"})}
        \cup {Assignment("bia", "eva", r, None, Never) : r \in {"helper", "owner"}}
        \cup {Assignment("ana", "bia", "helper", None, Never)}
        \cup {Assignment(a, "bia", "clerk", s, Never) : a \in {"ana", "bia"}, s \in Stores}
        \cup {Removal("bia", "eva", "clerk", s) : s \in Stores}

(* One subject at a time.  Either nobody logs in, time stands still and    *)
(* the store and the organization stay active, or one handler of           *)
(* roles.Service changes what the clerk eva has while eva uses a session,  *)
(* or eva, the store or the organization is out of use.                    *)
Grants ==
    /\ now = 0 /\ organization.active /\ \A x \in Stores : store[x]
    /\ \A s \in Sessions : session[s].status = "NONE"
    /\ \A h \in ClientHandlers : req[h].pc = "idle"
    /\ \A h \in RoleHandlers : req[h].until # 1
    /\ \A b \in DOMAIN binding["eva"] : binding["eva"][b] # 1

Tokens ==
    /\ member["bia"] = [status |-> "ACTIVE", version |-> 1]
    /\ \A m \in {"ana", "bia"} : binding[m] = FirstBindings[m]
    /\ \A r \in Roles \ {"clerk"} : role[r] = FirstRoles[r]
    /\ role["clerk"].scopes \in {{"read"}, {"sell"}}
    /\ organization.version + member["eva"].version <= 3
    /\ req["h3"].pc = "idle"
    /\ Cardinality({h \in RoleHandlers : req[h].pc # "idle"} \cup {x \in Stores : ~store[x]}
           \cup {m \in Members : member[m].status # "ACTIVE"} \cup {o \in {None} : ~organization.active}) <= 1
    /\ \A h \in RoleHandlers : req[h].pc # "idle" =>
          /\ organization.version = 1 /\ member["eva"].version = 1
          /\ req[h].actor = "ana" /\ req[h].role = "clerk" /\ req[h].target \in {"eva", None}
          /\ req[h].op = "update" => req[h].want = {"sell"}
          /\ req[h].op = "status" => ~req[h].flag

OneSubject == Grants \/ Tokens

MCRequests == TokenRequests \cup GrantRequests
=============================================================================
