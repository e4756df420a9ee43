--------------------------- MODULE TokenSessions ----------------------------
(***************************************************************************)
(* What rotating refresh tokens promises, for agencies (AuthSessions) and  *)
(* tenants (TenantAuth) alike, without database calls, expiry or whatever  *)
(* lets a party in.  An exchange is one request under way.  It may be      *)
(* shown a token some client holds and that is not revoked; it issues at   *)
(* most one token, to the same party; and it answers only when the token   *)
(* it was shown is revoked, with a token nobody else has been given.       *)
(***************************************************************************)
CONSTANTS Token, Party, Exchange, None

VARIABLES
    owner,     \* whom a token is for; None while there is no such token
    revoked,
    parent,    \* the token it was issued in exchange for, None for a log-in
    held,      \* tokens some client was answered with
    old, new   \* of each exchange: the token shown to it, the one it issued

sessions == <<owner, revoked, parent, held, old, new>>

Init == /\ owner = [k \in Token |-> None]
        /\ revoked = [k \in Token |-> FALSE]
        /\ parent = [k \in Token |-> None]
        /\ held = {}
        /\ old = [x \in Exchange |-> None]
        /\ new = [x \in Exchange |-> None]

Present(x, k) ==
    /\ old[x] = None /\ new[x] = None
    /\ k \in held /\ ~revoked[k]
    /\ old' = [old EXCEPT ![x] = k]
    /\ UNCHANGED <<owner, revoked, parent, held, new>>

Issue(x, k, u) ==
    /\ new[x] = None
    /\ owner[k] = None
    /\ old[x] # None => u = owner[old[x]]
    /\ owner' = [owner EXCEPT ![k] = u]
    /\ parent' = [parent EXCEPT ![k] = old[x]]
    /\ new' = [new EXCEPT ![x] = k]
    /\ UNCHANGED <<revoked, held, old>>

(* By a rotation or a logout.                                              *)
Revoke(k) ==
    /\ k \in held
    /\ revoked' = [revoked EXCEPT ![k] = TRUE]
    /\ UNCHANGED <<owner, parent, held, old, new>>

Close(x) == /\ old' = [old EXCEPT ![x] = None]
            /\ new' = [new EXCEPT ![x] = None]

Answer(x) ==
    /\ new[x] # None /\ new[x] \notin held
    /\ old[x] # None => revoked[old[x]]
    /\ held' = held \cup {new[x]}
    /\ Close(x)
    /\ UNCHANGED <<owner, revoked, parent>>

Abandon(x) == Close(x) /\ UNCHANGED <<owner, revoked, parent, held>>

Next == \/ \E k \in Token : Revoke(k)
        \/ \E x \in Exchange :
              \/ Answer(x) \/ Abandon(x)
              \/ \E k \in Token : Present(x, k) \/ \E u \in Party : Issue(x, k, u)

Spec == Init /\ [][Next]_sessions
=============================================================================
