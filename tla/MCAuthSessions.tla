--------------------------- MODULE MCAuthSessions ---------------------------
(***************************************************************************)
(* AuthSessions for TLC: handlers, tokens and users are interchangeable.   *)
(***************************************************************************)
EXTENDS AuthSessions, TLC

Symmetric == Permutations(Handler) \cup Permutations(Token) \cup Permutations(User)
=============================================================================
