--------------------------- MODULE MCAuthSessions ---------------------------
(* Instances of AuthSessionsHistory for TLC. *)
EXTENDS AuthSessionsHistory, TLC

Interchangeable ==
  Permutations(Users) \cup Permutations(Passwords) \cup Permutations(Requests)
    \cup Permutations(SessionIds) \cup Permutations(LinkIds)
=============================================================================
