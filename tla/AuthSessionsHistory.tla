------------------------ MODULE AuthSessionsHistory ------------------------
(***************************************************************************)
(* AuthSessions watched by an observer that remembers which session each   *)
(* session was refreshed from and what every request could have known when *)
(* it began.  Every step is a step of AuthSessions.                        *)
(***************************************************************************)
EXTENDS AuthSessions

VARIABLES
  parent,   \* the session a session was refreshed from, or None
  begun     \* per request: what it found when it began, or None

hvars == <<vars, parent, begun>>

(* Whether the session or link the request carries no longer counts, and the *)
(* sessions and links there are of the user it is about.                     *)
Snapshot(c) ==
  [stale  |-> \/ "session" \in DOMAIN c /\ ~Active(c.session)
              \/ "link" \in DOMAIN c /\ ~Good(c.link),
   opened |-> {s \in Opened : c.op = "reset" /\ sessions[s].user = UserOf(c)},
   issued |-> {l \in Issued : /\ c.op \in {"ask_reset", "ask_verification"}
                              /\ links[l].user = UserOf(c) /\ links[l].type = LinkType(c)}]

HInit ==
  /\ Init
  /\ parent = [s \in SessionIds |-> None]
  /\ begun = [r \in Requests |-> None]

HNext ==
  /\ Next
  /\ parent' = [s \in SessionIds |->
       IF s \in Opened' \ Opened
       THEN LET r == CHOOSE r \in Requests : pc[r] = "open" /\ pc'[r] = "idle"
            IN  IF call[r].op = "refresh" THEN call[r].session ELSE None
       ELSE parent[s]]
  /\ begun' = [r \in Requests |->
       IF pc'[r] = "idle" THEN None
       ELSE IF pc[r] = "idle" THEN Snapshot(call'[r]) ELSE begun[r]]

HSpec == HInit /\ [][HNext]_hvars

(* This step answers a request of one of these kinds, with success. *)
Succeeds(r, ops) ==
  /\ reply' = [request |-> r, text |-> "ok"] /\ pc[r] # "idle" /\ call[r].op \in ops

(* Refreshing replaces a session: at no moment, whatever fails in between, are *)
(* a session and one refreshed from it both open (refresh_auth_response).      *)
RotatedIsClosed ==
  \A s \in Opened : parent[s] # None => sessions[parent[s]].revoked

(* A request that began after its session was closed or had expired, or after  *)
(* its link was spent or had expired, does not succeed, whatever runs beside it *)
(* (only logout takes a closed session).                                        *)
StaleIsRefused ==
  [][\A r \in Requests :
       Succeeds(r, {"refresh", "revoke", "ask_verification", "verify", "reset"})
         => ~begun[r].stale]_hvars

(* When a password reset answers, every session its user had when it began is *)
(* closed (reset_password_with_token).                                        *)
ResetClosesSessions ==
  [][\A r \in Requests : Succeeds(r, {"reset"}) =>
       \A s \in begun[r].opened : sessions'[s].revoked]_hvars

(* When a request for a link answers, the links of its kind that the user had *)
(* when it began are spent or expired (create_email_verification,             *)
(* create_password_reset).                                                    *)
EarlierLinksAreSpent ==
  [][\A r \in Requests : Succeeds(r, {"ask_reset", "ask_verification"}) =>
       \A l \in begun[r].issued : ~Good(l)']_hvars

(* README.md:42, "session rotation": a session is refreshed into one other.  *)
RotationIsOneToOne ==
  \A s, t \in Opened : parent[s] # None /\ parent[s] = parent[t] => s = t
=============================================================================
