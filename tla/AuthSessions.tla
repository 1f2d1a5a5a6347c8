---------------------------- MODULE AuthSessions ----------------------------
(***************************************************************************)
(* Accounts, refresh sessions and mailed links: the /api/auth handlers of  *)
(* app/main.py, the flows of app/auth.py they call and the tables users,   *)
(* refresh_sessions and auth_action_tokens of app/db.py.  A request runs   *)
(* in a thread of the server's pool and is a sequence of transactions of   *)
(* its own; those of two requests interleave freely, and each may fail.    *)
(*                                                                         *)
(* Abstracted: a token is the id of the row that holds its hash, and a     *)
(* password hash is the password; last_used_at is left out.  A request     *)
(* whose token has no row, or whose access token has run out, changes      *)
(* nothing kept here and is left out.  Users are never deleted.            *)
(*                                                                         *)
(* Bounds: SessionIds and LinkIds (rows), MaxTime (clock), MaxAborts.      *)
(***************************************************************************)
EXTENDS Integers, FiniteSets

CONSTANTS
  Users, Passwords,
  SessionIds,            \* primary keys of refresh_sessions
  LinkIds,               \* primary keys of auth_action_tokens
  Requests,              \* threads that serve requests
  SessionTTL, LinkTTL,   \* REFRESH_TOKEN_EXPIRE_DAYS and the expiry of the links
  MaxTime, MaxAborts,
  None

ASSUME LifetimeAssumption ==
  SessionTTL \in Nat /\ LinkTTL \in Nat /\ MaxTime \in Nat /\ MaxAborts \in Nat

LinkTypes == {"email_verification", "password_reset"}

SessionRow == [user: Users, expires: Nat, revoked: BOOLEAN]
LinkRow    == [user: Users, type: LinkTypes, expires: Nat, consumed: BOOLEAN, mailed: BOOLEAN]
Replies    == [request: Requests, text: {"ok", "refused", "failed"}]

ASSUME NoneAssumption == None \notin SessionRow \cup LinkRow \cup Replies

(* A request and what it carries.  "session" is the session of the refresh   *)
(* token (refresh, logout) or of the access token (revoke, ask to verify).   *)
Calls ==
  [op: {"login"}, user: Users, password: Passwords]
    \cup [op: {"refresh", "logout", "ask_verification"}, session: SessionIds]
    \cup [op: {"revoke"}, session: SessionIds, target: SessionIds]
    \cup [op: {"ask_reset"}, user: Users]
    \cup [op: {"verify"}, link: LinkIds]
    \cup [op: {"reset"}, link: LinkIds, password: Passwords]

Steps == {"idle", "read_user", "read_session", "authorize", "close", "open", "retire",
          "issue", "mail", "read_link", "set_password", "mark_verified", "consume",
          "list", "close_listed"}

VARIABLES
  password,    \* users.password_hash
  verified,    \* users with email_verified_at set
  sessions,    \* table refresh_sessions: row of each primary key, or None
  links,       \* table auth_action_tokens, likewise
  pc, call,    \* per request: next transaction, what was asked
  reply,       \* the answer given in the last step, or None
  listed,      \* sessions a password reset has still to revoke
  aborts, now

tables == <<password, verified, sessions, links>>
vars   == <<tables, pc, call, reply, listed, aborts, now>>

-----------------------------------------------------------------------------
Opened == {s \in SessionIds : sessions[s] # None}
Issued == {l \in LinkIds : links[l] # None}
Mailed == {l \in Issued : links[l].mailed}

(* _is_session_active; a link is good while unconsumed and not expired. *)
Active(s) == ~sessions[s].revoked /\ now < sessions[s].expires
Good(l)   == ~links[l].consumed /\ now < links[l].expires

(* Whom the request is about. *)
UserOf(c) ==
  IF c.op \in {"login", "ask_reset"} THEN c.user
  ELSE IF c.op \in {"verify", "reset"} THEN links[c.link].user
  ELSE sessions[c.session].user
LinkType(c) ==
  IF c.op \in {"ask_verification", "verify"} THEN "email_verification" ELSE "password_reset"

FirstStep(c) ==
  CASE c.op = "login" -> "read_user"
    [] c.op \in {"refresh", "logout"} -> "read_session"
    [] c.op \in {"revoke", "ask_verification"} -> "authorize"
    [] c.op = "ask_reset" -> "retire"
    [] c.op \in {"verify", "reset"} -> "read_link"

(* Bounds: a request starts only if the row it may insert finds an id. *)
IdsLeft(c) ==
  LET running(ops) == Cardinality({r \in Requests : pc[r] # "idle" /\ call[r].op \in ops})
      opening == {"login", "refresh"}
      issuing == {"ask_reset", "ask_verification"}
  IN  /\ c.op \in opening => running(opening) < Cardinality(SessionIds \ Opened)
      /\ c.op \in issuing => running(issuing) < Cardinality(LinkIds \ Issued)

Init ==
  /\ password \in [Users -> Passwords] /\ verified = {}
  /\ sessions = [s \in SessionIds |-> None]
  /\ links = [l \in LinkIds |-> None]
  /\ pc = [r \in Requests |-> "idle"]
  /\ call = [r \in Requests |-> None]
  /\ reply = None
  /\ listed = [r \in Requests |-> {}]
  /\ aborts = 0 /\ now = 0

-----------------------------------------------------------------------------
Goto(r, step) == pc' = [pc EXCEPT ![r] = step] /\ reply' = None /\ UNCHANGED call
Answer(r, text) ==  \* the locals of the request are gone with it
  /\ pc' = [pc EXCEPT ![r] = "idle"] /\ reply' = [request |-> r, text |-> text]
  /\ call' = [call EXCEPT ![r] = None]

(* A client holds the refresh and access token of every session it opened and *)
(* the links that were mailed to it.                                          *)
Begin(r, c) ==
  /\ pc[r] = "idle" /\ IdsLeft(c)
  /\ "session" \in DOMAIN c => c.session \in Opened
  /\ "target" \in DOMAIN c => c.target \in Opened
  /\ "link" \in DOMAIN c => c.link \in Mailed /\ links[c.link].type = LinkType(c)
  /\ call' = [call EXCEPT ![r] = c]
  /\ pc' = [pc EXCEPT ![r] = FirstStep(c)]
  /\ reply' = None
  /\ UNCHANGED <<tables, listed, aborts, now>>

(* login: get_user_by_login, then the slow comparison of the hashes. *)
ReadUser(r) ==
  /\ pc[r] = "read_user"
  /\ IF password[call[r].user] = call[r].password
     THEN Goto(r, "open") ELSE Answer(r, "refused")
  /\ UNCHANGED <<tables, listed, aborts, now>>

\* Mutant: a refresh opens the new session and leaves the old one as it is.
ReadSessionKeepsOld(r) ==
  /\ pc[r] = "read_session"
  /\ IF call[r].op = "logout" THEN Goto(r, "close")
     ELSE IF Active(call[r].session) THEN Goto(r, "open") ELSE Answer(r, "refused")
  /\ UNCHANGED <<tables, listed, aborts, now>>

(* get_refresh_session_by_token_hash; logout does not look at the row. *)
ReadSession(r) ==
  /\ pc[r] = "read_session"
  /\ IF call[r].op = "logout" \/ Active(call[r].session)
     THEN Goto(r, "close") ELSE Answer(r, "refused")
  /\ UNCHANGED <<tables, listed, aborts, now>>

\* Mutant: the access token alone is enough.
AuthorizeUnchecked(r) ==
  /\ pc[r] = "authorize" /\ Goto(r, IF call[r].op = "revoke" THEN "close" ELSE "retire")
  /\ UNCHANGED <<tables, listed, aborts, now>>

(* get_current_auth_context. *)
Authorize(r) ==
  /\ pc[r] = "authorize"
  /\ IF Active(call[r].session)
     THEN Goto(r, IF call[r].op = "revoke" THEN "close" ELSE "retire")
     ELSE Answer(r, "refused")
  /\ UNCHANGED <<tables, listed, aborts, now>>

(* revoke_refresh_session, or revoke_refresh_session_for_user.  Only the      *)
(* latter tells its caller whether the session was still open.                *)
CloseSession(r) ==
  /\ pc[r] = "close"
  /\ LET c == call[r]
         s == IF c.op = "revoke" THEN c.target ELSE c.session
         hit == ~sessions[s].revoked /\ sessions[s].user = UserOf(c)
     IN  /\ sessions' = IF hit THEN [sessions EXCEPT ![s].revoked = TRUE] ELSE sessions
         /\ CASE c.op = "refresh" -> Goto(r, "open")
              [] c.op = "logout"  -> Answer(r, "ok")
              [] c.op = "revoke"  -> Answer(r, IF hit THEN "ok" ELSE "refused")
  /\ UNCHANGED <<password, verified, links, listed, aborts, now>>

\* Mutant: the lifetime is subtracted.
OpenExpiredSession(r) ==
  /\ pc[r] = "open" /\ Answer(r, "ok")
  /\ \E s \in SessionIds \ Opened :
       sessions' = [sessions EXCEPT ![s] =
         [user |-> UserOf(call[r]), expires |-> now - SessionTTL, revoked |-> FALSE]]
  /\ UNCHANGED <<password, verified, links, listed, aborts, now>>

(* build_auth_response: create_refresh_session and the answer. *)
OpenSession(r) ==
  /\ pc[r] = "open" /\ Answer(r, "ok")
  /\ \E s \in SessionIds \ Opened :
       sessions' = [sessions EXCEPT ![s] =
         [user |-> UserOf(call[r]), expires |-> now + SessionTTL, revoked |-> FALSE]]
  /\ UNCHANGED <<password, verified, links, listed, aborts, now>>

\* Mutant: revoke_auth_action_tokens is not called.
RetireNothing(r) ==
  /\ pc[r] = "retire" /\ Goto(r, "issue")
  /\ UNCHANGED <<tables, listed, aborts, now>>

(* revoke_auth_action_tokens: the user's earlier links of the type are spent. *)
RetireLinks(r) ==
  /\ pc[r] = "retire" /\ Goto(r, "issue")
  /\ links' = [l \in LinkIds |->
       IF l \in Issued /\ links[l].user = UserOf(call[r]) /\ links[l].type = LinkType(call[r])
       THEN [links[l] EXCEPT !.consumed = TRUE] ELSE links[l]]
  /\ UNCHANGED <<password, verified, sessions, listed, aborts, now>>

IssueLink(r) ==  \* create_auth_action_token
  /\ pc[r] = "issue" /\ Goto(r, "mail")
  /\ \E l \in LinkIds \ Issued :
       /\ links' = [links EXCEPT ![l] =
            [user |-> UserOf(call[r]), type |-> LinkType(call[r]), expires |-> now + LinkTTL,
             consumed |-> FALSE, mailed |-> FALSE]]
       /\ listed' = [listed EXCEPT ![r] = {l}]
  /\ UNCHANGED <<password, verified, sessions, aborts, now>>

SendMail(r) ==  \* mailer.send_email_verification, send_password_reset
  /\ pc[r] = "mail" /\ Answer(r, "ok")
  /\ links' = [l \in LinkIds |->
       IF l \in listed[r] THEN [links[l] EXCEPT !.mailed = TRUE] ELSE links[l]]
  /\ listed' = [listed EXCEPT ![r] = {}]
  /\ UNCHANGED <<password, verified, sessions, aborts, now>>

(* verify_email_token and reset_password_with_token. *)
ReadLink(r) ==
  /\ pc[r] = "read_link"
  /\ IF Good(call[r].link)
     THEN Goto(r, IF call[r].op = "verify" THEN "mark_verified" ELSE "set_password")
     ELSE Answer(r, "refused")
  /\ UNCHANGED <<tables, listed, aborts, now>>

MarkVerified(r) ==
  /\ pc[r] = "mark_verified" /\ Goto(r, "consume")
  /\ verified' = verified \cup {UserOf(call[r])}
  /\ UNCHANGED <<password, sessions, links, listed, aborts, now>>

SetPassword(r) ==
  /\ pc[r] = "set_password" /\ Goto(r, "consume")
  /\ password' = [password EXCEPT ![UserOf(call[r])] = call[r].password]
  /\ UNCHANGED <<verified, sessions, links, listed, aborts, now>>

ConsumeLink(r) ==
  /\ pc[r] = "consume"
  /\ links' = [links EXCEPT ![call[r].link].consumed = TRUE]
  /\ IF call[r].op = "verify" THEN Answer(r, "ok") ELSE Goto(r, "list")
  /\ UNCHANGED <<password, verified, sessions, listed, aborts, now>>

ListSessions(r) ==
  /\ pc[r] = "list" /\ Goto(r, "close_listed")
  /\ listed' = [listed EXCEPT ![r] =
       {s \in Opened : sessions[s].user = UserOf(call[r]) /\ ~sessions[s].revoked}]
  /\ UNCHANGED <<tables, aborts, now>>

\* Mutant: the loop ends after the first session it closes.
CloseFirstListed(r) ==
  /\ pc[r] = "close_listed" /\ Answer(r, "ok")
  /\ sessions' = IF listed[r] = {} THEN sessions
                 ELSE [sessions EXCEPT ![CHOOSE s \in listed[r] : TRUE].revoked = TRUE]
  /\ listed' = [listed EXCEPT ![r] = {}]
  /\ UNCHANGED <<password, verified, links, aborts, now>>

(* The code goes newest first; nothing here depends on the order. *)
CloseListed(r) ==
  /\ pc[r] = "close_listed"
  /\ IF listed[r] = {}
     THEN Answer(r, "ok") /\ UNCHANGED <<sessions, listed>>
     ELSE /\ \E s \in listed[r] :
               /\ sessions' = [sessions EXCEPT ![s].revoked = TRUE]
               /\ listed' = [listed EXCEPT ![r] = @ \ {s}]
          /\ Goto(r, "close_listed")
  /\ UNCHANGED <<password, verified, links, aborts, now>>

(* A database or mail error, or a restart: what was committed stays. *)
Abort(r) ==
  /\ pc[r] # "idle" /\ aborts < MaxAborts
  /\ Answer(r, "failed")
  /\ listed' = [listed EXCEPT ![r] = {}]
  /\ aborts' = aborts + 1
  /\ UNCHANGED <<tables, now>>

Tick ==
  /\ now < MaxTime /\ now' = now + 1 /\ reply' = None
  /\ UNCHANGED <<tables, pc, call, listed, aborts>>

RequestStep(r) ==
  \/ ReadUser(r) \/ ReadSession(r) \/ Authorize(r) \/ CloseSession(r) \/ OpenSession(r)
  \/ RetireLinks(r) \/ IssueLink(r) \/ SendMail(r)
  \/ ReadLink(r) \/ MarkVerified(r) \/ SetPassword(r) \/ ConsumeLink(r)
  \/ ListSessions(r) \/ CloseListed(r)

Next ==
  \/ \E r \in Requests : (\E c \in Calls : Begin(r, c)) \/ RequestStep(r) \/ Abort(r)
  \/ Tick

Spec == Init /\ [][Next]_vars

-----------------------------------------------------------------------------
TypeOK ==
  /\ password \in [Users -> Passwords] /\ verified \subseteq Users
  /\ sessions \in [SessionIds -> SessionRow \cup {None}]
  /\ links \in [LinkIds -> LinkRow \cup {None}]
  /\ pc \in [Requests -> Steps]
  /\ call \in [Requests -> Calls \cup {None}]
  /\ reply \in Replies \cup {None}
  /\ listed \in [Requests -> SUBSET (SessionIds \cup LinkIds)]
  /\ aborts \in 0..MaxAborts /\ now \in 0..MaxTime
=============================================================================
