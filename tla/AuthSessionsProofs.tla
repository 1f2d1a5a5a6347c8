------------------------- MODULE AuthSessionsProofs -------------------------
(***************************************************************************)
(* Theorems about AuthSessions and its observer, for any users, passwords, *)
(* requests, rows, lifetimes and number of failures.                       *)
(***************************************************************************)
EXTENDS AuthSessionsHistory, TLAPS

WithSession == {"refresh", "logout", "ask_verification", "revoke"}
WithLink    == {"verify", "reset"}
Asking      == {"ask_reset", "ask_verification"}

(* Which requests are at which step. *)
OpsAt(step) ==
  CASE step = "read_user"     -> {"login"}
    [] step = "read_session"  -> {"refresh", "logout"}
    [] step = "authorize"     -> {"revoke", "ask_verification"}
    [] step = "close"         -> {"refresh", "logout", "revoke"}
    [] step = "open"          -> {"login", "refresh"}
    [] step \in {"retire", "issue", "mail"} -> Asking
    [] step \in {"read_link", "consume"}    -> WithLink
    [] step = "mark_verified" -> {"verify"}
    [] step \in {"set_password", "list", "close_listed"} -> {"reset"}

(* The rows a request refers to are there, and stay. *)
References(c) ==
  /\ c.op \in WithSession => c.session \in Opened
  /\ c.op = "revoke" => c.target \in Opened
  /\ c.op \in WithLink => c.link \in Issued /\ links[c.link].type = LinkType(c)

StepInv ==
  \A r \in Requests : pc[r] # "idle" =>
    /\ call[r] \in Calls /\ call[r].op \in OpsAt(pc[r]) /\ References(call[r])
    /\ pc[r] = "mail" => listed[r] \subseteq Issued
    /\ pc[r] = "close_listed" => listed[r] \subseteq Opened

(* A refresh opens its session after it has closed the old one. *)
RotationInv ==
  /\ \A r \in Requests : pc[r] = "open" /\ call[r].op = "refresh" => sessions[call[r].session].revoked
  /\ \A s \in Opened : parent[s] # None => parent[s] \in Opened /\ sessions[parent[s]].revoked

(* A request that was stale from the start stays so, before the step that looks. *)
StaleInv ==
  \A r \in Requests : pc[r] # "idle" /\ begun[r].stale =>
    /\ call[r].op \in WithSession \ {"logout"} => pc[r] = FirstStep(call[r]) /\ ~Active(call[r].session)
    /\ call[r].op \in WithLink => pc[r] = FirstStep(call[r]) /\ ~Good(call[r].link)

(* What a reset found open is revoked or still listed; what a new link found  *)
(* issued is spent from the second step on.                                   *)
ResetInv ==
  \A r \in Requests : pc[r] # "idle" /\ call[r].op = "reset" =>
    \A s \in begun[r].opened :
      /\ s \in Opened /\ sessions[s].user = UserOf(call[r])
      /\ pc[r] = "close_listed" => sessions[s].revoked \/ s \in listed[r]

SpentInv ==
  \A r \in Requests : pc[r] # "idle" /\ call[r].op \in Asking =>
    \A l \in begun[r].issued :
      /\ l \in Issued /\ links[l].user = UserOf(call[r]) /\ links[l].type = LinkType(call[r])
      /\ pc[r] \in {"issue", "mail"} => links[l].consumed

(* The inductive invariant. *)
IInv == TypeOK /\ StepInv /\ RotationInv /\ StaleInv /\ ResetInv /\ SpentInv

-----------------------------------------------------------------------------
(* Calls, rows and answers. *)

LEMMA CallFacts ==
  ASSUME NEW c \in Calls
  PROVE  /\ c.op \in {"login", "ask_reset"} \cup WithSession \cup WithLink
         /\ c.op \in {"login", "ask_reset"} => c.user \in Users
         /\ c.op \in {"login", "reset"} => c.password \in Passwords
         /\ c.op \in WithSession => c.session \in SessionIds /\ "session" \in DOMAIN c /\ "link" \notin DOMAIN c
         /\ c.op \in WithLink => c.link \in LinkIds /\ "link" \in DOMAIN c /\ "session" \notin DOMAIN c
         /\ c.op = "revoke" => c.target \in SessionIds /\ "target" \in DOMAIN c
BY DEF Calls, WithSession, WithLink

(* A row that is there has a user, and is closed by nothing but a revocation. *)
LEMMA RowFacts ==
  ASSUME TypeOK
  PROVE  /\ \A s \in SessionIds : s \in Opened <=> sessions[s] \in SessionRow
         /\ \A l \in LinkIds : l \in Issued <=> links[l] \in LinkRow
         /\ \A s \in Opened : s \in SessionIds /\ sessions[s].user \in Users
         /\ \A l \in Issued : l \in LinkIds /\ links[l].user \in Users
BY NoneAssumption DEF TypeOK, Opened, Issued, SessionRow, LinkRow

LEMMA UserType ==
  ASSUME TypeOK, NEW c \in Calls, References(c)
  PROVE  UserOf(c) \in Users /\ LinkType(c) \in LinkTypes
<1>1. LinkType(c) \in LinkTypes
  BY DEF LinkType, LinkTypes
<1>2. UserOf(c) \in Users
  BY CallFacts, RowFacts DEF References, UserOf, WithSession, WithLink
<1> QED  BY <1>1, <1>2

(* What a step of request r leaves alone. *)
Others(r) ==
  \A q \in Requests \ {r} : pc'[q] = pc[q] /\ call'[q] = call[q] /\ listed'[q] = listed[q]

LEMMA GotoFacts ==
  ASSUME TypeOK, NEW r \in Requests, NEW step, Goto(r, step)
  PROVE  /\ pc'[r] = step /\ reply' = None /\ call' = call
         /\ \A q \in Requests \ {r} : pc'[q] = pc[q] /\ call'[q] = call[q]
         /\ step \in Steps => pc' \in [Requests -> Steps]
BY DEF TypeOK, Goto

LEMMA AnswerFacts ==
  ASSUME TypeOK, NEW r \in Requests, NEW text, Answer(r, text)
  PROVE  /\ pc'[r] = "idle" /\ reply' = [request |-> r, text |-> text]
         /\ \A q \in Requests \ {r} : pc'[q] = pc[q] /\ call'[q] = call[q]
         /\ pc' \in [Requests -> Steps] /\ call' \in [Requests -> Calls \cup {None}]
         /\ text \in {"ok", "refused", "failed"} => reply' \in Replies
BY DEF TypeOK, Answer, Steps, Replies

(* A request goes on to its next step, or it is answered and gone. *)
Goes(r, from, ops, to) ==
  /\ pc[r] = from /\ call[r].op \in ops /\ pc'[r] = to /\ call' = call /\ reply' = None
Ends(r, from, text) ==
  /\ pc[r] = from /\ pc'[r] = "idle" /\ reply' = [request |-> r, text |-> text]

Progress(r) ==
  \/ Goes(r, "read_user", {"login"}, "open")
  \/ Goes(r, "read_session", {"refresh", "logout"}, "close")
  \/ Goes(r, "authorize", {"revoke"}, "close")
  \/ Goes(r, "authorize", {"ask_verification"}, "retire")
  \/ Goes(r, "close", {"refresh"}, "open")
  \/ Goes(r, "retire", Asking, "issue")
  \/ Goes(r, "issue", Asking, "mail")
  \/ Goes(r, "read_link", {"verify"}, "mark_verified")
  \/ Goes(r, "read_link", {"reset"}, "set_password")
  \/ Goes(r, "mark_verified", {"verify"}, "consume")
  \/ Goes(r, "set_password", {"reset"}, "consume")
  \/ Goes(r, "consume", {"reset"}, "list")
  \/ Goes(r, "list", {"reset"}, "close_listed")
  \/ Goes(r, "close_listed", {"reset"}, "close_listed")

Success(r) ==
  \E from \in {"close", "open", "mail", "consume", "close_listed"} : Ends(r, from, "ok")
Refusal(r) ==
  \E text \in {"refused", "failed"} : pc'[r] = "idle" /\ reply' = [request |-> r, text |-> text]

LEMMA StepShape ==
  ASSUME TypeOK, StepInv, NEW r \in Requests, RequestStep(r) \/ Abort(r)
  PROVE  /\ pc[r] # "idle" /\ Others(r) /\ UNCHANGED now
         /\ Progress(r) \/ Success(r) \/ Refusal(r)
         /\ pc' \in [Requests -> Steps] /\ call' \in [Requests -> Calls \cup {None}]
         /\ reply' \in Replies \cup {None} /\ aborts' \in 0..MaxAborts
<1>0. pc[r] # "idle" => call[r].op \in OpsAt(pc[r])
  BY DEF StepInv
<1> USE LifetimeAssumption
<1>1. CASE ReadUser(r)
  <2>1. /\ pc[r] = "read_user" /\ call[r].op \in {"login"}
        /\ UNCHANGED <<listed, aborts, now>>
    BY <1>0, <1>1 DEF ReadUser, OpsAt
  <2>2. Goto(r, "open") \/ Answer(r, "refused")
    BY <1>0, <1>1 DEF ReadUser, OpsAt
  <2> QED
    BY <2>1, <2>2, GotoFacts, AnswerFacts
    DEF Others, Progress, Success, Refusal, Goes, Ends, Steps, TypeOK
<1>2. CASE ReadSession(r)
  <2>1. /\ pc[r] = "read_session" /\ call[r].op \in {"refresh", "logout"}
        /\ UNCHANGED <<listed, aborts, now>>
    BY <1>0, <1>2 DEF ReadSession, OpsAt
  <2>2. Goto(r, "close") \/ Answer(r, "refused")
    BY <1>0, <1>2 DEF ReadSession, OpsAt
  <2> QED
    BY <2>1, <2>2, GotoFacts, AnswerFacts
    DEF Others, Progress, Success, Refusal, Goes, Ends, Steps, TypeOK
<1>3. CASE Authorize(r)
  <2>1. /\ pc[r] = "authorize" /\ call[r].op \in {"revoke", "ask_verification"}
        /\ UNCHANGED <<listed, aborts, now>>
    BY <1>0, <1>3 DEF Authorize, OpsAt
  <2>2. Goto(r, IF call[r].op = "revoke" THEN "close" ELSE "retire") \/ Answer(r, "refused")
    BY <1>0, <1>3 DEF Authorize, OpsAt
  <2> QED
    BY <2>1, <2>2, GotoFacts, AnswerFacts
    DEF Others, Progress, Success, Refusal, Goes, Ends, Steps, TypeOK
<1>4. CASE CloseSession(r)
  <2>1. /\ pc[r] = "close" /\ call[r].op \in {"refresh", "logout", "revoke"}
        /\ UNCHANGED <<listed, aborts, now>>
    BY <1>0, <1>4 DEF CloseSession, OpsAt
  <2>2. (call[r].op = "refresh" /\ Goto(r, "open")) \/ Answer(r, "ok") \/ Answer(r, "refused")
    BY <1>0, <1>4 DEF CloseSession, OpsAt
  <2> QED
    BY <2>1, <2>2, GotoFacts, AnswerFacts
    DEF Others, Progress, Success, Refusal, Goes, Ends, Steps, TypeOK
<1>5. CASE OpenSession(r)
  <2>1. /\ pc[r] = "open" /\ call[r].op \in {"login", "refresh"}
        /\ UNCHANGED <<listed, aborts, now>>
    BY <1>0, <1>5 DEF OpenSession, OpsAt
  <2>2. Answer(r, "ok")
    BY <1>0, <1>5 DEF OpenSession, OpsAt
  <2> QED
    BY <2>1, <2>2, GotoFacts, AnswerFacts
    DEF Others, Progress, Success, Refusal, Goes, Ends, Steps, TypeOK
<1>6. CASE RetireLinks(r)
  <2>1. /\ pc[r] = "retire" /\ call[r].op \in Asking
        /\ UNCHANGED <<listed, aborts, now>>
    BY <1>0, <1>6 DEF RetireLinks, OpsAt
  <2>2. Goto(r, "issue")
    BY <1>0, <1>6 DEF RetireLinks, OpsAt
  <2> QED
    BY <2>1, <2>2, GotoFacts, AnswerFacts
    DEF Others, Progress, Success, Refusal, Goes, Ends, Steps, TypeOK
<1>7. CASE IssueLink(r)
  <2>1. /\ pc[r] = "issue" /\ call[r].op \in Asking
        /\ UNCHANGED <<aborts, now>>
        /\ \A q \in Requests \ {r} : listed'[q] = listed[q]
    BY <1>0, <1>7 DEF IssueLink, OpsAt, TypeOK
  <2>2. Goto(r, "mail")
    BY <1>0, <1>7 DEF IssueLink, OpsAt
  <2> QED
    BY <2>1, <2>2, GotoFacts, AnswerFacts
    DEF Others, Progress, Success, Refusal, Goes, Ends, Steps, TypeOK
<1>8. CASE SendMail(r)
  <2>1. /\ pc[r] = "mail" /\ call[r].op \in Asking
        /\ UNCHANGED <<aborts, now>>
        /\ \A q \in Requests \ {r} : listed'[q] = listed[q]
    BY <1>0, <1>8 DEF SendMail, OpsAt, TypeOK
  <2>2. Answer(r, "ok")
    BY <1>0, <1>8 DEF SendMail, OpsAt
  <2> QED
    BY <2>1, <2>2, GotoFacts, AnswerFacts
    DEF Others, Progress, Success, Refusal, Goes, Ends, Steps, TypeOK
<1>9. CASE ReadLink(r)
  <2>1. /\ pc[r] = "read_link" /\ call[r].op \in {"verify", "reset"}
        /\ UNCHANGED <<listed, aborts, now>>
    BY <1>0, <1>9 DEF ReadLink, OpsAt, WithLink
  <2>2. Goto(r, IF call[r].op = "verify" THEN "mark_verified" ELSE "set_password") \/ Answer(r, "refused")
    BY <1>0, <1>9 DEF ReadLink, OpsAt, WithLink
  <2> QED
    BY <2>1, <2>2, GotoFacts, AnswerFacts
    DEF Others, Progress, Success, Refusal, Goes, Ends, Steps, TypeOK
<1>10. CASE MarkVerified(r)
  <2>1. /\ pc[r] = "mark_verified" /\ call[r].op \in {"verify"}
        /\ UNCHANGED <<listed, aborts, now>>
    BY <1>0, <1>10 DEF MarkVerified, OpsAt
  <2>2. Goto(r, "consume")
    BY <1>0, <1>10 DEF MarkVerified, OpsAt
  <2> QED
    BY <2>1, <2>2, GotoFacts, AnswerFacts
    DEF Others, Progress, Success, Refusal, Goes, Ends, Steps, TypeOK
<1>11. CASE SetPassword(r)
  <2>1. /\ pc[r] = "set_password" /\ call[r].op \in {"reset"}
        /\ UNCHANGED <<listed, aborts, now>>
    BY <1>0, <1>11 DEF SetPassword, OpsAt
  <2>2. Goto(r, "consume")
    BY <1>0, <1>11 DEF SetPassword, OpsAt
  <2> QED
    BY <2>1, <2>2, GotoFacts, AnswerFacts
    DEF Others, Progress, Success, Refusal, Goes, Ends, Steps, TypeOK
<1>12. CASE ConsumeLink(r)
  <2>1. /\ pc[r] = "consume" /\ call[r].op \in {"verify", "reset"}
        /\ UNCHANGED <<listed, aborts, now>>
    BY <1>0, <1>12 DEF ConsumeLink, OpsAt, WithLink
  <2>2. Answer(r, "ok") \/ (call[r].op = "reset" /\ Goto(r, "list"))
    BY <1>0, <1>12 DEF ConsumeLink, OpsAt, WithLink
  <2> QED
    BY <2>1, <2>2, GotoFacts, AnswerFacts
    DEF Others, Progress, Success, Refusal, Goes, Ends, Steps, TypeOK
<1>13. CASE ListSessions(r)
  <2>1. /\ pc[r] = "list" /\ call[r].op \in {"reset"}
        /\ UNCHANGED <<aborts, now>>
        /\ \A q \in Requests \ {r} : listed'[q] = listed[q]
    BY <1>0, <1>13 DEF ListSessions, OpsAt, TypeOK
  <2>2. Goto(r, "close_listed")
    BY <1>0, <1>13 DEF ListSessions, OpsAt
  <2> QED
    BY <2>1, <2>2, GotoFacts, AnswerFacts
    DEF Others, Progress, Success, Refusal, Goes, Ends, Steps, TypeOK
<1>14. CASE CloseListed(r)
  <2>1. /\ pc[r] = "close_listed" /\ call[r].op \in {"reset"}
        /\ UNCHANGED <<aborts, now>>
        /\ \A q \in Requests \ {r} : listed'[q] = listed[q]
    BY <1>0, <1>14 DEF CloseListed, OpsAt, TypeOK
  <2>2. Answer(r, "ok") \/ Goto(r, "close_listed")
    BY <1>0, <1>14 DEF CloseListed, OpsAt
  <2> QED
    BY <2>1, <2>2, GotoFacts, AnswerFacts
    DEF Others, Progress, Success, Refusal, Goes, Ends, Steps, TypeOK
<1>15. CASE Abort(r)
  <2>1. /\ pc[r] # "idle" /\ Answer(r, "failed") /\ UNCHANGED now /\ aborts' \in 0..MaxAborts
        /\ \A q \in Requests \ {r} : listed'[q] = listed[q]
    BY <1>15 DEF Abort, TypeOK
  <2> QED  BY <2>1, AnswerFacts DEF Others, Refusal, TypeOK
<1> QED
  BY <1>1, <1>2, <1>3, <1>4, <1>5, <1>6, <1>7, <1>8, <1>9, <1>10, <1>11, <1>12, <1>13, <1>14, <1>15 DEF RequestStep

(* What no step takes back: rows stay, and so does what closes them. *)
SessionKept(s) ==
  /\ sessions'[s] \in SessionRow
  /\ sessions'[s].user = sessions[s].user /\ sessions'[s].expires = sessions[s].expires
  /\ sessions[s].revoked => sessions'[s].revoked

LinkKept(l) ==
  /\ links'[l] \in LinkRow
  /\ links'[l].user = links[l].user /\ links'[l].type = links[l].type
  /\ links'[l].expires = links[l].expires
  /\ links[l].consumed => links'[l].consumed

SessionsKept ==
  /\ sessions' \in [SessionIds -> SessionRow \cup {None}]
  /\ \A s \in Opened : SessionKept(s)

LinksKept ==
  /\ links' \in [LinkIds -> LinkRow \cup {None}]
  /\ \A l \in Issued : LinkKept(l)

LEMMA Untouched ==
  ASSUME TypeOK
  PROVE  (UNCHANGED sessions => SessionsKept) /\ (UNCHANGED links => LinksKept)
BY RowFacts DEF TypeOK, SessionsKept, LinksKept, SessionKept, LinkKept

LEMMA RevokeFacts ==
  ASSUME TypeOK, NEW s \in Opened, sessions' = [sessions EXCEPT ![s].revoked = TRUE]
  PROVE  SessionsKept /\ sessions'[s].revoked
<1>1. s \in SessionIds /\ sessions[s] \in SessionRow
      /\ \A t \in Opened : t \in SessionIds /\ sessions[t] \in SessionRow
  BY RowFacts
<1>2. [sessions[s] EXCEPT !.revoked = TRUE] \in SessionRow
  BY <1>1 DEF SessionRow
<1>3. sessions' = [sessions EXCEPT ![s] = [sessions[s] EXCEPT !.revoked = TRUE]]
  BY <1>1 DEF TypeOK
<1>4. sessions'[s] = [sessions[s] EXCEPT !.revoked = TRUE]
      /\ \A t \in SessionIds \ {s} : sessions'[t] = sessions[t]
  BY <1>1, <1>3 DEF TypeOK
<1>5. SessionKept(s) /\ sessions'[s].revoked
  BY <1>1, <1>2, <1>4 DEF SessionRow, SessionKept
<1>6. sessions' \in [SessionIds -> SessionRow \cup {None}]
  BY <1>1, <1>2, <1>3 DEF TypeOK
<1>7. \A t \in Opened \ {s} : SessionKept(t)
  BY <1>1, <1>4 DEF SessionKept
<1> QED  BY <1>5, <1>6, <1>7 DEF SessionsKept

LEMMA LinkFacts ==
  ASSUME NEW row \in LinkRow, NEW new \in {[row EXCEPT !.consumed = TRUE], [row EXCEPT !.mailed = TRUE]}
  PROVE  /\ new \in LinkRow
         /\ new.user = row.user /\ new.type = row.type /\ new.expires = row.expires
         /\ row.consumed => new.consumed
BY DEF LinkRow

LEMMA LinkUpdate ==
  ASSUME TypeOK, NEW S \in SUBSET Issued, DOMAIN links' = LinkIds, links' = [l \in LinkIds |-> links'[l]],
         \A l \in S : links'[l] \in {[links[l] EXCEPT !.consumed = TRUE], [links[l] EXCEPT !.mailed = TRUE]},
         \A l \in LinkIds \ S : links'[l] = links[l]
  PROVE  LinksKept
<1>1. \A l \in Issued : l \in LinkIds /\ links[l] \in LinkRow
  BY RowFacts
<1>2. ASSUME NEW l \in S  PROVE  LinkKept(l)
  <2>1. links[l] \in LinkRow
    BY <1>1
  <2>2. links'[l] = [links[l] EXCEPT !.consumed = TRUE] \/ links'[l] = [links[l] EXCEPT !.mailed = TRUE]
    OBVIOUS
  <2>3. links'[l] \in LinkRow
    BY <2>1, <2>2, LinkFacts
  <2>4. /\ links'[l].user = links[l].user /\ links'[l].type = links[l].type
        /\ links'[l].expires = links[l].expires /\ (links[l].consumed => links'[l].consumed)
    BY <2>1, <2>2 DEF LinkRow
  <2> QED  BY <2>3, <2>4 DEF LinkKept
<1>3. \A l \in Issued \ S : LinkKept(l)
  BY <1>1 DEF LinkKept
<1>4. \A l \in LinkIds : links'[l] \in LinkRow \cup {None}
  BY <1>2 DEF TypeOK, LinkKept
<1> QED  BY <1>2, <1>3, <1>4 DEF LinksKept

(* What a step of a request does to the tables. *)
Result ==
  /\ SessionsKept /\ LinksKept /\ UNCHANGED now
  /\ password' \in [Users -> Passwords] /\ verified' \subseteq Users
  /\ listed' \in [Requests -> SUBSET (SessionIds \cup LinkIds)]

LEMMA TablesStep ==
  ASSUME TypeOK, StepInv, NEW r \in Requests, RequestStep(r)
  PROVE  Result
<1> USE LifetimeAssumption
<1>0. /\ pc[r] # "idle" => /\ call[r] \in Calls /\ call[r].op \in OpsAt(pc[r]) /\ References(call[r])
                           /\ UserOf(call[r]) \in Users /\ LinkType(call[r]) \in LinkTypes
      /\ now \in Nat
  BY UserType DEF StepInv, TypeOK
<1>a. Opened \subseteq SessionIds /\ Issued \subseteq LinkIds
  BY DEF Opened, Issued
<1>t. /\ password \in [Users -> Passwords] /\ verified \subseteq Users
      /\ listed \in [Requests -> SUBSET (SessionIds \cup LinkIds)]
  BY DEF TypeOK
<1>1. CASE ReadUser(r) \/ ReadSession(r) \/ Authorize(r) \/ ReadLink(r)
  <2>1. UNCHANGED <<tables, listed, now>>
    BY <1>1 DEF ReadUser, ReadSession, Authorize, ReadLink
  <2> QED  BY <1>t, <2>1, Untouched DEF Result, tables
<1>2. CASE CloseSession(r)
  <2>1. /\ UNCHANGED <<password, verified, links, listed, now>>
        /\ pc[r] = "close" /\ call[r].op \in {"refresh", "logout", "revoke"}
    BY <1>0, <1>2 DEF CloseSession, OpsAt
  <2> DEFINE t == IF call[r].op = "revoke" THEN call[r].target ELSE call[r].session
  <2>2. t \in Opened
    BY <1>0, <2>1 DEF References, WithSession
  <2>3. sessions' = [sessions EXCEPT ![t].revoked = TRUE] \/ UNCHANGED sessions
    BY <1>2 DEF CloseSession
  <2> HIDE DEF t
  <2>4. SessionsKept
    BY <2>2, <2>3, RevokeFacts, Untouched
  <2> QED  BY <1>t, <2>1, <2>4, Untouched DEF Result
<1>3. CASE OpenSession(r)
  <2> DEFINE row == [user |-> UserOf(call[r]), expires |-> now + SessionTTL, revoked |-> FALSE]
  <2>1. PICK s \in SessionIds \ Opened : sessions' = [sessions EXCEPT ![s] = row]
    BY <1>3 DEF OpenSession
  <2>2. row \in SessionRow
    BY <1>0, <1>3 DEF OpenSession, SessionRow
  <2> HIDE DEF row
  <2>3. /\ sessions' \in [SessionIds -> SessionRow \cup {None}]
        /\ \A t \in Opened : sessions'[t] = sessions[t] /\ sessions[t] \in SessionRow
    BY <1>a, <2>1, <2>2, RowFacts DEF TypeOK
  <2>4. UNCHANGED <<password, verified, links, listed, now>>
    BY <1>3 DEF OpenSession
  <2> QED  BY <1>t, <2>3, <2>4, Untouched DEF Result, SessionsKept, SessionKept
<1>4. CASE RetireLinks(r)
  <2> DEFINE S == {l \in Issued : links[l].user = UserOf(call[r]) /\ links[l].type = LinkType(call[r])}
  <2>1. UNCHANGED <<password, verified, sessions, listed, now>>
    BY <1>4 DEF RetireLinks
  <2>2. /\ links' = [l \in LinkIds |-> links'[l]] /\ DOMAIN links' = LinkIds
        /\ \A l \in S : links'[l] = [links[l] EXCEPT !.consumed = TRUE]
        /\ \A l \in LinkIds \ S : links'[l] = links[l]
    BY <1>4, <1>a DEF RetireLinks
  <2>3. S \in SUBSET Issued
    OBVIOUS
  <2> HIDE DEF S
  <2>4. LinksKept
    BY <2>2, <2>3, LinkUpdate
  <2> QED  BY <1>t, <2>1, <2>4, Untouched DEF Result
<1>5. CASE IssueLink(r)
  <2> DEFINE row == [user |-> UserOf(call[r]), type |-> LinkType(call[r]), expires |-> now + LinkTTL,
                     consumed |-> FALSE, mailed |-> FALSE]
  <2>1. PICK l \in LinkIds \ Issued : links' = [links EXCEPT ![l] = row] /\ listed' = [listed EXCEPT ![r] = {l}]
    BY <1>5 DEF IssueLink
  <2>2. row \in LinkRow
    BY <1>0, <1>5 DEF IssueLink, LinkRow
  <2> HIDE DEF row
  <2>3. /\ links' \in [LinkIds -> LinkRow \cup {None}]
        /\ \A k \in Issued : links'[k] = links[k] /\ links[k] \in LinkRow
        /\ listed' \in [Requests -> SUBSET (SessionIds \cup LinkIds)]
    BY <1>a, <2>1, <2>2, RowFacts DEF TypeOK
  <2>4. UNCHANGED <<password, verified, sessions, now>>
    BY <1>5 DEF IssueLink
  <2> QED  BY <1>t, <2>3, <2>4, Untouched DEF Result, LinksKept, LinkKept
<1>6. CASE SendMail(r)
  <2>1. /\ listed[r] \in SUBSET Issued /\ UNCHANGED <<password, verified, sessions, now>>
        /\ listed' = [listed EXCEPT ![r] = {}]
    BY <1>6 DEF SendMail, StepInv
  <2>2. /\ links' = [l \in LinkIds |-> links'[l]] /\ DOMAIN links' = LinkIds
        /\ \A l \in listed[r] : links'[l] = [links[l] EXCEPT !.mailed = TRUE]
        /\ \A l \in LinkIds \ listed[r] : links'[l] = links[l]
    BY <1>6, <1>a, <2>1 DEF SendMail
  <2>3. LinksKept
    BY <2>1, <2>2, LinkUpdate
  <2>4. listed' \in [Requests -> SUBSET (SessionIds \cup LinkIds)]
    BY <1>t, <2>1
  <2> QED  BY <1>t, <2>1, <2>3, <2>4, Untouched DEF Result
<1>7. CASE MarkVerified(r)
  <2>1. UNCHANGED <<password, sessions, links, listed, now>> /\ verified' \subseteq Users
    BY <1>0, <1>t, <1>7 DEF MarkVerified
  <2> QED  BY <1>t, <2>1, Untouched DEF Result
<1>8. CASE SetPassword(r)
  <2>1. call[r].password \in Passwords /\ UserOf(call[r]) \in Users
    BY <1>0, <1>8, CallFacts DEF SetPassword, OpsAt
  <2>2. UNCHANGED <<verified, sessions, links, listed, now>> /\ password' \in [Users -> Passwords]
    BY <1>t, <1>8, <2>1 DEF SetPassword
  <2> QED  BY <1>t, <2>2, Untouched DEF Result
<1>9. CASE ConsumeLink(r)
  <2> DEFINE k == call[r].link
  <2>1. {k} \in SUBSET Issued
    BY <1>0, <1>9 DEF ConsumeLink, OpsAt, References
  <2>2. UNCHANGED <<password, verified, sessions, listed, now>>
    BY <1>9 DEF ConsumeLink
  <2>3. links' = [links EXCEPT ![k] = [links[k] EXCEPT !.consumed = TRUE]]
    BY <1>9 DEF ConsumeLink
  <2> HIDE DEF k
  <2>4. /\ links' = [l \in LinkIds |-> links'[l]] /\ DOMAIN links' = LinkIds
        /\ \A l \in {k} : links'[l] = [links[l] EXCEPT !.consumed = TRUE]
        /\ \A l \in LinkIds \ {k} : links'[l] = links[l]
    BY <1>a, <2>1, <2>3 DEF TypeOK
  <2>5. LinksKept
    BY <2>1, <2>4, LinkUpdate
  <2> QED  BY <1>t, <2>2, <2>5, Untouched DEF Result
<1>10. CASE ListSessions(r)
  <2>1. UNCHANGED <<tables, now>>
    BY <1>10 DEF ListSessions
  <2>2. listed' \in [Requests -> SUBSET (SessionIds \cup LinkIds)]
    BY <1>a, <1>t, <1>10 DEF ListSessions
  <2> QED  BY <1>t, <2>1, <2>2, Untouched DEF Result, tables
<1>11. CASE CloseListed(r)
  <2>1. listed[r] \subseteq Opened /\ UNCHANGED <<password, verified, links, now>>
    BY <1>11 DEF CloseListed, StepInv
  <2>2. CASE UNCHANGED <<sessions, listed>>
    BY <1>t, <2>1, <2>2, Untouched DEF Result
  <2>3. ASSUME NEW s \in listed[r], sessions' = [sessions EXCEPT ![s].revoked = TRUE],
               listed' = [listed EXCEPT ![r] = @ \ {s}]
        PROVE  Result
    <3>1. listed' \in [Requests -> SUBSET (SessionIds \cup LinkIds)]
      BY <1>t, <2>3
    <3>2. s \in Opened
      BY <2>1
    <3>3. SessionsKept
      BY <2>3, <3>2, RevokeFacts
    <3> QED  BY <1>t, <2>1, <3>1, <3>3, Untouched DEF Result
  <2> QED  BY <1>11, <2>2, <2>3 DEF CloseListed
<1> QED
  BY <1>1, <1>2, <1>3, <1>4, <1>5, <1>6, <1>7, <1>8, <1>9, <1>10, <1>11 DEF RequestStep

(* The first step of a request is one its kind takes. *)
LEMMA FirstStepFacts ==
  ASSUME NEW c \in Calls
  PROVE  /\ FirstStep(c) \in Steps \ {"idle", "open", "issue", "mail", "close_listed"}
         /\ c.op \in OpsAt(FirstStep(c))
BY CallFacts DEF FirstStep, Steps, OpsAt, WithSession, WithLink, Asking

(* Every step keeps the types, and no step takes a row back. *)
LEMMA NextKeeps ==
  ASSUME TypeOK, StepInv, Next
  PROVE  TypeOK' /\ SessionsKept /\ LinksKept /\ now \in Nat /\ now' \in Nat /\ now <= now'
<1> USE LifetimeAssumption
<1>0. now \in 0..MaxTime
  BY DEF TypeOK
<1>1. CASE Tick
  <2>1. UNCHANGED <<tables, pc, call, listed, aborts>> /\ reply' = None
        /\ now' \in 0..MaxTime /\ now <= now'
    BY <1>0, <1>1 DEF Tick
  <2> QED  BY <1>0, <2>1, Untouched DEF tables, TypeOK
<1>2. ASSUME NEW r \in Requests, NEW c \in Calls, Begin(r, c)
      PROVE  TypeOK' /\ SessionsKept /\ LinksKept /\ now \in Nat /\ now' \in Nat /\ now <= now'
  <2>1. UNCHANGED <<tables, listed, aborts, now>> /\ reply' = None
        /\ call' = [call EXCEPT ![r] = c] /\ pc' = [pc EXCEPT ![r] = FirstStep(c)]
    BY <1>2 DEF Begin
  <2>2. call' \in [Requests -> Calls \cup {None}] /\ pc' \in [Requests -> Steps]
    BY <2>1, FirstStepFacts DEF TypeOK
  <2> QED  BY <1>0, <2>1, <2>2, Untouched DEF tables, TypeOK
<1>3. ASSUME NEW r \in Requests, RequestStep(r)
      PROVE  TypeOK' /\ SessionsKept /\ LinksKept /\ now \in Nat /\ now' \in Nat /\ now <= now'
  <2>1. Result
    BY <1>3, TablesStep
  <2>2. /\ pc' \in [Requests -> Steps] /\ call' \in [Requests -> Calls \cup {None}]
        /\ reply' \in Replies \cup {None} /\ aborts' \in 0..MaxAborts
    BY <1>3, StepShape
  <2> QED  BY <1>0, <2>1, <2>2 DEF Result, SessionsKept, LinksKept, TypeOK
<1>4. ASSUME NEW r \in Requests, Abort(r)
      PROVE  TypeOK' /\ SessionsKept /\ LinksKept /\ now \in Nat /\ now' \in Nat /\ now <= now'
  <2>1. /\ pc' \in [Requests -> Steps] /\ call' \in [Requests -> Calls \cup {None}]
        /\ reply' \in Replies \cup {None} /\ aborts' \in 0..MaxAborts
    BY <1>4, StepShape
  <2>2. UNCHANGED <<tables, now>> /\ listed' \in [Requests -> SUBSET (SessionIds \cup LinkIds)]
    BY <1>4 DEF Abort, TypeOK
  <2> QED  BY <1>0, <2>1, <2>2, Untouched DEF tables, TypeOK
<1> QED  BY <1>1, <1>2, <1>3, <1>4 DEF Next

(* What closes a session or spends a link is never undone. *)
LEMMA Monotone ==
  ASSUME TypeOK, StepInv, Next
  PROVE  /\ Opened \subseteq Opened' /\ Issued \subseteq Issued'
         /\ \A s \in Opened : /\ sessions'[s].user = sessions[s].user
                              /\ sessions[s].revoked => sessions'[s].revoked
                              /\ ~Active(s) => ~Active(s)'
         /\ \A l \in Issued : /\ links'[l].user = links[l].user /\ links'[l].type = links[l].type
                              /\ links[l].consumed => links'[l].consumed
                              /\ ~Good(l) => ~Good(l)'
<1>1. TypeOK' /\ SessionsKept /\ LinksKept /\ now \in Nat /\ now' \in Nat /\ now <= now'
  BY NextKeeps
<1>2. \A s \in Opened : s \in SessionIds /\ sessions[s] \in SessionRow /\ SessionKept(s)
  BY <1>1, RowFacts DEF SessionsKept
<1>3. \A l \in Issued : l \in LinkIds /\ links[l] \in LinkRow /\ LinkKept(l)
  BY <1>1, RowFacts DEF LinksKept
<1>4. Opened \subseteq Opened' /\ Issued \subseteq Issued'
  BY <1>2, <1>3, NoneAssumption DEF Opened, Issued, SessionKept, LinkKept
<1>5. ASSUME NEW s \in Opened, ~Active(s)  PROVE  ~Active(s)'
  <2>1. /\ sessions[s].expires \in Nat /\ sessions'[s].expires = sessions[s].expires
        /\ sessions[s].revoked => sessions'[s].revoked
    BY <1>2 DEF SessionRow, SessionKept
  <2> QED  BY <1>1, <1>5, <2>1 DEF Active
<1>6. ASSUME NEW l \in Issued, ~Good(l)  PROVE  ~Good(l)'
  <2>1. /\ links[l].expires \in Nat /\ links'[l].expires = links[l].expires
        /\ links[l].consumed => links'[l].consumed
    BY <1>3 DEF LinkRow, LinkKept
  <2> QED  BY <1>1, <1>6, <2>1 DEF Good
<1> QED  BY <1>2, <1>3, <1>4, <1>5, <1>6 DEF SessionKept, LinkKept

LEMMA CallKept ==
  ASSUME TypeOK, StepInv, Next, NEW c \in Calls, References(c)
  PROVE  References(c)' /\ UserOf(c)' = UserOf(c)
<1>1. c.op \in {"login", "ask_reset"} \cup WithSession \cup WithLink
  BY CallFacts
<1> QED  BY <1>1, Monotone DEF References, UserOf, WithSession, WithLink

-----------------------------------------------------------------------------
(* What one request does in a step of the system. *)

Rests(q) == pc'[q] = pc[q] /\ call'[q] = call[q] /\ listed'[q] = listed[q]

LEMMA Actors ==
  ASSUME TypeOK, StepInv, Next, NEW q \in Requests
  PROVE  Rests(q) \/ (\E c \in Calls : Begin(q, c)) \/ RequestStep(q) \/ Abort(q)
<1>1. CASE Tick
  BY <1>1 DEF Tick, Rests
<1>2. ASSUME NEW r \in Requests \ {q}, NEW c \in Calls, Begin(r, c)  PROVE  Rests(q)
  BY <1>2 DEF Begin, Rests, TypeOK
<1>3. ASSUME NEW r \in Requests \ {q}, RequestStep(r) \/ Abort(r)  PROVE  Rests(q)
  BY <1>3, StepShape DEF Others, Rests
<1> QED  BY <1>1, <1>2, <1>3 DEF Next

LEMMA BeginFacts ==
  ASSUME TypeOK, NEW q \in Requests, NEW c \in Calls, Begin(q, c)
  PROVE  /\ pc[q] = "idle" /\ pc'[q] = FirstStep(c) /\ call'[q] = c /\ References(c)
         /\ UNCHANGED <<tables, now>>
<1>1. pc[q] = "idle" /\ pc'[q] = FirstStep(c) /\ call'[q] = c /\ UNCHANGED <<tables, now>>
  BY DEF Begin, TypeOK
<1>2. /\ c.op \in WithSession => c.session \in Opened
      /\ c.op = "revoke" => c.target \in Opened
      /\ c.op \in WithLink => c.link \in Mailed /\ links[c.link].type = LinkType(c)
  BY CallFacts DEF Begin
<1> QED  BY <1>1, <1>2 DEF References, Mailed

(* A request that is under way after the step either began in it, was left   *)
(* where it was, or went on to its next step.                                *)
LEMMA UnderWay ==
  ASSUME TypeOK, StepInv, Next, NEW q \in Requests, pc'[q] # "idle"
  PROVE  \/ \E c \in Calls : Begin(q, c)
         \/ Rests(q) /\ pc[q] # "idle"
         \/ RequestStep(q) /\ Progress(q) /\ pc[q] # "idle" /\ call'[q] = call[q]
<1>1. CASE RequestStep(q) \/ Abort(q)
  <2>1. pc[q] # "idle" /\ Progress(q)
    BY <1>1, StepShape DEF Success, Refusal, Ends
  <2>2. ~Abort(q)
    BY DEF Abort, Answer, TypeOK
  <2>3. call'[q] = call[q]
    BY <2>1 DEF Progress, Goes
  <2> QED  BY <1>1, <2>1, <2>2, <2>3
<1> QED  BY <1>1, Actors DEF Rests

LEMMA StepInvStep ==
  ASSUME TypeOK, StepInv, Next
  PROVE  StepInv'
<1> SUFFICES ASSUME NEW q \in Requests, pc'[q] # "idle"
             PROVE  /\ call'[q] \in Calls /\ call'[q].op \in OpsAt(pc'[q]) /\ References(call[q])'
                    /\ pc'[q] = "mail" => listed'[q] \subseteq Issued'
                    /\ pc'[q] = "close_listed" => listed'[q] \subseteq Opened'
  BY DEF StepInv
<1>0. Opened \subseteq Opened' /\ Issued \subseteq Issued'
  BY Monotone
<1>1. ASSUME NEW c \in Calls, Begin(q, c)
      PROVE  /\ call'[q] \in Calls /\ call'[q].op \in OpsAt(pc'[q]) /\ References(call[q])'
             /\ pc'[q] \notin {"mail", "close_listed"}
  <2>1. pc'[q] = FirstStep(c) /\ call'[q] = c /\ References(c)'
    BY <1>1, BeginFacts, CallKept
  <2>2. References(call[q])'
    BY <2>1 DEF References, LinkType
  <2> QED  BY <2>1, <2>2, FirstStepFacts
<1>2. CASE pc[q] # "idle" /\ call'[q] = call[q]
  <2>1. /\ call[q] \in Calls /\ call[q].op \in OpsAt(pc[q]) /\ References(call[q])
        /\ pc[q] = "mail" => listed[q] \subseteq Issued
        /\ pc[q] = "close_listed" => listed[q] \subseteq Opened
    BY <1>2 DEF StepInv
  <2>2. References(call[q])'
    <3>1. PICK c \in Calls : c = call[q]
      BY <2>1
    <3>2. References(c)'
      BY <2>1, <3>1, CallKept
    <3> QED  BY <1>2, <3>1, <3>2 DEF References, LinkType
  <2>3. CASE Rests(q)
    BY <1>0, <2>1, <2>2, <2>3 DEF Rests
  <2>4. CASE RequestStep(q) /\ Progress(q)
    <3>1. call'[q].op \in OpsAt(pc'[q])
      BY <1>2, <2>4 DEF Progress, Goes, OpsAt, Asking, WithLink
    <3>2. ASSUME pc'[q] = "mail"  PROVE  listed'[q] \subseteq Issued'
      <4>1. pc[q] = "issue"
        BY <2>4, <3>2 DEF Progress, Goes
      <4>2. IssueLink(q)
        BY <2>4, <4>1 DEF RequestStep, ReadUser, ReadSession, Authorize, CloseSession, OpenSession, RetireLinks,
             SendMail, ReadLink, MarkVerified, SetPassword, ConsumeLink, ListSessions, CloseListed
      <4>3. PICK l \in LinkIds \ Issued :
              /\ links' = [links EXCEPT ![l] =
                   [user |-> UserOf(call[q]), type |-> LinkType(call[q]), expires |-> now + LinkTTL,
                    consumed |-> FALSE, mailed |-> FALSE]]
              /\ listed' = [listed EXCEPT ![q] = {l}]
        BY <4>2 DEF IssueLink
      <4>4. links'[l] # None
        <5>1. UserOf(call[q]) \in Users /\ LinkType(call[q]) \in LinkTypes /\ now \in Nat
          BY <2>1, UserType, NextKeeps
        <5>2. links'[l] \in LinkRow
          BY <4>3, <5>1, LifetimeAssumption DEF TypeOK, LinkRow
        <5> QED  BY <5>2, NoneAssumption
      <4> QED  BY <4>3, <4>4 DEF Issued, TypeOK
    <3>3. ASSUME pc'[q] = "close_listed"  PROVE  listed'[q] \subseteq Opened'
      <4>1. pc[q] \in {"list", "close_listed"}
        BY <2>4, <3>3 DEF Progress, Goes
      <4>2. ListSessions(q) \/ CloseListed(q)
        BY <2>4, <4>1 DEF RequestStep, ReadUser, ReadSession, Authorize, CloseSession, OpenSession, RetireLinks,
             SendMail, IssueLink, ReadLink, MarkVerified, SetPassword, ConsumeLink
      <4>3. listed'[q] \subseteq Opened
        BY <2>1, <4>2 DEF ListSessions, CloseListed, TypeOK
      <4> QED  BY <1>0, <4>3
    <3> QED  BY <1>2, <2>1, <2>2, <3>1, <3>2, <3>3
  <2> QED  BY <1>2, <2>3, <2>4, UnderWay DEF Begin
<1> QED  BY <1>1, <1>2, UnderWay DEF Rests

(* The request that opens a session is at that step, and is answered by it. *)
LEMMA Opener ==
  ASSUME TypeOK, StepInv, Next, NEW s \in Opened' \ Opened
  PROVE  \E r \in Requests : pc[r] = "open" /\ pc'[r] = "idle"
<1>0. s \in SessionIds /\ sessions[s] = None /\ sessions'[s] # None
  BY DEF Opened
<1>1. PICK r \in Requests : RequestStep(r)
  BY <1>0 DEF Next, Begin, Abort, Tick, tables
<1>2. CASE OpenSession(r)
  BY <1>2 DEF OpenSession, Answer, TypeOK
<1>3. ASSUME NEW t \in Opened, sessions' = [sessions EXCEPT ![t].revoked = TRUE]  PROVE  FALSE
  BY <1>0, <1>3 DEF TypeOK
<1>4. CASE CloseSession(r)
  <2>1. /\ pc[r] = "close" /\ call[r].op \in {"refresh", "logout", "revoke"} /\ References(call[r])
    BY <1>4 DEF CloseSession, StepInv, OpsAt
  <2> DEFINE t == IF call[r].op = "revoke" THEN call[r].target ELSE call[r].session
  <2>2. t \in Opened
    BY <2>1 DEF References, WithSession
  <2>3. sessions' = [sessions EXCEPT ![t].revoked = TRUE] \/ UNCHANGED sessions
    BY <1>4 DEF CloseSession
  <2> HIDE DEF t
  <2> QED  BY <1>0, <1>3, <2>2, <2>3
<1>5. CASE CloseListed(r)
  <2>1. listed[r] \subseteq Opened
    BY <1>5 DEF CloseListed, StepInv
  <2>2. UNCHANGED sessions \/ \E t \in listed[r] : sessions' = [sessions EXCEPT ![t].revoked = TRUE]
    BY <1>5 DEF CloseListed
  <2> QED  BY <1>0, <1>3, <2>1, <2>2
<1> QED
  BY <1>0, <1>1, <1>2, <1>4, <1>5 DEF RequestStep, ReadUser, ReadSession, Authorize, RetireLinks, IssueLink,
     SendMail, ReadLink, MarkVerified, SetPassword, ConsumeLink, ListSessions, tables

LEMMA RotationStep ==
  ASSUME TypeOK, StepInv, RotationInv, HNext
  PROVE  RotationInv'
<1>0. Next
  BY DEF HNext
<1>m. /\ Opened \subseteq Opened'
      /\ \A s \in Opened : s \in SessionIds /\ (sessions[s].revoked => sessions'[s].revoked)
  BY <1>0, Monotone DEF Opened
<1>1. ASSUME NEW q \in Requests, pc'[q] = "open", call'[q].op = "refresh"
      PROVE  sessions'[call'[q].session].revoked
  <2>1. CASE pc[q] = "open" /\ call'[q] = call[q]
    <3>1. call[q].session \in Opened
      BY <1>1, <2>1 DEF StepInv, References, WithSession
    <3> QED  BY <1>1, <1>m, <2>1, <3>1 DEF RotationInv
  <2>2. CASE CloseSession(q) /\ call'[q] = call[q]
    <3>1. pc[q] = "close" /\ call[q].op = "refresh" /\ call[q].session \in Opened
      BY <1>1, <2>2 DEF CloseSession, StepInv, References, WithSession
    <3> DEFINE t == call[q].session
    <3>2. sessions' = (IF ~sessions[t].revoked THEN [sessions EXCEPT ![t].revoked = TRUE] ELSE sessions)
      BY <2>2, <3>1 DEF CloseSession, UserOf
    <3>3. t \in Opened
      BY <3>1
    <3>4. call'[q].session = t
      BY <2>2
    <3> HIDE DEF t
    <3>5. sessions'[t].revoked
      BY <3>2, <3>3, RevokeFacts, RowFacts DEF SessionRow
    <3> QED  BY <3>4, <3>5
  <2>3. ASSUME NEW c \in Calls, Begin(q, c)  PROVE  FALSE
    BY <1>1, <2>3, BeginFacts, FirstStepFacts
  <2>4. CASE RequestStep(q) /\ Progress(q) /\ call'[q] = call[q]
    <3>1. pc[q] = "close"
      BY <1>1, <2>4 DEF Progress, Goes
    <3>2. CloseSession(q)
      BY <2>4, <3>1 DEF RequestStep, ReadUser, ReadSession, Authorize, OpenSession, RetireLinks, IssueLink,
           SendMail, ReadLink, MarkVerified, SetPassword, ConsumeLink, ListSessions, CloseListed
    <3> QED  BY <2>2, <2>4, <3>2
  <2> QED  BY <1>0, <1>1, <2>1, <2>3, <2>4, UnderWay DEF Rests
<1>2. ASSUME NEW s \in Opened', parent'[s] # None
      PROVE  parent'[s] \in Opened' /\ sessions'[parent'[s]].revoked
  <2>0. s \in SessionIds
    BY DEF Opened
  <2>1. CASE s \in Opened
    <3>1. parent'[s] = parent[s]
      BY <2>0, <2>1 DEF HNext
    <3>2. parent[s] \in Opened /\ sessions[parent[s]].revoked
      BY <1>2, <2>1, <3>1 DEF RotationInv
    <3> QED  BY <1>m, <3>1, <3>2
  <2>2. CASE s \notin Opened
    <3> DEFINE r == CHOOSE r \in Requests : pc[r] = "open" /\ pc'[r] = "idle"
    <3>1. r \in Requests /\ pc[r] = "open"
      BY <1>0, <2>2, Opener
    <3>2. parent'[s] = IF call[r].op = "refresh" THEN call[r].session ELSE None
      BY <2>0, <2>2 DEF HNext
    <3> HIDE DEF r
    <3>3. call[r].op = "refresh" /\ parent'[s] = call[r].session
      BY <1>2, <3>2
    <3>4. call[r].session \in Opened /\ sessions[call[r].session].revoked
      BY <3>1, <3>3 DEF StepInv, References, WithSession, RotationInv
    <3> QED  BY <1>m, <3>3, <3>4
  <2> QED  BY <2>1, <2>2
<1> QED  BY <1>1, <1>2 DEF RotationInv

LEMMA Remembered ==
  ASSUME HNext, NEW q \in Requests, pc'[q] # "idle"
  PROVE  begun'[q] = IF pc[q] = "idle" THEN Snapshot(call'[q]) ELSE begun[q]
BY DEF HNext

LEMMA StaleStep ==
  ASSUME TypeOK, StepInv, StaleInv, HNext
  PROVE  StaleInv'
<1>0. Next
  BY DEF HNext
<1> SUFFICES ASSUME NEW q \in Requests, pc'[q] # "idle", begun'[q].stale
             PROVE  /\ call'[q].op \in WithSession \ {"logout"} =>
                         pc'[q] = FirstStep(call'[q]) /\ ~Active(call[q].session)'
                    /\ call'[q].op \in WithLink =>
                         pc'[q] = FirstStep(call'[q]) /\ ~Good(call[q].link)'
  BY DEF StaleInv, FirstStep
<1>m. /\ \A s \in Opened : ~Active(s) => ~Active(s)'
      /\ \A l \in Issued : ~Good(l) => ~Good(l)'
  BY <1>0, Monotone
<1>1. ASSUME NEW c \in Calls, Begin(q, c)
      PROVE  /\ c.op \in WithSession \ {"logout"} => ~Active(c.session)'
             /\ c.op \in WithLink => ~Good(c.link)'
             /\ call'[q] = c /\ pc'[q] = FirstStep(c)
  <2>1. pc[q] = "idle" /\ call'[q] = c /\ pc'[q] = FirstStep(c) /\ References(c)
    BY <1>1, BeginFacts
  <2>2. Snapshot(c).stale
    BY <2>1, Remembered
  <2>3. \/ "session" \in DOMAIN c /\ ~Active(c.session)
        \/ "link" \in DOMAIN c /\ ~Good(c.link)
    BY <2>2 DEF Snapshot
  <2>4. /\ c.op \in WithSession \ {"logout"} => c.session \in Opened /\ ~Active(c.session)
        /\ c.op \in WithLink => c.link \in Issued /\ ~Good(c.link)
    BY <2>1, <2>3, CallFacts DEF References
  <2> QED  BY <1>m, <2>1, <2>4
<1>2. CASE pc[q] # "idle" /\ call'[q] = call[q]
  <2>1. /\ call[q].op \in WithSession \ {"logout"} =>
             call[q].session \in Opened /\ pc[q] = FirstStep(call[q]) /\ ~Active(call[q].session)
        /\ call[q].op \in WithLink =>
             call[q].link \in Issued /\ pc[q] = FirstStep(call[q]) /\ ~Good(call[q].link)
    BY <1>2, Remembered DEF StaleInv, StepInv, References
  <2>2. CASE Rests(q)
    <3>1. /\ call[q].op \in WithSession \ {"logout"} => ~Active(call[q].session)'
          /\ call[q].op \in WithLink => ~Good(call[q].link)'
      <4>1. PICK c : c = call[q]
        OBVIOUS
      <4>2. /\ c.op \in WithSession \ {"logout"} => ~Active(c.session)'
            /\ c.op \in WithLink => ~Good(c.link)'
        BY <1>m, <2>1, <4>1
      <4> QED  BY <1>2, <4>1, <4>2 DEF Active, Good
    <3> QED  BY <1>2, <2>1, <2>2, <3>1 DEF Rests
  <2>3. CASE RequestStep(q) /\ Progress(q)
    <3>1. call[q].op \notin WithSession \ {"logout"}
      <4> SUFFICES ASSUME call[q].op \in WithSession \ {"logout"}  PROVE  FALSE
        OBVIOUS
      <4>1. pc[q] \in {"read_session", "authorize"} /\ ~Active(call[q].session)
            /\ call[q].op # "logout"
        BY <2>1 DEF FirstStep, WithSession
      <4>2. Answer(q, "refused")
        BY <2>3, <4>1 DEF RequestStep, ReadUser, ReadSession, Authorize, CloseSession, OpenSession, RetireLinks,
             IssueLink, SendMail, ReadLink, MarkVerified, SetPassword, ConsumeLink, ListSessions, CloseListed
      <4> QED  BY <4>2, AnswerFacts
    <3>2. call[q].op \notin WithLink
      <4> SUFFICES ASSUME call[q].op \in WithLink  PROVE  FALSE
        OBVIOUS
      <4>1. pc[q] = "read_link" /\ ~Good(call[q].link)
        BY <2>1 DEF FirstStep, WithLink
      <4>2. Answer(q, "refused")
        BY <2>3, <4>1 DEF RequestStep, ReadUser, ReadSession, Authorize, CloseSession, OpenSession, RetireLinks,
             IssueLink, SendMail, ReadLink, MarkVerified, SetPassword, ConsumeLink, ListSessions, CloseListed
      <4> QED  BY <4>2, AnswerFacts
    <3> QED  BY <1>2, <3>1, <3>2
  <2> QED  BY <1>0, <1>2, <2>2, <2>3, UnderWay DEF Begin
<1>3. CASE \E c \in Calls : Begin(q, c)
  <2>1. PICK c \in Calls : Begin(q, c)
    BY <1>3
  <2> QED  BY <1>1, <2>1 DEF Active, Good
<1> QED  BY <1>0, <1>2, <1>3, UnderWay DEF Rests

(* The user a request is about is the same after the step. *)
LEMMA SameUser ==
  ASSUME TypeOK, StepInv, Next, NEW q \in Requests, pc[q] # "idle", call'[q] = call[q]
  PROVE  UserOf(call[q])' = UserOf(call[q])
<1>1. PICK c \in Calls : c = call[q] /\ References(c)
  BY DEF StepInv
<1>2. UserOf(c)' = UserOf(c)
  BY <1>1, CallKept
<1> QED  BY <1>1, <1>2 DEF UserOf

LEMMA ResetStep ==
  ASSUME TypeOK, StepInv, ResetInv, HNext
  PROVE  ResetInv'
<1>0. Next
  BY DEF HNext
<1> SUFFICES ASSUME NEW q \in Requests, pc'[q] # "idle", call'[q].op = "reset", NEW s \in begun'[q].opened
             PROVE  /\ s \in Opened' /\ sessions'[s].user = UserOf(call[q])'
                    /\ pc'[q] = "close_listed" => sessions'[s].revoked \/ s \in listed'[q]
  BY DEF ResetInv
<1>m. /\ Opened \subseteq Opened'
      /\ \A t \in Opened : /\ t \in SessionIds /\ sessions'[t].user = sessions[t].user
                           /\ sessions[t].revoked => sessions'[t].revoked
  BY <1>0, Monotone DEF Opened
<1>1. ASSUME NEW c \in Calls, Begin(q, c)
      PROVE  /\ s \in Opened' /\ sessions'[s].user = UserOf(call[q])' /\ pc'[q] # "close_listed"
  <2>1. pc[q] = "idle" /\ call'[q] = c /\ pc'[q] = FirstStep(c) /\ References(c)
    BY <1>1, BeginFacts
  <2>2. s \in Opened /\ sessions[s].user = UserOf(c)
    <3>1. s \in Snapshot(c).opened
      BY <2>1, Remembered
    <3> QED  BY <3>1 DEF Snapshot
  <2>3. UserOf(c)' = UserOf(call[q])' /\ UserOf(c)' = UserOf(c)
    BY <1>0, <2>1, CallKept DEF UserOf
  <2> QED  BY <1>m, <2>1, <2>2, <2>3, FirstStepFacts
<1>2. CASE pc[q] # "idle" /\ call'[q] = call[q]
  <2>1. /\ s \in Opened /\ sessions[s].user = UserOf(call[q]) /\ call[q].op = "reset"
        /\ pc[q] = "close_listed" => sessions[s].revoked \/ s \in listed[q]
    BY <1>2, Remembered DEF ResetInv
  <2>2. s \in Opened' /\ sessions'[s].user = UserOf(call[q])'
    BY <1>0, <1>m, <1>2, <2>1, SameUser
  <2>3. CASE Rests(q)
    BY <1>m, <2>1, <2>2, <2>3 DEF Rests
  <2>4. CASE RequestStep(q) /\ Progress(q)
    <3> SUFFICES ASSUME pc'[q] = "close_listed"  PROVE  sessions'[s].revoked \/ s \in listed'[q]
      BY <2>2
    <3>1. pc[q] \in {"list", "close_listed"}
      BY <2>4 DEF Progress, Goes
    <3>2. ListSessions(q) \/ CloseListed(q)
      BY <2>4, <3>1 DEF RequestStep, ReadUser, ReadSession, Authorize, CloseSession, OpenSession, RetireLinks,
           SendMail, IssueLink, ReadLink, MarkVerified, SetPassword, ConsumeLink
    <3>3. CASE ListSessions(q)
      <4>1. listed'[q] = {t \in Opened : sessions[t].user = UserOf(call[q]) /\ ~sessions[t].revoked}
        BY <3>3 DEF ListSessions, TypeOK
      <4> QED  BY <1>m, <2>1, <4>1
    <3>4. CASE CloseListed(q)
      <4>1. pc[q] = "close_listed" /\ listed[q] # {}
        BY <3>4, AnswerFacts DEF CloseListed
      <4>2. PICK t \in listed[q] : sessions' = [sessions EXCEPT ![t].revoked = TRUE]
                                   /\ listed' = [listed EXCEPT ![q] = @ \ {t}]
        BY <3>4, <4>1 DEF CloseListed
      <4>3. listed'[q] = listed[q] \ {t} /\ t \in Opened
        BY <4>1, <4>2 DEF TypeOK, StepInv
      <4>4. sessions'[t].revoked
        BY <4>2, <4>3, RevokeFacts
      <4> QED  BY <1>m, <2>1, <4>1, <4>3, <4>4
    <3> QED  BY <3>2, <3>3, <3>4
  <2> QED  BY <1>0, <1>2, <2>3, <2>4, <2>2, UnderWay DEF Begin
<1> QED  BY <1>0, <1>1, <1>2, UnderWay DEF Rests

LEMMA SpentStep ==
  ASSUME TypeOK, StepInv, SpentInv, HNext
  PROVE  SpentInv'
<1>0. Next
  BY DEF HNext
<1> SUFFICES ASSUME NEW q \in Requests, pc'[q] # "idle", call'[q].op \in Asking, NEW l \in begun'[q].issued
             PROVE  /\ l \in Issued' /\ links'[l].user = UserOf(call[q])'
                    /\ links'[l].type = LinkType(call'[q])
                    /\ pc'[q] \in {"issue", "mail"} => links'[l].consumed
  BY DEF SpentInv, LinkType
<1>m. /\ Issued \subseteq Issued'
      /\ \A k \in Issued : /\ k \in LinkIds /\ links'[k].user = links[k].user /\ links'[k].type = links[k].type
                           /\ links[k].consumed => links'[k].consumed
  BY <1>0, Monotone DEF Issued
<1>1. ASSUME NEW c \in Calls, Begin(q, c)
      PROVE  /\ l \in Issued' /\ links'[l].user = UserOf(call[q])' /\ links'[l].type = LinkType(call'[q])
             /\ pc'[q] \notin {"issue", "mail"}
  <2>1. pc[q] = "idle" /\ call'[q] = c /\ pc'[q] = FirstStep(c) /\ References(c)
    BY <1>1, BeginFacts
  <2>2. l \in Issued /\ links[l].user = UserOf(c) /\ links[l].type = LinkType(c)
    <3>1. l \in Snapshot(c).issued
      BY <2>1, Remembered
    <3> QED  BY <3>1 DEF Snapshot
  <2>3. UserOf(c)' = UserOf(call[q])' /\ UserOf(c)' = UserOf(c)
    BY <1>0, <2>1, CallKept DEF UserOf
  <2> QED  BY <1>m, <2>1, <2>2, <2>3, FirstStepFacts
<1>2. CASE pc[q] # "idle" /\ call'[q] = call[q]
  <2>1. /\ l \in Issued /\ links[l].user = UserOf(call[q]) /\ links[l].type = LinkType(call[q])
        /\ pc[q] \in {"issue", "mail"} => links[l].consumed
    BY <1>2, Remembered DEF SpentInv
  <2>2. /\ l \in Issued' /\ links'[l].user = UserOf(call[q])' /\ links'[l].type = LinkType(call'[q])
    BY <1>0, <1>m, <1>2, <2>1, SameUser
  <2>3. CASE Rests(q)
    BY <1>m, <2>1, <2>2, <2>3 DEF Rests
  <2>4. CASE RequestStep(q) /\ Progress(q)
    <3> SUFFICES ASSUME pc'[q] \in {"issue", "mail"}  PROVE  links'[l].consumed
      BY <2>2
    <3>1. pc[q] = "retire" \/ links[l].consumed
      BY <2>1, <2>4 DEF Progress, Goes
    <3>2. CASE pc[q] = "retire"
      <4>1. RetireLinks(q)
        BY <2>4, <3>2 DEF RequestStep, ReadUser, ReadSession, Authorize, CloseSession, OpenSession, IssueLink,
             SendMail, ReadLink, MarkVerified, SetPassword, ConsumeLink, ListSessions, CloseListed
      <4>2. links'[l] = [links[l] EXCEPT !.consumed = TRUE] /\ links[l] \in LinkRow
        BY <1>m, <2>1, <4>1, RowFacts DEF RetireLinks
      <4> QED  BY <4>2 DEF LinkRow
    <3> QED  BY <1>m, <2>1, <3>1, <3>2
  <2> QED  BY <1>0, <1>2, <2>2, <2>3, <2>4, UnderWay DEF Begin
<1> QED  BY <1>0, <1>1, <1>2, UnderWay DEF Rests

LEMMA InitInv ==
  HInit => IInv
<1> SUFFICES ASSUME HInit  PROVE  IInv
  OBVIOUS
<1> USE DEF HInit, Init
<1>1. TypeOK
  BY LifetimeAssumption DEF TypeOK, Steps
<1>2. StepInv /\ StaleInv /\ ResetInv /\ SpentInv
  BY DEF StepInv, StaleInv, ResetInv, SpentInv
<1>3. RotationInv
  BY DEF RotationInv, Opened
<1> QED  BY <1>1, <1>2, <1>3 DEF IInv

LEMMA NextInv ==
  IInv /\ [HNext]_hvars => IInv'
<1> SUFFICES ASSUME IInv, [HNext]_hvars  PROVE  IInv'
  OBVIOUS
<1>1. CASE HNext
  <2>1. Next /\ TypeOK /\ StepInv
    BY <1>1 DEF HNext, IInv
  <2>2. TypeOK' /\ StepInv'
    BY <2>1, NextKeeps, StepInvStep
  <2>3. RotationInv' /\ StaleInv' /\ ResetInv' /\ SpentInv'
    BY <1>1, RotationStep, StaleStep, ResetStep, SpentStep DEF IInv
  <2> QED  BY <2>2, <2>3 DEF IInv
<1>2. CASE UNCHANGED hvars
  <2> USE <1>2 DEF IInv, hvars, vars, tables
  <2>1. TypeOK'
    BY DEF TypeOK
  <2>2. StepInv'
    BY DEF StepInv, References, Opened, Issued, LinkType
  <2>3. RotationInv'
    BY DEF RotationInv, Opened
  <2>4. StaleInv'
    BY DEF StaleInv, FirstStep, Active, Good
  <2>5. ResetInv'
    BY DEF ResetInv, Opened, UserOf
  <2>6. SpentInv'
    BY DEF SpentInv, Issued, UserOf, LinkType
  <2> QED  BY <2>1, <2>2, <2>3, <2>4, <2>5, <2>6
<1> QED  BY <1>1, <1>2

(* Every behaviour of the watched system keeps the inductive invariant. *)
THEOREM Invariance == HSpec => []IInv
<1> QED  BY InitInv, NextInv, PTL DEF HSpec

(* The tables, requests, clock and failures stay in their sets. *)
THEOREM TypeCorrect == HSpec => []TypeOK
<1>1. IInv => TypeOK
  BY DEF IInv
<1> QED  BY Invariance, <1>1, PTL

(* refresh_auth_response: a session and one refreshed from it are never both  *)
(* open, whichever requests run beside it and whichever of them fail halfway. *)
THEOREM RotationCorrect == HSpec => []RotatedIsClosed
<1>1. IInv => RotatedIsClosed
  BY DEF IInv, RotationInv, RotatedIsClosed
<1> QED  BY Invariance, <1>1, PTL

(* A step that answers a request with success is that request's own. *)
LEMMA WhoSucceeds ==
  ASSUME IInv, Next, NEW r \in Requests, NEW ops, Succeeds(r, ops)
  PROVE  /\ pc[r] # "idle" /\ call[r].op \in ops /\ call[r] \in Calls /\ call[r].op \in OpsAt(pc[r])
         /\ RequestStep(r) /\ pc'[r] = "idle"
         /\ pc[r] \in {"close", "open", "mail", "consume", "close_listed"}
<1>1. reply' = [request |-> r, text |-> "ok"] /\ reply' # None
  BY NoneAssumption DEF Succeeds, Replies
<1>2. pc[r] # "idle" /\ call[r].op \in ops /\ call[r] \in Calls /\ call[r].op \in OpsAt(pc[r])
  BY DEF Succeeds, IInv, StepInv
<1>3. PICK q \in Requests : RequestStep(q) \/ Abort(q)
  BY <1>1 DEF Next, Begin, Tick
<1>4. Progress(q) \/ Success(q) \/ Refusal(q)
  BY <1>3, StepShape DEF IInv
<1>5. Success(q) /\ q = r
  BY <1>1, <1>4 DEF Progress, Goes, Success, Refusal, Ends
<1>6. ~Abort(r)
  BY <1>1 DEF Abort, Answer
<1> QED  BY <1>2, <1>3, <1>5, <1>6 DEF Success, Ends

(* A request that carried a closed or expired session, or a spent or expired  *)
(* link, when it began never succeeds (logout apart).                         *)
THEOREM RefusalCorrect == HSpec => StaleIsRefused
<1>1. ASSUME IInv, HNext, NEW r \in Requests,
             Succeeds(r, {"refresh", "revoke", "ask_verification", "verify", "reset"})
      PROVE  ~begun[r].stale
  <2>1. /\ pc[r] # "idle" /\ call[r].op \in {"refresh", "revoke", "ask_verification", "verify", "reset"}
        /\ pc[r] \in {"close", "open", "mail", "consume", "close_listed"}
    BY <1>1, WhoSucceeds DEF HNext
  <2>2. FirstStep(call[r]) \in {"read_session", "authorize", "read_link"}
    BY <2>1 DEF FirstStep
  <2> QED  BY <1>1, <2>1, <2>2 DEF IInv, StaleInv, WithSession, WithLink
<1>2. IInv /\ [HNext]_hvars =>
        [\A r \in Requests : Succeeds(r, {"refresh", "revoke", "ask_verification", "verify", "reset"})
           => ~begun[r].stale]_hvars
  BY <1>1
<1> QED  BY Invariance, <1>2, PTL DEF HSpec, StaleIsRefused

(* reset_password_with_token: when a reset has answered, no session its user  *)
(* had when it began is open.                                                 *)
THEOREM ResetCorrect == HSpec => ResetClosesSessions
<1>1. ASSUME IInv, HNext, NEW r \in Requests, Succeeds(r, {"reset"}), NEW s \in begun[r].opened
      PROVE  sessions'[s].revoked
  <2>0. Next /\ TypeOK /\ StepInv
    BY <1>1 DEF HNext, IInv
  <2>1. /\ pc[r] # "idle" /\ call[r].op = "reset" /\ call[r].op \in OpsAt(pc[r]) /\ RequestStep(r)
        /\ pc'[r] = "idle" /\ pc[r] \in {"close", "open", "mail", "consume", "close_listed"}
    BY <1>1, <2>0, WhoSucceeds
  <2>2. pc[r] \in {"consume", "close_listed"}
    BY <2>1 DEF OpsAt, Asking
  <2>3. ConsumeLink(r) \/ CloseListed(r)
    BY <2>1, <2>2 DEF RequestStep, ReadUser, ReadSession, Authorize, CloseSession, OpenSession, RetireLinks,
         IssueLink, SendMail, ReadLink, MarkVerified, SetPassword, ListSessions
  <2>4. ~ConsumeLink(r)
    BY <2>0, <2>1, GotoFacts DEF ConsumeLink
  <2>5. pc[r] = "close_listed" /\ listed[r] = {}
    BY <2>0, <2>1, <2>3, <2>4, GotoFacts DEF CloseListed
  <2>6. s \in Opened /\ sessions[s].revoked
    BY <1>1, <2>1, <2>5 DEF IInv, ResetInv
  <2> QED  BY <2>0, <2>6, Monotone
<1>2. IInv /\ [HNext]_hvars =>
        [\A r \in Requests : Succeeds(r, {"reset"}) => \A s \in begun[r].opened : sessions'[s].revoked]_hvars
  BY <1>1
<1> QED  BY Invariance, <1>2, PTL DEF HSpec, ResetClosesSessions

(* create_email_verification, create_password_reset: when a new link is out,  *)
(* none of the kind the user had when the request began is good.              *)
THEOREM LinksCorrect == HSpec => EarlierLinksAreSpent
<1>1. ASSUME IInv, HNext, NEW r \in Requests, Succeeds(r, {"ask_reset", "ask_verification"}),
             NEW l \in begun[r].issued
      PROVE  ~Good(l)'
  <2>0. Next /\ TypeOK /\ StepInv
    BY <1>1 DEF HNext, IInv
  <2>1. /\ pc[r] # "idle" /\ call[r].op \in Asking /\ call[r].op \in OpsAt(pc[r])
        /\ pc[r] \in {"close", "open", "mail", "consume", "close_listed"}
    BY <1>1, <2>0, WhoSucceeds DEF Asking
  <2>2. pc[r] = "mail"
    BY <2>1 DEF OpsAt, Asking, WithLink
  <2>3. l \in Issued /\ links[l].consumed
    BY <1>1, <2>1, <2>2 DEF IInv, SpentInv
  <2>4. ~Good(l)
    BY <2>3 DEF Good
  <2> QED  BY <2>0, <2>3, <2>4, Monotone
<1>2. IInv /\ [HNext]_hvars =>
        [\A r \in Requests : Succeeds(r, {"ask_reset", "ask_verification"}) =>
           \A l \in begun[r].issued : ~Good(l)']_hvars
  BY <1>1
<1> QED  BY Invariance, <1>2, PTL DEF HSpec, EarlierLinksAreSpent

=============================================================================
