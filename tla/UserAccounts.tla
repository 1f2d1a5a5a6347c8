---------------------------- MODULE UserAccounts ----------------------------
(***************************************************************************)
(* Signup and the per-user rows of app/db.py: notification_settings and    *)
(* user_signal_profiles.  Handlers run in threads, so the statements of    *)
(* two requests interleave freely: signup checks name and mailbox in       *)
(* transactions of their own before it inserts, and a PATCH reads the row, *)
(* fills in the fields the request leaves out and writes the whole row.    *)
(* Each step is one transaction.                                           *)
(*                                                                         *)
(* Fields: of a profile, one switch and one threshold stand for all nine,  *)
(* which are filled in alike; 0 and 1 are two admissible values of each.   *)
(* Bound: MaxFailures (failing statements).                                *)
(***************************************************************************)
EXTENDS Naturals, FiniteSets

CONSTANTS
  Requests,
  Usernames, Mailboxes,  \* Mailboxes: e-mail addresses after normalize_email
  Spellings,             \* e-mail addresses as users type them
  Normalize,             \* normalize_email: a function from Spellings to Mailboxes
  DemoUser, DemoMailbox, \* the seeded account
  MaxFailures,
  None

ASSUME AccountsAssumption ==
  /\ DemoUser \in Usernames /\ DemoMailbox \in Mailboxes
  /\ Normalize \in [Spellings -> Mailboxes] /\ Mailboxes \subseteq Spellings
  /\ \A m \in Mailboxes : Normalize[m] = m
  /\ MaxFailures \in Nat

SettingsFields == {"web_enabled", "email_enabled"}
ProfileFields  == {"is_enabled", "score_threshold"}
Values == {0, 1}

(* Rows are named by their table and user; a profile has a symbol as well, of *)
(* which one is enough: no statement touches two rows.                        *)
Rows == {"settings", "profile"} \X Usernames
Fields(row) == IF row[1] = "settings" THEN SettingsFields ELSE ProfileFields

(* The values ensure_notification_settings and _default_signal_profile insert. *)
SettingsDefault == [f \in SettingsFields |-> IF f = "web_enabled" THEN 1 ELSE 0]
ProfileDefault  == [f \in ProfileFields |-> 1]
Default(row)    == IF row[1] = "settings" THEN SettingsDefault ELSE ProfileDefault

Patches(row) == UNION {[fields -> Values] : fields \in SUBSET Fields(row)}
Contents     == [SettingsFields -> Values] \cup [ProfileFields -> Values]

ASSUME NoneAssumption == None \notin Contents

Signups == [op: {"signup"}, name: Usernames, email: Spellings]
Reads   == [op: {"get"}, row: Rows]
Updates == UNION {[op: {"patch"}, row: {row}, patch: Patches(row)] : row \in Rows}
Calls   == Signups \cup Reads \cup Updates

VARIABLES
  users,     \* table users: pairs (username, e-mail), each unique
  rows,      \* tables notification_settings and user_signal_profiles
  sessions,  \* requests that have opened their session
  call, at,  \* per request: what was asked, and the step it is before
  seen,      \* per request: the row it has read
  overtaken, \* history: fields other requests changed since this one last read or wrote
  failures

vars == <<users, rows, sessions, call, at, seen, overtaken, failures>>

Steps    == {"idle", "name", "mailbox", "insert", "session", "ensure", "read",
             "write", "ensure_again", "read_again"}
Outcomes == {"created", "conflict", "error", "answered"}

TypeOK ==
  /\ users \in SUBSET (Usernames \X Mailboxes)
  /\ rows \in [Rows -> Contents \cup {None}]
  /\ \A row \in Rows : rows[row] # None => DOMAIN rows[row] = Fields(row)
  /\ sessions \subseteq Requests
  /\ call \in [Requests -> Calls \cup {None}]
  /\ at \in [Requests -> Steps \cup Outcomes]
  /\ seen \in [Requests -> Contents \cup {None}]
  /\ overtaken \in [Requests -> SUBSET (SettingsFields \cup ProfileFields)]
  /\ failures \in 0..MaxFailures

Init ==
  /\ users = {<<DemoUser, DemoMailbox>>}
  /\ rows = [row \in Rows |-> IF row = <<"settings", DemoUser>> THEN SettingsDefault ELSE None]
  /\ sessions = {} /\ failures = 0
  /\ call = [r \in Requests |-> None] /\ at = [r \in Requests |-> "idle"]
  /\ seen = [r \in Requests |-> None] /\ overtaken = [r \in Requests |-> {}]

Goto(r, step)   == at' = [at EXCEPT ![r] = step]
NameTaken(n)    == \E user \in users : user[1] = n
MailboxTaken(m) == \E user \in users : user[2] = m

(* A request arrives; only a user's own token gets to the rows. *)
Begin(r) ==
  /\ at[r] = "idle"
  /\ \/ \E c \in Signups :
          call' = [call EXCEPT ![r] = c] /\ Goto(r, "name")
     \/ \E c \in Reads \cup Updates :
          NameTaken(c.row[2]) /\ call' = [call EXCEPT ![r] = c] /\ Goto(r, "ensure")
  /\ UNCHANGED <<users, rows, sessions, seen, overtaken, failures>>

-----------------------------------------------------------------------------
(* signup *)
CheckName(r) ==
  /\ at[r] = "name"
  /\ Goto(r, IF NameTaken(call[r].name) THEN "conflict" ELSE "mailbox")
  /\ UNCHANGED <<users, rows, sessions, call, seen, overtaken, failures>>

(* SELECT id FROM users WHERE email = ?, with the normalized address. *)
MailboxFound(r) == MailboxTaken(Normalize[call[r].email])

CheckMailbox(r) ==
  /\ at[r] = "mailbox"
  /\ Goto(r, IF MailboxFound(r) THEN "conflict" ELSE "insert")
  /\ UNCHANGED <<users, rows, sessions, call, seen, overtaken, failures>>

\* Mutant: the address is stored as typed.
AsTyped(r) == <<call[r].name, call[r].email>>

(* create_user normalizes the address. *)
NewUser(r) == <<call[r].name, Normalize[call[r].email]>>

\* Mutant: a user that is already there is not inserted, and that is no error.
InsertOrIgnore(r) ==
  /\ at[r] = "insert"
  /\ users' = IF NameTaken(NewUser(r)[1]) \/ MailboxTaken(NewUser(r)[2]) THEN users ELSE users \cup {NewUser(r)}
  /\ rows' = [rows EXCEPT ![<<"settings", call[r].name>>] = IF @ = None THEN SettingsDefault ELSE @]
  /\ Goto(r, "session")
  /\ UNCHANGED <<sessions, call, seen, overtaken, failures>>

\* Mutant: the table has no unique constraint; the two SELECTs decide alone.
InsertUnconstrained(r) ==
  /\ at[r] = "insert"
  /\ users' = users \cup {NewUser(r)}
  /\ rows' = [rows EXCEPT ![<<"settings", call[r].name>>] = IF @ = None THEN SettingsDefault ELSE @]
  /\ Goto(r, "session")
  /\ UNCHANGED <<sessions, call, seen, overtaken, failures>>

(* create_user: user and settings in one transaction, which the unique        *)
(* constraints on both columns make fail for the loser of a race.             *)
CreateUser(r) ==
  /\ at[r] = "insert"
  /\ IF NameTaken(NewUser(r)[1]) \/ MailboxTaken(NewUser(r)[2])
     THEN Goto(r, "error") /\ UNCHANGED <<users, rows>>
     ELSE /\ users' = users \cup {NewUser(r)}
          /\ rows' = [rows EXCEPT ![<<"settings", call[r].name>>] = IF @ = None THEN SettingsDefault ELSE @]
          /\ Goto(r, "session")
  /\ UNCHANGED <<sessions, call, seen, overtaken, failures>>

(* build_auth_response. *)
OpenSession(r) ==
  /\ at[r] = "session"
  /\ sessions' = sessions \cup {r}
  /\ Goto(r, "created")
  /\ UNCHANGED <<users, rows, call, seen, overtaken, failures>>

-----------------------------------------------------------------------------
(* INSERT ... ON CONFLICT DO NOTHING, before each of the two reads. *)
EnsureRow(r, default) ==
  /\ rows' = [rows EXCEPT ![call[r].row] = IF @ = None THEN default ELSE @]
  /\ Goto(r, IF at[r] = "ensure" THEN "read" ELSE "read_again")
  /\ UNCHANGED <<users, sessions, call, seen, overtaken, failures>>

EnsureNotificationSettings(r) ==
  /\ at[r] \in {"ensure", "ensure_again"} /\ call[r].row[1] = "settings"
  /\ EnsureRow(r, SettingsDefault)

EnsureUserSignalProfile(r) ==
  /\ at[r] \in {"ensure", "ensure_again"} /\ call[r].row[1] = "profile"
  /\ EnsureRow(r, ProfileDefault)

(* The read of the row: the answer, unless it is the first read of a PATCH. *)
ReadRow(r) ==
  /\ seen' = [seen EXCEPT ![r] = rows[call[r].row]]
  /\ overtaken' = [overtaken EXCEPT ![r] = {}]
  /\ Goto(r, IF at[r] = "read" /\ call[r].op = "patch" THEN "write" ELSE "answered")
  /\ UNCHANGED <<users, rows, sessions, call, failures>>

GetNotificationSettings(r) ==
  /\ at[r] \in {"read", "read_again"} /\ call[r].row[1] = "settings"
  /\ ReadRow(r)

GetUserSignalProfile(r) ==
  /\ at[r] \in {"read", "read_again"} /\ call[r].row[1] = "profile"
  /\ ReadRow(r)

\* Mutant: the fields the request leaves out go back to their defaults.
FillWithDefaults(r) ==
  [f \in DOMAIN seen[r] |->
     IF f \in DOMAIN call[r].patch THEN call[r].patch[f] ELSE Default(call[r].row)[f]]

\* Mutant: a field set to false is taken for one that is left out.
FalseIsAbsent(r) ==
  [f \in DOMAIN seen[r] |->
     IF f \in DOMAIN call[r].patch /\ call[r].patch[f] # 0 THEN call[r].patch[f] ELSE seen[r][f]]

(* next_values: the request's fields, the others as they were read. *)
FillIn(r) ==
  [f \in DOMAIN seen[r] |->
     IF f \in DOMAIN call[r].patch THEN call[r].patch[f] ELSE seen[r][f]]

(* The upsert writes every field of the row. *)
WriteRow(r) ==
  /\ rows' = [rows EXCEPT ![call[r].row] = FillIn(r)]
  /\ overtaken' = [q \in Requests |->
       IF q = r THEN {}
       ELSE IF at[q] \in {"write", "ensure_again", "read_again"} /\ call[q].row = call[r].row
       THEN overtaken[q] \cup {f \in Fields(call[r].row) : rows'[call[r].row][f] # rows[call[r].row][f]}
       ELSE overtaken[q]]
  /\ Goto(r, "ensure_again")
  /\ UNCHANGED <<users, sessions, call, seen, failures>>

UpdateNotificationSettings(r) ==
  at[r] = "write" /\ call[r].row[1] = "settings" /\ WriteRow(r)

UpdateUserSignalProfile(r) ==
  at[r] = "write" /\ call[r].row[1] = "profile" /\ WriteRow(r)

(* A statement fails: its transaction is rolled back, earlier ones stay. *)
Fail(r) ==
  /\ at[r] \in Steps \ {"idle"} /\ failures < MaxFailures
  /\ failures' = failures + 1
  /\ Goto(r, "error")
  /\ UNCHANGED <<users, rows, sessions, call, seen, overtaken>>

Next == \E r \in Requests :
  \/ Begin(r) \/ CheckName(r) \/ CheckMailbox(r) \/ CreateUser(r) \/ OpenSession(r)
  \/ EnsureNotificationSettings(r) \/ EnsureUserSignalProfile(r)
  \/ GetNotificationSettings(r) \/ GetUserSignalProfile(r)
  \/ UpdateNotificationSettings(r) \/ UpdateUserSignalProfile(r) \/ Fail(r)

Spec == Init /\ [][Next]_vars

-----------------------------------------------------------------------------
(* However signups race, a name and a mailbox belong to one account, and every *)
(* account has its settings from its first moment (main.py:279, db.py:820).    *)
OneAccountEach ==
  \A u, v \in users :
    /\ u[1] = v[1] \/ Normalize[u[2]] = Normalize[v[2]] => u = v
    /\ rows[<<"settings", u[1]>>] # None

(* No two signups are both told that they created the same account, and one    *)
(* that is told 409 did meet an account with its name or mailbox (main.py:281).*)
HonestSignup ==
  \A r, q \in Requests :
    /\ at[r] = "created" => NewUser(r) \in users
    /\ at[r] = "created" /\ at[q] = "created" /\ r # q => NewUser(r)[1] # NewUser(q)[1]
    /\ at[r] = "conflict" => NameTaken(call[r].name) \/ MailboxTaken(Normalize[call[r].email])

(* A PATCH changes a field it does not name only back to a value that another  *)
(* PATCH has changed since this one read the row: requests that do not overlap *)
(* never disturb each other's fields (db.py:1036 and 1355).                    *)
RevertsOnlyOverlapping ==
  [][\A r \in Requests : at[r] = "write" /\ at'[r] = "ensure_again" =>
       LET row == call[r].row IN
       \A f \in Fields(row) \ DOMAIN call[r].patch :
         rows'[row][f] # rows[row][f] => f \in overtaken[r] /\ rows'[row][f] = seen[r][f]]_vars

(* The answer to a PATCH shows the fields it asked for, unless another request *)
(* changed them after the row was written (db.py:1057 and 1383).               *)
AnswerShowsPatch ==
  [][\A r \in Requests :
       at[r] = "read_again" /\ at'[r] = "answered" =>
         \A f \in DOMAIN call[r].patch :
           f \in overtaken[r] \/ seen'[r][f] = call[r].patch[f]]_vars
=============================================================================
