------------------------- MODULE UserAccountsProofs -------------------------
(***************************************************************************)
(* Theorems about UserAccounts, for any requests, names, addresses and     *)
(* failing statements.                                                     *)
(***************************************************************************)
EXTENDS UserAccounts, TLAPS

(* What a request carries decides which steps it is at. *)
CallInv ==
  \A r \in Requests :
    /\ at[r] \in {"name", "mailbox", "insert", "session", "created", "conflict"} =>
         call[r] \in Signups
    /\ at[r] \in {"ensure", "read", "write", "ensure_again", "read_again"} =>
         call[r] \in Reads \cup Updates
    /\ at[r] \in {"write", "ensure_again", "read_again"} => call[r] \in Updates

(* A row that a request is about to read is there, and has all its fields. *)
RowInv ==
  /\ \A row \in Rows : rows[row] # None => rows[row] \in [Fields(row) -> Values]
  /\ \A r \in Requests :
       /\ at[r] \in {"read", "write", "ensure_again", "read_again"} => rows[call[r].row] # None
       /\ at[r] = "write" => seen[r] \in [Fields(call[r].row) -> Values]

(* Stored addresses are normalized, so the unique columns keep accounts apart. *)
UserInv ==
  /\ \A u \in users : u[2] \in Mailboxes /\ rows[<<"settings", u[1]>>] # None
  /\ \A u, v \in users : u[1] = v[1] \/ u[2] = v[2] => u = v

(* An account that a signup created is its own, from the insert to the answer. *)
Created(r) == at[r] \in {"session", "created"}

SignupInv ==
  \A r, q \in Requests :
    /\ Created(r) => NewUser(r) \in users
    /\ Created(r) /\ Created(q) /\ r # q => NewUser(r)[1] # NewUser(q)[1]
    /\ at[r] = "conflict" => NameTaken(call[r].name) \/ MailboxTaken(Normalize[call[r].email])

(* The row is as a PATCH read it, and later as it wrote it, but for the fields *)
(* that others have changed since.                                             *)
PatchInv ==
  \A r \in Requests :
    /\ at[r] = "write" =>
         \A f \in Fields(call[r].row) : f \in overtaken[r] \/ rows[call[r].row][f] = seen[r][f]
    /\ at[r] \in {"ensure_again", "read_again"} =>
         \A f \in DOMAIN call[r].patch :
           f \in overtaken[r] \/ rows[call[r].row][f] = call[r].patch[f]

(* The inductive invariant. *)
IInv == TypeOK /\ CallInv /\ RowInv /\ UserInv /\ SignupInv /\ PatchInv

-----------------------------------------------------------------------------
(* Calls and rows. *)

LEMMA RowFacts ==
  ASSUME NEW row \in Rows
  PROVE  /\ row[1] \in {"settings", "profile"} /\ row[2] \in Usernames
         /\ Fields(row) \subseteq SettingsFields \cup ProfileFields
         /\ [Fields(row) -> Values] \subseteq Contents
         /\ Default(row) \in [Fields(row) -> Values]
<1>1. row[1] \in {"settings", "profile"} /\ row[2] \in Usernames
  BY DEF Rows
<1>2. SettingsDefault \in [SettingsFields -> Values] /\ ProfileDefault \in [ProfileFields -> Values]
  BY DEF SettingsDefault, ProfileDefault, Values
<1> QED  BY <1>1, <1>2 DEF Fields, Contents, Default

LEMMA SettingsRow ==
  ASSUME NEW n \in Usernames
  PROVE  /\ <<"settings", n>> \in Rows /\ Fields(<<"settings", n>>) = SettingsFields
         /\ SettingsDefault \in [Fields(<<"settings", n>>) -> Values]
BY DEF Rows, Fields, SettingsDefault, Values

LEMMA SignupFacts ==
  ASSUME NEW c \in Signups
  PROVE  c.name \in Usernames /\ c.email \in Spellings
BY DEF Signups

LEMMA UpdateFacts ==
  ASSUME NEW c \in Updates
  PROVE  /\ c.op = "patch" /\ c.row \in Rows
         /\ DOMAIN c.patch \subseteq Fields(c.row)
         /\ \A f \in DOMAIN c.patch : c.patch[f] \in Values
<1>1. PICK row \in Rows : c \in [op: {"patch"}, row: {row}, patch: Patches(row)]
  BY DEF Updates
<1>2. c.op = "patch" /\ c.row = row /\ c.patch \in Patches(row)
  BY <1>1
<1>3. PICK fields \in SUBSET Fields(row) : c.patch \in [fields -> Values]
  BY <1>2 DEF Patches
<1> QED  BY <1>2, <1>3

LEMMA RowCallFacts ==
  ASSUME NEW c \in Reads \cup Updates
  PROVE  c.row \in Rows /\ (c.op = "patch" => c \in Updates)
BY UpdateFacts DEF Reads

LEMMA GotoFacts ==
  ASSUME TypeOK, NEW r \in Requests, NEW step, Goto(r, step)
  PROVE  /\ at'[r] = step /\ \A q \in Requests \ {r} : at'[q] = at[q]
         /\ step \in Steps \cup Outcomes => at' \in [Requests -> Steps \cup Outcomes]
BY DEF TypeOK, Goto

(* The actions on rows, without the names of their tables. *)
Ensure(r) == at[r] \in {"ensure", "ensure_again"} /\ EnsureRow(r, Default(call[r].row))
Read(r)   == at[r] \in {"read", "read_again"} /\ ReadRow(r)
Write(r)  == at[r] = "write" /\ WriteRow(r)

LEMMA RowActions ==
  ASSUME TypeOK, CallInv, NEW r \in Requests
  PROVE  /\ EnsureNotificationSettings(r) \/ EnsureUserSignalProfile(r) => Ensure(r)
         /\ GetNotificationSettings(r) \/ GetUserSignalProfile(r) => Read(r)
         /\ UpdateNotificationSettings(r) \/ UpdateUserSignalProfile(r) => Write(r)
BY DEF EnsureNotificationSettings, EnsureUserSignalProfile, GetNotificationSettings,
       GetUserSignalProfile, UpdateNotificationSettings, UpdateUserSignalProfile,
       Ensure, Read, Write, Default

(* A row that is there stays, but for what the write of a PATCH puts in it. *)
LEMMA EnsureFacts ==
  ASSUME TypeOK, CallInv, RowInv, NEW r \in Requests, Ensure(r)
  PROVE  /\ call[r].row \in Rows /\ rows'[call[r].row] \in [Fields(call[r].row) -> Values]
         /\ \A row \in Rows : rows[row] # None \/ row # call[r].row => rows'[row] = rows[row]
         /\ rows' = [rows EXCEPT ![call[r].row] = rows'[call[r].row]]
         /\ at'[r] = IF at[r] = "ensure" THEN "read" ELSE "read_again"
         /\ \A q \in Requests \ {r} : at'[q] = at[q]
         /\ at' \in [Requests -> Steps \cup Outcomes]
         /\ UNCHANGED <<users, sessions, call, seen, overtaken, failures>>
<1>1. call[r].row \in Rows
  BY RowCallFacts DEF Ensure, CallInv
<1>2. rows'[call[r].row] = IF rows[call[r].row] = None THEN Default(call[r].row) ELSE rows[call[r].row]
  BY <1>1 DEF Ensure, EnsureRow, TypeOK
<1>3. rows'[call[r].row] \in [Fields(call[r].row) -> Values]
  BY <1>1, <1>2, RowFacts DEF RowInv
<1>4. \A row \in Rows : rows[row] # None \/ row # call[r].row => rows'[row] = rows[row]
  BY <1>1, <1>2 DEF Ensure, EnsureRow, TypeOK
<1>5. rows' = [rows EXCEPT ![call[r].row] = rows'[call[r].row]]
  BY <1>1 DEF Ensure, EnsureRow, TypeOK
<1>6. Goto(r, IF at[r] = "ensure" THEN "read" ELSE "read_again")
  BY DEF Ensure, EnsureRow
<1>7. (IF at[r] = "ensure" THEN "read" ELSE "read_again") \in Steps \cup Outcomes
  BY DEF Steps
<1> QED  BY <1>1, <1>3, <1>4, <1>5, <1>6, <1>7, GotoFacts DEF Ensure, EnsureRow

LEMMA ReadFacts ==
  ASSUME TypeOK, CallInv, RowInv, NEW r \in Requests, Read(r)
  PROVE  /\ call[r].row \in Rows /\ rows[call[r].row] \in [Fields(call[r].row) -> Values]
         /\ seen' = [seen EXCEPT ![r] = rows[call[r].row]] /\ seen'[r] = rows[call[r].row]
         /\ overtaken' = [overtaken EXCEPT ![r] = {}]
         /\ at'[r] = IF at[r] = "read" /\ call[r].op = "patch" THEN "write" ELSE "answered"
         /\ at'[r] = "write" => call[r] \in Updates
         /\ \A q \in Requests \ {r} : at'[q] = at[q]
         /\ at' \in [Requests -> Steps \cup Outcomes]
         /\ UNCHANGED <<users, rows, sessions, call, failures>>
<1>1. call[r] \in Reads \cup Updates /\ call[r].row \in Rows
      /\ (call[r].op = "patch" => call[r] \in Updates)
  BY RowCallFacts DEF Read, CallInv
<1>2. rows[call[r].row] \in [Fields(call[r].row) -> Values]
  BY <1>1 DEF Read, RowInv
<1>3. Goto(r, IF at[r] = "read" /\ call[r].op = "patch" THEN "write" ELSE "answered")
  BY DEF Read, ReadRow
<1>4. (IF at[r] = "read" /\ call[r].op = "patch" THEN "write" ELSE "answered") \in Steps \cup Outcomes
  BY DEF Steps, Outcomes
<1>5. seen' = [seen EXCEPT ![r] = rows[call[r].row]] /\ seen'[r] = rows[call[r].row]
  BY DEF Read, ReadRow, TypeOK
<1> QED  BY <1>1, <1>2, <1>3, <1>4, <1>5, GotoFacts DEF Read, ReadRow

LEMMA WriteFacts ==
  ASSUME TypeOK, CallInv, RowInv, NEW r \in Requests, Write(r)
  PROVE  /\ call[r] \in Updates /\ call[r].row \in Rows
         /\ rows'[call[r].row] \in [Fields(call[r].row) -> Values]
         /\ \A f \in Fields(call[r].row) :
              rows'[call[r].row][f] =
                IF f \in DOMAIN call[r].patch THEN call[r].patch[f] ELSE seen[r][f]
         /\ \A row \in Rows \ {call[r].row} : rows'[row] = rows[row]
         /\ rows' = [rows EXCEPT ![call[r].row] = rows'[call[r].row]]
         /\ \A q \in Requests \ {r} : overtaken[q] \subseteq overtaken'[q]
         /\ \A q \in Requests \ {r} :
              /\ at'[q] = at[q]
              /\ at[q] \in {"write", "ensure_again", "read_again"} /\ call[q].row = call[r].row =>
                   \A f \in Fields(call[r].row) :
                     f \in overtaken'[q] \/ rows'[call[r].row][f] = rows[call[r].row][f]
         /\ overtaken' \in [Requests -> SUBSET (SettingsFields \cup ProfileFields)]
         /\ at'[r] = "ensure_again" /\ at' \in [Requests -> Steps \cup Outcomes]
         /\ UNCHANGED <<users, sessions, call, seen, failures>>
<1>1. call[r] \in Updates /\ call[r].row \in Rows /\ DOMAIN call[r].patch \subseteq Fields(call[r].row)
      /\ \A f \in DOMAIN call[r].patch : call[r].patch[f] \in Values
  BY UpdateFacts DEF Write, CallInv
<1>2. seen[r] \in [Fields(call[r].row) -> Values]
  BY DEF Write, RowInv
<1>3. rows'[call[r].row] = FillIn(r) /\ rows' = [rows EXCEPT ![call[r].row] = rows'[call[r].row]]
      /\ \A row \in Rows \ {call[r].row} : rows'[row] = rows[row]
  BY <1>1 DEF Write, WriteRow, TypeOK
<1>4. FillIn(r) \in [Fields(call[r].row) -> Values]
  BY <1>1, <1>2 DEF FillIn
<1>5. \A f \in Fields(call[r].row) :
        FillIn(r)[f] = IF f \in DOMAIN call[r].patch THEN call[r].patch[f] ELSE seen[r][f]
  BY <1>1, <1>2 DEF FillIn
<1>6. Goto(r, "ensure_again") /\ "ensure_again" \in Steps
  BY DEF Write, WriteRow, Steps
<1>7. at'[r] = "ensure_again" /\ at' \in [Requests -> Steps \cup Outcomes]
      /\ \A q \in Requests \ {r} : at'[q] = at[q]
  BY <1>6, GotoFacts
<1>8. overtaken' = [q \in Requests |->
        IF q = r THEN {}
        ELSE IF at[q] \in {"write", "ensure_again", "read_again"} /\ call[q].row = call[r].row
        THEN overtaken[q] \cup {f \in Fields(call[r].row) : rows'[call[r].row][f] # rows[call[r].row][f]}
        ELSE overtaken[q]]
  BY DEF Write, WriteRow
<1>9. overtaken' \in [Requests -> SUBSET (SettingsFields \cup ProfileFields)]
  BY <1>1, <1>8, RowFacts DEF TypeOK
<1>10. /\ \A q \in Requests \ {r} : overtaken[q] \subseteq overtaken'[q]
       /\ \A q \in Requests \ {r} :
            at[q] \in {"write", "ensure_again", "read_again"} /\ call[q].row = call[r].row =>
              \A f \in Fields(call[r].row) :
                f \in overtaken'[q] \/ rows'[call[r].row][f] = rows[call[r].row][f]
  BY <1>8
<1> QED  BY <1>1, <1>3, <1>4, <1>5, <1>7, <1>9, <1>10 DEF Write, WriteRow

(* CreateUser inserts an account with a free name and a free mailbox, or fails. *)
LEMMA CreateFacts ==
  ASSUME TypeOK, CallInv, NEW r \in Requests, CreateUser(r)
  PROVE  /\ call[r] \in Signups /\ NewUser(r) \in Usernames \X Mailboxes
         /\ at' \in [Requests -> Steps \cup Outcomes]
         /\ \A q \in Requests \ {r} : at'[q] = at[q]
         /\ UNCHANGED <<sessions, call, seen, overtaken, failures>>
         /\ \/ at'[r] = "error" /\ UNCHANGED <<users, rows>>
            \/ /\ at'[r] = "session" /\ users' = users \cup {NewUser(r)}
               /\ \A u \in users : u[1] # NewUser(r)[1] /\ u[2] # NewUser(r)[2]
               /\ rows' \in [Rows -> Contents \cup {None}]
               /\ rows'[<<"settings", call[r].name>>] \in Contents
               /\ \A row \in Rows : rows[row] # None => rows'[row] = rows[row]
               /\ \A row \in Rows : rows'[row] # rows[row] =>
                    rows'[row] \in [Fields(row) -> Values]
<1>1. call[r] \in Signups
  BY DEF CreateUser, CallInv
<1>2. call[r].name \in Usernames /\ call[r].email \in Spellings
  BY <1>1, SignupFacts
<1>3. NewUser(r) \in Usernames \X Mailboxes
  BY <1>2, AccountsAssumption DEF NewUser
<1>4. CASE NameTaken(NewUser(r)[1]) \/ MailboxTaken(NewUser(r)[2])
  <2>1. Goto(r, "error") /\ "error" \in Outcomes /\ UNCHANGED <<users, rows>>
    BY <1>4 DEF CreateUser, Outcomes
  <2> QED  BY <1>1, <1>3, <2>1, GotoFacts DEF CreateUser
<1>5. CASE ~(NameTaken(NewUser(r)[1]) \/ MailboxTaken(NewUser(r)[2]))
  <2> DEFINE row == <<"settings", call[r].name>>
  <2>1. row \in Rows /\ SettingsDefault \in [Fields(row) -> Values] /\ SettingsDefault \in Contents
    BY <1>2, SettingsRow, RowFacts
  <2>2. /\ Goto(r, "session") /\ "session" \in Steps /\ users' = users \cup {NewUser(r)}
        /\ rows' = [rows EXCEPT ![row] = IF @ = None THEN SettingsDefault ELSE @]
    BY <1>5 DEF CreateUser, Steps
  <2> HIDE DEF row
  <2>3. rows'[row] = IF rows[row] = None THEN SettingsDefault ELSE rows[row]
    BY <2>1, <2>2 DEF TypeOK
  <2>4. rows[row] \in Contents \cup {None} /\ \A w \in Rows \ {row} : rows'[w] = rows[w]
    BY <2>1, <2>2 DEF TypeOK
  <2>5. rows' \in [Rows -> Contents \cup {None}]
    BY <2>1, <2>2 DEF TypeOK
  <2>6. \A u \in users : u[1] # NewUser(r)[1] /\ u[2] # NewUser(r)[2]
    BY <1>5 DEF NameTaken, MailboxTaken
  <2>7. rows'[row] \in Contents /\ (rows[row] # None => rows'[row] = rows[row])
        /\ (rows'[row] # rows[row] => rows'[row] \in [Fields(row) -> Values])
    BY <2>1, <2>3, <2>4
  <2>8. at'[r] = "session" /\ at' \in [Requests -> Steps \cup Outcomes]
        /\ \A q \in Requests \ {r} : at'[q] = at[q]
    BY <2>2, GotoFacts
  <2>9. UNCHANGED <<sessions, call, seen, overtaken, failures>>
    BY DEF CreateUser
  <2> QED  BY <1>1, <1>3, <2>2, <2>4, <2>5, <2>6, <2>7, <2>8, <2>9 DEF row
<1> QED  BY <1>4, <1>5

(* The steps that leave every table alone: begin, checks, session, failure. *)
Plain(r) == Begin(r) \/ CheckName(r) \/ CheckMailbox(r) \/ OpenSession(r) \/ Fail(r)

LEMMA PlainFacts ==
  ASSUME TypeOK, CallInv, NEW r \in Requests, Plain(r)
  PROVE  /\ UNCHANGED <<users, rows, seen, overtaken>>
         /\ sessions' \subseteq Requests /\ failures' \in 0..MaxFailures
         /\ call' \in [Requests -> Calls \cup {None}] /\ at' \in [Requests -> Steps \cup Outcomes]
         /\ \A q \in Requests \ {r} : at'[q] = at[q] /\ call'[q] = call[q]
         /\ \/ at'[r] = "name" /\ call'[r] \in Signups
            \/ at'[r] = "ensure" /\ call'[r] \in Reads \cup Updates
            \/ at'[r] = "error" /\ call' = call
            \/ /\ call' = call /\ call[r] \in Signups
               /\ \/ at'[r] \in {"mailbox", "insert"}
                  \/ at'[r] = "created" /\ at[r] = "session"
                  \/ /\ at'[r] = "conflict"
                     /\ NameTaken(call[r].name) \/ MailboxTaken(Normalize[call[r].email])
<1> USE AccountsAssumption
<1>1. CASE Begin(r)
  <2>1. PICK c \in Calls, step \in {"name", "ensure"} :
          /\ call' = [call EXCEPT ![r] = c] /\ Goto(r, step)
          /\ step = "name" => c \in Signups
          /\ step = "ensure" => c \in Reads \cup Updates
    BY <1>1 DEF Begin, Calls
  <2>2. step \in Steps
    BY DEF Steps
  <2>3. call' \in [Requests -> Calls \cup {None}] /\ call'[r] = c
        /\ \A q \in Requests \ {r} : call'[q] = call[q]
    BY <2>1 DEF TypeOK
  <2>4. at'[r] = step /\ at' \in [Requests -> Steps \cup Outcomes]
        /\ \A q \in Requests \ {r} : at'[q] = at[q]
    BY <2>1, <2>2, GotoFacts
  <2> QED  BY <1>1, <2>1, <2>3, <2>4 DEF Begin, TypeOK
<1>2. CASE CheckName(r)
  <2> DEFINE step == IF NameTaken(call[r].name) THEN "conflict" ELSE "mailbox"
  <2>1. Goto(r, step) /\ step \in Steps \cup Outcomes
    BY <1>2 DEF CheckName, Steps, Outcomes
  <2>2. at'[r] = step /\ at' \in [Requests -> Steps \cup Outcomes]
        /\ \A q \in Requests \ {r} : at'[q] = at[q]
    BY <2>1, GotoFacts
  <2> QED  BY <1>2, <2>2 DEF CheckName, CallInv, TypeOK
<1>3. CASE CheckMailbox(r)
  <2> DEFINE step == IF MailboxFound(r) THEN "conflict" ELSE "insert"
  <2>1. Goto(r, step) /\ step \in Steps \cup Outcomes
    BY <1>3 DEF CheckMailbox, Steps, Outcomes
  <2>2. at'[r] = step /\ at' \in [Requests -> Steps \cup Outcomes]
        /\ \A q \in Requests \ {r} : at'[q] = at[q]
    BY <2>1, GotoFacts
  <2> QED  BY <1>3, <2>2 DEF CheckMailbox, MailboxFound, CallInv, TypeOK
<1>4. CASE OpenSession(r)
  <2>1. Goto(r, "created") /\ "created" \in Outcomes
    BY <1>4 DEF OpenSession, Outcomes
  <2>2. at'[r] = "created" /\ at' \in [Requests -> Steps \cup Outcomes]
        /\ \A q \in Requests \ {r} : at'[q] = at[q]
    BY <2>1, GotoFacts
  <2> QED  BY <1>4, <2>2 DEF OpenSession, CallInv, TypeOK
<1>5. CASE Fail(r)
  <2>1. Goto(r, "error") /\ "error" \in Outcomes
    BY <1>5 DEF Fail, Outcomes
  <2>2. at'[r] = "error" /\ at' \in [Requests -> Steps \cup Outcomes]
        /\ \A q \in Requests \ {r} : at'[q] = at[q]
    BY <2>1, GotoFacts
  <2>3. failures' \in 0..MaxFailures
    BY <1>5 DEF Fail, TypeOK
  <2> QED  BY <1>5, <2>2, <2>3 DEF Fail, TypeOK
<1> QED  BY <1>1, <1>2, <1>3, <1>4, <1>5 DEF Plain

LEMMA StepCases ==
  ASSUME TypeOK, CallInv, [Next]_vars
  PROVE  \/ UNCHANGED vars
         \/ \E r \in Requests : Plain(r) \/ CreateUser(r) \/ Ensure(r) \/ Read(r) \/ Write(r)
<1>1. CASE UNCHANGED vars
  BY <1>1
<1>2. ASSUME NEW r \in Requests, Plain(r) \/ CreateUser(r)
                \/ EnsureNotificationSettings(r) \/ EnsureUserSignalProfile(r)
                \/ GetNotificationSettings(r) \/ GetUserSignalProfile(r)
                \/ UpdateNotificationSettings(r) \/ UpdateUserSignalProfile(r)
      PROVE  Plain(r) \/ CreateUser(r) \/ Ensure(r) \/ Read(r) \/ Write(r)
  BY <1>2, RowActions
<1> QED  BY <1>1, <1>2 DEF Next, Plain

-----------------------------------------------------------------------------
(* Types, calls and rows. *)

LEMMA TypeStep ==
  ASSUME TypeOK, CallInv, RowInv, [Next]_vars
  PROVE  TypeOK'
<1>1. CASE UNCHANGED vars
  BY <1>1 DEF TypeOK, vars
<1>2. ASSUME NEW r \in Requests, Plain(r)  PROVE TypeOK'
  BY <1>2, PlainFacts DEF TypeOK
<1>3. ASSUME NEW r \in Requests, CreateUser(r)  PROVE TypeOK'
  <2>1. users' \in SUBSET (Usernames \X Mailboxes)
    <3>1. users' \subseteq users \cup {NewUser(r)} /\ NewUser(r) \in Usernames \X Mailboxes
      BY <1>3, CreateFacts
    <3> QED  BY <3>1 DEF TypeOK
  <2>2. /\ rows' \in [Rows -> Contents \cup {None}]
        /\ \A row \in Rows : rows'[row] # None => DOMAIN rows'[row] = Fields(row)
    BY <1>3, CreateFacts DEF TypeOK
  <2> QED  BY <1>3, <2>1, <2>2, CreateFacts DEF TypeOK
<1>4. ASSUME NEW r \in Requests, Ensure(r) \/ Write(r)  PROVE TypeOK'
  <2>1. /\ call[r].row \in Rows /\ rows'[call[r].row] \in [Fields(call[r].row) -> Values]
        /\ rows' = [rows EXCEPT ![call[r].row] = rows'[call[r].row]]
        /\ overtaken' \in [Requests -> SUBSET (SettingsFields \cup ProfileFields)]
        /\ at' \in [Requests -> Steps \cup Outcomes]
        /\ UNCHANGED <<users, sessions, call, seen, failures>>
    BY <1>4, EnsureFacts, WriteFacts DEF TypeOK
  <2>2. rows'[call[r].row] \in Contents
    BY <2>1, RowFacts
  <2>3. rows' \in [Rows -> Contents \cup {None}]
    BY <2>1, <2>2 DEF TypeOK
  <2>4. \A row \in Rows : rows'[row] # None => DOMAIN rows'[row] = Fields(row)
    BY <2>1 DEF TypeOK
  <2> QED  BY <2>1, <2>3, <2>4 DEF TypeOK
<1>5. ASSUME NEW r \in Requests, Read(r)  PROVE TypeOK'
  <2>1. rows[call[r].row] \in Contents
    BY <1>5, ReadFacts, RowFacts
  <2>2. seen' \in [Requests -> Contents \cup {None}]
    BY <1>5, <2>1, ReadFacts DEF TypeOK
  <2>3. overtaken' \in [Requests -> SUBSET (SettingsFields \cup ProfileFields)]
    BY <1>5, ReadFacts DEF TypeOK
  <2> QED  BY <1>5, <2>2, <2>3, ReadFacts DEF TypeOK
<1> QED  BY <1>1, <1>2, <1>3, <1>4, <1>5, StepCases

LEMMA CallStep ==
  ASSUME TypeOK, CallInv, RowInv, [Next]_vars
  PROVE  CallInv'
<1>1. CASE UNCHANGED vars
  BY <1>1 DEF CallInv, vars
<1>2. ASSUME NEW r \in Requests, Plain(r)  PROVE CallInv'
  BY <1>2, PlainFacts DEF CallInv
<1>3. ASSUME NEW r \in Requests, CreateUser(r)  PROVE CallInv'
  BY <1>3, CreateFacts DEF CallInv
<1>4. ASSUME NEW r \in Requests, Ensure(r)  PROVE CallInv'
  <2>1. /\ at[r] = "ensure" => at'[r] = "read"
        /\ at[r] # "ensure" => at[r] = "ensure_again" /\ at'[r] = "read_again"
        /\ call' = call /\ \A q \in Requests \ {r} : at'[q] = at[q]
    BY <1>4, EnsureFacts DEF Ensure
  <2> QED  BY <2>1 DEF CallInv
<1>5. ASSUME NEW r \in Requests, Read(r)  PROVE CallInv'
  <2>1. /\ at'[r] \in {"write", "answered"} /\ (at'[r] = "write" => call[r] \in Updates)
        /\ call' = call /\ \A q \in Requests \ {r} : at'[q] = at[q]
    BY <1>5, ReadFacts
  <2> QED  BY <2>1 DEF CallInv
<1>6. ASSUME NEW r \in Requests, Write(r)  PROVE CallInv'
  <2>1. /\ at'[r] = "ensure_again" /\ call[r] \in Updates
        /\ call' = call /\ \A q \in Requests \ {r} : at'[q] = at[q]
    BY <1>6, WriteFacts
  <2> QED  BY <2>1 DEF CallInv
<1> QED  BY <1>1, <1>2, <1>3, <1>4, <1>5, <1>6, StepCases

LEMMA RowStep ==
  ASSUME TypeOK, CallInv, RowInv, [Next]_vars
  PROVE  RowInv'
<1>0. \A row \in Rows : None \notin [Fields(row) -> Values]
  BY RowFacts, NoneAssumption
<1>1. CASE UNCHANGED vars
  BY <1>1 DEF RowInv, vars
<1>2. ASSUME NEW r \in Requests, Plain(r)  PROVE RowInv'
  BY <1>2, PlainFacts DEF RowInv
<1>3. ASSUME NEW r \in Requests, CreateUser(r)  PROVE RowInv'
  <2>1. \A row \in Rows : rows'[row] # None => rows'[row] \in [Fields(row) -> Values]
    BY <1>3, CreateFacts DEF RowInv
  <2>2. \A row \in Rows : rows[row] # None => rows'[row] # None
    BY <1>3, CreateFacts
  <2>3. \A q \in Requests : at[q] \in {"read", "write", "ensure_again", "read_again"} =>
                             call[q].row \in Rows
    BY RowCallFacts DEF CallInv
  <2> QED  BY <1>3, <2>1, <2>2, <2>3, CreateFacts DEF RowInv
<1>4. ASSUME NEW r \in Requests, Ensure(r) \/ Write(r)  PROVE RowInv'
  <2>1. /\ call[r].row \in Rows /\ rows'[call[r].row] \in [Fields(call[r].row) -> Values]
        /\ \A row \in Rows \ {call[r].row} : rows'[row] = rows[row]
        /\ at'[r] \in {"read", "read_again", "ensure_again"}
        /\ \A q \in Requests \ {r} : at'[q] = at[q]
        /\ UNCHANGED <<call, seen>>
    BY <1>4, EnsureFacts, WriteFacts
  <2>2. rows'[call[r].row] # None
    BY <1>0, <2>1
  <2>3. \A q \in Requests : at[q] \in {"read", "write", "ensure_again", "read_again"} =>
                             call[q].row \in Rows
    BY RowCallFacts DEF CallInv
  <2>4. \A row \in Rows : rows[row] # None => rows'[row] # None
    BY <2>1, <2>2
  <2>5. \A row \in Rows : rows'[row] # None => rows'[row] \in [Fields(row) -> Values]
    BY <2>1 DEF RowInv
  <2>6. ASSUME NEW q \in Requests
        PROVE  /\ at'[q] \in {"read", "write", "ensure_again", "read_again"} =>
                    rows'[call'[q].row] # None
               /\ at'[q] = "write" => seen'[q] \in [Fields(call'[q].row) -> Values]
    <3>1. CASE q = r
      BY <2>1, <2>2, <3>1
    <3>2. CASE q # r
      BY <2>1, <2>3, <2>4, <3>2 DEF RowInv
    <3> QED  BY <3>1, <3>2
  <2> QED  BY <2>5, <2>6 DEF RowInv
<1>5. ASSUME NEW r \in Requests, Read(r)  PROVE RowInv'
  <2>1. /\ at'[r] \in {"write", "answered"} /\ UNCHANGED <<rows, call>>
        /\ \A q \in Requests \ {r} : at'[q] = at[q] /\ seen'[q] = seen[q]
    BY <1>5, ReadFacts DEF TypeOK
  <2>2. /\ call[r].row \in Rows /\ rows[call[r].row] \in [Fields(call[r].row) -> Values]
        /\ seen'[r] = rows[call[r].row]
    BY <1>5, ReadFacts
  <2>3. rows[call[r].row] # None
    BY <1>0, <2>2
  <2> QED  BY <2>1, <2>2, <2>3 DEF RowInv
<1> QED  BY <1>1, <1>2, <1>3, <1>4, <1>5, StepCases

-----------------------------------------------------------------------------
(* Accounts. *)

LEMMA AccountStep ==
  ASSUME TypeOK, CallInv, RowInv, UserInv, SignupInv, [Next]_vars
  PROVE  UserInv' /\ SignupInv'
<1>0. /\ \A u \in users : u[1] \in Usernames /\ <<"settings", u[1]>> \in Rows
      /\ None \notin Contents
  BY SettingsRow, NoneAssumption DEF TypeOK
<1>1. CASE UNCHANGED vars
  BY <1>1 DEF UserInv, SignupInv, Created, NewUser, NameTaken, MailboxTaken, vars
<1>2. ASSUME NEW r \in Requests, Plain(r)  PROVE UserInv' /\ SignupInv'
  <2>1. UserInv'
    BY <1>2, PlainFacts DEF UserInv
  <2>2. \A q \in Requests : Created(q)' => Created(q) /\ call'[q] = call[q]
    BY <1>2, PlainFacts DEF Created
  <2>3. \A q \in Requests : at'[q] = "conflict" =>
          call'[q] = call[q] /\ (NameTaken(call[q].name) \/ MailboxTaken(Normalize[call[q].email]))
    BY <1>2, PlainFacts DEF SignupInv
  <2>4. users' = users
    BY <1>2, PlainFacts
  <2> QED  BY <2>1, <2>2, <2>3, <2>4 DEF SignupInv, NewUser, NameTaken, MailboxTaken
<1>3. ASSUME NEW r \in Requests, CreateUser(r)  PROVE UserInv' /\ SignupInv'
  <2>1. CASE at'[r] = "error" /\ UNCHANGED <<users, rows>>
    <3>1. UNCHANGED call /\ \A q \in Requests \ {r} : at'[q] = at[q]
      BY <1>3, CreateFacts
    <3> QED
      BY <2>1, <3>1 DEF UserInv, SignupInv, Created, NewUser, NameTaken, MailboxTaken
  <2>2. CASE at'[r] = "session"
    <3>1. /\ users' = users \cup {NewUser(r)} /\ NewUser(r) \in Usernames \X Mailboxes
          /\ \A u \in users : u[1] # NewUser(r)[1] /\ u[2] # NewUser(r)[2]
          /\ rows'[<<"settings", NewUser(r)[1]>>] \in Contents
          /\ \A row \in Rows : rows[row] # None => rows'[row] = rows[row]
          /\ UNCHANGED call /\ \A q \in Requests \ {r} : at'[q] = at[q]
      BY <1>3, <2>2, CreateFacts DEF NewUser
    <3>2. UserInv'
      <4>1. \A u \in users' : u[2] \in Mailboxes /\ rows'[<<"settings", u[1]>>] # None
        BY <1>0, <3>1 DEF UserInv
      <4>2. \A u, v \in users' : u[1] = v[1] \/ u[2] = v[2] => u = v
        BY <3>1 DEF UserInv
      <4> QED  BY <4>1, <4>2 DEF UserInv
    <3>3. \A q \in Requests \ {r} : Created(q)' => Created(q) /\ NewUser(q) \in users
      BY <3>1 DEF Created, SignupInv
    <3>4. \A q \in Requests : NewUser(q)' = NewUser(q)
      BY <3>1 DEF NewUser
    <3>5. ASSUME NEW q \in Requests, NEW p \in Requests
          PROVE  /\ Created(q)' => NewUser(q) \in users'
                 /\ Created(q)' /\ Created(p)' /\ q # p => NewUser(q)[1] # NewUser(p)[1]
      <4>1. CASE q # r /\ p # r
        BY <3>1, <3>3, <4>1 DEF SignupInv
      <4>2. CASE q = r \/ p = r
        BY <3>1, <3>3, <4>2
      <4> QED  BY <4>1, <4>2
    <3>6. \A q \in Requests : at'[q] = "conflict" =>
            NameTaken(call[q].name)' \/ MailboxTaken(Normalize[call[q].email])'
      BY <2>2, <3>1 DEF SignupInv, NameTaken, MailboxTaken
    <3> QED  BY <3>1, <3>2, <3>4, <3>5, <3>6 DEF SignupInv, NameTaken, MailboxTaken
  <2> QED  BY <1>3, <2>1, <2>2, CreateFacts
<1>4. ASSUME NEW r \in Requests, Ensure(r) \/ Read(r) \/ Write(r)  PROVE UserInv' /\ SignupInv'
  <2>1. UNCHANGED <<users, call>> /\ \A q \in Requests \ {r} : at'[q] = at[q]
    BY <1>4, EnsureFacts, ReadFacts, WriteFacts
  <2>2. at'[r] \notin {"session", "created", "conflict"}
    BY <1>4, EnsureFacts, ReadFacts, WriteFacts
  <2>3. \A row \in Rows : rows[row] # None => rows'[row] # None
    <3>1. CASE Ensure(r)
      BY <3>1, EnsureFacts
    <3>2. CASE Read(r)
      BY <3>2, ReadFacts
    <3>3. CASE Write(r)
      <4>1. call[r].row \in Rows /\ rows'[call[r].row] \in Contents
            /\ \A row \in Rows \ {call[r].row} : rows'[row] = rows[row]
        BY <3>3, WriteFacts, RowFacts
      <4> QED  BY <1>0, <4>1
    <3> QED  BY <1>4, <3>1, <3>2, <3>3
  <2>4. UserInv'
    BY <1>0, <2>1, <2>3 DEF UserInv
  <2>5. SignupInv'
    BY <2>1, <2>2 DEF SignupInv, Created, NewUser, NameTaken, MailboxTaken
  <2> QED  BY <2>4, <2>5
<1> QED  BY <1>1, <1>2, <1>3, <1>4, StepCases

-----------------------------------------------------------------------------
(* Patches. *)

LEMMA PatchStep ==
  ASSUME TypeOK, CallInv, RowInv, PatchInv, [Next]_vars
  PROVE  PatchInv'
<1>1. CASE UNCHANGED vars
  BY <1>1 DEF PatchInv, vars
<1>2. ASSUME NEW r \in Requests, Plain(r)  PROVE PatchInv'
  BY <1>2, PlainFacts DEF PatchInv
<1> DEFINE PatchSteps == {"write", "ensure_again", "read_again"}
<1>3. \A q \in Requests : at[q] \in PatchSteps =>
        /\ call[q].row \in Rows /\ rows[call[q].row] # None
        /\ DOMAIN call[q].patch \subseteq Fields(call[q].row)
  BY UpdateFacts DEF CallInv, RowInv
<1>4. ASSUME NEW r \in Requests, CreateUser(r)  PROVE PatchInv'
  <2>1. /\ at'[r] \notin PatchSteps /\ UNCHANGED <<call, seen, overtaken>>
        /\ \A q \in Requests \ {r} : at'[q] = at[q]
        /\ \A row \in Rows : rows[row] # None => rows'[row] = rows[row]
    BY <1>4, CreateFacts
  <2> QED  BY <1>3, <2>1 DEF PatchInv
<1>5. ASSUME NEW r \in Requests, Ensure(r)  PROVE PatchInv'
  <2>1. /\ at[r] = "ensure" => at'[r] = "read"
        /\ at[r] # "ensure" => at[r] = "ensure_again" /\ at'[r] = "read_again"
        /\ UNCHANGED <<call, seen, overtaken>>
        /\ \A q \in Requests \ {r} : at'[q] = at[q]
        /\ \A row \in Rows : rows[row] # None => rows'[row] = rows[row]
    BY <1>5, EnsureFacts DEF Ensure
  <2> QED  BY <1>3, <2>1 DEF PatchInv
<1>6. ASSUME NEW r \in Requests, Read(r)  PROVE PatchInv'
  <2>1. /\ at'[r] \in {"write", "answered"} /\ UNCHANGED <<rows, call>>
        /\ seen'[r] = rows[call[r].row]
        /\ \A q \in Requests \ {r} : at'[q] = at[q] /\ seen'[q] = seen[q] /\ overtaken'[q] = overtaken[q]
    BY <1>6, ReadFacts DEF TypeOK
  <2> QED  BY <2>1 DEF PatchInv
<1>7. ASSUME NEW r \in Requests, Write(r)  PROVE PatchInv'
  <2>1. /\ at'[r] = "ensure_again" /\ UNCHANGED <<call, seen>> /\ call[r].row \in Rows
        /\ \A row \in Rows \ {call[r].row} : rows'[row] = rows[row]
        /\ \A q \in Requests \ {r} : overtaken[q] \subseteq overtaken'[q]
    BY <1>7, WriteFacts
  <2>2. \A f \in DOMAIN call[r].patch : rows'[call[r].row][f] = call[r].patch[f]
    BY <1>3, <1>7, WriteFacts DEF Write
  <2>3. ASSUME NEW q \in Requests \ {r}
        PROVE  /\ at'[q] = at[q]
               /\ at[q] \in PatchSteps => \A f \in Fields(call[q].row) :
                    f \in overtaken'[q] \/ rows'[call[q].row][f] = rows[call[q].row][f]
    <3>1. CASE call[q].row = call[r].row
      BY <1>7, <3>1, WriteFacts
    <3>2. CASE call[q].row # call[r].row
      BY <1>3, <1>7, <2>1, <3>2, WriteFacts
    <3> QED  BY <3>1, <3>2
  <2>4. ASSUME NEW q \in Requests
        PROVE  /\ at'[q] = "write" =>
                    \A f \in Fields(call[q].row) :
                      f \in overtaken'[q] \/ rows'[call[q].row][f] = seen[q][f]
               /\ at'[q] \in {"ensure_again", "read_again"} =>
                    \A f \in DOMAIN call[q].patch :
                      f \in overtaken'[q] \/ rows'[call[q].row][f] = call[q].patch[f]
    <3>1. CASE q = r
      BY <2>1, <2>2, <3>1
    <3>2. CASE q # r
      BY <1>3, <2>1, <2>3, <3>2 DEF PatchInv
    <3> QED  BY <3>1, <3>2
  <2> QED  BY <2>1, <2>4 DEF PatchInv
<1> QED  BY <1>1, <1>2, <1>4, <1>5, <1>6, <1>7, StepCases

-----------------------------------------------------------------------------
LEMMA InitIInv == Init => IInv
<1> SUFFICES ASSUME Init PROVE IInv
  OBVIOUS
<1>1. \A r \in Requests : at[r] = "idle"
  BY DEF Init
<1>2. DemoUser \in Usernames /\ DemoMailbox \in Mailboxes
      /\ MaxFailures \in Nat
  BY AccountsAssumption
<1>3. /\ <<"settings", DemoUser>> \in Rows /\ SettingsDefault \in Contents /\ SettingsDefault # None
      /\ SettingsDefault \in [Fields(<<"settings", DemoUser>>) -> Values]
  BY <1>2, SettingsRow, RowFacts, NoneAssumption
<1>4. /\ rows \in [Rows -> Contents \cup {None}]
      /\ rows[<<"settings", DemoUser>>] = SettingsDefault
      /\ \A row \in Rows \ {<<"settings", DemoUser>>} : rows[row] = None
  BY <1>3 DEF Init
<1>5. \A row \in Rows : rows[row] # None => rows[row] \in [Fields(row) -> Values]
  BY <1>3, <1>4
<1>6. TypeOK
  <2>1. at \in [Requests -> Steps \cup Outcomes]
    BY DEF Init, Steps
  <2>2. users \in SUBSET (Usernames \X Mailboxes)
    BY <1>2 DEF Init
  <2> QED  BY <1>2, <1>4, <1>5, <2>1, <2>2 DEF Init, TypeOK
<1>7. CallInv /\ RowInv /\ SignupInv /\ PatchInv
  BY <1>1, <1>5 DEF CallInv, RowInv, SignupInv, PatchInv, Created
<1>8. UserInv
  BY <1>2, <1>3, <1>4 DEF Init, UserInv
<1> QED  BY <1>6, <1>7, <1>8 DEF IInv

(* The inductive invariant is one. *)
THEOREM Invariance == Spec => []IInv
<1>1. IInv /\ [Next]_vars => IInv'
  BY TypeStep, CallStep, RowStep, AccountStep, PatchStep DEF IInv
<1> QED  BY <1>1, InitIInv, PTL DEF Spec

(* Tables and requests have their types. *)
THEOREM TypeCorrect == Spec => []TypeOK
<1>1. IInv => TypeOK
  BY DEF IInv
<1> QED  BY <1>1, Invariance, PTL

(* However signups race, names and mailboxes belong to one account each. *)
THEOREM AccountsCorrect == Spec => []OneAccountEach
<1>1. ASSUME IInv  PROVE OneAccountEach
  <2>1. \A u \in users : Normalize[u[2]] = u[2]
    BY <1>1, AccountsAssumption DEF IInv, UserInv
  <2> QED  BY <1>1, <2>1 DEF IInv, UserInv, OneAccountEach
<1> QED  BY <1>1, Invariance, PTL

(* What a signup is told about its account is true. *)
THEOREM SignupCorrect == Spec => []HonestSignup
<1>1. IInv => HonestSignup
  BY DEF IInv, SignupInv, Created, HonestSignup
<1> QED  BY <1>1, Invariance, PTL

(* Only requests that overlap can disturb each other's fields. *)
THEOREM PatchesCorrect == Spec => RevertsOnlyOverlapping
<1>1. ASSUME IInv, [Next]_vars, NEW r \in Requests, at[r] = "write", at'[r] = "ensure_again",
             NEW f \in Fields(call[r].row) \ DOMAIN call[r].patch,
             rows'[call[r].row][f] # rows[call[r].row][f]
      PROVE  f \in overtaken[r] /\ rows'[call[r].row][f] = seen[r][f]
  <2>1. Write(r)
    <3>1. PICK q \in Requests : Plain(q) \/ CreateUser(q) \/ Ensure(q) \/ Read(q) \/ Write(q)
      BY <1>1, StepCases DEF IInv, vars
    <3>2. CASE Plain(q) \/ CreateUser(q) \/ Ensure(q) \/ Read(q)
      <4>1. CASE q = r
        BY <1>1, <3>2, <4>1, PlainFacts, CreateFacts, EnsureFacts, ReadFacts DEF IInv, Ensure, Read
      <4>2. CASE q # r
        BY <1>1, <3>2, <4>2, PlainFacts, CreateFacts, EnsureFacts, ReadFacts DEF IInv
      <4> QED  BY <4>1, <4>2
    <3>3. CASE Write(q)
      <4>1. \A p \in Requests \ {q} : at'[p] = at[p]
        BY <1>1, <3>3, WriteFacts DEF IInv
      <4> QED  BY <1>1, <3>3, <4>1
    <3> QED  BY <3>1, <3>2, <3>3
  <2>2. rows'[call[r].row][f] = seen[r][f]
    BY <1>1, <2>1, WriteFacts DEF IInv
  <2> QED  BY <1>1, <2>2 DEF IInv, PatchInv
<1>2. IInv /\ [Next]_vars =>
        \A r \in Requests : at[r] = "write" /\ at'[r] = "ensure_again" =>
          LET row == call[r].row IN
          \A f \in Fields(row) \ DOMAIN call[r].patch :
            rows'[row][f] # rows[row][f] => f \in overtaken[r] /\ rows'[row][f] = seen[r][f]
  BY <1>1
<1> QED  BY <1>2, Invariance, PTL DEF RevertsOnlyOverlapping, Spec

(* The answer to a PATCH shows what it asked for, or what another put there. *)
THEOREM AnswersCorrect == Spec => AnswerShowsPatch
<1>1. ASSUME IInv, [Next]_vars, NEW r \in Requests, at[r] = "read_again", at'[r] = "answered",
             NEW f \in DOMAIN call[r].patch
      PROVE  f \in overtaken[r] \/ seen'[r][f] = call[r].patch[f]
  <2>1. Read(r)
    <3>1. PICK q \in Requests : Plain(q) \/ CreateUser(q) \/ Ensure(q) \/ Read(q) \/ Write(q)
      BY <1>1, StepCases DEF IInv, vars
    <3>2. CASE Plain(q) \/ CreateUser(q) \/ Ensure(q) \/ Write(q)
      <4>1. CASE q = r
        BY <1>1, <3>2, <4>1, PlainFacts, CreateFacts, EnsureFacts, WriteFacts DEF IInv, Ensure, Write
      <4>2. CASE q # r
        BY <1>1, <3>2, <4>2, PlainFacts, CreateFacts, EnsureFacts, WriteFacts DEF IInv
      <4> QED  BY <4>1, <4>2
    <3>3. CASE Read(q)
      <4>1. \A p \in Requests \ {q} : at'[p] = at[p]
        BY <1>1, <3>3, ReadFacts DEF IInv
      <4> QED  BY <1>1, <3>3, <4>1
    <3> QED  BY <3>1, <3>2, <3>3
  <2>2. seen'[r] = rows[call[r].row]
    BY <1>1, <2>1, ReadFacts DEF IInv
  <2> QED  BY <1>1, <2>2 DEF IInv, PatchInv
<1>2. IInv /\ [Next]_vars =>
        \A r \in Requests : at[r] = "read_again" /\ at'[r] = "answered" =>
          \A f \in DOMAIN call[r].patch : f \in overtaken[r] \/ seen'[r][f] = call[r].patch[f]
  BY <1>1
<1> QED  BY <1>2, Invariance, PTL DEF AnswerShowsPatch, Spec
=============================================================================
