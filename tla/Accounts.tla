------------------------------ MODULE Accounts ------------------------------
(***************************************************************************)
(* The account of ONE username in Lifecycle: registration, login, change   *)
(* of the password, and the administrator who activates the account. A     *)
(* request is a sequence of statements, each a transaction of its own;     *)
(* other requests come in between, and the process may end after any.      *)
(***************************************************************************)
EXTENDS Naturals, FiniteSets

CONSTANTS
    Registration,   \* requests to POST /users/register
    LoginAttempt,   \* requests to POST /users/login
    PasswordChange, \* requests to PUT /users/change_password
    Password,       \* passwords that validate_password accepts
    Sent,           \* [Visitor -> passwords that come with the request]
    MaxSubjects,    \* bound: auth subjects
    MaxEnds         \* bound: ends of the process

Weak == "weak"      \* a password that is too short, numeric, or common
NoPassword == "none"
AnyPassword == Password \cup {Weak}
Visitor == Registration \cup LoginAttempt \cup PasswordChange
Subject == 1..MaxSubjects

\* A request is of one kind and sends passwords.
ASSUME AccountsAssumption ==
    /\ MaxSubjects \in Nat /\ MaxEnds \in Nat
    /\ Registration \cap LoginAttempt = {} /\ Registration \cap PasswordChange = {}
    /\ LoginAttempt \cap PasswordChange = {}
    /\ Sent \in [Visitor -> SUBSET AnyPassword]

\* READ_JOB, CALL_JOB, DEPLOY_NEW_FAMILY, DEPLOY_JOB
DefaultScopes == 4

VARIABLES
    account,        \* the record of the user
    subjects,       \* [Subject -> the auth subject with this place in the table]
    visit,          \* [Visitor -> state of the request]
    form,           \* the record in the editor of the administrator's dashboard
    cut,            \* a registration ended with its process
    early,          \* logins that found the subjects before the registration was over
    changed,        \* a change of the password succeeded
    ends

accountVars == <<account, subjects, visit, form, cut, early, changed, ends>>

NoAccount == [exists |-> FALSE, active |-> FALSE, password |-> NoPassword]
NoSubject == [exists |-> FALSE, token |-> FALSE, scopes |-> 0]

\* password: the one to register or to change to; subject: the
\* auth subject the request works with, 0 when it has found none.
Visit == [pc : {"new", "insert", "insert subject", "token", "grant", "update",
                "subject", "get token", "over", "dead"},
          password : AnyPassword \cup {NoPassword}, subject : 0..MaxSubjects,
          answer : {"none", "ok", "invalid password", "username exists", "unauthorized"}]

\* What is written in a request's place of `visit`.
Moves(v, pc) == visit' = [visit EXCEPT ![v].pc = pc]
Answers(v, answer) == visit' = [visit EXCEPT ![v].pc = "over", ![v].answer = answer]

-----------------------------------------------------------------------------
(* Steps that several requests share                                       *)

Stored == {s \in Subject : subjects[s].exists}

\* AuthSubject has an id of its own, and user_id need not be unique.
InsertSubjectOf(v) ==
    /\ visit[v].pc = "insert subject"
    /\ Stored # Subject
    /\ LET s == Cardinality(Stored) + 1 IN
       /\ subjects' = [subjects EXCEPT ![s].exists = TRUE]
       /\ visit' = [visit EXCEPT ![v].pc = "token", ![v].subject = s]
    /\ UNCHANGED <<account, form, cut, early, changed, ends>>

\* create_auth_token
InsertTokenOf(v) ==
    /\ visit[v].pc = "token"
    /\ subjects' = [subjects EXCEPT ![visit[v].subject].token = TRUE]
    /\ IF v \in Registration THEN Moves(v, "grant") ELSE Answers(v, "ok")
    /\ UNCHANGED <<account, form, cut, early, changed, ends>>

\* authenticate: the password is right, and the account active.
CredentialsFit(password) ==
    account.exists /\ account.active /\ account.password = password

validate_password(password) == password # Weak

-----------------------------------------------------------------------------
(* register_user_account                                                   *)

CheckUsername(v, password) ==
    /\ v \in Registration /\ visit[v].pc = "new"
    /\ IF ~validate_password(password) THEN Answers(v, "invalid password")
       ELSE IF account.exists THEN Answers(v, "username exists")
       ELSE visit' = [visit EXCEPT ![v].pc = "insert", ![v].password = password]
    /\ UNCHANGED <<account, subjects, form, cut, early, changed, ends>>

\* The table lets a username in once: a second insertion is refused.
InsertAccount(v) ==
    /\ visit[v].pc = "insert"
    /\ IF account.exists
       THEN Answers(v, "username exists") /\ UNCHANGED account
       ELSE /\ account' = [exists |-> TRUE, active |-> FALSE, password |-> visit[v].password]
            /\ Moves(v, "insert subject")
    /\ UNCHANGED <<subjects, form, cut, early, changed, ends>>

\* grant_permission, one scope after the other.
Grant(v) ==
    /\ visit[v].pc = "grant"
    /\ LET s == visit[v].subject IN
       /\ subjects' = [subjects EXCEPT ![s].scopes = @ + 1]
       /\ IF subjects[s].scopes + 1 < DefaultScopes
          THEN UNCHANGED visit ELSE Answers(v, "ok")
    /\ UNCHANGED <<account, form, cut, early, changed, ends>>

-----------------------------------------------------------------------------
(* authenticate_username_with_password                                     *)

AuthenticateVisitor(v, password) ==
    /\ v \in LoginAttempt /\ visit[v].pc = "new"
    /\ IF CredentialsFit(password) THEN Moves(v, "subject")
       ELSE Answers(v, "unauthorized")
    /\ UNCHANGED <<account, subjects, form, cut, early, changed, ends>>

Registering == {r \in Registration : visit[r].pc \in {"insert subject", "token", "grant"}}

GetNewSubject(v) ==
    /\ visit[v].pc = "subject"
    /\ Moves(v, "insert subject")
    /\ early' = IF Registering # {} \/ Stored = {} THEN early \cup {v} ELSE early
    /\ UNCHANGED <<account, subjects, form, cut, changed, ends>>

\* get_auth_subject_by_user finds any of them, or creates one.
GetSubject(v) ==
    /\ visit[v].pc = "subject"
    /\ \/ /\ Stored = {} /\ Moves(v, "insert subject")
       \/ \E s \in Stored :
             visit' = [visit EXCEPT ![v].pc = "get token", ![v].subject = s]
    /\ early' = IF Registering # {} \/ Stored = {} THEN early \cup {v} ELSE early
    /\ UNCHANGED <<account, subjects, form, cut, changed, ends>>

\* get_auth_token_by_subject
GetToken(v) ==
    /\ visit[v].pc = "get token"
    /\ IF subjects[visit[v].subject].token THEN Answers(v, "ok") ELSE Moves(v, "token")
    /\ UNCHANGED <<account, subjects, form, cut, early, changed, ends>>

-----------------------------------------------------------------------------
(* change_user_password                                                    *)

CheckOldPassword(v, password) ==
    /\ v \in PasswordChange /\ visit[v].pc = "new"
    /\ \E new \in AnyPassword \ {password} :
          IF ~CredentialsFit(password) THEN Answers(v, "unauthorized")
          ELSE IF ~validate_password(new) THEN Answers(v, "invalid password")
          ELSE visit' = [visit EXCEPT ![v].pc = "update", ![v].password = new]
    /\ UNCHANGED <<account, subjects, form, cut, early, changed, ends>>

UpdateRecord(v) ==
    /\ visit[v].pc = "update"
    /\ account' = [account EXCEPT !.password = visit[v].password, !.active = TRUE]
    /\ Answers(v, "ok")
    /\ changed' = TRUE
    /\ UNCHANGED <<subjects, form, cut, early, ends>>

\* The update writes the field that has changed, and no other.
UpdatePassword(v) ==
    /\ visit[v].pc = "update"
    /\ account' = [account EXCEPT !.password = visit[v].password]
    /\ Answers(v, "ok")
    /\ changed' = TRUE
    /\ UNCHANGED <<subjects, form, cut, early, ends>>

-----------------------------------------------------------------------------
\* The dashboard's editor of records reads the record of the account.
OpenRecord ==
    /\ account.exists
    /\ form' = account
    /\ UNCHANGED <<account, subjects, visit, cut, early, changed, ends>>

\* It activates the account, or blocks it, and saves every field as it was read.
SaveRecord ==
    /\ form.exists
    /\ \E active \in BOOLEAN : form' = [form EXCEPT !.active = active]
    /\ account' = form'
    /\ UNCHANGED <<subjects, visit, cut, early, changed, ends>>

\* The process ends, and with it every request it serves.
EndProcess ==
    /\ ends < MaxEnds /\ ends' = ends + 1
    /\ \E v \in Visitor : visit[v].pc \notin {"new", "over", "dead"}
    /\ visit' = [v \in Visitor |-> IF visit[v].pc \in {"new", "over", "dead"} THEN visit[v]
                                   ELSE [visit[v] EXCEPT !.pc = "dead"]]
    /\ cut' = (cut \/ Registering # {})
    /\ UNCHANGED <<account, subjects, form, early, changed>>

AccountsInit ==
    /\ account = NoAccount /\ form = NoAccount
    /\ subjects = [s \in Subject |-> NoSubject]
    /\ visit = [v \in Visitor |-> [pc |-> "new", password |-> NoPassword,
                                   subject |-> 0, answer |-> "none"]]
    /\ cut = FALSE /\ early = {} /\ changed = FALSE /\ ends = 0

AccountsNext ==
    \/ \E v \in Visitor :
          \/ \E password \in Sent[v] :
                CheckUsername(v, password) \/ AuthenticateVisitor(v, password) \/ CheckOldPassword(v, password)
          \/ InsertAccount(v) \/ InsertSubjectOf(v) \/ InsertTokenOf(v) \/ Grant(v)
          \/ GetSubject(v) \/ GetToken(v) \/ UpdatePassword(v)
    \/ OpenRecord \/ SaveRecord \/ EndProcess

AccountsSpec == AccountsInit /\ [][AccountsNext]_accountVars

-----------------------------------------------------------------------------
\* What the variables hold; subjects fill their table from the start.
AccountsTypeOK ==
    /\ {account, form} \subseteq [exists : BOOLEAN, active : BOOLEAN, password : AnyPassword \cup {NoPassword}]
    /\ subjects \in [Subject -> [exists : BOOLEAN, token : BOOLEAN, scopes : 0..DefaultScopes]]
    /\ Stored = 1..Cardinality(Stored)
    /\ visit \in [Visitor -> Visit]
    /\ cut \in BOOLEAN /\ early \subseteq LoginAttempt /\ changed \in BOOLEAN /\ ends \in 0..MaxEnds

\* An account without a registration under way has an auth subject with a token
\* and all the default permissions, unless the process ended during the
\* registration: nothing completes it then, and the username stays taken
\* (register_user_account).
AccountIsWhole ==
    account.exists /\ Registering = {} /\ ~cut =>
        \E s \in Stored : subjects[s].token /\ subjects[s].scopes = DefaultScopes

\* A user who logs in gets the token of a subject that has the default
\* permissions. What may go wrong is that a login was there before the
\* registration was over, and then even later logins may find the subject which
\* that login created, or that the registration was never completed
\* (authenticate_username_with_password, get_auth_subject_by_user).
LoginHasPermissions ==
    \A v \in LoginAttempt : visit[v].answer = "ok" =>
        \/ subjects[visit[v].subject].token /\ subjects[visit[v].subject].scopes = DefaultScopes
        \/ early # {} \/ cut

\* Of several registrations of a username one is confirmed, and its password is
\* the account's until it is changed (register_user_account looks for the
\* username and inserts it in two steps).
RegistrationIsExclusive ==
    \A r \in Registration : visit[r].answer = "ok" =>
        /\ changed \/ account.password = visit[r].password
        /\ \A q \in Registration \ {r} : visit[q].answer # "ok"

\* Only the administrator activates an account or blocks it: a change of the
\* password that has read the account before does not write the old state back
\* (RecordMapper.update saves what has changed). The other way round it may
\* happen: the editor of records saves all that it has read, and an account
\* goes back to the password it had before a change that was confirmed.
RecordIsKept ==
    [][account.exists =>
        /\ account'.active # account.active => SaveRecord
        /\ account'.password # account.password =>
              \/ \E v \in PasswordChange : UpdatePassword(v)
              \/ SaveRecord /\ changed]_accountVars

\* A username has one registration, which leaves a whole account, which a login
\* finds.
AccountsAreConsistent == AccountIsWhole /\ LoginHasPermissions /\ RegistrationIsExclusive
=============================================================================
