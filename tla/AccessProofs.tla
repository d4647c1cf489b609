---------------------------- MODULE AccessProofs ----------------------------
(***************************************************************************)
(* Proofs about who is let in: about the account of a username, for any    *)
(* number of requests and passwords and any bound on subjects and on ends  *)
(* of the process, and about the answers of Lifecycle that Pub keeps, for  *)
(* any number of concurrent calls, times to live and timeouts.             *)
(***************************************************************************)
EXTENDS Accounts, AuthCache, FiniteSetTheorems, TLAPS

-----------------------------------------------------------------------------
(* The inductive invariant                                                 *)

\* Who is at which point; only an account that exists has its password updated.
Roles ==
    \A v \in Visitor :
        /\ visit[v].pc \in {"insert", "grant"} => v \in Registration
        /\ visit[v].pc \in {"subject", "get token"} => v \in LoginAttempt
        /\ visit[v].pc \in {"insert subject", "token"} => v \notin PasswordChange
        /\ visit[v].pc = "update" => v \in PasswordChange /\ account.exists

\* A registration that has inserted the account.
Winner(r) == visit[r].pc \in {"insert subject", "token", "grant"} \/ visit[r].answer = "ok"

\* There is one such registration, and nobody has written another password
\* than its own unless it was changed.
OneWinner ==
    /\ \A r \in Registration : Winner(r) =>
          account.exists /\ (changed \/ account.password = visit[r].password)
    /\ \A r, q \in Registration : Winner(r) /\ Winner(q) => r = q

\* What the editor of records has read is no older than the account, and not
\* outdated unless the password was changed.
FormFits == form.exists => account.exists /\ (changed \/ form.password = account.password)

Complete(s) == subjects[s].exists /\ subjects[s].token /\ subjects[s].scopes = DefaultScopes

\* How far the subjects of the requests under way have come.
SubjectsFit ==
    /\ \A s \in Subject : ~subjects[s].exists => subjects[s] = NoSubject
    /\ \A v \in Visitor : visit[v].pc \in {"token", "grant", "get token"} =>
          visit[v].subject \in Subject /\ subjects[visit[v].subject].exists
    /\ \A r \in Registration : visit[r].pc = "token" => subjects[visit[r].subject].scopes = 0
    /\ \A r \in Registration : visit[r].pc = "grant" =>
          subjects[visit[r].subject].token /\ subjects[visit[r].subject].scopes < DefaultScopes

\* A registration works on the subject.
UnderWay(s) == \E r \in Registration : visit[r].pc \in {"token", "grant"} /\ visit[r].subject = s

\* Without a login that came early and without the end of a process only the
\* registration inserts a subject, and completes it.
Undisturbed == early = {} /\ ~cut
OthersComplete ==
    Undisturbed =>
        /\ \A s \in Stored : Complete(s) \/ UnderWay(s)
        /\ \A v \in LoginAttempt :
              /\ visit[v].pc \notin {"insert subject", "token"}
              /\ visit[v].pc = "get token" => Complete(visit[v].subject)
              /\ visit[v].answer = "ok" => visit[v].subject \in Subject /\ Complete(visit[v].subject)

IInv ==
    /\ AccountsTypeOK /\ Roles /\ OneWinner /\ FormFits /\ SubjectsFit
    /\ AccountIsWhole /\ OthersComplete

-----------------------------------------------------------------------------
(* Types                                                                   *)

AnyAccount == [exists : BOOLEAN, active : BOOLEAN, password : AnyPassword \cup {NoPassword}]
AnySubject == [exists : BOOLEAN, token : BOOLEAN, scopes : 0..DefaultScopes]

\* The parts of AccountsTypeOK that one action or another changes.
LEMMA Types ==
    AccountsTypeOK <=>
        /\ account \in AnyAccount /\ form \in AnyAccount
        /\ subjects \in [Subject -> AnySubject] /\ Stored = 1..Cardinality(Stored)
        /\ visit \in [Visitor -> Visit]
        /\ cut \in BOOLEAN /\ early \subseteq LoginAttempt /\ changed \in BOOLEAN /\ ends \in 0..MaxEnds
BY DEF AccountsTypeOK, AnyAccount, AnySubject

Place == {"new", "insert", "insert subject", "token", "grant", "update",
          "subject", "get token", "over", "dead"}
Answer == {"none", "ok", "invalid password", "username exists", "unauthorized"}

\* The request v is the only one that has changed, and this is its state.
Becomes(v, pc, password, subject, answer) ==
    /\ visit' \in [Visitor -> Visit]
    /\ \A u \in Visitor : u # v => visit'[u] = visit[u]
    /\ visit'[v].pc = pc /\ visit'[v].password = password
    /\ visit'[v].subject = subject /\ visit'[v].answer = answer

LEMMA Becoming ==
    ASSUME visit \in [Visitor -> Visit], NEW v \in Visitor, NEW q \in Visit,
           visit' = [visit EXCEPT ![v] = q]
    PROVE  Becomes(v, q.pc, q.password, q.subject, q.answer)
BY DEF Becomes

\* What the writes of a request leave.
LEMMA Moving ==
    ASSUME visit \in [Visitor -> Visit], NEW v \in Visitor, NEW pc \in Place, Moves(v, pc)
    PROVE  Becomes(v, pc, visit[v].password, visit[v].subject, visit[v].answer)
<1> DEFINE q == [visit[v] EXCEPT !.pc = pc]
<1>1. visit' = [visit EXCEPT ![v] = q]
  BY DEF Moves
<1>2. q \in Visit
  BY DEF Visit, Place
<1>3. Becomes(v, q.pc, q.password, q.subject, q.answer)
  BY <1>1, <1>2, Becoming
<1>4. q.pc = pc /\ q.password = visit[v].password /\ q.subject = visit[v].subject /\ q.answer = visit[v].answer
  BY DEF Visit
<1>5. QED
  BY <1>3, <1>4

LEMMA Answering ==
    ASSUME visit \in [Visitor -> Visit], NEW v \in Visitor, NEW answer \in Answer, Answers(v, answer)
    PROVE  Becomes(v, "over", visit[v].password, visit[v].subject, answer)
<1> DEFINE q == [visit[v] EXCEPT !.pc = "over", !.answer = answer]
<1>1. visit' = [visit EXCEPT ![v] = q]
  BY DEF Answers
<1>2. q \in Visit
  BY DEF Visit, Answer
<1>3. Becomes(v, q.pc, q.password, q.subject, q.answer)
  BY <1>1, <1>2, Becoming
<1>4. q.pc = "over" /\ q.password = visit[v].password /\ q.subject = visit[v].subject /\ q.answer = answer
  BY DEF Visit
<1>5. QED
  BY <1>3, <1>4

LEMMA MovingWith ==
    ASSUME visit \in [Visitor -> Visit], NEW v \in Visitor, NEW pc \in Place,
           NEW password \in AnyPassword, visit' = [visit EXCEPT ![v].pc = pc, ![v].password = password]
    PROVE  Becomes(v, pc, password, visit[v].subject, visit[v].answer)
<1> DEFINE q == [visit[v] EXCEPT !.pc = pc, !.password = password]
<1>1. visit' = [visit EXCEPT ![v] = q]
  OBVIOUS
<1>2. q \in Visit
  BY DEF Visit, Place
<1>3. Becomes(v, q.pc, q.password, q.subject, q.answer)
  BY <1>1, <1>2, Becoming
<1>4. q.pc = pc /\ q.password = password /\ q.subject = visit[v].subject /\ q.answer = visit[v].answer
  BY DEF Visit
<1>5. QED
  BY <1>3, <1>4

LEMMA MovingTo ==
    ASSUME visit \in [Visitor -> Visit], NEW v \in Visitor, NEW pc \in Place,
           NEW subject \in 0..MaxSubjects, visit' = [visit EXCEPT ![v].pc = pc, ![v].subject = subject]
    PROVE  Becomes(v, pc, visit[v].password, subject, visit[v].answer)
<1> DEFINE q == [visit[v] EXCEPT !.pc = pc, !.subject = subject]
<1>1. visit' = [visit EXCEPT ![v] = q]
  OBVIOUS
<1>2. q \in Visit
  BY DEF Visit, Place
<1>3. Becomes(v, q.pc, q.password, q.subject, q.answer)
  BY <1>1, <1>2, Becoming
<1>4. q.pc = pc /\ q.password = visit[v].password /\ q.subject = subject /\ q.answer = visit[v].answer
  BY DEF Visit
<1>5. QED
  BY <1>3, <1>4

\* The table of subjects is filled from the start, so the next place is free.
LEMMA NextPlace ==
    ASSUME Stored = 1..Cardinality(Stored), Stored # Subject
    PROVE  /\ Cardinality(Stored) \in Nat
           /\ Cardinality(Stored) + 1 \in Subject \ Stored
<1>1. IsFiniteSet(Subject) /\ Cardinality(Stored) \in Nat
  <2>1. IsFiniteSet(Subject)
    BY FS_Interval, AccountsAssumption DEF Subject
  <2>2. IsFiniteSet(Stored)
    BY <2>1, FS_Subset DEF Stored
  <2>3. QED
    BY <2>1, <2>2, FS_CardinalityType
<1>2. Stored \subseteq Subject
  BY DEF Stored
<1>3. Cardinality(Stored) < MaxSubjects
  BY <1>1, <1>2, AccountsAssumption DEF Subject
<1>4. QED
  BY <1>1, <1>3, AccountsAssumption DEF Subject

-----------------------------------------------------------------------------
(* The steps                                                               *)

LEMMA InitInv == AccountsInit => IInv
<1> SUFFICES ASSUME AccountsInit PROVE IInv
  OBVIOUS
<1> USE AccountsAssumption DEF AccountsInit, NoAccount, NoSubject
<1>1. Stored = {}
  BY DEF Stored
<1>2. AccountsTypeOK
  <2>1. account \in AnyAccount /\ form \in AnyAccount
    BY DEF AnyAccount
  <2>2. subjects \in [Subject -> AnySubject]
    BY DEF AnySubject, DefaultScopes
  <2>3. visit \in [Visitor -> Visit]
    BY DEF Visit
  <2>4. Stored = 1..Cardinality(Stored)
    BY <1>1, FS_EmptySet
  <2>5. cut \in BOOLEAN /\ changed \in BOOLEAN
    OBVIOUS
  <2>6. early \subseteq LoginAttempt /\ ends \in 0..MaxEnds
    OBVIOUS
  <2>7. QED
    BY <2>1, <2>2, <2>3, <2>4, <2>5, <2>6, Types
<1>3. Roles /\ OneWinner /\ FormFits /\ SubjectsFit
  BY DEF Roles, OneWinner, Winner, FormFits, SubjectsFit, Visitor
<1>4. AccountIsWhole /\ OthersComplete
  BY <1>1 DEF AccountIsWhole, OthersComplete, Visitor
<1>5. QED
  BY <1>2, <1>3, <1>4 DEF IInv

\* Requests that are neither registrations of an account nor become such leave
\* alone who works on what.
LEMMA UnderWayKept ==
    ASSUME NEW v \in Visitor, NEW pc, NEW password, NEW subject, NEW answer,
           Becomes(v, pc, password, subject, answer), visit[v].pc \notin {"token", "grant"}, NEW s, UnderWay(s)
    PROVE  UnderWay(s)'
<1>1. PICK r \in Registration : visit[r].pc \in {"token", "grant"} /\ visit[r].subject = s
  BY DEF UnderWay
<1>2. visit'[r] = visit[r]
  BY <1>1 DEF Becomes, Visitor
<1>3. QED
  BY <1>1, <1>2 DEF UnderWay

Inserting == {"insert subject", "token", "grant"}

LEMMA RegisteringKept ==
    ASSUME NEW v \in Visitor, NEW pc, NEW password, NEW subject, NEW answer,
           Becomes(v, pc, password, subject, answer),
           v \in Registration => (visit[v].pc \in Inserting <=> pc \in Inserting)
    PROVE  Registering' = Registering
BY DEF Registering, Becomes, Visitor, Inserting

\* Steps of a request that reads, or is refused: nothing but its own state
\* changes, and it neither works on a subject nor has an answer that counts.
LEMMA Advancing ==
    ASSUME IInv, NEW v \in Visitor, NEW pc \in {"insert", "update", "subject", "over"}, NEW password, NEW answer,
           Becomes(v, pc, password, visit[v].subject, answer),
           visit[v].pc \in {"new", "insert"},
           pc = "insert" => v \in Registration,
           pc = "subject" => v \in LoginAttempt,
           pc = "update" => v \in PasswordChange /\ account.exists,
           answer = "ok" => visit[v].answer = "ok",
           v \in Registration => password = visit[v].password \/ visit[v].answer # "ok",
           UNCHANGED <<account, subjects, form, cut, early, changed, ends>>
    PROVE  IInv'
<1>1. Stored' = Stored /\ Registering' = Registering
  <2>1. Stored' = Stored
    BY DEF Stored
  <2>2. Registering' = Registering
    BY RegisteringKept DEF Inserting
  <2>3. QED
    BY <2>1, <2>2
<1>2. AccountsTypeOK'
  BY <1>1, Types DEF IInv, Becomes, AccountsTypeOK
<1>3. Roles'
  BY DEF IInv, Roles, Becomes
<1>4. OneWinner' /\ FormFits'
  <2>1. \A r \in Registration : Winner(r)' => Winner(r) /\ visit'[r].password = visit[r].password
    BY DEF Winner, Becomes, Visitor
  <2>2. QED
    BY <2>1 DEF IInv, OneWinner, FormFits
<1>5. SubjectsFit'
  BY DEF IInv, SubjectsFit, Becomes, Visitor
<1>6. AccountIsWhole'
  BY <1>1 DEF IInv, AccountIsWhole
<1>7. OthersComplete'
  <2> SUFFICES ASSUME Undisturbed PROVE OthersComplete'
    BY DEF OthersComplete, Undisturbed
  <2>1. \A s : Complete(s)' <=> Complete(s)
    BY DEF Complete
  <2>2. \A s \in Stored : Complete(s)' \/ UnderWay(s)'
    BY <2>1, UnderWayKept DEF IInv, OthersComplete
  <2>3. ASSUME NEW u \in LoginAttempt
        PROVE  /\ visit'[u].pc \notin {"insert subject", "token"}
               /\ visit'[u].pc = "get token" => Complete(visit'[u].subject)
               /\ visit'[u].answer = "ok" => visit'[u].subject \in Subject /\ Complete(visit'[u].subject)
    <3>1. CASE u = v
      BY <3>1 DEF Becomes, IInv, OthersComplete
    <3>2. CASE u # v
      BY <3>2 DEF Becomes, Visitor, IInv, OthersComplete
    <3>3. QED
      BY <3>1, <3>2
  <2>4. QED
    BY <1>1, <2>1, <2>2, <2>3 DEF OthersComplete
<1>8. QED
  BY <1>2, <1>3, <1>4, <1>5, <1>6, <1>7 DEF IInv

LEMMA CheckUsernameStep ==
    ASSUME IInv, NEW v \in Visitor, NEW password \in AnyPassword, CheckUsername(v, password)
    PROVE  IInv'
<1>1. visit \in [Visitor -> Visit]
  BY Types DEF IInv
<1>2. ASSUME NEW answer \in {"invalid password", "username exists"}, Answers(v, answer)
      PROVE  IInv'
  BY <1>1, <1>2, Answering, Advancing DEF CheckUsername, Answer
<1>3. ASSUME visit' = [visit EXCEPT ![v].pc = "insert", ![v].password = password], ~account.exists
      PROVE  IInv'
  <2>1. Becomes(v, "insert", password, visit[v].subject, visit[v].answer)
    BY <1>1, <1>3, MovingWith DEF Place
  <2>2. v \in Registration /\ visit[v].answer # "ok"
    BY <1>3 DEF CheckUsername, IInv, OneWinner, Winner
  <2>3. QED
    BY <2>1, <2>2, Advancing DEF CheckUsername
<1>4. QED
  BY <1>2, <1>3 DEF CheckUsername

LEMMA AuthenticateVisitorStep ==
    ASSUME IInv, NEW v \in Visitor, NEW password \in AnyPassword, AuthenticateVisitor(v, password)
    PROVE  IInv'
<1>1. visit \in [Visitor -> Visit]
  BY Types DEF IInv
<1>2. ASSUME Answers(v, "unauthorized") PROVE IInv'
  <2>1. Becomes(v, "over", visit[v].password, visit[v].subject, "unauthorized")
    BY <1>1, <1>2, Answering DEF Answer
  <2>2. QED
    BY <2>1, Advancing DEF AuthenticateVisitor
<1>3. ASSUME Moves(v, "subject") PROVE IInv'
  <2>1. Becomes(v, "subject", visit[v].password, visit[v].subject, visit[v].answer)
    BY <1>1, <1>3, Moving DEF Place
  <2>2. QED
    BY <2>1, Advancing DEF AuthenticateVisitor
<1>4. QED
  BY <1>2, <1>3 DEF AuthenticateVisitor

LEMMA CheckOldPasswordStep ==
    ASSUME IInv, NEW v \in Visitor, NEW password \in AnyPassword, CheckOldPassword(v, password)
    PROVE  IInv'
<1>1. visit \in [Visitor -> Visit]
  BY Types DEF IInv
<1>2. PICK new \in AnyPassword \ {password} :
          IF ~CredentialsFit(password) THEN Answers(v, "unauthorized")
          ELSE IF ~validate_password(new) THEN Answers(v, "invalid password")
          ELSE visit' = [visit EXCEPT ![v].pc = "update", ![v].password = new]
  BY DEF CheckOldPassword
<1>3. ASSUME NEW answer \in {"invalid password", "unauthorized"}, Answers(v, answer)
      PROVE  IInv'
  BY <1>1, <1>3, Answering, Advancing DEF CheckOldPassword, Answer
<1>4. ASSUME CredentialsFit(password), visit' = [visit EXCEPT ![v].pc = "update", ![v].password = new]
      PROVE  IInv'
  <2>1. Becomes(v, "update", new, visit[v].subject, visit[v].answer)
    BY <1>1, <1>4, MovingWith DEF Place
  <2>2. v \in PasswordChange /\ account.exists /\ visit[v].pc = "new"
    BY <1>4 DEF CheckOldPassword, CredentialsFit
  <2>3. v \notin Registration
    BY <2>2, AccountsAssumption
  <2>4. QED
    BY <2>1, <2>2, <2>3, Advancing DEF CheckOldPassword
<1>5. QED
  BY <1>2, <1>3, <1>4

LEMMA InsertAccountStep ==
    ASSUME IInv, NEW v \in Visitor, InsertAccount(v)
    PROVE  IInv'
<1>1. visit \in [Visitor -> Visit] /\ v \in Registration
  BY Types DEF IInv, Roles, InsertAccount
<1>2. CASE account.exists
  <2>1. Becomes(v, "over", visit[v].password, visit[v].subject, "username exists")
    BY <1>1, <1>2, Answering DEF InsertAccount, Answer
  <2>2. UNCHANGED <<account, subjects, form, cut, early, changed, ends>>
    BY <1>2 DEF InsertAccount
  <2>3. visit[v].pc \in {"new", "insert"}
    BY DEF InsertAccount
  <2> DEFINE password == visit[v].password
             answer == "username exists"
             pc == "over"
  <2>4. /\ Becomes(v, pc, password, visit[v].subject, answer) /\ pc \in {"insert", "update", "subject", "over"}
        /\ (pc = "insert" => v \in Registration) /\ (pc = "subject" => v \in LoginAttempt)
        /\ (pc = "update" => v \in PasswordChange /\ account.exists) /\ (answer = "ok" => visit[v].answer = "ok")
        /\ (v \in Registration => password = visit[v].password \/ visit[v].answer # "ok")
    BY <2>1
  <2> HIDE DEF password, answer, pc
  <2>5. QED
    BY <2>2, <2>3, <2>4, Advancing
<1>3. CASE ~account.exists
  <2>1. Becomes(v, "insert subject", visit[v].password, visit[v].subject, visit[v].answer)
    BY <1>1, <1>3, Moving DEF InsertAccount, Place
  <2>2. /\ account' = [exists |-> TRUE, active |-> FALSE, password |-> visit[v].password]
        /\ UNCHANGED <<subjects, form, cut, early, changed, ends>> /\ visit[v].pc = "insert"
    BY <1>3 DEF InsertAccount
  <2>3. Stored' = Stored
    BY <2>2 DEF Stored
  <2>4. AccountsTypeOK'
    <3>1. visit[v].password \in AnyPassword \cup {NoPassword}
      BY <1>1 DEF Visit
    <3>2. account' \in AnyAccount
      BY <2>2, <3>1 DEF AnyAccount
    <3>3. QED
      BY <2>1, <2>2, <2>3, <3>2, Types DEF IInv, Becomes, AccountsTypeOK, AnyAccount
  <2>5. Roles'
    BY <1>1, <2>1, <2>2, AccountsAssumption DEF IInv, Roles, Becomes
  <2>6. OneWinner'
    <3>1. \A r \in Registration : ~Winner(r)
      BY <1>3 DEF IInv, OneWinner
    <3>2. \A r \in Registration : Winner(r)' => r = v
      BY <2>1, <3>1 DEF Winner, Becomes, Visitor
    <3>3. account'.exists /\ account'.password = visit'[v].password
      BY <2>1, <2>2 DEF Becomes
    <3>4. QED
      BY <3>2, <3>3 DEF OneWinner
  <2>7. FormFits'
    BY <1>3, <2>2 DEF IInv, FormFits
  <2>8. SubjectsFit'
    BY <2>1, <2>2 DEF IInv, SubjectsFit, Becomes, Visitor
  <2>9. AccountIsWhole'
    <3>1. v \in Registering'
      BY <1>1, <2>1 DEF Registering, Becomes
    <3>2. QED
      BY <3>1 DEF AccountIsWhole
  <2>10. OthersComplete'
    <3> SUFFICES ASSUME Undisturbed PROVE OthersComplete'
      BY <2>2 DEF OthersComplete, Undisturbed
    <3>1. \A s : Complete(s)' <=> Complete(s)
      BY <2>2 DEF Complete
    <3>2. \A s \in Stored : Complete(s)' \/ UnderWay(s)'
      BY <2>1, <2>2, <3>1, UnderWayKept DEF IInv, OthersComplete
    <3>3. \A u \in LoginAttempt : visit'[u] = visit[u]
      BY <1>1, <2>1, AccountsAssumption DEF Becomes, Visitor
    <3>4. QED
      BY <2>3, <3>1, <3>2, <3>3 DEF IInv, OthersComplete
  <2>11. QED
    BY <2>4, <2>5, <2>6, <2>7, <2>8, <2>9, <2>10 DEF IInv
<1>4. QED
  BY <1>2, <1>3

LEMMA InsertSubjectStep ==
    ASSUME IInv, NEW v \in Visitor, InsertSubjectOf(v)
    PROVE  IInv'
<1>1. /\ visit \in [Visitor -> Visit] /\ subjects \in [Subject -> AnySubject]
      /\ v \notin PasswordChange /\ Stored = 1..Cardinality(Stored)
  BY Types DEF IInv, Roles, InsertSubjectOf
<1>2. PICK s \in Subject \ Stored : s = Cardinality(Stored) + 1 /\ Cardinality(Stored) \in Nat
  <2>1. Cardinality(Stored) \in Nat /\ Cardinality(Stored) + 1 \in Subject \ Stored
    BY <1>1, NextPlace DEF InsertSubjectOf
  <2>2. QED
    BY <2>1
<1>3. /\ visit[v].pc = "insert subject"
      /\ subjects' = [subjects EXCEPT ![s].exists = TRUE]
      /\ visit' = [visit EXCEPT ![v].pc = "token", ![v].subject = s]
      /\ UNCHANGED <<account, form, cut, early, changed, ends>>
  BY <1>2 DEF InsertSubjectOf
<1>4. Becomes(v, "token", visit[v].password, s, visit[v].answer)
  <2>1. s \in 0..MaxSubjects
    BY <1>2, AccountsAssumption DEF Subject
  <2>2. QED
    BY <1>1, <1>3, <2>1, MovingTo DEF Place
<1>5. /\ subjects' \in [Subject -> AnySubject] /\ \A x \in Subject : x # s => subjects'[x] = subjects[x]
      /\ ~subjects[s].exists
      /\ subjects'[s].exists /\ subjects'[s].scopes = 0
  <2> DEFINE q == [subjects[s] EXCEPT !.exists = TRUE]
  <2>1. subjects[s] \in AnySubject /\ ~subjects[s].exists /\ subjects[s].scopes = 0
    <3>1. subjects[s] \in AnySubject
      BY <1>1, <1>2
    <3>2. ~subjects[s].exists
      BY <1>2 DEF Stored
    <3>3. subjects[s] = NoSubject
      BY <1>2, <3>2 DEF IInv, SubjectsFit
    <3>4. QED
      BY <3>1, <3>2, <3>3 DEF NoSubject
  <2>2. q \in AnySubject /\ q.exists /\ q.scopes = 0
    BY <2>1 DEF AnySubject
  <2>3. subjects' = [subjects EXCEPT ![s] = q]
    BY <1>3
  <2> HIDE DEF q
  <2>4. subjects'[s] = q /\ subjects' \in [Subject -> AnySubject]
    BY <1>1, <1>2, <2>2, <2>3
  <2>5. \A x \in Subject : x # s => subjects'[x] = subjects[x]
    BY <1>1, <1>2, <2>3
  <2>6. QED
    BY <2>1, <2>2, <2>4, <2>5
<1>6. Stored' = Stored \cup {s}
  BY <1>2, <1>5 DEF Stored
<1>7. Stored' = 1..Cardinality(Stored')
  <2>1. Stored' = 1..s
    BY <1>1, <1>2, <1>6
  <2>2. Cardinality(1..s) = s
    BY <1>2, FS_Interval
  <2>3. QED
    BY <2>1, <2>2
<1>8. AccountsTypeOK'
  BY <1>3, <1>4, <1>5, <1>7, Types DEF IInv, Becomes, AccountsTypeOK, AnySubject
<1>9. Roles'
  BY <1>1, <1>3, <1>4 DEF IInv, Roles, Becomes
<1>10. OneWinner' /\ FormFits'
  <2>1. \A r \in Registration : Winner(r)' => Winner(r) /\ visit'[r].password = visit[r].password
    BY <1>3, <1>4 DEF Winner, Becomes, Visitor
  <2>2. QED
    BY <1>3, <2>1 DEF IInv, OneWinner, FormFits
<1>11. SubjectsFit'
  <2>1. \A x \in Subject : ~subjects'[x].exists => subjects'[x] = NoSubject
    BY <1>5 DEF IInv, SubjectsFit
  <2>2. \A u \in Visitor : u # v /\ visit[u].pc \in {"token", "grant", "get token"} =>
           visit[u].subject \in Subject \ {s} /\ subjects'[visit[u].subject] = subjects[visit[u].subject]
    BY <1>5 DEF IInv, SubjectsFit
  <2>3. \A u \in Visitor : u # v => visit'[u] = visit[u]
    BY <1>4 DEF Becomes
  <2>4. visit'[v].pc = "token" /\ visit'[v].subject = s
    BY <1>4 DEF Becomes
  <2>5. ASSUME NEW u \in Visitor, visit'[u].pc \in {"token", "grant", "get token"}
        PROVE  visit'[u].subject \in Subject /\ subjects'[visit'[u].subject].exists
    <3>1. CASE u = v
      BY <1>2, <1>5, <2>4, <3>1
    <3>2. CASE u # v
      BY <2>2, <2>3, <2>5, <3>2 DEF IInv, SubjectsFit
    <3>3. QED
      BY <3>1, <3>2
  <2>6. ASSUME NEW r \in Registration, visit'[r].pc = "token"
        PROVE  subjects'[visit'[r].subject].scopes = 0
    <3>1. CASE r = v
      BY <1>5, <2>4, <3>1
    <3>2. CASE r # v
      <4>1. visit'[r] = visit[r] /\ r \in Visitor
        BY <2>3, <3>2 DEF Visitor
      <4>2. visit[r].pc = "token" /\ subjects[visit[r].subject].scopes = 0
        BY <2>6, <4>1 DEF IInv, SubjectsFit
      <4>3. QED
        BY <2>2, <3>2, <4>1, <4>2
    <3>3. QED
      BY <3>1, <3>2
  <2>7. ASSUME NEW r \in Registration, visit'[r].pc = "grant"
        PROVE  subjects'[visit'[r].subject].token /\ subjects'[visit'[r].subject].scopes < DefaultScopes
    <3>1. r # v
      BY <2>4, <2>7
    <3>2. QED
      BY <2>2, <2>3, <2>7, <3>1 DEF IInv, SubjectsFit, Visitor
  <2>8. QED
    BY <2>1, <2>5, <2>6, <2>7 DEF SubjectsFit
<1>12. AccountIsWhole'
  <2>1. Registering' = Registering
    BY <1>3, <1>4, RegisteringKept DEF Inserting
  <2>2. \A x \in Stored : subjects'[x] = subjects[x]
    BY <1>2, <1>5 DEF Stored
  <2>3. QED
    BY <1>3, <1>6, <2>1, <2>2 DEF IInv, AccountIsWhole
<1>13. OthersComplete'
  <2> SUFFICES ASSUME Undisturbed PROVE OthersComplete'
    BY <1>3 DEF OthersComplete, Undisturbed
  <2>1. v \in Registration
    BY <1>1, <1>3 DEF IInv, OthersComplete, Visitor
  <2>2. \A x \in Subject : Complete(x) => x # s /\ Complete(x)'
    BY <1>5 DEF Complete
  <2>3. UnderWay(s)'
    BY <1>4, <2>1 DEF UnderWay, Becomes
  <2>4. \A x \in Stored : Complete(x)' \/ UnderWay(x)'
    BY <1>3, <1>4, <2>2, UnderWayKept DEF IInv, OthersComplete, Stored
  <2>5. \A u \in LoginAttempt : visit'[u] = visit[u]
    BY <1>4, <2>1, AccountsAssumption DEF Becomes, Visitor
  <2>6. \A u \in LoginAttempt : visit[u].pc = "get token" => visit[u].subject \in Subject
    BY DEF IInv, SubjectsFit, Visitor
  <2>7. QED
    BY <1>6, <2>2, <2>3, <2>4, <2>5, <2>6 DEF IInv, OthersComplete
<1>14. QED
  BY <1>8, <1>9, <1>10, <1>11, <1>12, <1>13 DEF IInv

\* The subject s has changed, and no other.
Alters(s, token, scopes) ==
    /\ subjects' \in [Subject -> AnySubject]
    /\ \A x \in Subject : x # s => subjects'[x] = subjects[x]
    /\ subjects'[s].exists = subjects[s].exists
    /\ subjects'[s].token = token /\ subjects'[s].scopes = scopes

LEMMA Altering ==
    ASSUME subjects \in [Subject -> AnySubject], NEW s \in Subject, NEW q \in AnySubject,
           q.exists = subjects[s].exists, subjects' = [subjects EXCEPT ![s] = q]
    PROVE  Alters(s, q.token, q.scopes)
BY DEF Alters

LEMMA StoredKept ==
    ASSUME NEW s \in Subject, NEW token, NEW scopes, Alters(s, token, scopes)
    PROVE  Stored' = Stored
BY DEF Alters, Stored

LEMMA InsertTokenStep ==
    ASSUME IInv, NEW v \in Visitor, InsertTokenOf(v)
    PROVE  IInv'
<1>1. /\ visit \in [Visitor -> Visit] /\ subjects \in [Subject -> AnySubject]
      /\ visit[v].pc = "token" /\ UNCHANGED <<account, form, cut, early, changed, ends>>
  BY Types DEF IInv, InsertTokenOf
<1>2. PICK s \in Subject : s = visit[v].subject /\ subjects[s].exists
  BY <1>1 DEF IInv, SubjectsFit
<1>3. Alters(s, TRUE, subjects[s].scopes)
  <2> DEFINE q == [subjects[s] EXCEPT !.token = TRUE]
  <2>1. subjects[s] \in AnySubject
    BY <1>1, <1>2
  <2>2. q \in AnySubject /\ q.exists = subjects[s].exists /\ q.token = TRUE /\ q.scopes = subjects[s].scopes
    BY <2>1 DEF AnySubject
  <2>3. subjects' = [subjects EXCEPT ![s] = q]
    BY <1>2 DEF InsertTokenOf
  <2> HIDE DEF q
  <2>4. QED
    BY <1>1, <2>2, <2>3, Altering
<1>4. PICK pc \in {"grant", "over"}, answer \in {visit[v].answer, "ok"} :
         /\ Becomes(v, pc, visit[v].password, visit[v].subject, answer)
         /\ v \in Registration => pc = "grant" /\ answer = visit[v].answer
         /\ v \notin Registration => pc = "over" /\ answer = "ok"
  <2>1. CASE v \in Registration
    <3>1. Becomes(v, "grant", visit[v].password, visit[v].subject, visit[v].answer)
      BY <1>1, <2>1, Moving DEF InsertTokenOf, Place
    <3>2. QED
      BY <2>1, <3>1
  <2>2. CASE v \notin Registration
    <3>1. Becomes(v, "over", visit[v].password, visit[v].subject, "ok")
      BY <1>1, <2>2, Answering DEF InsertTokenOf, Answer
    <3>2. QED
      BY <2>2, <3>1
  <2>3. QED
    BY <2>1, <2>2
<1>5. Stored' = Stored /\ Registering' = Registering
  <2>1. Registering' = Registering
    BY <1>1, <1>4, RegisteringKept DEF Inserting
  <2>2. QED
    BY <1>3, <2>1, StoredKept
<1>6. AccountsTypeOK'
  BY <1>1, <1>3, <1>4, <1>5, Types DEF IInv, Becomes, Alters, AccountsTypeOK, AnySubject
<1>7. Roles'
  BY <1>1, <1>4 DEF IInv, Roles, Becomes
<1>8. OneWinner' /\ FormFits'
  <2>1. \A r \in Registration : Winner(r)' => Winner(r) /\ visit'[r].password = visit[r].password
    BY <1>1, <1>4 DEF Winner, Becomes, Visitor
  <2>2. QED
    BY <1>1, <2>1 DEF IInv, OneWinner, FormFits
<1>9. \A u \in Visitor : u # v => visit'[u] = visit[u]
  BY <1>4 DEF Becomes
<1>10. visit'[v].pc = pc /\ visit'[v].subject = s
  BY <1>2, <1>4 DEF Becomes
<1>11. \A x \in Subject : /\ subjects'[x].exists = subjects[x].exists /\ subjects'[x].scopes = subjects[x].scopes
                          /\ subjects[x].token => subjects'[x].token
  BY <1>3 DEF Alters
<1>12. SubjectsFit'
  <2>1. \A x \in Subject : ~subjects'[x].exists => subjects'[x] = NoSubject
    BY <1>2, <1>3 DEF IInv, SubjectsFit, Alters
  <2>2. ASSUME NEW u \in Visitor, visit'[u].pc \in {"token", "grant", "get token"}
        PROVE  visit'[u].subject \in Subject /\ subjects'[visit'[u].subject].exists
    <3>1. CASE u = v
      BY <1>2, <1>10, <1>11, <3>1
    <3>2. CASE u # v
      BY <1>9, <1>11, <2>2, <3>2 DEF IInv, SubjectsFit
    <3>3. QED
      BY <3>1, <3>2
  <2>3. ASSUME NEW r \in Registration, visit'[r].pc = "token"
        PROVE  subjects'[visit'[r].subject].scopes = 0
    <3>1. r # v /\ r \in Visitor
      BY <1>10, <2>3 DEF Visitor
    <3>2. visit'[r] = visit[r] /\ visit[r].pc = "token"
      BY <1>9, <2>3, <3>1
    <3>3. visit[r].subject \in Subject /\ subjects[visit[r].subject].scopes = 0
      BY <3>1, <3>2 DEF IInv, SubjectsFit
    <3>4. QED
      BY <1>11, <3>2, <3>3
  <2>4. ASSUME NEW r \in Registration, visit'[r].pc = "grant"
        PROVE  subjects'[visit'[r].subject].token /\ subjects'[visit'[r].subject].scopes < DefaultScopes
    <3>1. CASE r = v
      <4>1. subjects[s].scopes = 0
        BY <1>1, <1>2, <3>1 DEF IInv, SubjectsFit
      <4>2. QED
        BY <1>3, <1>10, <3>1, <4>1 DEF Alters, DefaultScopes
    <3>2. CASE r # v
      <4>1. r \in Visitor /\ visit'[r] = visit[r] /\ visit[r].pc = "grant"
        BY <1>9, <2>4, <3>2 DEF Visitor
      <4>2. /\ visit[r].subject \in Subject /\ subjects[visit[r].subject].token
            /\ subjects[visit[r].subject].scopes < DefaultScopes
        BY <4>1 DEF IInv, SubjectsFit
      <4>3. QED
        BY <1>11, <4>1, <4>2
    <3>3. QED
      BY <3>1, <3>2
  <2>5. QED
    BY <2>1, <2>2, <2>3, <2>4 DEF SubjectsFit
<1>13. AccountIsWhole'
  BY <1>1, <1>5, <1>11 DEF IInv, AccountIsWhole, Stored
<1>14. OthersComplete'
  <2> SUFFICES ASSUME Undisturbed PROVE OthersComplete'
    BY <1>1 DEF OthersComplete, Undisturbed
  <2>1. v \in Registration
    BY <1>1 DEF IInv, OthersComplete, Visitor, Roles
  <2>2. \A x \in Subject : Complete(x) => Complete(x)'
    BY <1>11 DEF Complete
  <2>3. \A x \in Stored : UnderWay(x) => UnderWay(x)'
    <3>1. ASSUME NEW x \in Stored, NEW r \in Registration, visit[r].pc \in {"token", "grant"}, visit[r].subject = x
          PROVE  visit'[r].pc \in {"token", "grant"} /\ visit'[r].subject = x
      <4>1. CASE r = v
        BY <1>2, <1>4, <1>10, <2>1, <3>1, <4>1
      <4>2. CASE r # v
        BY <1>9, <3>1, <4>2 DEF Visitor
      <4>3. QED
        BY <4>1, <4>2
    <3>2. QED
      BY <3>1 DEF UnderWay
  <2>4. \A x \in Stored : Complete(x)' \/ UnderWay(x)'
    BY <2>2, <2>3 DEF IInv, OthersComplete, Stored
  <2>5. \A u \in LoginAttempt : visit'[u] = visit[u]
    BY <1>9, <2>1, AccountsAssumption DEF Visitor
  <2>6. \A u \in LoginAttempt : visit[u].pc = "get token" => visit[u].subject \in Subject
    BY DEF IInv, SubjectsFit, Visitor
  <2>7. QED
    BY <1>5, <2>2, <2>4, <2>5, <2>6 DEF IInv, OthersComplete
<1>15. QED
  BY <1>6, <1>7, <1>8, <1>12, <1>13, <1>14 DEF IInv

LEMMA GrantStep ==
    ASSUME IInv, NEW v \in Visitor, Grant(v)
    PROVE  IInv'
<1>1. /\ visit \in [Visitor -> Visit] /\ subjects \in [Subject -> AnySubject]
      /\ visit[v].pc = "grant" /\ UNCHANGED <<account, form, cut, early, changed, ends>>
      /\ v \in Registration
  BY Types DEF IInv, Roles, Grant
<1>2. PICK s \in Subject : /\ s = visit[v].subject /\ subjects[s].exists /\ subjects[s].token
                           /\ subjects[s].scopes < DefaultScopes
  BY <1>1 DEF IInv, SubjectsFit
<1>3. subjects[s].scopes \in 0..DefaultScopes
  <2>1. subjects[s] \in AnySubject
    BY <1>1
  <2>2. QED
    BY <2>1 DEF AnySubject
<1>4. Alters(s, TRUE, subjects[s].scopes + 1)
  <2> DEFINE q == [subjects[s] EXCEPT !.scopes = @ + 1]
  <2>1. subjects[s] \in AnySubject
    BY <1>1
  <2>2. subjects[s].scopes + 1 \in 0..DefaultScopes
    BY <1>2, <1>3 DEF DefaultScopes
  <2>3. q \in AnySubject /\ q.exists = subjects[s].exists /\ q.token = subjects[s].token /\ q.scopes = subjects[s].scopes + 1
    BY <2>1, <2>2 DEF AnySubject
  <2>4. subjects' = [subjects EXCEPT ![s] = q]
    BY <1>2 DEF Grant
  <2>5. subjects[s].token = TRUE
    BY <1>2, <2>1 DEF AnySubject
  <2> HIDE DEF q
  <2>6. QED
    BY <1>1, <2>3, <2>4, <2>5, Altering
<1>5. \/ subjects[s].scopes + 1 < DefaultScopes /\ visit' = visit
      \/ /\ subjects[s].scopes + 1 = DefaultScopes
         /\ Becomes(v, "over", visit[v].password, visit[v].subject, "ok")
  <2>1. CASE subjects[s].scopes + 1 < DefaultScopes
    BY <1>2, <2>1 DEF Grant
  <2>2. CASE ~(subjects[s].scopes + 1 < DefaultScopes)
    <3>1. Becomes(v, "over", visit[v].password, visit[v].subject, "ok")
      BY <1>1, <1>2, <2>2, Answering DEF Grant, Answer
    <3>2. subjects[s].scopes + 1 = DefaultScopes
      BY <1>2, <1>3, <2>2 DEF DefaultScopes
    <3>3. QED
      BY <3>1, <3>2
  <2>3. QED
    BY <2>1, <2>2
<1>6. Stored' = Stored
  BY <1>4, StoredKept
<1>7. \A u \in Visitor : u # v => visit'[u] = visit[u]
  BY <1>5 DEF Becomes
<1>8. \A r \in Registration : Winner(r) => r = v
  BY <1>1 DEF IInv, OneWinner, Winner
<1>9. AccountsTypeOK'
  <2>1. visit' \in [Visitor -> Visit]
    BY <1>1, <1>5 DEF Becomes
  <2>2. QED
    BY <1>1, <1>4, <1>6, <2>1, Types DEF IInv, Alters, AccountsTypeOK, AnySubject
<1>10. Roles'
  BY <1>1, <1>5, <1>7 DEF IInv, Roles, Becomes
<1>11. OneWinner' /\ FormFits'
  <2>1. \A r \in Registration : Winner(r)' => Winner(r) /\ visit'[r].password = visit[r].password
    BY <1>1, <1>5 DEF Winner, Becomes, Visitor
  <2>2. QED
    BY <1>1, <2>1 DEF IInv, OneWinner, FormFits
<1>12. SubjectsFit'
  <2>1. \A x \in Subject : ~subjects'[x].exists => subjects'[x] = NoSubject
    BY <1>2, <1>4 DEF IInv, SubjectsFit, Alters
  <2>2. \A x \in Subject : subjects'[x].exists = subjects[x].exists
    BY <1>4 DEF Alters
  <2>3. ASSUME NEW u \in Visitor, visit'[u].pc \in {"token", "grant", "get token"}
        PROVE  visit'[u].subject \in Subject /\ subjects'[visit'[u].subject].exists
    <3>1. visit'[u] = visit[u]
      BY <1>5, <1>7, <2>3 DEF Becomes
    <3>2. QED
      BY <2>2, <2>3, <3>1 DEF IInv, SubjectsFit
  <2>4. ASSUME NEW r \in Registration, visit'[r].pc \in {"token", "grant"}
        PROVE  r = v /\ visit' = visit
    <3>1. visit'[r] = visit[r]
      BY <1>5, <1>7, <2>4 DEF Becomes, Visitor
    <3>2. r = v
      BY <1>8, <2>4, <3>1 DEF Winner
    <3>3. QED
      BY <1>5, <2>4, <3>2 DEF Becomes
  <2>5. \A r \in Registration : visit'[r].pc # "token"
    BY <1>1, <2>4
  <2>6. ASSUME NEW r \in Registration, visit'[r].pc = "grant"
        PROVE  subjects'[visit'[r].subject].token /\ subjects'[visit'[r].subject].scopes < DefaultScopes
    <3>1. r = v /\ visit' = visit
      BY <2>4, <2>6
    <3>2. subjects[s].scopes + 1 < DefaultScopes
      BY <1>1, <1>5, <3>1 DEF Becomes
    <3>3. QED
      BY <1>2, <1>4, <3>1, <3>2 DEF Alters
  <2>7. QED
    BY <2>1, <2>3, <2>5, <2>6 DEF SubjectsFit
<1>13. Complete(s)' \/ visit' = visit
  BY <1>2, <1>4, <1>5 DEF Complete, Alters
<1>14. AccountIsWhole'
  <2>1. CASE visit' = visit
    BY <1>1, <2>1 DEF AccountIsWhole, Registering
  <2>2. CASE Complete(s)'
    <3>1. s \in Stored' /\ subjects'[s].token /\ subjects'[s].scopes = DefaultScopes
      BY <1>2, <1>6, <2>2 DEF Complete, Stored
    <3>2. QED
      BY <3>1 DEF AccountIsWhole
  <2>3. QED
    BY <1>13, <2>1, <2>2
<1>15. OthersComplete'
  <2> SUFFICES ASSUME Undisturbed PROVE OthersComplete'
    BY <1>1 DEF OthersComplete, Undisturbed
  <2>1. \A x \in Subject : Complete(x) => Complete(x)'
    <3>1. ~Complete(s)
      BY <1>2, <1>3 DEF Complete, DefaultScopes
    <3>2. QED
      BY <1>4, <3>1 DEF Complete, Alters
  <2>2. \A x \in Stored : UnderWay(x) => x = s
    BY <1>2, <1>8 DEF UnderWay, Winner
  <2>3. UnderWay(s)' \/ Complete(s)'
    <3>1. CASE visit' = visit
      BY <1>1, <1>2, <3>1 DEF UnderWay
    <3>2. QED
      BY <1>13, <3>1
  <2>4. \A x \in Stored : Complete(x)' \/ UnderWay(x)'
    BY <2>1, <2>2, <2>3 DEF IInv, OthersComplete, Stored
  <2>5. \A u \in LoginAttempt : visit'[u] = visit[u]
    BY <1>1, <1>7, AccountsAssumption DEF Visitor
  <2>6. \A u \in LoginAttempt : visit[u].pc = "get token" => visit[u].subject \in Subject
    BY DEF IInv, SubjectsFit, Visitor
  <2>7. QED
    BY <1>6, <2>1, <2>4, <2>5, <2>6 DEF IInv, OthersComplete
<1>16. QED
  BY <1>9, <1>10, <1>11, <1>12, <1>14, <1>15 DEF IInv

\* Steps of a login on its way to a token: it takes a subject that exists.
LEMMA LoggingIn ==
    ASSUME IInv, NEW v \in LoginAttempt, visit[v].pc \in {"subject", "get token"},
           NEW pc \in {"insert subject", "get token", "token", "over"}, NEW subject, NEW answer,
           Becomes(v, pc, visit[v].password, subject, answer),
           pc \in {"get token", "token"} => subject \in Subject /\ subjects[subject].exists,
           early \subseteq early', early' \subseteq early \cup {v},
           UNCHANGED <<account, subjects, form, cut, changed, ends>>,
           Undisturbed' => /\ pc \notin {"insert subject", "token"}
                           /\ pc = "get token" \/ answer = "ok" => subject \in Subject /\ Complete(subject)
    PROVE  IInv'
<1>1. v \in Visitor /\ v \notin Registration /\ v \notin PasswordChange
  BY AccountsAssumption DEF Visitor
<1>2. Stored' = Stored /\ Registering' = Registering
  <2>1. Stored' = Stored
    BY DEF Stored
  <2>2. Registering' = Registering
    BY <1>1, RegisteringKept
  <2>3. QED
    BY <2>1, <2>2
<1>3. \A u \in Visitor : u # v => visit'[u] = visit[u]
  BY DEF Becomes
<1>4. AccountsTypeOK'
  <2>1. early' \subseteq LoginAttempt
    BY Types DEF IInv
  <2>2. QED
    BY <1>2, <2>1, Types DEF IInv, Becomes, AccountsTypeOK
<1>5. Roles'
  BY <1>1 DEF IInv, Roles, Becomes
<1>6. \A r \in Registration : visit'[r] = visit[r]
  BY <1>1, <1>3 DEF Visitor
<1>7. OneWinner' /\ FormFits'
  BY <1>6 DEF IInv, OneWinner, Winner, FormFits
<1>8. SubjectsFit'
  <2>1. ASSUME NEW u \in Visitor, visit'[u].pc \in {"token", "grant", "get token"}
        PROVE  visit'[u].subject \in Subject /\ subjects'[visit'[u].subject].exists
    <3>1. CASE u = v
      BY <2>1, <3>1 DEF Becomes
    <3>2. CASE u # v
      BY <1>3, <2>1, <3>2 DEF IInv, SubjectsFit
    <3>3. QED
      BY <3>1, <3>2
  <2>2. QED
    BY <1>6, <2>1 DEF IInv, SubjectsFit
<1>9. AccountIsWhole'
  BY <1>2 DEF IInv, AccountIsWhole
<1>10. OthersComplete'
  <2> SUFFICES ASSUME Undisturbed' PROVE OthersComplete'
    BY DEF OthersComplete
  <2>1. Undisturbed
    BY DEF Undisturbed
  <2>2. \A s : Complete(s)' <=> Complete(s)
    BY DEF Complete
  <2>3. \A s \in Stored : Complete(s)' \/ UnderWay(s)'
    <3>1. ASSUME NEW s, UnderWay(s) PROVE UnderWay(s)'
      BY <1>6, <3>1 DEF UnderWay
    <3>2. QED
      BY <2>1, <2>2, <3>1 DEF IInv, OthersComplete
  <2>4. ASSUME NEW u \in LoginAttempt
        PROVE  /\ visit'[u].pc \notin {"insert subject", "token"}
               /\ visit'[u].pc = "get token" => Complete(visit'[u].subject)
               /\ visit'[u].answer = "ok" => visit'[u].subject \in Subject /\ Complete(visit'[u].subject)
    <3>1. CASE u = v
      BY <3>1 DEF Becomes
    <3>2. CASE u # v
      <4>1. visit'[u] = visit[u]
        BY <1>3, <3>2 DEF Visitor
      <4>2. QED
        BY <2>1, <4>1 DEF IInv, OthersComplete
    <3>3. QED
      BY <3>1, <3>2
  <2>5. QED
    BY <1>2, <2>2, <2>3, <2>4 DEF OthersComplete, Complete
<1>11. QED
  BY <1>4, <1>5, <1>7, <1>8, <1>9, <1>10 DEF IInv

LEMMA GetSubjectStep ==
    ASSUME IInv, NEW v \in Visitor, GetSubject(v)
    PROVE  IInv'
<1>1. /\ visit \in [Visitor -> Visit] /\ v \in LoginAttempt /\ visit[v].pc \in {"subject", "get token"}
      /\ UNCHANGED <<account, subjects, form, cut, changed, ends>>
  BY Types DEF IInv, Roles, GetSubject
<1>2. /\ early \subseteq early' /\ early' \subseteq early \cup {v}
      /\ (Registering # {} \/ Stored = {} => early' # {})
  BY DEF GetSubject
<1>3. Undisturbed' => Undisturbed /\ Registering = {} /\ Stored # {}
  BY <1>1, <1>2 DEF Undisturbed
<1>4. ASSUME Stored = {}, Moves(v, "insert subject") PROVE IInv'
  <2>1. Becomes(v, "insert subject", visit[v].password, visit[v].subject, visit[v].answer)
    BY <1>1, <1>4, Moving DEF Place
  <2>2. ~Undisturbed'
    BY <1>3, <1>4
  <2>3. QED
    BY <1>1, <1>2, <2>1, <2>2, LoggingIn
<1>5. ASSUME NEW s \in Stored, visit' = [visit EXCEPT ![v].pc = "get token", ![v].subject = s] PROVE IInv'
  <2>1. s \in Subject /\ subjects[s].exists /\ s \in 0..MaxSubjects
    BY AccountsAssumption DEF Stored, Subject
  <2>2. Becomes(v, "get token", visit[v].password, s, visit[v].answer)
    BY <1>1, <1>5, <2>1, MovingTo DEF Place
  <2>3. Undisturbed' => Complete(s)
    <3>1. ASSUME Registering = {} PROVE ~UnderWay(s)
      BY <3>1 DEF Registering, UnderWay
    <3>2. QED
      BY <1>3, <3>1 DEF IInv, OthersComplete
  <2>4. QED
    BY <1>1, <1>2, <2>1, <2>2, <2>3, LoggingIn
<1>6. QED
  BY <1>4, <1>5 DEF GetSubject

LEMMA GetTokenStep ==
    ASSUME IInv, NEW v \in Visitor, GetToken(v)
    PROVE  IInv'
<1>1. /\ visit \in [Visitor -> Visit] /\ v \in LoginAttempt /\ visit[v].pc = "get token"
      /\ UNCHANGED <<account, subjects, form, cut, early, changed, ends>>
  BY Types DEF IInv, Roles, GetToken
<1>2. visit[v].subject \in Subject /\ subjects[visit[v].subject].exists
  BY <1>1 DEF IInv, SubjectsFit
<1>3. Undisturbed' => Complete(visit[v].subject)
  BY <1>1 DEF IInv, OthersComplete, Undisturbed
<1>4. early \subseteq early' /\ early' \subseteq early \cup {v}
  BY <1>1
<1>5. CASE subjects[visit[v].subject].token
  <2>1. Becomes(v, "over", visit[v].password, visit[v].subject, "ok")
    BY <1>1, <1>5, Answering DEF GetToken, Answer
  <2>2. QED
    BY <1>1, <1>2, <1>3, <1>4, <2>1, LoggingIn
<1>6. CASE ~subjects[visit[v].subject].token
  <2>1. Becomes(v, "token", visit[v].password, visit[v].subject, visit[v].answer)
    BY <1>1, <1>6, Moving DEF GetToken, Place
  <2>2. ~Undisturbed'
    BY <1>3, <1>6 DEF Complete
  <2>3. QED
    BY <1>1, <1>2, <1>4, <2>1, <2>2, LoggingIn
<1>7. QED
  BY <1>5, <1>6

\* What a change of the account alone leaves of the invariant.
LEMMA AccountChanges ==
    ASSUME IInv, account' \in AnyAccount, form' \in AnyAccount, account.exists, account'.exists,
           changed' \in BOOLEAN, UNCHANGED <<subjects, cut, early, ends>>,
           NEW v \in Visitor, v \notin Registration, v \notin LoginAttempt,
           visit' \in [Visitor -> Visit], \A u \in Visitor : u # v => visit'[u] = visit[u],
           visit'[v].pc \notin {"token", "grant", "get token", "insert", "subject", "insert subject", "update"},
           changed' \/ (~changed /\ account'.password = account.password),
           FormFits'
    PROVE  IInv'
<1>1. \A u \in Registration \cup LoginAttempt : visit'[u] = visit[u]
  BY DEF Visitor
<1>2. Stored' = Stored
  BY DEF Stored
<1>3. Registering' = Registering
  BY <1>1 DEF Registering
<1>4. AccountsTypeOK'
  BY <1>2, Types DEF IInv, AccountsTypeOK, AnyAccount
<1>5. Roles'
  BY DEF IInv, Roles
<1>6. OneWinner'
  BY <1>1 DEF IInv, OneWinner, Winner
<1>7. SubjectsFit'
  <2>1. \A u \in Visitor : visit'[u].pc \in {"token", "grant", "get token"} => visit'[u] = visit[u]
    OBVIOUS
  <2>2. QED
    BY <1>1, <2>1 DEF IInv, SubjectsFit
<1>8. AccountIsWhole'
  BY <1>2, <1>3 DEF IInv, AccountIsWhole
<1>9. OthersComplete'
  <2>1. Undisturbed' <=> Undisturbed
    BY DEF Undisturbed
  <2>2. \A s : Complete(s)' <=> Complete(s)
    BY DEF Complete
  <2>3. ASSUME NEW s, UnderWay(s) PROVE UnderWay(s)'
    BY <1>1, <2>3 DEF UnderWay
  <2>4. QED
    BY <1>1, <1>2, <2>1, <2>2, <2>3 DEF IInv, OthersComplete
<1>10. QED
  BY <1>4, <1>5, <1>6, <1>7, <1>8, <1>9 DEF IInv

LEMMA UpdatePasswordStep ==
    ASSUME IInv, NEW v \in Visitor, UpdatePassword(v)
    PROVE  IInv'
<1>1. /\ visit \in [Visitor -> Visit] /\ account \in AnyAccount /\ form \in AnyAccount /\ account.exists
      /\ v \in PasswordChange /\ changed' = TRUE /\ UNCHANGED <<subjects, form, cut, early, ends>>
  BY Types DEF IInv, Roles, UpdatePassword
<1>2. account' \in AnyAccount /\ account'.exists
  <2>1. visit[v].password \in AnyPassword \cup {NoPassword}
    BY <1>1 DEF Visit
  <2>2. account' = [account EXCEPT !.password = visit[v].password]
    BY DEF UpdatePassword
  <2>3. QED
    BY <1>1, <2>1, <2>2 DEF AnyAccount
<1>3. Becomes(v, "over", visit[v].password, visit[v].subject, "ok")
  BY <1>1, Answering DEF UpdatePassword, Answer
<1>4. v \notin Registration /\ v \notin LoginAttempt
  BY <1>1, AccountsAssumption
<1>5. FormFits'
  BY <1>1, <1>2 DEF FormFits
<1>6. /\ visit' \in [Visitor -> Visit] /\ \A u \in Visitor : u # v => visit'[u] = visit[u]
      /\ visit'[v].pc = "over"
  BY <1>3 DEF Becomes
<1>7. QED
  BY <1>1, <1>2, <1>4, <1>5, <1>6, AccountChanges

\* The same for the administrator, whose steps are no request.
LEMMA RecordChanges ==
    ASSUME IInv, account' \in AnyAccount, form' \in AnyAccount, account.exists, account'.exists,
           UNCHANGED <<subjects, visit, cut, early, changed, ends>>,
           changed \/ account'.password = account.password,
           FormFits'
    PROVE  IInv'
<1>1. Stored' = Stored /\ Registering' = Registering
  BY DEF Stored, Registering
<1>2. AccountsTypeOK'
  BY <1>1, Types DEF IInv, AccountsTypeOK, AnyAccount
<1>3. Roles' /\ OneWinner' /\ SubjectsFit'
  BY DEF IInv, Roles, OneWinner, Winner, SubjectsFit
<1>4. AccountIsWhole'
  BY <1>1 DEF IInv, AccountIsWhole
<1>5. OthersComplete'
  BY <1>1 DEF IInv, OthersComplete, Undisturbed, Complete, UnderWay
<1>6. QED
  BY <1>2, <1>3, <1>4, <1>5 DEF IInv

LEMMA OpenRecordStep == IInv /\ OpenRecord => IInv'
<1> SUFFICES ASSUME IInv, OpenRecord PROVE IInv'
  OBVIOUS
<1>1. account \in AnyAccount
  BY Types DEF IInv
<1>2. /\ account.exists /\ form' = account /\ account' = account
      /\ UNCHANGED <<subjects, visit, cut, early, changed, ends>>
  BY DEF OpenRecord
<1>3. FormFits'
  BY <1>2 DEF FormFits
<1>4. QED
  BY <1>1, <1>2, <1>3, RecordChanges

\* The editor writes back what it has read, save for the activation.
LEMMA Saving ==
    ASSUME IInv, SaveRecord
    PROVE  /\ form \in AnyAccount /\ form' \in AnyAccount /\ account' = form' /\ form'.exists
           /\ form'.password = form.password /\ account.exists
           /\ changed \/ account'.password = account.password
<1>1. form \in AnyAccount /\ form.exists
  BY Types DEF IInv, SaveRecord
<1>2. PICK active \in BOOLEAN : form' = [form EXCEPT !.active = active]
  BY DEF SaveRecord
<1>3. form' \in AnyAccount /\ form'.exists /\ form'.password = form.password
  BY <1>1, <1>2 DEF AnyAccount
<1>4. account' = form'
  BY DEF SaveRecord
<1>5. account.exists /\ (changed \/ form.password = account.password)
  BY <1>1 DEF IInv, FormFits
<1>6. QED
  BY <1>1, <1>3, <1>4, <1>5

LEMMA SaveRecordStep == IInv /\ SaveRecord => IInv'
<1> SUFFICES ASSUME IInv, SaveRecord PROVE IInv'
  OBVIOUS
<1>1. /\ form' \in AnyAccount /\ account' = form' /\ form'.exists /\ account.exists
      /\ changed \/ account'.password = account.password
  BY Saving
<1>2. UNCHANGED <<subjects, visit, cut, early, changed, ends>>
  BY DEF SaveRecord
<1>3. FormFits'
  BY <1>1 DEF FormFits
<1>4. QED
  BY <1>1, <1>2, <1>3, RecordChanges

LEMMA EndProcessStep == IInv /\ EndProcess => IInv'
<1> SUFFICES ASSUME IInv, EndProcess PROVE IInv'
  OBVIOUS
<1>1. /\ visit \in [Visitor -> Visit] /\ ends \in 0..MaxEnds /\ cut \in BOOLEAN
      /\ UNCHANGED <<account, subjects, form, early, changed>>
  BY Types DEF IInv, EndProcess
<1>2. ASSUME NEW v \in Visitor
      PROVE  /\ visit'[v] \in Visit /\ visit'[v].password = visit[v].password
             /\ visit'[v].subject = visit[v].subject /\ visit'[v].answer = visit[v].answer
             /\ visit'[v].pc = IF visit[v].pc \in {"new", "over", "dead"} THEN visit[v].pc ELSE "dead"
  <2> DEFINE q == [visit[v] EXCEPT !.pc = "dead"]
  <2>1. visit'[v] = IF visit[v].pc \in {"new", "over", "dead"} THEN visit[v] ELSE q
    BY DEF EndProcess
  <2>2. visit[v] \in Visit
    BY <1>1
  <2>3. /\ q \in Visit /\ q.password = visit[v].password
        /\ q.subject = visit[v].subject /\ q.answer = visit[v].answer /\ q.pc = "dead"
    BY <2>2 DEF Visit
  <2> HIDE DEF q
  <2>4. QED
    BY <2>1, <2>2, <2>3
<1>3. visit' \in [Visitor -> Visit]
  <2>1. visit' = [v \in Visitor |-> visit'[v]]
    BY DEF EndProcess
  <2>2. QED
    BY <1>2, <2>1
<1>4. \A v \in Visitor : visit'[v].pc \in {"new", "over", "dead"}
  BY <1>2
<1>5. Stored' = Stored
  BY <1>1 DEF Stored
<1>6. ends' \in 0..MaxEnds /\ cut' \in BOOLEAN /\ cut' = (cut \/ Registering # {})
  <2>1. ends' \in 0..MaxEnds
    BY <1>1, AccountsAssumption DEF EndProcess
  <2>2. cut' = (cut \/ Registering # {})
    BY DEF EndProcess
  <2>3. QED
    BY <2>1, <2>2
<1>7. AccountsTypeOK'
  BY <1>1, <1>3, <1>5, <1>6, Types DEF IInv, AccountsTypeOK
<1>8. Roles'
  BY <1>4 DEF Roles
<1>9. OneWinner' /\ FormFits'
  <2>1. \A r \in Registration : Winner(r)' => Winner(r) /\ visit'[r].password = visit[r].password
    BY <1>2, <1>4 DEF Winner, Visitor
  <2>2. QED
    BY <1>1, <2>1 DEF IInv, OneWinner, FormFits
<1>10. SubjectsFit'
  BY <1>1, <1>4 DEF IInv, SubjectsFit, Visitor
<1>11. AccountIsWhole'
  BY <1>1, <1>5, <1>6 DEF IInv, AccountIsWhole
<1>12. OthersComplete'
  <2> SUFFICES ASSUME Undisturbed' PROVE OthersComplete'
    BY DEF OthersComplete
  <2>1. Undisturbed /\ Registering = {}
    BY <1>1, <1>6 DEF Undisturbed
  <2>2. \A s : Complete(s)' <=> Complete(s)
    BY <1>1 DEF Complete
  <2>3. \A s : ~UnderWay(s)
    BY <2>1 DEF UnderWay, Registering
  <2>4. \A s \in Stored : Complete(s)
    BY <2>1, <2>3 DEF IInv, OthersComplete
  <2>5. \A v \in LoginAttempt : /\ visit'[v].pc \in {"new", "over", "dead"}
                                /\ visit'[v].answer = visit[v].answer /\ visit'[v].subject = visit[v].subject
    BY <1>2, <1>4 DEF Visitor
  <2>6. \A v \in LoginAttempt : visit[v].answer = "ok" => visit[v].subject \in Subject /\ Complete(visit[v].subject)
    BY <2>1 DEF IInv, OthersComplete
  <2>7. QED
    BY <1>5, <2>2, <2>4, <2>5, <2>6 DEF OthersComplete
<1>13. QED
  BY <1>7, <1>8, <1>9, <1>10, <1>11, <1>12 DEF IInv

LEMMA StutterStep == IInv /\ UNCHANGED accountVars => IInv'
<1> SUFFICES ASSUME IInv, UNCHANGED accountVars PROVE IInv'
  OBVIOUS
<1>1. UNCHANGED <<account, subjects, visit, form, cut, early, changed, ends>>
  BY DEF accountVars
<1>2. Stored' = Stored /\ Registering' = Registering
  BY <1>1 DEF Stored, Registering
<1>3. AccountsTypeOK'
  BY <1>1, <1>2 DEF IInv, AccountsTypeOK
<1>4. Roles' /\ OneWinner' /\ FormFits' /\ SubjectsFit'
  BY <1>1 DEF IInv, Roles, OneWinner, Winner, FormFits, SubjectsFit
<1>5. AccountIsWhole' /\ OthersComplete'
  BY <1>1, <1>2 DEF IInv, AccountIsWhole, OthersComplete, Undisturbed, Complete, UnderWay
<1>6. QED
  BY <1>3, <1>4, <1>5 DEF IInv

LEMMA NextStep == IInv /\ [AccountsNext]_accountVars => IInv'
<1> SUFFICES ASSUME IInv, [AccountsNext]_accountVars PROVE IInv'
  OBVIOUS
<1>1. ASSUME NEW v \in Visitor, NEW password \in Sent[v],
             CheckUsername(v, password) \/ AuthenticateVisitor(v, password) \/ CheckOldPassword(v, password)
      PROVE  IInv'
  <2>1. password \in AnyPassword
    BY AccountsAssumption
  <2>2. QED
    BY <1>1, <2>1, CheckUsernameStep, AuthenticateVisitorStep, CheckOldPasswordStep
<1>2. ASSUME NEW v \in Visitor,
             \/ InsertAccount(v) \/ InsertSubjectOf(v) \/ InsertTokenOf(v) \/ Grant(v)
             \/ GetSubject(v) \/ GetToken(v) \/ UpdatePassword(v)
      PROVE  IInv'
  BY <1>2, InsertAccountStep, InsertSubjectStep, InsertTokenStep, GrantStep, GetSubjectStep, GetTokenStep,
     UpdatePasswordStep
<1>3. CASE OpenRecord \/ SaveRecord \/ EndProcess
  BY <1>3, OpenRecordStep, SaveRecordStep, EndProcessStep
<1>4. CASE UNCHANGED accountVars
  BY <1>4, StutterStep
<1>5. QED
  BY <1>1, <1>2, <1>3, <1>4 DEF AccountsNext

LEMMA Always == AccountsSpec => []IInv
BY InitInv, NextStep, PTL DEF AccountsSpec

-----------------------------------------------------------------------------
(* The theorems                                                            *)

\* The record, the subjects and the requests keep their shapes, and the table of
\* subjects is filled from its start, whatever requests come in between.
THEOREM TypeCorrect == AccountsSpec => []AccountsTypeOK
<1>1. IInv => AccountsTypeOK
  BY DEF IInv
<1>2. QED
  BY <1>1, Always, PTL

\* One registration of a username is confirmed and its password stays; without
\* the end of a process a registered account is completed; and without an early
\* login or such an end every login gets a token with all the permissions
\* (register_user_account, authenticate_username_with_password).
THEOREM Consistent == AccountsSpec => []AccountsAreConsistent
<1>1. IInv => AccountsAreConsistent
  <2> SUFFICES ASSUME IInv PROVE AccountsAreConsistent
    OBVIOUS
  <2>1. LoginHasPermissions
    BY DEF IInv, OthersComplete, Undisturbed, Complete, LoginHasPermissions
  <2>2. RegistrationIsExclusive
    BY DEF IInv, OneWinner, Winner, RegistrationIsExclusive
  <2>3. QED
    BY <2>1, <2>2 DEF IInv, AccountsAreConsistent
<1>2. QED
  BY <1>1, Always, PTL

\* A change of the password does not write an outdated activation back, and the
\* administrator's editor brings an old password back only after a change of it
\* that was confirmed (change_user_password, the editor of records).
THEOREM RecordKept == AccountsSpec => RecordIsKept
<1> DEFINE Kept == account.exists =>
        /\ account'.active # account.active => SaveRecord
        /\ account'.password # account.password =>
              \/ \E v \in PasswordChange : UpdatePassword(v)
              \/ SaveRecord /\ changed
<1>1. IInv /\ [AccountsNext]_accountVars => Kept \/ UNCHANGED accountVars
  <2> SUFFICES ASSUME IInv, AccountsNext, account.exists PROVE Kept
    OBVIOUS
  <2>1. ASSUME account' = account PROVE Kept
    BY <2>1
  <2>2. ASSUME NEW v \in Visitor, UpdatePassword(v) PROVE Kept
    <3>1. v \in PasswordChange /\ account \in AnyAccount
      BY <2>2, Types DEF IInv, Roles, UpdatePassword
    <3>2. account'.active = account.active
      BY <2>2, <3>1 DEF UpdatePassword, AnyAccount
    <3>3. QED
      BY <2>2, <3>1, <3>2
  <2>3. ASSUME SaveRecord PROVE Kept
    BY <2>3, Saving
  <2>4. ASSUME NEW v \in Visitor, InsertAccount(v) PROVE account' = account
    BY <2>4 DEF InsertAccount
  <2>5. QED
    BY <2>1, <2>2, <2>3, <2>4 DEF AccountsNext, CheckUsername, AuthenticateVisitor, CheckOldPassword,
       InsertSubjectOf, InsertTokenOf, Grant, GetSubject, GetToken, OpenRecord, EndProcess
<1>2. QED
  BY <1>1, Always, PTL DEF AccountsSpec, RecordIsKept

-----------------------------------------------------------------------------
(* The authorisations that Pub keeps                                       *)

CacheStep == [Next]_vars

\* Lifecycle would last have allowed the call at some time up to now, and that
\* is now if it would still allow it.
ClockInv ==
    /\ lastAllowed <= now
    /\ truth = "allowed" => lastAllowed = now

\* A cached response was brought by a call during which Lifecycle would have
\* allowed it.
EntryInv ==
    entry.cached = "yes" => /\ entry.createdAt <= now
                            /\ entry.createdAt <= lastAllowed + Timeout

\* A call to Lifecycle takes no longer than the timeout, and an answer that
\* allows the call was true at some time since it began.
CallInv(r) ==
    /\ req[r].pc \in {"call", "reply", "delete"} =>
         req[r].start <= now /\ now <= req[r].start + Timeout
    /\ req[r].pc = "reply" /\ req[r].answer = "allowed" =>
         req[r].start <= lastAllowed

\* ServedIsRecent for one request.
RecentInv(r) ==
    /\ req[r].via = "lifecycle" => req[r].age <= Timeout
    /\ req[r].via = "cache" => req[r].age <= TTLMin + Timeout
    /\ req[r].via = "recovered" => req[r].age <= TTLMax + Timeout

\* The inductive invariant.  TypeOK is not inductive without ClockInv: the age
\* of an answer is a difference of two times.
CacheInv ==
    /\ TypeOK /\ ClockInv /\ EntryInv
    /\ \A r \in Request : CallInv(r) /\ RecentInv(r)

-----------------------------------------------------------------------------
\* An accepted answer has a well-formed age, and the rest of the requests is
\* left alone.
LEMMA AcceptType ==
    ASSUME TypeOK, ClockInv, NEW r \in Request,
           NEW via \in {"cache", "lifecycle", "recovered"}, Accept(r, via)
    PROVE  /\ req' \in [Request -> RequestState]
           /\ req'[r].pc = "over" /\ req'[r].via = via
           /\ req'[r].age = now - lastAllowed
           /\ \A s \in Request \ {r} : req'[s] = req[s]
<1>1. now - lastAllowed \in Time
  BY CacheAssumption DEF TypeOK, ClockInv, Time
<1>2. via \in {"none", "cache", "lifecycle", "recovered"} OBVIOUS
<1>3. req[r] \in RequestState /\ req \in [Request -> RequestState] BY DEF TypeOK
<1>4. [req[r] EXCEPT !.pc = "over", !.via = via, !.age = now - lastAllowed]
        \in RequestState
  BY <1>1, <1>2, <1>3 DEF RequestState
<1>5. req' = [req EXCEPT ![r] =
                [req[r] EXCEPT !.pc = "over", !.via = via, !.age = now - lastAllowed]]
  BY <1>3 DEF Accept, RequestState
<1>6. req'[r] = [req[r] EXCEPT !.pc = "over", !.via = via, !.age = now - lastAllowed]
  BY <1>3, <1>5
<1> QED BY <1>3, <1>4, <1>5, <1>6 DEF RequestState

\* The initial state.
LEMMA CacheInitInv == Init => CacheInv
BY CacheAssumption DEF Init, CacheInv, TypeOK, ClockInv, EntryInv, CallInv, RecentInv,
   NoEntry, Idle, Entry, RequestState, Time

\* RetrieveResponse: a response that is used was created at most TTLMin ago.
LEMMA RetrieveInv ==
    ASSUME CacheInv, NEW r \in Request, Retrieve(r)
    PROVE  CacheInv'
<1> USE CacheAssumption DEF CacheInv
<1>1. CASE Usable /\ Accept(r, "cache")
  <2>1. /\ req' \in [Request -> RequestState]
        /\ req'[r].pc = "over" /\ req'[r].via = "cache"
        /\ req'[r].age = now - lastAllowed
        /\ \A s \in Request \ {r} : req'[s] = req[s]
    BY <1>1, AcceptType
  <2>2. now - lastAllowed <= TTLMin + Timeout
    BY <1>1 DEF Usable, Expired, EntryInv, TypeOK, Entry, Time
  <2>3. UNCHANGED <<now, truth, lastAllowed, entry>> BY DEF Retrieve
  <2>4. TypeOK' /\ ClockInv' /\ EntryInv'
    BY <2>1, <2>3 DEF TypeOK, ClockInv, EntryInv
  <2>5. \A s \in Request : CallInv(s)' /\ RecentInv(s)'
    BY <2>1, <2>2, <2>3 DEF CallInv, RecentInv
  <2> QED BY <2>4, <2>5
<1>2. CASE
             req' \in {[req EXCEPT ![r].pc = "call", ![r].start = now],
                       [req EXCEPT ![r].pc = "over"]}
  <2>1. UNCHANGED <<now, truth, lastAllowed, entry>> /\ req[r].pc = "idle"
    BY DEF Retrieve
  <2>2. req' \in [Request -> RequestState]
    BY <1>2 DEF TypeOK, RequestState
  <2>3. TypeOK' /\ ClockInv' /\ EntryInv'
    BY <2>1, <2>2 DEF TypeOK, ClockInv, EntryInv
  <2>4. \A s \in Request : CallInv(s)' /\ RecentInv(s)'
    BY <1>2, <2>1 DEF CallInv, RecentInv, TypeOK, RequestState, Time
  <2> QED BY <2>3, <2>4
<1> QED BY <1>1, <1>2 DEF Retrieve

\* Lifecycle's answer: if it allows the call, it does so now.
LEMMA AnsweredInv ==
    ASSUME CacheInv, NEW r \in Request, NEW answer \in {"allowed", "denied", "missing", "error"},
           Answered(r, answer)
    PROVE  CacheInv'
<1> USE CacheAssumption DEF CacheInv, Answered
<1>0. req' \in [Request -> RequestState]
  <2>1. answer \in {"none", "allowed", "denied", "missing", "error"} OBVIOUS
  <2>2. [req[r] EXCEPT !.pc = "reply", !.answer = answer] \in RequestState
    BY <2>1 DEF TypeOK, RequestState
  <2> QED BY <2>2 DEF TypeOK, RequestState
<1>1. TypeOK' /\ ClockInv' /\ EntryInv'
  BY <1>0 DEF TypeOK, ClockInv, EntryInv
<1>2. \A s \in Request : CallInv(s)' /\ RecentInv(s)'
  BY DEF CallInv, RecentInv, ClockInv, TypeOK, RequestState, Time
<1> QED BY <1>1, <1>2

\* Put: the response is created when its call ends, within Timeout of the time
\* Lifecycle allowed it.
LEMMA PutInv ==
    ASSUME CacheInv, NEW r \in Request, Put(r)
    PROVE  CacheInv'
<1> USE CacheAssumption DEF CacheInv
<1>1. /\ req' \in [Request -> RequestState]
      /\ req'[r].pc = "over" /\ req'[r].via = "lifecycle"
      /\ req'[r].age = now - lastAllowed
      /\ \A s \in Request \ {r} : req'[s] = req[s]
  BY AcceptType DEF Put
<1>2. now <= lastAllowed + Timeout
  BY DEF Put, CallInv, TypeOK, RequestState, Time
<1>3. UNCHANGED <<now, truth, lastAllowed>> BY DEF Put
<1>4. TypeOK' /\ ClockInv' /\ EntryInv'
  BY <1>1, <1>2, <1>3 DEF Put, TypeOK, Entry, Time, ClockInv, EntryInv
<1>5. \A s \in Request : CallInv(s)' /\ RecentInv(s)'
  BY <1>1, <1>2, <1>3 DEF CallInv, RecentInv, TypeOK, Time
<1> QED BY <1>4, <1>5

\* RecoverFailedResponse: a response that is recovered was created at most
\* TTLMax ago.
LEMMA RecoverInv ==
    ASSUME CacheInv, NEW r \in Request, Recover(r)
    PROVE  CacheInv'
<1> USE CacheAssumption DEF CacheInv
<1>1. UNCHANGED <<now, truth, lastAllowed, entry>> /\ req[r].pc = "reply"
  BY DEF Recover
<1>2. CASE entry.cached = "yes" /\ ~Expired(TTLMax) /\ Accept(r, "recovered")
  <2>1. /\ req' \in [Request -> RequestState]
        /\ req'[r].pc = "over" /\ req'[r].via = "recovered"
        /\ req'[r].age = now - lastAllowed
        /\ \A s \in Request \ {r} : req'[s] = req[s]
    BY <1>2, AcceptType
  <2>2. now - lastAllowed <= TTLMax + Timeout
    BY <1>2 DEF Expired, EntryInv, TypeOK, Entry, Time
  <2>3. TypeOK' /\ ClockInv' /\ EntryInv'
    BY <1>1, <2>1 DEF TypeOK, ClockInv, EntryInv
  <2>4. \A s \in Request : CallInv(s)' /\ RecentInv(s)'
    BY <1>1, <2>1, <2>2 DEF CallInv, RecentInv
  <2> QED BY <2>3, <2>4
<1>3. CASE req' \in {[req EXCEPT ![r].pc = "delete"], [req EXCEPT ![r].pc = "over"]}
  <2>1. req' \in [Request -> RequestState]
    BY <1>3 DEF TypeOK, RequestState
  <2>2. TypeOK' /\ ClockInv' /\ EntryInv'
    BY <1>1, <2>1 DEF TypeOK, ClockInv, EntryInv
  <2>3. \A s \in Request : CallInv(s)' /\ RecentInv(s)'
    BY <1>1, <1>3 DEF CallInv, RecentInv, TypeOK, RequestState
  <2> QED BY <2>2, <2>3
<1> QED BY <1>2, <1>3 DEF Recover

\* The response is removed, by one request or with the whole process.
LEMMA RemoveInv ==
    ASSUME CacheInv, NEW r \in Request, Forget(r) \/ MapFault(r)
    PROVE  CacheInv'
<1> USE DEF CacheInv
<1>1. UNCHANGED <<now, truth, lastAllowed>> /\ entry' = NoEntry
  BY DEF Forget, MapFault
<1>2. req' \in [Request -> RequestState]
  BY DEF Forget, MapFault, TypeOK, RequestState
<1>3. TypeOK' /\ ClockInv' /\ EntryInv'
  BY <1>1, <1>2, CacheAssumption DEF TypeOK, ClockInv, EntryInv, NoEntry, Entry, Time
<1>4. \A s \in Request : CallInv(s)' /\ RecentInv(s)'
  BY <1>1 DEF Forget, MapFault, CallInv, RecentInv, TypeOK, RequestState
<1> QED BY <1>3, <1>4

\* One step of cleanUpRoutine.
LEMMA CleanUpInv ==
    ASSUME CacheInv, CleanUp
    PROVE  CacheInv'
BY CacheAssumption DEF CacheInv, CleanUp, TypeOK, ClockInv, EntryInv, CallInv, RecentInv,
   NoEntry, Entry, Time

\* Time passes: no call outlives its timeout.
LEMMA TickInv ==
    ASSUME CacheInv, Tick
    PROVE  CacheInv'
<1> USE CacheAssumption DEF CacheInv, Tick
<1>1. TypeOK' /\ ClockInv' /\ EntryInv'
  BY DEF TypeOK, ClockInv, EntryInv, Entry, Time
<1>2. \A s \in Request : CallInv(s)' /\ RecentInv(s)'
  BY DEF CallInv, RecentInv, ClockInv, TypeOK, RequestState, Time
<1> QED BY <1>1, <1>2

\* Lifecycle changes its mind: lastAllowed only grows.
LEMMA ChangeInv ==
    ASSUME CacheInv, NEW t \in {"allowed", "denied", "missing"}, Change(t)
    PROVE  CacheInv'
<1> USE CacheAssumption DEF CacheInv, Change
<1>1. TypeOK' /\ ClockInv' /\ EntryInv'
  BY DEF TypeOK, ClockInv, EntryInv, Entry, Time
<1>2. \A s \in Request : CallInv(s)' /\ RecentInv(s)'
  BY DEF CallInv, RecentInv, ClockInv, TypeOK, RequestState, Time
<1> QED BY <1>1, <1>2

-----------------------------------------------------------------------------
\* The invariant is inductive.
LEMMA CacheInductive == CacheInv /\ CacheStep => CacheInv'
<1> SUFFICES ASSUME CacheInv, CacheStep PROVE CacheInv' OBVIOUS
<1>1. CASE UNCHANGED vars
  BY <1>1 DEF vars, CacheInv, TypeOK, ClockInv, EntryInv, CallInv, RecentInv
<1>2. CASE \E r \in Request :
             \/ Retrieve(r) \/ Put(r) \/ Recover(r) \/ Forget(r) \/ MapFault(r)
             \/ \E answer \in {"allowed", "denied", "missing", "error"} :
                  Answered(r, answer)
  BY <1>2, RetrieveInv, PutInv, RecoverInv, RemoveInv, AnsweredInv
<1>3. CASE CleanUp \/ Tick BY <1>3, CleanUpInv, TickInv
<1>4. CASE \E t \in {"allowed", "denied", "missing"} : Change(t) BY <1>4, ChangeInv
<1> QED BY <1>1, <1>2, <1>3, <1>4 DEF CacheStep, Next

\* The invariant holds in every reachable state.
LEMMA CacheAlways == Spec => []CacheInv
BY CacheInitInv, CacheInductive, PTL DEF Spec, CacheStep

\* Type correctness, for any number of requests.
THEOREM CacheTypesKept == Spec => []TypeOK
<1>1. CacheInv => TypeOK BY DEF CacheInv
<1> QED BY <1>1, CacheAlways, PTL

\* How long a revoked permission can still be used: an accepted call would have
\* been allowed by Lifecycle within the time to live that applies to it plus the
\* timeout of the call that brought the answer, for any number of goroutines
\* that share the cache and any times to live.
THEOREM RecentAnswers == Spec => []ServedIsRecent
<1>1. CacheInv => ServedIsRecent BY DEF CacheInv, RecentInv, ServedIsRecent
<1> QED BY <1>1, CacheAlways, PTL
=============================================================================
