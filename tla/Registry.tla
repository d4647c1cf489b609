------------------------------ MODULE Registry ------------------------------
(***************************************************************************)
(* The records Lifecycle keeps in its database: job families, jobs,        *)
(* clients (ESC), auth subjects with their tokens and their permissions.   *)
(* A request is a sequence of SQL statements, each a transaction of its    *)
(* own; requests of several threads interleave between the statements and  *)
(* a request may die between any two of them.                              *)
(***************************************************************************)
EXTENDS Integers, Sequences, FiniteSets

CONSTANTS
    Thread,         \* threads that serve requests
    Name,           \* names of job families
    Release,        \* versions of jobs
    Scope,          \* scopes of permissions
    MaxRecords,     \* bound: records ever inserted
    MaxRequests,    \* bound: requests
    MaxCrashes      \* bound: requests that die

ASSUME RegistryAssumption ==
    /\ MaxRecords \in Nat /\ MaxRequests \in Nat /\ MaxCrashes \in Nat
    /\ Name # {} /\ Release # {} /\ Scope # {}
    /\ "full_access" \notin Scope
    /\ 0 \notin Release     \* stands for no version

VARIABLES
    rows,           \* [Id -> Row]: the tables
    issued,         \* primary keys given out
    thread,         \* [Thread -> ThreadState]
    requests, crashes,
    failures,       \* history: <<operation, raced>> of requests that raised
    raced,          \* history: records inserted by requests that raced
    untokened       \* history: subjects whose token was deleted

regVars == <<rows, issued, thread, requests, crashes, failures, raced,
             untokened>>
history == <<failures, raced, untokened>>

-----------------------------------------------------------------------------
(* The schema *)

Id == 1..MaxRecords
Null == 0
Ref == Id \cup {Null}

JobFamilyRow == [table : {"JobFamily"}, name : Name]
JobRow == [table : {"Job"}, family : Id, name : Name, version : Release]
EscRow == [table : {"Esc"}]
AuthSubjectRow == [table : {"AuthSubject"}, esc : Ref, family : Ref]
AuthTokenRow == [table : {"AuthToken"}, subject : Id, token : BOOLEAN]
AuthResourcePermissionRow ==
    [table : {"AuthResourcePermission"}, subject : Id,
     scope : Scope \cup {"full_access"}, family : Ref, job : Ref]
NoRow == [table |-> "none"]
Row == JobFamilyRow \cup JobRow \cup EscRow \cup AuthSubjectRow
         \cup AuthTokenRow \cup AuthResourcePermissionRow

\* on_delete_cascade of the tables, in the order of all_tables: rows of table
\* are deleted with the row of origin that column refers to. Users, whose
\* subjects go with them, and requests for public endpoints, which go with
\* their job, are not among the tables of this module.
OnDeleteCascade ==
    LET C(t, c, o) == [table |-> t, column |-> c, origin |-> o] IN
    <<C("Job", "family", "JobFamily"),
      C("AuthSubject", "esc", "Esc"),
      C("AuthSubject", "family", "JobFamily"),
      C("AuthToken", "subject", "AuthSubject"),
      C("AuthResourcePermission", "subject", "AuthSubject"),
      C("AuthResourcePermission", "family", "JobFamily"),
      C("AuthResourcePermission", "job", "Job")>>

\* Mutant: a later entry for the same origin replaces the earlier ones.
LastDependant(table) ==
    LET all == {i \in DOMAIN OnDeleteCascade : OnDeleteCascade[i].origin = table}
    IN {i \in all : \A j \in all : j <= i}

\* _populate_delete_cascade_dependants: the places of the columns that refer to
\* the table, which are followed in their order.
Dependants(table) ==
    {i \in DOMAIN OnDeleteCascade : OnDeleteCascade[i].origin = table}

Live == {k \in Id : rows[k] # NoRow}
Table(name) == {k \in Live : rows[k].table = name}

Refs(row) ==
    {row[c] : c \in DOMAIN row \cap {"family", "esc", "subject", "job"}} \ {Null}

\* Unique columns: the name of a family, name and version of a job.
Clashes(a, b) ==
    /\ a.table = b.table
    /\ \/ a.table = "JobFamily" /\ a.name = b.name
       \/ a.table = "Job" /\ a.name = b.name /\ a.version = b.version

\* What the database accepts.
Insertable(row) ==
    Refs(row) \subseteq Live /\ \A k \in Live : ~Clashes(rows[k], row)
Deletable(k) == \A j \in Live : k \notin Refs(rows[j])

-----------------------------------------------------------------------------
(* Requests *)

Operation == {"none", "deploy", "allow", "token", "esc", "delete", "regenerate",
              "authenticate", "list"}
Step == {"findFamily", "insertFamily", "findJob", "insertJob", "insertEsc",
         "findSubject", "insertSubject", "insertToken", "findToken", "exists",
         "findTarget", "insertPermission", "cascade", "updateTokens",
         "readJobs", "readPermissions"}

\* todo: the statements that are left.  esc, family, job, subject: the records
\* found or inserted.  stack: the deletions in progress, each with the cascades
\* still to be followed and the records found (of one table).  seen: tokens or
\* jobs read.  raced: another request wrote meanwhile.
AnyName == CHOOSE n \in Name : TRUE
Idle == [op |-> "none", todo |-> <<>>, name |-> AnyName, version |-> Null,
         scope |-> CHOOSE s \in Scope : TRUE, esc |-> Null, family |-> Null,
         job |-> Null, subject |-> Null, stack |-> <<>>, seen |-> {},
         raced |-> FALSE]

\* A client with a subject and a token, and one family with one job.
Init ==
    /\ rows = [k \in Id |->
         CASE k = 1 -> [table |-> "Esc"]
           [] k = 2 -> [table |-> "AuthSubject", esc |-> 1, family |-> Null]
           [] k = 3 -> [table |-> "AuthToken", subject |-> 2, token |-> FALSE]
           [] k = 4 -> [table |-> "JobFamily", name |-> AnyName]
           [] k = 5 -> [table |-> "Job", family |-> 4, name |-> AnyName,
                        version |-> CHOOSE v \in Release : TRUE]
           [] OTHER -> NoRow]
    /\ issued = 5
    /\ thread = [t \in Thread |-> Idle]
    /\ requests = 0 /\ crashes = 0
    /\ failures = {} /\ raced = {} /\ untokened = {}

Begin(t, state) ==
    /\ requests' = requests + 1
    /\ thread' = [thread EXCEPT ![t] = state]
    /\ UNCHANGED <<rows, issued, crashes, history>>

\* provision_job as the client's subject s: the family, save_job_model, then the
\* permission for the job. deploy_new_job names no previous job, even where one
\* is overwritten, so that the permission is always granted.
Deploy(t, s, n, v) ==
    Begin(t, [Idle EXCEPT !.op = "deploy", !.name = n, !.version = v,
                !.subject = s,
                !.todo = <<"findFamily", "insertFamily", "findJob", "findFamily",
                           "insertFamily", "insertJob", "exists", "findTarget",
                           "insertPermission">>])

SubjectSteps == <<"findSubject", "insertSubject", "insertToken">>
GrantSteps == <<"exists", "findTarget", "insertPermission">>
OfEsc(k) == [Idle EXCEPT !.esc = k]
OfFamily(k) == [Idle EXCEPT !.family = k]
Owners == {OfEsc(k) : k \in Table("Esc")}
             \cup {OfFamily(k) : k \in Table("JobFamily")}

\* _auth_allow_esc_job_family, _auth_allow_family: of a family that exists.
Allow(t, owner, n, s) ==
    /\ \E k \in Table("JobFamily") : rows[k].name = n
    /\ Begin(t, [owner EXCEPT !.op = "allow", !.name = n, !.scope = s,
                   !.todo = SubjectSteps \o GrantSteps])

\* _get_esc_token, get_job_family_jwt_token
GetToken(t, owner) ==
    Begin(t, [owner EXCEPT !.op = "token",
                !.todo = SubjectSteps \o <<"findToken", "insertToken">>])

\* create_esc
CreateEsc(t) ==
    Begin(t, [Idle EXCEPT !.op = "esc",
                !.todo = <<"insertEsc">> \o SubjectSteps \o <<"insertToken">>])

Frame(k, table) == [id |-> k, deps |-> Dependants(table), found |-> {},
                    of |-> table]

\* delete_record of the record manager, delete_job_model, revoke_token
DeleteRecord(t, k) ==
    /\ k \in Live
    /\ Begin(t, [Idle EXCEPT !.op = "delete", !.todo = <<"cascade">>,
                   !.stack = <<Frame(k, rows[k].table)>>])

\* regenerate_auth_tokens
Regenerate(t, s) ==
    LET tokens == {k \in Table("AuthToken") : rows[k].subject = s} IN
    /\ tokens # {}
    /\ Begin(t, [Idle EXCEPT !.op = "regenerate", !.todo = <<"updateTokens">>,
                   !.seen = tokens])

\* authenticate_token: the use of a token is saved once a day.
Authenticate(t, k) ==
    Begin(t, [Idle EXCEPT !.op = "authenticate", !.todo = <<"updateTokens">>,
                !.seen = {k}])

\* list_job_registry: the jobs are read before the permissions.
ListJobs(t, s) ==
    Begin(t, [Idle EXCEPT !.op = "list", !.subject = s,
                !.todo = <<"readJobs", "readPermissions">>])

-----------------------------------------------------------------------------
(* Statements *)

At(t, step) == thread[t].todo # <<>> /\ Head(thread[t].todo) = step

\* The thread's state without its next n statements.
Skip(s, n) == IF Len(s.todo) = n THEN Idle
              ELSE [s EXCEPT !.todo = SubSeq(@, n + 1, Len(@))]

\* A statement that only reads.
Read(t, state) ==
    /\ thread' = [thread EXCEPT ![t] = state]
    /\ UNCHANGED <<rows, issued, requests, crashes, history>>

\* A statement that writes races with the requests being served.
Write(t, state) ==
    thread' = [u \in Thread |->
                  IF u = t THEN state
                  ELSE [thread[u] EXCEPT !.raced = @ \/ thread[u] # Idle]]

\* An exception ends the request.
Raise(t) ==
    /\ thread' = [thread EXCEPT ![t] = Idle]
    /\ failures' = failures \cup {<<thread[t].op, thread[t].raced>>}
    /\ UNCHANGED <<rows, issued, requests, crashes, raced, untokened>>

\* create: state holds what the caller keeps of the new record.
Insert(t, row, state) ==
    \/ /\ Insertable(row) /\ issued < MaxRecords
       /\ rows' = [rows EXCEPT ![issued + 1] = row]
       /\ issued' = issued + 1
       /\ raced' = IF thread[t].raced THEN raced \cup {issued + 1} ELSE raced
       /\ Write(t, Skip(state, 1))
       /\ UNCHANGED <<requests, crashes, failures, untokened>>
    \/ ~Insertable(row) /\ Raise(t)

\* create_job_family_if_not_exist
FindFamily(t) ==
    LET s == thread[t]
        found == {k \in Table("JobFamily") : rows[k].name = s.name}
    IN
    /\ At(t, "findFamily")
    /\ \/ found = {} /\ Read(t, Skip(s, 1))
       \/ \E k \in found : Read(t, [Skip(s, 2) EXCEPT !.family = k])

InsertFamily(t) ==
    /\ At(t, "insertFamily")
    /\ Insert(t, [table |-> "JobFamily", name |-> thread[t].name],
              [thread[t] EXCEPT !.family = issued + 1])

\* save_job_model: a job that exists is updated, in columns that are not in
\* JobRow.
FindJob(t) ==
    LET s == thread[t]
        found == {k \in Table("Job") :
                     rows[k].name = s.name /\ rows[k].version = s.version}
    IN
    /\ At(t, "findJob")
    /\ Read(t, Skip(s, IF found = {} THEN 1 ELSE 4))

\* create_job_model
InsertJob(t) ==
    LET s == thread[t] IN
    /\ At(t, "insertJob")
    /\ Insert(t, [table |-> "Job", family |-> s.family, name |-> s.name,
                  version |-> s.version], s)

InsertEsc(t) ==
    /\ At(t, "insertEsc")
    /\ Insert(t, [table |-> "Esc"], [thread[t] EXCEPT !.esc = issued + 1])

SubjectsOf(s) == {k \in Table("AuthSubject") :
                     rows[k].esc = s.esc /\ rows[k].family = s.family}

\* Mutant: another subject is made although there is one.
FindNoSubject(t) ==
    At(t, "findSubject") /\ Read(t, Skip(thread[t], 1))

\* get_auth_subject_by_esc, get_auth_subject_by_job_family: any subject found is
\* taken.
FindSubject(t) ==
    LET s == thread[t] IN
    /\ At(t, "findSubject")
    /\ \/ SubjectsOf(s) = {} /\ Read(t, Skip(s, 1))
       \/ \E k \in SubjectsOf(s) : Read(t, [Skip(s, 3) EXCEPT !.subject = k])

\* The subject of a family gets a token at once.
InsertSubject(t) ==
    LET s == thread[t]
        kept == IF s.family = Null THEN Skip(s, 1) ELSE s
    IN
    /\ At(t, "insertSubject")
    /\ Insert(t, [table |-> "AuthSubject", esc |-> s.esc, family |-> s.family],
              [kept EXCEPT !.subject = issued + 1])

\* create_auth_token
InsertToken(t) ==
    LET s == thread[t] IN
    /\ At(t, "insertToken")
    /\ Insert(t, [table |-> "AuthToken", subject |-> s.subject, token |-> FALSE],
              s)

\* get_auth_token_by_subject
FindToken(t) ==
    LET s == thread[t]
        found == {k \in Table("AuthToken") : rows[k].subject = s.subject}
    IN
    /\ At(t, "findToken")
    /\ Read(t, Skip(s, IF found = {} THEN 1 ELSE 2))

\* permission_exists: for the job of that name and version, or for the family.
Granted(s) ==
    \E k \in Table("AuthResourcePermission") :
       LET p == rows[k] IN
       /\ p.subject = s.subject /\ p.scope = s.scope
       /\ IF s.version # Null
          THEN /\ p.job \in Live
               /\ rows[p.job].name = s.name /\ rows[p.job].version = s.version
          ELSE /\ p.family \in Live /\ p.job = Null
               /\ rows[p.family].name = s.name

PermissionExists(t) ==
    LET s == thread[t] IN
    /\ At(t, "exists")
    /\ Read(t, IF Granted(s) THEN Skip(s, 3) ELSE Skip(s, 1))

\* grant_permission looks the job or the family up.
FindTarget(t) ==
    LET s == thread[t]
        found == IF s.version # Null
                 THEN {k \in Table("Job") :
                          rows[k].name = s.name /\ rows[k].version = s.version}
                 ELSE {k \in Table("JobFamily") : rows[k].name = s.name}
    IN
    /\ At(t, "findTarget")
    /\ \/ found = {} /\ Raise(t)
       \/ \E k \in found : Read(t, [Skip(s, 1) EXCEPT !.job = k])

InsertPermission(t) ==
    LET s == thread[t]
        ofJob == s.version # Null
    IN
    /\ At(t, "insertPermission")
    /\ Insert(t, [table |-> "AuthResourcePermission", subject |-> s.subject,
                  scope |-> s.scope,
                  family |-> IF ofJob THEN Null ELSE s.job,
                  job |-> IF ofJob THEN s.job ELSE Null], s)

-----------------------------------------------------------------------------
(* Cascades *)

Top(stack) == stack[Len(stack)]

\* The next record found is deleted, with its own cascades, first.
Descend(stack) ==
    IF stack = <<>> \/ Top(stack).found = {} THEN stack
    ELSE LET k == CHOOSE k \in Top(stack).found : TRUE IN
         Append([stack EXCEPT ![Len(stack)].found = @ \ {k}],
                Frame(k, Top(stack).of))

\* _delete_cascade_dependencies: find_many of one column.
FindDependants(t) ==
    LET s == thread[t]
        top == Top(s.stack)
        next == CHOOSE i \in top.deps : \A j \in top.deps : i <= j
        c == OnDeleteCascade[next]
        looked == [top EXCEPT !.deps = @ \ {next}, !.of = c.table,
                              !.found = {k \in Table(c.table) :
                                            rows[k][c.column] = top.id}]
    IN
    /\ At(t, "cascade") /\ top.deps # {}
    /\ Read(t, [s EXCEPT !.stack =
                  Descend([s.stack EXCEPT ![Len(s.stack)] = looked])])

\* delete_record: the record itself goes last.  It must be there, and nothing may
\* refer to it.
DeleteOne(t) ==
    LET s == thread[t]
        k == Top(s.stack).id
        rest == SubSeq(s.stack, 1, Len(s.stack) - 1)
    IN
    /\ At(t, "cascade") /\ Top(s.stack).deps = {}
    /\ \/ /\ k \in Live /\ Deletable(k)
          /\ rows' = [rows EXCEPT ![k] = NoRow]
          /\ Write(t, IF rest = <<>> THEN Skip(s, 1)
                      ELSE [s EXCEPT !.stack = Descend(rest)])
          /\ untokened' = IF rows[k].table = "AuthToken"
                          THEN untokened \cup {rows[k].subject} ELSE untokened
          /\ UNCHANGED <<issued, requests, crashes, failures, raced>>
       \/ ~(k \in Live /\ Deletable(k)) /\ Raise(t)

\* update: of a row that must be there.
UpdateToken(t) ==
    LET s == thread[t]
        k == CHOOSE k \in s.seen : TRUE
        rest == [s EXCEPT !.seen = @ \ {k}]
    IN
    /\ At(t, "updateTokens")
    /\ \/ /\ k \in Live
          /\ rows' = [rows EXCEPT ![k].token = @ \/ s.op = "regenerate"]
          /\ Write(t, IF rest.seen = {} THEN Skip(s, 1) ELSE rest)
          /\ UNCHANGED <<issued, requests, crashes, history>>
       \/ k \notin Live /\ Raise(t)

ReadJobs(t) ==
    /\ At(t, "readJobs")
    /\ Read(t, [Skip(thread[t], 1) EXCEPT !.seen = Table("Job")])

-----------------------------------------------------------------------------
(* Authorisation *)

Permissions(subject, scope) ==
    {rows[k] : k \in {k \in Table("AuthResourcePermission") :
                         /\ rows[k].subject = subject
                         /\ rows[k].scope \in {scope, "full_access"}}}

\* has_resource_permission: two outer joins, and a column that is null matches.
HasResourcePermission(subject, n, v, scope) ==
    \E p \in Permissions(subject, scope) :
       /\ p.family = Null \/ (p.family \in Live /\ rows[p.family].name = n)
       /\ p.job = Null \/ (p.job \in Live /\ rows[p.job].version = v)

\* authorize_resource_access: a job that is not there has the empty version.
Authorized(subject, n, v, scope) ==
    LET found == \E k \in Table("Job") : rows[k].name = n /\ rows[k].version = v
    IN HasResourcePermission(subject, n, IF found THEN v ELSE Null, scope)

\* Mutant: a permission for a family lists every job.
PermittedOfFamilies(subject, scope, jobs) ==
    IF \E p \in Permissions(subject, scope) : p.job = Null THEN jobs
    ELSE {p.job : p \in Permissions(subject, scope)}

\* list_permitted_jobs.  The jobs of a family are kept under the name of the
\* family and looked up by its id, which finds none.
PermittedJobs(subject, scope, jobs) ==
    IF \E p \in Permissions(subject, scope) : p.family = Null /\ p.job = Null
    THEN jobs
    ELSE {p.job : p \in Permissions(subject, scope)} \ {Null}

\* The job of a permission must be one of the jobs that were read.
ReadPermissions(t) ==
    LET s == thread[t] IN
    /\ At(t, "readPermissions")
    /\ IF PermittedJobs(s.subject, s.scope, s.seen) \subseteq s.seen
       THEN Read(t, Idle) ELSE Raise(t)

-----------------------------------------------------------------------------
\* The process that serves a request dies.
Crash(t) ==
    /\ thread[t] # Idle
    /\ crashes < MaxCrashes /\ crashes' = crashes + 1
    /\ thread' = [thread EXCEPT ![t] = Idle]
    /\ UNCHANGED <<rows, issued, requests, history>>

Request(t) ==
    /\ thread[t] = Idle /\ requests < MaxRequests
    /\ \/ \E s \in Table("AuthSubject") :
             \/ \E n \in Name, v \in Release : Deploy(t, s, n, v)
             \/ Regenerate(t, s) \/ ListJobs(t, s)
       \/ \E owner \in Owners :
             \/ GetToken(t, owner)
             \/ \E n \in Name, s \in Scope : Allow(t, owner, n, s)
       \/ CreateEsc(t)
       \/ \E k \in Live : DeleteRecord(t, k)
       \/ \E k \in Table("AuthToken") : Authenticate(t, k)

Statement(t) ==
    \/ FindFamily(t) \/ InsertFamily(t) \/ FindJob(t) \/ InsertJob(t)
    \/ InsertEsc(t) \/ FindSubject(t) \/ InsertSubject(t) \/ InsertToken(t)
    \/ FindToken(t) \/ PermissionExists(t) \/ FindTarget(t)
    \/ InsertPermission(t) \/ FindDependants(t) \/ DeleteOne(t)
    \/ UpdateToken(t) \/ ReadJobs(t) \/ ReadPermissions(t)

Next == \E t \in Thread : Request(t) \/ Statement(t) \/ Crash(t)

Spec == Init /\ [][Next]_regVars

-----------------------------------------------------------------------------
\* Type invariant of the tables and the requests.
TypeOK ==
    /\ rows \in [Id -> Row \cup {NoRow}]
    /\ issued \in 5..MaxRecords /\ \A k \in Live : k <= issued
    /\ \A t \in Thread :
          /\ thread[t].op \in Operation /\ Len(thread[t].todo) <= 9
          /\ {thread[t].todo[i] : i \in 1..Len(thread[t].todo)} \subseteq Step
          /\ {thread[t].esc, thread[t].family, thread[t].job, thread[t].subject}
                \subseteq Ref
          /\ Len(thread[t].stack) <= 3 /\ thread[t].seen \subseteq Id
    /\ requests \in 0..MaxRequests /\ crashes \in 0..MaxCrashes
    /\ failures \subseteq Operation \X BOOLEAN
    /\ raced \subseteq Id /\ untokened \subseteq Id

\* A request raises (a constraint of the database, a row that is gone, an unknown
\* job) only if another request wrote while it was being served: the cascade of a
\* deletion that is alone leaves nothing that refers to the record.
FailureHasCause == \A f \in failures : f[2]

\* A family or a client has two subjects, or a subject the same permission
\* twice, only if one of them was inserted by a request that raced: nothing in
\* the database forbids it.
DuplicateHasCause ==
    \A a, b \in Live :
       /\ a # b /\ rows[a] = rows[b]
       /\ rows[a].table \in {"AuthSubject", "AuthResourcePermission"}
       => {a, b} \cap raced # {}

\* The subject of a family has a token when no request is being served, unless
\* one died or raised before, or its token was deleted.
TokenlessHasCause ==
    (\A t \in Thread : thread[t] = Idle) =>
       \A s \in Table("AuthSubject") :
          \/ rows[s].family = Null
          \/ \E k \in Table("AuthToken") : rows[k].subject = s
          \/ crashes > 0 \/ failures # {} \/ s \in untokened

ForAllJobs(p) == p.family = Null /\ p.job = Null
ForFamilyOf(p, k) == p.job = Null /\ p.family = rows[k].family
Covers(p, k) == ForAllJobs(p) \/ ForFamilyOf(p, k) \/ p.job = k
ForVersionOf(p, k) == p.job \in Live /\ rows[p.job].version = rows[k].version

\* A subject that may access a job has a permission for all jobs, for the job's
\* family or for the job, or one for any job of the same version, be it of
\* another family; and whoever has one of these may.
AccessHasPermission ==
    \A s \in Table("AuthSubject"), k \in Table("Job"), scope \in Scope :
       Authorized(s, rows[k].name, rows[k].version, scope) <=>
          \E p \in Permissions(s, scope) : Covers(p, k) \/ ForVersionOf(p, k)

\* Lists and checks do not answer by the same permissions. What is listed may
\* be accessed; but a job that may be accessed is missing from the list when the
\* subject has neither a permission for all jobs nor one for this job: then it
\* is a permission for the family, of which no job is listed, or for another
\* job of the same version, that gives access. Lists name no job that is gone.
ListedHasPermission ==
    \A s \in Table("AuthSubject"), scope \in Scope :
       LET P == Permissions(s, scope)
           listed == PermittedJobs(s, scope, Table("Job"))
           accessible == {k \in Table("Job") : Authorized(s, rows[k].name, rows[k].version, scope)}
           named == {k \in Table("Job") : \E p \in P : ForAllJobs(p) \/ p.job = k}
       IN
       /\ listed = named /\ listed \subseteq accessible
       /\ \A k \in accessible \ listed :
             \E p \in P : ForFamilyOf(p, k) \/ (ForVersionOf(p, k) /\ p.job # k)

\* authorize_resource_access: "Check if auth subject has permissions to access
\* the resource (job, job family) within requested scope".
AccessIsToTheResource ==
    \A s \in Table("AuthSubject"), k \in Table("Job"), scope \in Scope :
       Authorized(s, rows[k].name, rows[k].version, scope) =>
          \E p \in Permissions(s, scope) : Covers(p, k)

\* What is inserted in several statements is there once, and whole
\* (get_auth_subject_by_job_family, get_auth_subject_by_esc, grant_permission).
SubjectsAreWhole == DuplicateHasCause /\ TokenlessHasCause

\* Which permissions give access to a job (authorize_resource_access), which
\* list it (list_permitted_jobs), and what the lists leave out.
AccessIsExplained == AccessHasPermission /\ ListedHasPermission
=============================================================================
