--------------------------- MODULE RegistryProofs ---------------------------
(***************************************************************************)
(* Proofs about the records of Lifecycle, for any number of threads, names,*)
(* versions and scopes and any bounds; and, at the end, about the versions *)
(* of a family, for any versions and patterns.                             *)
(***************************************************************************)
EXTENDS Registry, Portfolio, SequenceTheorems, FiniteSetTheorems, TLAPS

-----------------------------------------------------------------------------
(* The inductive invariant                                                 *)

Tables == {"JobFamily", "Job", "Esc", "AuthSubject", "AuthToken", "AuthResourcePermission"}
FrameState == [id : Id, deps : SUBSET (1..7), found : SUBSET Id, of : Tables]
ThreadState == [op : Operation, todo : Seq(Step), name : Name, version : Release \cup {Null}, scope : Scope,
                esc : Ref, family : Ref, job : Ref, subject : Ref, stack : Seq(FrameState), seen : SUBSET Id,
                raced : BOOLEAN]

Shapes ==
    /\ rows \in [Id -> Row \cup {NoRow}]
    /\ issued \in Nat /\ \A k \in Live : k <= issued
    /\ thread \in [Thread -> ThreadState]

\* A row refers to rows of the right tables, and a permission to a job or to a
\* family.
Sound(row) ==
    /\ row.table = "Job" => row.family \in Table("JobFamily") /\ rows[row.family].name = row.name
    /\ row.table = "AuthSubject" => /\ row.esc \in Table("Esc") \cup {Null}
                                    /\ row.family \in Table("JobFamily") \cup {Null}
    /\ row.table = "AuthToken" => row.subject \in Table("AuthSubject")
    /\ row.table = "AuthResourcePermission" =>
         /\ row.subject \in Table("AuthSubject")
         /\ row.family \in Table("JobFamily") \cup {Null} /\ row.job \in Table("Job") \cup {Null}
         /\ row.family = Null \/ row.job = Null

RowsSound ==
    /\ \A k \in Live : Sound(rows[k])
    /\ \A j, k \in Live : Clashes(rows[j], rows[k]) => j = k

\* k was given to a record of that table, which may be deleted by now.
Kind(k, table) == k \in Id /\ k <= issued /\ (k \in Live => rows[k].table = table)

Left(s) == Len(s.todo)

Program(op) ==
    CASE op = "deploy" -> <<"findFamily", "insertFamily", "findJob", "findFamily", "insertFamily", "insertJob",
                            "exists", "findTarget", "insertPermission">>
      [] op = "allow" -> SubjectSteps \o GrantSteps
      [] op = "token" -> SubjectSteps \o <<"findToken", "insertToken">>
      [] op = "esc" -> <<"insertEsc">> \o SubjectSteps \o <<"insertToken">>
      [] op = "delete" -> <<"cascade">>
      [] op \in {"regenerate", "authenticate"} -> <<"updateTokens">>
      [] op = "list" -> <<"readJobs", "readPermissions">>
      [] OTHER -> <<>>

\* What is left of a request are the last statements of its program.
Agree(q, b, p, c) == b <= c /\ \A i \in 1..b : q[i] = p[c - b + i]
Suffix(q, p) == Agree(q, Len(q), p, Len(p))

\* The records a request has found or inserted are of the table it thinks.
Aware(s) ==
    /\ s.esc # Null => Kind(s.esc, "Esc")
    /\ s.family # Null => Kind(s.family, "JobFamily")
    /\ s.subject # Null => Kind(s.subject, "AuthSubject")
    /\ s.op = "deploy" => /\ s.version # Null /\ s.subject # Null
                          /\ Left(s) <= 7 => s.family # Null /\ (s.family \in Live => rows[s.family].name = s.name)
                          /\ Left(s) = 1 => Kind(s.job, "Job")
    /\ s.op = "allow" => /\ s.version = Null
                         /\ Left(s) <= 4 => s.subject # Null
                         /\ Left(s) = 1 => Kind(s.job, "JobFamily")
    /\ s.op = "token" /\ Left(s) <= 3 => s.subject # Null
    /\ s.op = "esc" /\ Left(s) <= 2 => s.subject # Null
    /\ s.op = "delete" => s.stack # <<>>
    /\ s.op \in {"regenerate", "authenticate"} => s.seen # {} /\ \A k \in s.seen : Kind(k, "AuthToken")

Families(s) == {k \in Table("JobFamily") : rows[k].name = s.name}
Jobs(s) == {k \in Table("Job") : rows[k].name = s.name /\ rows[k].version = s.version}

\* The cascade of a deletion.
Rank(table) == IF table \in {"JobFamily", "Esc"} THEN 3 ELSE IF table \in {"Job", "AuthSubject"} THEN 2 ELSE 1
Referring(n, k) == {j \in Table(OnDeleteCascade[n].table) : rows[j][OnDeleteCascade[n].column] = k}
Of(f) == rows[f.id].table

FrameOK(f) ==
    /\ f.id \in Live /\ f.deps \subseteq Dependants(Of(f))
    /\ f.found \subseteq Table(f.of)
    /\ f.found # {} => Rank(f.of) < Rank(Of(f))

\* What was looked for and refers to the record is still to be deleted.
Followed(f, next) ==
    \A n \in Dependants(Of(f)) \ f.deps : Referring(n, f.id) \subseteq f.found \cup next

Frames(q) ==
    \A i \in 1..Len(q) : FrameOK(q[i]) /\ Followed(q[i], IF i < Len(q) THEN {q[i + 1].id} ELSE {})

\* Each record refers to the one before it.
Nested(q) ==
    /\ \A i \in 1..Len(q) : i < Len(q) => Of(q[i + 1]) = q[i].of
    /\ \A i, j \in 1..Len(q) : i < j => Rank(Of(q[j])) < Rank(Of(q[i])) /\ q[j].id \notin q[i].found

Stacked(q) == Frames(q) /\ Nested(q) /\ (q # <<>> => q[Len(q)].found = {})

\* A request that no other request disturbed knows the records as they are.
Owned(s) ==
    /\ s.esc \in Table("Esc") \cup {Null} /\ s.family \in Table("JobFamily") \cup {Null}
Knows(s) ==
    /\ s.op = "deploy" => /\ s.subject \in Table("AuthSubject")
                          /\ Left(s) \in {8, 5} => Families(s) = {}
                          /\ Left(s) <= 7 => s.family \in Live
                          /\ Left(s) \in 4..6 => Jobs(s) = {}
                          /\ Left(s) <= 3 => Jobs(s) # {}
                          /\ Left(s) <= 2 => ~Granted(s)
                          /\ Left(s) = 1 => s.job \in Jobs(s)
    /\ s.op = "allow" => /\ Owned(s) /\ Families(s) # {}
                         /\ Left(s) = 5 => SubjectsOf(s) = {}
                         /\ Left(s) <= 4 => s.subject \in Live
                         /\ Left(s) <= 2 => ~Granted(s)
                         /\ Left(s) = 1 => s.job \in Families(s)
    /\ s.op = "token" => /\ Owned(s)
                         /\ Left(s) = 4 => SubjectsOf(s) = {}
                         /\ Left(s) <= 3 => s.subject \in Live
    /\ s.op = "esc" => /\ Owned(s)
                       /\ Left(s) = 3 => SubjectsOf(s) = {}
                       /\ Left(s) <= 2 => s.subject \in Live
    /\ s.op = "delete" => Stacked(s.stack)
    /\ s.op \in {"regenerate", "authenticate"} => s.seen \subseteq Live
    /\ s.op = "list" /\ Left(s) = 1 => s.seen = Table("Job")

Served(s) ==
    s.todo # <<>> => /\ Suffix(s.todo, Program(s.op)) /\ Aware(s)
                     /\ ~s.raced => Knows(s)

ThreadsServed == \A t \in Thread : Served(thread[t])

\* Who will insert the token of the subject k.
Awaited(k) ==
    \E t \in Thread : /\ thread[t].todo # <<>> /\ Head(thread[t].todo) = "insertToken"
                      /\ thread[t].subject = k

TokensComing ==
    \A k \in Table("AuthSubject") :
       \/ rows[k].family = Null
       \/ \E j \in Table("AuthToken") : rows[j].subject = k
       \/ crashes > 0 \/ failures # {} \/ k \in untokened
       \/ Awaited(k)

RegInv == /\ Shapes /\ RowsSound /\ ThreadsServed /\ FailureHasCause /\ DuplicateHasCause /\ TokensComing
          /\ crashes \in Nat

-----------------------------------------------------------------------------
(* Rows                                                                    *)

LEMMA RowTypes ==
    ASSUME NEW r \in Row
    PROVE  /\ r # NoRow /\ r.table \in Tables
           /\ r.table = "JobFamily" => r \in JobFamilyRow
           /\ r.table = "Job" => r \in JobRow
           /\ r.table = "Esc" => r \in EscRow
           /\ r.table = "AuthSubject" => r \in AuthSubjectRow
           /\ r.table = "AuthToken" => r \in AuthTokenRow
           /\ r.table = "AuthResourcePermission" => r \in AuthResourcePermissionRow
BY DEF Row, NoRow, Tables, JobFamilyRow, JobRow, EscRow, AuthSubjectRow, AuthTokenRow, AuthResourcePermissionRow

LEMMA NullIsNoId == Null \notin Id /\ Id \subseteq Int
BY RegistryAssumption DEF Null, Id

\* The columns that refer to other rows.
LEMMA RowRefs ==
    ASSUME NEW r \in Row
    PROVE  /\ r.table \in {"JobFamily", "Esc"} => Refs(r) = {}
           /\ r.table = "Job" => Refs(r) = {r.family}
           /\ r.table = "AuthSubject" => Refs(r) = {r.esc, r.family} \ {Null}
           /\ r.table = "AuthToken" => Refs(r) = {r.subject}
           /\ r.table = "AuthResourcePermission" => Refs(r) = {r.subject, r.family, r.job} \ {Null}
<1>1. CASE r \in JobFamilyRow
  BY <1>1 DEF JobFamilyRow, Refs
<1>2. CASE r \in JobRow
  <2>1. DOMAIN r = {"table", "family", "name", "version"}
    BY <1>2 DEF JobRow
  <2> QED BY <1>2, <2>1, NullIsNoId DEF JobRow, Refs
<1>3. CASE r \in EscRow
  BY <1>3 DEF EscRow, Refs
<1>4. CASE r \in AuthSubjectRow
  <2>1. DOMAIN r = {"table", "esc", "family"}
    BY <1>4 DEF AuthSubjectRow
  <2> QED BY <1>4, <2>1, NullIsNoId DEF AuthSubjectRow, Refs
<1>5. CASE r \in AuthTokenRow
  <2>1. DOMAIN r = {"table", "subject", "token"}
    BY <1>5 DEF AuthTokenRow
  <2> QED BY <1>5, <2>1, NullIsNoId DEF AuthTokenRow, Refs
<1>6. CASE r \in AuthResourcePermissionRow
  <2>1. DOMAIN r = {"table", "subject", "scope", "family", "job"}
    BY <1>6 DEF AuthResourcePermissionRow
  <2> QED BY <1>6, <2>1, NullIsNoId DEF AuthResourcePermissionRow, Refs
<1> QED BY <1>1, <1>2, <1>3, <1>4, <1>5, <1>6 DEF Row

LEMMA LiveRows ==
    ASSUME Shapes, NEW k \in Live
    PROVE  k \in Id /\ rows[k] \in Row /\ k <= issued
BY DEF Shapes, Live

\* What a statement does to the tables.
Inserts(row) ==
    /\ row \in Row /\ Insertable(row) /\ issued < MaxRecords
    /\ rows' = [rows EXCEPT ![issued + 1] = row] /\ issued' = issued + 1
Deletes(k) ==
    /\ k \in Live /\ Deletable(k)
    /\ rows' = [rows EXCEPT ![k] = NoRow] /\ issued' = issued
Marks(k) ==
    /\ k \in Table("AuthToken")
    /\ \E b \in BOOLEAN : rows' = [rows EXCEPT ![k].token = b]
    /\ issued' = issued

TablesTyped == rows \in [Id -> Row \cup {NoRow}] /\ issued \in Nat /\ \A k \in Live : k <= issued

LEMMA AfterInsert ==
    ASSUME Shapes, NEW row, Inserts(row)
    PROVE  /\ TablesTyped'
           /\ issued + 1 \in Id /\ issued + 1 \notin Live /\ Live' = Live \cup {issued + 1}
           /\ rows'[issued + 1] = row /\ \A k \in Live : rows'[k] = rows[k]
           /\ Table(row.table)' = Table(row.table) \cup {issued + 1}
           /\ \A name : name # row.table => Table(name)' = Table(name)
<1>1. issued + 1 \in Id /\ issued + 1 \notin Live
  BY RegistryAssumption DEF Inserts, Shapes, Id, Live
<1>2. row # NoRow
  BY RowTypes DEF Inserts
<1>3. Live' = Live \cup {issued + 1} /\ rows'[issued + 1] = row /\ \A k \in Id : k # issued + 1 => rows'[k] = rows[k]
  BY <1>1, <1>2 DEF Inserts, Shapes, Live
<1>4. TablesTyped'
  BY <1>1, <1>3 DEF Inserts, Shapes, TablesTyped, Live, Id
<1> QED BY <1>1, <1>3, <1>4 DEF Table, Live

LEMMA AfterDelete ==
    ASSUME Shapes, NEW k, Deletes(k)
    PROVE  /\ TablesTyped'
           /\ Live' = Live \ {k} /\ \A j \in Live' : rows'[j] = rows[j]
           /\ \A name : Table(name)' = Table(name) \ {k}
<1>1. Live' = Live \ {k} /\ \A j \in Id : j # k => rows'[j] = rows[j]
  BY DEF Deletes, Shapes, Live
<1>2. TablesTyped'
  BY <1>1 DEF Deletes, Shapes, TablesTyped, Live
<1> QED BY <1>1, <1>2 DEF Table, Live

LEMMA AfterMark ==
    ASSUME Shapes, NEW k, Marks(k)
    PROVE  /\ TablesTyped'
           /\ Live' = Live /\ \A name : Table(name)' = Table(name)
           /\ k \in Table("AuthToken") /\ rows'[k].table = "AuthToken" /\ rows'[k].subject = rows[k].subject
           /\ \A j \in Id : j # k => rows'[j] = rows[j]
<1>1. k \in Id /\ rows[k] \in AuthTokenRow
  BY RowTypes, LiveRows DEF Marks, Table
<1>2. PICK b \in BOOLEAN : rows' = [rows EXCEPT ![k].token = b]
  BY DEF Marks
<1>3. /\ rows'[k] \in AuthTokenRow /\ rows'[k].subject = rows[k].subject /\ rows'[k].table = "AuthToken"
      /\ \A j \in Id : j # k => rows'[j] = rows[j]
  BY <1>1, <1>2 DEF Shapes, AuthTokenRow
<1>4. rows'[k] \in Row /\ rows'[k] # NoRow
  BY <1>3, RowTypes DEF Row
<1>5. Live' = Live
  BY <1>1, <1>3, <1>4 DEF Live, Marks, Table
<1>6. \A name : Table(name)' = Table(name)
  BY <1>3, <1>5 DEF Table, Live, Marks
<1>7. TablesTyped'
  <2>1. rows' \in [Id -> Row \cup {NoRow}]
    BY <1>2, <1>1, <1>4 DEF Shapes
  <2> QED BY <2>1, <1>5 DEF TablesTyped, Shapes, Marks
<1> QED BY <1>3, <1>5, <1>6, <1>7 DEF Marks

\* What was given to a record of a table is not given to another one later.
Evolves ==
    /\ issued' \in Nat /\ issued <= issued'
    /\ \A k \in Id : k <= issued /\ k \in Live' =>
          /\ k \in Live /\ rows'[k].table = rows[k].table
          /\ rows[k].table = "JobFamily" => rows'[k].name = rows[k].name

LEMMA Evolution ==
    ASSUME Shapes
    PROVE  /\ \A row : Inserts(row) => Evolves
           /\ \A k : Deletes(k) => Evolves
           /\ \A k : Marks(k) => Evolves
<1>1. ASSUME NEW row, Inserts(row) PROVE Evolves
  <2>1. issued' = issued + 1 /\ issued \in Nat
    BY <1>1 DEF Inserts, Shapes
  <2> QED BY <1>1, <2>1, AfterInsert DEF Evolves
<1>2. ASSUME NEW k, Deletes(k) PROVE Evolves
  <2>1. issued' = issued /\ issued \in Nat
    BY <1>2 DEF Deletes, Shapes
  <2> QED BY <1>2, <2>1, AfterDelete DEF Evolves
<1>3. ASSUME NEW k, Marks(k) PROVE Evolves
  <2>1. issued' = issued /\ issued \in Nat
    BY <1>3 DEF Marks, Shapes
  <2>2. rows[k].table = "AuthToken"
    BY <1>3 DEF Marks, Table
  <2> QED BY <1>3, <2>1, <2>2, AfterMark DEF Evolves
<1> QED BY <1>1, <1>2, <1>3

LEMMA AwareStays ==
    ASSUME Shapes, Evolves, NEW s, Aware(s)
    PROVE  Aware(s)'
<1>1. ASSUME NEW k, NEW name, Kind(k, name) PROVE Kind(k, name)'
  <2>1. k \in Id /\ k \in Int /\ k <= issued
    BY <1>1, NullIsNoId DEF Kind
  <2>2. k <= issued'
    BY <2>1 DEF Evolves, Shapes
  <2> QED BY <1>1, <2>1, <2>2 DEF Kind, Evolves
<1>2. Kind(s.family, "JobFamily") /\ (s.family \in Live => rows[s.family].name = s.name)
        => (s.family \in Live' => rows'[s.family].name = s.name)
  BY DEF Kind, Evolves
<1> QED BY <1>1, <1>2 DEF Aware, Left

\* The rows stay sound: no row is inserted with a reference that is not there,
\* and no row is deleted that another one refers to.
LEMMA SoundAfterInsert ==
    ASSUME Shapes, RowsSound, NEW row, Inserts(row), Sound(row)
    PROVE  RowsSound'
<1> DEFINE n == issued + 1
<1>1. \A r : Sound(r) => Sound(r)'
  BY AfterInsert DEF Sound, Table, Live
<1>2. \A k \in Live' : Sound(rows[k])'
  BY <1>1, AfterInsert DEF RowsSound
<1>3. \A k \in Live : ~Clashes(rows[k], row) /\ ~Clashes(row, rows[k])
  BY DEF Inserts, Insertable, Clashes
<1>4. \A j, k \in Live' : Clashes(rows'[j], rows'[k]) => j = k
  BY <1>3, AfterInsert DEF RowsSound
<1> QED BY <1>2, <1>4 DEF RowsSound, Clashes

LEMMA SoundAfterDelete ==
    ASSUME Shapes, RowsSound, NEW d, Deletes(d)
    PROVE  RowsSound'
<1>1. ASSUME NEW k \in Live' PROVE Sound(rows[k])'
  <2>1. k \in Live /\ rows'[k] = rows[k] /\ rows[k] \in Row /\ Sound(rows[k]) /\ d \notin Refs(rows[k])
    BY AfterDelete, LiveRows DEF RowsSound, Deletes, Deletable
  <2>2. rows[k].table = "Job" => rows[k].family \in Table("JobFamily")' /\ rows'[rows[k].family].name = rows[k].name
    BY <2>1, AfterDelete, RowRefs DEF Sound, Table, Live
  <2>3. ASSUME NEW r \in Refs(rows[k]), NEW name, r \in Table(name) PROVE r \in Table(name)'
    BY <2>1, <2>3, AfterDelete
  <2>4. CASE rows[k].table = "Job"
    BY <2>1, <2>2, <2>4 DEF Sound
  <2>5. CASE rows[k].table = "AuthSubject"
    BY <2>1, <2>3, <2>5, RowRefs DEF Sound
  <2>6. CASE rows[k].table = "AuthToken"
    BY <2>1, <2>3, <2>6, RowRefs DEF Sound
  <2>7. CASE rows[k].table = "AuthResourcePermission"
    <3>1. Refs(rows[k]) = {rows[k].subject, rows[k].family, rows[k].job} \ {Null}
      BY <2>1, <2>7, RowRefs
    <3>2. /\ rows[k].subject \in Table("AuthSubject") /\ rows[k].subject # Null
          /\ rows[k].family = Null \/ rows[k].family \in Table("JobFamily")
          /\ rows[k].job = Null \/ rows[k].job \in Table("Job")
          /\ rows[k].family = Null \/ rows[k].job = Null
      BY <2>1, <2>7, NullIsNoId DEF Sound, Table, Live
    <3> QED BY <2>1, <2>3, <2>7, <3>1, <3>2 DEF Sound
  <2>8. CASE rows[k].table \in {"JobFamily", "Esc"}
    BY <2>1, <2>8 DEF Sound
  <2> QED BY <2>1, <2>4, <2>5, <2>6, <2>7, <2>8, RowTypes DEF Tables
<1>2. \A j, k \in Live' : Clashes(rows'[j], rows'[k]) => j = k
  BY AfterDelete DEF RowsSound
<1> QED BY <1>1, <1>2 DEF RowsSound, Clashes

LEMMA SoundAfterMark ==
    ASSUME Shapes, RowsSound, NEW m, Marks(m)
    PROVE  RowsSound'
<1>1. m \in Id /\ rows[m].table = "AuthToken" /\ m \in Live
  BY DEF Marks, Table, Live
<1>2. \A k \in Id : rows[k].table # "AuthToken" => rows'[k] = rows[k]
  BY <1>1, AfterMark
<1>3. ASSUME NEW k \in Live' PROVE Sound(rows[k])'
  <2>1. k \in Live /\ k \in Id /\ Sound(rows[k])
    BY AfterMark DEF RowsSound, Live
  <2>2. CASE k = m
    BY <2>1, <2>2, <1>1, AfterMark DEF Sound
  <2>3. CASE k # m
    <3>1. rows'[k] = rows[k]
      BY <2>1, <2>3, AfterMark
    <3>2. rows[k].table = "Job" => rows'[rows[k].family].name = rows[k].name
      BY <2>1, <1>2 DEF Sound, Table, Live
    <3> QED BY <2>1, <3>1, <3>2, AfterMark DEF Sound
  <2> QED BY <2>2, <2>3
<1>4. ASSUME NEW j \in Live', NEW k \in Live', Clashes(rows'[j], rows'[k]) PROVE j = k
  <2>1. rows'[j].table # "AuthToken" /\ rows'[k].table # "AuthToken"
    BY <1>4 DEF Clashes
  <2>2. rows'[j] = rows[j] /\ rows'[k] = rows[k] /\ j \in Live /\ k \in Live
    BY <2>1, AfterMark DEF Live
  <2> QED BY <1>4, <2>2 DEF RowsSound
<1> QED BY <1>3, <1>4 DEF RowsSound, Clashes

-----------------------------------------------------------------------------
(* Who may access a job                                                    *)

LEMMA PermissionRows ==
    ASSUME Shapes, RowsSound, NEW s, NEW scope, NEW p \in Permissions(s, scope)
    PROVE  /\ p \in AuthResourcePermissionRow
           /\ p.family \in Table("JobFamily") \cup {Null} /\ p.job \in Table("Job") \cup {Null}
           /\ p.family = Null \/ p.job = Null
<1>1. PICK k \in Table("AuthResourcePermission") : p = rows[k]
  BY DEF Permissions
<1>2. k \in Live /\ rows[k].table = "AuthResourcePermission"
  BY DEF Table
<1> QED BY <1>1, <1>2, LiveRows, RowTypes DEF RowsSound, Sound

LEMMA JobRows ==
    ASSUME Shapes, RowsSound, NEW k \in Table("Job")
    PROVE  /\ k \in Live /\ k \in Id /\ rows[k] \in JobRow /\ rows[k].version # Null
           /\ rows[k].family \in Table("JobFamily") /\ rows[rows[k].family].name = rows[k].name
<1>1. k \in Live /\ rows[k].table = "Job"
  BY DEF Table
<1>2. k \in Id /\ rows[k] \in JobRow /\ Sound(rows[k])
  BY <1>1, LiveRows, RowTypes DEF RowsSound
<1> QED BY <1>1, <1>2, RegistryAssumption DEF Sound, JobRow, Null

LEMMA OneFamily ==
    ASSUME RowsSound, NEW f \in Table("JobFamily"), NEW g \in Table("JobFamily"), rows[f].name = rows[g].name
    PROVE  f = g
<1>1. f \in Live /\ g \in Live /\ rows[f].table = "JobFamily" /\ rows[g].table = "JobFamily"
  BY DEF Table
<1> QED BY <1>1 DEF RowsSound, Clashes

LEMMA AccessFromRows ==
    ASSUME Shapes, RowsSound
    PROVE  AccessIsExplained
<1>1. ASSUME NEW s, NEW k \in Table("Job"), NEW scope
      PROVE  Authorized(s, rows[k].name, rows[k].version, scope)
                <=> HasResourcePermission(s, rows[k].name, rows[k].version, scope)
  BY DEF Authorized
<1>2. ASSUME NEW s \in Table("AuthSubject"), NEW k \in Table("Job"), NEW scope \in Scope
      PROVE  HasResourcePermission(s, rows[k].name, rows[k].version, scope) <=>
                \E p \in Permissions(s, scope) : Covers(p, k) \/ ForVersionOf(p, k)
  <2> DEFINE P == Permissions(s, scope)
             Grants(p) == /\ p.family = Null \/ (p.family \in Live /\ rows[p.family].name = rows[k].name)
                          /\ p.job = Null \/ (p.job \in Live /\ rows[p.job].version = rows[k].version)
  <2>1. ASSUME NEW p \in P PROVE Grants(p) <=> Covers(p, k) \/ ForVersionOf(p, k)
    <3>1. /\ p.family \in Table("JobFamily") \cup {Null} /\ p.job \in Table("Job") \cup {Null}
          /\ p.family = Null \/ p.job = Null
      BY <2>1, PermissionRows
    <3>2. rows[k].family \in Table("JobFamily") /\ rows[rows[k].family].name = rows[k].name /\ k \in Live /\ k \in Id
      BY JobRows
    <3>3. p.family \in Live /\ rows[p.family].name = rows[k].name => p.family = rows[k].family
      BY <3>1, <3>2, OneFamily, NullIsNoId DEF Live
    <3>4. Table("JobFamily") \subseteq Live /\ Null \notin Live
      BY NullIsNoId DEF Table, Live
    <3> QED BY <3>1, <3>2, <3>3, <3>4 DEF Covers, ForAllJobs, ForFamilyOf, ForVersionOf
  <2>2. HasResourcePermission(s, rows[k].name, rows[k].version, scope) <=> \E p \in P : Grants(p)
    BY DEF HasResourcePermission
  <2> QED BY <2>1, <2>2
<1>3. AccessHasPermission
  BY <1>1, <1>2 DEF AccessHasPermission
<1>4. ASSUME NEW s \in Table("AuthSubject"), NEW scope \in Scope
      PROVE  LET P == Permissions(s, scope)
                 listed == PermittedJobs(s, scope, Table("Job"))
                 accessible == {k \in Table("Job") : Authorized(s, rows[k].name, rows[k].version, scope)}
                 named == {k \in Table("Job") : \E p \in P : ForAllJobs(p) \/ p.job = k}
             IN  /\ listed = named /\ listed \subseteq accessible
                 /\ \A k \in accessible \ listed :
                       \E p \in P : ForFamilyOf(p, k) \/ (ForVersionOf(p, k) /\ p.job # k)
  <2> DEFINE P == Permissions(s, scope)
             listed == PermittedJobs(s, scope, Table("Job"))
             accessible == {k \in Table("Job") : Authorized(s, rows[k].name, rows[k].version, scope)}
             named == {k \in Table("Job") : \E p \in P : ForAllJobs(p) \/ p.job = k}
  <2>1. listed = named
    <3>1. CASE \E p \in P : ForAllJobs(p)
      BY <3>1 DEF PermittedJobs, ForAllJobs
    <3>2. CASE ~\E p \in P : ForAllJobs(p)
      <4>1. listed = {p.job : p \in P} \ {Null}
        BY <3>2 DEF PermittedJobs, ForAllJobs
      <4>2. \A p \in P : p.job # Null => p.job \in Table("Job")
        BY PermissionRows
      <4>3. Null \notin Table("Job")
        BY NullIsNoId DEF Table, Live
      <4> QED BY <3>2, <4>1, <4>2, <4>3
    <3> QED BY <3>1, <3>2
  <2>2. \A k \in Table("Job") : k \in accessible <=> \E p \in P : Covers(p, k) \/ ForVersionOf(p, k)
    BY <1>1, <1>2
  <2>3. named \subseteq accessible
    BY <2>2 DEF Covers
  <2>4. ASSUME NEW k \in accessible \ named
        PROVE  \E p \in P : ForFamilyOf(p, k) \/ (ForVersionOf(p, k) /\ p.job # k)
    <3>1. PICK p \in P : Covers(p, k) \/ ForVersionOf(p, k)
      BY <2>2, <2>4
    <3>2. ~ForAllJobs(p) /\ p.job # k
      BY <2>4, <3>1
    <3> QED BY <3>1, <3>2 DEF Covers
  <2> QED BY <2>1, <2>3, <2>4
<1>5. ListedHasPermission
  BY <1>4 DEF ListedHasPermission
<1> QED BY <1>3, <1>5 DEF AccessIsExplained

-----------------------------------------------------------------------------
(* Requests                                                                *)

\* c is a followed by b; r is q without its first n elements.
Joins(a, b, c) ==
    /\ Len(c) = Len(a) + Len(b)
    /\ \A i \in 1..Len(a) : c[i] = a[i]
    /\ \A i \in 1..Len(b) : c[Len(a) + i] = b[i]
Rests(q, n, r) == Len(r) = Len(q) - n /\ \A i \in 1..Len(q) - n : r[i] = q[n + i]

LEMMA Joined ==
    ASSUME NEW a \in Seq(Step), NEW b \in Seq(Step)
    PROVE  \E c \in Seq(Step) : c = a \o b /\ Joins(a, b, c)
<1>1. \A i \in 1..Len(a) : (a \o b)[i] = a[i]
  BY ConcatProperties
<1>2. \A i \in 1..Len(b) : (a \o b)[Len(a) + i] = b[i]
  BY ConcatProperties
<1>3. a \o b \in Seq(Step) /\ Len(a \o b) = Len(a) + Len(b)
  BY ConcatProperties
<1> QED BY <1>1, <1>2, <1>3 DEF Joins

LEMMA Rest ==
    ASSUME NEW q \in Seq(Step), NEW n \in Nat \ {0}, n < Len(q)
    PROVE  \E r \in Seq(Step) : r = SubSeq(q, n + 1, Len(q)) /\ Rests(q, n, r)
<1>1. SubSeq(q, n + 1, Len(q)) \in Seq(Step) /\ Len(SubSeq(q, n + 1, Len(q))) = Len(q) - n
  OBVIOUS
<1>2. \A i \in 1..Len(q) - n : SubSeq(q, n + 1, Len(q))[i] = q[n + i]
  OBVIOUS
<1> QED BY <1>1, <1>2, Zenon DEF Rests

LEMMA Programs ==
    /\ \A op \in Operation : Program(op) \in Seq(Step)
    /\ Len(Program("deploy")) = 9 /\ Len(Program("allow")) = 6 /\ Len(Program("token")) = 5
    /\ Len(Program("esc")) = 5 /\ Len(Program("delete")) = 1
    /\ Len(Program("regenerate")) = 1 /\ Len(Program("authenticate")) = 1 /\ Len(Program("list")) = 2
    /\ Len(Program("none")) = 0
    /\ Program("allow")[1] = "findSubject" /\ Program("allow")[2] = "insertSubject"
    /\ Program("allow")[3] = "insertToken" /\ Program("allow")[4] = "exists"
    /\ Program("allow")[5] = "findTarget" /\ Program("allow")[6] = "insertPermission"
    /\ Program("token")[1] = "findSubject" /\ Program("token")[2] = "insertSubject"
    /\ Program("token")[3] = "insertToken" /\ Program("token")[4] = "findToken"
    /\ Program("token")[5] = "insertToken"
    /\ Program("esc")[1] = "insertEsc" /\ Program("esc")[2] = "findSubject" /\ Program("esc")[3] = "insertSubject"
    /\ Program("esc")[4] = "insertToken" /\ Program("esc")[5] = "insertToken"
<1> DEFINE two == <<"findToken", "insertToken">>
           first == <<"insertEsc">>
           last == <<"insertToken">>
<1>1. SubjectSteps \in Seq(Step) /\ GrantSteps \in Seq(Step) /\ two \in Seq(Step) /\ first \in Seq(Step) /\ last \in Seq(Step)
  BY DEF SubjectSteps, GrantSteps, Step
<1>2. /\ Len(SubjectSteps) = 3 /\ SubjectSteps[1] = "findSubject" /\ SubjectSteps[2] = "insertSubject"
      /\ SubjectSteps[3] = "insertToken"
      /\ Len(GrantSteps) = 3 /\ GrantSteps[1] = "exists" /\ GrantSteps[2] = "findTarget"
      /\ GrantSteps[3] = "insertPermission"
      /\ Len(two) = 2 /\ two[1] = "findToken" /\ two[2] = "insertToken"
      /\ Len(first) = 1 /\ first[1] = "insertEsc" /\ Len(last) = 1 /\ last[1] = "insertToken"
  BY DEF SubjectSteps, GrantSteps
<1>3. /\ Program("allow") = SubjectSteps \o GrantSteps
      /\ Program("token") = SubjectSteps \o two
      /\ Program("esc") = first \o SubjectSteps \o last
  BY DEF Program
<1> HIDE DEF two, first, last
<1>4. PICK c \in Seq(Step) : c = SubjectSteps \o GrantSteps /\ Joins(SubjectSteps, GrantSteps, c)
  BY <1>1, Joined
<1>5. /\ Len(c) = 6 /\ c[1] = "findSubject" /\ c[2] = "insertSubject" /\ c[3] = "insertToken"
      /\ c[4] = "exists" /\ c[5] = "findTarget" /\ c[6] = "insertPermission"
  BY <1>2, <1>4 DEF Joins
<1>6. PICK d \in Seq(Step) : d = SubjectSteps \o two /\ Joins(SubjectSteps, two, d)
  BY <1>1, Joined
<1>7. /\ Len(d) = 5 /\ d[1] = "findSubject" /\ d[2] = "insertSubject" /\ d[3] = "insertToken"
      /\ d[4] = "findToken" /\ d[5] = "insertToken"
  BY <1>2, <1>6 DEF Joins
<1>8. PICK f \in Seq(Step) : f = first \o SubjectSteps /\ Joins(first, SubjectSteps, f)
  BY <1>1, Joined
<1>9. /\ Len(f) = 4 /\ f[1] = "insertEsc" /\ f[2] = "findSubject" /\ f[3] = "insertSubject" /\ f[4] = "insertToken"
  BY <1>2, <1>8 DEF Joins
<1>10. PICK e \in Seq(Step) : e = f \o last /\ Joins(f, last, e)
  BY <1>1, <1>8, Joined
<1>11. /\ Len(e) = 5 /\ e[1] = "insertEsc" /\ e[2] = "findSubject" /\ e[3] = "insertSubject" /\ e[4] = "insertToken"
       /\ e[5] = "insertToken"
  BY <1>2, <1>9, <1>10 DEF Joins
<1>12. Program("allow") = c /\ Program("token") = d /\ Program("esc") = e
  BY <1>3, <1>4, <1>6, <1>8, <1>10, Zenon
<1>13. /\ Len(Program("deploy")) = 9 /\ Len(Program("delete")) = 1
       /\ Len(Program("regenerate")) = 1 /\ Len(Program("authenticate")) = 1 /\ Len(Program("list")) = 2
       /\ Len(Program("none")) = 0
  BY DEF Program
<1>14. ASSUME NEW op \in Operation PROVE Program(op) \in Seq(Step)
  <2>1. CASE op \in {"allow", "token", "esc"}
    BY <2>1, <1>4, <1>6, <1>10, <1>12
  <2>2. CASE op = "deploy"
    BY <2>2 DEF Program, Step
  <2>3. CASE op \in {"delete", "regenerate", "authenticate", "list"}
    <3>1. <<"cascade">> \in Seq(Step) /\ <<"updateTokens">> \in Seq(Step)
          /\ <<"readJobs", "readPermissions">> \in Seq(Step)
      BY DEF Step
    <3> QED BY <2>3, <3>1 DEF Program
  <2>4. CASE op = "none"
    BY <2>4 DEF Program
  <2> QED BY <2>1, <2>2, <2>3, <2>4 DEF Operation
<1> QED BY <1>5, <1>7, <1>11, <1>12, <1>13, <1>14

\* The state of a request after n of its statements.
LEMMA Skipping ==
    ASSUME NEW s \in ThreadState, NEW n \in Nat \ {0}, n < Left(s), Suffix(s.todo, Program(s.op))
    PROVE  \E q \in Seq(Step) :
              /\ Skip(s, n) = [s EXCEPT !.todo = q]
              /\ Len(q) = Left(s) - n /\ Len(q) > 0 /\ q # <<>> /\ Suffix(q, Program(s.op)) /\ Head(q) = s.todo[n + 1]
<1>1. s.todo \in Seq(Step) /\ Len(s.todo) \in Nat /\ Len(s.todo) = Left(s)
  BY DEF ThreadState, Left
<1>2. PICK q \in Seq(Step) : q = SubSeq(s.todo, n + 1, Len(s.todo)) /\ Rests(s.todo, n, q)
  BY <1>1, Rest
<1>3. Skip(s, n) = [s EXCEPT !.todo = q]
  <2>1. Len(s.todo) # n
    BY <1>1
  <2> QED BY <1>2, <2>1, Zenon DEF Skip
<1>4. Len(q) = Left(s) - n /\ Len(q) > 0 /\ q # <<>> /\ Head(q) = s.todo[n + 1]
  <2>1. Len(q) = Len(s.todo) - n /\ q[1] = s.todo[n + 1]
    BY <1>1, <1>2 DEF Rests
  <2> QED BY <2>1, <1>1
<1>5. Suffix(q, Program(s.op))
  <2> DEFINE p == Program(s.op)
  <2> HIDE DEF p
  <2>1. Len(q) = Len(s.todo) - n /\ \A i \in 1..Len(q) : q[i] = s.todo[n + i]
    BY <1>1, <1>2 DEF Rests
  <2>2. Suffix(s.todo, p) /\ p \in Seq(Step)
    BY Programs DEF p, ThreadState
  <2>3. Len(p) \in Nat
    BY <2>2
  <2>4. PICK a \in Nat, b \in Nat, c \in Nat : a = Len(s.todo) /\ b = Len(q) /\ c = Len(p)
    BY <1>1, <2>3
  <2>5. b = a - n /\ \A i \in 1..b : q[i] = s.todo[n + i]
    BY <2>1, <2>4
  <2>6. Agree(s.todo, a, p, c)
    BY <2>2, <2>4, Zenon DEF Suffix
  <2>7. Agree(q, b, p, c)
    <3>1. b <= c
      BY <2>5, <2>6 DEF Agree
    <3>2. ASSUME NEW i \in 1..b PROVE q[i] = p[c - b + i]
      <4>1. n + i \in 1..a /\ c - a + (n + i) = c - b + i
        BY <2>5
      <4>2. s.todo[n + i] = p[c - a + (n + i)]
        BY <4>1, <2>6 DEF Agree
      <4> QED BY <2>5, <4>1, <4>2
    <3> QED BY <3>1, <3>2 DEF Agree
  <2> QED BY <2>4, <2>7, Zenon DEF Suffix, p
<1> QED BY <1>3, <1>4, <1>5

LEMMA DeployProgram ==
    /\ Program("deploy")[1] = "findFamily" /\ Program("deploy")[2] = "insertFamily" /\ Program("deploy")[3] = "findJob"
    /\ Program("deploy")[4] = "findFamily" /\ Program("deploy")[5] = "insertFamily" /\ Program("deploy")[6] = "insertJob"
    /\ Program("deploy")[7] = "exists" /\ Program("deploy")[8] = "findTarget" /\ Program("deploy")[9] = "insertPermission"
BY DEF Program

LEMMA OtherPrograms ==
    /\ Program("delete")[1] = "cascade" /\ Program("regenerate")[1] = "updateTokens"
    /\ Program("authenticate")[1] = "updateTokens"
    /\ Program("list")[1] = "readJobs" /\ Program("list")[2] = "readPermissions"
BY DEF Program

\* Which statement comes next tells how far the request is.
Place(s, op, n) == s.op = op /\ Left(s) = n
LEMMA Places ==
    ASSUME NEW s \in ThreadState, s.todo # <<>>, Suffix(s.todo, Program(s.op)), NEW h, h = Head(s.todo)
    PROVE  /\ Left(s) \in Nat \ {0}
           /\ h = "findFamily" => Place(s, "deploy", 9) \/ Place(s, "deploy", 6)
           /\ h = "insertFamily" => Place(s, "deploy", 8) \/ Place(s, "deploy", 5)
           /\ h = "findJob" => Place(s, "deploy", 7)
           /\ h = "insertJob" => Place(s, "deploy", 4)
           /\ h = "insertEsc" => Place(s, "esc", 5)
           /\ h = "findSubject" => Place(s, "allow", 6) \/ Place(s, "token", 5) \/ Place(s, "esc", 4)
           /\ h = "insertSubject" => Place(s, "allow", 5) \/ Place(s, "token", 4) \/ Place(s, "esc", 3)
           /\ h = "insertToken" => \/ Place(s, "allow", 4) \/ Place(s, "token", 3) \/ Place(s, "token", 1)
                                   \/ Place(s, "esc", 2) \/ Place(s, "esc", 1)
           /\ h = "findToken" => Place(s, "token", 2)
           /\ h = "exists" => Place(s, "deploy", 3) \/ Place(s, "allow", 3)
           /\ h = "findTarget" => Place(s, "deploy", 2) \/ Place(s, "allow", 2)
           /\ h = "insertPermission" => Place(s, "deploy", 1) \/ Place(s, "allow", 1)
           /\ h = "cascade" => Place(s, "delete", 1)
           /\ h = "updateTokens" => Place(s, "regenerate", 1) \/ Place(s, "authenticate", 1)
           /\ h = "readJobs" => Place(s, "list", 2)
           /\ h = "readPermissions" => Place(s, "list", 1)
<1>1. s.op \in Operation /\ s.todo \in Seq(Step)
  BY DEF ThreadState
<1>2. Left(s) \in Nat \ {0} /\ h = s.todo[1]
  BY <1>1 DEF Left
<1>3. PICK a \in Nat, c \in Nat : a = Left(s) /\ c = Len(Program(s.op)) /\ a > 0
  BY <1>1, <1>2, Programs
<1>4. a <= c /\ h = Program(s.op)[c - a + 1]
  <2>1. Agree(s.todo, a, Program(s.op), c)
    BY <1>3, Zenon DEF Suffix, Left
  <2> QED BY <2>1, <1>2, <1>3 DEF Agree
<1>5. CASE s.op = "deploy"
  <2>1. c = 9
    BY <1>3, <1>5, Programs
  <2>2. a \in 1..9 /\ h = Program("deploy")[10 - a]
    BY <2>1, <1>3, <1>4, <1>5
  <2>3. /\ a = 9 \/ a = 6 => h = "findFamily"
        /\ a = 8 \/ a = 5 => h = "insertFamily"
        /\ a = 7 => h = "findJob"
    BY <2>2, DeployProgram
  <2>4. /\ a = 4 => h = "insertJob"
        /\ a = 3 => h = "exists"
        /\ a = 2 => h = "findTarget"
        /\ a = 1 => h = "insertPermission"
    BY <2>2, DeployProgram
  <2>5. a = 9 \/ a = 8 \/ a = 7 \/ a = 6 \/ a = 5 \/ a = 4 \/ a = 3 \/ a = 2 \/ a = 1
    BY <2>2
  <2>6. \A n : Place(s, "deploy", n) <=> a = n
    BY <1>3, <1>5 DEF Place
  <2> QED BY <2>3, <2>4, <2>5, <2>6, <1>2
<1>6. CASE s.op = "allow"
  <2>1. c = 6
    BY <1>3, <1>6, Programs
  <2>2. a \in 1..6 /\ h = Program("allow")[7 - a]
    BY <2>1, <1>3, <1>4, <1>6
  <2> QED BY <2>2, <1>2, <1>3, <1>6, Programs DEF Place
<1>7. CASE s.op = "token"
  <2>1. c = 5
    BY <1>3, <1>7, Programs
  <2>2. a \in 1..5 /\ h = Program("token")[6 - a]
    BY <2>1, <1>3, <1>4, <1>7
  <2> QED BY <2>2, <1>2, <1>3, <1>7, Programs DEF Place
<1>8. CASE s.op = "esc"
  <2>1. c = 5
    BY <1>3, <1>8, Programs
  <2>2. a \in 1..5 /\ h = Program("esc")[6 - a]
    BY <2>1, <1>3, <1>4, <1>8
  <2> QED BY <2>2, <1>2, <1>3, <1>8, Programs DEF Place
<1>9. CASE s.op \in {"delete", "regenerate", "authenticate"}
  <2>1. c = 1
    BY <1>3, <1>9, Programs
  <2>2. a = 1 /\ h = Program(s.op)[1]
    BY <2>1, <1>3, <1>4
  <2> QED BY <2>2, <1>2, <1>3, <1>9, OtherPrograms DEF Place
<1>10. CASE s.op = "list"
  <2>1. c = 2
    BY <1>3, <1>10, Programs
  <2>2. a \in 1..2 /\ h = Program("list")[3 - a]
    BY <2>1, <1>3, <1>4, <1>10
  <2> QED BY <2>2, <1>2, <1>3, <1>10, OtherPrograms DEF Place
<1>11. CASE s.op = "none"
  BY <1>3, <1>4, <1>11, Programs
<1> QED BY <1>1, <1>5, <1>6, <1>7, <1>8, <1>9, <1>10, <1>11 DEF Operation

LEMMA IdleTyped == Idle \in ThreadState /\ Idle.todo = <<>> /\ Idle.seen = {} /\ Idle.stack = <<>> /\ ~Idle.raced
<1>1. AnyName \in Name /\ (CHOOSE s \in Scope : TRUE) \in Scope
  BY RegistryAssumption DEF AnyName
<1> QED BY <1>1 DEF Idle, ThreadState, Operation, Ref

LEMMA IdleServed == Served(Idle)
BY IdleTyped DEF Served

\* Served(s) is about the tables, and about nothing else that may change.
LEMMA SameRows ==
    ASSUME rows' = rows, issued' = issued, NEW s
    PROVE  Served(s)' <=> Served(s)
<1>1. Live' = Live /\ \A name : Table(name)' = Table(name)
  BY DEF Table, Live
<1>2. Aware(s)' <=> Aware(s)
  BY <1>1 DEF Aware, Kind, Left
<1>3. Families(s)' = Families(s) /\ Jobs(s)' = Jobs(s) /\ SubjectsOf(s)' = SubjectsOf(s)
  BY <1>1 DEF Families, Jobs, SubjectsOf
<1>4. Granted(s)' <=> Granted(s)
  BY <1>1 DEF Granted
<1>5. \A q : Stacked(q)' <=> Stacked(q)
  <2>1. \A f : Of(f)' = Of(f)
    BY DEF Of
  <2>2. \A n, k : Referring(n, k)' = Referring(n, k)
    BY <1>1 DEF Referring
  <2>3. \A f, next : Followed(f, next)' <=> Followed(f, next)
    BY <2>1, <2>2 DEF Followed, Dependants
  <2>4. \A f : FrameOK(f)' <=> FrameOK(f)
    BY <1>1, <2>1 DEF FrameOK, Dependants, Rank
  <2>5. ASSUME NEW q PROVE Frames(q)' <=> Frames(q)
    BY <2>3, <2>4 DEF Frames
  <2>6. ASSUME NEW q PROVE Nested(q)' <=> Nested(q)
    BY DEF Nested, Rank, Of
  <2> QED BY <2>5, <2>6 DEF Stacked
<1>6. Knows(s)' <=> Knows(s)
  BY <1>1, <1>3, <1>4, <1>5 DEF Knows, Owned, Left
<1> QED BY <1>2, <1>6 DEF Served, Suffix, Agree, Program

\* A statement that reads.
LEMMA AfterRead ==
    ASSUME Shapes, RowsSound, ThreadsServed, DuplicateHasCause, NEW t \in Thread, NEW q \in ThreadState, Served(q),
           rows' = rows, issued' = issued, raced' = raced, thread' = [thread EXCEPT ![t] = q]
    PROVE  Shapes' /\ RowsSound' /\ ThreadsServed' /\ DuplicateHasCause'
<1>1. Live' = Live /\ \A name : Table(name)' = Table(name)
  BY DEF Table, Live
<1>2. RowsSound' /\ DuplicateHasCause'
  BY <1>1 DEF RowsSound, Sound, Clashes, DuplicateHasCause
<1>3. ASSUME NEW u \in Thread PROVE Served(thread[u])'
  <2>1. PICK r : r = thread'[u]
    OBVIOUS
  <2>2. r = q \/ r = thread[u]
    BY <2>1 DEF Shapes
  <2>3. Served(r)'
    BY <2>2, SameRows DEF ThreadsServed
  <2> QED BY <2>1, <2>3
<1>4. Shapes'
  BY <1>1 DEF Shapes
<1> QED BY <1>2, <1>3, <1>4 DEF ThreadsServed

\* A statement that writes.
LEMMA AfterWrite ==
    ASSUME Shapes, ThreadsServed, NEW t \in Thread, NEW q \in ThreadState, Served(q)', Write(t, q), Evolves,
           TablesTyped'
    PROVE  Shapes' /\ ThreadsServed'
<1>1. ASSUME NEW u \in Thread PROVE thread'[u] \in ThreadState /\ Served(thread[u])'
  <2>1. CASE u = t
    <3>1. thread'[u] = q
      BY <2>1 DEF Write
    <3> QED BY <3>1
  <2>2. CASE u # t
    <3>1. PICK r : r = thread'[u]
      OBVIOUS
    <3>2. thread[u] \in ThreadState /\ r = [thread[u] EXCEPT !.raced = @ \/ thread[u] # Idle]
      BY <2>2, <3>1 DEF Write, Shapes
    <3>3. r \in ThreadState /\ r.todo = thread[u].todo /\ r.op = thread[u].op
      BY <3>2 DEF ThreadState
    <3>4. r.todo # <<>> => r.raced
      BY <3>2, <3>3, IdleTyped DEF ThreadState
    <3>5. r.todo # <<>> => Suffix(r.todo, Program(r.op)) /\ Aware(thread[u])
      BY <3>3 DEF Served, ThreadsServed
    <3>6. Aware(thread[u]) => Aware(r)
      BY <3>2 DEF Aware, Left, ThreadState
    <3>7. Served(r)'
      BY <3>4, <3>5, <3>6, AwareStays DEF Served, Suffix, Agree, Program
    <3> QED BY <3>1, <3>3, <3>7
  <2> QED BY <2>1, <2>2
<1>2. thread' \in [Thread -> ThreadState]
  BY <1>1 DEF Write
<1> QED BY <1>1, <1>2 DEF Shapes, TablesTyped, ThreadsServed

-----------------------------------------------------------------------------
(* The statements that read                                                *)

LEMMA Begun ==
    ASSUME Shapes, ThreadsServed, NEW t \in Thread, NEW h, At(t, h)
    PROVE  /\ thread[t] \in ThreadState /\ thread[t].todo # <<>> /\ Head(thread[t].todo) = h
           /\ Suffix(thread[t].todo, Program(thread[t].op)) /\ Aware(thread[t])
           /\ ~thread[t].raced => Knows(thread[t])
BY DEF At, Shapes, ThreadsServed, Served

\* The request is served on with the state q.
Goes(t, q) == q \in ThreadState /\ Served(q) /\ Read(t, q)

LEMMA FindFamilyGoes ==
    ASSUME Shapes, ThreadsServed, NEW t \in Thread, FindFamily(t)
    PROVE  \E q : Goes(t, q)
<1> DEFINE s == thread[t]
           found == {k \in Table("JobFamily") : rows[k].name = s.name}
<1>1. /\ At(t, "findFamily") /\ s \in ThreadState /\ s.todo # <<>> /\ Suffix(s.todo, Program(s.op)) /\ Aware(s)
      /\ ~s.raced => Knows(s)
  BY Begun DEF FindFamily
<1>2. s.op = "deploy" /\ (Left(s) = 9 \/ Left(s) = 6)
  BY <1>1, Places DEF At, Place
<1> HIDE DEF s
<1>3. CASE found = {} /\ Read(t, Skip(s, 1))
  <2>1. PICK r \in Seq(Step) : Skip(s, 1) = [s EXCEPT !.todo = r] /\ Len(r) = Left(s) - 1 /\ Suffix(r, Program(s.op))
    BY <1>1, <1>2, Skipping
  <2>2. PICK q : q = [s EXCEPT !.todo = r]
    OBVIOUS
  <2>3. /\ q \in ThreadState /\ Left(q) = Left(s) - 1 /\ q.op = s.op /\ q.todo = r /\ q.name = s.name
        /\ q.version = s.version /\ q.subject = s.subject /\ q.family = s.family /\ q.esc = s.esc /\ q.raced = s.raced
    BY <1>1, <2>1, <2>2 DEF ThreadState, Left
  <2>4. Aware(q)
    BY <1>1, <1>2, <2>3 DEF Aware
  <2>5. Knows(s) => Knows(q)
    BY <1>2, <1>3, <2>3 DEF Knows, Families, Jobs
  <2>6. Served(q)
    BY <1>1, <2>1, <2>3, <2>4, <2>5 DEF Served
  <2> QED BY <1>3, <2>1, <2>2, <2>3, <2>6 DEF Goes
<1>4. ASSUME NEW k \in found, Read(t, [Skip(s, 2) EXCEPT !.family = k])
      PROVE  \E q : Goes(t, q)
  <2>1. PICK r \in Seq(Step) : Skip(s, 2) = [s EXCEPT !.todo = r] /\ Len(r) = Left(s) - 2 /\ Suffix(r, Program(s.op))
    BY <1>1, <1>2, Skipping
  <2>2. PICK q : q = [[s EXCEPT !.todo = r] EXCEPT !.family = k]
    OBVIOUS
  <2>3. k \in Live /\ k \in Id /\ rows[k].table = "JobFamily" /\ rows[k].name = s.name /\ k <= issued
    BY <1>4, LiveRows DEF Table
  <2>4. /\ q \in ThreadState /\ Left(q) = Left(s) - 2 /\ q.op = s.op /\ q.todo = r /\ q.name = s.name
        /\ q.version = s.version /\ q.subject = s.subject /\ q.family = k /\ q.esc = s.esc /\ q.raced = s.raced
    BY <1>1, <2>1, <2>2, <2>3 DEF ThreadState, Left, Ref
  <2>5. Aware(q)
    BY <1>1, <1>2, <2>3, <2>4, NullIsNoId DEF Aware, Kind
  <2>6. Knows(s) => Knows(q)
    BY <1>2, <1>4, <2>3, <2>4 DEF Knows, Families, Jobs
  <2>7. Served(q)
    BY <1>1, <2>1, <2>4, <2>5, <2>6 DEF Served
  <2> QED BY <1>4, <2>1, <2>2, <2>4, <2>7 DEF Goes
<1> QED BY <1>3, <1>4 DEF FindFamily, s

\* q is s with other statements left.
SameBut(q, s) ==
    /\ q.op = s.op /\ q.name = s.name /\ q.version = s.version /\ q.scope = s.scope /\ q.esc = s.esc
    /\ q.family = s.family /\ q.job = s.job /\ q.subject = s.subject /\ q.stack = s.stack /\ q.seen = s.seen
    /\ q.raced = s.raced

LEMMA Onward ==
    ASSUME NEW s \in ThreadState, NEW n \in Nat \ {0}, n < Left(s), Suffix(s.todo, Program(s.op))
    PROVE  \E q \in ThreadState : /\ q = Skip(s, n) /\ Left(q) = Left(s) - n /\ q.todo # <<>>
                                  /\ Suffix(q.todo, Program(q.op)) /\ SameBut(q, s) /\ Head(q.todo) = s.todo[n + 1]
<1>1. PICK r \in Seq(Step) : /\ Skip(s, n) = [s EXCEPT !.todo = r]
                             /\ Len(r) = Left(s) - n /\ r # <<>> /\ Suffix(r, Program(s.op)) /\ Head(r) = s.todo[n + 1]
  BY Skipping
<1>2. PICK q : q = [s EXCEPT !.todo = r]
  OBVIOUS
<1>3. q \in ThreadState /\ q.todo = r /\ SameBut(q, s)
  BY <1>2 DEF ThreadState, SameBut
<1>4. Left(q) = Left(s) - n
  BY <1>1, <1>3 DEF Left
<1>5. q.op = s.op
  BY <1>3 DEF SameBut
<1> QED BY <1>1, <1>2, <1>3, <1>4, <1>5

LEMMA Finished ==
    ASSUME NEW s, NEW n, n = Left(s)
    PROVE  Skip(s, n) = Idle
BY DEF Skip, Left

LEMMA FindJobGoes ==
    ASSUME Shapes, ThreadsServed, NEW t \in Thread, FindJob(t)
    PROVE  \E q : Goes(t, q)
<1> DEFINE s == thread[t]
           n == IF Jobs(s) = {} THEN 1 ELSE 4
<1>1. /\ At(t, "findJob") /\ s \in ThreadState /\ s.todo # <<>> /\ Suffix(s.todo, Program(s.op)) /\ Aware(s)
      /\ ~s.raced => Knows(s)
  BY Begun DEF FindJob
<1>2. s.op = "deploy" /\ Left(s) = 7
  BY <1>1, Places DEF At, Place
<1>3. Read(t, Skip(s, n))
  BY DEF FindJob, Jobs
<1> HIDE DEF s
<1>n. n \in {1, 4} /\ (n = 1 <=> Jobs(s) = {})
  OBVIOUS
<1> HIDE DEF n
<1>4. PICK q \in ThreadState : /\ q = Skip(s, n) /\ Left(q) = Left(s) - n /\ Suffix(q.todo, Program(q.op))
                               /\ SameBut(q, s)
  BY <1>1, <1>2, <1>n, Onward
<1>5. Aware(q)
  BY <1>1, <1>2, <1>n, <1>4 DEF Aware, SameBut
<1>6. Knows(s) => Knows(q)
  <2>1. Jobs(q) = Jobs(s) /\ Families(q) = Families(s)
    BY <1>4 DEF Families, Jobs, SameBut
  <2>2. (Jobs(s) = {} /\ Left(q) = 6) \/ (Jobs(s) # {} /\ Left(q) = 3)
    BY <1>2, <1>4, <1>n
  <2> QED BY <1>2, <1>4, <2>1, <2>2 DEF Knows, SameBut
<1>7. q.raced = s.raced
  BY <1>4 DEF SameBut
<1>8. Served(q)
  BY <1>1, <1>4, <1>5, <1>6, <1>7 DEF Served
<1> QED BY <1>3, <1>4, <1>8 DEF Goes

LEMMA FindSubjectGoes ==
    ASSUME Shapes, ThreadsServed, NEW t \in Thread, FindSubject(t)
    PROVE  \E q : Goes(t, q)
<1> DEFINE s == thread[t]
<1>1. /\ At(t, "findSubject") /\ s \in ThreadState /\ s.todo # <<>> /\ Suffix(s.todo, Program(s.op)) /\ Aware(s)
      /\ ~s.raced => Knows(s)
  BY Begun DEF FindSubject
<1>2. Place(s, "allow", 6) \/ Place(s, "token", 5) \/ Place(s, "esc", 4)
  BY <1>1, Places DEF At
<1>3. 3 < Left(s)
  BY <1>2 DEF Place
<1>4. \/ SubjectsOf(s) = {} /\ Read(t, Skip(s, 1))
      \/ \E k \in SubjectsOf(s) : Read(t, [Skip(s, 3) EXCEPT !.subject = k])
  BY DEF FindSubject
<1> HIDE DEF s
<1>5. CASE SubjectsOf(s) = {} /\ Read(t, Skip(s, 1))
  <2>1. PICK q \in ThreadState : /\ q = Skip(s, 1) /\ Left(q) = Left(s) - 1 /\ Suffix(q.todo, Program(q.op))
                                 /\ SameBut(q, s)
    BY <1>1, <1>2, <1>3, Onward DEF Place
  <2>2. Aware(q)
    BY <1>1, <1>2, <2>1 DEF Aware, SameBut, Place
  <2>3. SubjectsOf(q) = {}
    BY <1>5, <2>1 DEF SubjectsOf, SameBut
  <2>4. Knows(s) => Knows(q)
    BY <1>2, <2>1, <2>3 DEF Knows, SameBut, Place, Owned, Families
  <2>5. q.raced = s.raced
    BY <2>1 DEF SameBut
  <2>6. Served(q)
    BY <1>1, <2>1, <2>2, <2>4, <2>5 DEF Served
  <2> QED BY <1>5, <2>1, <2>6 DEF Goes
<1>6. ASSUME NEW k \in SubjectsOf(s), Read(t, [Skip(s, 3) EXCEPT !.subject = k])
      PROVE  \E q : Goes(t, q)
  <2>1. PICK r \in ThreadState : /\ r = Skip(s, 3) /\ Left(r) = Left(s) - 3 /\ Suffix(r.todo, Program(r.op))
                                 /\ SameBut(r, s)
    BY <1>1, <1>2, <1>3, Onward DEF Place
  <2>2. k \in Id /\ k \in Live /\ k <= issued /\ rows[k].table = "AuthSubject" /\ k # Null
    BY <1>6, LiveRows, NullIsNoId DEF SubjectsOf, Table
  <2>3. PICK q : q = [r EXCEPT !.subject = k]
    OBVIOUS
  <2>4. /\ q \in ThreadState /\ q.todo = r.todo /\ q.op = s.op /\ q.name = s.name /\ q.version = s.version
        /\ q.esc = s.esc /\ q.family = s.family /\ q.subject = k /\ q.raced = s.raced
        /\ Left(q) = Left(s) - 3
    BY <2>1, <2>2, <2>3 DEF ThreadState, Ref, Left, SameBut
  <2>5. Suffix(q.todo, Program(q.op))
    BY <2>1, <2>4 DEF SameBut
  <2>6. Aware(q)
    BY <1>1, <1>2, <2>2, <2>4 DEF Aware, Kind, Place
  <2>7. Knows(s) => Knows(q)
    BY <1>2, <2>2, <2>4 DEF Knows, Place, Owned, Families
  <2>8. Served(q)
    BY <1>1, <2>4, <2>5, <2>6, <2>7 DEF Served
  <2> QED BY <1>6, <2>1, <2>3, <2>4, <2>8 DEF Goes
<1> QED BY <1>4, <1>5, <1>6

LEMMA FindTokenGoes ==
    ASSUME Shapes, ThreadsServed, NEW t \in Thread, FindToken(t)
    PROVE  \E q : Goes(t, q)
<1> DEFINE s == thread[t]
<1>1. /\ At(t, "findToken") /\ s \in ThreadState /\ s.todo # <<>> /\ Suffix(s.todo, Program(s.op)) /\ Aware(s)
      /\ ~s.raced => Knows(s)
  BY Begun DEF FindToken
<1>2. s.op = "token" /\ Left(s) = 2
  BY <1>1, Places DEF At, Place
<1>3. Read(t, Skip(s, 1)) \/ Read(t, Skip(s, 2))
  BY DEF FindToken
<1> HIDE DEF s
<1>4. Skip(s, 2) = Idle
  BY <1>2, Finished
<1>5. PICK q \in ThreadState : /\ q = Skip(s, 1) /\ Left(q) = Left(s) - 1 /\ Suffix(q.todo, Program(q.op))
                               /\ SameBut(q, s)
  BY <1>1, <1>2, Onward
<1>6. Aware(q)
  BY <1>1, <1>2, <1>5 DEF Aware, SameBut
<1>7. Knows(s) => Knows(q)
  BY <1>2, <1>5 DEF Knows, SameBut, Owned
<1>8. q.raced = s.raced
  BY <1>5 DEF SameBut
<1>9. Served(q)
  BY <1>1, <1>5, <1>6, <1>7, <1>8 DEF Served
<1> QED BY <1>3, <1>4, <1>5, <1>9, IdleTyped, IdleServed DEF Goes

LEMMA PermissionExistsGoes ==
    ASSUME Shapes, ThreadsServed, NEW t \in Thread, PermissionExists(t)
    PROVE  \E q : Goes(t, q)
<1> DEFINE s == thread[t]
<1>1. /\ At(t, "exists") /\ s \in ThreadState /\ s.todo # <<>> /\ Suffix(s.todo, Program(s.op)) /\ Aware(s)
      /\ ~s.raced => Knows(s)
  BY Begun DEF PermissionExists
<1>2. Place(s, "deploy", 3) \/ Place(s, "allow", 3)
  BY <1>1, Places DEF At
<1>3. Read(t, Skip(s, 3)) \/ (~Granted(s) /\ Read(t, Skip(s, 1)))
  <2>1. PICK x : x = (IF Granted(s) THEN Skip(s, 3) ELSE Skip(s, 1)) /\ Read(t, x)
    BY DEF PermissionExists
  <2> QED BY <2>1
<1> HIDE DEF s
<1>4. Skip(s, 3) = Idle
  BY <1>2, Finished DEF Place
<1>5. PICK q \in ThreadState : /\ q = Skip(s, 1) /\ Left(q) = 2 /\ Suffix(q.todo, Program(q.op))
                               /\ SameBut(q, s)
  BY <1>1, <1>2, Onward DEF Place
<1>6. Aware(q)
  BY <1>1, <1>2, <1>5 DEF Aware, SameBut, Place
<1>7. Granted(q) <=> Granted(s)
  BY <1>5 DEF Granted, SameBut
<1>8. Jobs(q) = Jobs(s) /\ Families(q) = Families(s)
  BY <1>5 DEF Jobs, Families, SameBut
<1>9. ~Granted(s) /\ Knows(s) => Knows(q)
  BY <1>2, <1>5, <1>7, <1>8 DEF Knows, SameBut, Owned, Place
<1>10. q.raced = s.raced
  BY <1>5 DEF SameBut
<1>11. ~Granted(s) => Served(q)
  BY <1>1, <1>5, <1>6, <1>9, <1>10 DEF Served
<1> QED BY <1>3, <1>4, <1>5, <1>11, IdleTyped, IdleServed DEF Goes

\* A request fails only when it raced.
Fails(t) == Raise(t) /\ thread[t].raced

LEMMA FindTargetGoes ==
    ASSUME Shapes, ThreadsServed, NEW t \in Thread, FindTarget(t)
    PROVE  Fails(t) \/ \E q : Goes(t, q)
<1> DEFINE s == thread[t]
           found == IF s.version # Null THEN Jobs(s) ELSE Families(s)
           table == IF s.version # Null THEN "Job" ELSE "JobFamily"
<1>1. /\ At(t, "findTarget") /\ s \in ThreadState /\ s.todo # <<>> /\ Suffix(s.todo, Program(s.op)) /\ Aware(s)
      /\ ~s.raced => Knows(s)
  BY Begun DEF FindTarget
<1>2. Place(s, "deploy", 2) \/ Place(s, "allow", 2)
  BY <1>1, Places DEF At
<1>3. (found = {} /\ Raise(t)) \/ \E k \in found : Read(t, [Skip(s, 1) EXCEPT !.job = k])
  BY DEF FindTarget, Jobs, Families
<1>4. s.version # Null <=> s.op = "deploy"
  BY <1>1, <1>2 DEF Aware, Place
<1>5. CASE found = {} /\ Raise(t)
  <2>1. ~Knows(s)
    BY <1>2, <1>4, <1>5 DEF Knows, Place
  <2> QED BY <1>1, <1>5, <2>1 DEF Fails
<1>6. ASSUME NEW k \in found, Read(t, [Skip(s, 1) EXCEPT !.job = k])
      PROVE  \E q : Goes(t, q)
  <2>1. k \in Id /\ k \in Live /\ k <= issued /\ rows[k].table = table
    BY <1>6, LiveRows DEF Jobs, Families, Table
  <2>2. found = IF s.op = "deploy" THEN Jobs(s) ELSE Families(s)
    BY <1>4
  <2>3. table = IF s.op = "deploy" THEN "Job" ELSE "JobFamily"
    BY <1>4
  <2> HIDE DEF s, found, table
  <2>4. PICK r \in ThreadState : /\ r = Skip(s, 1) /\ Left(r) = 1 /\ Suffix(r.todo, Program(r.op))
                                 /\ SameBut(r, s)
    BY <1>1, <1>2, Onward DEF Place
  <2>5. PICK q : q = [r EXCEPT !.job = k]
    OBVIOUS
  <2>6. /\ q \in ThreadState /\ q.todo = r.todo /\ q.op = s.op /\ q.name = s.name /\ q.version = s.version
        /\ q.scope = s.scope /\ q.esc = s.esc /\ q.family = s.family /\ q.subject = s.subject /\ q.raced = s.raced
        /\ q.job = k /\ Left(q) = 1
    BY <2>1, <2>4, <2>5 DEF ThreadState, Ref, Left, SameBut
  <2>7. Suffix(q.todo, Program(q.op))
    BY <2>4, <2>6 DEF SameBut
  <2>8. Aware(q)
    BY <1>1, <1>2, <2>1, <2>3, <2>6 DEF Aware, Kind, Place
  <2>9. Jobs(q) = Jobs(s) /\ Families(q) = Families(s)
    BY <2>6 DEF Jobs, Families
  <2>10. Granted(q) <=> Granted(s)
    BY <2>6 DEF Granted
  <2>11. Knows(s) => Knows(q)
    BY <1>2, <1>6, <2>2, <2>6, <2>9, <2>10 DEF Knows, Owned, Place
  <2>12. Served(q)
    BY <1>1, <2>6, <2>7, <2>8, <2>11 DEF Served
  <2> QED BY <1>6, <2>4, <2>5, <2>6, <2>12 DEF Goes
<1> QED BY <1>3, <1>5, <1>6

LEMMA ReadJobsGoes ==
    ASSUME Shapes, ThreadsServed, NEW t \in Thread, ReadJobs(t)
    PROVE  \E q : Goes(t, q)
<1> DEFINE s == thread[t]
<1>1. /\ At(t, "readJobs") /\ s \in ThreadState /\ s.todo # <<>> /\ Suffix(s.todo, Program(s.op)) /\ Aware(s)
  BY Begun DEF ReadJobs
<1>2. s.op = "list" /\ Left(s) = 2
  BY <1>1, Places DEF At, Place
<1>3. Read(t, [Skip(s, 1) EXCEPT !.seen = Table("Job")])
  BY DEF ReadJobs
<1> HIDE DEF s
<1>4. PICK r \in ThreadState : r = Skip(s, 1) /\ Left(r) = 1 /\ Suffix(r.todo, Program(r.op)) /\ SameBut(r, s)
  BY <1>1, <1>2, Onward
<1>5. PICK q : q = [r EXCEPT !.seen = Table("Job")]
  OBVIOUS
<1>6. Table("Job") \subseteq Id
  BY DEF Table, Live
<1>7. /\ q \in ThreadState /\ q.todo = r.todo /\ q.op = "list" /\ q.seen = Table("Job") /\ Left(q) = 1
      /\ q.esc = s.esc /\ q.family = s.family /\ q.subject = s.subject /\ r.op = "list"
  BY <1>2, <1>4, <1>5, <1>6 DEF ThreadState, Left, SameBut
<1>8. Aware(q)
  BY <1>1, <1>7 DEF Aware
<1>9. Knows(q)
  BY <1>7 DEF Knows
<1>10. Served(q)
  BY <1>4, <1>7, <1>8, <1>9 DEF Served
<1> QED BY <1>3, <1>4, <1>5, <1>7, <1>10 DEF Goes

\* The jobs were read before the permissions, and nobody wrote in between.
LEMMA ReadPermissionsGoes ==
    ASSUME Shapes, RowsSound, ThreadsServed, NEW t \in Thread, ReadPermissions(t)
    PROVE  Fails(t) \/ \E q : Goes(t, q)
<1> DEFINE s == thread[t]
<1>1. /\ At(t, "readPermissions") /\ s \in ThreadState /\ s.todo # <<>> /\ Suffix(s.todo, Program(s.op))
      /\ ~s.raced => Knows(s)
  BY Begun DEF ReadPermissions
<1>2. s.op = "list" /\ Left(s) = 1
  BY <1>1, Places DEF At, Place
<1>3. Knows(s) => s.seen = Table("Job")
  BY <1>2 DEF Knows
<1>4. \A p \in Permissions(s.subject, s.scope) : p.job = Null \/ p.job \in Table("Job")
  BY PermissionRows
<1>5. PermittedJobs(s.subject, s.scope, Table("Job")) \subseteq Table("Job")
  BY <1>4 DEF PermittedJobs
<1>6. Read(t, Idle) \/ (Raise(t) /\ ~(PermittedJobs(s.subject, s.scope, s.seen) \subseteq s.seen))
  BY DEF ReadPermissions
<1> QED BY <1>1, <1>3, <1>5, <1>6, IdleTyped, IdleServed DEF Goes, Fails

-----------------------------------------------------------------------------
(* Cascades                                                                *)

\* Every column that refers to another table is followed, and leads from a table
\* to one of lower rank.
LEMMA Schema ==
    /\ DOMAIN OnDeleteCascade = 1..7
    /\ \A n \in 1..7 : /\ OnDeleteCascade[n].table \in Tables /\ OnDeleteCascade[n].origin \in Tables
                       /\ Rank(OnDeleteCascade[n].table) < Rank(OnDeleteCascade[n].origin)
    /\ OnDeleteCascade[1] = [table |-> "Job", column |-> "family", origin |-> "JobFamily"]
    /\ OnDeleteCascade[2] = [table |-> "AuthSubject", column |-> "esc", origin |-> "Esc"]
    /\ OnDeleteCascade[3] = [table |-> "AuthSubject", column |-> "family", origin |-> "JobFamily"]
    /\ OnDeleteCascade[4] = [table |-> "AuthToken", column |-> "subject", origin |-> "AuthSubject"]
    /\ OnDeleteCascade[5] = [table |-> "AuthResourcePermission", column |-> "subject", origin |-> "AuthSubject"]
    /\ OnDeleteCascade[6] = [table |-> "AuthResourcePermission", column |-> "family", origin |-> "JobFamily"]
    /\ OnDeleteCascade[7] = [table |-> "AuthResourcePermission", column |-> "job", origin |-> "Job"]
<1>1. /\ DOMAIN OnDeleteCascade = 1..7
      /\ OnDeleteCascade[1] = [table |-> "Job", column |-> "family", origin |-> "JobFamily"]
      /\ OnDeleteCascade[2] = [table |-> "AuthSubject", column |-> "esc", origin |-> "Esc"]
      /\ OnDeleteCascade[3] = [table |-> "AuthSubject", column |-> "family", origin |-> "JobFamily"]
      /\ OnDeleteCascade[4] = [table |-> "AuthToken", column |-> "subject", origin |-> "AuthSubject"]
      /\ OnDeleteCascade[5] = [table |-> "AuthResourcePermission", column |-> "subject", origin |-> "AuthSubject"]
      /\ OnDeleteCascade[6] = [table |-> "AuthResourcePermission", column |-> "family", origin |-> "JobFamily"]
      /\ OnDeleteCascade[7] = [table |-> "AuthResourcePermission", column |-> "job", origin |-> "Job"]
  BY DEF OnDeleteCascade
<1>2. ASSUME NEW n \in 1..7
      PROVE  /\ OnDeleteCascade[n].table \in Tables /\ OnDeleteCascade[n].origin \in Tables
             /\ Rank(OnDeleteCascade[n].table) < Rank(OnDeleteCascade[n].origin)
  <2>1. n = 1 \/ n = 2 \/ n = 3 \/ n = 4 \/ n = 5 \/ n = 6 \/ n = 7
    OBVIOUS
  <2> QED BY <1>1, <2>1 DEF Tables, Rank
<1> QED BY <1>1, <1>2

LEMMA Dependant == ASSUME NEW name PROVE Dependants(name) \subseteq 1..7
BY Schema DEF Dependants

LEMMA FrameTyped ==
    ASSUME NEW k \in Id, NEW name \in Tables
    PROVE  /\ Frame(k, name) \in FrameState /\ Frame(k, name).id = k /\ Frame(k, name).deps = Dependants(name)
           /\ Frame(k, name).found = {} /\ Frame(k, name).of = name
BY Dependant DEF Frame, FrameState

\* The first column that is left.
LEMMA FirstOne ==
    ASSUME NEW D \in SUBSET (1..7), D # {}
    PROVE  (CHOOSE i \in D : \A j \in D : i <= j) \in D
<1>1. \E i \in D : \A j \in D : i <= j
  <2>1. CASE 1 \in D
    BY <2>1
  <2>2. CASE 1 \notin D /\ 2 \in D
    BY <2>2
  <2>3. CASE 1 \notin D /\ 2 \notin D /\ 3 \in D
    BY <2>3
  <2>4. CASE 1 \notin D /\ 2 \notin D /\ 3 \notin D /\ 4 \in D
    BY <2>4
  <2>5. CASE 1 \notin D /\ 2 \notin D /\ 3 \notin D /\ 4 \notin D /\ 5 \in D
    BY <2>5
  <2>6. CASE 1 \notin D /\ 2 \notin D /\ 3 \notin D /\ 4 \notin D /\ 5 \notin D /\ 6 \in D
    BY <2>6
  <2>7. CASE 1 \notin D /\ 2 \notin D /\ 3 \notin D /\ 4 \notin D /\ 5 \notin D /\ 6 \notin D
    <3>1. \A j \in D : j = 7
      BY <2>7
    <3>2. PICK d \in D : TRUE
      OBVIOUS
    <3> QED BY <3>1, <3>2
  <2> QED BY <2>1, <2>2, <2>3, <2>4, <2>5, <2>6, <2>7
<1> QED BY <1>1

\* The stack with the next record found on top.
Pushes(q, k, p) ==
    LET n == Len(q) IN
    /\ Len(p) = n + 1
    /\ \A i \in 1..n : i < n => p[i] = q[i]
    /\ p[n] = [q[n] EXCEPT !.found = @ \ {k}]
    /\ p[n + 1] = Frame(k, q[n].of)

\* e is q with f in the place n.
Sets(q, n, f, e) == Len(e) = Len(q) /\ e[n] = f /\ \A i \in 1..Len(q) : i # n => e[i] = q[i]

LEMMA SetTop ==
    ASSUME NEW q \in Seq(FrameState), NEW n \in 1..Len(q), NEW f \in FrameState
    PROVE  \E e \in Seq(FrameState) : e = [q EXCEPT ![n] = f] /\ Sets(q, n, f, e)
<1>1. [q EXCEPT ![n] = f] \in Seq(FrameState) /\ Len([q EXCEPT ![n] = f]) = Len(q)
  BY ExceptSeq
<1>2. [q EXCEPT ![n] = f][n] = f /\ \A i \in 1..Len(q) : i # n => [q EXCEPT ![n] = f][i] = q[i]
  BY ExceptSeq
<1> QED BY <1>1, <1>2, Zenon DEF Sets

LEMMA Descent ==
    ASSUME NEW q \in Seq(FrameState)
    PROVE  /\ Descend(q) \in Seq(FrameState)
           /\ q # <<>> => Descend(q) # <<>>
           /\ \/ (q = <<>> \/ q[Len(q)].found = {}) /\ Descend(q) = q
              \/ /\ q # <<>>
                 /\ \E k \in q[Len(q)].found : Pushes(q, k, Descend(q))
<1>1. CASE q = <<>> \/ q[Len(q)].found = {}
  BY <1>1 DEF Descend, Top
<1>2. CASE q # <<>> /\ q[Len(q)].found # {}
  <2> DEFINE n == Len(q)
             top == q[n]
  <2>1. n \in Nat \ {0} /\ top \in FrameState
    BY <1>2
  <2>2. PICK k : k = CHOOSE j \in top.found : TRUE
    OBVIOUS
  <2>3. k \in top.found /\ k \in Id
    BY <1>2, <2>1, <2>2 DEF FrameState
  <2>4. PICK f : f = [top EXCEPT !.found = @ \ {k}]
    OBVIOUS
  <2>5. f \in FrameState /\ n \in 1..Len(q)
    BY <2>1, <2>4 DEF FrameState
  <2> HIDE DEF n, top
  <2>e. PICK e \in Seq(FrameState) : e = [q EXCEPT ![n] = f] /\ Sets(q, n, f, e)
    BY <2>5, SetTop
  <2>6. Len(e) = n /\ e[n] = f /\ \A i \in 1..n : i # n => e[i] = q[i]
    BY <2>e DEF n, Sets
  <2>7. Frame(k, top.of) \in FrameState
    BY <2>1, <2>3, FrameTyped DEF FrameState
  <2>8. PICK p : p = Append(e, Frame(k, top.of))
    OBVIOUS
  <2>9. /\ p \in Seq(FrameState) /\ p # <<>> /\ Len(p) = n + 1 /\ p[n + 1] = Frame(k, top.of)
        /\ \A i \in 1..n : p[i] = e[i]
    BY <2>1, <2>6, <2>7, <2>8, AppendProperties
  <2>10. Descend(q) = p
    <3>1. e = [q EXCEPT ![n].found = @ \ {k}]
      BY <2>e, <2>4 DEF top
    <3> QED BY <1>2, <2>2, <2>8, <3>1 DEF Descend, Top, n, top
  <2>11. Pushes(q, k, p)
    BY <2>1, <2>4, <2>6, <2>9 DEF Pushes, n, top
  <2> QED BY <1>2, <2>3, <2>9, <2>10, <2>11 DEF n, top
<1> QED BY <1>1, <1>2

\* Deeper records are of lower rank than the ones that led to them: no cascade
\* deletes a record that another frame is about.
LEMMA PushedStack ==
    ASSUME NEW q \in Seq(FrameState), Frames(q), Nested(q), q # <<>>, NEW k \in q[Len(q)].found,
           NEW p \in Seq(FrameState), Pushes(q, k, p)
    PROVE  Stacked(p)
<1>n. PICK n \in Nat \ {0} : n = Len(q)
  OBVIOUS
<1>t. PICK top \in FrameState : top = q[n]
  BY <1>n
<1>1. k \in top.found /\ \A i \in 1..n : q[i] \in FrameState
  BY <1>n, <1>t
<1>2. /\ Len(p) = n + 1 /\ \A i \in 1..n : i < n => p[i] = q[i]
      /\ p[n] = [top EXCEPT !.found = @ \ {k}] /\ p[n + 1] = Frame(k, top.of)
  BY <1>n, <1>t DEF Pushes
<1>f. /\ \A i \in 1..n : FrameOK(q[i])
      /\ \A i \in 1..n : i < n => Followed(q[i], {q[i + 1].id})
      /\ Followed(top, {})
  <2>1. \A i \in 1..n : FrameOK(q[i]) /\ Followed(q[i], IF i < n THEN {q[i + 1].id} ELSE {})
    BY <1>n DEF Frames
  <2>2. n \in 1..n /\ ~(n < n)
    BY <1>n
  <2> QED BY <1>t, <2>1, <2>2
<1>3. FrameOK(top) /\ k \in Table(top.of) /\ Rank(top.of) < Rank(Of(top)) /\ k \in Id /\ top.of \in Tables
  BY <1>n, <1>t, <1>1, <1>f DEF FrameOK, FrameState
<1>4. k \in Live /\ rows[k].table = top.of
  BY <1>3 DEF Table
<1>5. /\ p[n + 1].id = k /\ p[n + 1].deps = Dependants(top.of) /\ p[n + 1].found = {} /\ p[n + 1].of = top.of
  BY <1>2, <1>3, FrameTyped
<1>6. p[n].id = top.id /\ p[n].deps = top.deps /\ p[n].of = top.of /\ p[n].found = top.found \ {k}
  BY <1>2 DEF FrameState
<1>7. \A i \in 1..n : p[i].id = q[i].id /\ p[i].deps = q[i].deps /\ p[i].of = q[i].of /\ p[i].found \subseteq q[i].found
  <2>1. \A i \in 1..n : i < n \/ i = n
    BY <1>n
  <2> QED BY <1>t, <1>2, <1>6, <2>1
<1>8. ASSUME NEW i \in 1..n + 1
      PROVE  FrameOK(p[i]) /\ Followed(p[i], IF i < n + 1 THEN {p[i + 1].id} ELSE {})
  <2>1. CASE i < n
    <3>1. FrameOK(q[i]) /\ Followed(q[i], {q[i + 1].id})
      <4>1. i \in 1..n
        BY <1>n, <2>1
      <4> QED BY <1>f, <2>1, <4>1
    <3>2. p[i] = q[i] /\ p[i + 1].id = q[i + 1].id /\ i < n + 1
      BY <1>n, <1>2, <1>7, <2>1
    <3> QED BY <3>1, <3>2
  <2>2. CASE i = n
    <3>1. FrameOK(top) /\ Followed(top, {})
      BY <1>f, <1>3
    <3>2. FrameOK(p[n])
      BY <3>1, <1>6 DEF FrameOK, Of
    <3>3. Followed(p[n], {p[n + 1].id})
      BY <3>1, <1>5, <1>6 DEF Followed, Of
    <3> QED BY <1>n, <2>2, <3>2, <3>3
  <2>3. CASE i = n + 1
    <3>1. FrameOK(p[n + 1])
      BY <1>4, <1>5 DEF FrameOK, Of
    <3>2. Followed(p[n + 1], {})
      BY <1>4, <1>5 DEF Followed, Of
    <3> QED BY <1>n, <2>3, <3>1, <3>2
  <2> QED BY <1>n, <2>1, <2>2, <2>3
<1>9. ASSUME NEW i \in 1..n + 1, i < n + 1 PROVE Of(p[i + 1]) = p[i].of
  <2>1. CASE i < n
    BY <1>n, <1>7, <2>1 DEF Nested, Of
  <2>2. CASE i = n
    BY <1>4, <1>5, <1>6, <2>2 DEF Of
  <2> QED BY <1>n, <1>9, <2>1, <2>2
<1>10. \A name : Rank(name) \in Int
  BY DEF Rank
<1>11. ASSUME NEW i \in 1..n + 1, NEW j \in 1..n + 1, i < j
       PROVE  Rank(Of(p[j])) < Rank(Of(p[i])) /\ p[j].id \notin p[i].found
  <2>1. CASE j < n + 1
    <3>1. i \in 1..n /\ j \in 1..n
      BY <1>n, <1>11, <2>1
    <3>2. Rank(Of(q[j])) < Rank(Of(q[i])) /\ q[j].id \notin q[i].found
      BY <1>n, <1>11, <3>1 DEF Nested
    <3> QED BY <3>1, <3>2, <1>7 DEF Of
  <2>2. CASE j = n + 1 /\ i = n
    BY <1>3, <1>4, <1>5, <1>6, <2>2 DEF Of
  <2>3. CASE j = n + 1 /\ i < n
    <3>1. i \in 1..n /\ i + 1 \in 1..n /\ n \in 1..n
      BY <1>n, <2>3
    <3>2. Rank(Of(top)) < Rank(Of(q[i]))
      BY <1>n, <1>t, <2>3, <3>1 DEF Nested
    <3>3. Rank(Of(top)) <= Rank(Of(q[i + 1])) /\ Of(q[i + 1]) = q[i].of
      BY <1>n, <1>t, <2>3, <3>1, <1>10 DEF Nested
    <3>4. rows[k].table # q[i].of
      BY <1>3, <1>4, <1>10, <3>3
    <3>5. k \notin q[i].found
      BY <1>f, <3>1, <3>4 DEF FrameOK, Table
    <3>6. Rank(Of(p[n + 1])) < Rank(Of(q[i]))
      BY <1>3, <1>4, <1>5, <1>10, <3>2 DEF Of
    <3> QED BY <1>5, <1>7, <2>3, <3>1, <3>5, <3>6 DEF Of
  <2> QED BY <1>n, <1>11, <2>1, <2>2, <2>3
<1>12. Frames(p)
  BY <1>2, <1>8 DEF Frames
<1>13. Nested(p)
  BY <1>2, <1>9, <1>11 DEF Nested
<1> QED BY <1>n, <1>2, <1>5, <1>12, <1>13 DEF Stacked

LEMMA Descended ==
    \A q \in Seq(FrameState) : Frames(q) /\ Nested(q) => Stacked(Descend(q))
<1> SUFFICES ASSUME NEW q \in Seq(FrameState), Frames(q), Nested(q) PROVE Stacked(Descend(q))
  OBVIOUS
<1>1. CASE (q = <<>> \/ q[Len(q)].found = {}) /\ Descend(q) = q
  BY <1>1 DEF Stacked
<1>2. ASSUME q # <<>>, NEW k \in q[Len(q)].found, Pushes(q, k, Descend(q)) PROVE Stacked(Descend(q))
  BY <1>2, Descent, PushedStack
<1> QED BY <1>1, <1>2, Descent

\* What the column n finds, and how the frame f goes on.
Looked(f, n) == [f EXCEPT !.deps = @ \ {n}, !.of = OnDeleteCascade[n].table, !.found = Referring(n, f.id)]

LEMMA LookedTyped ==
    ASSUME NEW f \in FrameState, NEW n \in 1..7
    PROVE  /\ Looked(f, n) \in FrameState
           /\ Looked(f, n).id = f.id /\ Looked(f, n).deps = f.deps \ {n}
           /\ Looked(f, n).of = OnDeleteCascade[n].table /\ Looked(f, n).found = Referring(n, f.id)
<1>1. Referring(n, f.id) \subseteq Id
  BY DEF Referring, Table, Live
<1>2. OnDeleteCascade[n].table \in Tables
  BY Schema
<1>3. PICK x : x = OnDeleteCascade[n].table
  OBVIOUS
<1>4. PICK y : y = Referring(n, f.id)
  OBVIOUS
<1> QED BY <1>1, <1>2, <1>3, <1>4 DEF Looked, FrameState

LEMMA LookedStack ==
    ASSUME NEW q \in Seq(FrameState), Stacked(q), q # <<>>, NEW n \in q[Len(q)].deps,
           NEW e \in Seq(FrameState), Sets(q, Len(q), Looked(q[Len(q)], n), e)
    PROVE  Frames(e) /\ Nested(e)
<1>l. PICK l \in Nat \ {0} : l = Len(q)
  OBVIOUS
<1>t. PICK top \in FrameState : top = q[l]
  BY <1>l
<1>1. n \in top.deps /\ n \in 1..7 /\ top.found = {}
  BY <1>l, <1>t DEF FrameState, Stacked
<1>2. Len(e) = l /\ e[l] = Looked(top, n) /\ \A i \in 1..l : i < l => e[i] = q[i]
  BY <1>l, <1>t DEF Sets
<1>3. /\ e[l].id = top.id /\ e[l].deps = top.deps \ {n} /\ e[l].of = OnDeleteCascade[n].table
      /\ e[l].found = Referring(n, top.id)
  BY <1>1, <1>2, LookedTyped
<1>4. /\ \A i \in 1..l : FrameOK(q[i])
      /\ \A i \in 1..l : i < l => Followed(q[i], {q[i + 1].id})
      /\ FrameOK(top) /\ Followed(top, {})
  <2>1. \A i \in 1..l : FrameOK(q[i]) /\ Followed(q[i], IF i < l THEN {q[i + 1].id} ELSE {})
    BY <1>l DEF Frames, Stacked
  <2>2. l \in 1..l /\ ~(l < l)
    BY <1>l
  <2> QED BY <1>t, <2>1, <2>2
<1>5. OnDeleteCascade[n].origin = Of(top)
  BY <1>1, <1>4 DEF FrameOK, Dependants
<1>6. FrameOK(e[l])
  <2>1. Rank(OnDeleteCascade[n].table) < Rank(Of(top))
    BY <1>1, <1>5, Schema
  <2>2. Referring(n, top.id) \subseteq Table(OnDeleteCascade[n].table)
    BY DEF Referring
  <2>3. Of(e[l]) = Of(top)
    BY <1>3 DEF Of
  <2> QED BY <1>3, <1>4, <2>1, <2>2, <2>3 DEF FrameOK
<1>7. Followed(e[l], {})
  <2>1. Of(e[l]) = Of(top)
    BY <1>3 DEF Of
  <2> QED BY <1>1, <1>3, <1>4, <2>1 DEF Followed
<1>8. \A i \in 1..l : e[i].id = q[i].id /\ (i < l => e[i] = q[i]) /\ (i < l => i + 1 \in 1..l) /\ (i < l \/ i = l)
  <2>1. \A i \in 1..l : (i < l => i + 1 \in 1..l) /\ (i < l \/ i = l)
    BY <1>l
  <2> QED BY <1>t, <1>2, <1>3, <2>1
<1>9. ASSUME NEW i \in 1..l PROVE FrameOK(e[i]) /\ Followed(e[i], IF i < l THEN {e[i + 1].id} ELSE {})
  <2>1. CASE i < l
    <3>1. e[i] = q[i] /\ e[i + 1].id = q[i + 1].id
      BY <1>8, <2>1
    <3> QED BY <1>4, <2>1, <3>1
  <2>2. CASE i = l
    <3>1. ~(i < l)
      BY <1>l, <2>2
    <3> QED BY <1>6, <1>7, <2>2, <3>1
  <2> QED BY <1>8, <2>1, <2>2
<1>10. Frames(e)
  BY <1>2, <1>9 DEF Frames
<1>11. /\ \A i \in 1..l : i < l => Of(q[i + 1]) = q[i].of
       /\ \A i, j \in 1..l : i < j => Rank(Of(q[j])) < Rank(Of(q[i])) /\ q[j].id \notin q[i].found
  BY <1>l DEF Stacked, Nested
<1>12. \A i \in 1..l : Of(e[i]) = Of(q[i])
  BY <1>8 DEF Of
<1>13. \A i, j \in 1..l : i < j => i < l
  BY <1>l
<1>14. Nested(e)
  <2>1. \A i \in 1..l : i < l => Of(e[i + 1]) = e[i].of
    BY <1>8, <1>11, <1>12
  <2>2. \A i, j \in 1..l : i < j => Rank(Of(e[j])) < Rank(Of(e[i])) /\ e[j].id \notin e[i].found
    BY <1>8, <1>11, <1>12, <1>13
  <2> QED BY <1>2, <2>1, <2>2 DEF Nested
<1> QED BY <1>10, <1>14

LEMMA FindDependantsGoes ==
    ASSUME Shapes, ThreadsServed, NEW t \in Thread, FindDependants(t)
    PROVE  \E q : Goes(t, q)
<1> DEFINE s == thread[t]
<1>1. /\ At(t, "cascade") /\ s \in ThreadState /\ s.todo # <<>> /\ Suffix(s.todo, Program(s.op)) /\ Aware(s)
      /\ ~s.raced => Knows(s)
  BY Begun DEF FindDependants
<1>2. s.op = "delete" /\ s.stack # <<>> /\ s.stack \in Seq(FrameState)
  BY <1>1, Places DEF At, Place, Aware, ThreadState
<1>l. PICK l \in Nat \ {0} : l = Len(s.stack)
  BY <1>2
<1>t. PICK top \in FrameState : top = s.stack[l]
  BY <1>2, <1>l
<1>3. PICK n : n = CHOOSE i \in top.deps : \A j \in top.deps : i <= j
  OBVIOUS
<1>4. /\ top.deps # {}
      /\ Read(t, [s EXCEPT !.stack = Descend([s.stack EXCEPT ![l] = Looked(top, n)])])
  <2> DEFINE other == Top(s.stack)
             next == CHOOSE i \in other.deps : \A j \in other.deps : i <= j
  <2>1. /\ other.deps # {}
        /\ Read(t, [s EXCEPT !.stack = Descend([s.stack EXCEPT ![Len(s.stack)] = Looked(other, next)])])
    BY DEF FindDependants, Looked, Referring
  <2>2. other = top
    BY <1>l, <1>t DEF Top
  <2> HIDE DEF other
  <2>3. next = n
    BY <1>3, <2>2, Zenon
  <2> HIDE DEF next
  <2> QED BY <1>l, <2>1, <2>2, <2>3, Zenon
<1>5. n \in top.deps /\ n \in 1..7
  <2>1. top.deps \in SUBSET (1..7)
    BY DEF FrameState
  <2> QED BY <1>3, <1>4, <2>1, FirstOne
<1> HIDE DEF s
<1>6. PICK f \in FrameState : f = Looked(top, n)
  BY <1>5, LookedTyped
<1>7. PICK e \in Seq(FrameState) : e = [s.stack EXCEPT ![l] = f] /\ Sets(s.stack, l, f, e)
  <2>1. l \in 1..Len(s.stack)
    BY <1>l
  <2> QED BY <1>2, <1>6, <2>1, SetTop
<1>8. PICK p \in Seq(FrameState) : p = Descend(e) /\ p # <<>>
  <2>1. e # <<>>
    <3>1. Len(e) # 0
      BY <1>l, <1>7 DEF Sets
    <3> QED BY <3>1
  <2> QED BY <2>1, Descent
<1>9. PICK q : q = [s EXCEPT !.stack = p]
  OBVIOUS
<1>10. Read(t, q)
  BY <1>4, <1>6, <1>7, <1>8, <1>9
<1>11. /\ q \in ThreadState /\ q.todo = s.todo /\ q.op = s.op /\ q.stack = p /\ q.raced = s.raced
       /\ q.esc = s.esc /\ q.family = s.family /\ q.subject = s.subject
  BY <1>1, <1>9 DEF ThreadState
<1>12. Aware(q)
  BY <1>1, <1>2, <1>8, <1>11 DEF Aware, Left
<1>13. Knows(s) => Knows(q)
  <2>1. ASSUME Stacked(s.stack) PROVE Stacked(p)
    <3>1. Frames(e) /\ Nested(e)
      BY <1>2, <1>l, <1>t, <1>5, <1>6, <1>7, <2>1, LookedStack
    <3> QED BY <1>8, <3>1, Descended
  <2> QED BY <1>2, <1>11, <2>1 DEF Knows
<1>14. Served(q)
  BY <1>1, <1>11, <1>12, <1>13 DEF Served
<1> QED BY <1>10, <1>11, <1>14 DEF Goes

-----------------------------------------------------------------------------
(* The statements that insert                                              *)

\* The row is inserted and the request is served on with the state q.
Done(t, row, q) ==
    /\ Inserts(row) /\ Write(t, q)
    /\ raced' = IF thread[t].raced THEN raced \cup {issued + 1} ELSE raced
    /\ crashes' = crashes /\ failures' = failures /\ untokened' = untokened

\* The row refers to what is there, is new unless the request raced, and the
\* subject of a family is followed by its token.
Puts(t, row, q) ==
    /\ Done(t, row, q) /\ q \in ThreadState /\ Served(q)' /\ Sound(row)
    /\ row.table \in {"AuthSubject", "AuthResourcePermission"} /\ ~thread[t].raced => \A k \in Live : rows[k] # row
    /\ At(t, "insertToken") => row.table = "AuthToken" /\ row.subject = thread[t].subject
    /\ row.table = "AuthSubject" /\ row.family # Null =>
          q.todo # <<>> /\ Head(q.todo) = "insertToken" /\ q.subject = issued + 1

LEMMA Inserting ==
    ASSUME NEW t, NEW row \in Row, NEW q, Insert(t, row, q), ~thread[t].raced => Insertable(row)
    PROVE  Fails(t) \/ (Done(t, row, Skip(q, 1)) /\ Refs(row) \subseteq Live)
BY DEF Insert, Fails, Done, Inserts, Insertable

\* What a request knows is changed by the insertion of rows of the table it asks.
LEMMA Views ==
    ASSUME Shapes, RowsSound, NEW row, Inserts(row), NEW s
    PROVE  /\ row.table # "JobFamily" => Families(s)' = Families(s)
           /\ row.table # "Job" => Jobs(s)' = Jobs(s)
           /\ row.table # "AuthSubject" => SubjectsOf(s)' = SubjectsOf(s)
           /\ row.table # "AuthResourcePermission" => (Granted(s)' <=> Granted(s))
           /\ Families(s) # {} => Families(s)' # {}
           /\ Owned(s) => Owned(s)'
           /\ Live \subseteq Live' /\ \A name : Table(name) \subseteq Table(name)'
<1>1. /\ \A name : Table(name) \subseteq Table(name)'
      /\ \A name : name # row.table => Table(name)' = Table(name)
      /\ Live' = Live \cup {issued + 1} /\ \A k \in Live : rows'[k] = rows[k]
  BY AfterInsert
<1>2. \A name : Table(name) \subseteq Live
  BY DEF Table
<1>3. /\ row.table # "JobFamily" => Families(s)' = Families(s)
      /\ row.table # "Job" => Jobs(s)' = Jobs(s)
      /\ row.table # "AuthSubject" => SubjectsOf(s)' = SubjectsOf(s)
  BY <1>1, <1>2 DEF Families, Jobs, SubjectsOf
<1>4. ASSUME row.table # "AuthResourcePermission" PROVE Granted(s)' <=> Granted(s)
  <2>1. ASSUME NEW k \in Table("AuthResourcePermission")
        PROVE  /\ rows'[k] = rows[k]
               /\ rows[k].job \in Live' <=> rows[k].job \in Live
               /\ rows[k].family \in Live' <=> rows[k].family \in Live
    <3>1. k \in Live /\ rows[k].table = "AuthResourcePermission" /\ Sound(rows[k])
      BY DEF Table, RowsSound
    <3>2. rows[k].job \in Live \cup {Null} /\ rows[k].family \in Live \cup {Null}
      BY <3>1, <1>2 DEF Sound
    <3>3. Null \notin Live' /\ Null \notin Live
      BY <1>1, NullIsNoId, AfterInsert DEF Live
    <3> QED BY <1>1, <3>1, <3>2, <3>3
  <2>2. Table("AuthResourcePermission")' = Table("AuthResourcePermission")
    BY <1>1, <1>4
  <2> QED BY <2>1, <2>2, <1>1 DEF Granted
<1>5. Families(s) # {} => Families(s)' # {}
  BY <1>1, <1>2 DEF Families
<1>6. Owned(s) => Owned(s)'
  BY <1>1 DEF Owned
<1> QED BY <1>1, <1>3, <1>4, <1>5, <1>6

LEMMA NewRow ==
    ASSUME Shapes, NEW row, Inserts(row), NEW n, n = issued + 1
    PROVE  /\ n \in Id /\ issued' = n /\ rows'[n] = row /\ Evolves
           /\ n # Null /\ Live' = Live \cup {n} /\ n <= n /\ n \notin Live
           /\ \A k \in Live : rows'[k] = rows[k]
           /\ Table(row.table)' = Table(row.table) \cup {n}
<1>1. Evolves
  BY Evolution
<1>2. issued' = n
  BY DEF Inserts
<1>3. /\ n \in Id /\ n \notin Live /\ Live' = Live \cup {n} /\ rows'[n] = row
      /\ \A k \in Live : rows'[k] = rows[k]
      /\ Table(row.table)' = Table(row.table) \cup {n}
  BY AfterInsert
<1>4. n # Null /\ n <= n
  BY <1>3, NullIsNoId
<1> QED BY <1>1, <1>2, <1>3, <1>4

LEMMA InsertFamilyPuts ==
    ASSUME Shapes, RowsSound, ThreadsServed, NEW t \in Thread, InsertFamily(t)
    PROVE  Fails(t) \/ \E row, q : Puts(t, row, q)
<1>s. PICK s : s = thread[t]
  OBVIOUS
<1>1. /\ At(t, "insertFamily") /\ s \in ThreadState /\ s.todo # <<>> /\ Suffix(s.todo, Program(s.op)) /\ Aware(s)
      /\ ~s.raced => Knows(s)
  BY <1>s, Begun DEF InsertFamily
<1>2. s.op = "deploy" /\ (Left(s) = 8 \/ Left(s) = 5)
  BY <1>s, <1>1, Places DEF At, Place
<1>3. PICK row : row = [table |-> "JobFamily", name |-> s.name]
  OBVIOUS
<1>4. row \in JobFamilyRow /\ row \in Row /\ row.table = "JobFamily" /\ row.name = s.name
  BY <1>1, <1>3 DEF ThreadState, JobFamilyRow, Row
<1>n. PICK n : n = issued + 1
  OBVIOUS
<1>5. PICK u : u = [s EXCEPT !.family = n]
  OBVIOUS
<1>6. Insert(t, row, u)
  BY <1>s, <1>n, <1>3, <1>5 DEF InsertFamily
<1>7. ~s.raced => Insertable(row)
  <2>1. Refs(row) = {}
    BY <1>4, RowRefs
  <2>2. Families(s) = {} => \A k \in Live : ~Clashes(rows[k], row)
    BY <1>4 DEF Families, Table, Clashes
  <2> QED BY <1>1, <1>2, <2>1, <2>2 DEF Knows, Insertable
<1>8. Fails(t) \/ Done(t, row, Skip(u, 1))
  BY <1>s, <1>4, <1>6, <1>7, Inserting
<1> SUFFICES ASSUME Done(t, row, Skip(u, 1)) PROVE \E q : Puts(t, row, q)
  BY <1>8
<1>9. /\ n \in Id /\ issued' = n /\ rows'[n] = row /\ Inserts(row) /\ Evolves
      /\ n # Null /\ Live' = Live \cup {n} /\ n <= n /\ Write(t, Skip(u, 1))
  BY <1>n, NewRow DEF Done
<1>10. /\ u \in ThreadState /\ u.todo = s.todo /\ u.op = s.op /\ u.name = s.name /\ u.version = s.version
       /\ u.subject = s.subject /\ u.esc = s.esc /\ u.raced = s.raced /\ u.family = n
  <2>1. n \in Ref
    BY <1>9 DEF Ref
  <2> QED BY <1>1, <1>5, <2>1 DEF ThreadState
<1>11. Left(u) = Left(s) /\ 1 < Left(u) /\ Suffix(u.todo, Program(u.op))
  <2>1. Left(u) = Left(s)
    BY <1>10 DEF Left
  <2>2. Suffix(u.todo, Program(u.op))
    BY <1>1, <1>10
  <2> QED BY <1>2, <2>1, <2>2
<1>12. PICK q \in ThreadState : /\ q = Skip(u, 1) /\ Left(q) = Left(s) - 1 /\ Suffix(q.todo, Program(q.op))
                                /\ SameBut(q, u)
  BY <1>10, <1>11, Onward
<1>13. /\ q.op = "deploy" /\ q.name = s.name /\ q.version = s.version /\ q.subject = s.subject
       /\ q.esc = s.esc /\ q.family = n /\ q.raced = s.raced
  BY <1>2, <1>10, <1>12 DEF SameBut
<1>14. Aware(q)'
  <2>1. Aware(s)'
    BY <1>1, <1>9, AwareStays
  <2>2. Kind(q.family, "JobFamily")' /\ rows'[q.family].name = q.name
    BY <1>4, <1>9, <1>13 DEF Kind
  <2>3. Left(q) = 7 \/ Left(q) = 4
    BY <1>2, <1>12
  <2> QED BY <1>2, <1>9, <1>13, <2>1, <2>2, <2>3 DEF Aware
<1>15. Knows(s) => Knows(q)'
  <2>1. Jobs(q)' = Jobs(s)
    <3>1. Jobs(q)' = Jobs(q)
      BY <1>4, <1>9, Views
    <3> QED BY <3>1, <1>13 DEF Jobs
  <2>2. Table("AuthSubject") \subseteq Table("AuthSubject")'
    BY <1>9, Views
  <2>3. (Left(q) = 7 \/ Left(q) = 4) /\ q.family \in Live'
    BY <1>2, <1>9, <1>12, <1>13
  <2> QED BY <1>2, <1>12, <1>13, <2>1, <2>2, <2>3 DEF Knows
<1>16. Served(q)'
  BY <1>1, <1>12, <1>13, <1>14, <1>15 DEF Served, Suffix, Agree, Program
<1>17. Sound(row) /\ ~At(t, "insertToken")
  BY <1>1, <1>4 DEF Sound, At
<1> QED BY <1>4, <1>12, <1>16, <1>17 DEF Puts

LEMMA InsertJobPuts ==
    ASSUME Shapes, RowsSound, ThreadsServed, NEW t \in Thread, InsertJob(t)
    PROVE  Fails(t) \/ \E row, q : Puts(t, row, q)
<1>s. PICK s : s = thread[t]
  OBVIOUS
<1>1. /\ At(t, "insertJob") /\ s \in ThreadState /\ s.todo # <<>> /\ Suffix(s.todo, Program(s.op)) /\ Aware(s)
      /\ ~s.raced => Knows(s)
  BY <1>s, Begun DEF InsertJob
<1>2. s.op = "deploy" /\ Left(s) = 4
  BY <1>s, <1>1, Places DEF At, Place
<1>3. /\ s.family # Null /\ Kind(s.family, "JobFamily") /\ s.version # Null
      /\ s.family \in Live => rows[s.family].name = s.name
  BY <1>1, <1>2 DEF Aware
<1>4. PICK row : row = [table |-> "Job", family |-> s.family, name |-> s.name, version |-> s.version]
  OBVIOUS
<1>5. /\ row \in JobRow /\ row.table = "Job" /\ row.family = s.family /\ row.name = s.name /\ row.version = s.version
      /\ row \in Row
  <2>1. s.family \in Id /\ s.version \in Release /\ s.name \in Name
    BY <1>1, <1>3 DEF ThreadState, Ref
  <2> QED BY <1>4, <2>1 DEF JobRow, Row
<1>6. Insert(t, row, s)
  BY <1>s, <1>4 DEF InsertJob
<1>7. Refs(row) = {s.family}
  BY <1>5, RowRefs
<1>8. ~s.raced => Insertable(row)
  <2>1. Jobs(s) = {} => \A k \in Live : ~Clashes(rows[k], row)
    BY <1>5 DEF Jobs, Table, Clashes
  <2> QED BY <1>1, <1>2, <1>7, <2>1 DEF Knows, Insertable
<1>9. Fails(t) \/ (Done(t, row, Skip(s, 1)) /\ Refs(row) \subseteq Live)
  BY <1>s, <1>5, <1>6, <1>8, Inserting
<1> SUFFICES ASSUME Done(t, row, Skip(s, 1)), Refs(row) \subseteq Live PROVE \E q : Puts(t, row, q)
  BY <1>9
<1>n. PICK n : n = issued + 1
  OBVIOUS
<1>10. Inserts(row)
  BY DEF Done
<1>11. rows'[n] = row /\ Evolves /\ Live' = Live \cup {n} /\ Table("Job")' = Table("Job") \cup {n}
  BY <1>n, <1>5, <1>10, NewRow
<1>12. PICK q \in ThreadState : /\ q = Skip(s, 1) /\ Left(q) = 3 /\ Suffix(q.todo, Program(q.op)) /\ SameBut(q, s)
  BY <1>1, <1>2, Onward
<1>13. /\ q.op = "deploy" /\ q.name = s.name /\ q.version = s.version /\ q.subject = s.subject
       /\ q.esc = s.esc /\ q.family = s.family /\ q.raced = s.raced
  BY <1>2, <1>12 DEF SameBut
<1>14. Aware(q)'
  <2>1. Aware(s)'
    BY <1>1, <1>11, AwareStays
  <2> QED BY <1>2, <1>12, <1>13, <2>1 DEF Aware
<1>15. Knows(s) => Knows(q)'
  <2>1. Jobs(q)' # {}
    <3>1. n \in Table("Job")' /\ rows'[n].name = q.name /\ rows'[n].version = q.version
      BY <1>5, <1>11, <1>13
    <3> QED BY <3>1 DEF Jobs
  <2>2. Table("AuthSubject") \subseteq Table("AuthSubject")' /\ Live \subseteq Live'
    BY <1>10, Views
  <2> QED BY <1>2, <1>12, <1>13, <2>1, <2>2 DEF Knows
<1>16. Served(q)'
  BY <1>1, <1>12, <1>13, <1>14, <1>15 DEF Served, Suffix, Agree, Program
<1>17. Sound(row) /\ ~At(t, "insertToken")
  <2>1. s.family \in Table("JobFamily") /\ rows[s.family].name = s.name
    BY <1>3, <1>7 DEF Kind, Table
  <2> QED BY <1>1, <1>5, <2>1 DEF Sound, At
<1> QED BY <1>5, <1>12, <1>16, <1>17 DEF Puts

LEMMA InsertEscPuts ==
    ASSUME Shapes, RowsSound, ThreadsServed, NEW t \in Thread, InsertEsc(t)
    PROVE  Fails(t) \/ \E row, q : Puts(t, row, q)
<1>s. PICK s : s = thread[t]
  OBVIOUS
<1>1. /\ At(t, "insertEsc") /\ s \in ThreadState /\ s.todo # <<>> /\ Suffix(s.todo, Program(s.op)) /\ Aware(s)
      /\ ~s.raced => Knows(s)
  BY <1>s, Begun DEF InsertEsc
<1>2. s.op = "esc" /\ Left(s) = 5
  BY <1>s, <1>1, Places DEF At, Place
<1>3. PICK row : row = [table |-> "Esc"]
  OBVIOUS
<1>4. row \in EscRow /\ row \in Row /\ row.table = "Esc"
  BY <1>3 DEF EscRow, Row
<1>n. PICK n : n = issued + 1
  OBVIOUS
<1>5. PICK u : u = [s EXCEPT !.esc = n]
  OBVIOUS
<1>6. Insert(t, row, u)
  BY <1>s, <1>n, <1>3, <1>5 DEF InsertEsc
<1>7. Insertable(row)
  <2>1. Refs(row) = {}
    BY <1>4, RowRefs
  <2> QED BY <1>4, <2>1 DEF Insertable, Clashes
<1>8. Fails(t) \/ Done(t, row, Skip(u, 1))
  BY <1>4, <1>6, <1>7, Inserting
<1> SUFFICES ASSUME Done(t, row, Skip(u, 1)) PROVE \E q : Puts(t, row, q)
  BY <1>8
<1>9. Inserts(row)
  BY DEF Done
<1>10. /\ n \in Id /\ issued' = n /\ rows'[n] = row /\ Evolves
       /\ n # Null /\ Live' = Live \cup {n} /\ n <= n /\ Table("Esc")' = Table("Esc") \cup {n}
  BY <1>n, <1>4, <1>9, NewRow
<1>11. /\ u \in ThreadState /\ u.todo = s.todo /\ u.op = s.op /\ u.name = s.name /\ u.version = s.version
       /\ u.subject = s.subject /\ u.family = s.family /\ u.raced = s.raced /\ u.esc = n
  <2>1. n \in Ref
    BY <1>10 DEF Ref
  <2> QED BY <1>1, <1>5, <2>1 DEF ThreadState
<1>12. Left(u) = 5 /\ Suffix(u.todo, Program(u.op))
  <2>1. Left(u) = Left(s)
    BY <1>11 DEF Left
  <2>2. Suffix(u.todo, Program(u.op))
    BY <1>1, <1>11
  <2> QED BY <1>2, <2>1, <2>2
<1>13. PICK q \in ThreadState : /\ q = Skip(u, 1) /\ Left(q) = 4 /\ Suffix(q.todo, Program(q.op)) /\ SameBut(q, u)
  BY <1>11, <1>12, Onward
<1>14. /\ q.op = "esc" /\ q.subject = s.subject /\ q.family = s.family /\ q.esc = n /\ q.raced = s.raced
  BY <1>2, <1>11, <1>13 DEF SameBut
<1>15. Aware(q)'
  <2>1. Aware(s)'
    BY <1>1, <1>10, AwareStays
  <2>2. Kind(q.esc, "Esc")'
    BY <1>4, <1>10, <1>14 DEF Kind
  <2> QED BY <1>13, <1>14, <2>1, <2>2 DEF Aware
<1>16. Knows(s) => Knows(q)'
  <2>1. Owned(s) => Owned(s)'
    BY <1>9, Views
  <2>2. Owned(s)' => Owned(q)'
    BY <1>10, <1>14 DEF Owned
  <2> QED BY <1>2, <1>13, <1>14, <2>1, <2>2 DEF Knows
<1>17. Served(q)'
  BY <1>1, <1>13, <1>14, <1>15, <1>16 DEF Served, Suffix, Agree, Program
<1>18. Sound(row) /\ ~At(t, "insertToken")
  BY <1>1, <1>4 DEF Sound, At
<1> QED BY <1>4, <1>13, <1>17, <1>18 DEF Puts

LEMMA InsertTokenPuts ==
    ASSUME Shapes, RowsSound, ThreadsServed, NEW t \in Thread, InsertToken(t)
    PROVE  Fails(t) \/ \E row, q : Puts(t, row, q)
<1>s. PICK s : s = thread[t]
  OBVIOUS
<1>1. /\ At(t, "insertToken") /\ s \in ThreadState /\ s.todo # <<>> /\ Suffix(s.todo, Program(s.op)) /\ Aware(s)
      /\ ~s.raced => Knows(s)
  BY <1>s, Begun DEF InsertToken
<1>2. \/ Place(s, "allow", 4) \/ Place(s, "token", 3) \/ Place(s, "token", 1)
      \/ Place(s, "esc", 2) \/ Place(s, "esc", 1)
  BY <1>s, <1>1, Places DEF At
<1>3. s.subject # Null /\ Kind(s.subject, "AuthSubject")
  BY <1>1, <1>2 DEF Aware, Place
<1>4. PICK row : row = [table |-> "AuthToken", subject |-> s.subject, token |-> FALSE]
  OBVIOUS
<1>5. row \in AuthTokenRow /\ row \in Row /\ row.table = "AuthToken" /\ row.subject = s.subject
  <2>1. s.subject \in Id
    BY <1>3 DEF Kind
  <2> QED BY <1>4, <2>1 DEF AuthTokenRow, Row
<1>6. Insert(t, row, s)
  BY <1>s, <1>4 DEF InsertToken
<1>7. Refs(row) = {s.subject}
  BY <1>5, RowRefs
<1>8. ~s.raced => Insertable(row)
  <2>1. \A k \in Live : ~Clashes(rows[k], row)
    BY <1>5 DEF Clashes
  <2>2. Knows(s) => s.subject \in Live
    BY <1>2 DEF Knows, Place
  <2> QED BY <1>1, <1>7, <2>1, <2>2 DEF Insertable
<1>9. Fails(t) \/ (Done(t, row, Skip(s, 1)) /\ Refs(row) \subseteq Live)
  BY <1>s, <1>5, <1>6, <1>8, Inserting
<1> SUFFICES ASSUME Done(t, row, Skip(s, 1)), Refs(row) \subseteq Live PROVE \E q : Puts(t, row, q)
  BY <1>9
<1>10. Inserts(row) /\ Evolves
  <2>1. Inserts(row)
    BY DEF Done
  <2>2. Evolves
    BY <2>1, Evolution
  <2> QED BY <2>1, <2>2
<1>11. Sound(row)
  <2>1. s.subject \in Table("AuthSubject")
    BY <1>3, <1>7 DEF Kind, Table
  <2> QED BY <1>5, <2>1 DEF Sound
<1>12. CASE Left(s) = 1
  <2>1. Skip(s, 1) = Idle
    BY <1>12, Finished
  <2>2. Served(Idle)'
    BY IdleTyped DEF Served
  <2> QED BY <1>s, <1>5, <1>11, <2>1, <2>2, IdleTyped DEF Puts
<1>13. CASE Left(s) # 1
  <2>1. 1 < Left(s) /\ Left(s) \in Int
    BY <1>2, <1>13 DEF Place
  <2>2. PICK q \in ThreadState : /\ q = Skip(s, 1) /\ Left(q) = Left(s) - 1 /\ Suffix(q.todo, Program(q.op))
                                 /\ SameBut(q, s)
    BY <1>1, <2>1, Onward
  <2>3. /\ q.op = s.op /\ q.name = s.name /\ q.version = s.version /\ q.subject = s.subject
        /\ q.esc = s.esc /\ q.family = s.family /\ q.raced = s.raced
    BY <2>2 DEF SameBut
  <2>4. Aware(q)'
    <3>1. Aware(s)'
      BY <1>1, <1>10, AwareStays
    <3> QED BY <1>2, <1>3, <1>13, <2>2, <2>3, <3>1 DEF Aware, Place
  <2>5. Knows(s) => Knows(q)'
    <3>1. Live \subseteq Live' /\ (Owned(s) => Owned(s)') /\ (Families(s) # {} => Families(s)' # {})
      BY <1>10, Views
    <3>2. (Owned(s)' => Owned(q)') /\ Families(s)' = Families(q)'
      BY <2>3 DEF Owned, Families
    <3> QED BY <1>2, <1>13, <2>2, <2>3, <3>1, <3>2 DEF Knows, Place
  <2>6. Served(q)'
    BY <1>1, <2>2, <2>3, <2>4, <2>5 DEF Served, Suffix, Agree, Program
  <2> QED BY <1>s, <1>5, <1>11, <2>2, <2>6 DEF Puts
<1> QED BY <1>12, <1>13

LEMMA InsertPermissionPuts ==
    ASSUME Shapes, RowsSound, ThreadsServed, NEW t \in Thread, InsertPermission(t)
    PROVE  Fails(t) \/ \E row, q : Puts(t, row, q)
<1>s. PICK s : s = thread[t]
  OBVIOUS
<1>1. /\ At(t, "insertPermission") /\ s \in ThreadState /\ s.todo # <<>> /\ Suffix(s.todo, Program(s.op)) /\ Aware(s)
      /\ ~s.raced => Knows(s)
  BY <1>s, Begun DEF InsertPermission
<1>2. Left(s) = 1 /\ (s.op = "deploy" \/ s.op = "allow")
  BY <1>s, <1>1, Places DEF At, Place
<1>3. /\ s.subject # Null /\ Kind(s.subject, "AuthSubject")
      /\ s.op = "deploy" => s.version # Null /\ Kind(s.job, "Job")
      /\ s.op = "allow" => s.version = Null /\ Kind(s.job, "JobFamily")
  BY <1>1, <1>2 DEF Aware
<1>f. PICK f : f = IF s.version # Null THEN Null ELSE s.job
  OBVIOUS
<1>j. PICK j : j = IF s.version # Null THEN s.job ELSE Null
  OBVIOUS
<1>4. PICK row : row = [table |-> "AuthResourcePermission", subject |-> s.subject, scope |-> s.scope,
                        family |-> f, job |-> j]
  OBVIOUS
<1>5. /\ s.subject \in Id /\ s.job \in Id /\ f \in Ref /\ j \in Ref
      /\ s.op = "deploy" => f = Null /\ j = s.job
      /\ s.op = "allow" => f = s.job /\ j = Null
  BY <1>2, <1>3, <1>f, <1>j DEF Kind, Ref
<1>6. /\ row \in AuthResourcePermissionRow /\ row.table = "AuthResourcePermission" /\ row.subject = s.subject
      /\ row.scope = s.scope /\ row.family = f /\ row.job = j
  <2>1. s.scope \in Scope
    BY <1>1 DEF ThreadState
  <2> QED BY <1>4, <1>5, <2>1 DEF AuthResourcePermissionRow
<1>7. row \in Row
  BY <1>6 DEF Row
<1>8. Insert(t, row, s)
  BY <1>s, <1>f, <1>j, <1>4 DEF InsertPermission
<1>9. Refs(row) = {s.subject, s.job}
  <2>1. Refs(row) = {s.subject, f, j} \ {Null}
    BY <1>6, <1>7, RowRefs
  <2> QED BY <2>1, <1>2, <1>3, <1>5, NullIsNoId
<1>10. Knows(s) => s.subject \in Live /\ s.job \in Live /\ ~Granted(s)
  <2>1. Table("AuthSubject") \subseteq Live /\ Jobs(s) \subseteq Live /\ Families(s) \subseteq Live
    BY DEF Table, Jobs, Families
  <2> QED BY <1>2, <2>1 DEF Knows
<1>11. ~s.raced => Insertable(row)
  <2>1. \A k \in Live : ~Clashes(rows[k], row)
    BY <1>6 DEF Clashes
  <2> QED BY <1>1, <1>9, <1>10, <2>1 DEF Insertable
<1>12. Fails(t) \/ (Done(t, row, Skip(s, 1)) /\ Refs(row) \subseteq Live)
  BY <1>s, <1>7, <1>8, <1>11, Inserting
<1> SUFFICES ASSUME Done(t, row, Skip(s, 1)), Refs(row) \subseteq Live PROVE \E q : Puts(t, row, q)
  BY <1>12
<1>13. Sound(row)
  <2>1. /\ s.subject \in Table("AuthSubject")
        /\ s.op = "deploy" => s.job \in Table("Job")
        /\ s.op = "allow" => s.job \in Table("JobFamily")
    BY <1>3, <1>9 DEF Kind, Table
  <2> QED BY <1>2, <1>5, <1>6, <2>1 DEF Sound
\* A row like it would have been found by permission_exists.
<1>14. ASSUME ~s.raced, NEW k \in Live, rows[k] = row PROVE FALSE
  <2>1. k \in Table("AuthResourcePermission")
    BY <1>6, <1>14 DEF Table
  <2>2. Knows(s) /\ ~Granted(s)
    BY <1>1, <1>10, <1>14
  <2>3. CASE s.op = "deploy"
    <3>1. s.job \in Live /\ rows[s.job].name = s.name /\ rows[s.job].version = s.version
      BY <1>2, <2>2, <2>3 DEF Knows, Jobs, Table
    <3> QED BY <1>3, <1>5, <1>6, <1>14, <2>1, <2>2, <2>3, <3>1 DEF Granted
  <2>4. CASE s.op = "allow"
    <3>1. s.job \in Live /\ rows[s.job].name = s.name
      BY <1>2, <2>2, <2>4 DEF Knows, Families, Table
    <3> QED BY <1>3, <1>5, <1>6, <1>14, <2>1, <2>2, <2>4, <3>1 DEF Granted
  <2> QED BY <1>2, <2>3, <2>4
<1>15. Skip(s, 1) = Idle
  BY <1>2, Finished
<1>16. Served(Idle)'
  BY IdleTyped DEF Served
<1>17. ~At(t, "insertToken")
  BY <1>1 DEF At
<1> QED BY <1>s, <1>6, <1>13, <1>14, <1>15, <1>16, <1>17, IdleTyped DEF Puts

LEMMA InsertSubjectPuts ==
    ASSUME Shapes, RowsSound, ThreadsServed, NEW t \in Thread, InsertSubject(t)
    PROVE  Fails(t) \/ \E row, q : Puts(t, row, q)
<1>s. PICK s : s = thread[t]
  OBVIOUS
<1>1. /\ At(t, "insertSubject") /\ s \in ThreadState /\ s.todo # <<>> /\ Suffix(s.todo, Program(s.op)) /\ Aware(s)
      /\ ~s.raced => Knows(s)
  BY <1>s, Begun DEF InsertSubject
<1>2. Place(s, "allow", 5) \/ Place(s, "token", 4) \/ Place(s, "esc", 3)
  BY <1>s, <1>1, Places DEF At
<1>3. PICK row : row = [table |-> "AuthSubject", esc |-> s.esc, family |-> s.family]
  OBVIOUS
<1>4. /\ row \in AuthSubjectRow /\ row.table = "AuthSubject" /\ row.esc = s.esc /\ row.family = s.family
      /\ s.esc \in Id \cup {Null} /\ s.family \in Id \cup {Null}
  BY <1>1, <1>3 DEF ThreadState, AuthSubjectRow, Ref
<1>5. row \in Row
  BY <1>4 DEF Row
<1>6. Refs(row) = {s.esc, s.family} \ {Null}
  BY <1>4, <1>5, RowRefs
<1>k. PICK kept : kept = IF s.family = Null THEN Skip(s, 1) ELSE s
  OBVIOUS
<1>n. PICK n : n = issued + 1
  OBVIOUS
<1>u. PICK u : u = [kept EXCEPT !.subject = n]
  OBVIOUS
<1>7. Insert(t, row, u)
  BY <1>s, <1>n, <1>3, <1>k, <1>u DEF InsertSubject
<1>8. ~s.raced => Insertable(row)
  <2>1. \A k \in Live : ~Clashes(rows[k], row)
    BY <1>4 DEF Clashes
  <2>2. Owned(s) => Refs(row) \subseteq Live
    BY <1>6 DEF Owned, Table
  <2> QED BY <1>1, <1>2, <2>1, <2>2 DEF Knows, Insertable, Place
<1>9. Fails(t) \/ (Done(t, row, Skip(u, 1)) /\ Refs(row) \subseteq Live)
  BY <1>s, <1>5, <1>7, <1>8, Inserting
<1> SUFFICES ASSUME Done(t, row, Skip(u, 1)), Refs(row) \subseteq Live PROVE \E q : Puts(t, row, q)
  BY <1>9
<1>10. Inserts(row)
  BY DEF Done
<1>11. /\ n \in Id /\ issued' = n /\ rows'[n] = row /\ Evolves /\ n # Null /\ Live' = Live \cup {n} /\ n <= n
       /\ Table("AuthSubject")' = Table("AuthSubject") \cup {n}
  BY <1>n, <1>4, <1>10, NewRow
<1>12. Sound(row)
  <2>1. s.esc # Null => s.esc \in Table("Esc")
    BY <1>1, <1>6 DEF Aware, Kind, Table
  <2>2. s.family # Null => s.family \in Table("JobFamily")
    BY <1>1, <1>6 DEF Aware, Kind, Table
  <2> QED BY <1>4, <2>1, <2>2 DEF Sound
<1>13. PICK m : m = IF s.family = Null THEN 1 ELSE 0
  OBVIOUS
<1>14. /\ kept \in ThreadState /\ Left(kept) = Left(s) - m /\ Suffix(kept.todo, Program(kept.op)) /\ SameBut(kept, s)
       /\ m = 0 => kept = s
       /\ m \in {0, 1}
  <2>1. CASE s.family = Null
    <3>1. 1 < Left(s)
      BY <1>2 DEF Place
    <3> QED BY <1>1, <1>k, <1>13, <2>1, <3>1, Onward
  <2>2. CASE s.family # Null
    <3>1. kept = s /\ m = 0
      BY <1>k, <1>13, <2>2
    <3>2. SameBut(s, s)
      BY DEF SameBut
    <3>3. Left(s) - 0 = Left(s)
      BY <1>2 DEF Place
    <3> QED BY <1>1, <3>1, <3>2, <3>3
  <2> QED BY <2>1, <2>2
<1>15. /\ u \in ThreadState /\ u.todo = kept.todo /\ u.op = s.op /\ u.name = s.name /\ u.version = s.version
       /\ u.scope = s.scope /\ u.esc = s.esc /\ u.family = s.family /\ u.raced = s.raced /\ u.subject = n
  <2>1. n \in Ref
    BY <1>11 DEF Ref
  <2> QED BY <1>14, <1>u, <2>1 DEF ThreadState, SameBut
<1>16. /\ Left(u) = Left(s) - m /\ Suffix(u.todo, Program(u.op)) /\ 1 < Left(u)
  <2>1. Left(u) = Left(kept)
    BY <1>15 DEF Left
  <2>2. kept.op = s.op
    BY <1>14 DEF SameBut
  <2>3. Suffix(u.todo, Program(u.op))
    BY <1>14, <1>15, <2>2
  <2>4. 1 < Left(s) - m
    BY <1>2, <1>14 DEF Place
  <2> QED BY <1>14, <2>1, <2>3, <2>4
<1>17. PICK q \in ThreadState : /\ q = Skip(u, 1) /\ Left(q) = Left(u) - 1 /\ q.todo # <<>>
                                /\ Suffix(q.todo, Program(q.op)) /\ SameBut(q, u) /\ Head(q.todo) = u.todo[2]
  <2>1. 1 \in Nat \ {0} /\ 1 + 1 = 2
    OBVIOUS
  <2> QED BY <1>15, <1>16, <2>1, Onward
<1>18. /\ q.op = s.op /\ q.name = s.name /\ q.version = s.version /\ q.subject = n /\ q.scope = s.scope
       /\ q.esc = s.esc /\ q.family = s.family /\ q.raced = s.raced
  BY <1>15, <1>17 DEF SameBut
<1>19. \/ s.op = "allow" /\ (Left(q) = 4 \/ Left(q) = 3)
       \/ s.op = "token" /\ (Left(q) = 3 \/ Left(q) = 2)
       \/ s.op = "esc" /\ (Left(q) = 2 \/ Left(q) = 1)
  BY <1>2, <1>14, <1>16, <1>17 DEF Place
<1>20. Aware(q)'
  <2>1. Aware(s)'
    BY <1>1, <1>11, AwareStays
  <2>2. Kind(q.subject, "AuthSubject")'
    BY <1>4, <1>11, <1>18 DEF Kind
  <2>3. s.op = "allow" => s.version = Null
    BY <1>1 DEF Aware
  <2> QED BY <1>11, <1>18, <1>19, <2>1, <2>2, <2>3 DEF Aware
<1>21. Knows(s) => Knows(q)'
  <2>1. (Owned(s) => Owned(s)') /\ (Families(s) # {} => Families(s)' # {})
    BY <1>10, Views
  <2>2. (Owned(s)' => Owned(q)') /\ Families(s)' = Families(q)'
    BY <1>18 DEF Owned, Families
  <2>3. q.subject \in Live'
    BY <1>11, <1>18
  <2> QED BY <1>2, <1>18, <1>19, <2>1, <2>2, <2>3 DEF Knows, Place
<1>22. Served(q)'
  BY <1>1, <1>17, <1>18, <1>20, <1>21 DEF Served, Suffix, Agree, Program
\* A subject like it would have been found.
<1>23. ASSUME ~s.raced, NEW k \in Live, rows[k] = row PROVE FALSE
  <2>1. k \in SubjectsOf(s)
    BY <1>4, <1>23 DEF SubjectsOf, Table
  <2> QED BY <1>1, <1>2, <1>23, <2>1 DEF Knows, Place
<1>24. s.family # Null => Head(q.todo) = "insertToken"
  <2>1. ASSUME s.family # Null PROVE u.todo[2] = "insertToken"
    <3>1. u.todo = s.todo
      BY <1>13, <1>14, <1>15, <2>1
    <3>2. Left(s) \in {3, 4, 5} /\ s.op \in {"allow", "token", "esc"}
      BY <1>2 DEF Place
    <3>3. Agree(s.todo, Left(s), Program(s.op), Len(Program(s.op)))
      BY <1>1, Zenon DEF Suffix, Left
    <3>4. PICK a, c : a = Left(s) /\ c = Len(Program(s.op))
      OBVIOUS
    <3>5. c \in Nat /\ a \in {3, 4, 5} /\ \A i \in 1..a : s.todo[i] = Program(s.op)[c - a + i]
      BY <3>2, <3>3, <3>4, Programs DEF Agree
    <3>6. 2 \in 1..a
      BY <3>5
    <3>7. s.todo[2] = Program(s.op)[c - a + 2]
      BY <3>5, <3>6
    <3>8. CASE Place(s, "allow", 5)
      <4>1. a = 5 /\ c = 6 /\ c - a + 2 = 3 /\ s.op = "allow"
        BY <3>4, <3>8, Programs DEF Place
      <4> QED BY <3>1, <3>7, <4>1, Programs
    <3>9. CASE Place(s, "token", 4)
      <4>1. a = 4 /\ c = 5 /\ c - a + 2 = 3 /\ s.op = "token"
        BY <3>4, <3>9, Programs DEF Place
      <4> QED BY <3>1, <3>7, <4>1, Programs
    <3>10. CASE Place(s, "esc", 3)
      <4>1. a = 3 /\ c = 5 /\ c - a + 2 = 4 /\ s.op = "esc"
        BY <3>4, <3>10, Programs DEF Place
      <4> QED BY <3>1, <3>7, <4>1, Programs
    <3> QED BY <1>2, <3>8, <3>9, <3>10
  <2> QED BY <1>17, <2>1
<1>25. ~At(t, "insertToken")
  BY <1>1 DEF At
<1> QED BY <1>s, <1>n, <1>4, <1>12, <1>17, <1>18, <1>22, <1>23, <1>24, <1>25 DEF Puts

-----------------------------------------------------------------------------
(* The statements that delete or update                                    *)

LEMMA DescendedNext ==
    \A q \in Seq(FrameState) : Frames(q)' /\ Nested(q)' => Stacked(Descend(q))'
<1>1. (\A q \in Seq(FrameState) : Frames(q) /\ Nested(q) => Stacked(Descend(q)))'
  BY Descended, PTL
<1> QED BY <1>1 DEF Descend, Top, Frame, Dependants

\* Whatever refers to a record is found in one of the columns that are followed.
LEMMA Referrers ==
    ASSUME Shapes, RowsSound, NEW k, NEW j \in Live, k \in Refs(rows[j])
    PROVE  k \in Live /\ \E n \in Dependants(rows[k].table) : j \in Referring(n, k)
<1>r. PICK r \in Row : r = rows[j]
  BY LiveRows
<1>1. Sound(r) /\ k \in Refs(r) /\ k # Null /\ r.table \in Tables
  BY <1>r, RowTypes DEF RowsSound, Refs
<1>2. \A name : Table(name) \subseteq Live /\ \A i \in Table(name) : rows[i].table = name
  BY DEF Table
<1>3. \A n \in 1..7 : j \in Referring(n, k) <=>
                         r.table = OnDeleteCascade[n].table /\ r[OnDeleteCascade[n].column] = k
  BY <1>r DEF Referring, Table
<1>4. \A name : \A n \in 1..7 : n \in Dependants(name) <=> OnDeleteCascade[n].origin = name
  BY Schema DEF Dependants
<1>5. CASE r.table = "Job"
  <2>1. r.family = k /\ k \in Table("JobFamily")
    BY <1>1, <1>5, RowRefs DEF Sound
  <2>2. 1 \in Dependants(rows[k].table) /\ j \in Referring(1, k)
    BY <1>2, <1>3, <1>4, <1>5, <2>1, Schema
  <2> QED BY <1>2, <2>1, <2>2
<1>6. CASE r.table = "AuthSubject"
  <2>1. (r.esc = k /\ k \in Table("Esc")) \/ (r.family = k /\ k \in Table("JobFamily"))
    BY <1>1, <1>6, RowRefs DEF Sound
  <2>2. CASE r.esc = k /\ k \in Table("Esc")
    <3>1. 2 \in Dependants(rows[k].table) /\ j \in Referring(2, k)
      BY <1>2, <1>3, <1>4, <1>6, <2>2, Schema
    <3> QED BY <1>2, <2>2, <3>1
  <2>3. CASE r.family = k /\ k \in Table("JobFamily")
    <3>1. 3 \in Dependants(rows[k].table) /\ j \in Referring(3, k)
      BY <1>2, <1>3, <1>4, <1>6, <2>3, Schema
    <3> QED BY <1>2, <2>3, <3>1
  <2> QED BY <2>1, <2>2, <2>3
<1>7. CASE r.table = "AuthToken"
  <2>1. r.subject = k /\ k \in Table("AuthSubject")
    BY <1>1, <1>7, RowRefs DEF Sound
  <2>2. 4 \in Dependants(rows[k].table) /\ j \in Referring(4, k)
    BY <1>2, <1>3, <1>4, <1>7, <2>1, Schema
  <2> QED BY <1>2, <2>1, <2>2
<1>8. CASE r.table = "AuthResourcePermission"
  <2>1. \/ r.subject = k /\ k \in Table("AuthSubject")
        \/ r.family = k /\ k \in Table("JobFamily")
        \/ r.job = k /\ k \in Table("Job")
    BY <1>1, <1>8, RowRefs DEF Sound
  <2>2. CASE r.subject = k /\ k \in Table("AuthSubject")
    <3>1. 5 \in Dependants(rows[k].table) /\ j \in Referring(5, k)
      BY <1>2, <1>3, <1>4, <1>8, <2>2, Schema
    <3> QED BY <1>2, <2>2, <3>1
  <2>3. CASE r.family = k /\ k \in Table("JobFamily")
    <3>1. 6 \in Dependants(rows[k].table) /\ j \in Referring(6, k)
      BY <1>2, <1>3, <1>4, <1>8, <2>3, Schema
    <3> QED BY <1>2, <2>3, <3>1
  <2>4. CASE r.job = k /\ k \in Table("Job")
    <3>1. 7 \in Dependants(rows[k].table) /\ j \in Referring(7, k)
      BY <1>2, <1>3, <1>4, <1>8, <2>4, Schema
    <3> QED BY <1>2, <2>4, <3>1
  <2> QED BY <2>1, <2>2, <2>3, <2>4
<1>9. CASE r.table \in {"JobFamily", "Esc"}
  BY <1>1, <1>9, RowRefs
<1> QED BY <1>1, <1>5, <1>6, <1>7, <1>8, <1>9 DEF Tables

\* r is q without its last frame.
Pops(q, r) == Len(r) = Len(q) - 1 /\ \A i \in 1..Len(q) - 1 : r[i] = q[i]

LEMMA Popped ==
    ASSUME NEW q \in Seq(FrameState), q # <<>>
    PROVE  \E r \in Seq(FrameState) : r = SubSeq(q, 1, Len(q) - 1) /\ Pops(q, r)
<1>n. PICK n \in Nat : n = Len(q) - 1
  <2>1. Len(q) \in Nat /\ Len(q) # 0
    OBVIOUS
  <2> QED BY <2>1
<1>1. n <= Len(q)
  BY <1>n
<1>2. SubSeq(q, 1, n) \in Seq(FrameState) /\ Len(SubSeq(q, 1, n)) = n /\ \A i \in 1..n : SubSeq(q, 1, n)[i] = q[i]
  BY <1>1, SMT
<1> QED BY <1>n, <1>2, Zenon DEF Pops

LEMMA PoppedStack ==
    ASSUME Shapes, NEW q \in Seq(FrameState), q # <<>>, Stacked(q), Deletes(q[Len(q)].id),
           NEW r \in Seq(FrameState), Pops(q, r)
    PROVE  Frames(r)' /\ Nested(r)'
<1>l. PICK l \in Nat \ {0} : l = Len(q)
  OBVIOUS
<1>k. PICK k : k = q[l].id
  OBVIOUS
<1>1. Len(r) = l - 1 /\ \A i \in 1..l - 1 : r[i] = q[i]
  BY <1>l DEF Pops
<1>2. /\ Live' = Live \ {k} /\ \A j \in Live' : rows'[j] = rows[j]
      /\ \A name : Table(name)' = Table(name) \ {k}
  BY <1>l, <1>k, AfterDelete
<1>3. /\ \A i \in 1..l : FrameOK(q[i]) /\ Followed(q[i], IF i < l THEN {q[i + 1].id} ELSE {})
      /\ \A i \in 1..l : i < l => Of(q[i + 1]) = q[i].of
      /\ \A i, j \in 1..l : i < j => Rank(Of(q[j])) < Rank(Of(q[i])) /\ q[j].id \notin q[i].found
  BY <1>l DEF Stacked, Frames, Nested
<1>4. \A i \in 1..l - 1 : i \in 1..l /\ i < l /\ i + 1 \in 1..l /\ l \in 1..l
  BY <1>l
<1>r. \A name : Rank(name) \in Int
  BY DEF Rank
<1>5. ASSUME NEW i \in 1..l - 1 PROVE q[i].id # k /\ k \notin q[i].found
  <2>1. Rank(Of(q[l])) < Rank(Of(q[i])) /\ q[l].id \notin q[i].found
    BY <1>3, <1>4
  <2> QED BY <1>k, <1>r, <2>1 DEF Of
<1>6. \A i \in 1..l - 1 : q[i].id \in Live' /\ rows'[q[i].id] = rows[q[i].id]
  BY <1>2, <1>3, <1>4, <1>5 DEF FrameOK
<1>7. \A i \in 1..l - 1 : Of(q[i])' = Of(q[i])
  BY <1>6 DEF Of
<1>8. ASSUME NEW n, NEW j PROVE Referring(n, j)' \subseteq Referring(n, j) \ {k}
  <2>1. Table(OnDeleteCascade[n].table)' = Table(OnDeleteCascade[n].table) \ {k}
    BY <1>2
  <2>2. Table(OnDeleteCascade[n].table)' \subseteq Live'
    BY DEF Table
  <2> QED BY <1>2, <2>1, <2>2 DEF Referring, OnDeleteCascade
<1>9. ASSUME NEW i \in 1..l - 1
      PROVE  FrameOK(q[i])' /\ Followed(q[i], IF i < l - 1 THEN {q[i + 1].id} ELSE {})'
  <2>1. FrameOK(q[i]) /\ Followed(q[i], {q[i + 1].id})
    BY <1>3, <1>4
  <2>f. PICK f : f = q[i]
    OBVIOUS
  <2>2. FrameOK(f)'
    BY <1>2, <1>5, <1>6, <1>7, <2>1, <2>f DEF FrameOK, Dependants, Rank
  <2>3. CASE i < l - 1
    <3>1. Followed(f, {q[i + 1].id})'
      BY <1>7, <1>8, <2>1, <2>f DEF Followed, Dependants
    <3> QED BY <2>2, <2>3, <2>f, <3>1
  <2>4. CASE ~(i < l - 1)
    <3>1. q[i + 1].id = k
      <4>1. i + 1 = l
        BY <1>l, <2>4
      <4> QED BY <1>k, <4>1
    <3>2. Followed(f, {})'
      BY <1>7, <1>8, <2>1, <2>f, <3>1 DEF Followed, Dependants
    <3> QED BY <2>2, <2>4, <2>f, <3>2
  <2> QED BY <2>3, <2>4
<1>10. ASSUME NEW i \in 1..l - 1
       PROVE  FrameOK(r[i])' /\ Followed(r[i], IF i < l - 1 THEN {r[i + 1].id} ELSE {})'
  <2>1. i < l - 1 => i + 1 \in 1..l - 1
    BY <1>l
  <2> QED BY <1>1, <1>9, <2>1
<1>11. Frames(r)'
  BY <1>1, <1>10 DEF Frames
<1>12. \A i \in 1..l - 1 : Of(r[i])' = Of(q[i])
  BY <1>1, <1>7
<1>13. \A i \in 1..l - 1 : i < l - 1 => i + 1 \in 1..l - 1
  BY <1>l
<1>14. \A i \in 1..l - 1 : i < l - 1 => Of(r[i + 1])' = r[i].of
  BY <1>1, <1>3, <1>4, <1>12, <1>13
<1>15. \A i, j \in 1..l - 1 : i < j => Rank(Of(r[j])') < Rank(Of(r[i])') /\ r[j].id \notin r[i].found
  BY <1>1, <1>3, <1>4, <1>12
<1>16. Nested(r)'
  BY <1>1, <1>14, <1>15 DEF Nested, Rank
<1> QED BY <1>11, <1>16

\* The record k is deleted and the request is served on with the state q.
Removes(t, k, q) ==
    /\ Deletes(k) /\ Write(t, q) /\ q \in ThreadState /\ Served(q)' /\ ~At(t, "insertToken")
    /\ raced' = raced /\ crashes' = crashes /\ failures' = failures
    /\ untokened' = IF rows[k].table = "AuthToken" THEN untokened \cup {rows[k].subject} ELSE untokened

LEMMA DeleteOneGoes ==
    ASSUME Shapes, RowsSound, ThreadsServed, NEW t \in Thread, DeleteOne(t)
    PROVE  Fails(t) \/ \E k, q : Removes(t, k, q)
<1>s. PICK s : s = thread[t]
  OBVIOUS
<1>1. /\ At(t, "cascade") /\ s \in ThreadState /\ s.todo # <<>> /\ Suffix(s.todo, Program(s.op)) /\ Aware(s)
      /\ ~s.raced => Knows(s)
  BY <1>s, Begun DEF DeleteOne
<1>2. s.op = "delete" /\ Left(s) = 1
  BY <1>s, <1>1, Places DEF At, Place
<1>p. PICK p \in Seq(FrameState) : p = s.stack /\ p # <<>>
  BY <1>1, <1>2 DEF Aware, ThreadState
<1>l. PICK l \in Nat \ {0} : l = Len(p)
  BY <1>p
<1>t. PICK top \in FrameState : top = p[l]
  BY <1>l
<1>k. PICK k \in Id : k = top.id
  BY DEF FrameState
<1>r. PICK r \in Seq(FrameState) : r = SubSeq(p, 1, l - 1) /\ Pops(p, r)
  BY <1>p, <1>l, Popped
<1>q. PICK q : q = IF r = <<>> THEN Skip(s, 1) ELSE [s EXCEPT !.stack = Descend(r)]
  OBVIOUS
<1>3. /\ top.deps = {}
      /\ \/ /\ k \in Live /\ Deletable(k)
            /\ rows' = [rows EXCEPT ![k] = NoRow] /\ issued' = issued /\ Write(t, q)
            /\ untokened' = IF rows[k].table = "AuthToken" THEN untokened \cup {rows[k].subject} ELSE untokened
            /\ crashes' = crashes /\ failures' = failures /\ raced' = raced
         \/ ~(k \in Live /\ Deletable(k)) /\ Raise(t)
  <2> DEFINE z == thread[t]
             j == Top(z.stack).id
             rest == SubSeq(z.stack, 1, Len(z.stack) - 1)
             next == IF rest = <<>> THEN Skip(z, 1) ELSE [z EXCEPT !.stack = Descend(rest)]
  <2>1. /\ Top(z.stack).deps = {}
        /\ \/ /\ j \in Live /\ Deletable(j)
              /\ rows' = [rows EXCEPT ![j] = NoRow] /\ issued' = issued /\ Write(t, next)
              /\ untokened' = IF rows[j].table = "AuthToken" THEN untokened \cup {rows[j].subject} ELSE untokened
              /\ crashes' = crashes /\ failures' = failures /\ raced' = raced
           \/ ~(j \in Live /\ Deletable(j)) /\ Raise(t)
    BY DEF DeleteOne
  <2>2. z = s
    BY <1>s
  <2>3. Top(z.stack) = top /\ j = k
    BY <2>2, <1>p, <1>l, <1>t, <1>k, Zenon DEF Top
  <2>4. rest = r
    BY <2>2, <1>p, <1>l, <1>r, Zenon
  <2>5. next = q
    BY <2>2, <2>4, <1>q, Zenon
  <2> HIDE DEF z, j, rest, next
  <2> QED BY <2>1, <2>2, <2>3, <2>5, Zenon
\* When no other request wrote, the record is there, and so is nothing that
\* refers to it.
<1>4. ASSUME ~s.raced PROVE k \in Live /\ Deletable(k)
  <2>1. Stacked(p)
    BY <1>1, <1>2, <1>p, <1>4 DEF Knows
  <2>2. FrameOK(top) /\ Followed(top, {}) /\ top.found = {}
    <3>1. \A i \in 1..l : FrameOK(p[i]) /\ Followed(p[i], IF i < l THEN {p[i + 1].id} ELSE {})
      BY <2>1, <1>l DEF Stacked, Frames
    <3>2. l \in 1..l /\ ~(l < l)
      BY <1>l
    <3> QED BY <1>l, <1>t, <1>p, <2>1, <3>1, <3>2 DEF Stacked
  <2>3. k \in Live
    BY <1>k, <2>2 DEF FrameOK
  <2>4. \A n \in Dependants(rows[k].table) : Referring(n, k) = {}
    BY <1>3, <1>k, <2>2 DEF Followed, Of
  <2>5. ASSUME NEW j \in Live, k \in Refs(rows[j]) PROVE FALSE
    BY <2>4, <2>5, Referrers
  <2> QED BY <2>3, <2>5 DEF Deletable
<1>5. CASE ~(k \in Live /\ Deletable(k)) /\ Raise(t)
  BY <1>s, <1>4, <1>5 DEF Fails
<1>6. CASE /\ k \in Live /\ Deletable(k)
           /\ rows' = [rows EXCEPT ![k] = NoRow] /\ issued' = issued /\ Write(t, q)
           /\ untokened' = IF rows[k].table = "AuthToken" THEN untokened \cup {rows[k].subject} ELSE untokened
           /\ crashes' = crashes /\ failures' = failures /\ raced' = raced
  <2>1. Deletes(k)
    BY <1>6 DEF Deletes
  <2>2. Evolves
    BY <2>1, Evolution
  <2>3. CASE r = <<>>
    <3>1. q = Idle
      BY <1>2, <1>q, <2>3, Finished
    <3>2. Served(Idle)'
      BY IdleTyped DEF Served
    <3>3. q \in ThreadState /\ Served(q)'
      BY <3>1, <3>2, IdleTyped
    <3> QED BY <1>1, <1>6, <2>1, <3>3 DEF Removes, At
  <2>4. CASE r # <<>>
    <3>1. PICK d \in Seq(FrameState) : d = Descend(r) /\ d # <<>>
      BY <2>4, Descent
    <3>2. /\ q \in ThreadState /\ q.todo = s.todo /\ q.op = s.op /\ q.stack = d /\ q.raced = s.raced
          /\ q.esc = s.esc /\ q.family = s.family /\ q.subject = s.subject
      BY <1>1, <1>q, <2>4, <3>1 DEF ThreadState
    <3>3. Aware(q)'
      <4>1. Aware(s)'
        BY <1>1, <2>2, AwareStays
      <4> QED BY <1>2, <3>1, <3>2, <4>1 DEF Aware
    <3>4. Knows(s) => Knows(q)'
      <4>1. ASSUME Stacked(p) PROVE Stacked(d)'
        <5>1. Frames(r)' /\ Nested(r)'
          BY <1>l, <1>t, <1>k, <1>p, <1>r, <2>1, <4>1, PoppedStack
        <5> QED BY <3>1, <5>1, DescendedNext
      <4> QED BY <1>2, <1>p, <3>2, <4>1 DEF Knows
    <3>x. Suffix(q.todo, Program(q.op))
      BY <1>1, <3>2
    <3>5. Served(q)'
      BY <3>x, <1>1, <3>2, <3>3, <3>4 DEF Served, Suffix, Agree, Program
    <3> QED BY <1>1, <1>6, <2>1, <3>2, <3>5 DEF Removes, At
  <2> QED BY <2>3, <2>4
<1> QED BY <1>3, <1>5, <1>6

\* The token k is updated.
Updates(t, k, q) ==
    /\ Marks(k) /\ Write(t, q) /\ q \in ThreadState /\ Served(q)' /\ ~At(t, "insertToken")
    /\ raced' = raced /\ crashes' = crashes /\ failures' = failures /\ untokened' = untokened

LEMMA UpdateTokenGoes ==
    ASSUME Shapes, RowsSound, ThreadsServed, NEW t \in Thread, UpdateToken(t)
    PROVE  Fails(t) \/ \E k, q : Updates(t, k, q)
<1>s. PICK s : s = thread[t]
  OBVIOUS
<1>1. /\ At(t, "updateTokens") /\ s \in ThreadState /\ s.todo # <<>> /\ Suffix(s.todo, Program(s.op)) /\ Aware(s)
      /\ ~s.raced => Knows(s)
  BY <1>s, Begun DEF UpdateToken
<1>2. s.op \in {"regenerate", "authenticate"} /\ Left(s) = 1
  BY <1>s, <1>1, Places DEF At, Place
<1>k. PICK k : k = CHOOSE j \in s.seen : TRUE
  OBVIOUS
<1>3. k \in s.seen /\ Kind(k, "AuthToken")
  BY <1>1, <1>2, <1>k DEF Aware
<1>u. PICK u : u = [s EXCEPT !.seen = @ \ {k}]
  OBVIOUS
<1>q. PICK q : q = IF u.seen = {} THEN Skip(s, 1) ELSE u
  OBVIOUS
<1>4. \/ /\ k \in Live /\ rows' = [rows EXCEPT ![k].token = @ \/ s.op = "regenerate"] /\ Write(t, q)
         /\ UNCHANGED <<issued, requests, crashes, history>>
      \/ k \notin Live /\ Raise(t)
  BY <1>s, <1>k, <1>u, <1>q, Zenon DEF UpdateToken
<1>5. CASE k \notin Live /\ Raise(t)
  BY <1>s, <1>1, <1>2, <1>3, <1>5 DEF Fails, Knows
<1>6. CASE /\ k \in Live /\ rows' = [rows EXCEPT ![k].token = @ \/ s.op = "regenerate"] /\ Write(t, q)
           /\ UNCHANGED <<issued, requests, crashes, history>>
  <2>1. Marks(k)
    <3>1. k \in Table("AuthToken")
      BY <1>3, <1>6 DEF Kind, Table
    <3>2. PICK b \in BOOLEAN : b = (rows[k].token \/ s.op = "regenerate")
      OBVIOUS
    <3>3. rows' = [rows EXCEPT ![k].token = b]
      BY <1>6, <3>2, Zenon
    <3> QED BY <1>6, <3>1, <3>3 DEF Marks
  <2>2. Evolves
    BY <2>1, Evolution
  <2>3. raced' = raced /\ crashes' = crashes /\ failures' = failures /\ untokened' = untokened
    BY <1>6 DEF history
  <2>4. CASE u.seen = {}
    <3>1. q = Idle
      BY <1>2, <1>q, <2>4, Finished
    <3>2. Served(Idle)'
      BY IdleTyped DEF Served
    <3>3. q \in ThreadState /\ Served(q)'
      BY <3>1, <3>2, IdleTyped
    <3> QED BY <1>1, <1>6, <2>1, <2>3, <3>3 DEF Updates, At
  <2>5. CASE u.seen # {}
    <3>1. /\ q \in ThreadState /\ q.todo = s.todo /\ q.op = s.op /\ q.seen = s.seen \ {k} /\ q.raced = s.raced
          /\ q.esc = s.esc /\ q.family = s.family /\ q.subject = s.subject /\ q.seen # {}
      BY <1>1, <1>q, <1>u, <2>5 DEF ThreadState
    <3>2. Aware(q)'
      <4>1. Aware(s)'
        BY <1>1, <2>2, AwareStays
      <4> QED BY <1>2, <3>1, <4>1 DEF Aware
    <3>3. Knows(s) => Knows(q)'
      <4>1. Live' = Live
        BY <2>1, AfterMark
      <4> QED BY <1>2, <3>1, <4>1 DEF Knows
    <3>x. Suffix(q.todo, Program(q.op))
      BY <1>1, <3>1
    <3>4. Served(q)'
      BY <3>x, <1>1, <3>1, <3>2, <3>3 DEF Served, Suffix, Agree, Program
    <3> QED BY <1>1, <1>6, <2>1, <2>3, <3>1, <3>4 DEF Updates, At
  <2> QED BY <2>4, <2>5
<1> QED BY <1>4, <1>5, <1>6

-----------------------------------------------------------------------------
(* Requests begin                                                          *)

\* The thread t, which was idle, serves the request with the state q.
Begins(t, q) ==
    /\ q \in ThreadState /\ Served(q) /\ Begin(t, q)

LEMMA IdleFields ==
    /\ Idle \in ThreadState /\ Idle.version = Null /\ Idle.esc = Null /\ Idle.family = Null /\ Idle.subject = Null
    /\ Idle.job = Null /\ Idle.stack = <<>> /\ Idle.seen = {} /\ Idle.raced = FALSE
BY IdleTyped DEF Idle

LEMMA Started ==
    ASSUME NEW q \in ThreadState, q.todo = Program(q.op), Aware(q), Knows(q)
    PROVE  Served(q)
<1>p. PICK p : p = q.todo
  OBVIOUS
<1>1. p \in Seq(Step) /\ Len(p) \in Nat
  BY <1>p DEF ThreadState
<1>2. PICK n \in Nat : n = Len(p)
  BY <1>1
<1>3. Agree(p, n, p, n)
  <2>1. \A i \in 1..n : n - n + i = i
    OBVIOUS
  <2> QED BY <2>1 DEF Agree
<1>4. Suffix(p, p)
  BY <1>2, <1>3, Zenon DEF Suffix
<1>5. Suffix(q.todo, Program(q.op))
  BY <1>p, <1>4
<1> QED BY <1>5 DEF Served

\* For whom a subject is asked: a client or a family, as they are.
LEMMA OwnerFields ==
    ASSUME Shapes, NEW o \in Owners
    PROVE  /\ o \in ThreadState /\ o.version = Null /\ o.subject = Null /\ o.raced = FALSE /\ Owned(o)
           /\ o.esc # Null => Kind(o.esc, "Esc")
           /\ o.family # Null => Kind(o.family, "JobFamily")
<1>1. \A name : \A k \in Table(name) : k \in Id /\ k \in Ref /\ Kind(k, name)
  BY LiveRows DEF Table, Kind, Ref
<1>2. CASE \E k \in Table("Esc") : o = OfEsc(k)
  <2>1. PICK k \in Table("Esc") : o = [Idle EXCEPT !.esc = k]
    BY <1>2 DEF OfEsc
  <2>2. /\ o \in ThreadState /\ o.version = Null /\ o.subject = Null /\ o.raced = FALSE /\ o.esc = k
        /\ o.family = Null
    BY <1>1, <2>1, IdleFields DEF ThreadState
  <2> QED BY <1>1, <2>2 DEF Owned
<1>3. CASE \E k \in Table("JobFamily") : o = OfFamily(k)
  <2>1. PICK k \in Table("JobFamily") : o = [Idle EXCEPT !.family = k]
    BY <1>3 DEF OfFamily
  <2>2. /\ o \in ThreadState /\ o.version = Null /\ o.subject = Null /\ o.raced = FALSE /\ o.family = k
        /\ o.esc = Null
    BY <1>1, <2>1, IdleFields DEF ThreadState
  <2> QED BY <1>1, <2>2 DEF Owned
<1> QED BY <1>2, <1>3 DEF Owners

LEMMA DeployBegins ==
    ASSUME Shapes, NEW t, NEW s \in Table("AuthSubject"), NEW n \in Name, NEW v \in Release, Deploy(t, s, n, v)
    PROVE  \E q : Begins(t, q)
<1>1. PICK p : p = Program("deploy")
  OBVIOUS
<1>2. p \in Seq(Step) /\ Len(p) = 9
  BY <1>1, Programs DEF Operation
<1>3. PICK q : q = [Idle EXCEPT !.op = "deploy", !.name = n, !.version = v, !.subject = s, !.todo = p]
  OBVIOUS
<1>4. Begin(t, q)
  BY <1>1, <1>3 DEF Deploy, Program
<1>5. s \in Id /\ s \in Ref /\ Kind(s, "AuthSubject") /\ s # Null /\ v # Null
  BY LiveRows, NullIsNoId, RegistryAssumption DEF Table, Kind, Ref, Null
<1>6. /\ q \in ThreadState /\ q.op = "deploy" /\ q.version = v /\ q.subject = s /\ q.todo = p /\ q.esc = Null
      /\ q.family = Null /\ Left(q) = 9
  BY <1>2, <1>3, <1>5, IdleFields DEF ThreadState, Operation, Left
<1>7. Aware(q)
  BY <1>5, <1>6 DEF Aware
<1>8. Knows(q)
  BY <1>6 DEF Knows
<1> QED BY <1>1, <1>4, <1>6, <1>7, <1>8, Started DEF Begins

LEMMA AllowBegins ==
    ASSUME Shapes, NEW t, NEW o \in Owners, NEW n \in Name, NEW z \in Scope, Allow(t, o, n, z)
    PROVE  \E q : Begins(t, q)
<1>1. PICK p : p = Program("allow")
  OBVIOUS
<1>2. p \in Seq(Step) /\ Len(p) = 6
  BY <1>1, Programs DEF Operation
<1>3. PICK q : q = [o EXCEPT !.op = "allow", !.name = n, !.scope = z, !.todo = p]
  OBVIOUS
<1>4. Begin(t, q) /\ \E k \in Table("JobFamily") : rows[k].name = n
  BY <1>1, <1>3 DEF Allow, Program
<1>5. /\ q \in ThreadState /\ q.op = "allow" /\ q.version = Null /\ q.subject = Null /\ q.todo = p /\ q.esc = o.esc
      /\ q.family = o.family /\ q.name = n /\ Left(q) = 6
  BY <1>2, <1>3, OwnerFields DEF ThreadState, Operation, Left
<1>o. (o.esc # Null => Kind(o.esc, "Esc")) /\ (o.family # Null => Kind(o.family, "JobFamily"))
  BY OwnerFields
<1>6. Aware(q)
  BY <1>5, <1>o DEF Aware
<1>7. Knows(q)
  <2>1. Owned(q)
    BY <1>5, OwnerFields DEF Owned
  <2>2. Families(q) # {}
    BY <1>4, <1>5 DEF Families
  <2> QED BY <1>5, <2>1, <2>2 DEF Knows
<1> QED BY <1>1, <1>4, <1>5, <1>6, <1>7, Started DEF Begins

LEMMA GetTokenBegins ==
    ASSUME Shapes, NEW t, NEW o \in Owners, GetToken(t, o)
    PROVE  \E q : Begins(t, q)
<1>1. PICK p : p = Program("token")
  OBVIOUS
<1>2. p \in Seq(Step) /\ Len(p) = 5
  BY <1>1, Programs DEF Operation
<1>3. PICK q : q = [o EXCEPT !.op = "token", !.todo = p]
  OBVIOUS
<1>4. Begin(t, q)
  BY <1>1, <1>3 DEF GetToken, Program
<1>5. /\ q \in ThreadState /\ q.op = "token" /\ q.subject = Null /\ q.todo = p /\ q.esc = o.esc
      /\ q.family = o.family /\ Left(q) = 5
  BY <1>2, <1>3, OwnerFields DEF ThreadState, Operation, Left
<1>o. (o.esc # Null => Kind(o.esc, "Esc")) /\ (o.family # Null => Kind(o.family, "JobFamily"))
  BY OwnerFields
<1>6. Aware(q)
  BY <1>5, <1>o DEF Aware
<1>7. Knows(q)
  <2>1. Owned(q)
    BY <1>5, OwnerFields DEF Owned
  <2> QED BY <1>5, <2>1 DEF Knows
<1> QED BY <1>1, <1>4, <1>5, <1>6, <1>7, Started DEF Begins

LEMMA CreateEscBegins ==
    ASSUME Shapes, NEW t, CreateEsc(t)
    PROVE  \E q : Begins(t, q)
<1>1. PICK p : p = Program("esc")
  OBVIOUS
<1>2. p \in Seq(Step) /\ Len(p) = 5
  BY <1>1, Programs DEF Operation
<1>3. PICK q : q = [Idle EXCEPT !.op = "esc", !.todo = p]
  OBVIOUS
<1>4. Begin(t, q)
  BY <1>1, <1>3 DEF CreateEsc, Program
<1>5. /\ q \in ThreadState /\ q.op = "esc" /\ q.subject = Null /\ q.todo = p /\ q.esc = Null
      /\ q.family = Null /\ Left(q) = 5
  BY <1>2, <1>3, IdleFields DEF ThreadState, Operation, Left
<1>6. Aware(q)
  BY <1>5 DEF Aware
<1>7. Knows(q)
  <2>1. Owned(q)
    BY <1>5 DEF Owned
  <2> QED BY <1>5, <2>1 DEF Knows
<1> QED BY <1>1, <1>4, <1>5, <1>6, <1>7, Started DEF Begins

LEMMA ListBegins ==
    ASSUME Shapes, NEW t, NEW s \in Table("AuthSubject"), ListJobs(t, s)
    PROVE  \E q : Begins(t, q)
<1>1. PICK p : p = Program("list")
  OBVIOUS
<1>2. p \in Seq(Step) /\ Len(p) = 2
  BY <1>1, Programs DEF Operation
<1>3. PICK q : q = [Idle EXCEPT !.op = "list", !.subject = s, !.todo = p]
  OBVIOUS
<1>4. Begin(t, q)
  BY <1>1, <1>3 DEF ListJobs, Program
<1>5. s \in Id /\ s \in Ref /\ Kind(s, "AuthSubject")
  BY LiveRows DEF Table, Kind, Ref
<1>6. /\ q \in ThreadState /\ q.op = "list" /\ q.subject = s /\ q.todo = p /\ q.esc = Null
      /\ q.family = Null /\ Left(q) = 2
  BY <1>2, <1>3, <1>5, IdleFields DEF ThreadState, Operation, Left
<1>7. Aware(q)
  BY <1>5, <1>6 DEF Aware
<1>8. Knows(q)
  BY <1>6 DEF Knows
<1> QED BY <1>1, <1>4, <1>6, <1>7, <1>8, Started DEF Begins

\* Tokens are updated by their ids.
LEMMA UpdateBegins ==
    ASSUME Shapes, NEW t, NEW op \in {"regenerate", "authenticate"}, NEW K, K \subseteq Table("AuthToken"), K # {},
           Begin(t, [Idle EXCEPT !.op = op, !.todo = <<"updateTokens">>, !.seen = K])
    PROVE  \E q : Begins(t, q)
<1>1. PICK p : p = Program(op)
  OBVIOUS
<1>2. p \in Seq(Step) /\ Len(p) = 1 /\ p = <<"updateTokens">>
  BY <1>1, Programs DEF Operation, Program
<1>3. PICK q : q = [Idle EXCEPT !.op = op, !.todo = p, !.seen = K]
  OBVIOUS
<1>4. Begin(t, q)
  BY <1>2, <1>3
<1>5. K \in SUBSET Id /\ K \subseteq Live /\ \A k \in K : Kind(k, "AuthToken")
  BY LiveRows DEF Table, Kind
<1>6. /\ q \in ThreadState /\ q.op = op /\ q.seen = K /\ q.todo = p /\ q.esc = Null /\ q.subject = Null
      /\ q.family = Null /\ Left(q) = 1
  BY <1>2, <1>3, <1>5, IdleFields DEF ThreadState, Operation, Left
<1>7. Aware(q)
  BY <1>5, <1>6 DEF Aware
<1>8. Knows(q)
  BY <1>5, <1>6 DEF Knows
<1> QED BY <1>1, <1>4, <1>6, <1>7, <1>8, Started DEF Begins

LEMMA DeleteBegins ==
    ASSUME Shapes, NEW t, NEW k \in Live, DeleteRecord(t, k)
    PROVE  \E q : Begins(t, q)
<1>1. PICK p : p = Program("delete")
  OBVIOUS
<1>2. p \in Seq(Step) /\ Len(p) = 1 /\ p = <<"cascade">>
  BY <1>1, Programs DEF Operation, Program
<1>3. k \in Id /\ rows[k].table \in Tables
  BY LiveRows, RowTypes
<1>f. PICK f \in FrameState : /\ f = Frame(k, rows[k].table) /\ f.id = k /\ f.deps = Dependants(rows[k].table)
                              /\ f.found = {} /\ f.of = rows[k].table
  BY <1>3, FrameTyped
<1>z. PICK z : z = <<f>>
  OBVIOUS
<1>4. z \in Seq(FrameState) /\ z # <<>> /\ Len(z) = 1 /\ z[1] = f
  BY <1>z
<1>5. PICK q : q = [Idle EXCEPT !.op = "delete", !.todo = p, !.stack = z]
  OBVIOUS
<1>6. Begin(t, q)
  BY <1>2, <1>f, <1>z, <1>5 DEF DeleteRecord
<1>7. /\ q \in ThreadState /\ q.op = "delete" /\ q.stack = z /\ q.todo = p /\ q.esc = Null /\ q.subject = Null
      /\ q.family = Null
  BY <1>2, <1>4, <1>5, IdleFields DEF ThreadState, Operation
<1>8. Aware(q)
  BY <1>4, <1>7 DEF Aware
<1>9. Stacked(z)
  <2>1. FrameOK(f)
    BY <1>f DEF FrameOK, Of
  <2>2. Followed(f, {})
    BY <1>f DEF Followed, Of
  <2>3. Frames(z)
    BY <1>4, <2>1, <2>2 DEF Frames
  <2>4. Nested(z)
    BY <1>4 DEF Nested
  <2> QED BY <1>4, <1>f, <2>3, <2>4 DEF Stacked
<1>10. Knows(q)
  BY <1>7, <1>9 DEF Knows
<1> QED BY <1>1, <1>6, <1>7, <1>8, <1>10, Started DEF Begins

LEMMA RequestBegins ==
    ASSUME Shapes, NEW t \in Thread, Request(t)
    PROVE  thread[t] = Idle /\ \E q : Begins(t, q)
<1>1. ASSUME NEW s \in Table("AuthSubject"), Regenerate(t, s) PROVE \E q : Begins(t, q)
  <2>1. PICK K : K = {k \in Table("AuthToken") : rows[k].subject = s}
    OBVIOUS
  <2>2. K # {} /\ Begin(t, [Idle EXCEPT !.op = "regenerate", !.todo = <<"updateTokens">>, !.seen = K])
    BY <1>1, <2>1 DEF Regenerate
  <2>3. K \subseteq Table("AuthToken")
    BY <2>1
  <2> QED BY <2>2, <2>3, UpdateBegins
<1>2. ASSUME NEW k \in Table("AuthToken"), Authenticate(t, k) PROVE \E q : Begins(t, q)
  <2>1. PICK K : K = {k}
    OBVIOUS
  <2>2. K # {} /\ Begin(t, [Idle EXCEPT !.op = "authenticate", !.todo = <<"updateTokens">>, !.seen = K])
    BY <1>2, <2>1 DEF Authenticate
  <2>3. K \subseteq Table("AuthToken")
    BY <2>1
  <2> QED BY <2>2, <2>3, UpdateBegins
<1>3. thread[t] = Idle
  BY DEF Request
<1> QED BY <1>1, <1>2, <1>3, DeployBegins, ListBegins, GetTokenBegins, AllowBegins, CreateEscBegins, DeleteBegins
        DEF Request

-----------------------------------------------------------------------------
(* The inductive invariant                                                 *)

LEMMA StatementGoes ==
    ASSUME Shapes, RowsSound, ThreadsServed, NEW t \in Thread, Statement(t)
    PROVE  \/ Fails(t) \/ \E q : Goes(t, q) /\ ~At(t, "insertToken")
           \/ \E row, q : Puts(t, row, q)
           \/ \E k, q : Removes(t, k, q)
           \/ \E k, q : Updates(t, k, q)
<1>1. CASE FindFamily(t)
  BY <1>1, FindFamilyGoes DEF FindFamily, At
<1>2. CASE FindJob(t)
  BY <1>2, FindJobGoes DEF FindJob, At
<1>3. CASE FindSubject(t)
  BY <1>3, FindSubjectGoes DEF FindSubject, At
<1>4. CASE FindToken(t)
  BY <1>4, FindTokenGoes DEF FindToken, At
<1>5. CASE PermissionExists(t)
  BY <1>5, PermissionExistsGoes DEF PermissionExists, At
<1>6. CASE FindTarget(t)
  BY <1>6, FindTargetGoes DEF FindTarget, At
<1>7. CASE ReadJobs(t)
  BY <1>7, ReadJobsGoes DEF ReadJobs, At
<1>8. CASE ReadPermissions(t)
  BY <1>8, ReadPermissionsGoes DEF ReadPermissions, At
<1>9. CASE FindDependants(t)
  BY <1>9, FindDependantsGoes DEF FindDependants, At
<1>10. CASE InsertFamily(t) \/ InsertJob(t) \/ InsertEsc(t) \/ InsertSubject(t) \/ InsertToken(t) \/ InsertPermission(t)
  BY <1>10, InsertFamilyPuts, InsertJobPuts, InsertEscPuts, InsertSubjectPuts, InsertTokenPuts, InsertPermissionPuts
<1>11. CASE DeleteOne(t)
  BY <1>11, DeleteOneGoes
<1>12. CASE UpdateToken(t)
  BY <1>12, UpdateTokenGoes
<1> QED BY <1>1, <1>2, <1>3, <1>4, <1>5, <1>6, <1>7, <1>8, <1>9, <1>10, <1>11, <1>12 DEF Statement

\* A thread that is not the one that moves still has its token to insert.
LEMMA StillAwaited ==
    ASSUME NEW t, NEW k, Awaited(k), ~(At(t, "insertToken") /\ thread[t].subject = k),
           \A u \in Thread : u # t => thread'[u].todo = thread[u].todo /\ thread'[u].subject = thread[u].subject
    PROVE  Awaited(k)'
<1>1. PICK u \in Thread : thread[u].todo # <<>> /\ Head(thread[u].todo) = "insertToken" /\ thread[u].subject = k
  BY DEF Awaited
<1>2. u # t
  BY <1>1 DEF At
<1> QED BY <1>1, <1>2 DEF Awaited

LEMMA OthersWrite ==
    ASSUME Shapes, NEW t, NEW q, Write(t, q)
    PROVE  /\ \A u \in Thread : u # t => thread'[u].todo = thread[u].todo /\ thread'[u].subject = thread[u].subject
           /\ t \in Thread => thread'[t] = q
<1>1. ASSUME NEW u \in Thread, u # t
      PROVE  thread'[u].todo = thread[u].todo /\ thread'[u].subject = thread[u].subject
  <2>1. thread[u] \in ThreadState /\ thread'[u] = [thread[u] EXCEPT !.raced = @ \/ thread[u] # Idle]
    BY <1>1 DEF Write, Shapes
  <2> QED BY <2>1 DEF ThreadState
<1> QED BY <1>1 DEF Write

\* The state of one thread changes, and the tables do not.
LEMMA InvAfterRead ==
    ASSUME RegInv, NEW t \in Thread, NEW q \in ThreadState, Served(q), ~At(t, "insertToken"),
           rows' = rows, issued' = issued, raced' = raced, thread' = [thread EXCEPT ![t] = q],
           failures' = failures, crashes' = crashes, untokened' = untokened
    PROVE  RegInv'
<1>1. Shapes' /\ RowsSound' /\ ThreadsServed' /\ DuplicateHasCause'
  BY AfterRead DEF RegInv
<1>2. FailureHasCause' /\ crashes' \in Nat
  BY DEF RegInv, FailureHasCause
<1>3. \A u \in Thread : u # t => thread'[u].todo = thread[u].todo /\ thread'[u].subject = thread[u].subject
  BY DEF RegInv, Shapes
<1>4. \A k : Awaited(k) => Awaited(k)'
  BY <1>3, StillAwaited
<1>5. TokensComing'
  BY <1>4 DEF TokensComing, RegInv, Table, Live
<1> QED BY <1>1, <1>2, <1>5 DEF RegInv

LEMMA InvAfterFailure ==
    ASSUME RegInv, NEW t \in Thread, Fails(t)
    PROVE  RegInv'
<1>1. /\ rows' = rows /\ issued' = issued /\ raced' = raced /\ thread' = [thread EXCEPT ![t] = Idle]
      /\ failures' = failures \cup {<<thread[t].op, thread[t].raced>>} /\ crashes' = crashes /\ thread[t].raced
  BY DEF Fails, Raise
<1>2. Shapes' /\ RowsSound' /\ ThreadsServed' /\ DuplicateHasCause'
  BY <1>1, AfterRead, IdleTyped, IdleServed DEF RegInv
<1>3. FailureHasCause' /\ crashes' \in Nat
  <2>1. ASSUME NEW f \in failures' PROVE f[2]
    <3>1. f \in failures \/ f = <<thread[t].op, thread[t].raced>>
      BY <1>1
    <3>2. CASE f \in failures
      BY <3>2 DEF RegInv, FailureHasCause
    <3>3. CASE f = <<thread[t].op, thread[t].raced>>
      <4>1. f[2] = thread[t].raced
        BY <3>3
      <4> QED BY <1>1, <4>1
    <3> QED BY <3>1, <3>2, <3>3
  <2> QED BY <1>1, <2>1 DEF RegInv, FailureHasCause
<1>4. TokensComing'
  BY <1>1 DEF TokensComing
<1> QED BY <1>2, <1>3, <1>4 DEF RegInv

LEMMA InvAfterCrash ==
    ASSUME RegInv, NEW t \in Thread, Crash(t)
    PROVE  RegInv'
<1>1. /\ rows' = rows /\ issued' = issued /\ raced' = raced /\ thread' = [thread EXCEPT ![t] = Idle]
      /\ failures' = failures /\ crashes' = crashes + 1
  BY DEF Crash, history
<1>2. Shapes' /\ RowsSound' /\ ThreadsServed' /\ DuplicateHasCause'
  BY <1>1, AfterRead, IdleTyped, IdleServed DEF RegInv
<1>3. FailureHasCause' /\ crashes' \in Nat /\ crashes' > 0
  BY <1>1 DEF RegInv, FailureHasCause
<1>4. TokensComing'
  BY <1>3 DEF TokensComing
<1> QED BY <1>2, <1>3, <1>4 DEF RegInv

LEMMA InvAfterInsert ==
    ASSUME RegInv, NEW t \in Thread, NEW row, NEW q, Puts(t, row, q)
    PROVE  RegInv'
<1>n. PICK n : n = issued + 1
  OBVIOUS
<1>1. /\ Inserts(row) /\ Write(t, q) /\ q \in ThreadState /\ Served(q)' /\ Sound(row)
      /\ raced' = IF thread[t].raced THEN raced \cup {n} ELSE raced
      /\ crashes' = crashes /\ failures' = failures /\ untokened' = untokened
      /\ row.table \in {"AuthSubject", "AuthResourcePermission"} /\ ~thread[t].raced
           => \A k \in Live : rows[k] # row
      /\ At(t, "insertToken") => row.table = "AuthToken" /\ row.subject = thread[t].subject
      /\ row.table = "AuthSubject" /\ row.family # Null =>
            q.todo # <<>> /\ Head(q.todo) = "insertToken" /\ q.subject = n
  BY <1>n DEF Puts, Done
<1>2. Shapes /\ RowsSound /\ ThreadsServed /\ FailureHasCause /\ DuplicateHasCause /\ TokensComing /\ crashes \in Nat
  BY DEF RegInv
<1>3. /\ rows'[n] = row /\ Evolves /\ Live' = Live \cup {n} /\ \A k \in Live : rows'[k] = rows[k]
  BY <1>n, <1>1, <1>2, NewRow
<1>4. Shapes' /\ ThreadsServed'
  BY <1>1, <1>2, <1>3, AfterInsert, AfterWrite
<1>5. RowsSound'
  BY <1>1, <1>2, SoundAfterInsert
<1>6. FailureHasCause' /\ crashes' \in Nat
  BY <1>1, <1>2 DEF FailureHasCause
<1>7. DuplicateHasCause'
  <2>1. ASSUME NEW a \in Live', NEW b \in Live', a # b, rows'[a] = rows'[b],
               rows'[a].table \in {"AuthSubject", "AuthResourcePermission"}
        PROVE  {a, b} \cap raced' # {}
    <3>1. CASE a \in Live /\ b \in Live
      <4>1. {a, b} \cap raced # {}
        BY <1>2, <1>3, <2>1, <3>1 DEF DuplicateHasCause
      <4> QED BY <1>1, <4>1
    <3>2. CASE a = n /\ b \in Live
      <4>1. thread[t].raced
        BY <1>1, <1>3, <2>1, <3>2
      <4> QED BY <1>1, <3>2, <4>1
    <3>3. CASE b = n /\ a \in Live
      <4>1. thread[t].raced
        BY <1>1, <1>3, <2>1, <3>3
      <4> QED BY <1>1, <3>3, <4>1
    <3> QED BY <1>3, <2>1, <3>1, <3>2, <3>3
  <2> QED BY <2>1 DEF DuplicateHasCause
<1>8. \A u \in Thread : u # t => thread'[u].todo = thread[u].todo /\ thread'[u].subject = thread[u].subject
  BY <1>1, <1>2, OthersWrite
<1>9. thread'[t] = q
  BY <1>1, <1>2, OthersWrite
<1>10. \A name : Table(name)' = IF name = row.table THEN Table(name) \cup {n} ELSE Table(name)
  BY <1>n, <1>1, <1>2, AfterInsert
<1>11. \A name : Table(name) \subseteq Live
  BY DEF Table
<1>12. ASSUME NEW k \in Table("AuthSubject")'
       PROVE  \/ rows'[k].family = Null
              \/ \E j \in Table("AuthToken")' : rows'[j].subject = k
              \/ crashes' > 0 \/ failures' # {} \/ k \in untokened'
              \/ Awaited(k)'
  <2>1. CASE k \in Table("AuthSubject")
    <3>1. \/ rows[k].family = Null
          \/ \E j \in Table("AuthToken") : rows[j].subject = k
          \/ crashes > 0 \/ failures # {} \/ k \in untokened
          \/ Awaited(k)
      BY <1>2, <2>1 DEF TokensComing
    <3>2. CASE rows[k].family = Null
      BY <1>3, <1>11, <2>1, <3>2
    <3>3. CASE \E j \in Table("AuthToken") : rows[j].subject = k
      BY <1>3, <1>10, <1>11, <3>3
    <3>4. CASE crashes > 0 \/ failures # {} \/ k \in untokened
      BY <1>1, <3>4
    <3>5. CASE Awaited(k)
      <4>1. CASE At(t, "insertToken") /\ thread[t].subject = k
        <5>1. n \in Table("AuthToken")' /\ rows'[n].subject = k
          BY <1>1, <1>3, <1>10, <4>1
        <5> QED BY <5>1
      <4>2. CASE ~(At(t, "insertToken") /\ thread[t].subject = k)
        BY <1>8, <3>5, <4>2, StillAwaited
      <4> QED BY <4>1, <4>2
    <3> QED BY <3>1, <3>2, <3>3, <3>4, <3>5
  <2>2. CASE k \notin Table("AuthSubject")
    <3>1. k = n /\ row.table = "AuthSubject"
      BY <1>10, <1>12, <2>2
    <3>2. row.family # Null => Awaited(k)'
      BY <1>1, <1>9, <3>1 DEF Awaited
    <3> QED BY <1>3, <3>1, <3>2
  <2> QED BY <2>1, <2>2
<1>13. TokensComing'
  BY <1>12 DEF TokensComing
<1> QED BY <1>4, <1>5, <1>6, <1>7, <1>13 DEF RegInv

LEMMA InvAfterDelete ==
    ASSUME RegInv, NEW t \in Thread, NEW d, NEW q, Removes(t, d, q)
    PROVE  RegInv'
<1>1. /\ Deletes(d) /\ Write(t, q) /\ q \in ThreadState /\ Served(q)' /\ ~At(t, "insertToken")
      /\ raced' = raced /\ crashes' = crashes /\ failures' = failures
      /\ untokened' = IF rows[d].table = "AuthToken" THEN untokened \cup {rows[d].subject} ELSE untokened
  BY DEF Removes
<1>2. Shapes /\ RowsSound /\ ThreadsServed /\ FailureHasCause /\ DuplicateHasCause /\ TokensComing /\ crashes \in Nat
  BY DEF RegInv
<1>3. /\ TablesTyped' /\ Live' = Live \ {d} /\ \A j \in Live' : rows'[j] = rows[j]
      /\ \A name : Table(name)' = Table(name) \ {d}
  BY <1>1, <1>2, AfterDelete
<1>e. Evolves
  BY <1>1, <1>2, Evolution
<1>4. Shapes' /\ ThreadsServed'
  BY <1>1, <1>2, <1>3, <1>e, AfterWrite
<1>5. RowsSound'
  BY <1>1, <1>2, SoundAfterDelete
<1>6. FailureHasCause' /\ DuplicateHasCause' /\ crashes' \in Nat
  BY <1>1, <1>2, <1>3 DEF FailureHasCause, DuplicateHasCause
<1>7. \A u \in Thread : u # t => thread'[u].todo = thread[u].todo /\ thread'[u].subject = thread[u].subject
  BY <1>1, <1>2, OthersWrite
<1>8. \A name : Table(name) \subseteq Live /\ \A j \in Table(name) : rows[j].table = name
  BY DEF Table
<1>9. ASSUME NEW k \in Table("AuthSubject")'
      PROVE  \/ rows'[k].family = Null
             \/ \E j \in Table("AuthToken")' : rows'[j].subject = k
             \/ crashes' > 0 \/ failures' # {} \/ k \in untokened'
             \/ Awaited(k)'
  <2>1. k \in Table("AuthSubject") /\ k # d /\ rows'[k] = rows[k]
    BY <1>3, <1>8
  <2>2. \/ rows[k].family = Null
        \/ \E j \in Table("AuthToken") : rows[j].subject = k
        \/ crashes > 0 \/ failures # {} \/ k \in untokened
        \/ Awaited(k)
    BY <1>2, <2>1 DEF TokensComing
  <2>3. ASSUME NEW j \in Table("AuthToken"), rows[j].subject = k
        PROVE  k \in untokened' \/ \E i \in Table("AuthToken")' : rows'[i].subject = k
    <3>1. CASE j = d
      BY <1>1, <1>8, <2>3, <3>1
    <3>2. CASE j # d
      BY <1>3, <1>8, <2>3, <3>2
    <3> QED BY <3>1, <3>2
  <2>4. CASE Awaited(k)
    BY <1>1, <1>7, <2>4, StillAwaited
  <2> QED BY <1>1, <2>1, <2>2, <2>3, <2>4
<1>10. TokensComing'
  BY <1>9 DEF TokensComing
<1> QED BY <1>4, <1>5, <1>6, <1>10 DEF RegInv

LEMMA InvAfterUpdate ==
    ASSUME RegInv, NEW t \in Thread, NEW m, NEW q, Updates(t, m, q)
    PROVE  RegInv'
<1>1. /\ Marks(m) /\ Write(t, q) /\ q \in ThreadState /\ Served(q)' /\ ~At(t, "insertToken")
      /\ raced' = raced /\ crashes' = crashes /\ failures' = failures /\ untokened' = untokened
  BY DEF Updates
<1>2. Shapes /\ RowsSound /\ ThreadsServed /\ FailureHasCause /\ DuplicateHasCause /\ TokensComing /\ crashes \in Nat
  BY DEF RegInv
<1>3. /\ TablesTyped' /\ Live' = Live /\ \A name : Table(name)' = Table(name)
      /\ m \in Table("AuthToken") /\ rows'[m].table = "AuthToken" /\ rows'[m].subject = rows[m].subject
      /\ \A j \in Id : j # m => rows'[j] = rows[j]
  BY <1>1, <1>2, AfterMark
<1>e. Evolves
  BY <1>1, <1>2, Evolution
<1>4. Shapes' /\ ThreadsServed'
  BY <1>1, <1>2, <1>3, <1>e, AfterWrite
<1>5. RowsSound'
  BY <1>1, <1>2, SoundAfterMark
<1>6. Live \subseteq Id
  BY DEF Live
<1>7. FailureHasCause' /\ crashes' \in Nat
  BY <1>1, <1>2 DEF FailureHasCause
<1>8. DuplicateHasCause'
  <2>1. ASSUME NEW a \in Live', NEW b \in Live', a # b, rows'[a] = rows'[b],
               rows'[a].table \in {"AuthSubject", "AuthResourcePermission"}
        PROVE  {a, b} \cap raced' # {}
    <3>1. a # m /\ b # m
      BY <1>3, <2>1
    <3>2. rows'[a] = rows[a] /\ rows'[b] = rows[b] /\ a \in Live /\ b \in Live
      BY <1>3, <1>6, <3>1
    <3> QED BY <1>1, <1>2, <2>1, <3>2 DEF DuplicateHasCause
  <2> QED BY <2>1 DEF DuplicateHasCause
<1>9. \A u \in Thread : u # t => thread'[u].todo = thread[u].todo /\ thread'[u].subject = thread[u].subject
  BY <1>1, <1>2, OthersWrite
<1>10. \A k : Awaited(k) => Awaited(k)'
  BY <1>1, <1>9, StillAwaited
<1>11. \A name : Table(name) \subseteq Live /\ \A j \in Table(name) : rows[j].table = name
  BY DEF Table
<1>12. ASSUME NEW k \in Table("AuthSubject")'
       PROVE  \/ rows'[k].family = Null
              \/ \E j \in Table("AuthToken")' : rows'[j].subject = k
              \/ crashes' > 0 \/ failures' # {} \/ k \in untokened'
              \/ Awaited(k)'
  <2>1. k \in Table("AuthSubject") /\ rows'[k] = rows[k]
    BY <1>3, <1>6, <1>11
  <2>2. \A j \in Table("AuthToken") : rows'[j].subject = rows[j].subject
    BY <1>3, <1>6, <1>11
  <2>3. \/ rows[k].family = Null
        \/ \E j \in Table("AuthToken") : rows[j].subject = k
        \/ crashes > 0 \/ failures # {} \/ k \in untokened
        \/ Awaited(k)
    BY <1>2, <2>1 DEF TokensComing
  <2> QED BY <1>1, <1>3, <1>10, <2>1, <2>2, <2>3
<1>13. TokensComing'
  BY <1>12 DEF TokensComing
<1> QED BY <1>4, <1>5, <1>7, <1>8, <1>13 DEF RegInv

LEMMA RegInvStep ==
    ASSUME RegInv, NEW t \in Thread, Request(t) \/ Statement(t) \/ Crash(t)
    PROVE  RegInv'
<1>1. Shapes /\ RowsSound /\ ThreadsServed
  BY DEF RegInv
<1>2. CASE Request(t)
  <2>1. thread[t] = Idle
    BY <1>1, <1>2, RequestBegins
  <2>2. PICK q : Begins(t, q)
    BY <1>1, <1>2, RequestBegins
  <2>3. ~At(t, "insertToken")
    BY <2>1, IdleTyped DEF At
  <2> QED BY <2>2, <2>3, InvAfterRead DEF Begins, Begin, history
<1>3. CASE Statement(t)
  <2>1. ASSUME NEW q, Goes(t, q), ~At(t, "insertToken") PROVE RegInv'
    BY <2>1, InvAfterRead DEF Goes, Read, history
  <2> QED BY <1>1, <1>3, <2>1, StatementGoes, InvAfterFailure, InvAfterInsert, InvAfterDelete, InvAfterUpdate
<1>4. CASE Crash(t)
  BY <1>4, InvAfterCrash
<1> QED BY <1>2, <1>3, <1>4

LEMMA RegInvInit == ASSUME Init PROVE RegInv
<1>0. /\ issued = 5 /\ thread = [t \in Thread |-> Idle] /\ crashes = 0 /\ failures = {}
  BY DEF Init
<1>n. PICK n \in Name : n = AnyName
  BY RegistryAssumption DEF AnyName
<1>v. PICK v \in Release : v = CHOOSE x \in Release : TRUE
  BY RegistryAssumption
<1>1. /\ 1 \in Id => rows[1] = [table |-> "Esc"]
      /\ 2 \in Id => rows[2] = [table |-> "AuthSubject", esc |-> 1, family |-> Null]
      /\ 3 \in Id => rows[3] = [table |-> "AuthToken", subject |-> 2, token |-> FALSE]
      /\ 4 \in Id => rows[4] = [table |-> "JobFamily", name |-> AnyName]
      /\ 5 \in Id => rows[5] = [table |-> "Job", family |-> 4, name |-> AnyName,
                               version |-> CHOOSE x \in Release : TRUE]
      /\ \A k \in Id : k \notin 1..5 => rows[k] = NoRow
      /\ DOMAIN rows = Id /\ rows = [k \in Id |-> rows[k]]
  BY NullIsNoId DEF Init
<1>2. 5 \in Id => rows[5] = [table |-> "Job", family |-> 4, name |-> n, version |-> v]
  BY <1>1, <1>n, <1>v, Zenon
<1>3. 4 \in Id => rows[4] = [table |-> "JobFamily", name |-> n]
  BY <1>1, <1>n, Zenon
<1>4. /\ 2 \in Id => 1 \in Id
      /\ 3 \in Id => 2 \in Id
      /\ 5 \in Id => 4 \in Id
      /\ Null \notin Id
  BY NullIsNoId, RegistryAssumption DEF Id
<1>5. /\ 1 \in Id => rows[1] \in Row
      /\ 2 \in Id => rows[2] \in Row
      /\ 3 \in Id => rows[3] \in Row
      /\ 4 \in Id => rows[4] \in Row
      /\ 5 \in Id => rows[5] \in Row
  <2>1. 1 \in Id => rows[1] \in EscRow
    BY <1>1 DEF EscRow
  <2>2. 2 \in Id => rows[2] \in AuthSubjectRow
    BY <1>1, <1>4 DEF AuthSubjectRow, Ref
  <2>3. 3 \in Id => rows[3] \in AuthTokenRow
    <3>1. ASSUME 3 \in Id PROVE rows[3] \in AuthTokenRow
      <4>1. rows[3] = [table |-> "AuthToken", subject |-> 2, token |-> FALSE] /\ 2 \in Id
        BY <1>1, <1>4, <3>1
      <4>2. [table |-> "AuthToken", subject |-> 2, token |-> FALSE] \in AuthTokenRow
        BY <4>1 DEF AuthTokenRow
      <4> QED BY <4>1, <4>2
    <3> QED BY <3>1
  <2>4. 4 \in Id => rows[4] \in JobFamilyRow
    BY <1>3 DEF JobFamilyRow
  <2>5. 5 \in Id => rows[5] \in JobRow
    BY <1>2, <1>4 DEF JobRow
  <2> QED BY <2>1, <2>2, <2>3, <2>4, <2>5 DEF Row
<1>6. \A k \in Id : k = 1 \/ k = 2 \/ k = 3 \/ k = 4 \/ k = 5 \/ k \notin 1..5
  BY NullIsNoId
<1>7. \A k \in Id : rows[k] \in Row \cup {NoRow}
  BY <1>1, <1>5, <1>6
<1>8. rows \in [Id -> Row \cup {NoRow}]
  BY <1>1, <1>7
<1>9. \A k \in Live : k \in Id /\ (k = 1 \/ k = 2 \/ k = 3 \/ k = 4 \/ k = 5)
  BY <1>1, <1>6 DEF Live
<1>10. \A k \in Id : k \in {1, 2, 3, 4, 5} => k \in Live
  BY <1>5, RowTypes DEF Live
<1>11. Shapes
  <2>1. \A k \in Live : k <= issued
    BY <1>0, <1>9
  <2> QED BY <1>0, <1>8, <2>1, IdleTyped DEF Shapes
<1>12. ASSUME NEW k \in Live PROVE Sound(rows[k])
  <2>1. CASE k = 1
    BY <1>1, <1>9, <2>1 DEF Sound
  <2>2. CASE k = 2
    <3>1. 1 \in Table("Esc")
      BY <1>1, <1>4, <1>9, <1>10, <2>2 DEF Table
    <3> QED BY <1>1, <1>9, <2>2, <3>1 DEF Sound
  <2>3. CASE k = 3
    <3>1. 2 \in Table("AuthSubject")
      BY <1>1, <1>4, <1>9, <1>10, <2>3 DEF Table
    <3> QED BY <1>1, <1>9, <2>3, <3>1 DEF Sound
  <2>4. CASE k = 4
    BY <1>3, <1>9, <2>4 DEF Sound
  <2>5. CASE k = 5
    <3>1. 4 \in Table("JobFamily") /\ rows[4].name = n
      BY <1>3, <1>4, <1>9, <1>10, <2>5 DEF Table
    <3> QED BY <1>2, <1>9, <2>5, <3>1 DEF Sound
  <2> QED BY <1>9, <2>1, <2>2, <2>3, <2>4, <2>5
<1>13. \A k \in Live : rows[k].table = CASE k = 1 -> "Esc" [] k = 2 -> "AuthSubject" [] k = 3 -> "AuthToken"
                                          [] k = 4 -> "JobFamily" [] OTHER -> "Job"
  BY <1>1, <1>2, <1>3, <1>9
<1>14. \A j, k \in Live : rows[j].table = rows[k].table => j = k
  BY <1>9, <1>13
<1>15. RowsSound
  BY <1>12, <1>14 DEF RowsSound, Clashes
<1>16. ThreadsServed
  BY <1>0, IdleServed DEF ThreadsServed
<1>17. FailureHasCause /\ DuplicateHasCause
  BY <1>0, <1>14 DEF FailureHasCause, DuplicateHasCause
<1>18. TokensComing
  <2>1. ASSUME NEW k \in Table("AuthSubject") PROVE rows[k].family = Null
    <3>1. k = 2 /\ k \in Id
      BY <1>9, <1>13 DEF Table
    <3> QED BY <1>1, <3>1
  <2> QED BY <2>1 DEF TokensComing
<1> QED BY <1>0, <1>11, <1>15, <1>16, <1>17, <1>18 DEF RegInv

LEMMA RegInvStutters == ASSUME RegInv, UNCHANGED regVars PROVE RegInv'
<1>1. /\ rows' = rows /\ issued' = issued /\ thread' = thread /\ crashes' = crashes /\ failures' = failures
      /\ raced' = raced /\ untokened' = untokened
  BY DEF regVars
<1>2. Live' = Live /\ \A name : Table(name)' = Table(name)
  BY <1>1 DEF Table, Live
<1>3. ThreadsServed'
  <2>1. ASSUME NEW t \in Thread PROVE Served(thread[t])'
    <3>1. PICK r : r = thread[t] /\ r = thread'[t]
      BY <1>1
    <3>2. Served(r)'
      BY <1>1, <3>1, SameRows DEF RegInv, ThreadsServed
    <3> QED BY <3>1, <3>2
  <2> QED BY <2>1 DEF ThreadsServed
<1>4. Shapes' /\ RowsSound' /\ FailureHasCause' /\ DuplicateHasCause' /\ crashes' \in Nat
  BY <1>1, <1>2 DEF RegInv, Shapes, RowsSound, Sound, Clashes, FailureHasCause, DuplicateHasCause
<1>5. \A k : Awaited(k)' <=> Awaited(k)
  BY <1>1 DEF Awaited
<1>6. TokensComing'
  BY <1>1, <1>2, <1>5 DEF RegInv, TokensComing
<1> QED BY <1>3, <1>4, <1>6 DEF RegInv

LEMMA RegInvHolds == Spec => []RegInv
<1>1. Init => RegInv
  BY RegInvInit
<1>2. RegInv /\ [Next]_regVars => RegInv'
  BY RegInvStep, RegInvStutters DEF Next
<1> QED BY <1>1, <1>2, PTL DEF Spec

\* When no request is being served nobody is awaited.
LEMMA WholeSubjects == ASSUME RegInv PROVE SubjectsAreWhole
<1>1. ASSUME \A t \in Thread : thread[t] = Idle, NEW k PROVE ~Awaited(k)
  BY <1>1, IdleTyped DEF Awaited
<1>2. TokenlessHasCause
  BY <1>1 DEF RegInv, TokensComing, TokenlessHasCause
<1> QED BY <1>2 DEF RegInv, SubjectsAreWhole

-----------------------------------------------------------------------------
(* Theorems                                                                *)

\* The rows of the tables refer to rows of the right tables, which are there,
\* and no two families have one name and no two jobs one name and version,
\* whatever requests interleave or die (the constraints that the migrations
\* declare, and what the tables are assumed to hold by lifecycle/auth).
THEOREM TablesAreSound == Spec => []RowsSound
<1>1. RegInv => RowsSound
  BY DEF RegInv
<1> QED BY <1>1, RegInvHolds, PTL

\* A request raises only if another one wrote while it was being served: in
\* particular _delete_cascade_dependencies, when it is alone, leaves no row that
\* refers to the record which delete_record removes last.
THEOREM FailuresAreCaused == Spec => []FailureHasCause
<1>1. RegInv => FailureHasCause
  BY DEF RegInv
<1> QED BY <1>1, RegInvHolds, PTL

\* What lifecycle/auth inserts in several statements is there once and whole: a
\* second subject or permission was inserted by a request that raced, and the
\* subject of a family lacks its token only after a crash, an exception or the
\* deletion of the token.
THEOREM SubjectsStayWhole == Spec => []SubjectsAreWhole
<1>1. RegInv => SubjectsAreWhole
  BY WholeSubjects
<1> QED BY <1>1, RegInvHolds, PTL

\* authorize_resource_access grants a job exactly to those who hold a permission
\* for all jobs, for its family, for the job or for any job of the same version;
\* list_permitted_jobs lists exactly what a permission for all jobs or for the
\* job itself covers, and so leaves out what only the other two give access to.
THEOREM AccessStaysExplained == Spec => []AccessIsExplained
<1>1. RegInv => AccessIsExplained
  BY AccessFromRows DEF RegInv
<1> QED BY <1>1, RegInvHolds, PTL

-----------------------------------------------------------------------------
(* Versions are ordered                                                    *)

\* Compare in one formula.
AtMost(v, w) ==
    \/ v[1] < w[1]
    \/ v[1] = w[1] /\ v[2] < w[2]
    \/ v[1] = w[1] /\ v[2] = w[2] /\ v[3] < w[3]
    \/ /\ v[1] = w[1] /\ v[2] = w[2] /\ v[3] = w[3]
       /\ v[4] = w[4] \/ w[4] = 0 \/ (v[4] # 0 /\ v[4] < w[4])

LEMMA VersionNumbers ==
    ASSUME NEW v \in Version
    PROVE  /\ v[1] \in Nat /\ v[2] \in Nat /\ v[3] \in Nat /\ v[4] \in Nat
           /\ v = <<v[1], v[2], v[3], v[4]>>
<1>1. Labels \subseteq Nat
  BY LabelsAreText DEF Labels
<1>2. PICK a \in Nat, b \in Nat, c \in Nat, l \in Labels : v = <<a, b, c, l>>
  BY DEF Version
<1> QED BY <1>1, <1>2

LEMMA CompareIsAtMost ==
    ASSUME NEW v \in Version, NEW w \in Version
    PROVE  /\ Compare(v, w) \in Int
           /\ Compare(v, w) <= 0 <=> AtMost(v, w)
           /\ Compare(v, w) > 0 <=> ~AtMost(v, w)
<1>1. /\ v[1] \in Nat /\ v[2] \in Nat /\ v[3] \in Nat /\ v[4] \in Nat
      /\ w[1] \in Nat /\ w[2] \in Nat /\ w[3] \in Nat /\ w[4] \in Nat
  BY VersionNumbers
<1>2. CASE v[1] # w[1]
  BY <1>1, <1>2 DEF Compare, AtMost
<1>3. CASE v[1] = w[1] /\ v[2] # w[2]
  BY <1>1, <1>3 DEF Compare, AtMost
<1>4. CASE v[1] = w[1] /\ v[2] = w[2] /\ v[3] # w[3]
  BY <1>1, <1>4 DEF Compare, AtMost
<1>5. CASE v[1] = w[1] /\ v[2] = w[2] /\ v[3] = w[3]
  <2>1. Compare(v, w) = CompareLabels(v[4], w[4])
    BY <1>5 DEF Compare
  <2> QED BY <1>1, <1>5, <2>1 DEF CompareLabels, AtMost
<1> QED BY <1>2, <1>3, <1>4, <1>5

LEMMA CompareIsOrder ==
    ASSUME NEW u \in Version, NEW v \in Version, NEW w \in Version
    PROVE  /\ Compare(v, v) <= 0
           /\ Compare(v, w) <= 0 \/ Compare(w, v) <= 0
           /\ Compare(v, w) <= 0 /\ Compare(w, v) <= 0 => v = w
           /\ Compare(u, v) <= 0 /\ Compare(v, w) <= 0 => Compare(u, w) <= 0
<1>1. /\ u[1] \in Nat /\ u[2] \in Nat /\ u[3] \in Nat /\ u[4] \in Nat
      /\ v[1] \in Nat /\ v[2] \in Nat /\ v[3] \in Nat /\ v[4] \in Nat
      /\ w[1] \in Nat /\ w[2] \in Nat /\ w[3] \in Nat /\ w[4] \in Nat
  BY VersionNumbers
<1>2. AtMost(v, v) /\ (AtMost(v, w) \/ AtMost(w, v)) /\ (AtMost(u, v) /\ AtMost(v, w) => AtMost(u, w))
  BY <1>1 DEF AtMost
<1>3. ASSUME AtMost(v, w), AtMost(w, v) PROVE v = w
  <2>1. v[1] = w[1] /\ v[2] = w[2] /\ v[3] = w[3] /\ v[4] = w[4]
    BY <1>1, <1>3 DEF AtMost
  <2> QED BY <2>1, VersionNumbers
<1> QED BY <1>2, <1>3, CompareIsAtMost

\* Among versions of T that anyone may choose there is a highest.
Ordered(T) == \A S \in SUBSET T : S # {} => \E v \in S : \A w \in S : Compare(w, v) <= 0

LEMMA OneMoreIsOrdered ==
    ASSUME NEW T \in SUBSET Version, Ordered(T), NEW x \in Version
    PROVE  Ordered(T \cup {x})
<1> SUFFICES ASSUME NEW S \in SUBSET (T \cup {x}), S # {}
             PROVE  \E v \in S : \A w \in S : Compare(w, v) <= 0
  BY DEF Ordered
<1>1. CASE S \ {x} = {}
  <2>1. S = {x}
    BY <1>1
  <2> QED BY <2>1, CompareIsOrder
<1>2. CASE S \ {x} # {}
  <2>1. PICK m \in S \ {x} : \A w \in S \ {x} : Compare(w, m) <= 0
    BY <1>2 DEF Ordered
  <2>2. m \in Version
    BY <2>1
  <2>3. CASE Compare(x, m) <= 0
    BY <2>1, <2>3
  <2>4. CASE Compare(m, x) <= 0
    <3>1. CASE x \in S
      <4>1. \A w \in S : Compare(w, x) <= 0
        BY <2>1, <2>2, <2>4, CompareIsOrder
      <4> QED BY <3>1, <4>1
    <3>2. CASE x \notin S
      BY <2>1, <3>2
    <3> QED BY <3>1, <3>2
  <2> QED BY <2>2, <2>3, <2>4, CompareIsOrder
<1> QED BY <1>1, <1>2

\* find_latest_stable: the highest stable version, if there is any.
LEMMA LatestOf ==
    ASSUME NEW T \in SUBSET Version, Ordered(T)
    PROVE  LET v == FindLatestStable(T) IN
           /\ v # NoVersion => v \in T /\ IsStable(v)
           /\ \A w \in T : IsStable(w) => v # NoVersion /\ Compare(w, v) <= 0
<1> DEFINE stable == {v \in T : IsStable(v)}
<1>1. CASE stable = {}
  <2>1. FindLatestStable(T) = NoVersion
    BY <1>1 DEF FindLatestStable
  <2> QED BY <1>1, <2>1
<1>2. CASE stable # {}
  <2>1. \E v \in stable : \A w \in stable : Compare(w, v) <= 0
    BY <1>2 DEF Ordered
  <2>2. FindLatestStable(T) = Newest(stable)
    BY <1>2 DEF FindLatestStable
  <2>3. Newest(stable) \in stable /\ \A w \in stable : Compare(w, Newest(stable)) <= 0
    BY <2>1 DEF Newest
  <2>4. \A v \in stable : v # NoVersion
    <3>1. \A v \in Version : v # <<>>
      BY DEF Version
    <3> QED BY <3>1 DEF NoVersion
  <2> QED BY <2>2, <2>3, <2>4
<1> QED BY <1>1, <1>2

-----------------------------------------------------------------------------
(* The versions of a family                                                *)

\* A request is of a version that declares the endpoint, or whose manifest was
\* replaced.
RequestsAreDeclared ==
    \A v \in Known : jobs[v].endpoint # "none" => jobs[v].declared \/ v \in replaced

PortfolioInv ==
    /\ PortfolioTypeOK /\ IsFiniteSet(Known) /\ Ordered(Known) /\ RequestsAreDeclared

LEMMA KnownJobs ==
    ASSUME PortfolioTypeOK
    PROVE  /\ Known \subseteq Catalogue /\ Catalogue \subseteq Version
           /\ \A v \in Known : jobs[v] \in Job
           /\ \A v \in Catalogue : v \in Known <=> jobs[v].status # "absent"
<1>1. \A job \in Job : job # NoJob /\ job.status # "absent"
  BY DEF Job, NoJob, Statuses
<1>2. NoJob.status = "absent"
  BY DEF NoJob
<1> QED BY <1>1, <1>2, PortfolioAssumption DEF PortfolioTypeOK, Known

\* A step that sets one job to another or to none.
LEMMA OneJobSet ==
    ASSUME PortfolioInv, NEW v \in Catalogue, NEW job \in Job \cup {NoJob}, SetJob(v, job),
           deploying' \subseteq Catalogue \X BOOLEAN,
           replaced' \subseteq Catalogue, \A w \in replaced \ {v} : w \in replaced',
           job # NoJob => (job.endpoint # "none" => job.declared \/ v \in replaced')
    PROVE  PortfolioInv'
<1> USE DEF PortfolioInv
<1>1. jobs' \in [Catalogue -> Job \cup {NoJob}] /\ jobs'[v] = job /\ \A w \in Catalogue \ {v} : jobs'[w] = jobs[w]
  BY DEF PortfolioTypeOK, SetJob
<1>2. Known' \subseteq Known \cup {v} /\ v \in Version /\ Known \in SUBSET Version
  BY <1>1, KnownJobs DEF Known
<1>3. IsFiniteSet(Known')
  BY <1>2, FS_AddElement, FS_Subset
<1>4. Ordered(Known')
  <2>1. Ordered(Known \cup {v})
    BY <1>2, OneMoreIsOrdered
  <2> QED BY <1>2, <2>1 DEF Ordered
<1>5. RequestsAreDeclared'
  BY <1>1 DEF RequestsAreDeclared, Known
<1> QED BY <1>1, <1>3, <1>4, <1>5 DEF PortfolioTypeOK

LEMMA PortfolioInitInv == PortfolioInit => PortfolioInv
<1> SUFFICES ASSUME PortfolioInit PROVE PortfolioInv
  OBVIOUS
<1>1. PortfolioTypeOK
  BY DEF PortfolioInit, PortfolioTypeOK
<1>2. Known = {}
  BY DEF PortfolioInit, Known
<1>3. IsFiniteSet(Known) /\ Ordered(Known) /\ RequestsAreDeclared
  BY <1>2, FS_EmptySet DEF Ordered, RequestsAreDeclared
<1> QED BY <1>1, <1>3 DEF PortfolioInv

LEMMA PortfolioStep == PortfolioInv /\ [PortfolioNext]_portfolioVars => PortfolioInv'
<1> SUFFICES ASSUME PortfolioInv, [PortfolioNext]_portfolioVars PROVE PortfolioInv'
  OBVIOUS
<1>0. /\ PortfolioTypeOK
      /\ \A v \in Known : jobs[v] \in Job /\ v \in Catalogue
      /\ \A v \in Catalogue : v \in Known <=> jobs[v].status # "absent"
      /\ deploying \subseteq Catalogue \X BOOLEAN /\ replaced \subseteq Catalogue /\ MaxDays \in Nat
  BY KnownJobs, PortfolioAssumption DEF PortfolioInv, PortfolioTypeOK
<1>a. ASSUME NEW v \in Known, NEW declared \in BOOLEAN, Redeclared(v, declared)
      PROVE  /\ replaced' \subseteq Catalogue /\ \A w \in replaced : w \in replaced'
             /\ jobs[v].endpoint # "none" => declared \/ v \in replaced'
  <2>1. jobs[v].declared \in BOOLEAN /\ v \in Catalogue
    BY <1>0 DEF Job
  <2> QED BY <1>0, <1>a, <2>1 DEF Redeclared, PortfolioInv, RequestsAreDeclared
<1>b. ASSUME NEW v \in Catalogue, Forget(v), deploying' \subseteq Catalogue \X BOOLEAN PROVE PortfolioInv'
  BY <1>0, <1>b, OneJobSet DEF Forget
<1>1. ASSUME NEW v \in Catalogue, NEW declared \in BOOLEAN, DeployVersion(v, declared) PROVE PortfolioInv'
  <2> DEFINE job == [status |-> "starting", age |-> 0, idle |-> Never, declared |-> declared, endpoint |-> "none"]
  <2>1. job \in Job /\ job.endpoint = "none"
    BY DEF Job, Statuses
  <2>2. deploying' \subseteq Catalogue \X BOOLEAN /\ replaced' = replaced /\ SetJob(v, job)
    BY <1>0, <1>1 DEF DeployVersion, BeginDeployment
  <2> QED BY <1>0, <2>1, <2>2, OneJobSet
<1>2. ASSUME NEW v \in Catalogue, NEW declared \in BOOLEAN, DeployAgain(v, declared) PROVE PortfolioInv'
  <2> DEFINE job == [jobs[v] EXCEPT !.status = "starting", !.age = 0, !.idle = Never, !.declared = declared]
  <2>1. job \in Job /\ job.endpoint = jobs[v].endpoint /\ job.declared = declared
    BY <1>0, <1>2 DEF DeployAgain, Job, Statuses
  <2>2. deploying' \subseteq Catalogue \X BOOLEAN /\ SetJob(v, job)
    BY <1>0, <1>2 DEF DeployAgain, BeginDeployment
  <2> QED BY <1>0, <1>2, <1>a, <2>1, <2>2, OneJobSet DEF DeployAgain
<1>3. ASSUME NEW v \in Catalogue, NEW declared \in BOOLEAN, JobStarted(v, declared) PROVE PortfolioInv'
  <2> DEFINE job == [jobs[v] EXCEPT !.status = "running", !.idle = Never, !.declared = declared,
                                    !.endpoint = Registered(@, declared)]
  <2>1. job \in Job /\ job.endpoint = Registered(jobs[v].endpoint, declared) /\ job.declared = declared
    BY <1>0, <1>3 DEF JobStarted, Job, Statuses, Registered
  <2>2. deploying' \subseteq Catalogue \X BOOLEAN /\ SetJob(v, job)
    BY <1>0, <1>3 DEF JobStarted
  <2>3. job.endpoint # "none" => declared \/ v \in replaced'
    BY <1>3, <1>a, <2>1 DEF JobStarted, Registered
  <2> QED BY <1>0, <1>3, <1>a, <2>1, <2>2, <2>3, OneJobSet DEF JobStarted
<1>c. ASSUME NEW v \in Catalogue, NEW declared \in BOOLEAN, DeploymentFails(v, declared) PROVE PortfolioInv'
  <2>1. deploying' \subseteq Catalogue \X BOOLEAN
    BY <1>0, <1>c DEF DeploymentFails
  <2>2. CASE Forget(v)
    BY <2>1, <2>2, <1>b
  <2>3. CASE UNCHANGED <<jobs, replaced>>
    BY <2>1, <2>3 DEF PortfolioInv, PortfolioTypeOK, Known, Ordered, RequestsAreDeclared
  <2> QED BY <1>c, <2>2, <2>3 DEF DeploymentFails
<1>d. ASSUME NEW v \in Catalogue, NEW declared \in BOOLEAN, UpdateJobManifest(v, declared) PROVE PortfolioInv'
  <2> DEFINE job == [jobs[v] EXCEPT !.declared = declared]
  <2>1. job \in Job /\ job.endpoint = jobs[v].endpoint /\ job.declared = declared
    BY <1>0, <1>d DEF UpdateJobManifest, Job
  <2> QED BY <1>0, <1>d, <1>a, <2>1, OneJobSet DEF UpdateJobManifest
<1>4. ASSUME NEW v \in Catalogue, NEW status \in {"running", "error", "lost"}, Synchronise(v, status) PROVE PortfolioInv'
  <2> DEFINE job == [jobs[v] EXCEPT !.status = status]
  <2>1. v \in Known
    BY <1>0, <1>4 DEF Synchronise
  <2>2. job \in Job
    BY <1>0, <2>1 DEF Job, Statuses
  <2>3. job.endpoint # "none" => job.declared \/ v \in replaced
    BY <1>0, <2>1 DEF Job, PortfolioInv, RequestsAreDeclared
  <2> QED BY <1>0, <1>4, <2>2, <2>3, OneJobSet DEF Synchronise
<1>5. ASSUME NEW v \in Catalogue, RemoveJob(v) PROVE PortfolioInv'
  BY <1>0, <1>5, <1>b DEF RemoveJob
<1>6. ASSUME NEW v \in Catalogue, Call(v) PROVE PortfolioInv'
  <2> DEFINE job == [jobs[v] EXCEPT !.idle = 0]
  <2>1. v \in Known
    BY <1>0, <1>6 DEF Call
  <2>2. job \in Job
    BY <1>0, <2>1 DEF Job
  <2>3. job.endpoint # "none" => job.declared \/ v \in replaced
    BY <1>0, <2>1 DEF Job, PortfolioInv, RequestsAreDeclared
  <2> QED BY <1>0, <1>6, <2>2, <2>3, OneJobSet DEF Call
<1>7. ASSUME NEW v \in Catalogue, NEW active \in BOOLEAN, Activate(v, active) PROVE PortfolioInv'
  <2> DEFINE job == [jobs[v] EXCEPT !.endpoint = IF active THEN "active" ELSE "requested"]
  <2>1. v \in Known
    BY <1>7 DEF Activate
  <2>2. job \in Job
    BY <1>0, <2>1 DEF Job
  <2>3. job.endpoint # "none" => job.declared \/ v \in replaced
    BY <1>0, <1>7, <2>1 DEF Activate, Job, PortfolioInv, RequestsAreDeclared
  <2> QED BY <1>0, <1>7, <2>2, <2>3, OneJobSet DEF Activate
<1>8. ASSUME TimePasses PROVE PortfolioInv'
  <2> DEFINE Aged(v) == [jobs[v] EXCEPT !.age = MaxDays, !.idle = IF @ = Never THEN @ ELSE MaxDays]
  <2>1. jobs' = [v \in Catalogue |-> IF v \notin Known THEN NoJob ELSE Aged(v)] /\ deploying' = deploying /\ replaced' = replaced
    BY <1>8 DEF TimePasses
  <2>2. \A v \in Known : Aged(v) \in Job /\ Aged(v).endpoint = jobs[v].endpoint /\ Aged(v).declared = jobs[v].declared
    BY <1>0 DEF Job
  <2>3. \A v \in Known : Aged(v) # NoJob
    BY <2>2 DEF Job, NoJob, Statuses
  <2>4. Known' = Known
    BY <1>0, <2>1, <2>3 DEF Known
  <2>5. PortfolioTypeOK'
    BY <1>0, <2>1, <2>2 DEF PortfolioTypeOK
  <2>6. RequestsAreDeclared'
    BY <1>0, <2>1, <2>2, <2>4 DEF RequestsAreDeclared, PortfolioInv
  <2> QED BY <2>4, <2>5, <2>6 DEF PortfolioInv, Ordered
<1>9. ASSUME UNCHANGED portfolioVars PROVE PortfolioInv'
  BY <1>9 DEF portfolioVars, PortfolioInv, PortfolioTypeOK, Known, Ordered, RequestsAreDeclared
<1> QED BY <1>1, <1>2, <1>3, <1>4, <1>5, <1>6, <1>7, <1>8, <1>9, <1>c, <1>d DEF PortfolioNext

-----------------------------------------------------------------------------
(* What follows for the aliases and the advice                             *)

LEMMA OrderedParts ==
    ASSUME PortfolioInv, NEW T \in SUBSET Known
    PROVE  T \in SUBSET Version /\ Ordered(T)
BY KnownJobs DEF PortfolioInv, Ordered

LEMMA CallableIsKnown ==
    ASSUME PortfolioInv
    PROVE  Callable \subseteq Known
BY KnownJobs DEF PortfolioInv, Callable, HasStatus

LEMMA Nesting == ASSUME PortfolioInv PROVE AliasesNest
<1> SUFFICES ASSUME NEW p \in Patterns, ReadLatestWildcard(p) # NoVersion
             PROVE  /\ ReadLatest # NoVersion /\ Compare(ReadLatestWildcard(p), ReadLatest) <= 0
                    /\ ReadLatest \in Matching[p] => ReadLatestWildcard(p) = ReadLatest
  BY DEF AliasesNest
<1> DEFINE pinned == ReadLatestWildcard(p)
           narrow == Callable \cap Matching[p]
<1>1. /\ Callable \in SUBSET Version /\ Ordered(Callable)
      /\ narrow \in SUBSET Version /\ Ordered(narrow)
  BY CallableIsKnown, OrderedParts
<1>2. pinned \in narrow /\ IsStable(pinned) /\ \A w \in narrow : IsStable(w) => Compare(w, pinned) <= 0
  BY <1>1, LatestOf DEF ReadLatestWildcard
<1>3. ReadLatest # NoVersion /\ Compare(pinned, ReadLatest) <= 0 /\ ReadLatest \in Callable /\ IsStable(ReadLatest)
  BY <1>1, <1>2, LatestOf DEF ReadLatest
<1>4. ReadLatest \in Matching[p] => pinned = ReadLatest
  BY <1>1, <1>2, <1>3, CompareIsOrder
<1> QED BY <1>3, <1>4

LEMMA Outdating == ASSUME PortfolioInv PROVE OutdatedHasCause
<1> SUFFICES ASSUME ReadLatest # NoVersion, CountNewerVersions(ReadLatest) > 0
             PROVE  \E w \in Known : Compare(w, ReadLatest) > 0 /\ (~IsStable(w) \/ jobs[w].status = "starting")
  BY DEF OutdatedHasCause
<1>1. PICK w \in Known : Compare(w, ReadLatest) > 0
  <2>1. {w \in Known : Compare(w, ReadLatest) > 0} # {}
    BY FS_EmptySet DEF CountNewerVersions
  <2> QED BY <2>1
<1>2. Callable \in SUBSET Version /\ Ordered(Callable) /\ w \in Version
  BY CallableIsKnown, OrderedParts, KnownJobs DEF PortfolioInv
<1>3. ReadLatest \in Version
  BY <1>2, LatestOf DEF ReadLatest
<1>4. IsStable(w) => w \notin Callable
  BY <1>1, <1>2, <1>3, LatestOf, CompareIsAtMost DEF ReadLatest
<1>5. w \notin Callable => jobs[w].status = "starting"
  BY KnownJobs DEF PortfolioInv, Callable, HasStatus, Job, Statuses
<1> QED BY <1>1, <1>4, <1>5

LEMMA Purging == ASSUME PortfolioInv PROVE LostGoFirst
<1> SUFFICES ASSUME NEW v \in HasStatus({"lost"}), NEW w \in Known, jobs[w].status # "lost"
             PROVE  PurgeScore(v) > PurgeScore(w)
  BY DEF LostGoFirst
<1>1. v \in Known /\ jobs[v] \in Job /\ jobs[w] \in Job /\ jobs[v].status = "lost" /\ MaxDays \in Nat
  BY KnownJobs, PortfolioAssumption DEF PortfolioInv, HasStatus
<1>2. \A u \in Known : CountNewerVersions(u) \in Nat
  <2> TAKE u \in Known
  <2>1. IsFiniteSet({x \in Known : Compare(x, u) > 0})
    BY FS_Subset DEF PortfolioInv
  <2> QED BY <2>1, FS_CardinalityType DEF CountNewerVersions
<1>3. \A u \in Known : Interpolate(CountNewerVersions(u), 5) \in 0..5
  BY <1>2 DEF Interpolate
<1>4. \A u \in Known : IdlePenalty(u) \in 0..30
  <2> TAKE u \in Known
  <2>1. jobs[u].idle \in Nat /\ jobs[u].age \in Nat
    BY KnownJobs, PortfolioAssumption DEF PortfolioInv, Job, Never
  <2> QED BY <2>1 DEF IdlePenalty, Interpolate
<1>5. StatusPenalty(v) = 150 /\ StatusPenalty(w) \in {0, 60}
  BY <1>1 DEF StatusPenalty
<1> QED BY <1>1, <1>3, <1>4, <1>5 DEF PurgeScore

LEMMA Publishing == ASSUME PortfolioInv PROVE UndeclaredHasCause
<1> SUFFICES ASSUME NEW alias \in Aliases, IsPublic(alias)
             PROVE  jobs[Resolve(alias)].declared \/ Resolve(alias) \in replaced
  BY DEF UndeclaredHasCause
<1>1. \A T \in SUBSET Known : FindLatestStable(T) # NoVersion => FindLatestStable(T) \in Known
  BY OrderedParts, LatestOf
<1>2. Callable \subseteq Known
  BY CallableIsKnown
<1>3. ReadLatest # NoVersion => ReadLatest \in Known
  BY <1>1, <1>2 DEF ReadLatest
<1>4. \A p \in Patterns : ReadLatestWildcard(p) # NoVersion => ReadLatestWildcard(p) \in Known
  BY <1>1, <1>2 DEF ReadLatestWildcard
<1>5. Resolve(alias) \in Known
  BY <1>3, <1>4 DEF Resolve, IsPublic
<1> QED BY <1>5 DEF IsPublic, PortfolioInv, RequestsAreDeclared

\* Aliases nest, the advice of the portfolio contradicts them only where the
\* property says so, and only declared endpoints are public unless the manifest
\* was replaced (models_registry.py, portfolio.py, public_endpoints.py), for any
\* versions and patterns of them.
THEOREM VersionsStayExplained ==
    PortfolioInit /\ [][PortfolioNext]_portfolioVars => []VersionsAreExplained
<1>1. PortfolioInv => VersionsAreExplained
  BY Nesting, Outdating, Purging, Publishing DEF VersionsAreExplained
<1> QED BY <1>1, PortfolioInitInv, PortfolioStep, PTL

=============================================================================
