------------------------------ MODULE DefaultAuth ------------------------------
(***************************************************************************)
(* The migration `init_default_auth`: a resource, two policies, two roles  *)
(* and two groups that name each other by id, each looked up by its name   *)
(* and inserted when it is not there, and a log entry.  "Migrations are    *)
(* expected to be idempotent": an application may die or fail between any  *)
(* two of its calls and be tried again, and nothing keeps two applications *)
(* apart.                                                                  *)
(***************************************************************************)
EXTENDS DocumentStore, FiniteSets

CONSTANTS
  Applications,   \* the applications of the migration
  MaxAtOnce       \* a bound on those that run at the same time

VARIABLES
  stored,      \* the documents of each collection
  log,         \* the applications that have their LogEntry in the store
  at,          \* where each application is
  ids,         \* the ids of the documents it has ensured so far
  overlapped,  \* history: whether two applications ever ran at the same time
  clean        \* history: whether no default was there twice when it began

vars == <<stored, log, at, ids, overlapped, clean>>

------------------------------------------------------------------------------
(* The seven documents.  `refers` is the place in Defaults of the document it names.   *)

AnyResource == [collection |-> "Resource", name |-> "*", refers |-> 0]

AllowAnyPolicy ==
  [collection |-> "Policy", name |-> "allow any", refers |-> 1, action |-> "Any", effect |-> "Allow"]

AdminRole == [collection |-> "Role", name |-> "administrator", refers |-> 2]

AdminGroup == [collection |-> "Group", name |-> "Administrators", refers |-> 3]

DisabledPolicy ==
  [collection |-> "Policy", name |-> "disabled", refers |-> 1, action |-> "Any", effect |-> "Deny"]

DisabledRole == [collection |-> "Role", name |-> "disabled", refers |-> 5]

DisabledGroup == [collection |-> "Group", name |-> "disabled", refers |-> 6]

\* In the order commit() ensures them.
Defaults ==
  <<AnyResource, AllowAnyPolicy, AdminRole, AdminGroup, DisabledPolicy, DisabledRole,
    DisabledGroup>>

Collections == {"Resource", "Policy", "Role", "Group"}

Init ==
  /\ stored = [c \in Collections |-> <<>>]
  /\ log = {}
  /\ at = [a \in Applications |-> "new"]
  /\ ids = [a \in Applications |-> <<>>]
  /\ overlapped = FALSE
  /\ clean = [a \in Applications |-> TRUE]

------------------------------------------------------------------------------

Active(a) == at[a] \in {"ensuring", "inserting", "logging"}

Existing(n) == Query(stored[Defaults[n].collection], [name |-> Defaults[n].name])

Unique == \A n \in DOMAIN Defaults : Cardinality(Existing(n)) <= 1

\* sync() applies the migration: commit() connects to the store.
Begin(a) ==
  /\ at[a] = "new"
  /\ Cardinality({b \in Applications : Active(b)}) < MaxAtOnce
  /\ at' = [at EXCEPT ![a] = "ensuring"]
  /\ overlapped' = (overlapped \/ \E b \in Applications : Active(b))
  /\ clean' = [clean EXCEPT ![a] = Unique]
  /\ UNCHANGED <<stored, log, ids>>

\* The document commit() is about to ensure.
Place(a) == Len(ids[a]) + 1

\* The id it names: of a document this application has ensured.
Reference(a, n) == IF Defaults[n].refers = 0 THEN NoId ELSE ids[a][Defaults[n].refers]

\* commit() returns an error or its process dies: it forgets what it has ensured.
Fail(a, outcome) ==
  /\ at' = [at EXCEPT ![a] = outcome]
  /\ ids' = [ids EXCEPT ![a] = <<>>]
  /\ clean' = [clean EXCEPT ![a] = TRUE]
  /\ UNCHANGED overlapped

\* An ensure_ function returns the document to commit().
Ensured(a, id) ==
  /\ ids' = [ids EXCEPT ![a] = Append(@, id)]
  /\ at' = [at EXCEPT ![a] = IF Place(a) = Len(Defaults) THEN "logging" ELSE "ensuring"]
  /\ UNCHANGED <<overlapped, clean>>

\* Mutant of Linked: the reference of a document that exists is not compared.
LinkedUnchecked(a, n, id) == TRUE

Linked(a, n, id) == stored[Defaults[n].collection][id].refers = Reference(a, n)

\* Mutant of Invalid: the first of the documents found is taken.
InvalidUnlinked(a, n) == \A id \in Existing(n) : ~Linked(a, n, id)

\* "invalid db state" and "invalid id state".
Invalid(a, n) == Cardinality(Existing(n)) > 1 \/ \E id \in Existing(n) : ~Linked(a, n, id)

\* Mutant of Lookup: the query goes by id and never finds a default that is there.
LookupBlind(a) ==
  /\ at[a] = "ensuring"
  /\ at' = [at EXCEPT ![a] = "inserting"]
  /\ UNCHANGED <<stored, log, ids, overlapped, clean>>

\* An ensure_ function looks its document up.
Lookup(a) ==
  /\ at[a] = "ensuring"
  /\ LET n == Place(a)
     IN  \/ /\ Existing(n) = {}
            /\ at' = [at EXCEPT ![a] = "inserting"]
            /\ UNCHANGED <<ids, overlapped, clean>>
         \/ /\ Existing(n) # {} /\ Invalid(a, n)
            /\ Fail(a, "refused")
         \/ /\ ~Invalid(a, n)
            /\ \E id \in Existing(n) : Ensured(a, id)
         \/ Fail(a, "failed")
  /\ UNCHANGED <<stored, log>>

\* A default with the id of the document it names.
Referring(n, id) == [Defaults[n] EXCEPT !.refers = id]

\* Mutant of NewDoc: the reference is left out.
NewDocDangling(a, n) == Referring(n, NoId)

NewDoc(a, n) == Referring(n, Reference(a, n))

Inserted(a, n) ==
  [stored EXCEPT ![Defaults[n].collection] = Insert(@, NewDoc(a, n))]

\* Mutant of InsertDefault: an insert that failed is taken for one that succeeded.
InsertDefaultUnchecked(a) ==
  /\ at[a] = "inserting"
  /\ LET n == Place(a)
     IN  /\ stored' \in {stored, Inserted(a, n)}
         /\ Ensured(a, Len(stored[Defaults[n].collection]) + 1)
  /\ UNCHANGED log

\* It inserts what it has not found, under a new id.  The insert may fail, or its reply
\* may be lost.
InsertDefault(a) ==
  /\ at[a] = "inserting"
  /\ LET n == Place(a)
     IN  \/ /\ stored' = Inserted(a, n)
            /\ Ensured(a, Len(stored[Defaults[n].collection]) + 1)
         \/ /\ stored' \in {stored, Inserted(a, n)}
            /\ Fail(a, "failed")
  /\ UNCHANGED log

\* Store::insert of the LogEntry.
InsertLogEntry(a) ==
  /\ at[a] = "logging"
  /\ \/ /\ log' = log \cup {a}
        /\ at' = [at EXCEPT ![a] = "ok"]
        /\ UNCHANGED <<ids, overlapped, clean>>
     \/ log' \in {log, log \cup {a}} /\ Fail(a, "failed")
  /\ UNCHANGED stored

\* The process dies.
Crash(a) ==
  /\ Active(a)
  /\ Fail(a, "failed")
  /\ UNCHANGED <<stored, log>>

Apply(a) == Begin(a) \/ Lookup(a) \/ InsertDefault(a) \/ InsertLogEntry(a)

Next == \E a \in Applications : Apply(a) \/ Crash(a)

Spec == Init /\ [][Next]_vars

------------------------------------------------------------------------------
(* Properties. *)

\* Documents are defaults whose reference is an id of the collection they refer to, and
\* an application has the ids of documents of the store.
TypeOK ==
  /\ overlapped \in BOOLEAN /\ clean \in [Applications -> BOOLEAN]
  /\ \A c \in Collections : \A i \in DOMAIN stored[c] :
       \E n \in DOMAIN Defaults :
         /\ Defaults[n].collection = c /\ Defaults[n].name = stored[c][i].name
         /\ IF Defaults[n].refers = 0 THEN stored[c][i].refers = NoId
            ELSE stored[c][i].refers \in
                   1..Len(stored[Defaults[Defaults[n].refers].collection])
  /\ \A a \in Applications :
       /\ at[a] \in {"new", "ensuring", "inserting", "logging", "ok", "failed", "refused"}
       /\ Len(ids[a]) <= Len(Defaults)
       /\ at[a] \in {"logging", "ok"} <=> Len(ids[a]) = Len(Defaults)
       /\ \A n \in DOMAIN ids[a] : ids[a][n] \in 1..Len(stored[Defaults[n].collection])

\* As long as no two applications ran at the same time, no default is there twice,
\* wherever earlier applications died and whatever replies were lost.  With
\* AppliedIsLinked this is core/tests/migrations.rs:21, "Rerun and assert same ids".
UniqueDefaults == ~overlapped => Unique

\* ... and an application is never refused: what a dead one left is completed.
NeverRefused == ~overlapped => \A a \in Applications : at[a] # "refused"

\* An application that ended well has its seven documents in the store, each naming the
\* one it has to, also when others ran at the same time.
AppliedIsLinked ==
  \A a \in Applications : at[a] = "ok" =>
    /\ a \in log
    /\ \A n \in DOMAIN Defaults :
         /\ ids[a][n] \in Existing(n)
         /\ stored[Defaults[n].collection][ids[a][n]].refers = Reference(a, n)

\* Defaults that are there twice are found out: no application that begins after it ends
\* well.
DuplicatesFoundOut == \A a \in Applications : at[a] = "ok" => clean[a]
==============================================================================
