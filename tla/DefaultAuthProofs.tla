--------------------------- MODULE DefaultAuthProofs ---------------------------
(***************************************************************************)
(* Proofs about the migration, for any number of applications.  The store  *)
(* is looked at through two functions of the place n of a default: Known,  *)
(* the ids of the documents with its name, and Refs, what they refer to.   *)
(***************************************************************************)
EXTENDS DefaultAuth, FiniteSetTheorems, TLAPS

Places == 1..7

Known == [n \in Places |-> Existing(n)]

Refs == [n \in Places |-> [i \in Existing(n) |-> stored[Defaults[n].collection][i].refers]]

\* What the proofs use of the list of defaults.
LEMMA DefaultsFacts ==
  /\ DOMAIN Defaults = Places /\ Len(Defaults) = 7
  /\ \A n \in Places : /\ Defaults[n].collection \in Collections
                       /\ Defaults[n].refers \in Nat /\ Defaults[n].refers < n
                       /\ {"collection", "name", "refers"} \subseteq DOMAIN Defaults[n]
  /\ \A n, m \in Places : Defaults[n].collection = Defaults[m].collection
                            /\ Defaults[n].name = Defaults[m].name => n = m
<1>1. DOMAIN Defaults = Places /\ Len(Defaults) = 7
  BY DEF Defaults, Places
<1>2. Defaults[1].collection = "Resource" /\ Defaults[1].name = "*" /\ Defaults[1].refers = 0
  BY DEF Defaults, AnyResource
<1>3. Defaults[2].collection = "Policy" /\ Defaults[2].name = "allow any" /\ Defaults[2].refers = 1
  BY DEF Defaults, AllowAnyPolicy
<1>4. Defaults[3].collection = "Role" /\ Defaults[3].name = "administrator" /\ Defaults[3].refers = 2
  BY DEF Defaults, AdminRole
<1>5. Defaults[4].collection = "Group" /\ Defaults[4].name = "Administrators" /\ Defaults[4].refers = 3
  BY DEF Defaults, AdminGroup
<1>6. Defaults[5].collection = "Policy" /\ Defaults[5].name = "disabled" /\ Defaults[5].refers = 1
  BY DEF Defaults, DisabledPolicy
<1>7. Defaults[6].collection = "Role" /\ Defaults[6].name = "disabled" /\ Defaults[6].refers = 5
  BY DEF Defaults, DisabledRole
<1>8. Defaults[7].collection = "Group" /\ Defaults[7].name = "disabled" /\ Defaults[7].refers = 6
  BY DEF Defaults, DisabledGroup
<1>9. \A n \in Places : n = 1 \/ n = 2 \/ n = 3 \/ n = 4 \/ n = 5 \/ n = 6 \/ n = 7
  BY DEF Places
<1>10. ASSUME NEW n \in Places
       PROVE  /\ Defaults[n].collection \in Collections
              /\ Defaults[n].refers \in Nat /\ Defaults[n].refers < n
              /\ {"collection", "name", "refers"} \subseteq DOMAIN Defaults[n]
  <2>1. CASE n = 1
    BY <1>2, <2>1 DEF Collections, Defaults, AnyResource
  <2>2. CASE n = 2
    <3>1. {"collection", "name", "refers"} \subseteq DOMAIN Defaults[2]
      BY DEF Defaults, AllowAnyPolicy
    <3>2. Defaults[2].collection \in Collections
      BY <1>3 DEF Collections
    <3>3. Defaults[2].refers \in Nat /\ Defaults[2].refers < 2
      <4>1. Defaults[2].refers = 1
        BY <1>3
      <4>2. 1 \in Nat /\ 1 < 2
        OBVIOUS
      <4> QED
        BY <4>1, <4>2, Zenon
    <3> QED
      BY <2>2, <3>1, <3>2, <3>3
  <2>3. CASE n = 3
    BY <1>4, <2>3 DEF Collections, Defaults, AdminRole
  <2>4. CASE n = 4
    BY <1>5, <2>4 DEF Collections, Defaults, AdminGroup
  <2>5. CASE n = 5
    BY <1>6, <2>5 DEF Collections, Defaults, DisabledPolicy
  <2>6. CASE n = 6
    BY <1>7, <2>6 DEF Collections, Defaults, DisabledRole
  <2>7. CASE n = 7
    BY <1>8, <2>7 DEF Collections, Defaults, DisabledGroup
  <2> QED
    BY <1>9, <2>1, <2>2, <2>3, <2>4, <2>5, <2>6, <2>7
<1>11. \A n, m \in Places : Defaults[n].collection = Defaults[m].collection
                             /\ Defaults[n].name = Defaults[m].name => n = m
  BY <1>2, <1>3, <1>4, <1>5, <1>6, <1>7, <1>8, <1>9
<1> QED
  BY <1>1, <1>10, <1>11

\* Every stored document is a default with some reference, in the default's collection.
DocsAreDefaults ==
  /\ DOMAIN stored = Collections
  /\ \A c \in Collections :
       /\ Len(stored[c]) \in Nat /\ DOMAIN stored[c] = 1..Len(stored[c])
       /\ \A i \in DOMAIN stored[c] : \E n \in Places : \E ref \in Nat :
            /\ Defaults[n].collection = c
            /\ stored[c][i] = Referring(n, ref)

\* The type of what is not the store.
Shape ==
  /\ at \in [Applications -> {"new", "ensuring", "inserting", "logging", "ok", "failed", "refused"}]
  /\ ids \in [Applications -> Seq(Nat)]
  /\ overlapped \in BOOLEAN /\ clean \in [Applications -> BOOLEAN]
  /\ \A a \in Applications : /\ Len(ids[a]) <= 7
                             /\ at[a] \in {"ensuring", "inserting"} => Len(ids[a]) < 7
                             /\ at[a] \in {"logging", "ok"} => Len(ids[a]) = 7
                             /\ at[a] \in {"new", "failed", "refused"} => ids[a] = <<>>
                             /\ at[a] = "ok" => a \in log

\* The documents an application has ensured are there and name each other.
Holding ==
  \A a \in Applications : \A n \in DOMAIN ids[a] :
    ids[a][n] \in Known[n] /\ Refs[n][ids[a][n]] = Reference(a, n)

\* Every document names a document that is there.
Chained ==
  \A n \in Places : \A i \in Known[n] :
    IF Defaults[n].refers = 0 THEN Refs[n][i] = NoId
    ELSE Refs[n][i] \in Known[Defaults[n].refers]

\* What holds as long as no two applications ran at the same time.
Apart ==
  ~overlapped =>
    /\ \A a, b \in Applications : Active(a) /\ Active(b) => a = b
    /\ \A n \in Places : Cardinality(Known[n]) <= 1
    /\ \A a \in Applications : at[a] = "inserting" => Known[Len(ids[a]) + 1] = {}
    /\ \A a \in Applications : at[a] # "refused"

\* An application that began with a default there twice has not come past it.
Stopped ==
  \A a \in Applications :
    /\ at[a] = "ok" => clean[a]
    /\ Active(a) /\ ~clean[a] =>
         \E n \in Places : /\ Cardinality(Known[n]) > 1 /\ Len(ids[a]) < n
                           /\ at[a] = "inserting" => Len(ids[a]) + 1 # n

Finite == \A n \in Places : IsFiniteSet(Known[n])

IInv ==
  DocsAreDefaults /\ Shape /\ Holding /\ Chained /\ Apart /\ Stopped /\ Finite

------------------------------------------------------------------------------
(* The store. *)

\* The fields of a default that has got its reference.
LEMMA NewDocFields ==
  ASSUME NEW n \in Places, NEW ref
  PROVE  /\ Referring(n, ref).name = Defaults[n].name
         /\ Referring(n, ref).refers = ref
         /\ "name" \in DOMAIN Referring(n, ref)
BY DefaultsFacts DEF Referring

\* The documents with the name of a default.
LEMMA ExistingIs ==
  ASSUME DocsAreDefaults, NEW n \in Places
  PROVE  Existing(n) = {i \in DOMAIN stored[Defaults[n].collection] :
                          stored[Defaults[n].collection][i].name = Defaults[n].name}
<1> DEFINE c == Defaults[n].collection
<1>1. c \in Collections
  BY DefaultsFacts
<1>2. ASSUME NEW i \in DOMAIN stored[c] PROVE "name" \in DOMAIN stored[c][i]
  <2>1. PICK m \in Places, ref \in Nat : stored[c][i] = Referring(m, ref)
    BY <1>1 DEF DocsAreDefaults
  <2> QED
    BY <2>1, NewDocFields
<1> QED
  BY <1>2 DEF Existing, Query

\* An insert adds one document under its own name, and leaves everything else.
LEMMA InsertAdds ==
  ASSUME DocsAreDefaults, NEW a \in Applications, NEW n \in Places,
         Reference(a, n) \in Nat, stored' = Inserted(a, n)
  PROVE  LET k == Len(stored[Defaults[n].collection]) + 1
         IN  /\ DocsAreDefaults'
             /\ k \notin Known[n] /\ k \in Nat
             /\ Known' = [Known EXCEPT ![n] = @ \cup {k}]
             /\ \A m \in Places : \A i \in Known[m] : Refs'[m][i] = Refs[m][i]
             /\ Refs'[n][k] = Reference(a, n)
<1> DEFINE c == Defaults[n].collection
           k == Len(stored[c]) + 1
           doc == NewDoc(a, n)
<1>1. c \in Collections
  BY DefaultsFacts
<1>2. doc.name = Defaults[n].name /\ doc.refers = Reference(a, n)
  BY NewDocFields DEF NewDoc
<1>3. Len(stored[c]) \in Nat /\ DOMAIN stored[c] = 1..Len(stored[c]) /\ DOMAIN stored = Collections
  BY <1>1 DEF DocsAreDefaults
<1>4. /\ DOMAIN stored' = Collections
      /\ stored'[c] = Append(stored[c], doc)
      /\ \A d \in Collections \ {c} : stored'[d] = stored[d]
  BY <1>1, <1>3 DEF Inserted, Insert
<1>5. /\ Len(stored'[c]) = k /\ DOMAIN stored'[c] = 1..k
      /\ stored'[c][k] = doc
      /\ \A i \in DOMAIN stored[c] : stored'[c][i] = stored[c][i]
  BY <1>3, <1>4
<1>6. DocsAreDefaults'
  <2>1. ASSUME NEW d \in Collections
        PROVE  /\ Len(stored'[d]) \in Nat /\ DOMAIN stored'[d] = 1..Len(stored'[d])
               /\ \A i \in DOMAIN stored'[d] : \E m \in Places : \E ref \in Nat :
                    /\ Defaults[m].collection = d
                    /\ stored'[d][i] = Referring(m, ref)
    <3>1. CASE d # c
      BY <1>4, <3>1 DEF DocsAreDefaults
    <3>2. CASE d = c
      <4>1. ASSUME NEW i \in DOMAIN stored'[c]
            PROVE  \E m \in Places : \E ref \in Nat :
                     /\ Defaults[m].collection = c
                     /\ stored'[c][i] = Referring(m, ref)
        <5>1. CASE i = k
          <6>1. stored'[c][i] = Referring(n, Reference(a, n))
            BY <1>5, <5>1 DEF NewDoc
          <6> QED
            BY <6>1
        <5>2. CASE i # k
          <6>1. i \in DOMAIN stored[c]
            BY <1>3, <1>5, <5>2
          <6> QED
            BY <1>1, <1>5, <6>1 DEF DocsAreDefaults
        <5> QED
          BY <5>1, <5>2
      <4>2. Len(stored'[c]) \in Nat /\ DOMAIN stored'[c] = 1..Len(stored'[c])
        BY <1>3, <1>5
      <4> QED
        BY <3>2, <4>1, <4>2
    <3> QED
      BY <3>1, <3>2
  <2> QED
    BY <1>4, <2>1 DEF DocsAreDefaults
<1>7. ASSUME NEW m \in Places
      PROVE  /\ Existing(m)' = IF m = n THEN Existing(m) \cup {k} ELSE Existing(m)
             /\ \A i \in Existing(m) :
                  stored'[Defaults[m].collection][i] = stored[Defaults[m].collection][i]
  <2>1. Existing(m) = {i \in DOMAIN stored[Defaults[m].collection] :
                         stored[Defaults[m].collection][i].name = Defaults[m].name}
    BY ExistingIs
  <2>2. Existing(m)' = {i \in DOMAIN stored'[Defaults[m].collection] :
                          stored'[Defaults[m].collection][i].name = Defaults[m].name}
    <3>1. ASSUME NEW i \in DOMAIN stored'[Defaults[m].collection]
          PROVE  "name" \in DOMAIN stored'[Defaults[m].collection][i]
      <4>1. Defaults[m].collection \in Collections
        BY DefaultsFacts
      <4> HIDE DEF c, k, doc
      <4>2. PICK j \in Places : \E ref \in Nat :
              stored'[Defaults[m].collection][i] = Referring(j, ref)
        BY <1>6, <4>1 DEF DocsAreDefaults
      <4> QED
        BY <4>2, NewDocFields
    <3> QED
      BY <3>1 DEF Existing, Query
  <2>3. Defaults[m].collection \in Collections
    BY DefaultsFacts
  <2>4. CASE Defaults[m].collection # c
    BY <1>4, <2>1, <2>2, <2>3, <2>4
  <2>5. CASE Defaults[m].collection = c
    <3>1. doc.name = Defaults[m].name <=> m = n
      BY <1>2, <2>5, DefaultsFacts
    <3>2. DOMAIN stored'[c] = DOMAIN stored[c] \cup {k} /\ k \notin DOMAIN stored[c]
      BY <1>3, <1>5
    <3> HIDE DEF c, k, doc
    <3>3. Existing(m)' = {i \in DOMAIN stored[c] \cup {k} : stored'[c][i].name = Defaults[m].name}
      BY <2>2, <2>5, <3>2
    <3>4. Existing(m) = {i \in DOMAIN stored[c] : stored'[c][i].name = Defaults[m].name}
      BY <1>5, <2>1, <2>5
    <3>5. stored'[c][k].name = Defaults[m].name <=> m = n
      BY <1>5, <3>1
    <3>6. Existing(m)' = IF m = n THEN Existing(m) \cup {k} ELSE Existing(m)
      BY <3>3, <3>4, <3>5
    <3>7. \A i \in Existing(m) : stored'[c][i] = stored[c][i]
      BY <1>5, <2>1, <2>5
    <3> QED
      BY <2>5, <3>6, <3>7
  <2> QED
    BY <2>4, <2>5
<1>8. k \notin Known[n] /\ k \in Nat
  BY <1>3, ExistingIs DEF Known
<1>9. Known' = [Known EXCEPT ![n] = @ \cup {k}]
  BY <1>7 DEF Known
<1>10. \A m \in Places : \A i \in Known[m] : Refs'[m][i] = Refs[m][i]
  BY <1>7 DEF Known, Refs
<1>11. Refs'[n][k] = Reference(a, n)
  BY <1>2, <1>5, <1>7 DEF Refs
<1> QED
  BY <1>6, <1>8, <1>9, <1>10, <1>11

LEMMA StoreKept ==
  ASSUME stored' = stored
  PROVE  Known' = Known /\ Refs' = Refs /\ (DocsAreDefaults => DocsAreDefaults')
<1>1. Known' = Known /\ Refs' = Refs
  BY DEF Known, Refs, Existing, Query
<1> QED
  BY <1>1 DEF DocsAreDefaults

------------------------------------------------------------------------------
(* The invariant. *)

\* What an application about to look up or insert the document at n knows.
LEMMA AtPlace ==
  ASSUME IInv, NEW a \in Applications, at[a] \in {"ensuring", "inserting"}
  PROVE  /\ Place(a) \in Places /\ Len(ids[a]) \in Nat /\ DOMAIN ids[a] = 1..Len(ids[a])
         /\ Reference(a, Place(a)) \in Nat
         /\ Defaults[Place(a)].refers # 0 =>
              Reference(a, Place(a)) \in Known[Defaults[Place(a)].refers]
<1>1. /\ Len(ids[a]) \in Nat /\ Len(ids[a]) < 7 /\ DOMAIN ids[a] = 1..Len(ids[a])
      /\ ids[a] \in Seq(Nat)
  BY DEF IInv, Shape
<1>2. Place(a) \in Places
  BY <1>1 DEF Place, Places
<1>3. Defaults[Place(a)].refers \in Nat /\ Defaults[Place(a)].refers < Place(a)
  BY <1>2, DefaultsFacts
<1>4. CASE Defaults[Place(a)].refers = 0
  BY <1>1, <1>2, <1>4 DEF Reference, NoId
<1>5. CASE Defaults[Place(a)].refers # 0
  <2>1. Defaults[Place(a)].refers \in DOMAIN ids[a]
    BY <1>1, <1>3, <1>5 DEF Place
  <2>2. Reference(a, Place(a)) = ids[a][Defaults[Place(a)].refers]
    BY <1>5 DEF Reference
  <2>3. ids[a][Defaults[Place(a)].refers] \in Nat
    BY <1>1, <2>1
  <2>4. ids[a][Defaults[Place(a)].refers] \in Known[Defaults[Place(a)].refers]
    BY <2>1 DEF IInv, Holding
  <2> QED
    BY <1>1, <1>2, <2>2, <2>3, <2>4
<1> QED
  BY <1>4, <1>5

\* A default that is known of a document: its reference, seen from the application.
LEMMA LinkedIs ==
  ASSUME NEW a \in Applications, NEW n \in Places, NEW i \in Known[n]
  PROVE  Linked(a, n, i) <=> Refs[n][i] = Reference(a, n)
BY DEF Linked, Refs, Known

LEMMA InitInv == Init => IInv
<1> SUFFICES ASSUME Init PROVE IInv
  OBVIOUS
<1>1. DocsAreDefaults
  BY DEF Init, DocsAreDefaults
<1>2. ASSUME NEW n \in Places PROVE Existing(n) = {}
  <2>1. stored[Defaults[n].collection] = <<>>
    BY DefaultsFacts DEF Init
  <2> QED
    BY <1>1, <2>1, ExistingIs
<1>3. \A n \in Places : Known[n] = {}
  BY <1>2 DEF Known
<1>4. Finite
  BY <1>3, FS_EmptySet DEF Finite
<1>5. \A a \in Applications : at[a] = "new" /\ ids[a] = <<>> /\ clean[a] = TRUE
  BY DEF Init
<1>6. Shape
  <2>1. <<>> \in Seq(Nat) /\ Len(<<>>) = 0
    OBVIOUS
  <2>2. ids \in [Applications -> Seq(Nat)]
    BY <2>1 DEF Init
  <2>3. /\ at \in [Applications -> {"new", "ensuring", "inserting", "logging", "ok", "failed",
                                   "refused"}]
        /\ overlapped \in BOOLEAN /\ clean \in [Applications -> BOOLEAN]
    BY DEF Init
  <2>4. \A a \in Applications : Len(ids[a]) = 0
    BY <1>5, <2>1
  <2> QED
    BY <1>5, <2>2, <2>3, <2>4 DEF Shape
<1>7. Holding /\ Chained
  BY <1>3, <1>5 DEF Holding, Chained
<1>8. Stopped
  BY <1>5 DEF Stopped, Active
<1>9. \A n \in Places : Cardinality(Known[n]) = 0
  BY <1>3, FS_EmptySet
<1>10. Apart
  BY <1>3, <1>5, <1>9 DEF Apart, Active
<1> QED
  BY <1>1, <1>4, <1>6, <1>7, <1>8, <1>10 DEF IInv

\* What a step of an application may do to the store.
MayStore(a) ==
  stored' = stored \/ (at[a] = "inserting" /\ stored' = Inserted(a, Place(a)))

\* Documents stay, and a new one is chained and, while applications do not overlap, the
\* only one of its name.
LEMMA StoreStep ==
  ASSUME IInv, NEW a \in Applications, MayStore(a)
  PROVE  /\ DocsAreDefaults' /\ Chained' /\ Finite'
         /\ \A n \in Places : /\ Known[n] \subseteq Known'[n]
                              /\ \A i \in Known[n] : Refs'[n][i] = Refs[n][i]
                              /\ Cardinality(Known[n]) > 1 => Cardinality(Known'[n]) > 1
                              /\ ~overlapped => Cardinality(Known'[n]) <= 1
<1>1. CASE stored' = stored
  <2>1. Known' = Known /\ Refs' = Refs /\ DocsAreDefaults'
    BY <1>1, StoreKept DEF IInv
  <2> QED
    BY <2>1 DEF IInv, Chained, Finite, Apart
<1>2. CASE at[a] = "inserting" /\ stored' = Inserted(a, Place(a))
  <2> DEFINE n == Place(a)
             k == Len(stored[Defaults[n].collection]) + 1
  <2>1. /\ n \in Places /\ Reference(a, n) \in Nat
        /\ Defaults[n].refers # 0 => Reference(a, n) \in Known[Defaults[n].refers]
    BY <1>2, AtPlace
  <2>2. /\ DocsAreDefaults'
        /\ k \notin Known[n] /\ k \in Nat
        /\ Known' = [Known EXCEPT ![n] = @ \cup {k}]
        /\ \A m \in Places : \A i \in Known[m] : Refs'[m][i] = Refs[m][i]
        /\ Refs'[n][k] = Reference(a, n)
    BY <1>2, <2>1, InsertAdds DEF IInv
  <2> HIDE DEF n, k
  <2>3. /\ DOMAIN Known = Places
        /\ Known'[n] = Known[n] \cup {k}
        /\ \A m \in Places \ {n} : Known'[m] = Known[m]
    BY <2>1, <2>2 DEF Known
  <2>4. Finite'
    BY <2>1, <2>3, FS_AddElement DEF IInv, Finite
  <2>5. Chained'
    <3>1. ASSUME NEW m \in Places, NEW i \in Known'[m]
          PROVE  IF Defaults[m].refers = 0 THEN Refs'[m][i] = NoId
                 ELSE Refs'[m][i] \in Known'[Defaults[m].refers]
      <4>0. Defaults[m].refers \in Nat /\ (Defaults[m].refers # 0 => Defaults[m].refers \in Places)
        BY DefaultsFacts DEF Places
      <4>1. CASE i \in Known[m]
        <5>1. IF Defaults[m].refers = 0 THEN Refs[m][i] = NoId
              ELSE Refs[m][i] \in Known[Defaults[m].refers]
          BY <4>1 DEF IInv, Chained
        <5> QED
          BY <2>2, <2>3, <4>0, <4>1, <5>1
      <4>2. CASE i \notin Known[m]
        <5>1. m = n /\ i = k
          BY <2>3, <4>2
        <5> QED
          BY <2>1, <2>2, <2>3, <4>0, <5>1 DEF Reference
      <4> QED
        BY <4>1, <4>2
    <3> QED
      BY <3>1 DEF Chained
  <2>6. ASSUME NEW m \in Places, Cardinality(Known[m]) > 1 PROVE Cardinality(Known'[m]) > 1
    <3>1. IsFiniteSet(Known[m]) /\ Cardinality(Known[m]) \in Nat
      BY FS_CardinalityType DEF IInv, Finite
    <3>2. CASE m = n
      <4>1. Cardinality(Known'[n]) = Cardinality(Known[n]) + 1
        BY <2>2, <2>3, <3>1, <3>2, FS_AddElement
      <4> QED
        BY <2>6, <3>1, <3>2, <4>1
    <3> QED
      BY <2>3, <2>6, <3>2
  <2>7. ASSUME NEW m \in Places, ~overlapped PROVE Cardinality(Known'[m]) <= 1
    <3>1. CASE m = n
      <4>1. Known[n] = {}
        BY <1>2, <2>7 DEF IInv, Apart, Place, n
      <4>2. Known'[n] = {k}
        BY <2>3, <4>1
      <4> QED
        BY <3>1, <4>2, FS_Singleton
    <3> QED
      BY <2>3, <2>7, <3>1 DEF IInv, Apart
  <2> QED
    BY <2>2, <2>3, <2>4, <2>5, <2>6, <2>7
<1> QED
  BY <1>1, <1>2 DEF MayStore

\* An application that fails, or is refused when others have run at the same time.
LEMMA FailStep ==
  ASSUME IInv, NEW a \in Applications, Active(a), MayStore(a), log \subseteq log',
         NEW outcome \in {"failed", "refused"}, Fail(a, outcome),
         outcome = "refused" => overlapped
  PROVE  IInv'
<1>1. /\ at' = [at EXCEPT ![a] = outcome] /\ ids' = [ids EXCEPT ![a] = <<>>]
      /\ clean' = [clean EXCEPT ![a] = TRUE] /\ overlapped' = overlapped
  BY DEF Fail
<1>2. Shape'
  BY <1>1 DEF IInv, Shape
<1>3. Holding'
  <2>1. ASSUME NEW b \in Applications, NEW n \in DOMAIN ids'[b]
        PROVE  ids'[b][n] \in Known'[n] /\ Refs'[n][ids'[b][n]] = Reference(b, n)'
    <3>1. b # a /\ ids'[b] = ids[b]
      BY <1>1 DEF IInv, Shape
    <3>2. n \in Places
      <4>1. ids[b] \in Seq(Nat) /\ Len(ids[b]) <= 7
        BY DEF IInv, Shape
      <4>2. n \in 1..Len(ids[b]) /\ Len(ids[b]) \in Nat
        BY <3>1, <4>1
      <4> QED
        BY <4>1, <4>2 DEF Places
    <3>3. ids[b][n] \in Known[n] /\ Refs[n][ids[b][n]] = Reference(b, n)
      BY <3>1 DEF IInv, Holding
    <3> QED
      BY <3>1, <3>2, <3>3, StoreStep DEF Reference
  <2> QED
    BY <2>1 DEF Holding, Reference
<1>4. Apart'
  <2>1. SUFFICES ASSUME ~overlapped PROVE Apart'
    BY <1>1 DEF Apart
  <2>2. \A b \in Applications : at'[b] \in {"ensuring", "inserting", "logging"} => FALSE
    BY <1>1, <2>1 DEF IInv, Shape, Apart, Active
  <2>3. \A b \in Applications : at'[b] # "refused"
    BY <1>1, <2>1 DEF IInv, Shape, Apart
  <2> QED
    BY <2>1, <2>2, <2>3, StoreStep DEF Apart, Active
<1>5. Stopped'
  BY <1>1, StoreStep DEF IInv, Shape, Stopped, Active
<1> QED
  BY <1>2, <1>3, <1>4, <1>5, StoreStep DEF IInv

\* An application gets the id of the document at its place.
LEMMA EnsuredStep ==
  ASSUME IInv, NEW a \in Applications, at[a] \in {"ensuring", "inserting"}, MayStore(a),
         NEW id \in Nat, Ensured(a, id), log' = log,
         id \in Known'[Place(a)], Refs'[Place(a)][id] = Reference(a, Place(a)),
         at[a] = "ensuring" => Cardinality(Known[Place(a)]) <= 1
  PROVE  IInv'
<1>0. /\ Place(a) \in Places /\ Len(ids[a]) \in Nat /\ Place(a) = Len(ids[a]) + 1
      /\ ids[a] \in Seq(Nat) /\ DOMAIN ids[a] = 1..Len(ids[a])
  BY AtPlace DEF IInv, Shape, Place
<1>1. /\ ids' = [ids EXCEPT ![a] = Append(@, id)]
      /\ at' = [at EXCEPT ![a] = IF Place(a) = 7 THEN "logging" ELSE "ensuring"]
      /\ clean' = clean /\ overlapped' = overlapped
  BY DefaultsFacts DEF Ensured
<1>2. /\ ids'[a] = Append(ids[a], id) /\ Len(ids'[a]) = Place(a)
      /\ ids'[a] \in Seq(Nat) /\ DOMAIN ids'[a] = 1..Place(a)
      /\ ids'[a][Place(a)] = id
      /\ \A n \in DOMAIN ids[a] : ids'[a][n] = ids[a][n]
  BY <1>0, <1>1 DEF IInv, Shape
<1>3. \A b \in Applications \ {a} : ids'[b] = ids[b] /\ at'[b] = at[b]
  BY <1>1 DEF IInv, Shape
<1>4. Place(a) \in 1..7
  BY <1>0 DEF Places
<1>5. Shape'
  <2>1. at'[a] = IF Place(a) = 7 THEN "logging" ELSE "ensuring"
    BY <1>1 DEF IInv, Shape
  <2>2. ids' \in [Applications -> Seq(Nat)]
    BY <1>1, <1>2 DEF IInv, Shape
  <2>3. at' \in [Applications -> {"new", "ensuring", "inserting", "logging", "ok", "failed",
                                 "refused"}]
    BY <1>1 DEF IInv, Shape
  <2>4. ASSUME NEW b \in Applications
        PROVE  /\ Len(ids'[b]) <= 7
               /\ at'[b] \in {"ensuring", "inserting"} => Len(ids'[b]) < 7
               /\ at'[b] \in {"logging", "ok"} => Len(ids'[b]) = 7
               /\ at'[b] \in {"new", "failed", "refused"} => ids'[b] = <<>>
               /\ at'[b] = "ok" => b \in log
    <3>1. CASE b = a
      <4>1. CASE Place(a) = 7
        <5>1. Len(ids'[a]) = 7 /\ at'[a] = "logging"
          BY <1>2, <2>1, <4>1, Zenon
        <5>2. ids'[a] # <<>>
          <6>1. Len(<<>>) # 7
            OBVIOUS
          <6> QED
            BY <5>1, <6>1, Zenon
        <5> QED
          BY <3>1, <5>1, <5>2
      <4>2. CASE Place(a) # 7
        <5>1. Len(ids'[a]) < 7 /\ at'[a] = "ensuring"
          BY <1>2, <1>4, <2>1, <4>2
        <5> QED
          BY <3>1, <5>1, <1>2, <1>4
      <4> QED
        BY <4>1, <4>2
    <3>2. CASE b # a
      BY <1>3, <3>2 DEF IInv, Shape
    <3> QED
      BY <3>1, <3>2
  <2> QED
    BY <1>1, <2>2, <2>3, <2>4 DEF IInv, Shape
<1>6. Holding'
  <2>1. ASSUME NEW b \in Applications, NEW n \in DOMAIN ids'[b]
        PROVE  /\ ids'[b][n] \in Known'[n]
               /\ Refs'[n][ids'[b][n]] =
                    IF Defaults[n].refers = 0 THEN NoId ELSE ids'[b][Defaults[n].refers]
    <3>1. CASE b # a
      <4>1. ids'[b] = ids[b] /\ n \in DOMAIN ids[b]
        BY <1>3, <3>1
      <4>2. ids[b] \in Seq(Nat) /\ Len(ids[b]) <= 7
        BY DEF IInv, Shape
      <4>3. n \in Places
        <5>1. n \in 1..Len(ids[b]) /\ Len(ids[b]) \in Nat
          BY <4>1, <4>2
        <5> QED
          BY <4>2, <5>1 DEF Places
      <4>4. ids[b][n] \in Known[n] /\ Refs[n][ids[b][n]] = Reference(b, n)
        BY <4>1 DEF IInv, Holding
      <4> QED
        BY <4>1, <4>3, <4>4, StoreStep DEF Reference
    <3>2. CASE b = a /\ n # Place(a)
      <4>0. n \in 1..Place(a) /\ n # Place(a)
        BY <1>2, <3>2
      <4>1. n \in DOMAIN ids[a] /\ n \in Places
        <5>1. PICK len \in Nat : /\ Place(a) = len + 1 /\ DOMAIN ids[a] = 1..len
                                 /\ len + 1 \in 1..7
          BY <1>0, <1>4
        <5>2. n \in 1..(len + 1) /\ n # len + 1
          BY <4>0, <5>1, Zenon
        <5>3. n \in 1..len /\ n \in 1..7
          BY <5>1, <5>2
        <5> QED
          BY <5>1, <5>3, Zenon DEF Places
      <4>2. ids[a][n] \in Known[n] /\ Refs[n][ids[a][n]] = Reference(a, n)
        BY <4>1 DEF IInv, Holding
      <4>3. Defaults[n].refers # 0 => Defaults[n].refers \in DOMAIN ids[a]
        BY <1>0, <4>1, DefaultsFacts
      <4> QED
        BY <1>2, <3>2, <4>1, <4>2, <4>3, StoreStep DEF Reference
    <3>3. CASE b = a /\ n = Place(a)
      <4>1. Defaults[n].refers # 0 => Defaults[n].refers \in DOMAIN ids[a]
        BY <1>0, <3>3, DefaultsFacts
      <4> QED
        BY <1>2, <3>3, <4>1 DEF Reference
    <3> QED
      BY <3>1, <3>2, <3>3
  <2> QED
    BY <2>1 DEF Holding, Reference
<1>7. Apart'
  <2>1. SUFFICES ASSUME ~overlapped PROVE Apart'
    BY <1>1 DEF Apart
  <2>2. \A b \in Applications : at'[b] \in {"ensuring", "inserting", "logging"} => b = a
    BY <1>3, <2>1 DEF IInv, Apart, Active
  <2>3. at'[a] \in {"logging", "ensuring"}
    BY <1>1 DEF IInv, Shape
  <2>4. \A b \in Applications : at'[b] # "refused"
    BY <1>3, <2>1, <2>3 DEF IInv, Apart
  <2> QED
    BY <2>1, <2>2, <2>3, <2>4, StoreStep DEF Apart, Active
<1>8. Stopped'
  <2>1. ASSUME NEW b \in Applications, at'[b] \in {"ensuring", "inserting", "logging"}, ~clean'[b]
        PROVE  \E n \in Places : /\ Cardinality(Known'[n]) > 1 /\ Len(ids'[b]) < n
                                 /\ at'[b] = "inserting" => Len(ids'[b]) + 1 # n
    <3>1. CASE b # a
      <4>1. PICK n \in Places : /\ Cardinality(Known[n]) > 1 /\ Len(ids[b]) < n
                                /\ at[b] = "inserting" => Len(ids[b]) + 1 # n
        BY <1>1, <1>3, <2>1, <3>1 DEF IInv, Stopped, Active
      <4>2. Cardinality(Known'[n]) > 1
        BY <4>1, StoreStep
      <4>3. ids'[b] = ids[b] /\ at'[b] = at[b]
        BY <1>3, <3>1
      <4> WITNESS n \in Places
      <4> QED
        BY <4>1, <4>2, <4>3, Zenon
    <3>2. CASE b = a
      <4>1. PICK n \in Places : /\ Cardinality(Known[n]) > 1 /\ Len(ids[a]) < n
                                /\ at[a] = "inserting" => Len(ids[a]) + 1 # n
        BY <1>1, <2>1, <3>2 DEF IInv, Stopped, Active
      <4>2. n # Place(a)
        <5>1. Cardinality(Known[n]) \in Nat
          BY FS_CardinalityType DEF IInv, Finite
        <5>2. CASE at[a] = "ensuring"
          BY <4>1, <5>1, <5>2
        <5>3. CASE at[a] = "inserting"
          BY <1>0, <4>1, <5>3
        <5> QED
          BY <5>2, <5>3
      <4>3. Len(ids'[a]) < n
        BY <1>0, <1>2, <4>1, <4>2 DEF Places
      <4>4. at'[a] # "inserting"
        BY <1>1 DEF IInv, Shape
      <4>5. Cardinality(Known'[n]) > 1
        BY <4>1, StoreStep
      <4> WITNESS n \in Places
      <4> QED
        BY <3>2, <4>3, <4>4, <4>5, Zenon
    <3> QED
      BY <3>1, <3>2
  <2>2. \A b \in Applications : at'[b] = "ok" => clean'[b]
    BY <1>1 DEF IInv, Shape, Stopped
  <2> QED
    BY <2>1, <2>2 DEF Stopped, Active
<1> QED
  BY <1>5, <1>6, <1>7, <1>8, StoreStep DEF IInv

------------------------------------------------------------------------------
(* The steps. *)

LEMMA AtMostOne ==
  ASSUME NEW S, IsFiniteSet(S), Cardinality(S) <= 1, NEW x \in S, NEW y \in S
  PROVE  x = y
<1> SUFFICES ASSUME x # y PROVE FALSE
  OBVIOUS
<1>1. IsFiniteSet(S \ {x}) /\ Cardinality(S \ {x}) = Cardinality(S) - 1
  BY FS_RemoveElement
<1>2. Cardinality(S) \in Nat /\ Cardinality(S \ {x}) \in Nat
  BY <1>1, FS_CardinalityType
<1>3. Cardinality(S \ {x}) = 0
  BY <1>1, <1>2
<1>4. S \ {x} = {}
  BY <1>1, <1>3, FS_EmptySet
<1> QED
  BY <1>4

LEMMA BeginStep ==
  ASSUME IInv, NEW a \in Applications, Begin(a)
  PROVE  IInv'
<1>1. /\ at[a] = "new" /\ at' = [at EXCEPT ![a] = "ensuring"]
      /\ overlapped' = (overlapped \/ \E b \in Applications : Active(b))
      /\ clean' = [clean EXCEPT ![a] = Unique]
      /\ stored' = stored /\ log' = log /\ ids' = ids
  BY DEF Begin
<1>2. Known' = Known /\ Refs' = Refs /\ DocsAreDefaults' /\ Chained' /\ Finite'
  BY <1>1, StoreKept DEF IInv, Chained, Finite
<1>3. Unique \in BOOLEAN
  BY DEF Unique
<1>4. ids[a] = <<>>
  BY <1>1 DEF IInv, Shape
<1>5. Len(ids[a]) = 0
  BY <1>4
<1>6. Shape'
  BY <1>1, <1>3, <1>5 DEF IInv, Shape
<1>7. Holding'
  BY <1>1, <1>2 DEF IInv, Holding, Reference
<1>8. Apart'
  <2>1. SUFFICES ASSUME ~overlapped' PROVE Apart'
    BY DEF Apart
  <2>2. ~overlapped /\ \A b \in Applications : ~Active(b)
    BY <1>1, <2>1
  <2>3. \A b \in Applications : at'[b] \in {"ensuring", "inserting", "logging"} => b = a
    BY <1>1, <2>2 DEF IInv, Shape, Active
  <2>4. \A b \in Applications : at'[b] # "refused" /\ at'[b] # "inserting"
    BY <1>1, <2>2 DEF IInv, Shape, Apart, Active
  <2>5. \A n \in Places : Cardinality(Known'[n]) <= 1
    BY <1>2, <2>2 DEF IInv, Apart
  <2> QED
    BY <2>3, <2>4, <2>5 DEF Apart, Active
<1>9. Stopped'
  <2>1. ASSUME NEW b \in Applications, at'[b] \in {"ensuring", "inserting", "logging"}, ~clean'[b]
        PROVE  \E n \in Places : /\ Cardinality(Known'[n]) > 1 /\ Len(ids'[b]) < n
                                 /\ at'[b] = "inserting" => Len(ids'[b]) + 1 # n
    <3>1. CASE b # a
      <4>1. at'[b] = at[b] /\ clean'[b] = clean[b]
        BY <1>1, <3>1 DEF IInv, Shape
      <4> QED
        BY <1>1, <1>2, <2>1, <4>1 DEF IInv, Stopped, Active
    <3>2. CASE b = a
      <4>1. ~Unique
        BY <1>1, <1>3, <2>1, <3>2 DEF IInv, Shape
      <4>2. PICK n \in Places : ~(Cardinality(Known[n]) <= 1)
        BY <4>1, DefaultsFacts DEF Unique, Known
      <4>3. Cardinality(Known[n]) \in Nat
        BY FS_CardinalityType DEF IInv, Finite
      <4>4. Cardinality(Known'[n]) > 1 /\ Len(ids'[a]) < n
        BY <1>1, <1>2, <1>5, <4>2, <4>3 DEF Places
      <4>5. at'[a] # "inserting"
        BY <1>1 DEF IInv, Shape
      <4> WITNESS n \in Places
      <4> QED
        BY <3>2, <4>4, <4>5, Zenon
    <3> QED
      BY <3>1, <3>2
  <2>2. \A b \in Applications : at'[b] = "ok" => clean'[b]
    BY <1>1 DEF IInv, Shape, Stopped
  <2> QED
    BY <2>1, <2>2 DEF Stopped, Active
<1> QED
  BY <1>2, <1>6, <1>7, <1>8, <1>9 DEF IInv

LEMMA NotFoundStep ==
  ASSUME IInv, NEW a \in Applications, at[a] = "ensuring", Existing(Place(a)) = {},
         at' = [at EXCEPT ![a] = "inserting"],
         UNCHANGED <<stored, log, ids, overlapped, clean>>
  PROVE  IInv'
<1>1. Known' = Known /\ Refs' = Refs /\ DocsAreDefaults' /\ Chained' /\ Finite'
  BY StoreKept DEF IInv, Chained, Finite
<1>2. Place(a) \in Places /\ Known[Place(a)] = {} /\ Place(a) = Len(ids[a]) + 1
  BY AtPlace DEF Known, Place
<1>3. Shape'
  BY DEF IInv, Shape
<1>4. Holding'
  BY <1>1 DEF IInv, Holding, Reference
<1>5. Apart'
  <2>1. SUFFICES ASSUME ~overlapped PROVE Apart'
    BY DEF Apart
  <2>2. \A b \in Applications : Active(b) => b = a
    BY <2>1 DEF IInv, Apart, Active
  <2>3. \A b \in Applications : at'[b] \in {"ensuring", "inserting", "logging"} => b = a
    BY <2>2 DEF IInv, Shape, Active
  <2>4. \A b \in Applications : at'[b] # "refused"
    BY <2>1 DEF IInv, Shape, Apart
  <2>5. \A n \in Places : Cardinality(Known'[n]) <= 1
    BY <1>1, <2>1 DEF IInv, Apart
  <2>6. \A b \in Applications : at'[b] = "inserting" => Known'[Len(ids'[b]) + 1] = {}
    BY <1>1, <1>2, <2>3
  <2> QED
    BY <2>3, <2>4, <2>5, <2>6 DEF Apart, Active
<1>6. Stopped'
  <2>1. ASSUME NEW b \in Applications, at'[b] \in {"ensuring", "inserting", "logging"}, ~clean[b]
        PROVE  \E n \in Places : /\ Cardinality(Known[n]) > 1 /\ Len(ids[b]) < n
                                 /\ at'[b] = "inserting" => Len(ids[b]) + 1 # n
    <3>1. Active(b)
      BY <2>1 DEF IInv, Shape, Active
    <3>2. PICK n \in Places : /\ Cardinality(Known[n]) > 1 /\ Len(ids[b]) < n
                              /\ at[b] = "inserting" => Len(ids[b]) + 1 # n
      BY <2>1, <3>1 DEF IInv, Stopped
    <3>3. at'[b] = "inserting" => Len(ids[b]) + 1 # n
      <4>1. CASE b # a
        BY <3>2, <4>1 DEF IInv, Shape
      <4>2. CASE b = a
        <5>1. n # Place(a)
          <6>1. Cardinality({}) = 0
            BY FS_EmptySet
          <6>2. n = Place(a) => Cardinality(Known[n]) = 0
            BY <1>2, <6>1, Zenon
          <6> QED
            BY <3>2, <6>2
        <5> QED
          BY <1>2, <4>2, <5>1
      <4> QED
        BY <4>1, <4>2
    <3> WITNESS n \in Places
    <3> QED
      BY <3>2, <3>3, Zenon
  <2>2. \A b \in Applications : at'[b] = "ok" => clean[b]
    BY DEF IInv, Shape, Stopped
  <2> QED
    BY <1>1, <2>1, <2>2 DEF Stopped, Active
<1> QED
  BY <1>1, <1>3, <1>4, <1>5, <1>6 DEF IInv

\* While applications do not overlap, what is there is what the application would insert.
LEMMA ApartIsValid ==
  ASSUME IInv, NEW a \in Applications, at[a] = "ensuring", ~overlapped
  PROVE  ~Invalid(a, Place(a))
<1> DEFINE n == Place(a)
<1>1. /\ n \in Places
      /\ Defaults[n].refers # 0 => Reference(a, n) \in Known[Defaults[n].refers]
  BY AtPlace
<1>2. Cardinality(Known[n]) <= 1 /\ Cardinality(Known[n]) \in Nat
  BY <1>1, FS_CardinalityType DEF IInv, Apart, Finite
<1>3. ASSUME NEW i \in Known[n] PROVE Refs[n][i] = Reference(a, n)
  <2>1. CASE Defaults[n].refers = 0
    BY <1>1, <2>1 DEF IInv, Chained, Reference
  <2>2. CASE Defaults[n].refers # 0
    <3>1. Defaults[n].refers \in Places
      BY <1>1, <2>2, DefaultsFacts DEF Places
    <3>2. Refs[n][i] \in Known[Defaults[n].refers]
      BY <1>1, <2>2 DEF IInv, Chained
    <3>3. IsFiniteSet(Known[Defaults[n].refers]) /\ Cardinality(Known[Defaults[n].refers]) <= 1
      BY <3>1 DEF IInv, Finite, Apart
    <3> QED
      BY <1>1, <2>2, <3>2, <3>3, AtMostOne
  <2> QED
    BY <2>1, <2>2
<1>4. \A i \in Known[n] : Linked(a, n, i)
  BY <1>1, <1>3, LinkedIs
<1>5. Existing(n) = Known[n]
  BY <1>1 DEF Known
<1> QED
  BY <1>2, <1>4, <1>5 DEF Invalid

LEMMA LookupStep ==
  ASSUME IInv, NEW a \in Applications, Lookup(a)
  PROVE  IInv'
<1> DEFINE n == Place(a)
<1>1. /\ at[a] = "ensuring" /\ stored' = stored /\ log' = log
      /\ Active(a) /\ MayStore(a) /\ log \subseteq log'
  BY DEF Lookup, Active, MayStore
<1>2. n \in Places
  BY <1>1, AtPlace
<1>3. CASE Existing(n) = {} /\ at' = [at EXCEPT ![a] = "inserting"]
           /\ UNCHANGED <<ids, overlapped, clean>>
  BY <1>1, <1>3, NotFoundStep
<1>4. CASE Invalid(a, n) /\ Fail(a, "refused")
  <2>1. overlapped
    BY <1>1, <1>4, ApartIsValid
  <2> QED
    BY <1>1, <1>4, <2>1, FailStep
<1>5. CASE ~Invalid(a, n) /\ \E id \in Existing(n) : Ensured(a, id)
  <2>1. PICK id \in Existing(n) : Ensured(a, id)
    BY <1>5
  <2>2. Existing(n) = Known[n]
    BY <1>2 DEF Known
  <2>3. Refs[n][id] = Reference(a, n)
    BY <1>2, <1>5, <2>2, LinkedIs DEF Invalid
  <2>4. Cardinality(Known[n]) <= 1
    <3>1. Cardinality(Known[n]) \in Nat
      BY <1>2, FS_CardinalityType DEF IInv, Finite
    <3> QED
      BY <1>5, <2>2, <3>1 DEF Invalid
  <2>5. id \in Nat
    <3>1. Defaults[n].collection \in Collections
      BY <1>2, DefaultsFacts
    <3>2. /\ DOMAIN stored[Defaults[n].collection] = 1..Len(stored[Defaults[n].collection])
          /\ Len(stored[Defaults[n].collection]) \in Nat
      BY <3>1 DEF IInv, DocsAreDefaults
    <3>3. id \in DOMAIN stored[Defaults[n].collection]
      BY <1>2, ExistingIs DEF IInv
    <3> QED
      BY <3>2, <3>3
  <2>6. Known' = Known /\ Refs' = Refs
    BY <1>1, StoreKept
  <2> QED
    BY <1>1, <2>1, <2>2, <2>3, <2>4, <2>5, <2>6, EnsuredStep
<1>6. CASE Fail(a, "failed")
  BY <1>1, <1>6, FailStep
<1> QED
  BY <1>3, <1>4, <1>5, <1>6 DEF Lookup

LEMMA InsertStep ==
  ASSUME IInv, NEW a \in Applications, InsertDefault(a)
  PROVE  IInv'
<1> DEFINE n == Place(a)
           k == Len(stored[Defaults[n].collection]) + 1
<1>1. at[a] = "inserting" /\ log' = log /\ Active(a) /\ log \subseteq log'
  BY DEF InsertDefault, Active
<1>2. n \in Places /\ Reference(a, n) \in Nat
  BY <1>1, AtPlace
<1>3. CASE stored' = Inserted(a, n) /\ Ensured(a, k)
  <2>1. /\ k \notin Known[n] /\ k \in Nat
        /\ Known' = [Known EXCEPT ![n] = @ \cup {k}]
        /\ Refs'[n][k] = Reference(a, n)
    BY <1>2, <1>3, InsertAdds DEF IInv
  <2>2. k \in Known'[n]
    BY <1>2, <2>1 DEF Known
  <2>3. MayStore(a)
    BY <1>1, <1>3 DEF MayStore
  <2> QED
    BY <1>1, <1>3, <2>1, <2>2, <2>3, EnsuredStep
<1>4. CASE stored' \in {stored, Inserted(a, n)} /\ Fail(a, "failed")
  <2>1. MayStore(a)
    BY <1>1, <1>4 DEF MayStore
  <2> QED
    BY <1>1, <1>4, <2>1, FailStep
<1> QED
  BY <1>3, <1>4 DEF InsertDefault

LEMMA LogStep ==
  ASSUME IInv, NEW a \in Applications, InsertLogEntry(a)
  PROVE  IInv'
<1>1. at[a] = "logging" /\ stored' = stored /\ Active(a) /\ MayStore(a) /\ log \subseteq log'
  BY DEF InsertLogEntry, Active, MayStore
<1>2. CASE /\ log' = log \cup {a} /\ at' = [at EXCEPT ![a] = "ok"]
           /\ UNCHANGED <<ids, overlapped, clean>>
  <2>1. Known' = Known /\ Refs' = Refs /\ DocsAreDefaults' /\ Chained' /\ Finite'
    BY <1>1, StoreKept DEF IInv, Chained, Finite
  <2>2. Shape'
    BY <1>1, <1>2 DEF IInv, Shape
  <2>3. Holding'
    BY <1>2, <2>1 DEF IInv, Holding, Reference
  <2>4. Apart'
    BY <1>1, <1>2, <2>1 DEF IInv, Shape, Apart, Active
  <2>5. clean[a]
    <3>1. SUFFICES ASSUME ~clean[a] PROVE FALSE
      OBVIOUS
    <3>2. PICK n \in Places : Len(ids[a]) < n
      BY <1>1, <3>1 DEF IInv, Stopped
    <3>3. Len(ids[a]) = 7
      BY <1>1 DEF IInv, Shape
    <3> QED
      BY <3>2, <3>3 DEF Places
  <2>6. Stopped'
    BY <1>1, <1>2, <2>1, <2>5 DEF IInv, Shape, Stopped, Active
  <2> QED
    BY <2>1, <2>2, <2>3, <2>4, <2>6 DEF IInv
<1>3. CASE log' \in {log, log \cup {a}} /\ Fail(a, "failed")
  BY <1>1, <1>3, FailStep
<1> QED
  BY <1>2, <1>3 DEF InsertLogEntry

LEMMA NextInv == IInv /\ [Next]_vars => IInv'
<1> SUFFICES ASSUME IInv, [Next]_vars PROVE IInv'
  OBVIOUS
<1>1. ASSUME NEW a \in Applications, Apply(a) PROVE IInv'
  BY <1>1, BeginStep, LookupStep, InsertStep, LogStep DEF Apply
<1>2. ASSUME NEW a \in Applications, Crash(a) PROVE IInv'
  <2>1. Active(a) /\ Fail(a, "failed") /\ stored' = stored /\ log' = log
    BY <1>2 DEF Crash
  <2>2. MayStore(a) /\ log \subseteq log'
    BY <2>1 DEF MayStore
  <2> QED
    BY <2>1, <2>2, FailStep
<1>3. CASE UNCHANGED vars
  <2>1. Known' = Known /\ Refs' = Refs /\ DocsAreDefaults' /\ Chained' /\ Finite'
    BY <1>3, StoreKept DEF vars, IInv, Chained, Finite
  <2> QED
    BY <1>3, <2>1 DEF vars, IInv, Shape, Holding, Reference, Apart, Stopped, Active
<1> QED
  BY <1>1, <1>2, <1>3 DEF Next

LEMMA Invariant == Spec => []IInv
BY InitInv, NextInv, PTL DEF Spec

------------------------------------------------------------------------------
(* The theorems. *)

\* As long as no two applications of the migration ran at the same time, no default is
\* there twice, for any number of applications that die or lose replies anywhere.
THEOREM DefaultsUnique == Spec => []UniqueDefaults
<1>1. IInv => UniqueDefaults
  BY DefaultsFacts DEF IInv, Apart, UniqueDefaults, Unique, Known
<1> QED
  BY <1>1, Invariant, PTL

\* ... and none of them is refused: "Migrations are expected to be idempotent".
THEOREM MigrationNeverRefused == Spec => []NeverRefused
<1>1. IInv => NeverRefused
  BY DEF IInv, Apart, NeverRefused
<1> QED
  BY <1>1, Invariant, PTL

\* An application that ended well has its seven documents, each naming the one it has to,
\* whoever ran at the same time.
THEOREM AppliedLinked == Spec => []AppliedIsLinked
<1>1. IInv => AppliedIsLinked
  <2> SUFFICES ASSUME IInv, NEW a \in Applications, at[a] = "ok"
               PROVE  /\ a \in log
                      /\ \A n \in DOMAIN Defaults :
                           /\ ids[a][n] \in Existing(n)
                           /\ stored[Defaults[n].collection][ids[a][n]].refers = Reference(a, n)
    BY DEF AppliedIsLinked
  <2>1. a \in log /\ DOMAIN ids[a] = Places
    BY DEF IInv, Shape, Places
  <2>2. ASSUME NEW n \in Places
        PROVE  /\ ids[a][n] \in Existing(n)
               /\ stored[Defaults[n].collection][ids[a][n]].refers = Reference(a, n)
    <3>1. ids[a][n] \in Known[n] /\ Refs[n][ids[a][n]] = Reference(a, n)
      BY <2>1 DEF IInv, Holding
    <3> QED
      BY <3>1 DEF Known, Refs
  <2> QED
    BY <2>1, <2>2, DefaultsFacts
<1> QED
  BY <1>1, Invariant, PTL

\* Defaults that are there twice stop every application that begins after it.
THEOREM DuplicatesFound == Spec => []DuplicatesFoundOut
<1>1. IInv => DuplicatesFoundOut
  BY DEF IInv, Stopped, DuplicatesFoundOut
<1> QED
  BY <1>1, Invariant, PTL

\* Documents are defaults that name documents which are there, and an application has the
\* ids of documents of the store.
THEOREM DefaultAuthTypes == Spec => []TypeOK
<1>1. IInv => TypeOK
  <2> SUFFICES ASSUME IInv PROVE TypeOK
    OBVIOUS
  <2>1. ASSUME NEW n \in Places, NEW i \in Known[n]
        PROVE  i \in 1..Len(stored[Defaults[n].collection])
    <3>1. i \in DOMAIN stored[Defaults[n].collection] /\ Defaults[n].collection \in Collections
      BY <2>1, ExistingIs, DefaultsFacts DEF Known, IInv
    <3> QED
      BY <3>1 DEF IInv, DocsAreDefaults
  <2>2. ASSUME NEW c \in Collections, NEW i \in DOMAIN stored[c]
        PROVE  \E n \in DOMAIN Defaults :
                 /\ Defaults[n].collection = c /\ Defaults[n].name = stored[c][i].name
                 /\ IF Defaults[n].refers = 0 THEN stored[c][i].refers = NoId
                    ELSE stored[c][i].refers \in
                           1..Len(stored[Defaults[Defaults[n].refers].collection])
    <3>1. PICK n \in Places, ref \in Nat :
            Defaults[n].collection = c /\ stored[c][i] = Referring(n, ref)
      BY DEF IInv, DocsAreDefaults
    <3>2. stored[c][i].name = Defaults[n].name
      BY <3>1, NewDocFields
    <3>3. i \in Known[n]
      BY <3>1, <3>2, ExistingIs DEF Known, IInv
    <3>4. Refs[n][i] = stored[c][i].refers
      BY <3>1, <3>3 DEF Refs, Known
    <3>5. IF Defaults[n].refers = 0 THEN Refs[n][i] = NoId
          ELSE Refs[n][i] \in Known[Defaults[n].refers]
      BY <3>3 DEF IInv, Chained
    <3>6. Defaults[n].refers # 0 => Defaults[n].refers \in Places
      BY DefaultsFacts DEF Places
    <3>7. n \in DOMAIN Defaults
      BY DefaultsFacts
    <3>8. IF Defaults[n].refers = 0 THEN stored[c][i].refers = NoId
          ELSE stored[c][i].refers \in 1..Len(stored[Defaults[Defaults[n].refers].collection])
      BY <2>1, <3>4, <3>5, <3>6
    <3> QED
      BY <3>1, <3>2, <3>7, <3>8
  <2>3. ASSUME NEW a \in Applications
        PROVE  /\ at[a] \in {"new", "ensuring", "inserting", "logging", "ok", "failed", "refused"}
               /\ Len(ids[a]) <= Len(Defaults)
               /\ at[a] \in {"logging", "ok"} <=> Len(ids[a]) = Len(Defaults)
               /\ \A n \in DOMAIN ids[a] : ids[a][n] \in 1..Len(stored[Defaults[n].collection])
    <3>1. Len(ids[a]) \in Nat /\ DOMAIN ids[a] = 1..Len(ids[a]) /\ Len(ids[a]) <= 7
      BY DEF IInv, Shape
    <3>2. DOMAIN ids[a] \subseteq Places
      BY <3>1 DEF Places
    <3>3. at[a] \in {"new", "failed", "refused"} => Len(ids[a]) = 0
      BY DEF IInv, Shape
    <3>4. at[a] \in {"logging", "ok"} <=> Len(ids[a]) = 7
      <4>1. at[a] \in {"ensuring", "inserting"} => Len(ids[a]) < 7
        BY DEF IInv, Shape
      <4>2. at[a] \in {"logging", "ok"} => Len(ids[a]) = 7
        BY DEF IInv, Shape
      <4>3. at[a] \in {"new", "ensuring", "inserting", "logging", "ok", "failed", "refused"}
        BY DEF IInv, Shape
      <4>4. CASE at[a] \in {"logging", "ok"}
        BY <4>2, <4>4
      <4>5. CASE at[a] \notin {"logging", "ok"}
        <5>1. Len(ids[a]) = 0 \/ Len(ids[a]) < 7
          BY <3>3, <4>1, <4>3, <4>5
        <5>2. \A k \in Nat : k = 0 \/ k < 7 => k # 7
          OBVIOUS
        <5>3. Len(ids[a]) # 7
          BY <3>1, <5>1, <5>2, Zenon
        <5> QED
          BY <4>5, <5>3
      <4> QED
        BY <4>4, <4>5
    <3>5. \A n \in DOMAIN ids[a] : ids[a][n] \in 1..Len(stored[Defaults[n].collection])
      BY <2>1, <3>2 DEF IInv, Holding
    <3>6. at[a] \in {"new", "ensuring", "inserting", "logging", "ok", "failed", "refused"}
      BY DEF IInv, Shape
    <3> QED
      BY <3>1, <3>4, <3>5, <3>6, DefaultsFacts
  <2>4. overlapped \in BOOLEAN /\ clean \in [Applications -> BOOLEAN]
    BY DEF IInv, Shape
  <2> QED
    BY <2>2, <2>3, <2>4 DEF TypeOK
<1> QED
  BY <1>1, Invariant, PTL
==============================================================================
