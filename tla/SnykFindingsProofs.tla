-------------------------- MODULE SnykFindingsProofs --------------------------
(***************************************************************************)
(* Theorems about SnykFindings.  They rest on what the loop that merges    *)
(* two lists of findings computes for lists of every length, and on what   *)
(* the adapter keeps of the lists of an issue.  Both take an induction:    *)
(* the steps of a loop are the rows of a table, and the rows for which a   *)
(* statement holds are a set of naturals.                                  *)
(***************************************************************************)
EXTENDS SnykFindings, WellFoundedInduction, TLAPS

------------------------------------------------------------------------------
(* Induction.  A theorem about operators is of no use to the provers here; a set of
   naturals does as well. *)

\* A set of naturals that is not empty has a least element.
LEMMA LeastNatural ==
  ASSUME NEW S \in SUBSET Nat, S # {}
  PROVE  \E m \in S : \A n \in S : m <= n
<1> DEFINE R == OpToRel(<, Nat)
<1>1. IsWellFoundedOn(R, Nat)
  BY NatLessThanWellFounded
<1>2. \A m, n \in Nat : n < m => <<n, m>> \in R
  BY DEF OpToRel
<1> HIDE DEF R
<1>3. PICK m \in S : \A n \in S : ~(<<n, m>> \in R)
  BY <1>1, WFMin
<1>4. \A n \in S : ~(n < m)
  BY <1>2, <1>3
<1>5. \A n \in S : m <= n
  BY <1>4
<1> QED
  BY <1>5

\* Induction, over a set.
LEMMA NaturalInduction ==
  ASSUME NEW S \in SUBSET Nat, 0 \in S, \A n \in S : n + 1 \in S
  PROVE  S = Nat
<1> DEFINE T == Nat \ S
<1>1. SUFFICES ASSUME T # {} PROVE FALSE
  OBVIOUS
<1>2. PICK m \in T : \A n \in T : m <= n
  <2>1. T \in SUBSET Nat
    OBVIOUS
  <2> HIDE DEF T
  <2>2. QED
    BY <1>1, <2>1, LeastNatural
<1>3. m \in Nat /\ m # 0 /\ m - 1 \in Nat /\ (m - 1) + 1 = m /\ ~(m <= m - 1)
  BY <1>2
<1>4. m - 1 \in S
  BY <1>2, <1>3
<1>5. QED
  BY <1>2, <1>3, <1>4

\* The k steps of a recursion from a first value, the n-th of them by the n-th function.
Unrolls(f, V, base, k, step) ==
  f \in [0..k -> V] /\ f[0] = base /\ \A n \in 1..k : f[n] = step[n][f[n - 1]]

\* A function may be defined by what it is at 0 and how each value follows from the one
\* before.
LEMMA Recursion ==
  ASSUME NEW V, NEW base \in V, NEW k \in Nat, NEW step \in [1..k -> [V -> V]]
  PROVE  \E f : Unrolls(f, V, base, k, step)
<1> DEFINE Good(f, j) == f[0] = base /\ \A n \in 1..j : f[n] = step[n][f[n - 1]]
           S == {j \in Nat : j <= k => \E f \in [0..j -> V] : Good(f, j)}
<1>1. 0 \in S
  <2>1. [n \in 0..0 |-> base] \in [0..0 -> V] /\ Good([n \in 0..0 |-> base], 0)
    OBVIOUS
  <2>2. QED
    BY <2>1
<1>2. ASSUME NEW j \in S PROVE j + 1 \in S
  <2>1. j \in Nat /\ j + 1 \in Nat
    OBVIOUS
  <2>2. ASSUME j + 1 <= k PROVE \E f \in [0..(j + 1) -> V] : Good(f, j + 1)
    <3>1. PICK f \in [0..j -> V] : Good(f, j)
      BY <2>2
    <3> DEFINE v == step[j + 1][f[j]]
               g == [n \in 0..(j + 1) |-> IF n = j + 1 THEN v ELSE f[n]]
    <3>2. /\ j \in 0..j /\ j + 1 \in 1..k /\ (j + 1) - 1 = j /\ 0 \in 0..j
          /\ \A n \in 0..j : n \in 0..(j + 1) /\ n # j + 1
          /\ \A n \in 0..(j + 1) : n = j + 1 \/ n \in 0..j
          /\ \A n \in 1..(j + 1) : n = j + 1 \/ (n \in 1..j /\ n \in 0..j /\ n - 1 \in 0..j)
          /\ j + 1 \in 0..(j + 1)
      BY <2>1, <2>2
    <3>3. f[j] \in V
      BY <3>2
    <3>4. v \in V
      BY <3>2, <3>3
    <3> HIDE DEF v
    <3>5. g \in [0..(j + 1) -> V] /\ g[j + 1] = v /\ \A n \in 0..j : g[n] = f[n]
      BY <3>2, <3>4
    <3> HIDE DEF g
    <3>6. g[0] = base
      BY <3>1, <3>2, <3>5
    <3>7. g[j + 1] = step[j + 1][g[(j + 1) - 1]]
      BY <3>2, <3>5 DEF v
    <3>8. \A n \in 1..j : g[n] = step[n][g[n - 1]]
      <4>1. \A n \in 1..j : n \in 0..j /\ n - 1 \in 0..j
        BY <2>1
      <4>2. QED
        BY <3>1, <3>5, <4>1
    <3>9. Good(g, j + 1)
      BY <3>2, <3>6, <3>7, <3>8
    <3>10. QED
      BY <3>5, <3>9
  <2>3. QED
    BY <2>1, <2>2
<1>3. S \in SUBSET Nat /\ \A j \in S : j <= k => \E f \in [0..j -> V] : Good(f, j)
  OBVIOUS
<1> HIDE DEF S, Good
<1>4. S = Nat
  BY <1>1, <1>2, <1>3, NaturalInduction
<1>5. \E f \in [0..k -> V] : Good(f, k)
  <2>1. k <= k
    OBVIOUS
  <2>2. QED
    BY <1>3, <1>4, <2>1
<1>6. QED
  BY <1>5 DEF Good, Unrolls

------------------------------------------------------------------------------
(* The loop. *)

MergeTable(current, new) ==
  CHOOSE merged : merged = [n \in 0..Len(new) |->
                              IF n = 0 THEN current ELSE Pushed(merged[n - 1], new[n])]

LEMMA MergedIsLastRow ==
  ASSUME NEW current, NEW new
  PROVE  Merged(current, new) = MergeTable(current, new)[Len(new)]
BY DEF Merged, MergeTable

\* The table of the loop: its first row is the list it begins with, and every other one
\* follows from the one before.
LEMMA Rows ==
  ASSUME NEW S, NEW current \in Seq(S), NEW new \in Seq(S)
  PROVE  LET t == MergeTable(current, new)
         IN  /\ t[0] = current
             /\ \A n \in 1..Len(new) : t[n] = Pushed(t[n - 1], new[n])
<1> DEFINE t == MergeTable(current, new)
           V == Seq(S)
           step == [n \in 1..Len(new) |-> [list \in V |-> Pushed(list, new[n])]]
<1>1. Len(new) \in Nat /\ \A n \in 1..Len(new) : new[n] \in S
  OBVIOUS
<1>2. step \in [1..Len(new) -> [V -> V]]
  BY <1>1 DEF Pushed
<1>3. \A n \in 1..Len(new), list \in V : step[n][list] = Pushed(list, new[n])
  OBVIOUS
<1> DEFINE k == Len(new)
<1>0. k \in Nat /\ current \in V /\ step \in [1..k -> [V -> V]]
  BY <1>1, <1>2
<1> HIDE DEF step, V, k
<1>12. PICK f : Unrolls(f, V, current, k, step)
  BY <1>0, Recursion
<1>4. f \in [0..k -> V] /\ f[0] = current /\ \A n \in 1..k : f[n] = step[n][f[n - 1]]
  BY <1>12 DEF Unrolls
<1> USE DEF k
<1>5. \A n \in 1..Len(new) : n - 1 \in 0..Len(new)
  BY <1>1
<1>6. \A n \in 1..Len(new) : f[n] = Pushed(f[n - 1], new[n])
  BY <1>3, <1>4, <1>5
<1>7. \A n \in 0..Len(new) : n = 0 \/ n \in 1..Len(new)
  BY <1>1
<1>8. f = [n \in 0..Len(new) |-> IF n = 0 THEN current ELSE Pushed(f[n - 1], new[n])]
  BY <1>4, <1>6, <1>7
<1>9. t = [n \in 0..Len(new) |-> IF n = 0 THEN current ELSE Pushed(t[n - 1], new[n])]
  BY <1>8 DEF MergeTable
<1> HIDE DEF t
<1>10. 0 \in 0..Len(new) /\ \A n \in 1..Len(new) : n \in 0..Len(new) /\ n # 0
  BY <1>1
<1>11. t[0] = current /\ \A n \in 1..Len(new) : t[n] = Pushed(t[n - 1], new[n])
  BY <1>9, <1>10
<1> QED
  BY <1>11 DEF t

------------------------------------------------------------------------------
(* What a merge makes of two lists. *)

\* The list begins with another one.
Begins(list, start) ==
  Len(start) <= Len(list) /\ \A n \in 1..Len(start) : list[n] = start[n]

\* The findings of a list, by identity.
Ids(list) == {Identity(list[n]) : n \in DOMAIN list}

\* One turn of the loop: the finding is there, or it is appended.
LEMMA PushedOne ==
  ASSUME NEW S, NEW list \in Seq(S), NEW v \in S
  PROVE  /\ Pushed(list, v) \in Seq(S) /\ Begins(Pushed(list, v), list)
         /\ Ids(Pushed(list, v)) = Ids(list) \cup {Identity(v)}
<1>1. CASE \E n \in DOMAIN list : Same(list[n], v)
  <2>1. Pushed(list, v) = list
    BY <1>1 DEF Pushed
  <2>2. Identity(v) \in Ids(list)
    BY <1>1 DEF Same, Identity, Ids
  <2>3. Begins(list, list)
    BY DEF Begins
  <2> QED
    BY <2>1, <2>2, <2>3
<1>2. CASE ~\E n \in DOMAIN list : Same(list[n], v)
  <2> DEFINE m == Append(list, v)
  <2>1. Pushed(list, v) = m
    BY <1>2 DEF Pushed
  <2>2. /\ m \in Seq(S) /\ Len(m) = Len(list) + 1 /\ Len(list) \in Nat
        /\ DOMAIN list = 1..Len(list) /\ DOMAIN m = 1..Len(m)
        /\ m[Len(list) + 1] = v /\ \A n \in 1..Len(list) : m[n] = list[n]
    OBVIOUS
  <2> HIDE DEF m
  <2>3. Begins(m, list)
    BY <2>2 DEF Begins
  <2>4. DOMAIN m = DOMAIN list \cup {Len(list) + 1}
    BY <2>2
  <2>5. Ids(m) = Ids(list) \cup {Identity(v)}
    BY <2>2, <2>4 DEF Ids
  <2> QED
    BY <2>1, <2>2, <2>3, <2>5
<1> QED
  BY <1>1, <1>2

LEMMA BeginsTransitive ==
  ASSUME NEW S, NEW a \in Seq(S), NEW b \in Seq(S), NEW c \in Seq(S), Begins(b, a), Begins(c, b)
  PROVE  Begins(c, a)
<1>1. Len(a) \in Nat /\ Len(b) \in Nat /\ Len(c) \in Nat
  OBVIOUS
<1>2. Len(a) <= Len(c) /\ \A n \in 1..Len(a) : n \in 1..Len(b)
  BY <1>1 DEF Begins
<1> QED
  BY <1>2 DEF Begins

\* The loop keeps the list it begins with, in its place, and adds every new finding whose
\* identity is not there.
LEMMA MergedLists ==
  ASSUME NEW S, NEW current \in Seq(S), NEW new \in Seq(S)
  PROVE  /\ Merged(current, new) \in Seq(S) /\ Begins(Merged(current, new), current)
         /\ Ids(Merged(current, new)) = Ids(current) \cup Ids(new)
<1> DEFINE t == MergeTable(current, new)
           Row(m, k) == /\ m \in Seq(S) /\ Begins(m, current)
                        /\ Ids(m) = Ids(current) \cup {Identity(new[n]) : n \in 1..k}
           K == {k \in Nat : k <= Len(new) => Row(t[k], k)}
<1>1. Len(new) \in Nat /\ DOMAIN new = 1..Len(new)
  OBVIOUS
<1>2. t[0] = current /\ \A n \in 1..Len(new) : t[n] = Pushed(t[n - 1], new[n])
  BY Rows
<1> HIDE DEF t
<1>3. 0 \in K
  <2>1. Begins(current, current) /\ {Identity(new[n]) : n \in 1..0} = {}
    BY DEF Begins
  <2> QED
    BY <1>2, <2>1
<1>4. ASSUME NEW k \in K PROVE k + 1 \in K
  <2>1. SUFFICES ASSUME k + 1 <= Len(new) PROVE Row(t[k + 1], k + 1)
    OBVIOUS
  <2>2. /\ k \in Nat /\ k <= Len(new) /\ k + 1 \in 0..Len(new) /\ k + 1 # 0 /\ (k + 1) - 1 = k
        /\ k + 1 \in 1..Len(new)
    BY <1>1, <2>1
  <2>3. Row(t[k], k)
    BY <2>2
  <2>4. t[k + 1] = Pushed(t[k], new[k + 1])
    BY <1>2, <2>2
  <2>5. new[k + 1] \in S
    BY <1>1, <2>2
  <2>6. /\ t[k + 1] \in Seq(S) /\ Begins(t[k + 1], t[k])
        /\ Ids(t[k + 1]) = Ids(t[k]) \cup {Identity(new[k + 1])}
    <3>1. t[k] \in Seq(S)
      BY <2>3
    <3> DEFINE list == t[k]
               v == new[k + 1]
    <3>2. list \in Seq(S) /\ v \in S /\ t[k + 1] = Pushed(list, v)
      BY <2>4, <2>5, <3>1
    <3> HIDE DEF list, v
    <3>3. /\ Pushed(list, v) \in Seq(S) /\ Begins(Pushed(list, v), list)
          /\ Ids(Pushed(list, v)) = Ids(list) \cup {Identity(v)}
      BY <3>2, PushedOne
    <3> QED
      BY <3>2, <3>3 DEF list, v
  <2>7. Begins(t[k + 1], current)
    BY <2>3, <2>6, BeginsTransitive
  <2>8. 1..(k + 1) = 1..k \cup {k + 1}
    BY <2>2
  <2>9. {Identity(new[n]) : n \in 1..(k + 1)}
          = {Identity(new[n]) : n \in 1..k} \cup {Identity(new[k + 1])}
    BY <2>8
  <2> QED
    BY <2>3, <2>6, <2>7, <2>9
<1>5. K \in SUBSET Nat /\ \A k \in K : k <= Len(new) => Row(t[k], k)
  OBVIOUS
<1> HIDE DEF K, Row
<1>6. K = Nat
  BY <1>3, <1>4, <1>5, NaturalInduction
<1>7. Row(t[Len(new)], Len(new))
  <2>1. Len(new) <= Len(new)
    BY <1>1
  <2> QED
    BY <1>1, <1>5, <1>6, <2>1, Zenon
<1>8. Ids(new) = {Identity(new[n]) : n \in 1..Len(new)}
  BY <1>1 DEF Ids
<1> QED
  BY <1>7, <1>8, MergedIsLastRow DEF t, Row

\* Options.
LEMMA SomeOf ==
  ASSUME NEW v
  PROVE  Unwrap(Some(v)) = v /\ UnwrapOr(Some(v), <<>>) = v /\ Some(v) # None
BY DEF Unwrap, UnwrapOr, Some, None

LEMMA OptionIs ==
  ASSUME NEW S, NEW o
  PROVE  o \in Option(S) <=> o = None \/ \E v \in S : o = Some(v)
BY DEF Option, None, Some

\* The list in an Option, an empty one when there is none.
ListOf(o) == UnwrapOr(o, <<>>)

LEMMA ListOfOption ==
  ASSUME NEW S, NEW o \in Option(Seq(S))
  PROVE  /\ ListOf(o) \in Seq(S)
         /\ o # None => o = Some(ListOf(o)) /\ Unwrap(o) = ListOf(o)
<1>1. CASE o = None
  BY <1>1 DEF ListOf, UnwrapOr
<1>2. CASE \E v \in Seq(S) : o = Some(v)
  BY <1>2, SomeOf DEF ListOf
<1> QED
  BY <1>1, <1>2, OptionIs

LEMMA AddedLists ==
  ASSUME NEW S, NEW o \in Option(Seq(S)), NEW new \in Seq(S)
  PROVE  LET a == AddVulnerabilities(o, new)
         IN  /\ a \in Option(Seq(S)) /\ Begins(ListOf(a), ListOf(o))
             /\ Ids(ListOf(a)) = Ids(ListOf(o)) \cup Ids(new)
             /\ new # <<>> => a # None /\ ListOf(a) # <<>>
<1> DEFINE a == AddVulnerabilities(o, new)
<1>1. /\ ListOf(o) \in Seq(S) /\ Begins(ListOf(o), ListOf(o)) /\ Begins(new, <<>>)
      /\ Ids(<<>>) = {}
  <2>1. ListOf(o) \in Seq(S)
    BY ListOfOption
  <2> QED
    BY <2>1 DEF Begins, Ids
<1>2. CASE new = <<>>
  <2>1. a = o
    BY <1>2 DEF AddVulnerabilities
  <2> QED
    BY <1>1, <1>2, <2>1
<1>3. CASE new # <<>> /\ ListOf(o) = <<>>
  <2>1. a = Some(new)
    BY <1>3 DEF AddVulnerabilities, ListOf
  <2>2. ListOf(a) = new /\ a # None /\ a \in Option(Seq(S))
    BY <2>1, SomeOf, OptionIs DEF ListOf
  <2> HIDE DEF a
  <2> QED
    BY <1>1, <1>3, <2>2 DEF a
<1>4. CASE new # <<>> /\ ListOf(o) # <<>>
  <2> DEFINE m == Merged(ListOf(o), new)
  <2>1. o # None /\ Unwrap(o) = ListOf(o)
    <3>1. o # None
      BY <1>4 DEF ListOf, UnwrapOr
    <3> QED
      BY <3>1, ListOfOption
  <2>2. a = Some(m)
    BY <1>4, <2>1 DEF AddVulnerabilities, ListOf
  <2>3. m \in Seq(S) /\ Begins(m, ListOf(o)) /\ Ids(m) = Ids(ListOf(o)) \cup Ids(new)
    BY <1>1, MergedLists
  <2>4. m # <<>>
    <3>1. Len(ListOf(o)) \in Nat /\ Len(ListOf(o)) # 0
      BY <1>1, <1>4
    <3> HIDE DEF m
    <3>2. Len(m) # 0
      BY <2>3, <3>1 DEF Begins
    <3> QED
      BY <3>2
  <2> HIDE DEF a, m
  <2>5. ListOf(a) = m /\ a # None /\ a \in Option(Seq(S))
    BY <2>2, <2>3, SomeOf, OptionIs DEF ListOf
  <2> QED
    BY <2>3, <2>4, <2>5 DEF a
<1> QED
  BY <1>2, <1>3, <1>4

\* What upsert_purl makes of what its caller brings and what it has found.
LEMMA MergedFindings ==
  ASSUME NEW S, NEW mine \in Option(Seq(S)), NEW theirs \in Option(Seq(S)),
         mine # Some(<<>>), theirs # Some(<<>>)
  PROVE  LET m == MergeFindings(mine, theirs)
         IN  /\ m \in Option(Seq(S)) /\ m # Some(<<>>) /\ Begins(ListOf(m), ListOf(mine))
             /\ Ids(ListOf(m)) = Ids(ListOf(mine)) \cup Ids(ListOf(theirs))
             /\ mine = None => m = theirs
<1> DEFINE m == MergeFindings(mine, theirs)
<1>1. ListOf(mine) \in Seq(S) /\ Begins(ListOf(mine), ListOf(mine))
  <2>1. ListOf(mine) \in Seq(S)
    BY ListOfOption
  <2> QED
    BY <2>1 DEF Begins
<1>2. CASE theirs = None
  <2>1. m = mine /\ ListOf(theirs) = <<>> /\ Ids(<<>>) = {}
    BY <1>2 DEF MergeFindings, ListOf, UnwrapOr, Ids
  <2> QED
    BY <1>1, <1>2, <2>1
<1>3. CASE theirs # None
  <2> DEFINE l == ListOf(theirs)
  <2>1. /\ theirs = Some(l) /\ l \in Seq(S) /\ l # <<>>
        /\ m = AddVulnerabilities(mine, l)
    <3>1. theirs = Some(l) /\ Unwrap(theirs) = l /\ l \in Seq(S)
      BY <1>3, ListOfOption
    <3> QED
      BY <1>3, <3>1 DEF MergeFindings
  <2> HIDE DEF m, l
  <2>2. /\ m \in Option(Seq(S)) /\ Begins(ListOf(m), ListOf(mine))
        /\ Ids(ListOf(m)) = Ids(ListOf(mine)) \cup Ids(l)
        /\ ListOf(m) # <<>>
    BY <2>1, AddedLists
  <2>3. m # Some(<<>>)
    BY <2>2, SomeOf DEF ListOf
  <2>4. ASSUME mine = None PROVE m = theirs
    <3>1. UnwrapOr(mine, <<>>) = <<>>
      BY <2>4 DEF UnwrapOr
    <3> QED
      BY <2>1, <3>1 DEF AddVulnerabilities
  <2> QED
    BY <2>2, <2>3, <2>4 DEF m, l
<1> QED
  BY <1>2, <1>3

------------------------------------------------------------------------------
(* What an answer amounts to. *)

\* The findings that issues can be read as.
AllFindings == {ToVulnerability(issue) : issue \in CommonIssueModel}

\* A list of issues in a whole answer with status 200.
Told(r, list) ==
  /\ Replies[r].arrives = "whole" /\ Replies[r].status = 200 /\ Replies[r].body.is = "json"
  /\ list \in Replies[r].body.value.data /\ list \in Seq(CommonIssueModel)

LEMMA IssuesAnswered ==
  ASSUME NEW r \in DOMAIN Replies
  PROVE  LET issues == GetIssues("an organization", "token", Replies[r])
         IN  \/ \E error : issues = Err(error)
             \/ issues = Ok(None)
             \/ \E list : issues = Ok(Some(list)) /\ Told(r, list)
<1> DEFINE answer == Replies[r]
           response == Request("valid", "token", answer, IssuesResponse)
           issues == GetIssues("an organization", "token", answer)
<1>1. issues = Answered(response, "data", "snyk failed to return issues")
  BY DEF GetIssues, Uri, OrgIdNotSet
<1>2. \/ \E error : response = Err(error)
      \/ response = Ok(None)
      \/ /\ answer.arrives = "whole" /\ answer.status = 200 /\ answer.body.is = "json"
         /\ answer.body.value \in IssuesResponse /\ response = Ok(Some(answer.body.value))
  <2> DEFINE raw == Raw("valid", "token", answer)
  <2>1. (\E error : raw = Err(error)) \/ (answer.arrives = "whole" /\ raw = Ok(answer))
    <3>1. Unreachable.arrives = "never" /\ CutOff.arrives = "in part"
      BY DEF Unreachable, CutOff
    <3>2. CASE answer = Unreachable
      <4> HIDE DEF answer
      <4>1. raw = Err("Remote")
        BY <3>1, <3>2 DEF Raw
      <4> QED
        BY <4>1
    <3>3. CASE answer = CutOff
      <4> HIDE DEF answer
      <4>1. answer # Unreachable /\ answer.arrives # "whole"
        BY <3>1, <3>3
      <4>2. raw = Err("Hyper")
        BY <3>3, <4>1 DEF Raw
      <4> QED
        BY <4>2
    <3>4. CASE answer = Reply(answer.status, answer.body)
      <4> HIDE DEF answer
      <4>1. answer.arrives = "whole"
        BY <3>4 DEF Reply
      <4>2. answer # Unreachable /\ answer # CutOff
        BY <3>1, <4>1
      <4>3. raw = IF answer.body = Binary THEN Err("Body") ELSE Ok(answer)
        BY <4>1, <4>2 DEF Raw
      <4> QED
        BY <4>1, <4>3
    <3> QED
      BY <3>2, <3>3, <3>4, RepliesAssumption
  <2> HIDE DEF raw, answer
  <2>2. CASE \E error : raw = Err(error)
    <3>1. ~raw.ok
      BY <2>2 DEF Err
    <3>2. response = raw
      BY <3>1 DEF Request, raw
    <3> QED
      BY <2>2, <3>2
  <2>3. CASE answer.arrives = "whole" /\ raw = Ok(answer)
    <3>1. raw.ok
      BY <2>3 DEF Ok
    <3>2. CASE answer.status # 200
      BY <3>1, <3>2 DEF Request, raw
    <3>3. CASE answer.status = 200 /\ answer.body = Text("{}")
      BY <3>1, <3>3 DEF Request, raw
    <3>4. CASE answer.status = 200 /\ answer.body # Text("{}")
      <4>1. response = FromSlice(answer.body, IssuesResponse)
        BY <3>1, <3>4 DEF Request, raw
      <4> QED
        BY <2>3, <3>4, <4>1 DEF FromSlice
    <3> QED
      BY <3>2, <3>3, <3>4
  <2> QED
    BY <2>1, <2>2, <2>3
<1> HIDE DEF response, issues
<1>3. CASE \E error : response = Err(error)
  <2>1. ~response.ok
    BY <1>3 DEF Err
  <2>2. issues = response
    BY <1>1, <2>1 DEF Answered
  <2> QED
    BY <1>3, <2>2 DEF issues
<1>4. CASE response = Ok(None)
  BY <1>1, <1>4 DEF Answered, Ok, issues
<1>5. CASE /\ answer.arrives = "whole" /\ answer.status = 200 /\ answer.body.is = "json"
           /\ answer.body.value \in IssuesResponse /\ response = Ok(Some(answer.body.value))
  <2> DEFINE data == answer.body.value.data
  <2>1. data \in Option(Seq(CommonIssueModel))
    BY <1>5 DEF IssuesResponse
  <2>2. response.ok /\ response.value # None /\ Unwrap(response.value) = answer.body.value
    BY <1>5, SomeOf DEF Ok
  <2>3. issues = Ok(data)
    BY <1>1, <2>2 DEF Answered
  <2>4. data = None \/ \E list \in Seq(CommonIssueModel) : data = Some(list) /\ list \in data
    BY <2>1, OptionIs DEF Some
  <2> HIDE DEF answer, data
  <2> QED
    BY <1>5, <2>3, <2>4 DEF Told, answer, data, issues
<1> QED
  BY <1>2, <1>3, <1>4, <1>5 DEF issues

\* What SnykService makes of it: the findings of a list of issues that is not empty, in
\* their order; otherwise none, or an error.
LEMMA FoundInAnswer ==
  ASSUME NEW r \in DOMAIN Replies
  PROVE  \/ ~FoundIn(r).ok
         \/ FoundIn(r) = Ok(None)
         \/ \E list : /\ Told(r, list) /\ list # <<>>
                      /\ FoundIn(r) = Ok(Some([n \in DOMAIN list |-> ToVulnerability(list[n])]))
<1> DEFINE issues == GetIssues("an organization", "token", Replies[r])
           kept == Issues("an organization", Replies[r])
<1>1. kept = IF issues.ok /\ issues.value = Some(<<>>) THEN Ok(None) ELSE issues
  BY DEF Issues
<1>2. FoundIn(r) = IF kept.ok
                   THEN Ok({[n \in DOMAIN list |-> ToVulnerability(list[n])] : list \in kept.value})
                   ELSE kept
  BY DEF FoundIn, Vulnerabilities
<1>3. \/ \E error : issues = Err(error)
      \/ issues = Ok(None)
      \/ \E list : issues = Ok(Some(list)) /\ Told(r, list)
  BY IssuesAnswered
<1> HIDE DEF issues, kept
<1>4. CASE \E error : issues = Err(error)
  BY <1>1, <1>2, <1>4 DEF Err
<1>5. CASE issues = Ok(None) \/ issues = Ok(Some(<<>>))
  <2>1. ASSUME issues = Ok(None) PROVE kept = Ok(None)
    <3>1. issues.value # Some(<<>>)
      BY <2>1 DEF Ok, Some, None
    <3> QED
      BY <1>1, <2>1, <3>1
  <2>2. ASSUME issues = Ok(Some(<<>>)) PROVE kept = Ok(None)
    <3>1. issues.ok /\ issues.value = Some(<<>>)
      BY <2>2 DEF Ok
    <3> QED
      BY <1>1, <3>1
  <2>3. kept = Ok(None)
    BY <1>5, <2>1, <2>2
  <2> QED
    BY <1>2, <2>3 DEF Ok, None
<1>6. CASE \E list : issues = Ok(Some(list)) /\ Told(r, list) /\ list # <<>>
  <2>1. PICK list : issues = Ok(Some(list)) /\ Told(r, list) /\ list # <<>>
    BY <1>6
  <2>2. issues.ok /\ issues.value = {list} /\ issues.value # Some(<<>>)
    BY <2>1 DEF Ok, Some
  <2>3. kept = issues
    BY <1>1, <2>2
  <2>4. FoundIn(r) = Ok(Some([n \in DOMAIN list |-> ToVulnerability(list[n])]))
    BY <1>2, <2>2, <2>3 DEF Some
  <2> QED
    BY <2>1, <2>4
<1> QED
  BY <1>3, <1>4, <1>5, <1>6
------------------------------------------------------------------------------
(* The adapter gives a well-formed finding for every issue. *)

\* The elements that are kept are elements of the list, at one of the positions.
LEMMA FilteredFrom ==
  ASSUME NEW S, NEW list \in Seq(S), NEW positions
  PROVE  Filtered(list, positions) \in Seq({list[n] : n \in DOMAIN list \cap positions})
<1> DEFINE V == Seq({list[n] : n \in DOMAIN list \cap positions})
           k == Len(list)
           step == [n \in 1..k |->
                      [l \in V |-> IF n \in positions THEN Append(l, list[n]) ELSE l]]
           kept == CHOOSE g : g = [n \in 0..k |->
                                     IF n = 0 THEN <<>>
                                     ELSE IF n \in positions THEN Append(g[n - 1], list[n])
                                     ELSE g[n - 1]]
<1>1. k \in Nat /\ DOMAIN list = 1..k /\ <<>> \in V
  OBVIOUS
<1>2. ASSUME NEW n \in 1..k, n \in positions, NEW l \in V PROVE Append(l, list[n]) \in V
  <2>1. list[n] \in {list[m] : m \in DOMAIN list \cap positions}
    BY <1>1, <1>2
  <2> QED
    BY <2>1
<1> HIDE DEF V, k
<1>3. step \in [1..k -> [V -> V]]
  BY <1>2
<1>4. \A n \in 1..k, l \in V :
        step[n][l] = IF n \in positions THEN Append(l, list[n]) ELSE l
  OBVIOUS
<1> HIDE DEF step
<1>5. PICK f : Unrolls(f, V, <<>>, k, step)
  BY <1>1, <1>3, Recursion
<1>6. /\ f \in [0..k -> V] /\ f[0] = <<>>
      /\ \A n \in 1..k : f[n] = step[n][f[n - 1]]
  BY <1>5 DEF Unrolls
<1>7. /\ \A n \in 1..k : n - 1 \in 0..k /\ n \in 0..k /\ n # 0
      /\ \A n \in 0..k : n = 0 \/ n \in 1..k
      /\ 0 \in 0..k /\ k \in 0..k
  BY <1>1
<1>8. \A n \in 1..k : f[n] = IF n \in positions THEN Append(f[n - 1], list[n]) ELSE f[n - 1]
  BY <1>4, <1>6, <1>7
<1>9. f = [n \in 0..k |-> IF n = 0 THEN <<>>
                          ELSE IF n \in positions THEN Append(f[n - 1], list[n]) ELSE f[n - 1]]
  BY <1>6, <1>7, <1>8
<1>10. kept = [n \in 0..k |->
                IF n = 0 THEN <<>>
                ELSE IF n \in positions THEN Append(kept[n - 1], list[n]) ELSE kept[n - 1]]
  BY <1>9
<1>11. Filtered(list, positions) = kept[k]
  BY DEF Filtered, k
<1> HIDE DEF kept
<1> DEFINE K == {n \in Nat : n <= k => kept[n] \in V}
<1>12. 0 \in K
  BY <1>1, <1>7, <1>10
<1>13. ASSUME NEW n \in K PROVE n + 1 \in K
  <2>1. SUFFICES ASSUME n + 1 <= k PROVE kept[n + 1] \in V
    OBVIOUS
  <2>2. n \in Nat /\ n <= k /\ n + 1 \in 1..k /\ (n + 1) - 1 = n
    BY <1>1, <2>1
  <2>3. kept[n] \in V
    BY <2>2
  <2>4. kept[n + 1] = IF n + 1 \in positions THEN Append(kept[n], list[n + 1]) ELSE kept[n]
    BY <1>7, <1>10, <2>2
  <2> QED
    BY <1>2, <2>2, <2>3, <2>4
<1>14. K \in SUBSET Nat /\ \A n \in K : n <= k => kept[n] \in V
  OBVIOUS
<1> HIDE DEF K
<1>15. K = Nat
  BY <1>12, <1>13, <1>14, NaturalInduction
<1>16. kept[k] \in V
  <2>1. k <= k
    BY <1>1
  <2> QED
    BY <1>1, <1>14, <1>15, <2>1
<1> QED
  BY <1>11, <1>16 DEF V

\* A field of attributes that may be missing.
LEMMA AttributeIs ==
  ASSUME NEW issue \in CommonIssueModel, NEW field
  PROVE  \/ Attribute(issue, field) = None
         \/ \E a \in CommonIssueModelAttributes : Attribute(issue, field) = a[field]
<1>1. CASE issue.attributes = None
  BY <1>1 DEF Attribute, None
<1>2. CASE \E a \in CommonIssueModelAttributes : issue.attributes = Some(a)
  BY <1>2 DEF Attribute, Some
<1>3. issue.attributes \in Option(CommonIssueModelAttributes)
  BY DEF CommonIssueModel
<1> QED
  BY <1>1, <1>2, <1>3, OptionIs

LEMMA SeverityIs ==
  ASSUME NEW issue \in CommonIssueModel
  PROVE  SeverityOf(issue) \in Option({"unknown"} \cup EffectiveSeverityLevel)
<1> DEFINE level(a) ==
             IF a.effective_severity_level = None THEN "unknown"
             ELSE Unwrap(a.effective_severity_level)
<1>1. SeverityOf(issue) = {level(a) : a \in issue.attributes}
  BY DEF SeverityOf
<1>2. ASSUME NEW a \in CommonIssueModelAttributes
      PROVE  level(a) \in {"unknown"} \cup EffectiveSeverityLevel
  <2>1. a.effective_severity_level \in Option(EffectiveSeverityLevel)
    BY DEF CommonIssueModelAttributes
  <2> QED
    BY <2>1, OptionIs, SomeOf
<1> HIDE DEF level
<1>3. issue.attributes \in Option(CommonIssueModelAttributes)
  BY DEF CommonIssueModel
<1> QED
  BY <1>1, <1>2, <1>3 DEF Option

LEMMA ProblemsAre ==
  ASSUME NEW issue \in CommonIssueModel, NEW source
  PROVE  Problems(issue, source) \in Seq(Problem)
<1> DEFINE problems == ListOf(Attribute(issue, "problems"))
           at == {n \in DOMAIN problems : problems[n].source = source}
<1>1. Attribute(issue, "problems") \in Option(Seq(Problem))
  BY AttributeIs, OptionIs DEF CommonIssueModelAttributes
<1>2. problems \in Seq(Problem)
  BY <1>1, ListOfOption
<1>3. Problems(issue, source) = Filtered(problems, at)
  BY DEF Problems, ListOf
<1> HIDE DEF problems, at
<1>4. Problems(issue, source) \in Seq({problems[n] : n \in DOMAIN problems \cap at})
  BY <1>2, <1>3, FilteredFrom
<1>5. {problems[n] : n \in DOMAIN problems \cap at} \subseteq Problem
  BY <1>2
<1> QED
  BY <1>4, <1>5

\* What a list gives is a list.
LEMMA Each ==
  ASSUME NEW S, NEW T, NEW list \in Seq(S), NEW g, \A n \in DOMAIN list : g[n] \in T,
         g = [n \in DOMAIN list |-> g[n]]
  PROVE  g \in Seq(T)
<1>1. Len(list) \in Nat /\ DOMAIN list = 1..Len(list)
  OBVIOUS
<1>2. g \in [1..Len(list) -> T]
  BY <1>1
<1> QED
  BY <1>1, <1>2

LEMMA IdsOfProblems ==
  ASSUME NEW issue \in CommonIssueModel
  PROVE  Cve(issue) \in Option(STRING) /\ Cwes(issue) \in Option(Seq(STRING))
<1>1. Cve(issue) \in Option(STRING)
  <2> DEFINE cves == Problems(issue, "CVE")
  <2>1. cves \in Seq(Problem)
    BY ProblemsAre
  <2>2. Cve(issue) = IF cves = <<>> THEN None ELSE Some(cves[1].id)
    BY DEF Cve
  <2> HIDE DEF cves
  <2>3. cves # <<>> => cves[1] \in Problem
    BY <2>1
  <2> QED
    BY <2>2, <2>3, OptionIs DEF Problem
<1>2. Cwes(issue) \in Option(Seq(STRING))
  <2> DEFINE cwes == Problems(issue, "CWE")
             g == [n \in DOMAIN cwes |-> cwes[n].id]
  <2>1. cwes \in Seq(Problem)
    BY ProblemsAre
  <2>2. Cwes(issue) = IF cwes = <<>> THEN None ELSE Some(g)
    BY DEF Cwes
  <2> HIDE DEF cwes
  <2>3. ASSUME NEW n \in DOMAIN cwes PROVE g[n] \in STRING
    <3>1. cwes[n] \in Problem
      BY <2>1
    <3>2. cwes[n].id \in STRING
      BY <3>1 DEF Problem
    <3> QED
      BY <3>2
  <2>4. g \in Seq(STRING)
    BY <2>1, <2>3, Each
  <2> HIDE DEF g
  <2> QED
    BY <2>2, <2>4, OptionIs
<1> QED
  BY <1>1, <1>2

LEMMA VersionIs ==
  ASSUME NEW vector
  PROVE  VersionFromVector(vector) \in Option(Versions)
<1>1. /\ None \in Option(Versions) /\ \A v \in Versions : Some(v) \in Option(Versions)
  BY OptionIs
<1> QED
  BY <1>1 DEF VersionFromVector, Versions

LEMMA ScoresAre ==
  ASSUME NEW issue \in CommonIssueModel
  PROVE  ResolveScores(issue) \in Option(Seq(Score))
<1> DEFINE severities == ListOf(Attribute(issue, "severities"))
           at == {n \in DOMAIN severities : severities[n].score # Some(None)}
           scored == Filtered(severities, at)
           g == [n \in DOMAIN scored |->
                  [score |-> Unwrap(Unwrap(scored[n].score)), source |-> scored[n].source,
                   version |-> VersionFromVector(Unwrap(scored[n].vector)),
                   vector |-> Unwrap(scored[n].vector)]]
           lost == \E n \in DOMAIN scored : scored[n].score = None \/ scored[n].vector = None
           Scored == {s \in Severity : s.score # Some(None)}
<1>1. Attribute(issue, "severities") \in Option(Seq(Severity))
  BY AttributeIs, OptionIs DEF CommonIssueModelAttributes
<1>2. severities \in Seq(Severity)
  BY <1>1, ListOfOption
<1>3. ResolveScores(issue) = IF scored = <<>> \/ lost THEN None ELSE Some(g)
  BY DEF ResolveScores, ListOf
<1> HIDE DEF severities
<1>4. scored \in Seq(Scored)
  <2>1. {severities[n] : n \in DOMAIN severities \cap at} \subseteq Scored
    BY <1>2
  <2>2. scored \in Seq({severities[n] : n \in DOMAIN severities \cap at})
    BY <1>2, FilteredFrom
  <2> HIDE DEF scored, Scored
  <2> QED
    BY <2>1, <2>2
<1> HIDE DEF scored
<1>5. ASSUME ~lost, NEW n \in DOMAIN scored PROVE g[n] \in Score
  <2> DEFINE s == scored[n]
  <2>1. /\ s \in Scored /\ s.score # None /\ s.vector # None
    BY <1>4, <1>5
  <2>2. /\ s.score \in Option(Option(Nat)) /\ s.source \in Option(STRING)
        /\ s.vector \in Option(Option(STRING)) /\ s.score # Some(None)
    BY <2>1 DEF Severity
  <2>3. g[n] = [score |-> Unwrap(Unwrap(s.score)), source |-> s.source,
                version |-> VersionFromVector(Unwrap(s.vector)), vector |-> Unwrap(s.vector)]
    OBVIOUS
  <2> HIDE DEF s, Scored, g
  <2>4. Unwrap(Unwrap(s.score)) \in Nat
    <3>1. PICK o \in Option(Nat) : s.score = Some(o)
      BY <2>1, <2>2, OptionIs
    <3>2. o # None
      BY <2>2, <3>1
    <3>3. PICK m \in Nat : o = Some(m)
      BY <3>2, OptionIs
    <3> QED
      BY <3>1, <3>3, SomeOf
  <2>5. Unwrap(s.vector) \in Option(STRING)
    BY <2>1, <2>2, OptionIs, SomeOf
  <2>6. VersionFromVector(Unwrap(s.vector)) \in Option(Versions)
    BY VersionIs
  <2> QED
    BY <2>2, <2>3, <2>4, <2>5, <2>6 DEF Score
<1>6. ~lost => g \in Seq(Score)
  <2>1. g = [n \in DOMAIN scored |-> g[n]]
    OBVIOUS
  <2> HIDE DEF g, lost
  <2> QED
    BY <1>4, <1>5, <2>1, Each
<1> HIDE DEF g, lost
<1> QED
  BY <1>3, <1>6, OptionIs

LEMMA MaturityIs ==
  ASSUME NEW issue \in CommonIssueModel
  PROVE  ResolveMaturity(issue) \in Option(Maturity)
<1> DEFINE slots == Attribute(issue, "slots")
           exploits == UNION {t.exploit : t \in slots}
<1>1. slots \in Option(Slots)
  BY AttributeIs, OptionIs DEF CommonIssueModelAttributes
<1>2. exploits \in Option(STRING)
  <2>1. CASE slots = None
    BY <2>1, OptionIs DEF None
  <2>2. CASE \E t \in Slots : slots = Some(t)
    BY <2>2 DEF Some, Slots
  <2> HIDE DEF slots
  <2> QED
    BY <1>1, <2>1, <2>2, OptionIs
<1>3. ResolveMaturity(issue) = {MaturityOf(e) : e \in exploits}
  BY DEF ResolveMaturity
<1> HIDE DEF exploits
<1>4. \A e : MaturityOf(e) \in Maturity
  BY DEF MaturityOf, Maturity
<1> QED
  BY <1>2, <1>3, <1>4 DEF Option

LEMMA AdapterIsTotal == AllFindings \subseteq Vulnerability
<1> SUFFICES ASSUME NEW issue \in CommonIssueModel PROVE ToVulnerability(issue) \in Vulnerability
  BY DEF AllFindings
<1>1. Cvss(issue) \in Option(Summary)
  <2> DEFINE summary == [maturity |-> ResolveMaturity(issue), scores |-> ResolveScores(issue)]
  <2>1. summary \in Summary
    BY MaturityIs, ScoresAre DEF Summary
  <2>2. Cvss(issue) = Some(summary)
    BY DEF Cvss
  <2> HIDE DEF summary
  <2> QED
    BY <2>1, <2>2, OptionIs
<1>2. Remediated(issue) \in BOOLEAN
  BY DEF Remediated
<1> QED
  BY <1>1, <1>2, SeverityIs, IdsOfProblems DEF ToVulnerability, Vulnerability

------------------------------------------------------------------------------
(* The invariant. *)

\* A finding as the adapter makes it, of an issue Snyk has listed in an answer.
FromAnswer(v) ==
  /\ v = ToVulnerability(v.raw)
  /\ \E s \in Scans : reply[s] # NoReply /\ LET r == Replies[reply[s]] IN
       /\ r.arrives = "whole" /\ r.status = 200 /\ r.body.is = "json"
       /\ \E list \in r.body.value.data : v.raw \in Range(list)

Genuine == {v \in AllFindings : FromAnswer(v)}

Labels == {"new", "listed", "asked", "saving", "done", "failed"}

FindingsInv ==
  /\ stored \in Option(Seq(Genuine)) /\ stored # Some(<<>>)
  /\ pc \in [Upserts -> Labels]
  /\ listed \in [Scans -> Option(Seq(Genuine))]
  /\ existing \in [Upserts -> Option(Seq(Genuine))]
  /\ \A w \in Upserts : existing[w] # Some(<<>>)
  /\ reply \in [Scans -> DOMAIN Replies \cup {NoReply}]
  /\ found = [s \in Scans |-> IF reply[s] = NoReply THEN Ok(None) ELSE FoundIn(reply[s])]
  /\ \A s \in Scans : /\ pc[s] \in {"new", "listed"} => reply[s] = NoReply
                      /\ pc[s] = "asked" => reply[s] # NoReply
                      /\ pc[s] = "saving" => found[s].ok /\ found[s].value # None

\* The findings that scans have reported, by identity.
AllReported == UNION {Reported(found[s]) : s \in Scans}

\* What has been written, listed or found by a query, some scan has reported.
Sourced ==
  /\ Ids(ListOf(stored)) \subseteq AllReported
  /\ \A s \in Scans : Ids(ListOf(listed[s])) \subseteq AllReported
  /\ \A w \in Upserts : Ids(ListOf(existing[w])) \subseteq AllReported

\* What a scan that goes on to save has found.
LEMMA News ==
  ASSUME FindingsInv, NEW s \in Scans, found[s].ok, found[s].value # None
  PROVE  \E list \in Seq(Genuine) :
           list # <<>> /\ found[s] = Ok(Some(list)) /\ Unwrap(found[s].value) = list
<1> DEFINE r == reply[s]
<1>1. r # NoReply /\ r \in DOMAIN Replies /\ found[s] = FoundIn(r)
  <2>1. r = NoReply => found[s] = Ok(None)
    BY DEF FindingsInv
  <2> QED
    BY <2>1 DEF FindingsInv, Ok
<1>2. PICK list : /\ Told(r, list) /\ list # <<>>
                  /\ found[s] = Ok(Some([n \in DOMAIN list |-> ToVulnerability(list[n])]))
  <2>1. found[s] # Ok(None)
    BY DEF Ok
  <2> QED
    BY <1>1, <2>1, FoundInAnswer
<1> DEFINE news == [n \in DOMAIN list |-> ToVulnerability(list[n])]
<1>3. list \in Seq(CommonIssueModel) /\ Len(list) \in Nat /\ DOMAIN list = 1..Len(list) /\ Len(list) # 0
  BY <1>2 DEF Told
<1>4. ASSUME NEW n \in DOMAIN list PROVE ToVulnerability(list[n]) \in Genuine
  <2> DEFINE v == ToVulnerability(list[n])
  <2>1. list[n] \in CommonIssueModel
    BY <1>3
  <2>2. v.raw = list[n]
    BY DEF ToVulnerability
  <2>3. v \in AllFindings
    BY <2>1 DEF AllFindings
  <2>4. list[n] \in Range(list)
    BY DEF Range
  <2> HIDE DEF v
  <2>5. FromAnswer(v)
    BY <1>1, <1>2, <2>2, <2>4 DEF FromAnswer, Told, v
  <2> QED
    BY <2>3, <2>5 DEF Genuine, v
<1>5. news \in Seq(Genuine) /\ news # <<>>
  <2>1. news \in [1..Len(list) -> Genuine] /\ DOMAIN news = 1..Len(list)
    BY <1>3, <1>4
  <2>2. news \in Seq(Genuine)
    BY <1>3, <2>1
  <2>3. 1 \in DOMAIN news
    BY <1>3, <2>1
  <2> HIDE DEF news
  <2> QED
    BY <2>2, <2>3
<1>6. found[s].value = Some(news)
  BY <1>2 DEF Ok
<1> HIDE DEF news
<1> QED
  BY <1>2, <1>5, <1>6, SomeOf DEF news

LEMMA IdentifiedIs == \A o : Identified(o) = Ids(ListOf(o))
BY DEF Identified, Ids, ListOf, Range

\* What an upsert writes: what its caller brings, and behind it what its query has found.
LEMMA WrittenIs ==
  ASSUME FindingsInv, NEW w \in Upserts, pc[w] = "saving"
  PROVE  /\ Written(w) \in Option(Seq(Genuine)) /\ Written(w) # Some(<<>>)
         /\ Begins(ListOf(Written(w)), ListOf(Mine(w)))
         /\ Ids(ListOf(Written(w))) = Ids(ListOf(Mine(w))) \cup Ids(ListOf(existing[w]))
         /\ w \in Scans => /\ Begins(ListOf(Mine(w)), ListOf(listed[w]))
                           /\ Ids(ListOf(Mine(w))) = Ids(ListOf(listed[w])) \cup Reported(found[w])
                           /\ Mine(w) \in Option(Seq(Genuine))
         /\ w \notin Scans => Written(w) = existing[w]
<1>1. existing[w] \in Option(Seq(Genuine)) /\ existing[w] # Some(<<>>)
  BY DEF FindingsInv
<1>2. CASE w \in Scans
  <2>1. found[w].ok /\ found[w].value # None
    BY <1>2 DEF FindingsInv
  <2>2. PICK list \in Seq(Genuine) :
          list # <<>> /\ found[w] = Ok(Some(list)) /\ Unwrap(found[w].value) = list
    BY <1>2, <2>1, News
  <2>3. listed[w] \in Option(Seq(Genuine))
    BY <1>2 DEF FindingsInv
  <2> DEFINE mine == Mine(w)
  <2>4. mine = AddVulnerabilities(listed[w], list)
    BY <1>2, <2>2 DEF Mine, Scanned
  <2> HIDE DEF mine
  <2>5. /\ mine \in Option(Seq(Genuine)) /\ mine # None /\ ListOf(mine) # <<>>
        /\ Begins(ListOf(mine), ListOf(listed[w]))
        /\ Ids(ListOf(mine)) = Ids(ListOf(listed[w])) \cup Ids(list)
    BY <2>2, <2>3, <2>4, AddedLists
  <2>6. mine # Some(<<>>)
    BY <2>5, SomeOf DEF ListOf
  <2>7. Reported(found[w]) = Ids(list)
    <3>1. found[w].ok /\ ListOf(found[w].value) = list
      BY <2>2, SomeOf DEF Ok, ListOf
    <3> QED
      BY <3>1, IdentifiedIs DEF Reported
  <2>8. Written(w) = MergeFindings(mine, existing[w])
    BY DEF Written, mine
  <2>9. /\ Written(w) \in Option(Seq(Genuine)) /\ Written(w) # Some(<<>>)
        /\ Begins(ListOf(Written(w)), ListOf(mine))
        /\ Ids(ListOf(Written(w))) = Ids(ListOf(mine)) \cup Ids(ListOf(existing[w]))
    BY <1>1, <2>5, <2>6, <2>8, MergedFindings
  <2> QED
    BY <1>2, <2>5, <2>7, <2>9 DEF mine
<1>3. CASE w \notin Scans
  <2>1. Mine(w) = None /\ None \in Option(Seq(Genuine)) /\ None # Some(<<>>)
    BY <1>3, OptionIs, SomeOf DEF Mine
  <2>2. Written(w) = MergeFindings(None, existing[w])
    BY <2>1 DEF Written
  <2>3. /\ Written(w) \in Option(Seq(Genuine)) /\ Written(w) # Some(<<>>)
        /\ Begins(ListOf(Written(w)), ListOf(None))
        /\ Ids(ListOf(Written(w))) = Ids(ListOf(None)) \cup Ids(ListOf(existing[w]))
        /\ Written(w) = existing[w]
    BY <1>1, <2>1, <2>2, MergedFindings
  <2> QED
    BY <1>3, <2>1, <2>3
<1> QED
  BY <1>2, <1>3

LEMMA InitFindings == Init => FindingsInv /\ Sourced
<1> SUFFICES ASSUME Init PROVE FindingsInv /\ Sourced
  OBVIOUS
<1>1. None \in Option(Seq(Genuine)) /\ None # Some(<<>>)
  BY OptionIs, SomeOf
<1>2. FindingsInv
  BY <1>1 DEF Init, FindingsInv, Labels, Upserts
<1>3. Ids(ListOf(None)) = {}
  BY DEF Ids, ListOf, UnwrapOr
<1> QED
  BY <1>2, <1>3 DEF Init, Sourced

\* An answer that has been given stays.
LEMMA GenuineStays ==
  ASSUME \A s \in Scans : reply[s] # NoReply => reply'[s] = reply[s]
  PROVE  Genuine \subseteq Genuine' /\ Option(Seq(Genuine)) \subseteq Option(Seq(Genuine'))
<1>1. Genuine \subseteq Genuine'
  BY DEF Genuine, FromAnswer
<1>2. Seq(Genuine) \subseteq Seq(Genuine')
  BY <1>1
<1> QED
  BY <1>1, <1>2, OptionIs

\* The steps of a scan before its upsert, and those of upserts.
LEMMA ListStep ==
  ASSUME FindingsInv, NEW s \in Scans, List(s)
  PROVE  FindingsInv'
<1>1. /\ UNCHANGED <<stored, reply, found, existing>> /\ pc[s] = "new" /\ s \in Upserts
      /\ pc' = [pc EXCEPT ![s] = "listed"] /\ listed' = [listed EXCEPT ![s] = stored]
  BY DEF List, Continue, Upserts
<1>2. Genuine' = Genuine
  BY <1>1 DEF Genuine, FromAnswer
<1>3. listed' \in [Scans -> Option(Seq(Genuine))] /\ pc' \in [Upserts -> Labels]
  BY <1>1 DEF FindingsInv, Labels
<1>4. \A t \in Scans : t \in Upserts /\ pc'[t] = IF t = s THEN "listed" ELSE pc[t]
  BY <1>1 DEF FindingsInv, Upserts
<1> QED
  BY <1>1, <1>2, <1>3, <1>4 DEF FindingsInv

LEMMA AskStep ==
  ASSUME FindingsInv, NEW s \in Scans, Ask(s)
  PROVE  FindingsInv'
<1>1. PICK r \in DOMAIN Replies : /\ reply' = [reply EXCEPT ![s] = r]
                                  /\ found' = [found EXCEPT ![s] = FoundIn(r)]
  BY DEF Ask
<1>2. /\ pc[s] = "listed" /\ pc' = [pc EXCEPT ![s] = "asked"] /\ s \in Upserts
      /\ UNCHANGED <<stored, listed, existing>>
  BY DEF Ask, Continue, Upserts
<1>3. reply[s] = NoReply /\ r # NoReply
  BY <1>2, RepliesAssumption DEF FindingsInv
<1>4. Option(Seq(Genuine)) \subseteq Option(Seq(Genuine'))
  BY <1>1, <1>3, GenuineStays DEF FindingsInv
<1>5. found' = [t \in Scans |-> IF reply'[t] = NoReply THEN Ok(None) ELSE FoundIn(reply'[t])]
  BY <1>1, <1>3 DEF FindingsInv
<1>6. /\ stored' \in Option(Seq(Genuine')) /\ listed' \in [Scans -> Option(Seq(Genuine'))]
      /\ existing' \in [Upserts -> Option(Seq(Genuine'))]
  BY <1>2, <1>4 DEF FindingsInv
<1>7. pc' \in [Upserts -> Labels] /\ reply' \in [Scans -> DOMAIN Replies \cup {NoReply}]
  BY <1>1, <1>2 DEF FindingsInv, Labels
<1>8. \A t \in Scans : /\ t \in Upserts
                       /\ pc'[t] = IF t = s THEN "asked" ELSE pc[t]
                       /\ t # s => reply'[t] = reply[t] /\ found'[t] = found[t]
  BY <1>1, <1>2 DEF FindingsInv, Upserts
<1>9. reply'[s] = r
  BY <1>1 DEF FindingsInv
<1>10. \A t \in Scans : /\ pc'[t] \in {"new", "listed"} => reply'[t] = NoReply
                        /\ pc'[t] = "asked" => reply'[t] # NoReply
                        /\ pc'[t] = "saving" => found'[t].ok /\ found'[t].value # None
  BY <1>3, <1>8, <1>9 DEF FindingsInv
<1> QED
  BY <1>2, <1>5, <1>6, <1>7, <1>10 DEF FindingsInv

LEMMA EndStep ==
  ASSUME FindingsInv, NEW w \in Upserts, NEW l \in {"done", "failed"}, Continue(w, l),
         UNCHANGED <<listed, reply, found, existing>>,
         stored' \in Option(Seq(Genuine)), stored' # Some(<<>>)
  PROVE  FindingsInv'
<1>1. Genuine' = Genuine
  BY DEF Genuine, FromAnswer
<1>2. pc' \in [Upserts -> Labels] /\ \A v \in Upserts : pc'[v] = IF v = w THEN l ELSE pc[v]
  BY DEF Continue, FindingsInv, Labels
<1>3. \A s \in Scans : s \in Upserts
  BY DEF Upserts
<1> QED
  BY <1>1, <1>2, <1>3 DEF FindingsInv

LEMMA LookupStep ==
  ASSUME FindingsInv, NEW w \in Upserts, Lookup(w)
  PROVE  FindingsInv'
<1>1. /\ Ready(w) /\ existing' = [existing EXCEPT ![w] = stored]
      /\ pc' = [pc EXCEPT ![w] = "saving"]
      /\ UNCHANGED <<stored, listed, reply, found>>
  BY DEF Lookup, Continue
<1>2. Genuine' = Genuine
  BY <1>1 DEF Genuine, FromAnswer
<1>3. pc' \in [Upserts -> Labels] /\ existing' \in [Upserts -> Option(Seq(Genuine))]
  BY <1>1 DEF FindingsInv, Labels
<1>4. \A v \in Upserts : /\ pc'[v] = IF v = w THEN "saving" ELSE pc[v]
                         /\ existing'[v] = IF v = w THEN stored ELSE existing[v]
  BY <1>1 DEF FindingsInv
<1>5. \A s \in Scans : s \in Upserts
  BY DEF Upserts
<1> QED
  BY <1>1, <1>2, <1>3, <1>4, <1>5 DEF FindingsInv, Ready

LEMMA SaveStep ==
  ASSUME FindingsInv, NEW w \in Upserts, Save(w)
  PROVE  /\ FindingsInv'
         /\ pc[w] = "saving" /\ stored' \in {stored, Written(w)}
<1>1. /\ pc[w] = "saving" /\ stored' \in {stored, Written(w)}
      /\ UNCHANGED <<listed, reply, found, existing>>
  BY DEF Save
<1>2. PICK l \in {"done", "failed"} : Continue(w, l)
  BY DEF Save
<1>3. stored' \in Option(Seq(Genuine)) /\ stored' # Some(<<>>)
  BY <1>1, WrittenIs DEF FindingsInv
<1> QED
  BY <1>1, <1>2, <1>3, EndStep

LEMMA NextFindings == FindingsInv /\ [Next]_vars => FindingsInv'
<1> SUFFICES ASSUME FindingsInv, [Next]_vars PROVE FindingsInv'
  OBVIOUS
<1>1. CASE UNCHANGED vars
  BY <1>1 DEF vars, FindingsInv, Genuine, FromAnswer
<1>2. ASSUME NEW s \in Scans, NothingFound(s) PROVE FindingsInv'
  <2>1. s \in Upserts
    BY DEF Upserts
  <2> QED
    BY <1>2, <2>1, EndStep DEF NothingFound, FindingsInv
<1>3. ASSUME NEW w \in Upserts, Abandon(w) PROVE FindingsInv'
  BY <1>3, EndStep DEF Abandon, FindingsInv
<1> QED
  BY <1>1, <1>2, <1>3, ListStep, AskStep, LookupStep, SaveStep DEF Next, Scan

LEMMA AlwaysFindings == Spec => []FindingsInv
<1>1. Init => FindingsInv
  BY InitFindings
<1> QED
  BY <1>1, NextFindings, PTL DEF Spec

\* Whatever Snyk answers, and through every merge, the list of a Purl is missing or holds
\* well-formed findings, never none, and a scan that goes on to save has found some.
THEOREM FindingsTypeCorrect == Spec => []TypeOK
<1>1. FindingsInv => TypeOK
  <2> SUFFICES ASSUME FindingsInv PROVE TypeOK
    OBVIOUS
  <2>1. Seq(Genuine) \subseteq Seq(Vulnerability)
    <3>1. Genuine \subseteq Vulnerability
      BY AdapterIsTotal DEF Genuine
    <3> QED
      BY <3>1
  <2>2. stored \in Option(Seq(Vulnerability)) /\ stored # Some(<<>>)
    BY <2>1 DEF FindingsInv, Option
  <2>3. ASSUME NEW s \in Scans, found[s].ok PROVE found[s].value # Some(<<>>)
    <3>1. CASE found[s].value = None
      BY <3>1, SomeOf
    <3>2. CASE found[s].value # None
      <4>1. PICK list \in Seq(Genuine) : list # <<>> /\ found[s] = Ok(Some(list))
        BY <2>3, <3>2, News
      <4>2. found[s].value = Some(list)
        BY <4>1 DEF Ok
      <4> QED
        BY <4>1, <4>2, SomeOf
    <3> QED
      BY <3>1, <3>2
  <2> QED
    BY <2>2, <2>3 DEF TypeOK, FindingsInv, Labels
<1> QED
  BY <1>1, AlwaysFindings, PTL

\* Every finding on record is what the adapter makes of an issue of a whole answer with
\* status 200, however many merges of lists of whatever length it has come through.
THEOREM RecordedAnswered == Spec => []RecordedWasAnswered
<1>1. FindingsInv => RecordedWasAnswered
  <2> SUFFICES ASSUME FindingsInv PROVE \A v \in Range(ListOf(stored)) : v \in Genuine
    BY DEF Genuine, FromAnswer, RecordedWasAnswered, ListOf
  <2>1. ListOf(stored) \in Seq(Genuine)
    BY ListOfOption DEF FindingsInv
  <2> QED
    BY <2>1 DEF Range
<1> QED
  BY <1>1, AlwaysFindings, PTL

LEMMA BeginsIsPrefix ==
  ASSUME NEW S, NEW list \in Seq(S), NEW start \in Seq(S), Begins(list, start)
  PROVE  IsPrefix(start, list)
<1>1. Len(start) \in Nat /\ Len(list) \in Nat /\ Len(start) <= Len(list)
  BY DEF Begins
<1>2. SubSeq(start, 1, Len(start)) = SubSeq(list, 1, Len(start))
  <2>1. /\ SubSeq(start, 1, Len(start)) = [n \in 1..Len(start) |-> start[n]]
        /\ SubSeq(list, 1, Len(start)) = [n \in 1..Len(start) |-> list[n]]
    BY <1>1
  <2> QED
    BY <2>1 DEF Begins
<1> QED
  BY <1>1, <1>2 DEF IsPrefix

\* The first reading of a finding stays, and its place, as long as every scan and every
\* upsert that is under way has read what is stored: upsert_purl puts the findings its
\* caller has listed first.
THEOREM FirstReadingStays == Spec => FirstReadingKept
<1>1. FindingsInv /\ [Next]_vars =>
        [(\A w \in Saving : existing[w] = stored /\ (w \in Scans => listed[w] = stored)) =>
           IsPrefix(UnwrapOr(stored, <<>>), UnwrapOr(stored', <<>>))]_vars
  <2>1. ASSUME FindingsInv, Next,
               \A w \in Saving : existing[w] = stored /\ (w \in Scans => listed[w] = stored)
        PROVE  IsPrefix(ListOf(stored), ListOf(stored'))
    <3>1. ListOf(stored) \in Seq(Genuine)
      BY <2>1, ListOfOption DEF FindingsInv
    <3>2. CASE UNCHANGED stored
      <4>1. Begins(ListOf(stored), ListOf(stored))
        BY <3>1 DEF Begins
      <4> QED
        BY <3>1, <3>2, <4>1, BeginsIsPrefix
    <3>3. ASSUME NEW w \in Upserts, Save(w)
          PROVE  IsPrefix(ListOf(stored), ListOf(stored'))
      <4>1. pc[w] = "saving" /\ stored' \in {stored, Written(w)}
        BY <2>1, <3>3, SaveStep
      <4>2. existing[w] = stored /\ (w \in Scans => listed[w] = stored)
        BY <2>1, <4>1 DEF Saving
      <4>3. CASE w \in Scans /\ stored' = Written(w)
        <5>1. /\ Written(w) \in Option(Seq(Genuine)) /\ Mine(w) \in Option(Seq(Genuine))
              /\ Begins(ListOf(Written(w)), ListOf(Mine(w)))
              /\ Begins(ListOf(Mine(w)), ListOf(stored))
          BY <2>1, <4>1, <4>2, <4>3, WrittenIs
        <5>2. ListOf(Written(w)) \in Seq(Genuine) /\ ListOf(Mine(w)) \in Seq(Genuine)
          BY <5>1, ListOfOption
        <5>3. Begins(ListOf(Written(w)), ListOf(stored))
          BY <3>1, <5>1, <5>2, BeginsTransitive
        <5> QED
          BY <3>1, <4>3, <5>2, <5>3, BeginsIsPrefix
      <4>4. CASE w \notin Scans \/ stored' = stored
        BY <2>1, <3>2, <4>1, <4>2, <4>4, WrittenIs
      <4> QED
        BY <4>1, <4>3, <4>4
    <3> QED
      BY <2>1, <3>2, <3>3 DEF Next, Scan, List, Ask, NothingFound, Lookup, Abandon
  <2> QED
    BY <2>1 DEF ListOf
<1> QED
  BY <1>1, AlwaysFindings, PTL DEF Spec, FirstReadingKept

------------------------------------------------------------------------------
(* Upserts that overlap: the book of findings. *)

Known == Identified(stored)
Reports == [s \in Scans |-> Reported(found[s])]
Outcomes == [s \in Scans |-> Outcome(s)]

LEMMA NothingReported == Reported(Ok(None)) = {} /\ Identified(None) = {}
<1>1. UnwrapOr(None, <<>>) = <<>> /\ Range(<<>>) = {}
  BY DEF UnwrapOr, Range
<1> QED
  BY <1>1 DEF Reported, Ok, Identified

\* What a scan or a sync writes, some scan has reported.
LEMMA WrittenSourced ==
  ASSUME FindingsInv, Sourced, NEW w \in Upserts, pc[w] = "saving"
  PROVE  Ids(ListOf(Written(w))) \subseteq AllReported
<1>1. Ids(ListOf(existing[w])) \subseteq AllReported
  BY DEF Sourced
<1>2. CASE w \in Scans
  <2>1. Ids(ListOf(listed[w])) \subseteq AllReported /\ Reported(found[w]) \subseteq AllReported
    BY <1>2 DEF Sourced, AllReported
  <2> QED
    BY <1>1, <1>2, <2>1, WrittenIs
<1>3. CASE w \notin Scans
  BY <1>1, <1>3, WrittenIs
<1> QED
  BY <1>2, <1>3

LEMMA NextSourced == FindingsInv /\ Sourced /\ [Next]_vars => Sourced'
<1> SUFFICES ASSUME FindingsInv, Sourced, [Next]_vars PROVE Sourced'
  OBVIOUS
<1>1. CASE UNCHANGED <<stored, listed, found, existing>>
  BY <1>1 DEF Sourced, AllReported
<1>2. ASSUME NEW s \in Scans, List(s) PROVE Sourced'
  <2>1. UNCHANGED <<stored, found, existing>> /\ \A t \in Scans : listed'[t] \in {listed[t], stored}
    BY <1>2 DEF List, FindingsInv
  <2> QED
    BY <2>1 DEF Sourced, AllReported
<1>3. ASSUME NEW s \in Scans, Ask(s) PROVE Sourced'
  <2>1. /\ UNCHANGED <<stored, listed, existing>> /\ found[s] = Ok(None)
        /\ \A t \in Scans : t # s => found'[t] = found[t]
    BY <1>3 DEF Ask, FindingsInv
  <2>2. AllReported \subseteq AllReported'
    BY <2>1, NothingReported DEF AllReported
  <2> QED
    BY <2>1, <2>2 DEF Sourced
<1>4. ASSUME NEW w \in Upserts, Lookup(w) PROVE Sourced'
  <2>1. UNCHANGED <<stored, listed, found>> /\ \A v \in Upserts : existing'[v] \in {existing[v], stored}
    BY <1>4 DEF Lookup, FindingsInv
  <2> QED
    BY <2>1 DEF Sourced, AllReported
<1>5. ASSUME NEW w \in Upserts, Save(w) PROVE Sourced'
  <2>1. /\ pc[w] = "saving" /\ stored' \in {stored, Written(w)}
        /\ UNCHANGED <<listed, found, existing>>
    BY <1>5 DEF Save
  <2> QED
    BY <2>1, WrittenSourced DEF Sourced, AllReported
<1> QED
  BY <1>1, <1>2, <1>3, <1>4, <1>5 DEF Next, Scan, NothingFound, Abandon, vars

\* What the caller of an upsert brings does not change while the scan is not.
LEMMA MineStays ==
  ASSUME NEW w, w \in Scans => listed'[w] = listed[w] /\ found'[w] = found[w]
  PROVE  Mine(w)' = Mine(w)
BY DEF Mine, Scanned

\* What is safe does not change unless something is written: the query of an upsert that
\* begins is answered with what is stored.
LEMMA SafeUnchanged ==
  ASSUME UNCHANGED stored, Saving \subseteq Saving',
         \A w \in Saving : existing'[w] = existing[w] /\ Mine(w)' = Mine(w),
         \A w \in Saving' \ Saving : existing'[w] = stored
  PROVE  SafeFindings' = SafeFindings
<1>1. ASSUME NEW id \in SafeFindings PROVE id \in SafeFindings'
  <2>1. id \in Identified(stored)
    BY DEF SafeFindings
  <2>2. ASSUME NEW w \in Saving' PROVE id \in Identified(existing'[w]) \cup Identified(Mine(w)')
    <3>1. CASE w \in Saving
      <4>1. id \in Identified(existing[w]) \cup Identified(Mine(w))
        BY <3>1 DEF SafeFindings
      <4> QED
        BY <3>1, <4>1
    <3>2. CASE w \notin Saving
      BY <2>1, <3>2
    <3> QED
      BY <3>1, <3>2
  <2> QED
    BY <2>1, <2>2 DEF SafeFindings
<1>2. ASSUME NEW id \in SafeFindings' PROVE id \in SafeFindings
  <2>1. id \in Identified(stored)
    BY DEF SafeFindings
  <2>2. ASSUME NEW w \in Saving PROVE id \in Identified(existing[w]) \cup Identified(Mine(w))
    <3>1. id \in Identified(existing'[w]) \cup Identified(Mine(w)')
      BY DEF SafeFindings
    <3> QED
      BY <3>1
  <2> QED
    BY <2>1, <2>2 DEF SafeFindings
<1> QED
  BY <1>1, <1>2

\* A write takes its writer off those under way, keeps what is safe and, when it is the
\* last, leaves everything safe.
LEMMA SafeAfterWrite ==
  ASSUME FindingsInv, NEW w \in Upserts, Save(w)
  PROVE  /\ Saving' = Saving \ {w} /\ SafeFindings \subseteq SafeFindings'
         /\ Saving' = {} => SafeFindings' = Known'
<1>1. /\ pc[w] = "saving" /\ stored' \in {stored, Written(w)}
      /\ UNCHANGED <<listed, found, existing>>
      /\ \E l \in {"done", "failed"} : pc' = [pc EXCEPT ![w] = l]
  BY DEF Save, Continue
<1>2. w \in Saving /\ Saving' = Saving \ {w}
  BY <1>1 DEF Saving, FindingsInv
<1>3. \A v : Mine(v)' = Mine(v)
  BY <1>1, MineStays
<1>4. SafeFindings \subseteq Identified(stored')
  <2>1. SafeFindings \subseteq Identified(stored)
    BY DEF SafeFindings
  <2>2. SafeFindings \subseteq Identified(Mine(w)) \cup Identified(existing[w])
    BY <1>2 DEF SafeFindings
  <2>3. Identified(Written(w)) = Identified(Mine(w)) \cup Identified(existing[w])
    BY <1>1, WrittenIs, IdentifiedIs
  <2> QED
    BY <1>1, <2>1, <2>2, <2>3
<1>5. ASSUME NEW id \in SafeFindings, NEW v \in Saving'
      PROVE  id \in Identified(existing'[v]) \cup Identified(Mine(v)')
  <2>1. id \in Identified(existing[v]) \cup Identified(Mine(v))
    BY <1>2 DEF SafeFindings
  <2> QED
    BY <1>1, <1>3, <2>1
<1>6. SafeFindings \subseteq SafeFindings'
  BY <1>4, <1>5 DEF SafeFindings
<1>7. Saving' = {} => SafeFindings' = Known'
  BY DEF SafeFindings, Known
<1> QED
  BY <1>2, <1>6, <1>7

LEMMA InitBook == Init => Book!Init
<1> SUFFICES ASSUME Init PROVE Book!Init
  OBVIOUS
<1>1. Known = {} /\ SafeFindings = {}
  BY NothingReported DEF Init, Known, SafeFindings
<1>2. Reports = [s \in Scans |-> {}]
  BY NothingReported DEF Init, Reports
<1>3. Outcomes = [s \in Scans |-> "open"]
  BY DEF Init, Outcomes, Outcome, Upserts
<1>4. Saving = {}
  BY DEF Init, Saving
<1> QED
  BY <1>1, <1>2, <1>3, <1>4 DEF Book!Init, Known, Reports, Outcomes

\* A step of a scan or a sync before its write, but its query.
LEMMA BeforeWrite ==
  ASSUME FindingsInv, NEW w \in Upserts, pc[w] # "saving", UNCHANGED <<stored, existing>>,
         \E l \in Labels \ {"saving"} : Continue(w, l),
         \A t \in Scans : t # w => listed'[t] = listed[t] /\ found'[t] = found[t]
  PROVE  Saving' = Saving /\ SafeFindings' = SafeFindings /\ Known' = Known
<1>1. Saving' = Saving /\ w \notin Saving
  BY DEF Continue, Saving, FindingsInv
<1>2. \A v \in Saving : Mine(v)' = Mine(v)
  BY <1>1, MineStays
<1>3. SafeFindings' = SafeFindings
  BY <1>1, <1>2, SafeUnchanged
<1> QED
  BY <1>1, <1>3 DEF Known

\* A scan that ends: it was open, and its outcome is the only one that changes.
LEMMA Ended ==
  ASSUME FindingsInv, NEW s \in Scans, pc[s] \notin {"done", "failed"},
         NEW l \in {"done", "failed"}, Continue(s, l), UNCHANGED found
  PROVE  /\ Outcomes[s] = "open" /\ Reports' = Reports
         /\ Outcomes' = [Outcomes EXCEPT ![s] = IF l = "done" THEN "recorded" ELSE "failed"]
<1>1. pc' = [pc EXCEPT ![s] = l] /\ pc \in [Upserts -> Labels] /\ \A t \in Scans : t \in Upserts
  BY DEF Continue, FindingsInv, Upserts
<1>2. Outcomes[s] = "open" /\ Reports' = Reports
  BY DEF Outcomes, Outcome, Reports
<1>3. pc'[s] = l /\ \A t \in Scans : t # s => pc'[t] = pc[t]
  BY <1>1
<1>4. Outcomes' = [Outcomes EXCEPT ![s] = IF l = "done" THEN "recorded" ELSE "failed"]
  BY <1>3 DEF Outcomes, Outcome
<1> QED
  BY <1>2, <1>4

\* A step with which no scan ends changes no outcome.
LEMMA NoneEnds ==
  ASSUME \A t \in Scans : \/ pc'[t] = pc[t]
                          \/ {pc[t], pc'[t]} \cap {"done", "failed"} = {}
  PROVE  Outcomes' = Outcomes
<1>1. \A t \in Scans : Outcome(t)' = Outcome(t)
  BY DEF Outcome
<1> QED
  BY <1>1 DEF Outcomes

LEMMA StepBook ==
  ASSUME FindingsInv, Sourced, [Next]_vars
  PROVE  [Book!Next]_(Book!bookVars)
<1> DEFINE bookOf == <<Known, SafeFindings, Reports, Outcomes, Saving>>
<1>1. CASE UNCHANGED bookOf
  BY <1>1 DEF Book!bookVars, Known, Reports, Outcomes
<1>2. CASE UNCHANGED vars
  <2>1. UNCHANGED bookOf
    BY <1>2 DEF vars, Known, SafeFindings, Mine, Scanned, Reports, Outcomes, Outcome, Saving
  <2> QED
    BY <1>1, <2>1
<1>3. AllReported = UNION {Reports[s] : s \in Scans} /\ Known \subseteq AllReported
  BY IdentifiedIs DEF AllReported, Reports, Known, Sourced
<1>4. ASSUME NEW s \in Scans, List(s) PROVE UNCHANGED bookOf
  <2>1. /\ UNCHANGED <<stored, found, existing>> /\ pc[s] = "new" /\ Continue(s, "listed")
        /\ s \in Upserts /\ \A t \in Scans : t # s => listed'[t] = listed[t]
    BY <1>4 DEF List, FindingsInv, Upserts
  <2>2. Saving' = Saving /\ SafeFindings' = SafeFindings /\ Known' = Known
    BY <2>1, BeforeWrite DEF Labels
  <2>3. \A t \in Scans : pc'[t] = pc[t] \/ {pc[t], pc'[t]} \cap {"done", "failed"} = {}
    BY <2>1 DEF Continue, FindingsInv, Upserts
  <2> QED
    BY <2>1, <2>2, <2>3, NoneEnds DEF Reports
<1>5. ASSUME NEW s \in Scans, Ask(s) PROVE Book!Report(s)
  <2>1. PICK r \in DOMAIN Replies : found' = [found EXCEPT ![s] = FoundIn(r)]
    BY <1>5 DEF Ask
  <2>2. /\ pc[s] = "listed" /\ Continue(s, "asked") /\ UNCHANGED <<stored, listed, existing>>
        /\ found[s] = Ok(None) /\ DOMAIN found = Scans /\ s \in Upserts
    BY <1>5 DEF Ask, FindingsInv, Upserts
  <2>3. Saving' = Saving /\ SafeFindings' = SafeFindings /\ Known' = Known
    BY <2>1, <2>2, BeforeWrite DEF Labels
  <2>4. Outcomes' = Outcomes /\ Outcomes[s] = "open"
    <3>1. \A t \in Scans : pc'[t] = pc[t] \/ {pc[t], pc'[t]} \cap {"done", "failed"} = {}
      BY <2>2 DEF Continue, FindingsInv, Upserts
    <3> QED
      BY <2>2, <3>1, NoneEnds DEF Outcomes, Outcome
  <2>5. Reports[s] = {} /\ Reports' = [Reports EXCEPT ![s] = Reported(FoundIn(r))]
    BY <2>1, <2>2, NothingReported DEF Reports
  <2>6. Reported(FoundIn(r)) \in SUBSET Identities
    BY DEF Identities
  <2> QED
    BY <2>3, <2>4, <2>5, <2>6 DEF Book!Report, Known, Reports, Outcomes
<1>6. ASSUME NEW s \in Scans, pc[s] \notin {"saving", "done", "failed"},
             UNCHANGED <<stored, listed, found, existing>>,
             Continue(s, "failed") \/ (Continue(s, "done") /\ Reports[s] = {})
      PROVE  Book!Record(s) \/ Book!Fail(s)
  <2>1. s \in Upserts
    BY DEF Upserts
  <2>2. Saving' = Saving /\ SafeFindings' = SafeFindings /\ Known' = Known /\ s \notin Saving
    BY <1>6, <2>1, BeforeWrite DEF Labels, Saving
  <2>3. Saving' = {} => SafeFindings' = Known'
    BY DEF SafeFindings, Known
  <2>4. SafeFindings \subseteq Known
    BY DEF SafeFindings, Known
  <2>5. Reports' = Reports
    BY <1>6 DEF Reports
  <2>6. Book!Written(s, {})
    BY <1>3, <2>2, <2>3, <2>4, <2>5 DEF Book!Written, Known, Reports
  <2>7. CASE Continue(s, "failed")
    BY <1>6, <2>6, <2>7, Ended DEF Book!Fail, Outcomes
  <2>8. CASE Continue(s, "done") /\ Reports[s] = {}
    BY <1>6, <2>6, <2>8, Ended DEF Book!Record, Outcomes, Reports
  <2> QED
    BY <1>6, <2>7, <2>8
<1>7. ASSUME NEW s \in Scans, NothingFound(s) PROVE Book!Record(s) \/ Book!Fail(s)
  <2>1. pc[s] = "asked" /\ UNCHANGED <<stored, listed, found, existing>>
    BY <1>7 DEF NothingFound
  <2>2. ASSUME found[s].value = None, found[s].ok PROVE Reports[s] = {}
    BY <2>2, NothingReported DEF Reports, Reported
  <2> QED
    BY <1>6, <1>7, <2>1, <2>2 DEF NothingFound
<1>8. ASSUME NEW w \in Upserts, Abandon(w)
      PROVE  (w \in Scans /\ Book!Fail(w)) \/ (w \in Scans /\ Book!Record(w)) \/ UNCHANGED bookOf
  <2>1. /\ pc[w] \notin {"saving", "done", "failed"} /\ Continue(w, "failed")
        /\ UNCHANGED <<stored, listed, found, existing>>
    BY <1>8 DEF Abandon
  <2>2. CASE w \in Scans
    BY <1>6, <2>1, <2>2
  <2>3. CASE w \notin Scans
    <3>1. Saving' = Saving /\ SafeFindings' = SafeFindings /\ Known' = Known
      BY <2>1, BeforeWrite DEF Labels
    <3>2. \A t \in Scans : pc'[t] = pc[t]
      BY <2>1, <2>3 DEF Continue, FindingsInv, Upserts
    <3> QED
      BY <2>1, <3>1, <3>2, NoneEnds DEF Reports
  <2> QED
    BY <2>2, <2>3
<1>9. ASSUME NEW w \in Upserts, Lookup(w) PROVE Book!Begin(w)
  <2>1. /\ UNCHANGED <<stored, listed, found>> /\ pc' = [pc EXCEPT ![w] = "saving"] /\ Ready(w)
        /\ existing' = [existing EXCEPT ![w] = stored]
    BY <1>9 DEF Lookup, Continue
  <2>2. IF w \in Scans THEN pc[w] = "asked" ELSE pc[w] = "new"
    BY <2>1 DEF Ready
  <2>3. w \notin Saving /\ Saving' = Saving \cup {w}
    BY <2>1, <2>2 DEF Saving, FindingsInv
  <2>4. existing'[w] = stored /\ \A v \in Saving : v # w /\ v \in Upserts /\ existing'[v] = existing[v]
    BY <2>1, <2>3 DEF FindingsInv, Saving
  <2>5. \A v : Mine(v)' = Mine(v)
    BY <2>1, MineStays
  <2>6. SafeFindings' = SafeFindings
    BY <2>1, <2>3, <2>4, <2>5, SafeUnchanged
  <2>7. Outcomes' = Outcomes
    <3>1. \A t \in Scans : pc'[t] = pc[t] \/ {pc[t], pc'[t]} \cap {"done", "failed"} = {}
      BY <2>1, <2>2 DEF FindingsInv, Upserts
    <3> QED
      BY <3>1, NoneEnds
  <2>8. w \in Scans => Outcomes[w] = "open"
    BY <2>2 DEF Outcomes, Outcome
  <2>9. UNCHANGED <<Known, Reports>>
    BY <2>1 DEF Known, Reports
  <2> QED
    BY <2>3, <2>6, <2>7, <2>8, <2>9 DEF Book!Begin, Known, Reports, Outcomes
<1>10. ASSUME NEW w \in Upserts, Save(w)
       PROVE  (w \in Scans /\ (Book!Record(w) \/ Book!Fail(w))) \/ (w \in Syncs /\ Book!Overwrite(w))
  <2>1. /\ pc[w] = "saving" /\ UNCHANGED found /\ stored' \in {stored, Written(w)}
        /\ \/ stored' = Written(w) /\ Continue(w, "done")
           \/ Continue(w, "failed")
    BY <1>10 DEF Save
  <2>2. /\ Saving' = Saving \ {w} /\ SafeFindings \subseteq SafeFindings' /\ w \in Saving
        /\ Saving' = {} => SafeFindings' = Known'
    BY <1>10, <2>1, SafeAfterWrite DEF Saving
  <2>3. Known' \subseteq AllReported /\ Reports' = Reports
    <3>1. Identified(Written(w)) \subseteq AllReported
      BY <2>1, WrittenSourced, IdentifiedIs
    <3> QED
      BY <1>3, <2>1, <3>1 DEF Known, Reports
  <2>4. SafeFindings' \subseteq Known'
    BY DEF SafeFindings, Known
  <2>5. Book!Written(w, {})
    BY <1>3, <2>2, <2>3, <2>4 DEF Book!Written, Known, Reports
  <2>6. CASE w \in Scans
    <3>1. CASE Continue(w, "failed")
      BY <2>1, <2>5, <2>6, <3>1, Ended DEF Book!Fail, Outcomes
    <3>2. CASE stored' = Written(w) /\ Continue(w, "done")
      <4>1. Reports[w] \subseteq Known'
        <5>1. Reported(found[w]) \subseteq Identified(Written(w))
          BY <2>1, <2>6, WrittenIs, IdentifiedIs
        <5> QED
          BY <2>6, <3>2, <5>1 DEF Reports, Known
      <4>2. Book!Written(w, Reports[w])
        BY <1>3, <2>2, <2>3, <2>4, <4>1 DEF Book!Written, Known, Reports
      <4> QED
        BY <2>1, <2>6, <3>2, <4>2, Ended DEF Book!Record, Outcomes, Reports
    <3> QED
      BY <2>1, <2>6, <3>1, <3>2
  <2>7. CASE w \notin Scans
    <3>1. w \in Syncs
      BY <2>7 DEF Upserts
    <3>2. \A t \in Scans : pc'[t] = pc[t]
      BY <2>1, <2>7 DEF Continue, FindingsInv, Upserts
    <3>3. Outcomes' = Outcomes
      BY <3>2, NoneEnds
    <3> QED
      BY <2>2, <2>5, <3>1, <3>3 DEF Book!Overwrite, Outcomes
  <2> QED
    BY <2>6, <2>7
<1> HIDE DEF bookOf
<1>11. \A w \in Scans : w \in Scans \cup Syncs
  OBVIOUS
<1> QED
  BY <1>1, <1>2, <1>4, <1>5, <1>7, <1>8, <1>9, <1>10, <1>11 DEF Next, Scan, Book!Next, Upserts

LEMMA AlwaysSourced == Spec => [](FindingsInv /\ Sourced)
<1>1. FindingsInv /\ Sourced /\ [Next]_vars => (FindingsInv /\ Sourced)'
  BY NextFindings, NextSourced
<1> QED
  BY <1>1, InitFindings, PTL DEF Spec

\* However upserts overlap, whatever scans have listed before, however long the lists and
\* whichever calls fail, scans and syncs implement the book by identity: the report of a
\* scan is on record when it ends well, and what every upsert under way knows of stays.
THEOREM BookImplemented == Spec => ImplementsFindingsBook
<1>1. FindingsInv /\ Sourced /\ [Next]_vars => [Book!Next]_(Book!bookVars)
  BY StepBook
<1> QED
  BY <1>1, InitBook, AlwaysSourced, PTL DEF Spec, ImplementsFindingsBook, Book!Spec

\* A finding that all upserts under way know of stays on record: what can be lost is only
\* what was written after the query of an upsert under way had been answered.
THEOREM SafeFindingsKept == Spec => SafeFindingsStay
<1>1. FindingsInv /\ Sourced /\ [Next]_vars => [SafeFindings \subseteq SafeFindings']_vars
  <2> SUFFICES ASSUME FindingsInv, Sourced, [Next]_vars PROVE SafeFindings \subseteq SafeFindings'
    OBVIOUS
  <2>1. [Book!Next]_(Book!bookVars)
    BY StepBook
  <2> QED
    BY <2>1 DEF Book!Next, Book!bookVars, Book!Report, Book!Record, Book!Fail, Book!Begin,
                Book!Overwrite, Book!Written
<1> QED
  BY <1>1, AlwaysSourced, PTL DEF Spec, SafeFindingsStay
==============================================================================
