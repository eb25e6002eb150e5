--------------------------- MODULE RepReadProofs ---------------------------
(***************************************************************************)
(* Theorems about RepRead, for every set of Reps, every page size and      *)
(* every number of saves during the walk.                                  *)
(*                                                                         *)
(* WalkGoesWrongBySaves speaks of the end of a walk.  What holds on the    *)
(* way is that the untouched Reps a client has seen are those whose place  *)
(* in the order it has passed, but for as many as were saved: a Rep that   *)
(* is passed unseen will be missed, one that is seen ahead will be met     *)
(* again.                                                                  *)
(***************************************************************************)
EXTENDS RepRead, FiniteSetTheorems, SequenceTheorems, TLAPS

Before(r) == {s \in AllListed : table[s].name < table[r].name}

(* How many listed Reps come before r by name. *)
Place(r) == Cardinality(Before(r))

(* How many places the pages read so far have covered. *)
Reached == IF walk.at = "total" THEN walk.page * walk.size ELSE Skip(walk.page)

(* The rows read so far, the current page's included. *)
Answered == IF walk.at = "total" THEN walk.got \o walk.rows ELSE walk.got

Passed == {r \in steady : Place(r) < Reached}

Within(x, s) == \E i \in 1 .. Len(s) : s[i] = x

Seen == {r \in steady : Within(r, Answered)}

Again ==
    {i \in DOMAIN Answered :
        /\ Answered[i] \in steady
        /\ \E j \in 1 .. i - 1 : Answered[j] = Answered[i]}

(* The Reps that are passed unseen or seen ahead. *)
Wrong == (Passed \ Seen) \cup (Seen \ Passed)

Begun == walk.page # 1 \/ walk.at # "rows"

WalkInv ==
    /\ TypeOK
    /\ steady \subseteq AllListed
    /\ ~Begun => walk.got = <<>>
    /\ Begun /\ ~walk.tied => \A r, s \in steady : ~Tied(r, s)
    /\ ~walk.tied => Cardinality(Wrong) + Cardinality(Again) <= commits
    /\ walk.at = "done" => steady \subseteq Passed

(* No answer's rows are read after its total. *)
AnswerInv ==
    /\ TypeOK
    /\ walk.read <= commits
    /\ AnswerFitsTotal
-----------------------------------------------------------------------------
(***************************************************************************)
(* Arithmetic of pages, and types.                                         *)
(***************************************************************************)
LEMMA MinOfTwo ==
    ASSUME NEW a \in Int, NEW b \in Int
    PROVE  Min({a, b}) = IF a <= b THEN a ELSE b
BY DEF Min

LEMMA MaxOfTwo ==
    ASSUME NEW a \in Int, NEW b \in Int
    PROVE  Max({a, b}) = IF a <= b THEN b ELSE a
BY DEF Max

(* What the proofs need to know of Skip. *)
LEMMA SkipType ==
    ASSUME TypeOK
    PROVE  /\ walk.size \in Nat \ {0} /\ walk.page \in Nat \ {0}
           /\ Skip(walk.page) \in Nat
           /\ walk.page * walk.size = Skip(walk.page) + walk.size
           /\ walk.page = 1 => Skip(walk.page) = 0
<1>1. walk.size \in Nat \ {0} /\ walk.page \in Nat \ {0}
  BY ReadAssumption DEF TypeOK, Walk
<1>2. ASSUME NEW p \in Nat \ {0}, NEW n \in Nat \ {0}
      PROVE  /\ (p - 1) * n \in Nat
             /\ p * n = (p - 1) * n + n
             /\ p = 1 => (p - 1) * n = 0
  BY <1>2
<1> QED
  BY <1>1, <1>2 DEF Skip

LEMMA ListedFinite ==
    /\ IsFiniteSet(AllListed)
    /\ Total \in Nat
    /\ AllListed \subseteq RepIds
BY ReadAssumption, FS_Subset, FS_CardinalityType DEF AllListed, Total

(* What a page of size rows from k on has when there are m Reps. *)
Due(k, size, m) ==
    IF m <= k THEN 0 ELSE IF size <= m - k THEN size ELSE m - k

LEMMA RowsDueIs ==
    ASSUME TypeOK, NEW total \in Nat
    PROVE  RowsDue(walk.page, total) = Due(Skip(walk.page), walk.size, total)
<1>1. walk.size \in Nat \ {0} /\ Skip(walk.page) \in Nat
  BY SkipType
<1>2. Min({walk.size, total - Skip(walk.page)}) =
        IF walk.size <= total - Skip(walk.page) THEN walk.size
        ELSE total - Skip(walk.page)
  BY <1>1, MinOfTwo
<1> QED
  BY <1>1, <1>2, MaxOfTwo DEF RowsDue, Due

(* An order is a numbering of the listed Reps. *)
LEMMA OrderingIs ==
    ASSUME NEW s \in Orderings
    PROVE  /\ s \in [1 .. Total -> AllListed]
           /\ s \in Seq(AllListed) /\ Len(s) = Total
           /\ \A i, j \in 1 .. Total : s[i] = s[j] => i = j
           /\ \A i, j \in 1 .. Total : i < j => table[s[i]].name <= table[s[j]].name
           /\ \A r \in AllListed : \E i \in 1 .. Total : s[i] = r
<1>1. /\ s \in [1 .. Total -> AllListed]
      /\ \A i, j \in 1 .. Total : i # j => s[i] # s[j]
  BY DEF Orderings, SetToSeqs, Total
<1>2. DOMAIN s = 1 .. Total /\ Total \in Nat
  BY <1>1, ListedFinite
<1>3. s \in Seq(AllListed) /\ Len(s) = Total
  BY <1>1, <1>2, SeqDef
<1>4. s \in Injection(1 .. Total, AllListed)
  BY <1>1 DEF Injection, IsInjective
<1>5. s \in Surjection(1 .. Total, AllListed)
  <2>1. Cardinality(1 .. Total) = Cardinality(AllListed)
    BY <1>2, FS_Interval DEF Total
  <2> QED
    BY <1>4, <2>1, ListedFinite, FS_Injection
<1>6. \A r \in AllListed : \E i \in 1 .. Total : s[i] = r
  BY <1>5 DEF Surjection
<1>7. \A i, j \in 1 .. Total : i < j => table[s[i]].name <= table[s[j]].name
  BY <1>2 DEF Orderings
<1> QED
  BY <1>1, <1>3, <1>6, <1>7

(* What FindRows cuts out of an order. *)
PageOf(s) == SubSeq(s, Skip(walk.page) + 1,
                    Min({Skip(walk.page) + walk.size, Len(s)}))

(* The rows of a page are the places from Skip on. *)
LEMMA PageIs ==
    ASSUME TypeOK, NEW s \in Orderings, NEW rows, rows = PageOf(s)
    PROVE  /\ rows \in Seq(RepIds)
           /\ Len(rows) = RowsDue(walk.page, Total)
           /\ \A i \in 1 .. Len(rows) :
                /\ rows[i] = s[Skip(walk.page) + i]
                /\ Skip(walk.page) + i \in 1 .. Total
                /\ i <= walk.size
           /\ \A p \in 1 .. Total :
                Skip(walk.page) < p /\ p <= Skip(walk.page) + walk.size =>
                    /\ p - Skip(walk.page) \in 1 .. Len(rows)
                    /\ rows[p - Skip(walk.page)] = s[p]
<1>1. walk.size \in Nat \ {0} /\ Skip(walk.page) \in Nat /\ Total \in Nat
  BY SkipType, ListedFinite
<1>2. /\ s \in [1 .. Total -> AllListed] /\ Len(s) = Total
      /\ AllListed \subseteq RepIds
  BY OrderingIs, ListedFinite
<1>3. PICK k \in Nat, size \in Nat \ {0}, total \in Nat :
        k = Skip(walk.page) /\ size = walk.size /\ total = Total
  BY <1>1
<1>4. PICK last \in Int : last = Min({k + size, total})
  BY <1>3, MinOfTwo
<1>5. last = IF k + size <= total THEN k + size ELSE total
  BY <1>4, MinOfTwo
<1>6. rows = SubSeq(s, k + 1, last)
  BY <1>2, <1>3, <1>4 DEF PageOf
<1>7. \A i \in k + 1 .. last : s[i] \in RepIds
  BY <1>2, <1>3, <1>5
<1>8. /\ rows \in Seq(RepIds)
      /\ Len(rows) = IF k + 1 <= last THEN last - (k + 1) + 1 ELSE 0
      /\ \A i \in 1 .. last - (k + 1) + 1 : rows[i] = s[k + 1 + i - 1]
  BY <1>6, <1>7, SubSeqProperties
<1>9. Len(rows) = Due(k, size, total)
  BY <1>5, <1>8 DEF Due
<1>10. Len(rows) = RowsDue(walk.page, Total)
  BY <1>1, <1>3, <1>9, RowsDueIs
<1>11. ASSUME NEW i \in 1 .. Len(rows)
       PROVE  rows[i] = s[k + i] /\ k + i \in 1 .. total /\ i <= size
  <2>1. i \in 1 .. last - (k + 1) + 1 /\ k + 1 + i - 1 = k + i
    BY <1>5, <1>8
  <2>2. rows[i] = s[k + i]
    BY <2>1, <1>8
  <2>3. k + i \in 1 .. total /\ i <= size
    BY <1>9 DEF Due
  <2> QED
    BY <2>2, <2>3
<1>12. ASSUME NEW p \in 1 .. total, k < p, p <= k + size
       PROVE  p - k \in 1 .. Len(rows) /\ rows[p - k] = s[p]
  <2>1. p - k \in 1 .. last - (k + 1) + 1 /\ k + 1 + (p - k) - 1 = p
    BY <1>5, <1>12
  <2>2. rows[p - k] = s[p]
    BY <2>1, <1>8
  <2>3. p - k \in 1 .. Len(rows)
    BY <1>9, <1>12 DEF Due
  <2> QED
    BY <2>2, <2>3
<1> QED
  BY <1>3, <1>8, <1>10, <1>11, <1>12

LEMMA TypeInit == Init => TypeOK
<1> SUFFICES ASSUME Init
             PROVE  TypeOK
  OBVIOUS
<1>1. PICK asked \in AskedSizes \cup {Null} :
        walk = [at |-> "rows", size |-> PageSize(asked), page |-> 1,
                rows |-> <<>>, read |-> 0, got |-> <<>>, tied |-> FALSE]
  BY DEF Init
<1>2. PageSize(asked) \in 1 .. MaxPageSize
  <2> DEFINE size == IF asked = Null THEN DefaultPageSize ELSE asked
  <2>1. size \in Nat \ {0} /\ MaxPageSize \in Nat \ {0}
    BY ReadAssumption
  <2> HIDE DEF size
  <2>2. Min({size, MaxPageSize}) \in 1 .. MaxPageSize
    BY <2>1, MinOfTwo
  <2> QED
    BY <2>2 DEF PageSize, size
<1>3. walk \in Walk
  BY <1>1, <1>2, ReadAssumption DEF Walk
<1> QED
  BY <1>3, ReadAssumption DEF Init, TypeOK, AllListed

LEMMA TypeStep ==
    ASSUME TypeOK, [Next]_vars
    PROVE  TypeOK'
<1>1. CASE FindRows
  <2>1. PICK s \in Orderings :
            walk' = [walk EXCEPT
                !.at   = "total",
                !.rows = SubSeq(s, Skip(walk.page) + 1,
                            Min({Skip(walk.page) + walk.size, Len(s)})),
                !.read = commits,
                !.tied = @ \/ \E r, t \in AllListed : Tied(r, t)]
    BY <1>1 DEF FindRows
  <2>2. PICK rows \in Seq(RepIds) : rows = PageOf(s)
    BY PageIs
  <2>3. walk' \in Walk
    BY <2>1, <2>2 DEF PageOf, TypeOK, Walk
  <2> QED
    BY <1>1, <2>3 DEF FindRows, TypeOK
<1>2. CASE FindTotal
  <2>1. walk.got \o walk.rows \in Seq(RepIds)
    BY ConcatProperties DEF TypeOK, Walk
  <2>2. walk.page + 1 \in Nat \ {0}
    BY SkipType
  <2>3. walk' \in Walk
    BY <1>2, <2>1, <2>2 DEF FindTotal, TypeOK, Walk
  <2> QED
    BY <1>2, <2>3 DEF FindTotal, TypeOK
<1>3. ASSUME NEW r \in RepIds, NEW row \in Row, Commit(r, row)
      PROVE  TypeOK'
  BY <1>3, ReadAssumption DEF Commit, TypeOK
<1>4. CASE UNCHANGED vars
  BY <1>4 DEF vars, TypeOK
<1> QED
  BY <1>1, <1>2, <1>3, <1>4 DEF Next

(* The walk is always one the client can be on: pages are never larger     *)
(* than the service allows, and nothing but Rep ids is in them.            *)
THEOREM ReadTypeCorrect == Spec => []TypeOK
<1>1. TypeOK /\ [Next]_vars => TypeOK'
  BY TypeStep
<1> QED
  BY TypeInit, <1>1, PTL DEF Spec

-----------------------------------------------------------------------------
(***************************************************************************)
(* One answer.                                                             *)
(***************************************************************************)
LEMMA OneMore ==
    ASSUME NEW A, NEW B, NEW x, IsFiniteSet(B), A \subseteq B \cup {x}
    PROVE  /\ IsFiniteSet(A)
           /\ Cardinality(A) \in Nat /\ Cardinality(B) \in Nat
           /\ Cardinality(A) <= Cardinality(B) + 1
<1>1. /\ IsFiniteSet(B \cup {x})
      /\ Cardinality(B \cup {x}) \in {Cardinality(B), Cardinality(B) + 1}
      /\ Cardinality(B) \in Nat
  BY FS_AddElement, FS_CardinalityType
<1>2. /\ IsFiniteSet(A) /\ Cardinality(A) \in Nat
      /\ Cardinality(A) <= Cardinality(B \cup {x})
  BY <1>1, FS_Subset, FS_CardinalityType
<1> QED
  BY <1>1, <1>2

(* A save lists or unlists no Rep but the one it is of. *)
LEMMA CommitLists ==
    ASSUME TypeOK, NEW r \in RepIds, NEW row \in Row, Commit(r, row)
    PROVE  /\ AllListed' \subseteq AllListed \cup {r}
           /\ AllListed \subseteq AllListed' \cup {r}
           /\ \A t \in RepIds \ {r} : table'[t] = table[t]
<1>1. \A t \in RepIds \ {r} : table'[t] = table[t]
  BY DEF Commit, TypeOK
<1> QED
  BY <1>1 DEF AllListed, Listed

LEMMA CommitCounts ==
    ASSUME TypeOK, NEW r \in RepIds, NEW row \in Row, Commit(r, row)
    PROVE  /\ Total' \in Nat
           /\ Total' <= Total + 1
           /\ Total <= Total' + 1
<1>1. IsFiniteSet(AllListed) /\ IsFiniteSet(AllListed')
  <2>1. AllListed' \subseteq RepIds
    BY DEF AllListed
  <2> QED
    BY <2>1, ListedFinite, ReadAssumption, FS_Subset
<1>2. AllListed' \subseteq AllListed \cup {r} /\ AllListed \subseteq AllListed' \cup {r}
  BY CommitLists
<1>3. PICK A, B : A = AllListed /\ B = AllListed'
  OBVIOUS
<1>4. /\ Cardinality(A) \in Nat /\ Cardinality(B) \in Nat
      /\ Cardinality(B) <= Cardinality(A) + 1
      /\ Cardinality(A) <= Cardinality(B) + 1
  BY <1>1, <1>2, <1>3, OneMore
<1> QED
  BY <1>3, <1>4 DEF Total

LEMMA DueMovesByOne ==
    ASSUME NEW k \in Nat, NEW size \in Nat \ {0}, NEW m \in Nat, NEW n \in Nat,
           m <= n + 1, n <= m + 1
    PROVE  /\ Due(k, size, m) \in Nat
           /\ Due(k, size, n) \in Nat
           /\ Due(k, size, m) <= Due(k, size, n) + 1
           /\ Due(k, size, n) <= Due(k, size, m) + 1
BY DEF Due

LEMMA RangeWidens ==
    ASSUME NEW m \in Nat, NEW n \in Nat, m <= n + 1, n <= m + 1,
           NEW off \in Nat, NEW x \in (m - off) .. (m + off)
    PROVE  x \in (n - (off + 1)) .. (n + (off + 1))
OBVIOUS

LEMMA AnswerInit == Init => AnswerInv
<1> SUFFICES ASSUME Init
             PROVE  AnswerInv
  OBVIOUS
<1>1. walk.at = "rows" /\ walk.read = 0 /\ commits = 0
  BY DEF Init
<1> QED
  BY <1>1, TypeInit DEF AnswerInv, AnswerFitsTotal

LEMMA AnswerStep ==
    ASSUME AnswerInv, [Next]_vars
    PROVE  AnswerInv'
<1>1. TypeOK /\ TypeOK' /\ walk.read <= commits
  BY TypeStep DEF AnswerInv
<1>2. walk.read \in Nat /\ commits \in Nat
  BY <1>1, ReadAssumption DEF TypeOK, Walk
<1>3. CASE FindRows
  <2>1. PICK s \in Orderings : walk' = [walk EXCEPT
                !.at   = "total",
                !.rows = PageOf(s),
                !.read = commits,
                !.tied = @ \/ \E r, t \in AllListed : Tied(r, t)]
    BY <1>3 DEF FindRows, PageOf
  <2>2. /\ walk'.page = walk.page /\ walk'.size = walk.size
        /\ walk'.rows = PageOf(s) /\ walk'.read = commits
        /\ commits' = commits /\ table' = table
    BY <1>1, <1>3, <2>1 DEF FindRows, TypeOK, Walk
  <2>3. RowsDue(walk.page, Total)' = RowsDue(walk.page, Total)
    BY <2>2 DEF RowsDue, Skip, Total, AllListed, Listed
  <2>4. PICK due \in Nat : due = RowsDue(walk.page, Total)
    BY <1>1, ListedFinite, SkipType, RowsDueIs DEF Due
  <2>5. Len(walk.rows)' = due
    BY <1>1, <2>2, <2>4, PageIs
  <2> QED
    BY <1>1, <1>2, <2>2, <2>3, <2>4, <2>5 DEF AnswerInv, AnswerFitsTotal
<1>4. CASE FindTotal
  <2>1. /\ walk'.at # "total" /\ walk'.read = walk.read /\ commits' = commits
    BY <1>1, <1>4 DEF FindTotal, TypeOK, Walk
  <2> QED
    BY <1>1, <2>1 DEF AnswerInv, AnswerFitsTotal
<1>5. ASSUME NEW r \in RepIds, NEW row \in Row, Commit(r, row)
      PROVE  AnswerInv'
  <2>1. walk' = walk /\ commits' = commits + 1
    BY <1>5 DEF Commit
  <2>2. PICK before \in Nat, after \in Nat :
            /\ before = Total /\ after = Total'
            /\ before <= after + 1 /\ after <= before + 1
    BY <1>1, <1>5, CommitCounts, ListedFinite
  <2>3. PICK due \in Nat, dueNow \in Nat :
            /\ due = RowsDue(walk.page, before)
            /\ dueNow = RowsDue(walk.page, after)
            /\ due <= dueNow + 1 /\ dueNow <= due + 1
    <3>1. PICK k \in Nat, size \in Nat \ {0} :
            k = Skip(walk.page) /\ size = walk.size
      BY <1>1, SkipType
    <3>2. /\ RowsDue(walk.page, before) = Due(k, size, before)
          /\ RowsDue(walk.page, after) = Due(k, size, after)
      BY <1>1, <2>2, <3>1, RowsDueIs
    <3> QED
      BY <2>2, <3>2, DueMovesByOne
  <2>4. RowsDue(walk.page, Total)' = dueNow
    BY <2>1, <2>2, <2>3 DEF RowsDue, Skip
  <2>5. CASE walk.at # "total"
    BY <1>1, <1>2, <2>1, <2>5 DEF AnswerInv, AnswerFitsTotal
  <2>6. CASE walk.at = "total"
    <3>1. Len(walk.rows) \in (due - (commits - walk.read)) .. (due + (commits - walk.read))
      BY <2>2, <2>3, <2>6 DEF AnswerInv, AnswerFitsTotal
    <3>2. PICK n, off : n = Len(walk.rows) /\ off = commits - walk.read
      OBVIOUS
    <3>3. off \in Nat /\ commits + 1 - walk.read = off + 1
      BY <1>1, <1>2, <3>2
    <3>4. n \in (dueNow - (off + 1)) .. (dueNow + (off + 1))
      BY <2>3, <3>1, <3>2, <3>3, RangeWidens
    <3>5. /\ Len(walk.rows)' = n /\ (commits - walk.read)' = off + 1
          /\ walk'.read <= commits'
      BY <1>1, <1>2, <2>1, <3>2, <3>3
    <3>6. AnswerFitsTotal'
      BY <2>4, <3>4, <3>5 DEF AnswerFitsTotal
    <3> QED
      BY <1>1, <3>5, <3>6 DEF AnswerInv
  <2> QED
    BY <2>5, <2>6
<1>6. CASE UNCHANGED vars
  <2>1. walk' = walk /\ commits' = commits /\ table' = table
    BY <1>6 DEF vars
  <2>2. RowsDue(walk.page, Total)' = RowsDue(walk.page, Total)
    BY <2>1 DEF RowsDue, Skip, Total, AllListed, Listed
  <2> QED
    BY <1>1, <2>1, <2>2 DEF AnswerInv, AnswerFitsTotal
<1> QED
  BY <1>3, <1>4, <1>5, <1>6 DEF Next

(* The rows and the total of an answer are read by two statements that may *)
(* see different tables, but they disagree by no more Reps than were saved *)
(* in between, whatever the page and however many saves there were.        *)
THEOREM AnswerTheorem == Spec => []AnswerFitsTotal
<1>1. AnswerInv /\ [Next]_vars => AnswerInv'
  BY AnswerStep
<1>2. AnswerInv => AnswerFitsTotal
  BY DEF AnswerInv
<1> QED
  BY AnswerInit, <1>1, <1>2, PTL DEF Spec

-----------------------------------------------------------------------------
(***************************************************************************)
(* Places in the order.                                                    *)
(***************************************************************************)
LEMMA PlaceType ==
    ASSUME NEW r
    PROVE  IsFiniteSet(Before(r)) /\ Place(r) \in Nat
<1>1. Before(r) \subseteq AllListed
  BY DEF Before
<1> QED
  BY <1>1, ListedFinite, FS_Subset, FS_CardinalityType DEF Place

LEMMA NamesAreNumbers ==
    ASSUME TypeOK, NEW r \in AllListed
    PROVE  table[r].name \in Nat
BY ReadAssumption DEF TypeOK, AllListed, Listed, Row

(* While no two listed Reps have the same name, each is where every order  *)
(* of the database puts it.                                                *)
LEMMA PlaceInOrder ==
    ASSUME TypeOK, NEW s \in Orderings, NEW i \in 1 .. Total,
           \A r, t \in AllListed : ~Tied(r, t)
    PROVE  Place(s[i]) = i - 1
<1>1. /\ s \in [1 .. Total -> AllListed]
      /\ \A j, l \in 1 .. Total : s[j] = s[l] => j = l
      /\ \A j, l \in 1 .. Total : j < l => table[s[j]].name <= table[s[l]].name
      /\ \A r \in AllListed : \E j \in 1 .. Total : s[j] = r
  BY OrderingIs
<1>2. Total \in Nat /\ i - 1 \in Nat /\ 1 .. i - 1 \subseteq 1 .. Total
  BY ListedFinite
<1>3. ASSUME NEW j \in 1 .. Total
      PROVE  s[j] \in Before(s[i]) <=> j \in 1 .. i - 1
  <2>1. /\ s[j] \in AllListed /\ s[i] \in AllListed
        /\ table[s[j]].name \in Nat /\ table[s[i]].name \in Nat
    BY <1>1, NamesAreNumbers
  <2>2. CASE j < i
    <3>1. s[j] # s[i] /\ table[s[j]].name <= table[s[i]].name
      BY <1>1, <2>2
    <3>2. table[s[j]].name # table[s[i]].name
      BY <2>1, <3>1 DEF Tied
    <3> QED
      BY <2>1, <2>2, <3>1, <3>2 DEF Before
  <2>3. CASE ~(j < i)
    <3>1. table[s[i]].name <= table[s[j]].name
      BY <1>1, <2>1, <2>3
    <3> QED
      BY <2>1, <2>3, <3>1 DEF Before
  <2> QED
    BY <2>2, <2>3
<1> DEFINE f == [j \in 1 .. i - 1 |-> s[j]]
<1>4. f \in [1 .. i - 1 -> Before(s[i])]
  BY <1>2, <1>3
<1>5. f \in Injection(1 .. i - 1, Before(s[i]))
  BY <1>1, <1>2, <1>4 DEF Injection, IsInjective
<1>6. f \in Surjection(1 .. i - 1, Before(s[i]))
  <2>1. \A r \in Before(s[i]) : \E j \in 1 .. i - 1 : f[j] = r
    BY <1>1, <1>3 DEF Before
  <2> QED
    BY <1>4, <2>1 DEF Surjection
<1>7. ExistsBijection(1 .. i - 1, Before(s[i]))
  BY <1>5, <1>6 DEF ExistsBijection, Bijection
<1> QED
  BY <1>2, <1>7, FS_CountingElements DEF Place

LEMMA WrongFinite ==
    ASSUME TypeOK
    PROVE  /\ IsFiniteSet(steady) /\ IsFiniteSet(Wrong) /\ IsFiniteSet(Again)
           /\ Answered \in Seq(RepIds)
<1>1. IsFiniteSet(steady)
  BY ReadAssumption, FS_Subset DEF TypeOK
<1>2. Wrong \subseteq steady
  BY DEF Wrong, Passed, Seen
<1>3. Answered \in Seq(RepIds)
  BY ConcatProperties DEF Answered, TypeOK, Walk
<1>4. Again \subseteq 1 .. Len(Answered) /\ IsFiniteSet(1 .. Len(Answered))
  <2>1. Len(Answered) \in Nat /\ DOMAIN Answered = 1 .. Len(Answered)
    BY <1>3
  <2> QED
    BY <2>1, FS_Interval DEF Again
<1> QED
  BY <1>1, <1>2, <1>3, <1>4, FS_Subset

(* As long as no page was read nothing went wrong. *)
LEMMA NothingYet ==
    ASSUME TypeOK, ~Begun, walk.got = <<>>
    PROVE  /\ Passed = {} /\ Seen = {} /\ Wrong = {} /\ Again = {}
           /\ Cardinality(Wrong) = 0 /\ Cardinality(Again) = 0
<1>1. Reached = 0 /\ Answered = <<>>
  BY SkipType DEF Begun, Reached, Answered
<1>2. Passed = {}
  BY <1>1, PlaceType DEF Passed
<1>3. Seen = {} /\ Again = {}
  BY <1>1 DEF Seen, Within, Again
<1>4. Wrong = {}
  BY <1>2, <1>3 DEF Wrong
<1> QED
  BY <1>2, <1>3, <1>4, FS_EmptySet

LEMMA WalkInit == Init => WalkInv
<1> SUFFICES ASSUME Init
             PROVE  WalkInv
  OBVIOUS
<1>1. /\ walk.at = "rows" /\ walk.page = 1 /\ walk.got = <<>>
      /\ commits = 0 /\ steady = AllListed
  BY DEF Init
<1>2. TypeOK /\ ~Begun
  BY <1>1, TypeInit DEF Begun
<1> QED
  BY <1>1, <1>2, NothingYet DEF WalkInv

-----------------------------------------------------------------------------
(***************************************************************************)
(* The total: the rows join those of the pages before.                     *)
(***************************************************************************)
LEMMA TotalTurnsPage ==
    ASSUME TypeOK, FindTotal
    PROVE  /\ Answered' = Answered /\ Reached' = Reached
           /\ Passed' = Passed /\ Seen' = Seen
           /\ Wrong' = Wrong /\ Again' = Again
<1>1. /\ walk.at = "total" /\ walk'.at # "total"
      /\ walk'.page = walk.page + 1 /\ walk'.size = walk.size
      /\ walk'.got = walk.got \o walk.rows
      /\ steady' = steady /\ table' = table
  BY DEF FindTotal, TypeOK, Walk
<1>2. Answered' = Answered
  BY <1>1 DEF Answered
<1>3. Reached' = Reached
  <2>1. Reached' = (walk'.page - 1) * walk'.size
    BY <1>1 DEF Reached, Skip
  <2>2. walk'.page - 1 = walk.page
    BY <1>1, SkipType
  <2>3. Reached' = walk.page * walk.size
    BY <1>1, <2>1, <2>2, Zenon
  <2> QED
    BY <1>1, <2>3 DEF Reached
<1>4. Passed' = Passed
  BY <1>1, <1>3 DEF Passed, Place, Before, AllListed, Listed
<1>5. Seen' = Seen /\ Again' = Again
  BY <1>1, <1>2 DEF Seen, Again
<1> QED
  BY <1>2, <1>3, <1>4, <1>5 DEF Wrong

(* A walk ends when it has passed everybody who is listed. *)
LEMMA EndIsBehindAll ==
    ASSUME TypeOK, steady \subseteq AllListed, FindTotal, walk'.at = "done"
    PROVE  steady \subseteq Passed
<1>1. walk.at = "total" /\ ~(walk.page * walk.size < Total)
  BY DEF FindTotal, TypeOK, Walk
<1>2. Reached \in Nat /\ Total <= Reached
  BY <1>1, SkipType, ListedFinite DEF Reached
<1>3. ASSUME NEW r \in steady
      PROVE  Place(r) < Total
  <2>1. r \in AllListed /\ table[r].name \in Nat
    BY NamesAreNumbers
  <2>2. Before(r) \subseteq AllListed \ {r}
    BY <2>1 DEF Before
  <2>3. Place(r) <= Cardinality(AllListed \ {r}) /\ IsFiniteSet(AllListed \ {r})
    BY <2>2, ListedFinite, FS_Subset, FS_RemoveElement DEF Place
  <2>4. Cardinality(AllListed \ {r}) = Total - 1
    BY <2>1, ListedFinite, FS_RemoveElement DEF Total
  <2> QED
    BY <2>3, <2>4, PlaceType, ListedFinite
<1> QED
  BY <1>2, <1>3, PlaceType, ListedFinite DEF Passed

LEMMA TotalKeepsWalk ==
    ASSUME WalkInv, FindTotal
    PROVE  WalkInv'
<1>1. /\ TypeOK /\ TypeOK' /\ steady \subseteq AllListed
  BY TypeStep DEF WalkInv, Next
<1>2. /\ walk.at = "total" /\ walk'.page = walk.page + 1 /\ walk'.tied = walk.tied
      /\ steady' = steady /\ table' = table /\ commits' = commits
  BY <1>1 DEF FindTotal, TypeOK, Walk
<1>3. Begun /\ Begun'
  BY <1>1, <1>2, SkipType DEF Begun
<1>4. steady' \subseteq AllListed'
  BY <1>1, <1>2 DEF AllListed, Listed
<1>5. ~walk'.tied => \A r, s \in steady' : ~Tied(r, s)'
  BY <1>2, <1>3 DEF WalkInv, Tied
<1>6. ~walk'.tied => Cardinality(Wrong') + Cardinality(Again') <= commits'
  BY <1>1, <1>2, TotalTurnsPage DEF WalkInv
<1>7. walk'.at = "done" => steady' \subseteq Passed'
  BY <1>1, <1>2, TotalTurnsPage, EndIsBehindAll
<1> QED
  BY <1>1, <1>3, <1>4, <1>5, <1>6, <1>7 DEF WalkInv

-----------------------------------------------------------------------------
(***************************************************************************)
(* A save: at most one Rep it does not touch moves across the boundary of  *)
(* the pages read.                                                         *)
(***************************************************************************)
LEMMA CommitKeepsOrder ==
    ASSUME TypeOK, TypeOK', NEW x \in RepIds, NEW row \in Row, Commit(x, row),
           NEW r \in AllListed \ {x}
    PROVE  /\ r \in AllListed'
           /\ Place(r) \in Nat /\ Place(r)' \in Nat
           /\ Place(r)' <= Place(r) + 1
           /\ Place(r) <= Place(r)' + 1
<1>1. /\ \A t \in RepIds \ {x} : table'[t] = table[t]
      /\ AllListed \subseteq RepIds /\ AllListed' \subseteq RepIds
      /\ AllListed' \subseteq AllListed \cup {x} /\ AllListed \subseteq AllListed' \cup {x}
  BY CommitLists, ListedFinite DEF AllListed
<1>2. Before(r)' \subseteq Before(r) \cup {x} /\ Before(r) \subseteq Before(r)' \cup {x}
  BY <1>1 DEF Before
<1>3. PICK A, B : A = Before(r) /\ B = Before(r)'
  OBVIOUS
<1>4. IsFiniteSet(A)
  BY <1>3, PlaceType
<1>5. IsFiniteSet(B)
  BY <1>2, <1>3, <1>4, OneMore
<1>6. /\ Cardinality(A) \in Nat /\ Cardinality(B) \in Nat
      /\ Cardinality(B) <= Cardinality(A) + 1
      /\ Cardinality(A) <= Cardinality(B) + 1
  BY <1>2, <1>3, <1>4, <1>5, OneMore
<1> QED
  BY <1>1, <1>3, <1>6 DEF Place

(* Whoever comes later by name is further behind. *)
PlacesFollowNames ==
    \A r, t \in AllListed :
        table[r].name < table[t].name => Place(r) + 1 <= Place(t)

LEMMA LaterIsBehind ==
    ASSUME TypeOK
    PROVE  PlacesFollowNames
<1> SUFFICES ASSUME NEW r \in AllListed, NEW t \in AllListed,
                    table[r].name < table[t].name
             PROVE  Place(r) + 1 <= Place(t)
  BY DEF PlacesFollowNames
<1>1. \A s \in AllListed : table[s].name \in Nat
  BY NamesAreNumbers
<1>2. Before(r) \cup {r} \subseteq Before(t) /\ r \notin Before(r)
  BY <1>1 DEF Before
<1>3. Cardinality(Before(r) \cup {r}) = Place(r) + 1
  BY <1>2, PlaceType, FS_AddElement DEF Place
<1> QED
  BY <1>2, <1>3, PlaceType, FS_Subset DEF Place

LEMMA OneCrosses ==
    ASSUME TypeOK, TypeOK', steady \subseteq AllListed,
           \A r, t \in steady : ~Tied(r, t),
           NEW x \in RepIds, NEW row \in Row, Commit(x, row),
           NEW r \in steady \ {x}, NEW t \in steady \ {x},
           table[r].name < table[t].name,
           ~(r \in Passed <=> r \in Passed'), ~(t \in Passed <=> t \in Passed')
    PROVE  FALSE
<1>1. /\ walk' = walk /\ steady' = steady \ {x}
      /\ table'[r] = table[r] /\ table'[t] = table[t]
  BY CommitLists, ListedFinite DEF Commit
<1>2. r \in AllListed \ {x} /\ t \in AllListed \ {x}
  OBVIOUS
<1>3. Reached' = Reached /\ Reached \in Nat
  <2>1. Reached' = Reached
    BY <1>1 DEF Reached, Skip
  <2> QED
    BY <2>1, SkipType DEF Reached
<1>4. /\ r \in AllListed' /\ t \in AllListed'
      /\ Place(r) \in Nat /\ Place(r)' \in Nat
      /\ Place(t) \in Nat /\ Place(t)' \in Nat
      /\ Place(r)' <= Place(r) + 1 /\ Place(r) <= Place(r)' + 1
      /\ Place(t)' <= Place(t) + 1 /\ Place(t) <= Place(t)' + 1
  BY <1>2, CommitKeepsOrder
<1>5. Place(r) + 1 <= Place(t)
  BY <1>2, LaterIsBehind DEF PlacesFollowNames
<1>6. (Place(r) + 1 <= Place(t))'
  <2>1. TypeOK'
    OBVIOUS
  <2>2. PlacesFollowNames'
    BY <2>1, LaterIsBehind, PTL
  <2> QED
    BY <1>1, <1>4, <2>2 DEF PlacesFollowNames
<1>7. /\ ~(Place(r) < Reached <=> Place(r)' < Reached)
      /\ ~(Place(t) < Reached <=> Place(t)' < Reached)
  BY <1>1, <1>3 DEF Passed
<1> QED
  BY <1>3, <1>4, <1>5, <1>6, <1>7

LEMMA CommitKeepsWalk ==
    ASSUME WalkInv, NEW x \in RepIds, NEW row \in Row, Commit(x, row)
    PROVE  WalkInv'
<1>1. /\ TypeOK /\ TypeOK' /\ steady \subseteq AllListed /\ commits \in Nat
  BY TypeStep, ReadAssumption DEF WalkInv, Next, TypeOK
<1>2. /\ walk' = walk /\ steady' = steady \ {x} /\ commits' = commits + 1
      /\ walk.at # "done"
      /\ Begun' = Begun /\ Answered' = Answered
  BY DEF Commit, Begun, Answered
<1>3. \A t \in steady' : t \in AllListed' /\ table'[t] = table[t]
  BY <1>1, <1>2, CommitLists, ListedFinite
<1>4. Begun' /\ ~walk'.tied => \A r, s \in steady' : ~Tied(r, s)'
  BY <1>2, <1>3 DEF WalkInv, Tied
<1>5. CASE ~Begun
  <2>1. Cardinality(Wrong') = 0 /\ Cardinality(Again') = 0
    <3>1. (TypeOK /\ ~Begun /\ walk.got = <<>>)'
      BY <1>1, <1>2, <1>5 DEF WalkInv
    <3>2. (Cardinality(Wrong) = 0 /\ Cardinality(Again) = 0)'
      BY <3>1, NothingYet, PTL
    <3> QED
      BY <3>2
  <2> QED
    BY <1>1, <1>2, <1>3, <1>4, <2>1 DEF WalkInv
<1>6. CASE Begun /\ walk.tied
  BY <1>1, <1>2, <1>3, <1>4, <1>6 DEF WalkInv
<1>7. CASE Begun /\ ~walk.tied
  <2> DEFINE D == {r \in steady' : ~(r \in Passed <=> r \in Passed')}
  <2>1. \A r, t \in D : r = t
    <3>1. SUFFICES ASSUME NEW r \in D, NEW t \in D, r # t
                   PROVE  FALSE
      OBVIOUS
    <3>2. /\ \A u, v \in steady : ~Tied(u, v)
          /\ r \in steady \ {x} /\ t \in steady \ {x}
      BY <1>2, <1>7 DEF WalkInv
    <3>3. /\ table[r].name \in Nat /\ table[t].name \in Nat
          /\ table[r].name # table[t].name
      BY <1>1, <3>1, <3>2, NamesAreNumbers DEF Tied
    <3>4. CASE table[r].name < table[t].name
      BY <1>1, <3>1, <3>2, <3>4, OneCrosses
    <3>5. CASE table[t].name < table[r].name
      BY <1>1, <3>1, <3>2, <3>5, OneCrosses
    <3> QED
      BY <3>3, <3>4, <3>5
  <2>2. Seen' = Seen \ {x} /\ Again' \subseteq Again
    BY <1>2 DEF Seen, Again
  <2>3. \E y : Wrong' \subseteq Wrong \cup {y}
    <3>1. Wrong' \subseteq Wrong \cup D
      <4>1. Passed \subseteq steady /\ Passed' \subseteq steady'
        BY DEF Passed
      <4> QED
        BY <1>2, <2>2, <4>1 DEF Wrong
    <3> QED
      BY <2>1, <3>1
  <2>4. IsFiniteSet(Wrong) /\ IsFiniteSet(Again)
    BY <1>1, WrongFinite
  <2>5. /\ Cardinality(Wrong) \in Nat /\ Cardinality(Wrong') \in Nat
        /\ Cardinality(Wrong') <= Cardinality(Wrong) + 1
    BY <2>3, <2>4, OneMore
  <2>6. /\ Cardinality(Again) \in Nat /\ Cardinality(Again') \in Nat
        /\ Cardinality(Again') <= Cardinality(Again)
    BY <2>2, <2>4, FS_Subset, FS_CardinalityType
  <2>7. Cardinality(Wrong) + Cardinality(Again) <= commits
    BY <1>7 DEF WalkInv
  <2>8. Cardinality(Wrong') + Cardinality(Again') <= commits'
    BY <1>1, <1>2, <2>5, <2>6, <2>7
  <2> QED
    BY <1>1, <1>2, <1>3, <1>4, <1>7, <2>8 DEF WalkInv
<1> QED
  BY <1>5, <1>6, <1>7

-----------------------------------------------------------------------------
(***************************************************************************)
(* A page: whom it passes it also sees.  If some of them were seen ahead,  *)
(* they are met again, and are no longer wrong otherwise.                  *)
(***************************************************************************)

LEMMA InBoth ==
    ASSUME NEW S, NEW s \in Seq(S), NEW t \in Seq(S), NEW x
    PROVE  Within(x, s \o t) <=> Within(x, s) \/ Within(x, t)
<1>1. /\ Len(s \o t) = Len(s) + Len(t)
      /\ Len(s) \in Nat /\ Len(t) \in Nat
  BY ConcatProperties
<1>2. \A i \in 1 .. Len(s) + Len(t) :
        (s \o t)[i] = IF i <= Len(s) THEN s[i] ELSE t[i - Len(s)]
  BY ConcatProperties
<1>3. ASSUME NEW i \in 1 .. Len(s)
      PROVE  i \in 1 .. Len(s) + Len(t) /\ (s \o t)[i] = s[i]
  BY <1>1, <1>2
<1>4. ASSUME NEW i \in 1 .. Len(t)
      PROVE  Len(s) + i \in 1 .. Len(s) + Len(t) /\ (s \o t)[Len(s) + i] = t[i]
  BY <1>1, <1>2
<1>5. ASSUME NEW i \in 1 .. Len(s) + Len(t), ~(i <= Len(s))
      PROVE  i - Len(s) \in 1 .. Len(t) /\ (s \o t)[i] = t[i - Len(s)]
  BY <1>1, <1>2, <1>5
<1>6. ASSUME NEW i \in 1 .. Len(s) + Len(t), i <= Len(s)
      PROVE  i \in 1 .. Len(s)
  BY <1>1, <1>6
<1> QED
  BY <1>1, <1>3, <1>4, <1>5, <1>6 DEF Within

(* The untouched Reps whose places the next page covers. *)
Ahead == {r \in steady : Skip(walk.page) <= Place(r)
                          /\ Place(r) < Skip(walk.page) + walk.size}

LEMMA RowsAre ==
    ASSUME TypeOK, steady \subseteq AllListed, FindRows, ~walk'.tied
    PROVE  /\ ~walk.tied /\ \A r, t \in AllListed : ~Tied(r, t)
           /\ walk.at = "rows" /\ walk'.at = "total"
           /\ walk'.page = walk.page /\ walk'.size = walk.size
           /\ walk'.got = walk.got
           /\ table' = table /\ steady' = steady /\ commits' = commits
           /\ walk'.rows \in Seq(RepIds)
           /\ \A i, j \in 1 .. Len(walk'.rows) :
                walk'.rows[i] = walk'.rows[j] => i = j
           /\ \A i \in 1 .. Len(walk'.rows) :
                walk'.rows[i] \in steady => walk'.rows[i] \in Ahead
           /\ \A r \in Ahead : \E i \in 1 .. Len(walk'.rows) : walk'.rows[i] = r
<1>1. PICK s \in Orderings : walk' = [walk EXCEPT
            !.at   = "total",
            !.rows = PageOf(s),
            !.read = commits,
            !.tied = @ \/ \E r, t \in AllListed : Tied(r, t)]
  BY DEF FindRows, PageOf
<1>2. /\ walk.at = "rows" /\ walk'.at = "total"
      /\ walk'.page = walk.page /\ walk'.size = walk.size
      /\ walk'.got = walk.got /\ walk'.rows = PageOf(s)
      /\ walk'.tied = (walk.tied \/ \E r, t \in AllListed : Tied(r, t))
      /\ table' = table /\ steady' = steady /\ commits' = commits
  BY <1>1 DEF FindRows, TypeOK, Walk
<1>3. ~walk.tied /\ \A r, t \in AllListed : ~Tied(r, t)
  BY <1>2
<1>4. PICK rows : rows = PageOf(s)
  OBVIOUS
<1>5. PICK k \in Nat, size \in Nat \ {0}, total \in Nat :
        k = Skip(walk.page) /\ size = walk.size /\ total = Total
  BY SkipType, ListedFinite
<1>6. /\ rows \in Seq(RepIds)
      /\ \A i \in 1 .. Len(rows) :
            rows[i] = s[k + i] /\ k + i \in 1 .. total /\ i <= size
      /\ \A p \in 1 .. total : k < p /\ p <= k + size =>
            p - k \in 1 .. Len(rows) /\ rows[p - k] = s[p]
  BY <1>4, <1>5, PageIs
<1>7. /\ \A i, j \in 1 .. total : s[i] = s[j] => i = j
      /\ \A r \in AllListed : \E i \in 1 .. total : s[i] = r
      /\ \A i \in 1 .. total : Place(s[i]) = i - 1
  BY <1>3, <1>5, OrderingIs, PlaceInOrder
<1>8. ASSUME NEW i \in 1 .. Len(rows), NEW j \in 1 .. Len(rows), rows[i] = rows[j]
      PROVE  i = j
  <2>1. k + i = k + j
    BY <1>6, <1>7, <1>8
  <2>2. i \in Nat /\ j \in Nat
    OBVIOUS
  <2> QED
    BY <2>1, <2>2
<1>9. ASSUME NEW i \in 1 .. Len(rows), rows[i] \in steady
      PROVE  rows[i] \in Ahead
  <2>1. Place(rows[i]) = k + i - 1 /\ i <= size
    BY <1>6, <1>7
  <2> QED
    BY <1>5, <1>9, <2>1 DEF Ahead
<1>10. ASSUME NEW r \in Ahead
       PROVE  \E i \in 1 .. Len(rows) : rows[i] = r
  <2>1. r \in AllListed /\ k <= Place(r) /\ Place(r) < k + size
    BY <1>5 DEF Ahead
  <2>2. PICK p \in 1 .. total : s[p] = r
    BY <1>7, <2>1
  <2>3. Place(r) = p - 1
    BY <1>7, <2>2
  <2>4. k < p /\ p <= k + size
    BY <2>1, <2>3
  <2> QED
    BY <1>6, <2>2, <2>4
<1> QED
  BY <1>2, <1>3, <1>4, <1>6, <1>8, <1>9, <1>10

LEMMA RowsCover ==
    ASSUME TypeOK, steady \subseteq AllListed, FindRows, ~walk'.tied
    PROVE  /\ Passed' = Passed \cup Ahead /\ Passed \cap Ahead = {}
           /\ Seen' = Seen \cup Ahead
<1>1. /\ walk.at = "rows" /\ walk'.at = "total"
      /\ walk'.page = walk.page /\ walk'.size = walk.size
      /\ walk'.got = walk.got
      /\ table' = table /\ steady' = steady
      /\ walk'.rows \in Seq(RepIds)
  BY RowsAre
<1>2. Reached = Skip(walk.page) /\ Reached' = Skip(walk.page) + walk.size
  BY <1>1, SkipType DEF Reached
<1>3. \A r : Place(r)' = Place(r)
  BY <1>1 DEF Place, Before, AllListed, Listed
<1>4. Passed' = Passed \cup Ahead /\ Passed \cap Ahead = {}
  <2>1. PICK k \in Nat, n \in Nat : k = Skip(walk.page) /\ n = walk.size
    BY SkipType
  <2>2. Reached = k /\ Reached' = k + n
    BY <1>2, <2>1
  <2>3. \A r : /\ Place(r) \in Nat
               /\ Place(r) < k + n <=> Place(r) < k \/ (k <= Place(r) /\ Place(r) < k + n)
               /\ ~(Place(r) < k /\ k <= Place(r))
    BY <2>1, PlaceType
  <2> QED
    BY <1>1, <1>3, <2>1, <2>2, <2>3 DEF Passed, Ahead
<1>5. PICK got \in Seq(RepIds), rows \in Seq(RepIds) :
        got = walk.got /\ rows = walk'.rows
  BY <1>1 DEF TypeOK, Walk
<1>6. Answered = got /\ Answered' = got \o rows
  BY <1>1, <1>5 DEF Answered
<1>7. /\ Seen = {r \in steady : Within(r, got)}
      /\ Seen' = {r \in steady : Within(r, got \o rows)}
  BY <1>1, <1>6 DEF Seen
<1>8. \A r : Within(r, got \o rows) <=> Within(r, got) \/ Within(r, rows)
  BY InBoth
<1>9. \A r \in steady : Within(r, rows) <=> r \in Ahead
  BY <1>5, RowsAre DEF Ahead, Within
<1>10. Seen' = Seen \cup Ahead
  BY <1>7, <1>8, <1>9 DEF Ahead
<1> QED
  BY <1>4, <1>10

LEMMA UnionCounts ==
    ASSUME NEW A, NEW B, IsFiniteSet(A), IsFiniteSet(B)
    PROVE  /\ IsFiniteSet(A \cup B)
           /\ Cardinality(A \cup B) <= Cardinality(A) + Cardinality(B)
<1>1. /\ Cardinality(A) \in Nat /\ Cardinality(B) \in Nat
      /\ IsFiniteSet(A \cap B) /\ Cardinality(A \cap B) \in Nat
  BY FS_CardinalityType, FS_Intersection
<1>2. Cardinality(A \cup B) = Cardinality(A) + Cardinality(B) - Cardinality(A \cap B)
  BY FS_Union
<1> QED
  BY <1>1, <1>2, FS_Union

(* Who is met again on the page was seen ahead of it. *)
LEMMA RowsMeet ==
    ASSUME TypeOK, steady \subseteq AllListed, FindRows, ~walk'.tied
    PROVE  /\ IsFiniteSet(Ahead \cap Seen)
           /\ Cardinality(Again) \in Nat /\ Cardinality(Again') \in Nat
           /\ Cardinality(Ahead \cap Seen) \in Nat
           /\ Cardinality(Again') <= Cardinality(Again) + Cardinality(Ahead \cap Seen)
<1>1. PICK got \in Seq(RepIds), rows \in Seq(RepIds) :
        got = walk.got /\ rows = walk'.rows
  BY RowsAre DEF TypeOK, Walk
<1>2. Answered = got /\ Answered' = got \o rows /\ steady' = steady
  BY <1>1, RowsAre DEF Answered
<1>3. PICK before \in Nat, more \in Nat : before = Len(got) /\ more = Len(rows)
  OBVIOUS
<1>4. PICK all : all = got \o rows
  OBVIOUS
<1>5. /\ DOMAIN got = 1 .. before /\ DOMAIN all = 1 .. before + more
      /\ \A i \in 1 .. before : all[i] = got[i]
      /\ \A i \in 1 .. before + more : ~(i <= before) =>
            i - before \in 1 .. more /\ all[i] = rows[i - before]
  <2>1. /\ all \in Seq(RepIds) /\ Len(all) = before + more
        /\ \A i \in 1 .. before + more :
            all[i] = IF i <= before THEN got[i] ELSE rows[i - before]
    BY <1>3, <1>4, ConcatProperties
  <2>2. DOMAIN got = 1 .. before /\ DOMAIN all = 1 .. before + more
    BY <1>3, <2>1
  <2>3. ASSUME NEW i \in 1 .. before
        PROVE  all[i] = got[i]
    BY <2>1
  <2>4. ASSUME NEW i \in 1 .. before + more, ~(i <= before)
        PROVE  i - before \in 1 .. more /\ all[i] = rows[i - before]
    BY <2>1, <2>4
  <2> QED
    BY <2>2, <2>3, <2>4
<1>6. /\ \A i, j \in 1 .. more : rows[i] = rows[j] => i = j
      /\ \A i \in 1 .. more : rows[i] \in steady => rows[i] \in Ahead
  BY <1>1, <1>3, RowsAre
<1>7. /\ Again = {i \in 1 .. before : /\ got[i] \in steady
                                     /\ \E j \in 1 .. i - 1 : got[j] = got[i]}
      /\ Again' = {i \in 1 .. before + more :
                        /\ all[i] \in steady
                        /\ \E j \in 1 .. i - 1 : all[j] = all[i]}
  BY <1>2, <1>4, <1>5 DEF Again
<1>8. ASSUME NEW i \in 1 .. before + more, NEW j \in 1 .. before + more,
             ~(i <= before), ~(j <= before), all[i] = all[j]
      PROVE  i = j
  <2>1. /\ i - before \in 1 .. more /\ all[i] = rows[i - before]
        /\ j - before \in 1 .. more /\ all[j] = rows[j - before]
    BY <1>5, <1>8
  <2>2. i - before = j - before
    BY <1>6, <1>8, <2>1, Zenon
  <2>3. i \in Nat /\ j \in Nat
    OBVIOUS
  <2> QED
    BY <2>2, <2>3
<1> DEFINE N == Again' \ Again
<1>9. ASSUME NEW i \in N
      PROVE  i \in 1 .. before + more /\ ~(i <= before) /\ all[i] \in Ahead \cap Seen
  <2>1. i \in 1 .. before + more /\ all[i] \in steady
    BY <1>7
  <2>2. PICK j \in 1 .. i - 1 : all[j] = all[i]
    BY <1>7
  <2>3. j \in 1 .. before + more /\ j < i
    BY <2>1
  <2>4. ~(i <= before)
    <3>1. SUFFICES ASSUME i <= before
                   PROVE  i \in Again
      OBVIOUS
    <3>2. i \in 1 .. before /\ j \in 1 .. before
      BY <2>1, <2>3, <3>1
    <3> QED
      BY <1>5, <1>7, <2>1, <2>2, <3>2
  <2>5. all[i] \in Ahead
    BY <1>5, <1>6, <2>1, <2>4
  <2>6. j \in 1 .. before
    BY <1>8, <2>1, <2>2, <2>3, <2>4
  <2>7. Within(all[i], got)
    BY <1>3, <1>5, <2>2, <2>6 DEF Within
  <2> QED
    BY <1>2, <2>1, <2>4, <2>5, <2>7 DEF Seen
<1>10. IsFiniteSet(Ahead \cap Seen) /\ IsFiniteSet(Again)
  <2>1. Ahead \cap Seen \subseteq steady
    BY DEF Ahead
  <2> QED
    BY <2>1, WrongFinite, FS_Subset
<1> DEFINE f == [i \in N |-> all[i]]
<1>11. f \in Injection(N, Ahead \cap Seen)
  <2>1. f \in [N -> Ahead \cap Seen]
    BY <1>9
  <2>2. \A i, j \in N : f[i] = f[j] => i = j
    BY <1>8, <1>9
  <2> QED
    BY <2>1, <2>2 DEF Injection, IsInjective
<1>12. IsFiniteSet(N) /\ Cardinality(N) <= Cardinality(Ahead \cap Seen)
  BY <1>10, <1>11, FS_Injection
<1>13. Again' \subseteq Again \cup N
  OBVIOUS
<1> HIDE DEF N
<1>14. /\ IsFiniteSet(Again \cup N)
       /\ Cardinality(Again \cup N) <= Cardinality(Again) + Cardinality(N)
  BY <1>10, <1>12, UnionCounts
<1>15. Cardinality(Again') <= Cardinality(Again \cup N) /\ IsFiniteSet(Again')
  BY <1>13, <1>14, FS_Subset
<1> QED
  BY <1>10, <1>12, <1>14, <1>15, FS_CardinalityType

LEMMA WrongCounts ==
    ASSUME NEW P, NEW S, NEW W, IsFiniteSet(P), IsFiniteSet(S), P \cap W = {}
    PROVE  Cardinality(((P \cup W) \ (S \cup W)) \cup ((S \cup W) \ (P \cup W)))
            = Cardinality((P \ S) \cup (S \ P)) - Cardinality(W \cap S)
<1>1. PICK wrong : wrong = (P \ S) \cup (S \ P)
  OBVIOUS
<1>2. ((P \cup W) \ (S \cup W)) \cup ((S \cup W) \ (P \cup W)) = wrong \ W
  BY <1>1
<1>3. wrong \cap W = W \cap S
  BY <1>1
<1>4. IsFiniteSet(wrong)
  BY <1>1, FS_Difference, FS_Union
<1>5. Cardinality(wrong \ W) = Cardinality(wrong) - Cardinality(wrong \cap W)
  BY <1>4, FS_Difference
<1> QED
  BY <1>1, <1>2, <1>3, <1>5, Zenon

LEMMA RowsKeepWalk ==
    ASSUME WalkInv, FindRows
    PROVE  WalkInv'
<1>1. /\ TypeOK /\ TypeOK' /\ steady \subseteq AllListed /\ commits \in Nat
  BY TypeStep, ReadAssumption DEF WalkInv, Next, TypeOK
<1>2. /\ walk'.at = "total" /\ walk'.got = walk.got /\ table' = table
      /\ steady' = steady /\ commits' = commits
  BY <1>1 DEF FindRows, TypeOK, Walk
<1>3. Begun' /\ steady' \subseteq AllListed'
  BY <1>1, <1>2 DEF Begun, AllListed, Listed
<1>4. CASE walk'.tied
  BY <1>1, <1>2, <1>3, <1>4 DEF WalkInv
<1>5. CASE ~walk'.tied
  <2>1. \A r, t \in steady' : ~Tied(r, t)'
    BY <1>1, <1>2, <1>5, RowsAre DEF Tied
  <2>2. Cardinality(Wrong) + Cardinality(Again) <= commits
    BY <1>1, <1>5, RowsAre DEF WalkInv
  <2>3. Cardinality(Wrong') = Cardinality(Wrong) - Cardinality(Ahead \cap Seen)
    <3>1. IsFiniteSet(Passed) /\ IsFiniteSet(Seen)
      <4>1. Passed \subseteq steady /\ Seen \subseteq steady
        BY DEF Passed, Seen
      <4>2. IsFiniteSet(steady)
        BY <1>1, WrongFinite DEF WalkInv
      <4>3. IsFiniteSet(Passed)
        BY <4>1, <4>2, FS_Subset, Zenon
      <4>4. IsFiniteSet(Seen)
        BY <4>1, <4>2, FS_Subset, Zenon
      <4> QED
        BY <4>3, <4>4
    <3>2. /\ Passed' = Passed \cup Ahead /\ Passed \cap Ahead = {}
          /\ Seen' = Seen \cup Ahead
      BY <1>1, <1>5, RowsCover
    <3>3. Wrong' = ((Passed \cup Ahead) \ (Seen \cup Ahead))
                    \cup ((Seen \cup Ahead) \ (Passed \cup Ahead))
      BY <3>2 DEF Wrong
    <3>4. Cardinality(Wrong') = Cardinality((Passed \ Seen) \cup (Seen \ Passed))
                               - Cardinality(Ahead \cap Seen)
      BY <3>1, <3>2, <3>3, WrongCounts, ZenonT(30)
    <3> QED
      BY <3>4 DEF Wrong
  <2>4. /\ Cardinality(Again) \in Nat /\ Cardinality(Again') \in Nat
        /\ Cardinality(Ahead \cap Seen) \in Nat /\ Cardinality(Wrong) \in Nat
        /\ Cardinality(Again') <= Cardinality(Again) + Cardinality(Ahead \cap Seen)
    BY <1>1, <1>5, RowsMeet, WrongFinite, FS_CardinalityType
  <2>5. Cardinality(Wrong') + Cardinality(Again') <= commits'
    BY <1>1, <1>2, <2>2, <2>3, <2>4
  <2> QED
    BY <1>1, <1>2, <1>3, <2>1, <2>5 DEF WalkInv
<1> QED
  BY <1>4, <1>5

-----------------------------------------------------------------------------
LEMMA WalkStep ==
    ASSUME WalkInv, [Next]_vars
    PROVE  WalkInv'
<1>1. CASE FindRows
  BY <1>1, RowsKeepWalk
<1>2. CASE FindTotal
  BY <1>2, TotalKeepsWalk
<1>3. ASSUME NEW r \in RepIds, NEW row \in Row, Commit(r, row)
      PROVE  WalkInv'
  BY <1>3, CommitKeepsWalk
<1>4. CASE UNCHANGED vars
  <2>1. table' = table /\ commits' = commits /\ steady' = steady /\ walk' = walk
    BY <1>4 DEF vars
  <2>2. TypeOK' /\ AllListed' = AllListed /\ Begun' = Begun
    BY <2>1, TypeStep DEF WalkInv, AllListed, Listed, Begun
  <2>3. Answered' = Answered /\ Reached' = Reached
    BY <2>1 DEF Answered, Reached, Skip
  <2>4. Passed' = Passed /\ Seen' = Seen /\ Again' = Again
    BY <2>1, <2>2, <2>3 DEF Passed, Place, Before, Seen, Again
  <2>5. Wrong' = Wrong
    BY <2>4 DEF Wrong
  <2>6. \A r, s : Tied(r, s)' <=> Tied(r, s)
    BY <2>1 DEF Tied
  <2> QED
    BY <2>1, <2>2, <2>4, <2>5, <2>6 DEF WalkInv
<1> QED
  BY <1>1, <1>2, <1>3, <1>4 DEF Next

(* At the end the Reps passed unseen are missed, and those met again are   *)
(* the ones the client got twice.                                          *)
LEMMA WalkImplies ==
    ASSUME WalkInv
    PROVE  WalkGoesWrongBySaves
<1> SUFFICES ASSUME walk.at = "done", ~walk.tied
             PROVE  Cardinality(Missed) + Cardinality(MetAgain) <= commits
  BY DEF WalkGoesWrongBySaves
<1>1. /\ TypeOK /\ steady \subseteq Passed
      /\ Cardinality(Wrong) + Cardinality(Again) <= commits
  BY DEF WalkInv
<1>2. Answered = walk.got /\ Answered \in Seq(RepIds)
  BY <1>1, WrongFinite DEF Answered
<1>3. MetAgain = Again
  BY <1>2 DEF MetAgain, Again
<1>4. Missed \subseteq Wrong
  <2>1. \A r \in steady : Within(r, Answered) => r \in Range(walk.got)
    BY <1>2 DEF Within, Range
  <2> QED
    BY <1>1, <2>1 DEF Missed, Wrong, Seen
<1>5. /\ Cardinality(Missed) \in Nat /\ Cardinality(Missed) <= Cardinality(Wrong)
      /\ Cardinality(Wrong) \in Nat /\ Cardinality(Again) \in Nat
  BY <1>1, <1>4, WrongFinite, FS_Subset, FS_CardinalityType
<1>6. commits \in Nat
  BY <1>1, ReadAssumption DEF TypeOK
<1> QED
  BY <1>1, <1>3, <1>5, <1>6

(* Positions shift under a client that pages through a directory others    *)
(* write to.  However long the walk and whatever the pages, as long as no  *)
(* two Reps it lists have the same name, no more untouched Reps are missed *)
(* or met again than there were saves.                                     *)
THEOREM WalkTheorem == Spec => []WalkGoesWrongBySaves
<1>1. WalkInv /\ [Next]_vars => WalkInv'
  BY WalkStep
<1>2. WalkInv => WalkGoesWrongBySaves
  BY WalkImplies
<1> QED
  BY WalkInit, <1>1, <1>2, PTL DEF Spec

(* If nobody saves anything, such a walk is right to the last row: every   *)
(* Rep listed when it began is met once.  QuietWalkListsAll fails for ties *)
(* alone.                                                                  *)
THEOREM QuietWalkTheorem ==
    Spec => [](walk.at = "done" /\ commits = 0 /\ ~walk.tied =>
                  Missed = {} /\ MetAgain = {})
<1>1. WalkInv /\ [Next]_vars => WalkInv'
  BY WalkStep
<1>2. WalkInv => (walk.at = "done" /\ commits = 0 /\ ~walk.tied =>
                     Missed = {} /\ MetAgain = {})
  <2> SUFFICES ASSUME WalkInv, walk.at = "done", commits = 0, ~walk.tied
               PROVE  Missed = {} /\ MetAgain = {}
    OBVIOUS
  <2>1. Cardinality(Missed) + Cardinality(MetAgain) <= 0
    BY WalkImplies DEF WalkGoesWrongBySaves
  <2>2. /\ steady \subseteq RepIds /\ walk.got \in Seq(RepIds)
        /\ IsFiniteSet(RepIds)
    BY ReadAssumption DEF WalkInv, TypeOK, Walk
  <2>3. IsFiniteSet(Missed)
    BY <2>2, FS_Subset DEF Missed
  <2>4. IsFiniteSet(MetAgain)
    <3>1. IsFiniteSet(1 .. Len(walk.got)) /\ DOMAIN walk.got = 1 .. Len(walk.got)
      BY <2>2, FS_Interval, LenProperties
    <3> QED
      BY <3>1, FS_Subset DEF MetAgain
  <2>5. Cardinality(Missed) \in Nat /\ Cardinality(MetAgain) \in Nat
    BY <2>3, <2>4, FS_CardinalityType
  <2> QED
    BY <2>1, <2>3, <2>4, <2>5, FS_EmptySet
<1> QED
  BY WalkInit, <1>1, <1>2, PTL DEF Spec

=============================================================================
