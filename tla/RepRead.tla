------------------------------ MODULE RepRead ------------------------------
(***************************************************************************)
(* A client walks through the pages of the Rep directory of its tenant     *)
(* (GET /reps) while other requests save Reps.                             *)
(*                                                                         *)
(* One page is one transaction of two statements, the rows and the total,  *)
(* each of which sees what is committed when it runs (READ COMMITTED).     *)
(* Rows are ordered by name; between rows of the same name the database    *)
(* picks an order, and need not pick the same one for the next page.  A    *)
(* page is cut out of that order by position, so what is saved between two *)
(* pages moves the later rows.  The client asks for the next page as long  *)
(* as the total says there is one.                                         *)
(*                                                                         *)
(* Bounds: MaxCommits is how many saves are committed during the walk.     *)
(***************************************************************************)
EXTENDS Integers, Sequences, FiniteSets, SequencesExt

CONSTANTS
    RepIds,
    Names,       \* (lastName, firstName), in the order the database sorts them
    AskedSizes,  \* the page sizes clients ask for, of those let through
    DefaultPageSize,
    MaxPageSize,
    MaxCommits,
    SeedTables,  \* what `reps` may hold when the walk begins
    Null

(* What the directory looks at of a row.                                   *)
Row == [name : Names, status : {"SOFT_DELETED", "OTHER"}]

ASSUME ReadAssumption ==
    /\ IsFiniteSet(RepIds)
    /\ Names \subseteq Nat
    /\ MaxPageSize \in Nat \ {0}
    /\ AskedSizes \subseteq 1 .. MaxPageSize
    /\ DefaultPageSize \in Nat \ {0}
    /\ MaxCommits \in Nat
    /\ Null \notin Row
    /\ SeedTables \subseteq [RepIds -> Row \cup {Null}]

VARIABLES
    table,   \* `reps`, the tenant's part
    commits, \* how many saves have been committed
    steady,  \* the Reps listed since the walk began and not saved since
    walk     \* where the client stands

vars == <<table, commits, steady, walk>>

(*   at    the statement that is next, or "done"                           *)
(*   rows  of the current page, once they are read                         *)
(*   read  the commits before they were read                               *)
(*   got   of the pages before                                             *)
(*   tied  whether two listed Reps had the same name at a page             *)
Walk == [at   : {"rows", "total", "done"},
         size : 1 .. MaxPageSize,
         page : Nat \ {0},
         rows : Seq(RepIds),
         read : 0 .. MaxCommits,
         got  : Seq(RepIds),
         tied : BOOLEAN]

TypeOK ==
    /\ table \in [RepIds -> Row \cup {Null}]
    /\ commits \in 0 .. MaxCommits
    /\ steady \subseteq RepIds
    /\ walk \in Walk

(* DIRECTORY_WHERE *)
Listed(r) == table[r] # Null /\ table[r].status # "SOFT_DELETED"

AllListed == {r \in RepIds : Listed(r)}

(* Mutant: a query without a page size gets none.                          *)
PageSizeUndefaulted(asked) == asked

PageSize(asked) ==
    Min({IF asked = Null THEN DefaultPageSize ELSE asked, MaxPageSize})

(* A page size above the maximum is a 400 and begins no walk.              *)
Init ==
    /\ table \in SeedTables
    /\ commits = 0
    /\ steady = AllListed
    /\ \E asked \in AskedSizes \cup {Null} :
        walk = [at |-> "rows", size |-> PageSize(asked), page |-> 1,
                rows |-> <<>>, read |-> 0, got |-> <<>>, tied |-> FALSE]

-----------------------------------------------------------------------------
Tied(r, s) == r # s /\ table[r].name = table[s].name

(* ORDER BY lastName, firstName: every order of the listed Reps that is    *)
(* one by name.                                                            *)
Orderings ==
    {s \in SetToSeqs(AllListed) :
        \A i, j \in DOMAIN s : i < j => table[s[i]].name <= table[s[j]].name}

(* Mutant: pages are counted from zero.                                    *)
SkipFromZero(page) == page * walk.size

Skip(page) == (page - 1) * walk.size

FindRows ==
    /\ walk.at = "rows"
    /\ \E s \in Orderings :
        walk' = [walk EXCEPT
            !.at   = "total",
            !.rows = SubSeq(s, Skip(walk.page) + 1,
                            Min({Skip(walk.page) + walk.size, Len(s)})),
            !.read = commits,
            !.tied = @ \/ \E r, t \in AllListed : Tied(r, t)]
    /\ UNCHANGED <<table, commits, steady>>

(* Mutant: the count looks at all rows.                                    *)
TotalWithDeleted == Cardinality({r \in RepIds : table[r] # Null})

Total == Cardinality(AllListed)

(* The count; the answer goes out, and the client knows if it is through.  *)
FindTotal ==
    /\ walk.at = "total"
    /\ walk' = [walk EXCEPT
            !.at   = IF walk.page * walk.size < Total THEN "rows" ELSE "done",
            !.page = @ + 1,
            !.got  = @ \o walk.rows]
    /\ UNCHANGED <<table, commits, steady>>

(* Somebody's save: a new Rep, another name, a soft delete, a restore, or  *)
(* several of these at once if the save is a stale one.                    *)
Commit(r, row) ==
    /\ walk.at # "done"
    /\ commits < MaxCommits
    /\ row # table[r]
    /\ table[r] = Null => row.status = "OTHER"
    /\ table' = [table EXCEPT ![r] = row]
    /\ commits' = commits + 1
    /\ steady' = steady \ {r}
    /\ UNCHANGED walk

Next ==
    \/ FindRows
    \/ FindTotal
    \/ \E r \in RepIds, row \in Row : Commit(r, row)

Spec == Init /\ [][Next]_vars

-----------------------------------------------------------------------------
(* How many rows a page has when there are total of them. *)
RowsDue(page, total) == Max({0, Min({walk.size, total - Skip(page)})})

(* The rows and the total of one answer disagree by no more Reps than were *)
(* saved between the two statements; a save-free answer is exact.          *)
AnswerFitsTotal ==
    walk.at = "total" =>
        LET due == RowsDue(walk.page, Total)
            off == commits - walk.read
        IN  Len(walk.rows) \in (due - off) .. (due + off)

(* The Reps nobody touched that the walk missed, ... *)
Missed == steady \ Range(walk.got)

(* ... and the places where it met one of them again. *)
MetAgain ==
    {i \in DOMAIN walk.got :
        /\ walk.got[i] \in steady
        /\ \E j \in 1 .. i - 1 : walk.got[i] = walk.got[j]}

(* As long as no two listed Reps have the same name, a walk goes wrong     *)
(* about no more untouched Reps than were saved during it: each save moves *)
(* the later rows by at most one, and makes at most one of them slip       *)
(* through between two pages or appear on both.                            *)
WalkGoesWrongBySaves ==
    walk.at = "done" /\ ~walk.tied =>
        Cardinality(Missed) + Cardinality(MetAgain) <= commits

(* rep.controller.ts:101: "Lists all non-deleted Reps".  Whoever walks     *)
(* through all pages while nobody saves anything has seen all of them.     *)
QuietWalkListsAll ==
    walk.at = "done" /\ commits = 0 => Missed = {}

=============================================================================
