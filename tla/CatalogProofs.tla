---------------------------- MODULE CatalogProofs ----------------------------
(***************************************************************************)
(* Proofs about Catalog, for every document, every paging of its listings  *)
(* and any number of edits meanwhile.                                      *)
(***************************************************************************)
EXTENDS Catalog, NumberFacts, FiniteSetTheorems, SequenceTheorems

(* The three words are strings, but the provers do not know of a string    *)
(* that it is in STRING.                                                   *)
Names == [word : STRING \cup {"column", "createdAt", "updatedAt"}, suffixes : Seq(Nat)]
ColumnKeys == Columns \cup {CreatedAt, UpdatedAt}
ColumnEntries == [id : ColumnKeys, name : Names]

-----------------------------------------------------------------------------
(* The names of columns.                                                   *)

LEMMA AppendDiffers ==
  ASSUME NEW s \in Seq(Nat), NEW j \in Nat
  PROVE  /\ Append(s, j) \in Seq(Nat)
         /\ Append(s, j) # s /\ Append(s, j) # <<>>
         /\ \A k \in Nat : Append(s, k) = Append(s, j) => k = j
<1>1. \A k \in Nat : /\ Append(s, k) \in Seq(Nat)
                     /\ Len(Append(s, k)) = Len(s) + 1
                     /\ Append(s, k)[Len(s) + 1] = k
  BY AppendProperties
<1>2. Len(s) \in Nat /\ Len(<<>>) = 0
  BY LenProperties, EmptySeq
<1>3. Append(s, j) # s /\ Append(s, j) # <<>>
  BY <1>1, <1>2
<1>4. QED
  BY <1>1, <1>3

(* Different suffixes make different candidates, and a candidate of a name *)
(* that is not empty is not empty.                                         *)
LEMMA CandidatesDiffer ==
  ASSUME NEW base \in Names, base # Unnamed, NEW k \in Nat \ {0}
  PROVE  /\ Candidate(base, k) \in Names
         /\ Candidate(base, k) # Unnamed
         /\ \A j \in Nat \ {0} : Candidate(base, j) = Candidate(base, k) => j = k
<1>1. base.suffixes \in Seq(Nat)
  BY DEF Names
<1>2. Candidate(base, 1) = base
  BY DEF Candidate
<1>3. ASSUME NEW j \in Nat \ {0, 1}
      PROVE  /\ Candidate(base, j) \in Names
             /\ Candidate(base, j).suffixes = Append(base.suffixes, j)
  <2>1. Append(base.suffixes, j) \in Seq(Nat)
    BY <1>1, AppendDiffers
  <2>2. QED
    BY <2>1 DEF Candidate, Names
<1>4. ASSUME NEW j \in Nat \ {0, 1}
      PROVE  Candidate(base, j) # Unnamed /\ Candidate(base, j) # base
  <2>1. Append(base.suffixes, j) # base.suffixes /\ Append(base.suffixes, j) # <<>>
    BY <1>1, AppendDiffers
  <2>2. Unnamed.suffixes = <<>>
    BY DEF Unnamed, Word
  <2>3. QED
    BY <1>3, <2>1, <2>2
<1>5. ASSUME NEW j \in Nat \ {0}, Candidate(base, j) = Candidate(base, k)
      PROVE  j = k
  <2>1. CASE j = 1 \/ k = 1
    BY <2>1, <1>2, <1>4, <1>5
  <2>2. CASE j # 1 /\ k # 1
    <3>1. Append(base.suffixes, j) = Append(base.suffixes, k)
      BY <2>2, <1>3, <1>5
    <3>2. QED
      BY <3>1, <1>1, AppendDiffers
  <2>3. QED
    BY <2>1, <2>2
<1>6. QED
  BY <1>2, <1>3, <1>4, <1>5

(* There are more candidates than names that are taken, so one is free.    *)
LEMMA FreshNameIsFree ==
  ASSUME NEW taken, IsFiniteSet(taken), NEW base \in Names, base # Unnamed
  PROVE  /\ FreshName(taken, base) \notin taken
         /\ FreshName(taken, base) \in Names
         /\ FreshName(taken, base) # Unnamed
<1> DEFINE bound == Cardinality(taken) + 1
           free == {k \in 1..bound : Candidate(base, k) \notin taken}
<1>1. bound \in Nat \ {0} /\ Cardinality(taken) < bound
  <2>1. Cardinality(taken) \in Nat
    BY FS_CardinalityType
  <2>2. QED
    BY <2>1
<1>2. IsFiniteSet(1..bound) /\ Cardinality(1..bound) = bound
  BY <1>1, FS_Interval
<1>3. free # {}
  <2> SUFFICES ASSUME free = {} PROVE FALSE
    OBVIOUS
  <2> DEFINE f == [k \in 1..bound |-> Candidate(base, k)]
  <2>1. f \in [1..bound -> taken]
    <3>1. \A k \in 1..bound : Candidate(base, k) \in taken
      OBVIOUS
    <3> HIDE DEF bound
    <3>2. QED
      BY <3>1
  <2>2. PICK x, y \in 1..bound : x # y /\ f[x] = f[y]
    <3> HIDE DEF f, bound
    <3> QED
      BY <1>1, <1>2, <2>1, FS_PigeonHole
  <2>3. Candidate(base, x) = Candidate(base, y)
    <3> HIDE DEF bound
    <3> QED
      BY <2>2
  <2>4. x \in Nat \ {0} /\ y \in Nat \ {0}
    BY <1>1
  <2>5. QED
    BY <2>2, <2>3, <2>4, CandidatesDiffer
<1>4. \E k \in free : \A j \in free : k <= j
  <2>1. free \subseteq Nat
    BY <1>1
  <2> HIDE DEF free
  <2>2. QED
    BY <1>3, <2>1, LeastNumber
<1> DEFINE first == CHOOSE k \in free : \A j \in free : k <= j
<1>5. first \in free /\ FreshName(taken, base) = Candidate(base, first)
  <2>1. first \in free
    <3> HIDE DEF free
    <3> QED
      BY <1>4
  <2>2. QED
    BY <2>1 DEF FreshName
<1>6. first \in Nat \ {0} /\ Candidate(base, first) \notin taken
  <2> HIDE DEF first
  <2> QED
    BY <1>1, <1>5
<1>7. QED
  BY <1>5, <1>6, CandidatesDiffer

LEMMA BaseNames ==
  ASSUME NEW name \in Names
  PROVE  BaseName(name) \in Names /\ BaseName(name) # Unnamed
<1>1. Word("column") # Unnamed
  BY DEF Word, Unnamed
<1>2. Word("column") \in Names
  <2>1. <<>> \in Seq(Nat)
    BY EmptySeq
  <2>2. QED
    BY <2>1 DEF Word, Names
<1>3. QED
  BY <1>1, <1>2 DEF BaseName

(* prepare_columns defines what it says: the recursion has a solution.     *)
LEMMA PrepareColumnsEquation ==
  ASSUME NEW columns, NEW n \in Nat, DOMAIN columns = 1..n
  PROVE  PrepareColumns(columns) =
           [i \in 1..n |->
              [columns[i] EXCEPT !.name =
                 FreshName({PrepareColumns(columns)[j].name : j \in 1..(i - 1)},
                           BaseName(columns[i].name))]]
<1> DEFINE Given(g, i) == [columns[i] EXCEPT !.name =
                             FreshName({g[j].name : j \in 1..(i - 1)}, BaseName(columns[i].name))]
           Solvable == {m \in Nat : \E g : g = [i \in 1..m |-> Given(g, i)]}
<1>1. ASSUME NEW g, NEW h, NEW i, \A j \in 1..(i - 1) : g[j] = h[j]
      PROVE  Given(g, i) = Given(h, i)
  <2>1. {g[j].name : j \in 1..(i - 1)} = {h[j].name : j \in 1..(i - 1)}
    BY <1>1
  <2>2. QED
    BY <2>1
<1> HIDE DEF Given
<1>2. 0 \in Solvable
  <2>1. [i \in 1..0 |-> Given(<<>>, i)] = [i \in 1..0 |-> Given([i_1 \in 1..0 |-> Given(<<>>, i_1)], i)]
    OBVIOUS
  <2>2. QED
    BY <2>1
<1>3. ASSUME NEW k \in 1..n, k - 1 \in Solvable
      PROVE  k \in Solvable
  <2>1. PICK g : g = [i \in 1..(k - 1) |-> Given(g, i)]
    BY <1>3
  <2> DEFINE h == [i \in 1..k |-> Given(g, i)]
  <2>2. \A j \in 1..(k - 1) : g[j] = h[j]
    BY <2>1
  <2>3. \A i \in 1..k : Given(g, i) = Given(h, i)
    <3> HIDE DEF h
    <3> QED
      BY <1>1, <2>2
  <2>4. h = [i \in 1..k |-> Given(h, i)]
    BY <2>3
  <2> HIDE DEF h
  <2>5. QED
    BY <2>4
<1>4. n \in Solvable
  <2> HIDE DEF Solvable
  <2>1. \A k \in 0..n : k \in Solvable
    BY <1>2, <1>3, AllNumbers
  <2>2. QED
    BY <2>1
<1> DEFINE chosen == CHOOSE g : g = [i \in 1..n |-> Given(g, i)]
<1>5. chosen = [i \in 1..n |-> Given(chosen, i)]
  BY <1>4
<1>6. PrepareColumns(columns) = chosen
  BY DEF PrepareColumns, Given
<1> HIDE DEF chosen
<1>7. PrepareColumns(columns) = [i \in 1..n |-> Given(PrepareColumns(columns), i)]
  BY <1>5, <1>6
<1>8. QED
  BY <1>7 DEF Given

(* prepare_columns keeps the columns and their order, and gives each a     *)
(* name that is not empty and that none before it has.                     *)
LEMMA PreparedColumns ==
  ASSUME NEW Keys, NEW columns \in Seq([id : Keys, name : Names])
  PROVE  /\ PrepareColumns(columns) \in Seq([id : Keys, name : Names])
         /\ Len(PrepareColumns(columns)) = Len(columns)
         /\ \A i \in 1..Len(columns) :
              /\ PrepareColumns(columns)[i].id = columns[i].id
              /\ PrepareColumns(columns)[i].name # Unnamed
              /\ \A j \in 1..(i - 1) :
                   PrepareColumns(columns)[j].name # PrepareColumns(columns)[i].name
<1> DEFINE n == Len(columns)
           given == PrepareColumns(columns)
           Taken(i) == {given[j].name : j \in 1..(i - 1)}
<1>1. n \in Nat /\ DOMAIN columns = 1..n
      /\ \A i \in 1..n : columns[i] \in [id : Keys, name : Names]
  BY LenProperties, ElementOfSeq
<1>2. given = [i \in 1..n |-> [columns[i] EXCEPT !.name =
                                FreshName(Taken(i), BaseName(columns[i].name))]]
  <2> HIDE DEF n
  <2>1. QED
    BY <1>1, PrepareColumnsEquation
<1>3. ASSUME NEW i \in 1..n PROVE IsFiniteSet(Taken(i))
  <2> DEFINE f == [j \in 1..(i - 1) |-> given[j].name]
  <2>1. f \in Surjection(1..(i - 1), Taken(i))
    BY DEF Surjection
  <2>2. IsFiniteSet(1..(i - 1))
    BY <1>1, FS_Interval
  <2> HIDE DEF f, Taken
  <2>3. QED
    BY <2>1, <2>2, FS_Surjection
<1>4. ASSUME NEW i \in 1..n
      PROVE  BaseName(columns[i].name) \in Names /\ BaseName(columns[i].name) # Unnamed
  BY <1>1, BaseNames
<1> HIDE DEF n, given
<1>5. ASSUME NEW i \in 1..n
      PROVE  /\ given[i].id = columns[i].id
             /\ given[i].name \notin Taken(i)
             /\ given[i].name # Unnamed
             /\ given[i] \in [id : Keys, name : Names]
  <2> DEFINE fresh == FreshName(Taken(i), BaseName(columns[i].name))
  <2>1. fresh \notin Taken(i) /\ fresh \in Names /\ fresh # Unnamed
    <3> HIDE DEF Taken
    <3> QED
      BY <1>3, <1>4, FreshNameIsFree
  <2>2. given[i] = [columns[i] EXCEPT !.name = fresh]
    BY <1>2
  <2> HIDE DEF fresh
  <2>3. QED
    BY <1>1, <2>1, <2>2
<1>6. given \in Seq([id : Keys, name : Names]) /\ Len(given) = n
  <2> DEFINE E == [id : Keys, name : Names]
  <2>1. DOMAIN given = 1..n
    BY <1>2
  <2>2. given \in [1..n -> E]
    <3>1. \A i \in 1..n : given[i] \in E
      BY <1>5
    <3>2. given = [i \in 1..n |-> given[i]]
      BY <1>2
    <3> HIDE DEF E
    <3>3. QED
      BY <3>1, <3>2
  <2> HIDE DEF E
  <2>3. given \in Seq(E)
    BY <1>1, <2>2
  <2>4. Len(given) = n
    BY <1>1, <2>1, <2>3, LenProperties
  <2>5. QED
    BY <2>3, <2>4 DEF E
<1>7. \A i \in 1..n : \A j \in 1..(i - 1) : given[j].name # given[i].name
  BY <1>5
<1>8. QED
  BY <1>5, <1>6, <1>7 DEF n, given

-----------------------------------------------------------------------------
(***************************************************************************)
(* The load, while the document is being edited.                           *)
(***************************************************************************)

TableEntries == [id : Tables, name : TableNames]
ColumnItems == [id : Columns, name : ColumnNames]
LoadedTables == [id : Tables, name : TableNames, columns : Seq(ColumnEntries)]

CatalogTypes ==
  /\ tableName \in [Tables -> TableNames \cup {Unborn, Gone}]
  /\ columnName \in [Tables -> [Columns -> ColumnNames \cup {Unborn, Gone}]]
  /\ metadata \in BOOLEAN
  /\ pc \in {"tables", "columns", "done", "failed"}
  /\ tableToken \in Nat /\ columnToken \in Nat
  /\ page \in Seq(TableEntries)
  /\ all \in Seq(ColumnItems)
  /\ loaded \in Seq(LoadedTables)

Ascending(s) == \A i, j \in DOMAIN s : i < j => s[i].id < s[j].id
UpTo(s, token) == token # 0 => \A i \in DOMAIN s : s[i].id <= token

(* What the loops have in hand at each request.                            *)
Stages ==
  /\ pc = "columns" <=> page # <<>>
  /\ pc = "tables" /\ tableToken = 0 => loaded = <<>>
  /\ pc = "done" => tableToken = 0
  /\ pc # "columns" => columnToken = 0
  /\ columnToken = 0 => all = <<>>

(* The tables listed so far, by key, none of them beyond the page token.   *)
TableOrder ==
  /\ Ascending(loaded) /\ UpTo(loaded, tableToken)
  /\ Ascending(page) /\ UpTo(page, tableToken)
  /\ \A i \in DOMAIN loaded : \A j \in DOMAIN page : loaded[i].id < page[j].id

(* The listing has come past table t.                                      *)
Passed(t) == IF tableToken = 0 THEN pc # "tables" ELSE t <= tableToken

(* No steady table behind the page token is missing.                       *)
TablesRead == pc # "failed" => \A t \in Tables : SteadyTable(t) /\ Passed(t) =>
  \/ \E i \in DOMAIN loaded : loaded[i].id = t /\ loaded[i].name = tableName[t]
  \/ \E i \in DOMAIN page : page[i].id = t /\ page[i].name = tableName[t]

(* The same of the columns of the table that is being read.                *)
ColumnsRead ==
  /\ Ascending(all) /\ UpTo(all, columnToken)
  /\ pc = "columns" => \A c \in Columns :
       SteadyColumn(Head(page).id, c) /\ c <= columnToken => \E i \in DOMAIN all : all[i].id = c

CatalogInv ==
  /\ CatalogTypes
  /\ Stages
  /\ TableOrder
  /\ TablesRead
  /\ ColumnsRead
  /\ ColumnNamesDistinct
  /\ SteadyColumnsListed

-----------------------------------------------------------------------------
(* What an endpoint answers: items behind the token, up to the next token, *)
(* in order and without a gap.                                             *)
IsPage(items, next, names, token, N) ==
  /\ items \in Seq([id : DOMAIN names, name : N])
  /\ Ascending(items) /\ UpTo(items, next)
  /\ \A i \in DOMAIN items : items[i].id > token /\ items[i].name = names[items[i].id]
  /\ next \in Nat
  /\ next # 0 => next > token /\ items # <<>>
  /\ \A k \in DOMAIN names :
       names[k] \in N /\ k > token /\ (next = 0 \/ k <= next) =>
         \E i \in DOMAIN items : items[i].id = k

LEMMA PageFacts ==
  ASSUME NEW names, DOMAIN names \subseteq Nat, NEW token \in Nat, NEW N,
         \A k \in DOMAIN names : names[k] \in N \cup {Unborn, Gone},
         N \cap {Unborn, Gone} = {},
         PageSize \in Nat,
         NEW p \in Pages(names, token)
  PROVE  IsPage(Items(names, p), NextToken(names, token, p), names, token, N)
<1> DEFINE keys == Listed(names, token)
           next == NextToken(names, token, p)
           items == Items(names, p)
<1>1. keys \subseteq DOMAIN names
      /\ \A k \in keys : k \in Nat /\ k > token /\ names[k] \in N
  BY DEF Listed
<1>2. \A k \in DOMAIN names : k > token /\ names[k] \in N => k \in keys
  BY DEF Listed
<1> HIDE DEF keys
<1>3. PICK n \in 0..PageSize : p \in [1..n -> keys]
  BY DEF Pages, keys
<1>4. /\ \A i, j \in DOMAIN p : i < j => p[i] < p[j]
      /\ \A k \in keys : \A i \in DOMAIN p : k < p[i] => \E j \in DOMAIN p : p[j] = k
      /\ p = <<>> => keys = {}
  BY DEF Pages, keys
<1>5. n \in Nat /\ DOMAIN p = 1..n /\ Len(p) = n
  BY <1>3
<1>6. DOMAIN items = 1..n /\ \A i \in 1..n : items[i] = [id |-> p[i], name |-> names[p[i]]]
  BY <1>5 DEF Items
<1>7. \A i \in 1..n : p[i] \in keys
  BY <1>3
<1>8. items \in Seq([id : DOMAIN names, name : N])
  <2> DEFINE E == [id : DOMAIN names, name : N]
  <2>1. \A i \in 1..n : [id |-> p[i], name |-> names[p[i]]] \in E
    BY <1>1, <1>7
  <2>2. items = [i \in 1..n |-> [id |-> p[i], name |-> names[p[i]]]]
    BY <1>5 DEF Items
  <2> HIDE DEF E, items
  <2>3. items \in [1..n -> E]
    BY <2>1, <2>2
  <2>4. items \in Seq(E)
    BY <2>3, <1>5
  <2>5. QED
    BY <2>4 DEF E
<1> HIDE DEF items
<1>9. next = IF \A k \in keys : \E i \in 1..n : p[i] = k THEN 0 ELSE p[n]
  BY <1>5 DEF NextToken, keys
<1> HIDE DEF next
<1>10. next # 0 => n \in 1..n /\ next = p[n]
  <2>1. CASE n = 0
    <3>1. p = <<>>
      BY <1>3, <2>1
    <3>2. keys = {}
      BY <3>1, <1>4
    <3>3. QED
      BY <3>2, <1>9
  <2>2. CASE n # 0
    BY <2>2, <1>5, <1>9
  <2>3. QED
    BY <2>1, <2>2
<1>11. next \in Nat /\ (next # 0 => next > token /\ items # <<>>)
  <2>1. next # 0 => next \in keys
    BY <1>7, <1>10
  <2>2. next # 0 => items # <<>>
    BY <1>6, <1>10
  <2>3. QED
    BY <2>1, <2>2, <1>1
<1>12. Ascending(items)
  BY <1>4, <1>5, <1>6 DEF Ascending
<1>13. UpTo(items, next)
  <2> SUFFICES ASSUME next # 0, NEW i \in 1..n PROVE p[i] <= next
    BY <1>6 DEF UpTo
  <2>1. n \in 1..n /\ next = p[n]
    BY <1>10
  <2>2. i < n => p[i] < p[n]
    BY <1>4, <1>5, <2>1
  <2>3. p[i] \in Nat /\ p[n] \in Nat
    BY <1>1, <1>7, <2>1
  <2>4. QED
    BY <2>1, <2>2, <2>3, <1>5
<1>14. ASSUME NEW k \in keys, next = 0 \/ k <= next
       PROVE  \E i \in 1..n : p[i] = k
  <2>1. CASE next = 0
    <3>1. SUFFICES ASSUME ~(\A k_1 \in keys : \E i \in 1..n : p[i] = k_1) PROVE FALSE
      OBVIOUS
    <3>2. p[n] = 0 /\ n # 0
      <4>1. n # 0
        <5>1. n = 0 => p = <<>>
          BY <1>3
        <5>2. QED
          BY <5>1, <1>4
      <4>2. QED
        BY <4>1, <3>1, <2>1, <1>9
    <3>3. p[n] \in keys
      BY <3>2, <1>5, <1>7
    <3>4. QED
      BY <3>2, <3>3, <1>1
  <2>2. CASE next # 0 /\ k <= next
    <3>1. n \in 1..n /\ next = p[n]
      BY <2>2, <1>10
    <3>2. k \in Nat /\ p[n] \in Nat
      BY <3>1, <1>1, <1>7
    <3>3. k = p[n] \/ k < p[n]
      BY <3>1, <3>2, <2>2
    <3>4. QED
      BY <3>1, <3>3, <1>4, <1>5
  <2>3. QED
    BY <1>14, <2>1, <2>2
<1>15. \A k \in DOMAIN names : names[k] \in N /\ k > token /\ (next = 0 \/ k <= next) =>
         \E i \in DOMAIN items : items[i].id = k
  BY <1>2, <1>6, <1>14
<1>16. \A i \in DOMAIN items : items[i].id > token /\ items[i].name = names[items[i].id]
  BY <1>1, <1>6, <1>7
<1>17. QED
  BY <1>8, <1>11, <1>12, <1>13, <1>15, <1>16 DEF IsPage, items, next

(* A page added to what was listed before it.                              *)
LEMMA PageAdded ==
  ASSUME NEW E, \A e \in E : e.id \in Nat, NEW s \in Seq(E), NEW items \in Seq(E),
         NEW token \in Nat, NEW next \in Nat, token = 0 => s = <<>>, next # 0 => next > token,
         Ascending(s), UpTo(s, token), Ascending(items), UpTo(items, next),
         \A i \in DOMAIN items : items[i].id > token
  PROVE  /\ s \o items \in Seq(E)
         /\ Ascending(s \o items)
         /\ UpTo(s \o items, next)
         /\ \A i \in DOMAIN s : \E j \in DOMAIN (s \o items) : (s \o items)[j].id = s[i].id
         /\ \A i \in DOMAIN items : \E j \in DOMAIN (s \o items) : (s \o items)[j].id = items[i].id
<1> DEFINE m == Len(s)
           n == Len(items)
           both == s \o items
<1>1. /\ m \in Nat /\ DOMAIN s = 1..m /\ \A i \in 1..m : s[i] \in E /\ s[i].id \in Nat
      /\ n \in Nat /\ DOMAIN items = 1..n /\ \A i \in 1..n : items[i] \in E /\ items[i].id \in Nat
  BY LenProperties, ElementOfSeq
<1>2. /\ both \in Seq(E) /\ Len(both) = m + n
      /\ \A i \in 1..(m + n) : both[i] = IF i <= m THEN s[i] ELSE items[i - m]
  BY ConcatProperties
<1>3. DOMAIN both = 1..(m + n)
  BY <1>2, LenProperties
<1>4. m # 0 => token # 0
  BY EmptySeq
<1> HIDE DEF m, n, both
<1>5. ASSUME NEW i \in 1..(m + n), i <= m
       PROVE  i \in 1..m /\ both[i] = s[i]
  BY <1>1, <1>2, <1>5
<1>6. ASSUME NEW i \in 1..(m + n), i > m
       PROVE  i - m \in 1..n /\ both[i] = items[i - m]
  BY <1>1, <1>2, <1>6
<1>7. ASSUME NEW i \in 1..(m + n), NEW j \in 1..(m + n), i < j
      PROVE  both[i].id < both[j].id
  <2>1. CASE j <= m
    <3>1. i \in 1..m /\ j \in 1..m /\ both[i] = s[i] /\ both[j] = s[j]
      BY <1>1, <1>7, <1>5, <2>1
    <3>2. QED
      BY <1>1, <1>7, <3>1 DEF Ascending
  <2>2. CASE i > m
    <3>1. i - m \in 1..n /\ j - m \in 1..n /\ i - m < j - m
      BY <1>1, <1>7, <2>2
    <3>2. items[i - m].id < items[j - m].id
      BY <1>1, <3>1 DEF Ascending
    <3>3. both[i] = items[i - m] /\ both[j] = items[j - m]
      BY <1>1, <1>7, <1>6, <2>2
    <3>4. QED
      BY <3>2, <3>3
  <2>3. CASE i <= m /\ j > m
    <3>1. i \in 1..m /\ j - m \in 1..n /\ m # 0 /\ both[i] = s[i] /\ both[j] = items[j - m]
      BY <1>1, <1>5, <1>6, <2>3
    <3>2. s[i].id <= token /\ items[j - m].id > token
      BY <1>1, <1>4, <3>1 DEF UpTo
    <3>3. QED
      BY <1>1, <3>1, <3>2
  <2>4. QED
    BY <1>1, <2>1, <2>2, <2>3
<1>8. ASSUME next # 0, NEW i \in 1..(m + n)
      PROVE  both[i].id <= next
  <2>1. CASE i <= m
    <3>1. i \in 1..m /\ both[i] = s[i] /\ m # 0
      BY <1>1, <1>5, <2>1
    <3>2. s[i].id <= token
      BY <1>1, <1>4, <3>1 DEF UpTo
    <3>3. QED
      BY <1>1, <1>8, <3>1, <3>2
  <2>2. CASE i > m
    <3>1. i - m \in 1..n /\ both[i] = items[i - m]
      BY <1>6, <2>2
    <3>2. QED
      BY <1>1, <1>8, <3>1 DEF UpTo
  <2>3. QED
    BY <1>1, <2>1, <2>2
<1>9. \A i \in 1..m : i \in 1..(m + n) /\ both[i] = s[i]
  BY <1>1, <1>2
<1>10. ASSUME NEW i \in 1..n
      PROVE  i + m \in 1..(m + n) /\ both[i + m] = items[i]
  <2>1. i + m \in 1..(m + n) /\ ~(i + m <= m) /\ (i + m) - m = i
    BY <1>1
  <2>2. QED
    BY <2>1, <1>2
<1>11. Ascending(both) /\ UpTo(both, next)
  BY <1>3, <1>7, <1>8 DEF Ascending, UpTo
<1>12. QED
  BY <1>1, <1>2, <1>3, <1>9, <1>10, <1>11 DEF both

-----------------------------------------------------------------------------
(***************************************************************************)
(* One lemma per step.                                                     *)
(***************************************************************************)

LEMMA ConstantFacts ==
  ASSUME CatalogAssumption
  PROVE  /\ Tables \subseteq Nat \ {0} /\ Columns \subseteq Nat \ {0} /\ PageSize \in Nat
         /\ {Unborn, Gone} \cap TableNames = {} /\ {Unborn, Gone} \cap ColumnNames = {}
         /\ ColumnNames \subseteq Names
BY DEF CatalogAssumption, Names

LEMMA EntryFacts ==
  ASSUME NEW E, NEW s \in Seq(E)
  PROVE  Len(s) \in Nat /\ DOMAIN s = 1..Len(s) /\ \A i \in DOMAIN s : s[i] \in E
BY LenProperties, ElementOfSeq

LEMMA SequenceFacts ==
  ASSUME CatalogTypes
  PROVE  /\ Len(page) \in Nat /\ DOMAIN page = 1..Len(page)
         /\ \A i \in DOMAIN page : page[i].id \in Tables /\ page[i].name \in TableNames
         /\ Len(all) \in Nat /\ DOMAIN all = 1..Len(all)
         /\ \A i \in DOMAIN all : all[i].id \in Columns /\ all[i].name \in ColumnNames
         /\ Len(loaded) \in Nat /\ DOMAIN loaded = 1..Len(loaded)
         /\ \A i \in DOMAIN loaded :
              /\ loaded[i].id \in Tables /\ loaded[i].name \in TableNames
              /\ loaded[i].columns \in Seq(ColumnEntries)
<1>1. Len(page) \in Nat /\ DOMAIN page = 1..Len(page) /\ \A i \in DOMAIN page : page[i] \in TableEntries
  BY EntryFacts DEF CatalogTypes
<1>2. Len(all) \in Nat /\ DOMAIN all = 1..Len(all) /\ \A i \in DOMAIN all : all[i] \in ColumnItems
  BY EntryFacts DEF CatalogTypes
<1>3. /\ Len(loaded) \in Nat /\ DOMAIN loaded = 1..Len(loaded)
      /\ \A i \in DOMAIN loaded : loaded[i] \in LoadedTables
  BY EntryFacts DEF CatalogTypes
<1>4. QED
  BY <1>1, <1>2, <1>3 DEF TableEntries, ColumnItems, LoadedTables

(* A table stays listed with its columns, if no column becomes steady.     *)
LEMMA StillListed ==
  ASSUME NEW i \in DOMAIN loaded', ColumnsListed(loaded'[i].id, loaded'[i].columns),
         metadata' = metadata,
         \A c \in Columns : SteadyColumn(loaded[i].id, c)' => SteadyColumn(loaded'[i].id, c)
  PROVE  ColumnsListed(loaded[i].id, loaded[i].columns)'
BY DEF ColumnsListed

(* A step that leaves the load alone, and what is steady after it as it    *)
(* was.                                                                    *)
LEMMA DocumentSide ==
  ASSUME CatalogInv, UNCHANGED <<metadata, load>>,
         tableName' \in [Tables -> TableNames \cup {Unborn, Gone}],
         columnName' \in [Tables -> [Columns -> ColumnNames \cup {Unborn, Gone}]],
         \A t \in Tables : SteadyTable(t)' => SteadyTable(t) /\ tableName'[t] = tableName[t],
         \A t \in Tables : \A c \in Columns : SteadyColumn(t, c)' => SteadyColumn(t, c)
  PROVE  CatalogInv'
<1>1. /\ pc' = pc /\ tableToken' = tableToken /\ page' = page /\ columnToken' = columnToken
      /\ all' = all /\ loaded' = loaded /\ metadata' = metadata
  BY DEF load
<1>2. CatalogTypes'
  BY <1>1 DEF CatalogInv, CatalogTypes
<1>3. Stages' /\ TableOrder'
  BY <1>1 DEF CatalogInv, Stages, TableOrder, Ascending, UpTo
<1>4. TablesRead'
  BY <1>1 DEF CatalogInv, TablesRead, Passed
<1>5. ColumnsRead'
  <2>1. Ascending(all)' /\ UpTo(all, columnToken)'
    BY <1>1 DEF CatalogInv, ColumnsRead, Ascending, UpTo
  <2>2. pc = "columns" => Head(page).id \in Tables
    <3>1. pc = "columns" => Head(page) \in TableEntries
      BY HeadTailProperties DEF CatalogInv, CatalogTypes, Stages
    <3>2. QED
      BY <3>1 DEF TableEntries
  <2>3. ASSUME pc = "columns", NEW c \in Columns, SteadyColumn(Head(page).id, c)', c <= columnToken
        PROVE  \E i \in DOMAIN all : all[i].id = c
    <3>1. SteadyColumn(Head(page).id, c)
      BY <1>1, <2>2, <2>3 DEF SteadyColumn
    <3>2. QED
      BY <2>3, <3>1 DEF CatalogInv, ColumnsRead
  <2>4. QED
    BY <1>1, <2>1, <2>3 DEF ColumnsRead
<1>6. ColumnNamesDistinct'
  BY <1>1 DEF CatalogInv, ColumnNamesDistinct, NamesOf
<1>7. SteadyColumnsListed'
  <2>1. \A i \in DOMAIN loaded : loaded[i].id \in Tables
    BY SequenceFacts DEF CatalogInv
  <2>2. ASSUME NEW i \in DOMAIN loaded'
        PROVE  ColumnsListed(loaded[i].id, loaded[i].columns)'
    <3>1. ColumnsListed(loaded'[i].id, loaded'[i].columns)
      BY <1>1 DEF CatalogInv, SteadyColumnsListed
    <3>2. \A c \in Columns : SteadyColumn(loaded[i].id, c)' => SteadyColumn(loaded'[i].id, c)
      BY <1>1, <2>1
    <3>3. QED
      BY <1>1, <3>1, <3>2, StillListed
  <2>3. QED
    BY <1>1, <2>2 DEF SteadyColumnsListed
<1>8. QED
  BY <1>2, <1>3, <1>4, <1>5, <1>6, <1>7 DEF CatalogInv

(* Other editors.                                                          *)
LEMMA EditKept ==
  ASSUME CatalogAssumption, CatalogInv, NEW t \in Tables,
         \/ \E name \in TableNames : NameTable(t, name)
         \/ DropTable(t)
         \/ \E c \in Columns : DropColumn(t, c) \/ \E name \in ColumnNames : NameColumn(t, c, name)
  PROVE  CatalogInv'
<1> USE DEF CatalogInv, CatalogTypes
<1>1. ASSUME NEW name \in TableNames \cup {Gone}, UNCHANGED <<metadata, load, columnName>>,
             tableName' = [tableName EXCEPT ![t] = name], touched' = touched \cup {<<t, 0>>}
      PROVE  CatalogInv'
  <2>1. tableName' \in [Tables -> TableNames \cup {Unborn, Gone}]
    BY <1>1
  <2>2. ASSUME NEW u \in Tables, SteadyTable(u)'
        PROVE  SteadyTable(u) /\ tableName'[u] = tableName[u]
    <3>1. <<u, 0>> \notin touched /\ u # t
      BY <1>1, <2>2 DEF SteadyTable
    <3>2. tableName'[u] = tableName[u]
      BY <1>1, <3>1
    <3>3. QED
      BY <2>2, <3>1, <3>2 DEF SteadyTable
  <2>3. \A u \in Tables : \A c \in Columns : SteadyColumn(u, c)' => SteadyColumn(u, c)
    BY <1>1 DEF SteadyColumn
  <2>4. QED
    BY <1>1, <2>1, <2>2, <2>3, DocumentSide
<1>2. ASSUME NEW c \in Columns, NEW name \in ColumnNames \cup {Gone},
             UNCHANGED <<metadata, load, tableName>>,
             columnName' = [columnName EXCEPT ![t][c] = name], touched' = touched \cup {<<t, c>>}
      PROVE  CatalogInv'
  <2>1. columnName' \in [Tables -> [Columns -> ColumnNames \cup {Unborn, Gone}]]
    BY <1>2
  <2>2. ASSUME NEW u \in Tables, NEW d \in Columns, SteadyColumn(u, d)'
        PROVE  SteadyColumn(u, d)
    <3>1. <<u, d>> \notin touched /\ <<u, d>> # <<t, c>>
      BY <1>2, <2>2 DEF SteadyColumn
    <3>2. columnName'[u][d] = columnName[u][d]
      BY <1>2, <3>1
    <3>3. QED
      BY <2>2, <3>1, <3>2 DEF SteadyColumn
  <2>3. \A u \in Tables : SteadyTable(u)' => SteadyTable(u) /\ tableName'[u] = tableName[u]
    BY <1>2 DEF SteadyTable
  <2>4. QED
    BY <1>2, <2>1, <2>2, <2>3, DocumentSide
<1>3. QED
  BY <1>1, <1>2 DEF NameTable, DropTable, NameColumn, DropColumn, Edit

(* What is said of loaded stays true as long as nothing changes it.        *)
LEMMA LoadedKept ==
  ASSUME CatalogInv, UNCHANGED <<document, metadata, loaded>>
  PROVE  ColumnNamesDistinct' /\ SteadyColumnsListed'
<1>1. /\ loaded' = loaded /\ metadata' = metadata
      /\ columnName' = columnName /\ touched' = touched
  BY DEF document
<1>2. ColumnNamesDistinct'
  BY <1>1 DEF CatalogInv, ColumnNamesDistinct, NamesOf
<1>3. SteadyColumnsListed'
  <2>1. ASSUME NEW i \in DOMAIN loaded'
        PROVE  ColumnsListed(loaded[i].id, loaded[i].columns)'
    <3>1. ColumnsListed(loaded'[i].id, loaded'[i].columns)
      BY <1>1 DEF CatalogInv, SteadyColumnsListed
    <3>2. \A c \in Columns : SteadyColumn(loaded[i].id, c)' => SteadyColumn(loaded'[i].id, c)
      BY <1>1 DEF SteadyColumn
    <3>3. QED
      BY <1>1, <3>1, <3>2, StillListed
  <2>2. QED
    BY <2>1 DEF SteadyColumnsListed
<1>4. QED
  BY <1>2, <1>3

LEMMA ListTablesKept ==
  ASSUME CatalogAssumption, CatalogInv, ListTables
  PROVE  CatalogInv'
<1>1. CatalogTypes /\ Stages /\ TableOrder /\ TablesRead
  BY DEF CatalogInv
<1>2. PICK p \in Pages(tableName, tableToken) :
        page' = Items(tableName, p) /\ tableToken' = NextToken(tableName, tableToken, p)
  BY DEF ListTables
<1>3. /\ pc = "tables" /\ pc' = IF page' = <<>> THEN AfterPage(tableToken') ELSE "columns"
      /\ columnToken' = columnToken /\ all' = all /\ loaded' = loaded /\ metadata' = metadata
      /\ tableName' = tableName /\ columnName' = columnName /\ touched' = touched
  BY DEF ListTables, document
<1>4. page = <<>> /\ columnToken = 0 /\ all = <<>>
  BY <1>1, <1>3 DEF Stages
<1>5. DOMAIN tableName = Tables /\ Tables \subseteq Nat /\ tableToken \in Nat
      /\ (\A k \in DOMAIN tableName : tableName[k] \in TableNames \cup {Unborn, Gone})
      /\ TableNames \cap {Unborn, Gone} = {} /\ PageSize \in Nat
  BY <1>1, ConstantFacts DEF CatalogTypes
<1>6. IsPage(page', tableToken', tableName, tableToken, TableNames)
  <2>1. /\ page' = Items(tableName, p) /\ tableToken' = NextToken(tableName, tableToken, p)
        /\ p \in Pages(tableName, tableToken)
    BY <1>2
  <2>2. DOMAIN tableName \subseteq Nat /\ tableToken \in Nat
    BY <1>5
  <2>3. IsPage(Items(tableName, p), NextToken(tableName, tableToken, p), tableName, tableToken, TableNames)
    BY <1>5, <2>1, <2>2, PageFacts
  <2>4. QED
    BY <2>1, <2>3
<1>7. /\ pc' \in {"columns", "tables", "done"} /\ (pc' = "columns" <=> page' # <<>>)
      /\ (pc' = "tables" => tableToken' # 0) /\ (pc' = "done" => tableToken' = 0)
  BY <1>3 DEF AfterPage
<1>8. CatalogTypes'
  <2>1. [id : DOMAIN tableName, name : TableNames] = TableEntries
    BY <1>5 DEF TableEntries
  <2>2. page' \in Seq(TableEntries) /\ tableToken' \in Nat
    BY <1>6, <2>1 DEF IsPage
  <2>3. QED
    BY <1>1, <1>3, <1>7, <2>2 DEF CatalogTypes
<1>9. Stages'
  BY <1>3, <1>4, <1>7 DEF Stages
<1>10. /\ tableToken = 0 => DOMAIN loaded = {}
       /\ tableToken # 0 => \A i \in DOMAIN loaded : loaded[i].id <= tableToken
       /\ \A i \in DOMAIN loaded : loaded[i].id \in Nat
       /\ \A i \in DOMAIN page' : page'[i].id \in Nat
  <2>1. loaded = <<>> => DOMAIN loaded = {}
    OBVIOUS
  <2>2. tableToken = 0 => loaded = <<>>
    BY <1>1, <1>3 DEF Stages
  <2>3. tableToken # 0 => \A i \in DOMAIN loaded : loaded[i].id <= tableToken
    BY <1>1 DEF TableOrder, UpTo
  <2>4. \A i \in DOMAIN loaded : loaded[i].id \in Nat
    BY <1>1, <1>5, SequenceFacts
  <2>5. \A i \in DOMAIN page' : page'[i] \in TableEntries
    BY <1>8, EntryFacts DEF CatalogTypes
  <2>6. \A i \in DOMAIN page' : page'[i].id \in Nat
    BY <1>5, <2>5 DEF TableEntries
  <2>7. QED
    BY <2>1, <2>2, <2>3, <2>4, <2>6
<1>11. TableOrder'
  <2>1. Ascending(loaded)'
    BY <1>1, <1>3 DEF TableOrder, Ascending
  <2>2. UpTo(loaded, tableToken)'
    BY <1>3, <1>5, <1>6, <1>10 DEF UpTo, IsPage
  <2>3. \A i \in DOMAIN loaded : \A j \in DOMAIN page' : loaded[i].id < page'[j].id
    BY <1>5, <1>6, <1>10 DEF IsPage
  <2>4. Ascending(page)' /\ UpTo(page, tableToken)'
    BY <1>6 DEF IsPage, Ascending, UpTo
  <2>5. QED
    BY <1>3, <2>1, <2>2, <2>3, <2>4 DEF TableOrder
<1>12. TablesRead'
  <2>1. SUFFICES ASSUME NEW t \in Tables, SteadyTable(t), Passed(t)'
                 PROVE  \/ \E i \in DOMAIN loaded : loaded[i].id = t /\ loaded[i].name = tableName[t]
                        \/ \E i \in DOMAIN page' : page'[i].id = t /\ page'[i].name = tableName[t]
    BY <1>3 DEF TablesRead, SteadyTable
  <2>2. CASE t > tableToken
    <3>1. tableToken' = 0 \/ t <= tableToken'
      BY <2>1 DEF Passed
    <3>2. PICK i \in DOMAIN page' : page'[i].id = t
      BY <1>5, <1>6, <2>1, <2>2, <3>1 DEF SteadyTable, IsPage
    <3>3. QED
      BY <1>6, <3>2 DEF IsPage
  <2>3. CASE t <= tableToken
    <3>1. Passed(t)
      BY <1>5, <2>3, ConstantFacts DEF Passed
    <3>2. QED
      BY <1>1, <1>3, <1>4, <2>1, <3>1 DEF TablesRead
  <2>4. QED
    BY <1>5, <2>2, <2>3
<1>13. ColumnsRead'
  <2>1. DOMAIN all' = {} /\ columnToken' = 0
    BY <1>3, <1>4
  <2>2. \A c \in Columns : ~(c <= 0)
    BY ConstantFacts
  <2>3. QED
    BY <2>1, <2>2 DEF ColumnsRead, Ascending, UpTo
<1>14. QED
  BY <1>1, <1>3, <1>8, <1>9, <1>11, <1>12, <1>13, LoadedKept DEF CatalogInv, document, ListTables

(* The columns of table t listed so far, up to the next page token.        *)
ColumnsUpTo(columns, next, t) ==
  /\ columns \in Seq(ColumnItems)
  /\ Ascending(columns) /\ UpTo(columns, next)
  /\ next \in Nat
  /\ \A c \in Columns : SteadyColumn(t, c) /\ (next = 0 \/ c <= next) =>
       \E i \in DOMAIN columns : columns[i].id = c

LEMMA ListedColumns ==
  ASSUME CatalogAssumption, CatalogInv, pc = "columns",
         NEW p \in Pages(columnName[Head(page).id], columnToken)
  PROVE  /\ Head(page) \in TableEntries
         /\ ColumnsUpTo(all \o Items(columnName[Head(page).id], p),
                        NextToken(columnName[Head(page).id], columnToken, p), Head(page).id)
<1> DEFINE t == Head(page).id
           names == columnName[t]
           items == Items(names, p)
           next == NextToken(names, columnToken, p)
<1>1. CatalogTypes /\ Stages /\ ColumnsRead
  BY DEF CatalogInv
<1>2. Head(page) \in TableEntries
  BY <1>1, HeadTailProperties DEF CatalogTypes, Stages
<1>3. t \in Tables
  BY <1>2 DEF TableEntries
<1>4. DOMAIN names = Columns /\ \A c \in Columns : names[c] \in ColumnNames \cup {Unborn, Gone}
  <2> HIDE DEF t
  <2>1. names \in [Columns -> ColumnNames \cup {Unborn, Gone}]
    BY <1>1, <1>3 DEF CatalogTypes
  <2>2. QED
    BY <2>1
<1>5. /\ Columns \subseteq Nat /\ columnToken \in Nat /\ PageSize \in Nat
      /\ ColumnNames \cap {Unborn, Gone} = {}
  BY <1>1, ConstantFacts DEF CatalogTypes
<1>6. p \in Pages(names, columnToken)
  OBVIOUS
<1>7. \A c \in Columns : SteadyColumn(t, c) => names[c] \in ColumnNames
  BY DEF SteadyColumn
<1>8. ASSUME NEW c \in Columns, SteadyColumn(t, c), c <= columnToken
      PROVE  \E i \in DOMAIN all : all[i].id = c
  BY <1>1, <1>8 DEF ColumnsRead
<1> HIDE DEF t, names
<1>9. IsPage(items, next, names, columnToken, ColumnNames)
  BY <1>4, <1>5, <1>6, PageFacts
<1> HIDE DEF items, next
<1>10. items \in Seq(ColumnItems) /\ next \in Nat
  <2>1. [id : DOMAIN names, name : ColumnNames] = ColumnItems
    BY <1>4 DEF ColumnItems
  <2>2. QED
    BY <1>9, <2>1 DEF IsPage
<1>11. /\ all \o items \in Seq(ColumnItems)
       /\ Ascending(all \o items)
       /\ UpTo(all \o items, next)
       /\ \A i \in DOMAIN all : \E j \in DOMAIN (all \o items) : (all \o items)[j].id = all[i].id
       /\ \A i \in DOMAIN items : \E j \in DOMAIN (all \o items) : (all \o items)[j].id = items[i].id
  <2>1. \A e \in ColumnItems : e.id \in Nat
    BY <1>5 DEF ColumnItems
  <2>2. all \in Seq(ColumnItems) /\ Ascending(all) /\ UpTo(all, columnToken)
        /\ (columnToken = 0 => all = <<>>)
    BY <1>1 DEF CatalogTypes, ColumnsRead, Stages
  <2>3. /\ Ascending(items) /\ UpTo(items, next) /\ (next # 0 => next > columnToken)
        /\ \A i \in DOMAIN items : items[i].id > columnToken
    BY <1>9 DEF IsPage
  <2>4. QED
    <3>1. items \in Seq(ColumnItems) /\ next \in Nat /\ columnToken \in Nat
      BY <1>5, <1>10
    <3>2. QED
      BY <2>1, <2>2, <2>3, <3>1, PageAdded
<1>12. ASSUME NEW c \in Columns, SteadyColumn(t, c), next = 0 \/ c <= next
       PROVE  \E i \in DOMAIN (all \o items) : (all \o items)[i].id = c
  <2>1. CASE c <= columnToken
    BY <1>8, <1>11, <1>12, <2>1
  <2>2. CASE c > columnToken
    <3>1. \E i \in DOMAIN items : items[i].id = c
      BY <1>4, <1>7, <1>9, <1>12, <2>2 DEF IsPage
    <3>2. QED
      BY <1>11, <3>1
  <2>3. c <= columnToken \/ c > columnToken
    BY <1>5
  <2>4. QED
    BY <2>1, <2>2, <2>3
<1>13. ColumnsUpTo(all \o items, next, t)
  BY <1>10, <1>11, <1>12 DEF ColumnsUpTo
<1>14. QED
  BY <1>2, <1>13 DEF t, names, items, next

(* Names that are pairwise different are as many as the columns.           *)
LEMMA DistinctNames ==
  ASSUME NEW s, NEW n \in Nat, DOMAIN s = 1..n,
         \A i \in 1..n : \A j \in 1..(i - 1) : s[j].name # s[i].name
  PROVE  Cardinality(NamesOf(s)) = n
<1> DEFINE f == [i \in 1..n |-> s[i].name]
<1>1. f \in Surjection(1..n, NamesOf(s))
  BY DEF Surjection, NamesOf
<1>2. \A i, j \in 1..n : f[i] = f[j] => i = j
  <2>1. \A i, j \in 1..n : i = j \/ i \in 1..(j - 1) \/ j \in 1..(i - 1)
    OBVIOUS
  <2>2. QED
    BY <2>1
<1>3. f \in Injection(1..n, NamesOf(s))
  <2>1. f \in [1..n -> NamesOf(s)]
    BY <1>1 DEF Surjection
  <2> HIDE DEF f
  <2>2. QED
    BY <1>2, <2>1 DEF Injection, IsInjective
<1>4. IsFiniteSet(1..n) /\ Cardinality(1..n) = n
  BY FS_Interval
<1> HIDE DEF f
<1>5. QED
  BY <1>1, <1>3, <1>4, FS_Surjection

(* The row metadata comes after the columns of the document.               *)
LEMMA WithRowMetadata ==
  ASSUME CatalogAssumption, NEW columns \in Seq(ColumnItems)
  PROVE  /\ columns \in Seq(ColumnEntries)
         /\ columns \o RowMetadata \in Seq(ColumnEntries)
         /\ Len(columns \o RowMetadata) = Len(columns) + 2
         /\ \A i \in 1..Len(columns) : (columns \o RowMetadata)[i] = columns[i]
         /\ (columns \o RowMetadata)[Len(columns) + 1].id = CreatedAt
         /\ (columns \o RowMetadata)[Len(columns) + 2].id = UpdatedAt
<1>1. columns \in Seq(ColumnEntries)
  <2>1. ColumnItems \subseteq ColumnEntries
    BY ConstantFacts DEF ColumnItems, ColumnEntries, ColumnKeys
  <2> HIDE DEF ColumnItems, ColumnEntries
  <2>2. QED
    BY <2>1
<1>2. /\ RowMetadata \in Seq(ColumnEntries) /\ Len(RowMetadata) = 2
      /\ RowMetadata[1].id = CreatedAt /\ RowMetadata[2].id = UpdatedAt
  <2>1. <<>> \in Seq(Nat)
    BY EmptySeq
  <2>2. /\ [id |-> CreatedAt, name |-> Word("createdAt")] \in ColumnEntries
        /\ [id |-> UpdatedAt, name |-> Word("updatedAt")] \in ColumnEntries
    BY <2>1 DEF ColumnEntries, ColumnKeys, Names, Word
  <2> HIDE DEF ColumnEntries
  <2>3. RowMetadata \in Seq(ColumnEntries)
    BY <2>2 DEF RowMetadata
  <2>4. QED
    BY <2>3 DEF RowMetadata
<1>3. Len(columns) \in Nat
  BY LenProperties
<1> DEFINE both == columns \o RowMetadata
<1>4. both \in Seq(ColumnEntries) /\ Len(both) = Len(columns) + Len(RowMetadata)
  BY <1>1, <1>2, ConcatProperties
<1>5. \A i \in 1..(Len(columns) + Len(RowMetadata)) :
        both[i] = IF i <= Len(columns) THEN columns[i] ELSE RowMetadata[i - Len(columns)]
  BY <1>1, <1>2, ConcatProperties
<1> HIDE DEF both
<1>6. \A i \in 1..Len(columns) : both[i] = columns[i]
  BY <1>2, <1>3, <1>5
<1>7. both[Len(columns) + 1] = RowMetadata[1] /\ both[Len(columns) + 2] = RowMetadata[2]
  BY <1>2, <1>3, <1>5
<1>8. QED
  BY <1>1, <1>2, <1>4, <1>6, <1>7 DEF both

(* What a table is stored with, once its last page of columns is there.    *)
LEMMA FinishedTable ==
  ASSUME CatalogAssumption, metadata \in BOOLEAN, NEW t \in Tables,
         NEW columns, ColumnsUpTo(columns, 0, t)
  PROVE  /\ TableColumns(columns) \in Seq(ColumnEntries)
         /\ Unnamed \notin NamesOf(TableColumns(columns))
         /\ Cardinality(NamesOf(TableColumns(columns))) = Len(TableColumns(columns))
         /\ ColumnsListed(t, TableColumns(columns))
<1> DEFINE given == IF metadata THEN columns \o RowMetadata ELSE columns
           named == PrepareColumns(given)
           n == Len(columns)
<1>1. columns \in Seq(ColumnItems)
  BY DEF ColumnsUpTo
<1>2. n \in Nat /\ DOMAIN columns = 1..n /\ \A i \in 1..n : columns[i].id \in Columns
  <2>1. \A i \in DOMAIN columns : columns[i] \in ColumnItems
    BY <1>1, EntryFacts
  <2>2. n \in Nat /\ DOMAIN columns = 1..n
    BY <1>1, EntryFacts
  <2>3. QED
    BY <2>1, <2>2 DEF ColumnItems
<1>3. named = TableColumns(columns)
  BY DEF TableColumns
<1>4. /\ given \in Seq(ColumnEntries)
      /\ Len(given) = n + (IF metadata THEN 2 ELSE 0)
      /\ \A i \in 1..n : given[i] = columns[i]
      /\ metadata => given[n + 1].id = CreatedAt /\ given[n + 2].id = UpdatedAt
  <2>1. CASE metadata
    BY <1>1, <1>2, <2>1, WithRowMetadata
  <2>2. CASE ~metadata
    BY <1>1, <1>2, <2>2, WithRowMetadata
  <2>3. QED
    BY <2>1, <2>2
<1> HIDE DEF given
<1>5. /\ named \in Seq(ColumnEntries)
      /\ Len(named) = Len(given)
      /\ \A i \in 1..Len(given) :
           /\ named[i].id = given[i].id
           /\ named[i].name # Unnamed
           /\ \A j \in 1..(i - 1) : named[j].name # named[i].name
  <2>1. given \in Seq([id : ColumnKeys, name : Names])
    BY <1>4 DEF ColumnEntries
  <2>2. QED
    BY <2>1, PreparedColumns DEF ColumnEntries
<1> HIDE DEF named, n
<1>6. Len(named) \in Nat /\ DOMAIN named = 1..Len(named)
  BY <1>5, LenProperties
<1>7. Unnamed \notin NamesOf(named)
  BY <1>5, <1>6 DEF NamesOf
<1>8. Cardinality(NamesOf(named)) = Len(named)
  BY <1>5, <1>6, DistinctNames
<1>9. ColumnsListed(t, named)
  <2>1. Len(named) - (IF metadata THEN 2 ELSE 0) = n
    BY <1>2, <1>4, <1>5
  <2>2. \A j \in 1..n : named[j].id = columns[j].id
    BY <1>2, <1>4, <1>5
  <2>3. metadata => named[n + 1].id = CreatedAt /\ named[n + 2].id = UpdatedAt
    BY <1>2, <1>4, <1>5
  <2>4. \A j, k \in 1..n : j < k => columns[j].id < columns[k].id
    BY <1>2 DEF ColumnsUpTo, Ascending
  <2>5. \A c \in Columns : SteadyColumn(t, c) => \E j \in 1..n : columns[j].id = c
    BY <1>2 DEF ColumnsUpTo
  <2>6. QED
    BY <1>2, <2>1, <2>2, <2>3, <2>4, <2>5 DEF ColumnsListed
<1>10. QED
  BY <1>3, <1>5, <1>7, <1>8, <1>9

(* A page of columns that is not the last.                                 *)
LEMMA MoreColumnsKept ==
  ASSUME CatalogAssumption, CatalogInv, pc = "columns", columnToken' # 0,
         ColumnsUpTo(all', columnToken', Head(page).id),
         UNCHANGED <<document, metadata, pc, tableToken, page, loaded>>
  PROVE  CatalogInv'
<1>1. CatalogTypes /\ Stages /\ TableOrder /\ TablesRead
  BY DEF CatalogInv
<1>2. /\ pc' = pc /\ tableToken' = tableToken /\ page' = page /\ loaded' = loaded
      /\ metadata' = metadata
      /\ tableName' = tableName /\ columnName' = columnName /\ touched' = touched
  BY DEF document
<1>3. CatalogTypes'
  BY <1>1, <1>2 DEF CatalogTypes, ColumnsUpTo
<1>4. Stages'
  BY <1>1, <1>2 DEF Stages
<1>5. TableOrder'
  BY <1>1, <1>2 DEF TableOrder, Ascending, UpTo
<1>6. TablesRead'
  BY <1>1, <1>2 DEF TablesRead, SteadyTable, Passed
<1>7. ColumnsRead'
  <2>1. Ascending(all)' /\ UpTo(all, columnToken)'
    BY DEF ColumnsUpTo, Ascending, UpTo
  <2>2. Head(page)' = Head(page)
    BY <1>2
  <2>3. \A c \in Columns : SteadyColumn(Head(page).id, c)' => SteadyColumn(Head(page).id, c)
    BY <1>2 DEF SteadyColumn
  <2>4. QED
    BY <2>1, <2>2, <2>3 DEF ColumnsRead, ColumnsUpTo
<1>8. QED
  BY <1>1, <1>3, <1>4, <1>5, <1>6, <1>7, LoadedKept DEF CatalogInv

(* The table that is finished moves from page to loaded.                   *)
LEMMA TableMoves ==
  ASSUME CatalogAssumption, CatalogTypes, page # <<>>, NEW e \in LoadedTables,
         loaded' = Append(loaded, e), page' = Tail(page)
  PROVE  /\ loaded' \in Seq(LoadedTables) /\ page' \in Seq(TableEntries)
         /\ page[1] = Head(page) /\ 1 \in DOMAIN page
         /\ Len(loaded) \in Nat /\ Len(page) \in Nat /\ Len(page) > 0
         /\ DOMAIN loaded = 1..Len(loaded) /\ DOMAIN loaded' = 1..(Len(loaded) + 1)
         /\ DOMAIN page = 1..Len(page) /\ DOMAIN page' = 1..(Len(page) - 1)
         /\ \A i \in DOMAIN loaded : loaded'[i] = loaded[i]
         /\ loaded'[Len(loaded) + 1] = e
         /\ \A i \in DOMAIN page' : page'[i] = page[i + 1]
         /\ \A i \in DOMAIN loaded : loaded[i].id \in Nat
         /\ \A i \in DOMAIN page : page[i].id \in Nat
<1>1. /\ Len(page) \in Nat /\ DOMAIN page = 1..Len(page)
      /\ Len(loaded) \in Nat /\ DOMAIN loaded = 1..Len(loaded)
      /\ \A i \in DOMAIN loaded : loaded[i].id \in Nat
      /\ \A i \in DOMAIN page : page[i].id \in Nat
  BY SequenceFacts, ConstantFacts
<1>2. /\ loaded' \in Seq(LoadedTables) /\ Len(loaded') = Len(loaded) + 1
      /\ \A i \in 1..Len(loaded) : loaded'[i] = loaded[i]
      /\ loaded'[Len(loaded) + 1] = e
  BY AppendProperties DEF CatalogTypes
<1>3. /\ page' \in Seq(TableEntries) /\ Len(page') = Len(page) - 1
      /\ \A i \in 1..Len(page') : page'[i] = page[i + 1]
  BY HeadTailProperties DEF CatalogTypes
<1>4. DOMAIN loaded' = 1..(Len(loaded) + 1) /\ DOMAIN page' = 1..(Len(page) - 1)
  BY <1>2, <1>3, LenProperties
<1>5. Len(page) > 0 /\ page[1] = Head(page) /\ 1 \in DOMAIN page
  <2>1. Len(page) \in Nat \ {0}
    BY EmptySeq DEF CatalogTypes
  <2>2. QED
    BY <1>1, <2>1
<1>6. QED
  BY <1>1, <1>2, <1>3, <1>4, <1>5

LEMMA TableFinishedKept ==
  ASSUME CatalogAssumption, CatalogInv, pc = "columns", columnToken' = 0,
         NEW columns, ColumnsUpTo(columns, 0, Head(page).id), Head(page) \in TableEntries,
         FinishTable(columns), UNCHANGED <<document, metadata>>
  PROVE  CatalogInv'
<1> DEFINE e == [id |-> Head(page).id, name |-> Head(page).name, columns |-> TableColumns(columns)]
           m == Len(loaded)
           n == Len(page)
<1>1. CatalogTypes /\ Stages /\ TableOrder /\ TablesRead
      /\ ColumnNamesDistinct /\ SteadyColumnsListed
  BY DEF CatalogInv
<1>2. /\ loaded' = Append(loaded, e) /\ page' = Tail(page) /\ all' = <<>>
      /\ pc' = (IF page' = <<>> THEN AfterPage(tableToken) ELSE "columns")
      /\ tableToken' = tableToken /\ metadata' = metadata
      /\ tableName' = tableName /\ columnName' = columnName /\ touched' = touched
  BY DEF FinishTable, document
<1>3. /\ e.columns \in Seq(ColumnEntries)
      /\ Unnamed \notin NamesOf(e.columns)
      /\ Cardinality(NamesOf(e.columns)) = Len(e.columns)
      /\ ColumnsListed(e.id, e.columns)
  <2>1. metadata \in BOOLEAN /\ Head(page).id \in Tables
    BY <1>1 DEF CatalogTypes, TableEntries
  <2>2. QED
    BY <2>1, FinishedTable
<1>4. e \in LoadedTables /\ e.id = Head(page).id /\ e.name = Head(page).name
  BY <1>3 DEF LoadedTables, TableEntries
<1>5. page # <<>>
  BY <1>1 DEF Stages
<1> HIDE DEF e
<1>6. /\ loaded' \in Seq(LoadedTables) /\ page' \in Seq(TableEntries)
      /\ page[1] = Head(page) /\ 1 \in DOMAIN page
      /\ m \in Nat /\ n \in Nat /\ n > 0
      /\ DOMAIN loaded = 1..m /\ DOMAIN loaded' = 1..(m + 1)
      /\ DOMAIN page = 1..n /\ DOMAIN page' = 1..(n - 1)
      /\ \A i \in 1..m : loaded'[i] = loaded[i]
      /\ loaded'[m + 1] = e
      /\ \A i \in 1..(n - 1) : page'[i] = page[i + 1]
      /\ \A i \in 1..m : loaded[i].id \in Nat
      /\ \A i \in 1..n : page[i].id \in Nat
  BY <1>1, <1>2, <1>4, <1>5, TableMoves
<1> HIDE DEF m, n
<1>7. /\ pc' \in {"columns", "tables", "done"} /\ (pc' = "columns" <=> page' # <<>>)
      /\ (pc' = "tables" => tableToken # 0) /\ (pc' = "done" => tableToken = 0)
  BY <1>2 DEF AfterPage
<1>8. CatalogTypes'
  <2>1. all' \in Seq(ColumnItems)
    BY <1>2, EmptySeq
  <2>2. QED
    BY <1>1, <1>2, <1>6, <1>7, <2>1 DEF CatalogTypes
<1>9. Stages'
  BY <1>2, <1>7 DEF Stages
<1>10. TableOrder'
  <2>1. /\ \A i, j \in 1..m : i < j => loaded[i].id < loaded[j].id
        /\ \A i, j \in 1..n : i < j => page[i].id < page[j].id
        /\ \A i \in 1..m : \A j \in 1..n : loaded[i].id < page[j].id
        /\ tableToken # 0 => \A i \in 1..m : loaded[i].id <= tableToken
        /\ tableToken # 0 => \A i \in 1..n : page[i].id <= tableToken
    BY <1>1, <1>6 DEF TableOrder, Ascending, UpTo
  <2>2. e.id = page[1].id /\ 1 \in 1..n
    BY <1>4, <1>6
  <2>3. \A i \in 1..(m + 1) : i \in 1..m \/ i = m + 1
    BY <1>6
  <2>4. \A i \in 1..(n - 1) : i + 1 \in 1..n /\ 1 < i + 1
    BY <1>6
  <2>5. ASSUME NEW i \in 1..(m + 1), NEW j \in 1..(m + 1), i < j
        PROVE  loaded'[i].id < loaded'[j].id
    <3>1. i \in 1..m
      BY <1>6, <2>5
    <3>2. QED
      BY <1>6, <2>1, <2>2, <2>3, <2>5, <3>1
  <2>6. tableToken # 0 => \A i \in 1..(m + 1) : loaded'[i].id <= tableToken
    BY <1>6, <2>1, <2>2, <2>3
  <2>7. ASSUME NEW i \in 1..(n - 1), NEW j \in 1..(n - 1), i < j
        PROVE  page'[i].id < page'[j].id
    <3>1. i + 1 \in 1..n /\ j + 1 \in 1..n /\ i + 1 < j + 1
      BY <1>6, <2>7
    <3>2. QED
      BY <1>6, <2>1, <3>1
  <2>8. tableToken # 0 => \A i \in 1..(n - 1) : page'[i].id <= tableToken
    BY <1>6, <2>1, <2>4
  <2>9. ASSUME NEW i \in 1..(m + 1), NEW j \in 1..(n - 1)
        PROVE  loaded'[i].id < page'[j].id
    <3>1. j + 1 \in 1..n /\ 1 < j + 1 /\ page'[j] = page[j + 1]
      BY <1>6, <2>4
    <3>2. CASE i \in 1..m
      BY <1>6, <2>1, <3>1, <3>2
    <3>3. CASE i = m + 1
      BY <1>6, <2>1, <2>2, <3>1, <3>3
    <3>4. QED
      BY <2>3, <3>2, <3>3
  <2>10. QED
    BY <1>2, <1>6, <2>5, <2>6, <2>7, <2>8, <2>9 DEF TableOrder, Ascending, UpTo
<1>11. TablesRead'
  <2>1. SUFFICES ASSUME NEW t \in Tables, SteadyTable(t), Passed(t)'
                 PROVE  \/ \E i \in DOMAIN loaded' : loaded'[i].id = t /\ loaded'[i].name = tableName[t]
                        \/ \E i \in DOMAIN page' : page'[i].id = t /\ page'[i].name = tableName[t]
    BY <1>2 DEF TablesRead, SteadyTable
  <2>2. Passed(t)
    BY <1>2, <2>1 DEF Passed
  <2>3. \/ \E i \in 1..m : loaded[i].id = t /\ loaded[i].name = tableName[t]
        \/ \E i \in 1..n : page[i].id = t /\ page[i].name = tableName[t]
    BY <1>1, <1>6, <2>1, <2>2 DEF TablesRead
  <2>4. ASSUME NEW i \in 1..m, loaded[i].id = t, loaded[i].name = tableName[t]
        PROVE  \E j \in 1..(m + 1) : loaded'[j].id = t /\ loaded'[j].name = tableName[t]
    <3>1. i \in 1..(m + 1) /\ loaded'[i] = loaded[i]
      BY <1>6
    <3>2. QED
      BY <2>4, <3>1
  <2>5. ASSUME NEW i \in 1..n, i # 1, page[i].id = t, page[i].name = tableName[t]
        PROVE  \E j \in 1..(n - 1) : page'[j].id = t /\ page'[j].name = tableName[t]
    <3>1. i - 1 \in 1..(n - 1) /\ (i - 1) + 1 = i
      BY <1>6, <2>5
    <3>2. QED
      BY <1>6, <2>5, <3>1
  <2>6. ASSUME page[1].id = t, page[1].name = tableName[t]
        PROVE  \E j \in 1..(m + 1) : loaded'[j].id = t /\ loaded'[j].name = tableName[t]
    <3>1. m + 1 \in 1..(m + 1)
      BY <1>6
    <3>2. QED
      BY <1>4, <1>6, <2>6, <3>1
  <2>7. QED
    BY <1>6, <2>3, <2>4, <2>5, <2>6
<1>12. ColumnsRead'
  <2>1. DOMAIN all' = {} /\ columnToken' = 0
    BY <1>2
  <2>2. \A c \in Columns : ~(c <= 0)
    BY ConstantFacts
  <2>3. QED
    BY <2>1, <2>2 DEF ColumnsRead, Ascending, UpTo
<1>13. ASSUME NEW i \in DOMAIN loaded'
       PROVE  (i \in DOMAIN loaded /\ loaded'[i] = loaded[i]) \/ loaded'[i] = e
  BY <1>6
<1>14. ColumnNamesDistinct'
  <2>1. ASSUME NEW i \in DOMAIN loaded'
        PROVE  /\ Unnamed \notin NamesOf(loaded'[i].columns)
               /\ Cardinality(NamesOf(loaded'[i].columns)) = Len(loaded'[i].columns)
    <3>1. CASE i \in DOMAIN loaded /\ loaded'[i] = loaded[i]
      BY <1>1, <3>1 DEF ColumnNamesDistinct
    <3>2. CASE loaded'[i] = e
      BY <1>3, <3>2
    <3>3. QED
      BY <1>13, <3>1, <3>2
  <2>2. QED
    BY <2>1 DEF ColumnNamesDistinct, NamesOf
<1>15. SteadyColumnsListed'
  <2>1. ASSUME NEW i \in DOMAIN loaded'
        PROVE  ColumnsListed(loaded'[i].id, loaded'[i].columns)
    <3>1. CASE i \in DOMAIN loaded /\ loaded'[i] = loaded[i]
      BY <1>1, <3>1 DEF SteadyColumnsListed
    <3>2. CASE loaded'[i] = e
      BY <1>3, <3>2
    <3>3. QED
      BY <1>13, <3>1, <3>2
  <2>2. ASSUME NEW i \in DOMAIN loaded'
        PROVE  ColumnsListed(loaded[i].id, loaded[i].columns)'
    <3>1. \A c \in Columns : SteadyColumn(loaded[i].id, c)' => SteadyColumn(loaded'[i].id, c)
      BY <1>2 DEF SteadyColumn
    <3>2. QED
      BY <1>2, <2>1, <3>1, StillListed
  <2>3. QED
    BY <2>2 DEF SteadyColumnsListed
<1>16. QED
  BY <1>8, <1>9, <1>10, <1>11, <1>12, <1>14, <1>15 DEF CatalogInv

LEMMA ListColumnsKept ==
  ASSUME CatalogAssumption, CatalogInv, ListColumns
  PROVE  CatalogInv'
<1>1. pc = "columns" /\ UNCHANGED <<document, metadata>>
  BY DEF ListColumns
<1>2. PICK p \in Pages(columnName[Head(page).id], columnToken) :
        /\ columnToken' = NextToken(columnName[Head(page).id], columnToken, p)
        /\ IF columnToken' # 0
           THEN /\ all' = all \o Items(columnName[Head(page).id], p)
                /\ UNCHANGED <<pc, tableToken, page, loaded>>
           ELSE FinishTable(all \o Items(columnName[Head(page).id], p))
  BY DEF ListColumns
<1> DEFINE columns == all \o Items(columnName[Head(page).id], p)
<1>3. Head(page) \in TableEntries /\ ColumnsUpTo(columns, columnToken', Head(page).id)
  BY <1>1, <1>2, ListedColumns
<1>4. CASE columnToken' # 0
  BY <1>1, <1>2, <1>3, <1>4, MoreColumnsKept
<1>5. CASE columnToken' = 0
  <2>1. FinishTable(columns)
    BY <1>2, <1>5
  <2> HIDE DEF columns
  <2>2. QED
    BY <1>1, <1>3, <1>5, <2>1, TableFinishedKept
<1>6. QED
  BY <1>4, <1>5

LEMMA ListingFailsKept ==
  ASSUME CatalogAssumption, CatalogInv, ListingFails
  PROVE  CatalogInv'
<1>1. /\ pc' = "failed" /\ loaded' = <<>> /\ all' = <<>> /\ page' = <<>>
      /\ tableToken' = 0 /\ columnToken' = 0 /\ metadata' = metadata
      /\ tableName' = tableName /\ columnName' = columnName
  BY DEF ListingFails, document
<1>2. DOMAIN loaded' = {} /\ DOMAIN all' = {} /\ DOMAIN page' = {}
  BY <1>1
<1>3. /\ page' \in Seq(TableEntries) /\ all' \in Seq(ColumnItems)
      /\ loaded' \in Seq(LoadedTables)
  BY <1>1, EmptySeq
<1>4. CatalogTypes'
  BY <1>1, <1>3 DEF CatalogInv, CatalogTypes
<1>5. Stages'
  BY <1>1 DEF Stages
<1>6. TableOrder'
  BY <1>1, <1>2 DEF TableOrder, Ascending, UpTo
<1>7. TablesRead' /\ ColumnsRead'
  BY <1>1, <1>2 DEF TablesRead, ColumnsRead, Ascending, UpTo
<1>8. ColumnNamesDistinct' /\ SteadyColumnsListed'
  BY <1>2 DEF ColumnNamesDistinct, SteadyColumnsListed
<1>9. QED
  BY <1>4, <1>5, <1>6, <1>7, <1>8 DEF CatalogInv

(* A load starts with nothing listed.                                      *)
LEMMA CatalogInvInit == CatalogAssumption /\ Init => CatalogInv
<1> SUFFICES ASSUME CatalogAssumption, Init PROVE CatalogInv
  OBVIOUS
<1>1. /\ pc = "tables" /\ tableToken = 0 /\ columnToken = 0 /\ metadata \in BOOLEAN
      /\ page = <<>> /\ all = <<>> /\ loaded = <<>>
  BY DEF Init
<1>2. DOMAIN loaded = {} /\ DOMAIN all = {} /\ DOMAIN page = {}
  BY <1>1
<1>3. page \in Seq(TableEntries) /\ all \in Seq(ColumnItems) /\ loaded \in Seq(LoadedTables)
  BY <1>1, EmptySeq
<1>4. /\ tableName \in [Tables -> TableNames \cup {Unborn, Gone}]
      /\ columnName \in [Tables -> [Columns -> ColumnNames \cup {Unborn, Gone}]]
  <2>1. PICK d \in Documents : tableName = d.tables /\ columnName = d.columns
    BY DEF Init
  <2>2. /\ d.tables \in [Tables -> TableNames \cup {Unborn}]
        /\ d.columns \in [Tables -> [Columns -> ColumnNames \cup {Unborn}]]
    BY DEF CatalogAssumption
  <2>3. [Columns -> ColumnNames \cup {Unborn}] \subseteq [Columns -> ColumnNames \cup {Unborn, Gone}]
    OBVIOUS
  <2>4. QED
    BY <2>1, <2>2, <2>3
<1>5. CatalogTypes
  BY <1>1, <1>3, <1>4 DEF CatalogTypes
<1>6. Stages
  BY <1>1 DEF Stages
<1>7. TableOrder
  BY <1>1, <1>2 DEF TableOrder, Ascending, UpTo
<1>8. TablesRead
  <2>1. \A t \in Tables : ~Passed(t)
    BY <1>1 DEF Passed
  <2>2. QED
    BY <2>1 DEF TablesRead
<1>9. ColumnsRead
  BY <1>1, <1>2 DEF ColumnsRead, Ascending, UpTo
<1>10. ColumnNamesDistinct /\ SteadyColumnsListed
  BY <1>2 DEF ColumnNamesDistinct, SteadyColumnsListed
<1>11. QED
  BY <1>5, <1>6, <1>7, <1>8, <1>9, <1>10 DEF CatalogInv

LEMMA CatalogInvHolds == Spec => []CatalogInv
<1>1. Init => CatalogInv
  BY CatalogInvInit, CatalogAssumption
<1>2. CatalogInv /\ [Next]_vars => CatalogInv'
  <2> SUFFICES ASSUME CatalogInv, [Next]_vars PROVE CatalogInv'
    OBVIOUS
  <2>1. CASE \E t \in Tables :
               \/ \E name \in TableNames : NameTable(t, name)
               \/ DropTable(t)
               \/ \E c \in Columns :
                    DropColumn(t, c) \/ \E name \in ColumnNames : NameColumn(t, c, name)
    BY <2>1, EditKept, CatalogAssumption
  <2>2. CASE ListTables
    BY <2>2, ListTablesKept, CatalogAssumption
  <2>3. CASE ListColumns
    BY <2>3, ListColumnsKept, CatalogAssumption
  <2>4. CASE ListingFails
    BY <2>4, ListingFailsKept, CatalogAssumption
  <2>5. CASE UNCHANGED vars
    <3>1. UNCHANGED <<metadata, load, tableName, columnName, touched>>
      BY <2>5 DEF vars, document
    <3>2. QED
      BY <3>1, DocumentSide DEF CatalogInv, CatalogTypes, SteadyTable, SteadyColumn
  <2>6. QED
    BY <2>1, <2>2, <2>3, <2>4, <2>5 DEF Next
<1>3. QED
  BY <1>1, <1>2, PTL DEF Spec

(* Every column of every table, repeated, empty or suffixed as its name    *)
(* may be in the document, has a name of its own.                          *)
THEOREM NamesAreDistinct == Spec => []ColumnNamesDistinct
<1>1. CatalogInv => ColumnNamesDistinct
  BY DEF CatalogInv
<1>2. QED
  BY <1>1, CatalogInvHolds, PTL

(* No page boundary and no edit makes a table lose or repeat a column that *)
(* nobody edits, or take one of another table.                             *)
THEOREM ColumnsAreListed == Spec => []SteadyColumnsListed
<1>1. CatalogInv => SteadyColumnsListed
  BY DEF CatalogInv
<1>2. QED
  BY <1>1, CatalogInvHolds, PTL

(* When the load is done it has come past every table, and a table that    *)
(* nobody edits was listed once, under its name.                           *)
LEMMA SteadyTableListed ==
  ASSUME CatalogAssumption, CatalogInv, pc = "done", NEW t \in Tables, SteadyTable(t)
  PROVE  \E i \in DOMAIN loaded :
           /\ loaded[i].name = tableName[t]
           /\ {j \in DOMAIN loaded : loaded[j].id = t} = {i}
<1>1. /\ CatalogTypes /\ tableToken = 0 /\ page = <<>>
      /\ TablesRead /\ Ascending(loaded)
  BY DEF CatalogInv, Stages, TableOrder
<1>2. Passed(t)
  BY <1>1 DEF Passed
<1>3. DOMAIN page = {}
  BY <1>1
<1>4. PICK i \in DOMAIN loaded : loaded[i].id = t /\ loaded[i].name = tableName[t]
  BY <1>1, <1>2, <1>3 DEF TablesRead
<1>5. ASSUME NEW j \in DOMAIN loaded, loaded[j].id = t
      PROVE  j = i
  <2>1. i \in Nat /\ j \in Nat /\ t \in Nat
    <3>1. Len(loaded) \in Nat /\ DOMAIN loaded = 1..Len(loaded)
      BY <1>1, SequenceFacts
    <3>2. t \in Nat
      BY ConstantFacts
    <3>3. QED
      BY <3>1, <3>2
  <2>2. (i < j => loaded[i].id < loaded[j].id) /\ (j < i => loaded[j].id < loaded[i].id)
    BY <1>1 DEF Ascending
  <2>3. QED
    BY <1>4, <1>5, <2>1, <2>2
<1>6. {j \in DOMAIN loaded : loaded[j].id = t} = {i}
  BY <1>4, <1>5
<1>7. QED
  BY <1>4, <1>6

(* A table that nobody edits during the load is found under its name,      *)
(* unless another was listed under the same name.                          *)
THEOREM SteadyTablesAreFound == Spec => []SteadyTablesFound
<1>1. CatalogInv => SteadyTablesFound
  <2> SUFFICES ASSUME CatalogInv, pc = "done", NEW t \in Tables, SteadyTable(t)
               PROVE  /\ HasEntry(tableName[t])
                      /\ LookupEntry(tableName[t]).id = t \/ Cardinality(Named(tableName[t])) > 1
                      /\ Cardinality({i \in DOMAIN loaded : loaded[i].id = t}) = 1
    BY DEF SteadyTablesFound
  <2> DEFINE name == tableName[t]
  <2>1. PICK i \in DOMAIN loaded : /\ loaded[i].name = name
                                  /\ {j \in DOMAIN loaded : loaded[j].id = t} = {i}
    BY SteadyTableListed, CatalogAssumption
  <2>2. loaded[i].id = t
    BY <2>1
  <2> HIDE DEF name
  <2>3. i \in Named(name)
    BY <2>1 DEF Named
  <2>4. Cardinality({j \in DOMAIN loaded : loaded[j].id = t}) = 1
    BY <2>1, FS_Singleton
  <2>5. IsFiniteSet(Named(name))
    <3>1. Len(loaded) \in Nat /\ DOMAIN loaded = 1..Len(loaded)
      BY SequenceFacts DEF CatalogInv
    <3>2. IsFiniteSet(DOMAIN loaded)
      BY <3>1, FS_Interval
    <3>3. Named(name) \in SUBSET (DOMAIN loaded)
      BY DEF Named
    <3>4. QED
      BY <3>2, <3>3, FS_Subset
  <2>6. Cardinality(Named(name)) \in Nat /\ Cardinality(Named(name)) # 0
    <3>1. Cardinality(Named(name)) \in Nat
      BY <2>5, FS_CardinalityType
    <3>2. QED
      BY <2>3, <2>5, <3>1, FS_EmptySet
  <2>7. CASE Cardinality(Named(name)) = 1
    <3>1. PICK x : Named(name) = {x}
      BY <2>5, <2>7, FS_Singleton
    <3>2. Named(name) = {i} /\ i <= i
      <4>1. Len(loaded) \in Nat /\ DOMAIN loaded = 1..Len(loaded)
        BY SequenceFacts DEF CatalogInv
      <4>2. QED
        BY <2>3, <3>1, <4>1
    <3>3. LookupEntry(name) = loaded[i]
      BY <3>2 DEF LookupEntry
    <3>4. QED
      BY <2>2, <2>3, <2>4, <3>3 DEF HasEntry, name
  <2>8. CASE Cardinality(Named(name)) # 1
    <3>1. Cardinality(Named(name)) > 1
      BY <2>6, <2>8
    <3>2. QED
      BY <2>3, <2>4, <3>1 DEF HasEntry, name
  <2>9. QED
    BY <2>7, <2>8
<1>2. QED
  BY <1>1, CatalogInvHolds, PTL
=============================================================================
